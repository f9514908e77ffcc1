---------------------------- MODULE CodecSession ----------------------------
(***************************************************************************)
(* One codec instance (class CodecInst, compress.cpp, device.cpp) and the  *)
(* OpenCL / OpenVideo objects it owns: CompressBegin acquires them in a    *)
(* fixed order and may fail at every acquisition, Compress uses them,      *)
(* CompressEnd and the destructor release them.  A handle table records    *)
(* what each handle variable of the class holds; `leaked' and `misuse'     *)
(* record what the table alone cannot show, and `past' what may be their   *)
(* cause.                                                                  *)
(***************************************************************************)
EXTENDS Integers

CONSTANTS
    Faults,      \* the points where the drivers may fail
    Careless,    \* what the host may do beyond the documented protocol
    IDRPeriods,  \* values of the IDRframes setting
    MaxFrame,    \* bound on the frame numbers the host sends
    MaxSize,     \* bound on the size of a compressed frame
    MaxSets,     \* bound on the parameter sets in a frame
    SetHeader    \* bytes in front of a set that is written again: 5 in the code

\* Points of CompressBegin that can fail; a fault named after a slot is the
\* failure to create what that slot holds.
BeginFaults == {"platform", "deviceInfo", "deviceList", "context", "caps",
                "queue", "surface", "session", "config", "cpuContext",
                "cpuDevice", "cpuQueue", "kernels"}

\* Points of encodeProcess that can fail.
FrameFaults == {"map", "flush", "convert", "task", "wait", "query"}

CarelessMoves == {"endIdle", "frameIdle", "configureRunning"}

ASSUME ConstantsAssumption ==
    /\ Faults \subseteq BeginFaults \cup FrameFaults
    /\ Careless \subseteq CarelessMoves
    /\ IDRPeriods \subseteq Nat /\ IDRPeriods # {}
    /\ MaxFrame \in Nat
    /\ MaxSize \in Nat \ {0}
    /\ MaxSets \in Nat
    /\ SetHeader \in Nat

VARIABLES
    alive,      \* the instance exists
    config,     \* the settings a session reads: useCL, useCPU, IDRframes
    started,    \* started == 0x1337
    format,     \* mCompression and mFormat: "rgb" or "yuv"
    idrFrames,  \* mIDRFrames
    size,       \* mCompressed_size
    hasIDR,     \* mHasIDR
    handle,     \* what each handle variable holds
    leaked,     \* slots whose object was lost without a release; "event" for
                \* the event of an encoder's task
    misuse,     \* slots released or used without holding a live object
    past,       \* history: the causes that have occurred, see Causes
    fresh,      \* a frame of this session has been compressed
    reply       \* what the host got back from its last message

vars == <<alive, config, started, format, idrFrames, size, hasIDR, handle,
          leaked, misuse, past, fresh, reply>>

Slots == {"deviceInfo", "context", "queue", "surface", "session",
          "cpuContext", "cpuQueue", "converter"}

\* "stale": a pointer to an object already released; "garbage": never set.
HandleState == {"null", "live", "stale", "garbage"}

Configs == [useCL : BOOLEAN, useCPU : BOOLEAN, idr : IDRPeriods]

\* What the history keeps: the failures and the moves of the host that some
\* property names as the cause of a misuse or a loss.
Causes == {"cpuDevice", "cpuQueue", "wait", "query", "endIdle", "configureRunning"}

\* What the encoder made of a frame, and what the second half of encodeProcess
\* makes of that: `copied' bytes, in which `sets' parameter sets are written
\* again (none if an IDR slice comes first), which leaves the size at `told';
\* `idr': there is an IDR slice.
Outputs ==
    {o \in [copied : 0 .. MaxSize, told : 0 .. MaxSize, sets : 0 .. MaxSets,
            idr : BOOLEAN] :
        /\ o.copied = 0 => ~o.idr /\ o.sets = 0
        /\ o.sets = 0 => o.told = o.copied}

\* A reply to ICM_COMPRESS carries a size and a key-frame flag; the rest is
\* what really happened in the call: `written' bytes are in the output buffer,
\* with `sets' and `idr' as above; `due': the frame number is a multiple of
\* the IDR period.  ok: the message is answered with ICERR_OK.
NoReply == [msg |-> "none", ok |-> TRUE, size |-> 0, key |-> FALSE,
            written |-> 0, sets |-> 0, idr |-> FALSE, due |-> FALSE]

Replies == [msg : {"none", "begin", "compress", "end"}, ok : BOOLEAN,
            size : 0 .. MaxSize, key : BOOLEAN,
            written : 0 .. MaxSize + SetHeader * MaxSets,
            sets : 0 .. MaxSets, idr : BOOLEAN, due : BOOLEAN]

-----------------------------------------------------------------------------
(* The handle table *)

\* The constructor zeroes every handle except mCpuCmdQueue.
NewTable == [s \in Slots |-> IF s = "cpuQueue" THEN "garbage" ELSE "null"]

\* CompressEnd releases what is not NULL; of the CPU pair it looks at the
\* context alone, and releases the queue with it whatever it is.
ReleasedBy(h) ==
    {s \in Slots : IF s = "cpuQueue" THEN h["cpuContext"] # "null"
                                     ELSE h[s] # "null"}

\* Mutants of EndTable: encodeClose forgets to clear the session pointer;
\* CompressEnd forgets the device list.
EndTableKeepsSession(h) ==
    [s \in Slots |->
        IF s \in {"context", "session"} THEN IF h[s] = "null" THEN "null" ELSE "stale"
        ELSE IF s = "cpuQueue" /\ h["cpuContext"] = "null" THEN h[s]
        ELSE "null"]

EndTableKeepsDeviceInfo(h) ==
    [s \in Slots |->
        IF s = "context" THEN IF h[s] = "null" THEN "null" ELSE "stale"
        ELSE IF s = "deviceInfo" \/ (s = "cpuQueue" /\ h["cpuContext"] = "null") THEN h[s]
        ELSE "null"]

\* encodeDestroy takes its handle by value: mOveContext keeps the pointer.
EndTable(h) ==
    [s \in Slots |->
        IF s = "context" THEN IF h[s] = "null" THEN "null" ELSE "stale"
        ELSE IF s = "cpuQueue" /\ h["cpuContext"] = "null" THEN h[s]
        ELSE "null"]

BadReleases(h) == {s \in ReleasedBy(h) : h[s] # "live"}

\* CompressBegin makes its objects in this order; each set holds the ends of
\* CompressBegin that come before an object is there.
BeforeDeviceInfo == {"format", "platform", "deviceInfo"}
BeforeContext == BeforeDeviceInfo \cup {"deviceList", "context"}
BeforeQueue == BeforeContext \cup {"caps", "queue"}
BeforeSurface == BeforeQueue \cup {"surface"}
BeforeSession == BeforeSurface \cup {"session"}
BeforeCpuContext == BeforeSession \cup {"config", "cpuContext"}
BeforeCpuQueue == BeforeCpuContext \cup {"cpuDevice", "cpuQueue"}

\* The slots CompressBegin has filled when it ends with f ("none": success).
Acquired(f) ==
    {s \in Slots :
        \/ s = "deviceInfo" /\ f \notin BeforeDeviceInfo
        \/ s = "context" /\ f \notin BeforeContext
        \/ s = "queue" /\ f \notin BeforeQueue
        \/ s = "surface" /\ f \notin BeforeSurface
        \/ s = "session" /\ f \notin BeforeSession
        \/ s = "converter" /\ f \notin BeforeCpuQueue /\ config.useCL
        \/ /\ config.useCL /\ config.useCPU
           /\ \/ s = "cpuContext" /\ f \notin BeforeCpuContext
              \/ s = "cpuQueue" /\ f \notin BeforeCpuQueue}

\* Mutant of Assigned: encodeCreate does not set the context to NULL first,
\* and nobody assigns what could not be created.
AssignedIfMade(f) == Acquired(f)

\* The slots it has assigned: those, and the one whose creation failed.
Assigned(f) == Acquired(f) \cup ({f} \cap Slots)

\* Mutant of CleanedUp: a failed setEncodeConfig returns without CompressEnd.
CleanedUpButConfig == {"context", "caps", "queue", "surface", "session", "kernels"}

\* The failures CompressBegin answers with CompressEnd.
CleanedUp == {"context", "caps", "queue", "surface", "session", "config",
              "kernels"}

FillTable(h, f) ==
    [s \in Slots |-> IF s \in Acquired(f) THEN "live"
                     ELSE IF s \in Assigned(f) THEN "null"
                     ELSE h[s]]

Overwritten(h, f) == {s \in Assigned(f) : h[s] = "live"}

-----------------------------------------------------------------------------
(* CompressBegin *)

CanFail(f) ==
    /\ f \in Faults \cap BeginFaults
    /\ f \in {"cpuContext", "cpuDevice", "cpuQueue"} => config.useCL /\ config.useCPU
    /\ f = "kernels" => config.useCL

\* How a CompressBegin may end: it succeeds, the host's format is rejected by
\* CompressQuery, or one of the drivers' failures strikes.
BeginEnds(f) == f \in {"none", "format"} \/ CanFail(f)

\* A session still running is ended first.
TableAtBegin == IF started THEN EndTable(handle) ELSE handle

TableInBegin(f) == FillTable(TableAtBegin, f)

TableAfterBegin(f) ==
    IF f \in CleanedUp THEN EndTable(TableInBegin(f)) ELSE TableInBegin(f)

MisuseInBegin(f) ==
    (IF started THEN BadReleases(handle) ELSE {})
    \cup (IF f \in CleanedUp THEN BadReleases(TableInBegin(f)) ELSE {})

\* Mutant of SizeAfterBegin: CompressBegin leaves mCompressed_size alone.
SizeKeptByBegin(f) == IF started THEN 0 ELSE size

\* mCompressed_size is reset once the format is accepted, and by CompressEnd.
SizeAfterBegin(f) == IF f # "format" \/ started THEN 0 ELSE size

\* Mutant of StartedAfter: no return after the kernels failed to build.
StartedDespiteKernels(f) == f \in {"none", "kernels"}

StartedAfter(f) == f = "none"

\* Mutant of BeginOk: no error is returned after the kernels failed to build.
BeginOkDespiteKernels(f) == f \in {"none", "kernels"}

\* What CompressBegin returns: 1 for a format that is refused, ICERR_INTERNAL
\* for every other failure.
BeginOk(f) == f = "none"

\* The whole of CompressBegin except its reply, mCompressed_size and the two
\* records that ICM_COMPRESS goes on to change.
Opening(fmt, f) ==
    /\ BeginEnds(f)
    /\ handle' = TableAfterBegin(f)
    /\ misuse' = misuse \cup MisuseInBegin(f)
    /\ started' = StartedAfter(f)
    /\ format' = IF f = "format" THEN format ELSE fmt
    /\ idrFrames' = IF f = "format" THEN idrFrames ELSE config.idr

CompressBegin(fmt, f) ==
    /\ alive
    /\ Opening(fmt, f)
    /\ size' = SizeAfterBegin(f)
    /\ leaked' = leaked \cup Overwritten(TableAtBegin, f)
    /\ past' = past \cup ({f} \cap Causes)
    /\ fresh' = FALSE
    /\ reply' = [NoReply EXCEPT !.msg = "begin", !.ok = BeginOk(f)]
    /\ UNCHANGED <<alive, config, hasIDR>>

-----------------------------------------------------------------------------
(* CompressEnd *)

CompressEnd ==
    /\ alive
    /\ started \/ "endIdle" \in Careless
    /\ handle' = EndTable(handle)
    /\ misuse' = misuse \cup BadReleases(handle)
    /\ past' = IF started THEN past ELSE past \cup {"endIdle"}
    /\ started' = FALSE
    /\ size' = 0
    /\ fresh' = FALSE
    /\ reply' = [NoReply EXCEPT !.msg = "end"]
    /\ UNCHANGED <<alive, config, format, idrFrames, hasIDR, leaked>>

-----------------------------------------------------------------------------
(* Compress *)

\* The input surface is mapped for the CPU unless a kernel converts RGB.
Mapped(fmt) == ~config.useCL \/ fmt = "yuv"

FrameCanFail(g, fmt) ==
    /\ g \in Faults \cap FrameFaults
    /\ g = "convert" => ~Mapped(fmt)
    /\ g = "flush" => Mapped(fmt)
    /\ g # "map"      \* see CrashInCompress

FrameEnds(g, fmt) == g = "none" \/ FrameCanFail(g, fmt)

\* The task has been queried and its output copied, if it has any: "flush" is
\* an error of the last call that unmaps the surface, which stops nothing.
Encoded(g) == g \in {"none", "flush"}

\* encodeProcess returns the status of the (un)mapping calls and nothing else.
ProcessOk(g) == g # "flush"

Due(n, period) == period > 0 /\ n % period = 0

\* Mutant of ScanResult: the flag is not cleared before the scan.
ScanResultSticky(g, o) == hasIDR \/ (Encoded(g) /\ o.idr /\ o.sets = 0)

\* mHasIDR after the frame: written only when the output buffer is scanned,
\* and the scan ends at the first parameter set or IDR slice.
ScanResult(g, o) == IF Encoded(g) THEN o.idr /\ o.sets = 0 ELSE hasIDR

\* Mutant of SizeAfterFrame: mCompressed_size is not reset before the copy.
SizeAccumulates(before, g, o) == IF Encoded(g) THEN before + o.told ELSE before

\* The size of the copied bytes, and for each parameter set the difference
\* between the set that add_vui wrote and the unit that was read.
SizeAfterFrame(before, g, o) == IF Encoded(g) THEN o.told ELSE before

\* What is in the buffer then: a start code and a header precede each set.
Written(g, o) == IF Encoded(g) THEN o.told + SetHeader * o.sets ELSE 0

\* Between OVEncodeTask and its release at the end of the copy, an error
\* leaves the event of the task to nobody.
EventLost(g) == IF g \in {"wait", "query"} THEN {"event"} ELSE {}

\* encodeProcess for frame n, and the reply of Compress: the encoder makes o
\* of it, unless its task fails.
Encode(n, fmt, period, before, g, o) ==
    /\ FrameEnds(g, fmt)
    /\ size' = SizeAfterFrame(before, g, o)
    /\ hasIDR' = ScanResult(g, o)
    /\ past' = past \cup ({g} \cap Causes)
    /\ reply' = [msg |-> "compress", ok |-> ProcessOk(g), size |-> size',
                 key |-> ProcessOk(g) /\ (hasIDR' \/ Due(n, period)),
                 written |-> Written(g, o),
                 sets |-> IF Encoded(g) THEN o.sets ELSE 0,
                 idr |-> Encoded(g) /\ o.idr, due |-> Due(n, period)]

\* The RGB path calls mCLConvert whenever mUseCLConv is set now, whatever it
\* was when the session began.
ConverterReady(fmt) == Mapped(fmt) \/ handle["converter"] = "live"

CompressRunning(n, g, o) ==
    /\ alive /\ started
    /\ ConverterReady(format)
    /\ Encode(n, format, idrFrames, size, g, o)
    /\ leaked' = leaked \cup EventLost(g)
    /\ fresh' = (fresh \/ Encoded(g))
    /\ UNCHANGED <<alive, config, started, format, idrFrames, handle, misuse>>

\* Frame 0 opens the session if there is none.
CompressFirst(fmt, g, o) ==
    /\ alive /\ ~started
    /\ Opening(fmt, "none")
    /\ Encode(0, fmt, config.idr, 0, g, o)
    /\ leaked' = leaked \cup Overwritten(TableAtBegin, "none") \cup EventLost(g)
    /\ fresh' = Encoded(g)
    /\ UNCHANGED <<alive, config>>

\* Its failure is the answer to the frame.
CompressFirstRefused(fmt, f) ==
    /\ alive /\ ~started
    /\ f # "none"
    /\ Opening(fmt, f)
    /\ size' = SizeAfterBegin(f)
    /\ leaked' = leaked \cup Overwritten(TableAtBegin, f)
    /\ past' = past \cup ({f} \cap Causes)
    /\ reply' = [NoReply EXCEPT !.msg = "compress", !.ok = BeginOk(f)]
    /\ UNCHANGED <<alive, config, hasIDR, fresh>>

-----------------------------------------------------------------------------
(* The instance and its process *)

\* The misuses that end the process: see CrashInCompress.
Fatal == {"converter", "surface", "session"}

Crashed == misuse \cap Fatal # {}

\* The constructor leaves mCompressed_size, mIDRFrames and mHasIDR unset.  What
\* was recorded of a process that has ended is no concern of the next one.
Open(c) ==
    /\ ~alive
    /\ alive' = TRUE
    /\ config' = c
    /\ started' = FALSE
    /\ handle' = NewTable
    /\ fresh' = FALSE
    /\ format' \in {"rgb", "yuv"}
    /\ idrFrames' \in IDRPeriods
    /\ size' \in 0 .. MaxSize
    /\ hasIDR' \in BOOLEAN
    /\ reply' = NoReply
    /\ misuse' = IF Crashed THEN {} ELSE misuse
    /\ past' = IF Crashed THEN {} ELSE past
    /\ leaked' = IF Crashed THEN {} ELSE leaked

\* The destructor ends a running session; what the table still holds after
\* that is lost with the instance.
TableAtDelete == IF started THEN EndTable(handle) ELSE handle

Delete ==
    /\ alive
    /\ alive' = FALSE
    /\ started' = FALSE
    /\ handle' = TableAtDelete
    /\ misuse' = misuse \cup (IF started THEN BadReleases(handle) ELSE {})
    /\ leaked' = leaked \cup {s \in Slots : TableAtDelete[s] = "live"}
    /\ size' = IF started THEN 0 ELSE size
    /\ fresh' = FALSE
    /\ reply' = NoReply
    /\ UNCHANGED <<config, format, idrFrames, hasIDR, past>>

\* The settings dialog changes the instance's settings as its controls are
\* clicked.
Configure(c) ==
    /\ alive
    /\ started => "configureRunning" \in Careless
    /\ config' = c
    /\ past' = IF started THEN past \cup {"configureRunning"} ELSE past
    /\ UNCHANGED <<alive, started, format, idrFrames, size, hasIDR, handle,
                   leaked, misuse, fresh, reply>>

\* A frame for a session that does not exist, a kernel conversion without a
\* converter, or a wait on the event of a mapping that failed: the process
\* does not survive, and the system takes back what it held.
Crashing(n) ==
    IF started
    THEN IF ~ConverterReady(format) THEN {"converter"}
         ELSE IF "map" \in Faults /\ Mapped(format) THEN {"surface"} ELSE {}
    ELSE IF n = 0 THEN IF "map" \in Faults THEN {"surface"} ELSE {}
         ELSE IF "frameIdle" \in Careless THEN {"session"} ELSE {}

CrashInCompress(n) ==
    /\ alive
    /\ Crashing(n) # {}
    /\ misuse' = misuse \cup Crashing(n)
    /\ alive' = FALSE
    /\ started' = FALSE
    /\ handle' = NewTable
    /\ fresh' = FALSE
    /\ reply' = NoReply
    /\ UNCHANGED <<config, format, idrFrames, size, hasIDR, leaked, past>>

-----------------------------------------------------------------------------
Init ==
    /\ alive = FALSE
    /\ config \in Configs
    /\ started = FALSE
    /\ format = "rgb"
    /\ idrFrames \in IDRPeriods
    /\ size = 0
    /\ hasIDR = FALSE
    /\ handle = NewTable
    /\ leaked = {}
    /\ misuse = {}
    /\ past = {}
    /\ fresh = FALSE
    /\ reply = NoReply

Formats == {"rgb", "yuv"}
Ends == {"none", "format"} \cup BeginFaults
FrameOutcomes == {"none"} \cup FrameFaults

Next ==
    \/ \E c \in Configs : Open(c) \/ Configure(c)
    \/ \E fmt \in Formats, f \in Ends :
          CompressBegin(fmt, f) \/ CompressFirstRefused(fmt, f)
    \/ \E g \in FrameOutcomes, o \in Outputs :
          \/ \E n \in 0 .. MaxFrame : CompressRunning(n, g, o)
          \/ \E fmt \in Formats : CompressFirst(fmt, g, o)
    \/ CompressEnd
    \/ Delete
    \/ \E n \in 0 .. MaxFrame : CrashInCompress(n)

Spec == Init /\ [][Next]_vars

-----------------------------------------------------------------------------
(* Properties *)

TypeOK ==
    /\ alive \in BOOLEAN /\ started \in BOOLEAN /\ hasIDR \in BOOLEAN
    /\ fresh \in BOOLEAN
    /\ config \in Configs
    /\ format \in Formats
    /\ idrFrames \in IDRPeriods
    /\ size \in 0 .. MaxSize
    /\ handle \in [Slots -> HandleState]
    /\ leaked \subseteq Slots \cup {"event"}
    /\ misuse \subseteq Slots
    /\ past \subseteq Causes \cap (Faults \cup Careless)
    /\ reply \in Replies

EncoderSlots == {"deviceInfo", "context", "queue", "surface", "session"}

\* While started says a session runs (compress.cpp:106, 329), everything a
\* frame needs is really there: no failure path leaves started set, and no
\* release happens behind its back.
StartedOwnsEncoder ==
    started => alive /\ \A s \in EncoderSlots : handle[s] = "live"

\* An instance that is not encoding holds nothing (compress.cpp:250): every
\* failed CompressBegin, however far it came, undid what it had acquired.
IdleHoldsNothing == ~started => \A s \in Slots : handle[s] # "live"

\* Nothing that the handle variables hold becomes unreachable before it was
\* released: a restart, a failed start, a close in the middle of a session lose
\* nothing.  The one object that is lost is the event of a task whose wait or
\* query failed, for both jump over its release (compress.cpp:736-758, 783).
NothingLost ==
    /\ leaked \subseteq {"event"}
    /\ "event" \in leaked => past \cap {"wait", "query"} # {}

\* Nothing is released twice, released unset, or used when absent.
NoMisuse == misuse = {}

\* What goes wrong has had its cause before it.  The context is released twice
\* only if the host once ended an idle session (and not after a start that
\* failed behind a session that was closed); the converter is missing only if
\* the settings once changed under a session; a CPU queue that is not there is
\* released only if, earlier, a CPU context was left without one.  The other
\* two are the frame without a session and the mapping that failed, and there
\* is no misuse but these five.
MisuseAttributed ==
    /\ "context" \in misuse => "endIdle" \in past
    /\ "converter" \in misuse => "configureRunning" \in past
    /\ "cpuQueue" \in misuse => past \cap {"cpuDevice", "cpuQueue"} # {}
    /\ misuse \subseteq {"context", "converter", "session", "surface", "cpuQueue"}

\* What the host is told of a frame that was encoded.  The size is that of this
\* frame's bytes, short of the start code and header of each parameter set that
\* was written again (compress.cpp:815-823), and by nothing else.  The flag is
\* set exactly for a frame that was due, or whose IDR slice has no parameter
\* set before it (compress.cpp:349-360, 794-844); an error after the encoding
\* clears it.  No earlier frame, failed or not, has a part in either.
EncodedFrameReported ==
    reply.written # 0 =>
        /\ reply.size = reply.written - SetHeader * reply.sets
        /\ reply.key <=> /\ reply.ok
                         /\ reply.due \/ (reply.idr /\ reply.sets = 0)

\* Until a session has encoded a frame it cannot report a size, so that a
\* failed first frame never carries bytes of an earlier session.
SizeBelongsToSession == started /\ ~fresh => size = 0

\* "@return bool : true if successful; otherwise false." (compress.cpp:549):
\* a frame is answered with ICERR_OK only if it was encoded.
OkMeansEncoded == reply.msg = "compress" /\ reply.ok => reply.written # 0

\* What the host makes of the last reply: the message and the code returned.
Answer ==
    CASE reply.msg = "none" -> "none"
      [] reply.msg = "end" -> "ended"
      [] reply.msg = "begin" -> IF reply.ok THEN "begun" ELSE "refused"
      [] reply.msg = "compress" -> IF reply.ok THEN "frame" ELSE "failed"

\* The promise to the host: see SessionContract.
Contract == INSTANCE SessionContract WITH
    phase <- IF started THEN "encoding" ELSE "idle",
    holds <- \E s \in Slots : handle[s] = "live",
    bytes <- IF started THEN size ELSE 0,
    answer <- Answer

\* Every step of the codec is a step of the promised session, or none: what
\* the host is told with the code of a message is what has become of the
\* session, of what it holds and of its size.
ImplementsContract == Contract!Spec
=============================================================================
