------------------------- MODULE CodecSessionProofs -------------------------
(***************************************************************************)
(* Proofs about CodecSession, for every set of driver failures, every host *)
(* and every bound.                                                        *)
(***************************************************************************)
EXTENDS CodecSession, TLAPS

\* What a handle table of the class looks like after the causes p: only
\* mOveContext can dangle; there is a CPU context without its queue only if the
\* CPU device could not be found or the queue not be made.
Sound(h, p) ==
    /\ h \in [Slots -> HandleState]
    /\ \A s \in Slots \ {"context", "cpuQueue"} : h[s] \in {"null", "live"}
    /\ h["context"] \in {"null", "live", "stale"}
    /\ h["cpuQueue"] \in {"null", "live", "garbage"}
    /\ h["cpuQueue"] = "live" => h["cpuContext"] = "live"
    /\ h["cpuContext"] = "live" /\ h["cpuQueue"] # "live" => p \cap {"cpuDevice", "cpuQueue"} # {}

\* Between two messages, the CPU queue is held only by a session.
TableOK == Sound(handle, past) /\ (handle["cpuQueue"] = "live" => started)

\* Unless the settings change under a session, a session that converts with
\* OpenCL has its converter.
ConverterOK ==
    started /\ config.useCL /\ "configureRunning" \notin past
        => handle["converter"] = "live"

\* The two misuses that end the process at once are what the instance of the
\* model lets happen.
CrashCaused ==
    /\ "session" \in misuse => "frameIdle" \in Careless
    /\ "surface" \in misuse => "map" \in Faults

\* The inductive invariant.
IInv ==
    /\ TypeOK /\ StartedOwnsEncoder /\ TableOK /\ ConverterOK
    /\ MisuseAttributed /\ CrashCaused

-----------------------------------------------------------------------------
(* The handle table *)

\* CompressEnd turns a table into a table, and leaves nothing live but a CPU
\* queue without a CPU context.
LEMMA EndTableFacts ==
    ASSUME NEW h \in [Slots -> HandleState]
    PROVE  /\ EndTable(h) \in [Slots -> HandleState]
           /\ \A s \in Slots \ {"context", "cpuQueue"} : EndTable(h)[s] = "null"
           /\ EndTable(h)["context"] = IF h["context"] = "null" THEN "null" ELSE "stale"
           /\ EndTable(h)["cpuQueue"] =
                 IF h["cpuContext"] = "null" THEN h["cpuQueue"] ELSE "null"
  BY DEF EndTable, Slots, HandleState

LEMMA EndTableSound ==
    ASSUME NEW h, NEW p, Sound(h, p)
    PROVE  Sound(EndTable(h), p) /\ \A s \in Slots : EndTable(h)[s] # "live"
  <1>1. h \in [Slots -> HandleState]
    BY DEF Sound
  <1>2. h["cpuQueue"] = "live" => h["cpuContext"] = "live"
    BY DEF Sound
  <1> QED BY <1>1, <1>2, EndTableFacts DEF Sound, Slots, HandleState

\* Only the context and the CPU queue can be released without being live.
LEMMA BadReleasesFacts ==
    ASSUME NEW h, NEW p, Sound(h, p)
    PROVE  /\ BadReleases(h) \subseteq {"context", "cpuQueue"}
           /\ "context" \in BadReleases(h) => h["context"] = "stale"
           /\ "cpuQueue" \in BadReleases(h) => p \cap {"cpuDevice", "cpuQueue"} # {}
  BY DEF BadReleases, ReleasedBy, Sound, Slots, HandleState

\* CompressBegin fills slots, and nothing else.
LEMMA FillTableFacts ==
    ASSUME NEW h \in [Slots -> HandleState], NEW f \in Ends
    PROVE  /\ Assigned(f) \subseteq Slots
           /\ FillTable(h, f) \in [Slots -> HandleState]
           /\ \A s \in Slots : FillTable(h, f)[s] =
                 IF s \in Acquired(f) THEN "live"
                 ELSE IF s \in Assigned(f) THEN "null" ELSE h[s]
  BY DEF FillTable, Assigned, Acquired, Slots, HandleState

\* What is sound stays so when more has happened.
LEMMA SoundLater ==
    ASSUME NEW h, NEW p, Sound(h, p), NEW q, p \subseteq q
    PROVE  Sound(h, q)
  BY DEF Sound

\* An end at f fills a sound table without a CPU queue soundly, if f can happen
\* and is remembered.
LEMMA FillTableSound ==
    ASSUME NEW h, NEW p, Sound(h, p), h["cpuQueue"] # "live",
           NEW f \in Ends, BeginEnds(f),
           NEW q, p \subseteq q, {f} \cap Causes \subseteq q
    PROVE  Sound(FillTable(h, f), q)
  <1>1. h \in [Slots -> HandleState]
    BY DEF Sound
  <1> DEFINE t == FillTable(h, f)
  <1>2. /\ t \in [Slots -> HandleState]
        /\ \A s \in Slots : t[s] = IF s \in Acquired(f) THEN "live"
                                   ELSE IF s \in Assigned(f) THEN "null" ELSE h[s]
    BY <1>1, FillTableFacts
  <1> HIDE DEF t
  <1>3. \A s \in Slots \ {"context", "cpuQueue"} : t[s] \in {"null", "live"}
    BY <1>2 DEF Sound
  <1>4. t["context"] \in {"null", "live", "stale"} /\ t["cpuQueue"] \in {"null", "live", "garbage"}
    BY <1>2 DEF Sound, Slots
  <1>5. "cpuQueue" \in Acquired(f) => "cpuContext" \in Acquired(f)
    BY DEF Acquired, Slots, BeforeCpuQueue
  <1>7. t["cpuQueue"] = "live" => t["cpuContext"] = "live"
    BY <1>2, <1>5 DEF Sound, Slots
  <1>8. t["cpuContext"] = "live" /\ t["cpuQueue"] # "live"
        => q \cap {"cpuDevice", "cpuQueue"} # {}
    <2> SUFFICES ASSUME t["cpuContext"] = "live", t["cpuQueue"] # "live"
                 PROVE  q \cap {"cpuDevice", "cpuQueue"} # {}
      OBVIOUS
    <2>1. "cpuQueue" \in Slots /\ "cpuContext" \in Slots
      BY DEF Slots
    <2>2. "cpuQueue" \notin Acquired(f)
      BY <1>2, <2>1
    <2>3. CASE "cpuContext" \in Acquired(f)
      <3>1. f \in {"cpuDevice", "cpuQueue"}
        BY <2>2, <2>3 DEF Acquired, Slots, BeforeCpuQueue
      <3> QED BY <3>1 DEF Causes
    <2>4. CASE "cpuContext" \notin Acquired(f)
      <3>1. h["cpuContext"] = "live"
        BY <1>2, <2>1, <2>4
      <3> QED BY <3>1 DEF Sound
    <2> QED BY <2>3, <2>4
  <1> QED BY <1>2, <1>3, <1>4, <1>7, <1>8 DEF Sound, t

-----------------------------------------------------------------------------
(* CompressBegin *)

\* A CompressBegin that succeeds has filled every slot of the encoder.
LEMMA SuccessFills ==
    ASSUME NEW h \in [Slots -> HandleState]
    PROVE  /\ \A s \in EncoderSlots : FillTable(h, "none")[s] = "live"
           /\ config.useCL => FillTable(h, "none")["converter"] = "live"
  <1>1. "none" \in Ends /\ EncoderSlots \subseteq Slots
    BY DEF Ends, EncoderSlots, Slots
  <1>2. EncoderSlots \subseteq Acquired("none")
        /\ (config.useCL => "converter" \in Acquired("none"))
    BY DEF EncoderSlots, Acquired, Slots, BeforeDeviceInfo, BeforeContext, BeforeQueue,
           BeforeSurface, BeforeSession, BeforeCpuContext, BeforeCpuQueue
  <1> QED BY <1>1, <1>2, FillTableFacts DEF Slots

\* Where CompressBegin cleans up, the context it holds is not dangling.
LEMMA CleanedUpContext ==
    ASSUME NEW h \in [Slots -> HandleState], NEW f \in CleanedUp
    PROVE  FillTable(h, f)["context"] # "stale"
  <1>1. f \in Ends /\ "context" \in Slots
    BY DEF Ends, CleanedUp, BeginFaults, Slots
  <1>2. "context" \in Assigned(f)
    BY DEF Assigned, Acquired, CleanedUp, Slots, BeforeContext, BeforeDeviceInfo
  <1> QED BY <1>1, <1>2, FillTableFacts

\* The queue is filled only where CompressBegin succeeds or cleans up.
LEMMA QueueFilledOnce ==
    ASSUME NEW h \in [Slots -> HandleState], h["cpuQueue"] # "live", NEW f \in Ends,
           FillTable(h, f)["cpuQueue"] = "live"
    PROVE  f \in {"none", "kernels"}
  <1>1. "cpuQueue" \in Slots
    BY DEF Slots
  <1>2. "cpuQueue" \in Acquired(f)
    BY <1>1, FillTableFacts
  <1>3. f \notin BeforeCpuQueue
    BY <1>2 DEF Acquired
  <1> QED
    BY <1>3 DEF Ends, BeginFaults, BeforeCpuQueue, BeforeCpuContext, BeforeSession,
                BeforeSurface, BeforeQueue, BeforeContext, BeforeDeviceInfo

\* What the shared part of CompressBegin and of a first frame does to the
\* table and to what is recorded beside it, if its failure is remembered.
LEMMA OpeningFacts ==
    ASSUME IInv, NEW fmt \in Formats, NEW f \in Ends, Opening(fmt, f),
           past \subseteq past', {f} \cap Causes \subseteq past'
    PROVE  /\ handle' \in [Slots -> HandleState] /\ started' \in BOOLEAN
           /\ format' \in Formats /\ idrFrames' \in IDRPeriods
           /\ Overwritten(TableAtBegin, f) \subseteq Slots
           /\ started' => \A s \in EncoderSlots : handle'[s] = "live"
           /\ started' /\ config.useCL => handle'["converter"] = "live"
           /\ TableOK' /\ MisuseAttributed' /\ CrashCaused' /\ misuse' \subseteq Slots
  <1> DEFINE h == TableAtBegin
             t == TableInBegin(f)
  <1>1. Sound(h, past) /\ h["cpuQueue"] # "live" /\ h \in [Slots -> HandleState]
    <2>1. CASE started
      <3>1. Sound(h, past) /\ \A s \in Slots : h[s] # "live"
        BY <2>1, EndTableSound DEF IInv, TableOK, TableAtBegin
      <3> QED BY <3>1 DEF Sound, Slots
    <2>2. CASE ~started
      BY <2>2 DEF IInv, TableOK, TableAtBegin, Sound
    <2> QED BY <2>1, <2>2 DEF IInv, TypeOK
  <1>2. BeginEnds(f) /\ t = FillTable(h, f)
    BY DEF Opening, TableInBegin
  <1>3. Sound(t, past') /\ t \in [Slots -> HandleState]
    <2>1. Sound(FillTable(h, f), past')
      BY <1>1, <1>2, FillTableSound
    <2> QED BY <1>2, <2>1 DEF Sound
  <1>4. Sound(EndTable(t), past') /\ \A s \in Slots : EndTable(t)[s] # "live"
    BY <1>3, EndTableSound
  <1>5. handle' = IF f \in CleanedUp THEN EndTable(t) ELSE t
    BY DEF Opening, TableAfterBegin
  <1>6. started' = (f = "none") /\ "none" \notin CleanedUp
    BY DEF Opening, StartedAfter, CleanedUp
  <1>7. started' => /\ \A s \in EncoderSlots : handle'[s] = "live"
                    /\ config.useCL => handle'["converter"] = "live"
    BY <1>1, <1>2, <1>5, <1>6, SuccessFills
  <1>8. TableOK'
    <2>1. Sound(handle', past')
      BY <1>3, <1>4, <1>5
    <2>2. handle'["cpuQueue"] = "live" => started'
      <3>1. CASE f \in CleanedUp
        BY <1>4, <1>5, <3>1 DEF Slots
      <3>2. CASE f \notin CleanedUp
        <4>1. handle' = t /\ "kernels" \in CleanedUp
          BY <1>5, <3>2 DEF CleanedUp
        <4> QED BY <1>1, <1>2, <1>6, <3>2, <4>1, QueueFilledOnce
      <3> QED BY <3>1, <3>2
    <2> QED BY <2>1, <2>2 DEF TableOK, Sound
  <1>9. \A s \in MisuseInBegin(f) : s = "cpuQueue" /\ past' \cap {"cpuDevice", "cpuQueue"} # {}
    <2>1. ASSUME started
          PROVE  \A s \in BadReleases(handle) :
                    s = "cpuQueue" /\ past \cap {"cpuDevice", "cpuQueue"} # {}
      <3>1. handle["context"] = "live"
        BY <2>1 DEF IInv, StartedOwnsEncoder, EncoderSlots
      <3> QED BY <3>1, BadReleasesFacts DEF IInv, TableOK
    <2>2. ASSUME f \in CleanedUp
          PROVE  \A s \in BadReleases(t) :
                    s = "cpuQueue" /\ past' \cap {"cpuDevice", "cpuQueue"} # {}
      BY <1>1, <1>2, <1>3, <2>2, BadReleasesFacts, CleanedUpContext
    <2> QED BY <2>1, <2>2 DEF MisuseInBegin
  <1>10. MisuseAttributed' /\ CrashCaused' /\ misuse' \subseteq Slots
    <2>1. misuse' = misuse \cup MisuseInBegin(f)
      BY DEF Opening
    <2>2. \A s \in MisuseInBegin(f) : s = "cpuQueue"
      BY <1>9
    <2>3. MisuseAttributed'
      BY <1>9, <2>1 DEF MisuseAttributed, IInv
    <2>4. CrashCaused' /\ misuse' \subseteq Slots
      BY <2>1, <2>2 DEF CrashCaused, IInv, TypeOK, Slots
    <2> QED BY <2>3, <2>4
  <1>11. format' \in Formats /\ idrFrames' \in IDRPeriods
    BY DEF Opening, IInv, TypeOK, Configs
  <1>12. Overwritten(TableAtBegin, f) \subseteq Slots
    BY FillTableFacts, <1>1 DEF Overwritten
  <1> QED
    BY <1>6, <1>7, <1>8, <1>10, <1>11, <1>12 DEF TableOK, Sound
-----------------------------------------------------------------------------
(* Compress, and the invariant *)

\* What encodeProcess changes, and the reply made of it.
LEMMA EncodeFacts ==
    ASSUME TypeOK, NEW n \in 0 .. MaxFrame, NEW fmt \in Formats, NEW period \in IDRPeriods,
           NEW before \in 0 .. MaxSize, NEW g \in FrameOutcomes, NEW o \in Outputs,
           Encode(n, fmt, period, before, g, o)
    PROVE  /\ size' \in 0 .. MaxSize /\ hasIDR' \in BOOLEAN
           /\ past' \subseteq Causes \cap (Faults \cup Careless) /\ past \subseteq past'
           /\ EventLost(g) \subseteq {"event"}
           /\ EventLost(g) # {} => past' \cap {"wait", "query"} # {}
           /\ reply' \in Replies
           /\ EncodedFrameReported'
           /\ size' = IF Encoded(g) THEN o.told ELSE before
  <1>0. /\ o.told \in 0 .. MaxSize /\ o.sets \in 0 .. MaxSets /\ o.idr \in BOOLEAN
        /\ MaxSize \in Nat /\ MaxSets \in Nat /\ SetHeader \in Nat
    BY ConstantsAssumption DEF Outputs
  <1>1. 0 \in 0 .. MaxSize /\ 0 \in 0 .. MaxSets
    BY ConstantsAssumption
  <1>2. size' = IF Encoded(g) THEN o.told ELSE before
    BY DEF Encode, SizeAfterFrame
  <1>3. size' \in 0 .. MaxSize
    BY <1>0, <1>2
  <1>4. hasIDR' = (IF Encoded(g) THEN o.idr /\ o.sets = 0 ELSE hasIDR) /\ hasIDR' \in BOOLEAN
    BY <1>0 DEF Encode, ScanResult, TypeOK
  <1>5. /\ past' \subseteq Causes \cap (Faults \cup Careless) /\ past \subseteq past'
        /\ g \in Causes => g \in past'
    <2>1. past' = past \cup ({g} \cap Causes) /\ (g = "none" \/ g \in Faults)
      BY DEF Encode, FrameEnds, FrameCanFail
    <2>2. "none" \notin Causes
      BY DEF Causes
    <2> QED BY <2>1, <2>2 DEF TypeOK
  <1>6. EventLost(g) \subseteq {"event"} /\ (EventLost(g) # {} => past' \cap {"wait", "query"} # {})
    BY <1>5 DEF EventLost, Causes
  <1> DEFINE w == Written(g, o)
             e == IF Encoded(g) THEN o.sets ELSE 0
             k == ProcessOk(g) /\ (hasIDR' \/ Due(n, period))
  <1>7. reply' = [msg |-> "compress", ok |-> ProcessOk(g), size |-> size', key |-> k,
                  written |-> w, sets |-> e, idr |-> Encoded(g) /\ o.idr,
                  due |-> Due(n, period)]
    BY DEF Encode
  <1>8. e \in 0 .. MaxSets
    BY <1>0, <1>1
  <1>9. w = (IF Encoded(g) THEN o.told + SetHeader * o.sets ELSE 0)
    BY DEF Written
  <1>10. /\ SetHeader * MaxSets \in Nat /\ SetHeader * o.sets \in Nat
         /\ SetHeader * o.sets <= SetHeader * MaxSets
    <2>1. \A a, b, c \in Nat : b <= c => a * b \in Nat /\ a * c \in Nat /\ a * b <= a * c
      BY SMTT(30)
    <2>2. o.sets \in Nat /\ o.sets <= MaxSets
      BY <1>0
    <2> QED BY <1>0, <2>1, <2>2
  <1>11. w \in 0 .. MaxSize + SetHeader * MaxSets
    <2> DEFINE x == SetHeader * MaxSets
               y == SetHeader * o.sets
    <2>1. x \in Nat /\ y \in Nat /\ y <= x
      BY <1>10
    <2>2. w = IF Encoded(g) THEN o.told + y ELSE 0
      BY <1>9
    <2> HIDE DEF x, y, w
    <2>3. w \in 0 .. MaxSize + x
      BY <1>0, <2>1, <2>2
    <2> QED BY <2>3 DEF x
  <1>12. ProcessOk(g) \in BOOLEAN /\ k \in BOOLEAN /\ (Encoded(g) /\ o.idr) \in BOOLEAN
         /\ Due(n, period) \in BOOLEAN
    BY DEF ProcessOk, Encoded, Due
  <1> HIDE DEF w, k, e
  <1>13. reply' \in Replies
    BY <1>3, <1>7, <1>8, <1>11, <1>12 DEF Replies
  <1>14. EncodedFrameReported'
    <2> SUFFICES ASSUME reply.written' # 0
                 PROVE  /\ reply.size' = reply.written' - SetHeader * reply.sets'
                        /\ reply.key' <=> /\ reply.ok'
                                          /\ reply.due' \/ (reply.idr' /\ reply.sets' = 0)
      BY DEF EncodedFrameReported
    <2>0. Encoded(g)
      BY <1>7, <1>9
    <2>1. /\ size' = o.told /\ reply.size' = size'
          /\ reply.written' = o.told + SetHeader * o.sets /\ reply.sets' = o.sets
      BY <1>2, <1>7, <1>9, <2>0 DEF e
    <2>2. reply.size' = reply.written' - SetHeader * reply.sets'
      <3> DEFINE y == SetHeader * o.sets
      <3>1. y \in Nat
        BY <1>10
      <3>2. reply.size' = o.told /\ reply.written' = o.told + y /\ SetHeader * reply.sets' = y
        BY <2>1
      <3> HIDE DEF y
      <3> QED BY <1>0, <3>1, <3>2
    <2>3. hasIDR' = (o.idr /\ o.sets = 0) /\ reply.idr' = (Encoded(g) /\ o.idr)
          /\ reply.ok' = ProcessOk(g) /\ reply.due' = Due(n, period)
          /\ reply.key' = (ProcessOk(g) /\ (hasIDR' \/ Due(n, period)))
      BY <1>4, <1>7, <2>0 DEF k
    <2>4. reply.key' <=> (reply.ok' /\ (reply.due' \/ (reply.idr' /\ reply.sets' = 0)))
      BY <2>0, <2>1, <2>3
    <2> QED BY <2>2, <2>4
  <1> QED BY <1>2, <1>3, <1>4, <1>5, <1>6, <1>13, <1>14

LEMMA NoReplyType == NoReply \in Replies /\ NoReply.written = 0
  BY ConstantsAssumption DEF NoReply, Replies

LEMMA InitIInv == Init => IInv
  <1> SUFFICES ASSUME Init PROVE IInv
    OBVIOUS
  <1>1. Sound(NewTable, {}) /\ NewTable["cpuQueue"] = "garbage"
    BY DEF Sound, NewTable, Slots, HandleState
  <1>2. 0 \in 0 .. MaxSize /\ NewTable \in [Slots -> HandleState]
    BY <1>1, ConstantsAssumption DEF Sound
  <1>3. TypeOK
    BY NoReplyType, <1>2 DEF Init, TypeOK, Formats
  <1> QED BY <1>1, <1>3 DEF Init, IInv, StartedOwnsEncoder, TableOK, ConverterOK,
                        MisuseAttributed, CrashCaused
\* What the two ends of CompressBegin remember of it.
LEMMA FailureNoted ==
    ASSUME TypeOK, NEW f \in Ends, BeginEnds(f), past' = past \cup ({f} \cap Causes)
    PROVE  /\ past' \subseteq Causes \cap (Faults \cup Careless)
           /\ past \subseteq past' /\ {f} \cap Causes \subseteq past'
  <1>1. f \in Causes => f \in Faults
    BY DEF BeginEnds, CanFail, Causes
  <1> QED BY <1>1 DEF TypeOK

\* Every step preserves the invariant.
LEMMA StepIInv == IInv /\ [Next]_vars => IInv'
  <1> SUFFICES ASSUME IInv, [Next]_vars PROVE IInv'
    OBVIOUS
  <1>0. /\ TypeOK /\ TableOK /\ ConverterOK /\ MisuseAttributed /\ CrashCaused
        /\ StartedOwnsEncoder /\ Sound(handle, past)
    BY DEF IInv, TableOK
  <1>z. 0 \in 0 .. MaxSize /\ 0 \in 0 .. MaxFrame
    BY ConstantsAssumption
  <1>t. \A p : Sound(NewTable, p) /\ NewTable["cpuQueue"] = "garbage"
    BY DEF Sound, NewTable, Slots, HandleState
  <1>1. ASSUME NEW c \in Configs, Open(c) PROVE IInv'
    <2>1. misuse' \subseteq Slots /\ past' \subseteq Causes \cap (Faults \cup Careless)
      BY <1>0, <1>1 DEF Open, TypeOK
    <2>2. TypeOK'
      BY <1>0, <1>1, <1>t, <2>1, NoReplyType DEF Open, TypeOK, Sound, Formats
    <2>3. StartedOwnsEncoder' /\ ConverterOK'
      BY <1>1 DEF Open, StartedOwnsEncoder, ConverterOK
    <2>4. MisuseAttributed' /\ CrashCaused'
      <3>1. CASE Crashed
        BY <1>1, <3>1 DEF Open, MisuseAttributed, CrashCaused
      <3>2. CASE ~Crashed
        BY <1>0, <1>1, <3>2 DEF Open, MisuseAttributed, CrashCaused
      <3> QED BY <3>1, <3>2
    <2>5. TableOK'
      BY <1>1, <1>t DEF Open, TableOK
    <2> QED BY <2>2, <2>3, <2>4, <2>5 DEF IInv
  <1>2. ASSUME NEW c \in Configs, Configure(c) PROVE IInv'
    <2>1. past \subseteq past' /\ past' \subseteq Causes \cap (Faults \cup Careless)
      BY <1>0, <1>2 DEF Configure, TypeOK, Causes
    <2>2. TypeOK'
      BY <1>0, <1>2, <2>1 DEF Configure, TypeOK
    <2>3. TableOK'
      BY <1>0, <1>2, <2>1, SoundLater DEF Configure, TableOK
    <2>4. StartedOwnsEncoder' /\ ConverterOK' /\ CrashCaused'
      BY <1>0, <1>2 DEF Configure, StartedOwnsEncoder, ConverterOK, CrashCaused
    <2>5. MisuseAttributed'
      BY <1>0, <1>2, <2>1 DEF Configure, MisuseAttributed
    <2> QED BY <2>2, <2>3, <2>4, <2>5 DEF IInv
  <1>3. ASSUME NEW fmt \in Formats, NEW f \in Ends,
               CompressBegin(fmt, f) \/ CompressFirstRefused(fmt, f)
        PROVE  IInv'
    <2>1. /\ Opening(fmt, f) /\ UNCHANGED <<alive, config, hasIDR>> /\ alive
          /\ past' = past \cup ({f} \cap Causes) /\ size' = SizeAfterBegin(f)
          /\ leaked' = leaked \cup Overwritten(TableAtBegin, f)
      BY <1>3 DEF CompressBegin, CompressFirstRefused
    <2>2. size' \in 0 .. MaxSize /\ fresh' \in BOOLEAN
      BY <1>0, <1>3, <1>z, <2>1 DEF CompressBegin, CompressFirstRefused, SizeAfterBegin, TypeOK
    <2>3. reply' \in Replies
      BY <1>3, NoReplyType DEF CompressBegin, CompressFirstRefused, NoReply, Replies, BeginOk
    <2>4. /\ past' \subseteq Causes \cap (Faults \cup Careless)
          /\ past \subseteq past' /\ {f} \cap Causes \subseteq past'
      BY <1>0, <2>1, FailureNoted DEF Opening
    <2>5. /\ handle' \in [Slots -> HandleState] /\ started' \in BOOLEAN
          /\ format' \in Formats /\ idrFrames' \in IDRPeriods
          /\ Overwritten(TableAtBegin, f) \subseteq Slots
          /\ started' => \A s \in EncoderSlots : handle'[s] = "live"
          /\ started' /\ config.useCL => handle'["converter"] = "live"
          /\ TableOK' /\ MisuseAttributed' /\ CrashCaused' /\ misuse' \subseteq Slots
      BY <2>1, <2>4, OpeningFacts
    <2>6. TypeOK'
      BY <1>0, <2>1, <2>2, <2>3, <2>4, <2>5 DEF TypeOK
    <2>7. StartedOwnsEncoder' /\ ConverterOK'
      BY <2>1, <2>5 DEF StartedOwnsEncoder, ConverterOK
    <2> QED BY <2>5, <2>6, <2>7 DEF IInv
  <1>5. ASSUME NEW n \in 0 .. MaxFrame, NEW g \in FrameOutcomes, NEW o \in Outputs,
               CompressRunning(n, g, o)
        PROVE  IInv'
    <2>1. /\ Encode(n, format, idrFrames, size, g, o)
          /\ UNCHANGED <<alive, config, started, format, idrFrames, handle, misuse>>
          /\ leaked' = leaked \cup EventLost(g) /\ fresh' \in BOOLEAN
      BY <1>0, <1>5 DEF CompressRunning, TypeOK, Encoded
    <2>2. /\ size' \in 0 .. MaxSize /\ hasIDR' \in BOOLEAN /\ reply' \in Replies
          /\ past' \subseteq Causes \cap (Faults \cup Careless) /\ past \subseteq past'
          /\ EventLost(g) \subseteq {"event"}
      BY <1>0, <2>1, EncodeFacts DEF TypeOK
    <2>3. TypeOK'
      BY <1>0, <2>1, <2>2 DEF TypeOK
    <2>4. TableOK'
      BY <1>0, <2>1, <2>2, SoundLater DEF TableOK
    <2>5. StartedOwnsEncoder' /\ ConverterOK' /\ CrashCaused'
      BY <1>0, <2>1, <2>2 DEF StartedOwnsEncoder, ConverterOK, CrashCaused
    <2>6. MisuseAttributed'
      BY <1>0, <2>1, <2>2 DEF MisuseAttributed
    <2> QED BY <2>3, <2>4, <2>5, <2>6 DEF IInv
  <1>6. ASSUME NEW fmt \in Formats, NEW g \in FrameOutcomes, NEW o \in Outputs,
               CompressFirst(fmt, g, o)
        PROVE  IInv'
    <2>1. /\ Opening(fmt, "none") /\ Encode(0, fmt, config.idr, 0, g, o)
          /\ leaked' = leaked \cup Overwritten(TableAtBegin, "none") \cup EventLost(g)
          /\ UNCHANGED <<alive, config>> /\ alive /\ fresh' \in BOOLEAN
      BY <1>6 DEF CompressFirst, Encoded
    <2>2. "none" \in Ends /\ config.idr \in IDRPeriods /\ {"none"} \cap Causes = {}
      BY <1>0 DEF Ends, TypeOK, Configs, Causes
    <2>3. /\ size' \in 0 .. MaxSize /\ hasIDR' \in BOOLEAN /\ reply' \in Replies
          /\ past' \subseteq Causes \cap (Faults \cup Careless) /\ past \subseteq past'
          /\ EventLost(g) \subseteq {"event"}
      BY <1>0, <1>z, <2>1, <2>2, EncodeFacts
    <2>4. /\ handle' \in [Slots -> HandleState] /\ started' \in BOOLEAN
          /\ format' \in Formats /\ idrFrames' \in IDRPeriods
          /\ Overwritten(TableAtBegin, "none") \subseteq Slots
          /\ started' => \A s \in EncoderSlots : handle'[s] = "live"
          /\ started' /\ config.useCL => handle'["converter"] = "live"
          /\ TableOK' /\ MisuseAttributed' /\ CrashCaused' /\ misuse' \subseteq Slots
      <3>1. {"none"} \cap Causes \subseteq past' /\ fmt \in Formats /\ "none" \in Ends
        BY <2>2
      <3> QED BY <2>1, <2>3, <3>1, OpeningFacts
    <2>5. TypeOK'
      BY <1>0, <2>1, <2>3, <2>4 DEF TypeOK
    <2>6. StartedOwnsEncoder' /\ ConverterOK'
      BY <2>1, <2>4 DEF StartedOwnsEncoder, ConverterOK
    <2> QED BY <2>4, <2>5, <2>6 DEF IInv
  <1>7. ASSUME CompressEnd PROVE IInv'
    <2>1. Sound(EndTable(handle), past) /\ \A s \in Slots : EndTable(handle)[s] # "live"
      BY <1>0, EndTableSound
    <2>2. past \subseteq past' /\ past' \subseteq Causes \cap (Faults \cup Careless)
      BY <1>0, <1>7 DEF CompressEnd, TypeOK, Causes
    <2>3. misuse' = misuse \cup BadReleases(handle) /\ handle' = EndTable(handle)
          /\ BadReleases(handle) \subseteq {"context", "cpuQueue"}
      BY <1>0, <1>7, BadReleasesFacts DEF CompressEnd
    <2>4. TypeOK'
      <3>1. handle' \in [Slots -> HandleState] /\ misuse' \subseteq Slots
        BY <1>0, <2>1, <2>3 DEF Sound, TypeOK, Slots
      <3>2. reply' \in Replies
        BY <1>7, NoReplyType DEF CompressEnd, NoReply, Replies
      <3> QED BY <1>0, <1>7, <1>z, <2>2, <3>1, <3>2 DEF CompressEnd, TypeOK
    <2>5. TableOK'
      <3>1. Sound(handle', past')
        BY <2>1, <2>2, <2>3, SoundLater
      <3> QED BY <2>1, <2>3, <3>1 DEF TableOK, Slots
    <2>6. StartedOwnsEncoder' /\ ConverterOK'
      BY <1>7 DEF CompressEnd, StartedOwnsEncoder, ConverterOK
    <2>7. "context" \in BadReleases(handle) => "endIdle" \in past'
      BY <1>0, <1>7, BadReleasesFacts DEF CompressEnd, StartedOwnsEncoder, EncoderSlots
    <2>8. "cpuQueue" \in BadReleases(handle) => past \cap {"cpuDevice", "cpuQueue"} # {}
      BY <1>0, BadReleasesFacts
    <2>9. MisuseAttributed'
      BY <1>0, <2>2, <2>3, <2>7, <2>8 DEF MisuseAttributed
    <2>10. CrashCaused'
      BY <1>0, <2>3 DEF CrashCaused
    <2> QED BY <2>4, <2>5, <2>6, <2>9, <2>10 DEF IInv
  <1>8. ASSUME Delete PROVE IInv'
    <2>1. Sound(TableAtDelete, past) /\ TableAtDelete["cpuQueue"] # "live"
      BY <1>0, EndTableSound DEF TableAtDelete, TableOK, Slots
    <2>2. /\ past' = past /\ handle' = TableAtDelete
          /\ misuse' = misuse \cup (IF started THEN BadReleases(handle) ELSE {})
          /\ leaked' \subseteq leaked \cup Slots
      BY <1>8 DEF Delete
    <2>3. started => handle["context"] = "live"
      BY <1>0 DEF StartedOwnsEncoder, EncoderSlots
    <2>4. /\ BadReleases(handle) \subseteq {"context", "cpuQueue"}
          /\ "context" \in BadReleases(handle) => handle["context"] = "stale"
          /\ "cpuQueue" \in BadReleases(handle) => past \cap {"cpuDevice", "cpuQueue"} # {}
      BY <1>0, BadReleasesFacts
    <2>5. TypeOK'
      <3>1. handle' \in [Slots -> HandleState] /\ misuse' \subseteq Slots
        BY <1>0, <2>1, <2>2, <2>4 DEF Sound, TypeOK, Slots
      <3> QED BY <1>0, <1>8, <1>z, <2>2, <3>1, NoReplyType DEF Delete, TypeOK
    <2>6. TableOK' /\ StartedOwnsEncoder' /\ ConverterOK'
      BY <1>8, <2>1, <2>2 DEF Delete, TableOK, StartedOwnsEncoder, ConverterOK
    <2>7. MisuseAttributed'
      BY <1>0, <2>2, <2>3, <2>4 DEF MisuseAttributed
    <2>8. CrashCaused'
      BY <1>0, <2>2, <2>4 DEF CrashCaused
    <2> QED BY <2>5, <2>6, <2>7, <2>8 DEF IInv
  <1>9. ASSUME NEW n \in 0 .. MaxFrame, CrashInCompress(n) PROVE IInv'
    <2>1. /\ misuse' = misuse \cup Crashing(n) /\ past' = past /\ handle' = NewTable
          /\ Crashing(n) \subseteq {"converter", "surface", "session"}
      BY <1>9 DEF CrashInCompress, Crashing
    <2>2. TypeOK'
      <3>1. handle' \in [Slots -> HandleState] /\ misuse' \subseteq Slots
        BY <1>0, <1>t, <2>1 DEF Sound, TypeOK, Slots
      <3> QED BY <1>0, <1>9, <2>1, <3>1, NoReplyType DEF CrashInCompress, TypeOK
    <2>3. TableOK' /\ StartedOwnsEncoder' /\ ConverterOK'
      BY <1>9, <1>t, <2>1 DEF CrashInCompress, TableOK, StartedOwnsEncoder, ConverterOK
    <2>4. "converter" \in Crashing(n) => "configureRunning" \in past
      BY <1>0 DEF Crashing, ConverterReady, Mapped, ConverterOK
    <2>5. MisuseAttributed'
      BY <1>0, <2>1, <2>4 DEF MisuseAttributed
    <2>6. CrashCaused'
      BY <1>0, <2>1 DEF Crashing, CrashCaused
    <2> QED BY <2>2, <2>3, <2>5, <2>6 DEF IInv
  <1>10. CASE UNCHANGED vars
    BY <1>0, <1>10 DEF vars, IInv, TypeOK, StartedOwnsEncoder, TableOK, ConverterOK,
                       MisuseAttributed, CrashCaused
  <1> QED
    BY <1>1, <1>2, <1>3, <1>5, <1>6, <1>7, <1>8, <1>9, <1>10 DEF Next

-----------------------------------------------------------------------------
(* Theorems for any drivers and any host *)

LEMMA Invariance == Spec => []IInv
  BY InitIInv, StepIInv, PTL DEF Spec

\* Every variable of the instance keeps its type, whatever fails and whatever
\* the host sends.
THEOREM TypeCorrect == Spec => []TypeOK
  <1>1. IInv => TypeOK
    BY DEF IInv
  <1> QED BY <1>1, Invariance, PTL

\* Whenever started says a session runs, its encoder is there.
THEOREM RunningSessionIsWhole == Spec => []StartedOwnsEncoder
  <1>1. IInv => StartedOwnsEncoder
    BY DEF IInv
  <1> QED BY <1>1, Invariance, PTL

\* Every release of something that is not live, and every use of something
\* that is absent, has one of the causes MisuseAttributed names.
THEOREM MisuseHasItsCause == Spec => []MisuseAttributed
  <1>1. IInv => MisuseAttributed
    BY DEF IInv
  <1> QED BY <1>1, Invariance, PTL

\* An encoded frame is reported with its own size, short of nothing but the
\* headers of the parameter sets that were written again, and with the flag that
\* its own bytes and number give it, whatever was in mCompressed_size and mHasIDR
\* before it.
THEOREM EncodedFramesAreReported == Spec => []EncodedFrameReported
  <1>1. Init => EncodedFrameReported
    BY NoReplyType DEF Init, EncodedFrameReported
  <1>2. IInv /\ EncodedFrameReported /\ [Next]_vars => EncodedFrameReported'
    <2> SUFFICES ASSUME IInv, EncodedFrameReported, [Next]_vars
                 PROVE  EncodedFrameReported'
      OBVIOUS
    <2>0. TypeOK /\ 0 \in 0 .. MaxFrame /\ 0 \in 0 .. MaxSize
      BY ConstantsAssumption DEF IInv
    <2>1. ASSUME reply'.written = 0 PROVE EncodedFrameReported'
      BY <2>1 DEF EncodedFrameReported
    <2>2. ASSUME NEW c \in Configs, Open(c) \/ Configure(c) PROVE EncodedFrameReported'
      BY <2>1, <2>2, NoReplyType DEF Open, Configure, EncodedFrameReported
    <2>3. ASSUME NEW fmt \in Formats, NEW f \in Ends,
                 CompressBegin(fmt, f) \/ CompressFirstRefused(fmt, f)
          PROVE  EncodedFrameReported'
      BY <2>1, <2>3 DEF CompressBegin, CompressFirstRefused, NoReply
    <2>4. ASSUME NEW n \in 0 .. MaxFrame, NEW g \in FrameOutcomes, NEW o \in Outputs,
                 CompressRunning(n, g, o)
          PROVE  EncodedFrameReported'
      BY <2>0, <2>4, EncodeFacts DEF CompressRunning, TypeOK
    <2>5. ASSUME NEW fmt \in Formats, NEW g \in FrameOutcomes, NEW o \in Outputs,
                 CompressFirst(fmt, g, o)
          PROVE  EncodedFrameReported'
      <3>1. config.idr \in IDRPeriods
        BY <2>0 DEF TypeOK, Configs
      <3> QED BY <2>0, <2>5, <3>1, EncodeFacts DEF CompressFirst
    <2>6. ASSUME CompressEnd \/ Delete \/ \E n \in 0 .. MaxFrame : CrashInCompress(n)
          PROVE  EncodedFrameReported'
      BY <2>1, <2>6, NoReplyType DEF CompressEnd, Delete, CrashInCompress, NoReply
    <2>7. CASE UNCHANGED vars
      BY <2>7 DEF vars, EncodedFrameReported
    <2> QED BY <2>2, <2>3, <2>4, <2>5, <2>6, <2>7 DEF Next
  <1> QED BY <1>1, <1>2, Invariance, PTL DEF Spec

\* Until it has encoded a frame a session reports no size: CompressBegin
\* clears it, and a frame that fails leaves it as it was.
THEOREM SizeStaysInItsSession == Spec => []SizeBelongsToSession
  <1>1. Init => SizeBelongsToSession
    BY DEF Init, SizeBelongsToSession
  <1>2. SizeBelongsToSession /\ [Next]_vars => SizeBelongsToSession'
    <2> SUFFICES ASSUME SizeBelongsToSession, [Next]_vars
                 PROVE  SizeBelongsToSession'
      OBVIOUS
    <2>1. ASSUME NEW c \in Configs, Open(c) \/ Configure(c) PROVE SizeBelongsToSession'
      BY <2>1 DEF SizeBelongsToSession, Open, Configure
    <2>2. ASSUME NEW fmt \in Formats, NEW f \in Ends, CompressBegin(fmt, f)
          PROVE  SizeBelongsToSession'
      BY <2>2 DEF SizeBelongsToSession, CompressBegin, Opening, StartedAfter, SizeAfterBegin
    <2>3. ASSUME NEW fmt \in Formats, NEW f \in Ends, CompressFirstRefused(fmt, f)
          PROVE  SizeBelongsToSession'
      BY <2>3 DEF SizeBelongsToSession, CompressFirstRefused, Opening, StartedAfter
    <2>4. ASSUME NEW g, NEW o, NEW n, CompressRunning(n, g, o)
          PROVE  SizeBelongsToSession'
      BY <2>4 DEF SizeBelongsToSession, CompressRunning, Encode, SizeAfterFrame
    <2>5. ASSUME NEW g, NEW o, NEW fmt, CompressFirst(fmt, g, o)
          PROVE  SizeBelongsToSession'
      BY <2>5 DEF SizeBelongsToSession, CompressFirst, Encode, SizeAfterFrame
    <2>6. ASSUME CompressEnd \/ Delete PROVE SizeBelongsToSession'
      BY <2>6 DEF SizeBelongsToSession, CompressEnd, Delete
    <2>7. ASSUME NEW n, CrashInCompress(n) PROVE SizeBelongsToSession'
      BY <2>7 DEF SizeBelongsToSession, CrashInCompress
    <2>8. ASSUME UNCHANGED vars PROVE SizeBelongsToSession'
      BY <2>8 DEF SizeBelongsToSession, vars
    <2> QED BY <2>1, <2>2, <2>3, <2>4, <2>5, <2>6, <2>7, <2>8 DEF Next
  <1> QED BY <1>1, <1>2, PTL DEF Spec

\* A host that keeps to the protocol, and drivers that neither refuse a mapping
\* nor leave a CPU context without its queue.
Protocol == Careless = {} /\ Faults \cap {"map", "cpuDevice", "cpuQueue"} = {}

\* Then nothing is ever released twice, released unset, or used when absent.
THEOREM NothingIsMisused == Protocol /\ Spec => []NoMisuse
  <1> SUFFICES ASSUME Protocol PROVE Spec => []NoMisuse
    OBVIOUS
  <1>1. IInv => NoMisuse
    <2> SUFFICES ASSUME IInv PROVE misuse = {}
      BY DEF NoMisuse
    <2>1. past \subseteq Faults
      BY DEF IInv, TypeOK, Protocol
    <2>2. past \cap {"endIdle", "configureRunning", "cpuDevice", "cpuQueue"} = {}
      BY <2>1, ConstantsAssumption DEF Protocol, BeginFaults, FrameFaults
    <2> QED BY <2>2 DEF IInv, MisuseAttributed, CrashCaused, Protocol
  <1> QED BY <1>1, Invariance, PTL

-----------------------------------------------------------------------------
(* Theorems for drivers that fail only where CompressBegin cleans up *)

CleanDrivers == Faults \cap {"deviceList", "cpuContext", "cpuDevice", "cpuQueue"} = {}

\* Such a failure leaves nothing behind in a table that held nothing.
LEMMA FailureHoldsNothing ==
    ASSUME CleanDrivers, NEW h, NEW p, Sound(h, p), \A s \in Slots : h[s] # "live",
           NEW f \in Ends \ {"none"}, BeginEnds(f)
    PROVE  LET t == FillTable(h, f)
           IN  \A s \in Slots : (IF f \in CleanedUp THEN EndTable(t) ELSE t)[s] # "live"
  <1> DEFINE t == FillTable(h, f)
  <1>1. h \in [Slots -> HandleState] /\ h["cpuQueue"] # "live"
    BY DEF Sound, Slots
  <1>2. Sound(t, p \cup {f})
    BY <1>1, FillTableSound
  <1>3. CASE f \in CleanedUp
    BY <1>2, <1>3, EndTableSound
  <1>4. CASE f \notin CleanedUp
    <2>1. f \in {"format", "platform", "deviceInfo"}
      BY <1>4 DEF CleanDrivers, BeginEnds, CanFail, CleanedUp, Ends, BeginFaults
    <2>2. Acquired(f) = {}
      BY <2>1 DEF Acquired, BeforeDeviceInfo, BeforeContext, BeforeQueue, BeforeSurface,
                  BeforeSession, BeforeCpuContext, BeforeCpuQueue
    <2>3. \A s \in Slots : t[s] # "live"
      BY <1>1, <2>2, FillTableFacts
    <2> QED BY <1>4, <2>3
  <1> QED BY <1>3, <1>4

\* CompressBegin, however it ends, overwrites nothing and leaves a session or
\* nothing.
LEMMA OpeningClean ==
    ASSUME CleanDrivers, IInv, IdleHoldsNothing, NEW fmt \in Formats, NEW f \in Ends,
           Opening(fmt, f)
    PROVE  /\ IdleHoldsNothing'
           /\ Overwritten(TableAtBegin, f) = {}
           /\ started' = (f = "none")
  <1> DEFINE h == TableAtBegin
  <1>1. Sound(h, past) /\ \A s \in Slots : h[s] # "live"
    <2>1. CASE started
      BY <2>1, EndTableSound DEF IInv, TableOK, TableAtBegin
    <2>2. CASE ~started
      BY <2>2 DEF IInv, TableOK, TableAtBegin, IdleHoldsNothing
    <2> QED BY <2>1, <2>2
  <1>2. started' = (f = "none") /\ BeginEnds(f)
    BY DEF Opening, StartedAfter
  <1>3. Overwritten(TableAtBegin, f) = {}
    <2>1. Assigned(f) \subseteq Slots
      BY <1>1, FillTableFacts DEF Sound
    <2> QED BY <1>1, <2>1 DEF Overwritten
  <1>4. IdleHoldsNothing'
    <2> SUFFICES ASSUME f # "none" PROVE \A s \in Slots : handle'[s] # "live"
      BY <1>2 DEF IdleHoldsNothing
    <2>1. handle' = IF f \in CleanedUp THEN EndTable(FillTable(h, f)) ELSE FillTable(h, f)
      BY DEF Opening, TableAfterBegin, TableInBegin
    <2> QED BY <1>1, <1>2, <2>1, FailureHoldsNothing
  <1> QED BY <1>2, <1>3, <1>4

Whole == IdleHoldsNothing /\ NothingLost

LEMMA InitWhole == Init => Whole
  BY DEF Init, Whole, IdleHoldsNothing, NothingLost, NewTable

LEMMA StepWhole ==
    ASSUME CleanDrivers, IInv, Whole, [Next]_vars
    PROVE  Whole'
  <1>0. IdleHoldsNothing /\ NothingLost /\ Sound(handle, past) /\ TypeOK /\ 0 \in 0 .. MaxFrame
        /\ 0 \in 0 .. MaxSize
    BY ConstantsAssumption DEF Whole, IInv, TableOK
  <1>1. ASSUME NEW c \in Configs, Open(c) \/ Configure(c) PROVE Whole'
    <2>1. CASE Open(c)
      <3>1. CASE Crashed
        BY <2>1, <3>1 DEF Open, Whole, IdleHoldsNothing, NothingLost, NewTable
      <3>2. CASE ~Crashed
        BY <1>0, <2>1, <3>2 DEF Open, Whole, IdleHoldsNothing, NothingLost, NewTable
      <3> QED BY <3>1, <3>2
    <2>2. CASE Configure(c)
      BY <1>0, <2>2 DEF Configure, Whole, IdleHoldsNothing, NothingLost
    <2> QED BY <1>1, <2>1, <2>2
  <1>2. ASSUME NEW fmt \in Formats, NEW f \in Ends,
               CompressBegin(fmt, f) \/ CompressFirstRefused(fmt, f)
        PROVE  Whole'
    BY <1>0, <1>2, OpeningClean DEF CompressBegin, CompressFirstRefused, Whole, NothingLost
  <1>3. ASSUME NEW n \in 0 .. MaxFrame, NEW g \in FrameOutcomes, NEW o \in Outputs,
               CompressRunning(n, g, o)
        PROVE  Whole'
    <2>1. /\ past \subseteq past' /\ EventLost(g) \subseteq {"event"}
          /\ EventLost(g) # {} => past' \cap {"wait", "query"} # {}
      BY <1>0, <1>3, EncodeFacts DEF CompressRunning, TypeOK
    <2> QED BY <1>0, <1>3, <2>1 DEF CompressRunning, Whole, IdleHoldsNothing, NothingLost
  <1>4. ASSUME NEW fmt \in Formats, NEW g \in FrameOutcomes, NEW o \in Outputs,
               CompressFirst(fmt, g, o)
        PROVE  Whole'
    <2>1. /\ past \subseteq past' /\ EventLost(g) \subseteq {"event"}
          /\ EventLost(g) # {} => past' \cap {"wait", "query"} # {}
      <3>1. config.idr \in IDRPeriods
        BY <1>0 DEF TypeOK, Configs
      <3> QED BY <1>0, <1>4, <3>1, EncodeFacts DEF CompressFirst
    <2>2. IdleHoldsNothing' /\ Overwritten(TableAtBegin, "none") = {}
      BY <1>0, <1>4, OpeningClean DEF CompressFirst, Ends
    <2> QED BY <1>0, <1>4, <2>1, <2>2 DEF CompressFirst, Whole, NothingLost
  <1>5. CASE CompressEnd
    BY <1>0, <1>5, EndTableSound DEF CompressEnd, Whole, IdleHoldsNothing, NothingLost
  <1>6. CASE Delete
    <2>1. \A s \in Slots : TableAtDelete[s] # "live"
      BY <1>0, EndTableSound DEF TableAtDelete, IdleHoldsNothing
    <2> QED BY <1>0, <1>6, <2>1 DEF Delete, Whole, IdleHoldsNothing, NothingLost
  <1>7. ASSUME NEW n \in 0 .. MaxFrame, CrashInCompress(n) PROVE Whole'
    BY <1>7 DEF CrashInCompress, Whole, IdleHoldsNothing, NothingLost, NewTable
  <1>8. CASE UNCHANGED vars
    BY <1>0, <1>8 DEF vars, Whole, IdleHoldsNothing, NothingLost
  <1> QED
    BY <1>1, <1>2, <1>3, <1>4, <1>5, <1>6, <1>7, <1>8 DEF Next

\* If getDeviceList and the CPU context do not fail, an instance that is not
\* encoding holds nothing, whatever else failed.
THEOREM FailedStartsAreUndone == CleanDrivers /\ Spec => []IdleHoldsNothing
  <1> SUFFICES ASSUME CleanDrivers PROVE Spec => []IdleHoldsNothing
    OBVIOUS
  <1>1. IInv /\ Whole /\ [Next]_vars => Whole'
    BY StepWhole
  <1>2. Whole => IdleHoldsNothing
    BY DEF Whole
  <1> QED BY <1>1, <1>2, InitWhole, Invariance, PTL DEF Spec

\* Under the same drivers no handle's object is ever lost, through restarts,
\* failed starts and an instance closed in mid-session; and the event of a task
\* is lost only after a wait or a query that failed.
THEOREM NothingIsLost == CleanDrivers /\ Spec => []NothingLost
  <1> SUFFICES ASSUME CleanDrivers PROVE Spec => []NothingLost
    OBVIOUS
  <1>1. IInv /\ Whole /\ [Next]_vars => Whole'
    BY StepWhole
  <1>2. Whole => NothingLost
    BY DEF Whole
  <1> QED BY <1>1, <1>2, InitWhole, Invariance, PTL DEF Spec

-----------------------------------------------------------------------------
(* The promise to the host *)

\* The abstract session is idle or encoding as started says.
LEMMA AbstractState ==
    ASSUME IInv, Whole
    PROVE  /\ ~started => Contract!Idle
           /\ started => Contract!Encoding
  BY DEF Contract!Idle, Contract!Encoding, IInv, TypeOK, StartedOwnsEncoder, EncoderSlots,
         Slots, Whole, IdleHoldsNothing

\* The same of the next state.
LEMMA AbstractNextState ==
    ASSUME IInv', Whole'
    PROVE  /\ ~started' => Contract!Idle'
           /\ started' => Contract!Encoding'
  BY DEF Contract!Idle, Contract!Encoding, IInv, TypeOK, StartedOwnsEncoder, EncoderSlots,
         Slots, Whole, IdleHoldsNothing

\* The codes: CompressBegin succeeds exactly when it leaves a session.
LEMMA AnswerFacts ==
    ASSUME NEW f \in Ends
    PROVE  /\ reply' = [NoReply EXCEPT !.msg = "begin", !.ok = BeginOk(f)]
              => Answer' = IF f = "none" THEN "begun" ELSE "refused"
           /\ reply' = [NoReply EXCEPT !.msg = "compress", !.ok = BeginOk(f)] /\ f # "none"
              => Answer' = "failed"
           /\ reply' = NoReply => Answer' = "none"
           /\ reply' = [NoReply EXCEPT !.msg = "end"] => Answer' = "ended"
           /\ reply'.msg = "compress" => Answer' \in {"frame", "failed"}
  <1>1. reply' = [NoReply EXCEPT !.msg = "begin", !.ok = BeginOk(f)]
        => reply'.msg = "begin" /\ reply'.ok = (f = "none")
    BY DEF NoReply, BeginOk
  <1>2. reply' = [NoReply EXCEPT !.msg = "compress", !.ok = BeginOk(f)]
        => reply'.msg = "compress" /\ reply'.ok = (f = "none")
    BY DEF NoReply, BeginOk
  <1>3. /\ reply' = NoReply => reply'.msg = "none"
        /\ reply' = [NoReply EXCEPT !.msg = "end"] => reply'.msg = "end"
    BY DEF NoReply
  <1>4. /\ reply'.msg = "begin" => Answer' = IF reply'.ok THEN "begun" ELSE "refused"
        /\ reply'.msg = "compress" => Answer' = IF reply'.ok THEN "frame" ELSE "failed"
        /\ reply'.msg = "none" => Answer' = "none"
        /\ reply'.msg = "end" => Answer' = "ended"
    BY DEF Answer
  <1> QED BY <1>1, <1>2, <1>3, <1>4

\* Every step is a step of SessionContract, or none.
LEMMA StepContract ==
    ASSUME CleanDrivers, IInv, Whole, [Next]_vars
    PROVE  [Contract!Next]_(Contract!vars)
  <1>1. /\ ~started => Contract!Idle
        /\ started => Contract!Encoding
    BY AbstractState
  <1>2. /\ ~started' => Contract!Idle'
        /\ started' => Contract!Encoding'
    <2>1. IInv' /\ Whole'
      BY StepIInv, StepWhole
    <2> QED BY <2>1, AbstractNextState
  <1>3. TypeOK /\ 0 \in 0 .. MaxFrame /\ 0 \in 0 .. MaxSize /\ "none" \in Ends
    BY ConstantsAssumption DEF IInv, Ends
  <1>5. ASSUME NEW c \in Configs, Open(c) PROVE Contract!Instance
    <2>1. Answer' = "none" /\ ~started'
      BY <1>3, <1>5, AnswerFacts DEF Open
    <2> QED BY <1>2, <2>1 DEF Contract!Instance
  <1>6. ASSUME NEW c \in Configs, Configure(c) PROVE UNCHANGED Contract!vars
    BY <1>6 DEF Configure, Contract!vars, Answer
  <1>7. ASSUME NEW fmt \in Formats, NEW f \in Ends, CompressBegin(fmt, f)
        PROVE  Contract!Begin \/ Contract!Refuse
    <2>1. started' = (f = "none") /\ size' = SizeAfterBegin(f)
          /\ Answer' = IF f = "none" THEN "begun" ELSE "refused"
      BY <1>7, AnswerFacts DEF CompressBegin, Opening, StartedAfter
    <2>2. CASE f = "none"
      BY <1>2, <2>1, <2>2 DEF Contract!Begin, SizeAfterBegin
    <2>3. CASE f # "none"
      BY <1>2, <2>1, <2>3 DEF Contract!Refuse
    <2> QED BY <2>2, <2>3
  <1>8. ASSUME NEW fmt \in Formats, NEW f \in Ends, CompressFirstRefused(fmt, f)
        PROVE  Contract!FirstFrameRefused
    <2>1. ~started /\ ~started' /\ Answer' = "failed"
      BY <1>8, AnswerFacts DEF CompressFirstRefused, Opening, StartedAfter
    <2> QED BY <1>1, <1>2, <2>1 DEF Contract!FirstFrameRefused
  <1>9. ASSUME NEW n \in 0 .. MaxFrame, NEW g \in FrameOutcomes, NEW o \in Outputs,
               CompressRunning(n, g, o)
        PROVE  Contract!Frame
    <2>1. started /\ started' /\ size' \in 0 .. MaxSize
      BY <1>3, <1>9, EncodeFacts DEF CompressRunning, TypeOK
    <2>2. Answer' \in {"frame", "failed"}
      BY <1>3, <1>9, AnswerFacts DEF CompressRunning, Encode
    <2> QED BY <1>1, <1>2, <2>1, <2>2 DEF Contract!Frame
  <1>10. ASSUME NEW fmt \in Formats, NEW g \in FrameOutcomes, NEW o \in Outputs,
                CompressFirst(fmt, g, o)
         PROVE  Contract!FirstFrame
    <2>1. ~started /\ started'
      BY <1>10 DEF CompressFirst, Opening, StartedAfter
    <2>2. size' \in 0 .. MaxSize
      <3>1. config.idr \in IDRPeriods
        BY <1>3 DEF TypeOK, Configs
      <3> QED BY <1>3, <1>10, <3>1, EncodeFacts DEF CompressFirst
    <2>3. Answer' \in {"frame", "failed"}
      BY <1>3, <1>10, AnswerFacts DEF CompressFirst, Encode
    <2> QED BY <1>1, <1>2, <2>1, <2>2, <2>3 DEF Contract!FirstFrame
  <1>11. CASE CompressEnd
    <2>1. ~started' /\ Answer' = "ended"
      BY <1>3, <1>11, AnswerFacts DEF CompressEnd
    <2>2. Contract!End
      BY <1>2, <2>1 DEF Contract!End
    <2> QED BY <2>2 DEF Contract!Next
  <1>12. ASSUME Delete \/ \E n \in 0 .. MaxFrame : CrashInCompress(n)
         PROVE  Contract!Instance
    <2>1. Answer' = "none" /\ ~started'
      BY <1>3, <1>12, AnswerFacts DEF Delete, CrashInCompress
    <2> QED BY <1>2, <2>1 DEF Contract!Instance
  <1>13. CASE UNCHANGED vars
    BY <1>13 DEF vars, Contract!vars, Answer
  <1> QED
    BY <1>5, <1>6, <1>7, <1>8, <1>9, <1>10, <1>11, <1>12, <1>13 DEF Next, Contract!Next

\* The codec keeps the promise of SessionContract as long as getDeviceList and
\* the CPU context do not fail, whatever else fails and whatever the host does:
\* the codes that it returns tell the host what has become of the session.
THEOREM CodecKeepsContract == CleanDrivers /\ Spec => ImplementsContract
  <1> SUFFICES ASSUME CleanDrivers PROVE Spec => ImplementsContract
    OBVIOUS
  <1>1. Init => Contract!Init
    <2> SUFFICES ASSUME Init PROVE Contract!Init
      OBVIOUS
    <2>1. IInv /\ Whole
      BY InitIInv, InitWhole
    <2> QED BY <2>1, AbstractState DEF Init, Contract!Init, Answer, NoReply
  <1>2. IInv /\ Whole /\ [Next]_vars => Whole'
    BY StepWhole
  <1>3. IInv /\ Whole /\ [Next]_vars => [Contract!Next]_(Contract!vars)
    BY StepContract
  <1> QED BY <1>1, <1>2, <1>3, InitWhole, Invariance, PTL
          DEF Spec, ImplementsContract, Contract!Spec
=============================================================================
