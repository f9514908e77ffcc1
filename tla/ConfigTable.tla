---------------------------- MODULE ConfigTable ----------------------------
(***************************************************************************)
(* The settings of the codec (configure.cpp, CompressBegin of              *)
(* compress.cpp): the table every instance has of its own, the registry    *)
(* they share, the dialog that shows and changes a table, and the sessions *)
(* that read it and write to it what they derive from the video.           *)
(* Saving and loading are one step each: ove_CS makes them so within a     *)
(* process.                                                                *)
(***************************************************************************)
EXTENDS Integers

CONSTANTS
    Instances,   \* the codec instances
    Scenarios,   \* the settings that are touched, the videos that are encoded
                 \* and how many devices there may be; a behaviour is about one
    Default,     \* the values prepareConfigMap gives
    Registries,  \* what may be found in the registry at the start
    Typed,       \* the numbers that are typed
    Matrices,    \* colour matrices
    Bt601,       \* BT601_FULL, the only one BGRtoNV12 knows
    MaxQuant,    \* MAX_QUANT
    MaxBitrate,  \* MAX_BITRATE
    Kilo,        \* 1000
    Word         \* 2^32

\* method: 0 fixed quantizer, 3 and 4 constant and variable bit rate.  rate
\* and offset are the ones a session derives, if sendFPS and crop are ticked.
\* opencl is mUseCLConv, which is kept beside the table and stored with it.
Keys == {"method", "qpI", "qpP", "bitrate", "idr", "device",
         "sendFPS", "rate", "crop", "offset", "matrix", "opencl"}

Switches == {"sendFPS", "crop", "opencl"}

Methods == {0, 3, 4}

\* What each setting may hold: numbers that fit where they are kept and mean
\* something to the encoder.
Allowed ==
    [method |-> Methods, qpI |-> 0 .. MaxQuant, qpP |-> 0 .. MaxQuant,
     bitrate |-> {n \in Nat \ {0} : n % Kilo = 0},
     idr |-> {n \in Int : -Word <= 2 * n /\ 2 * n < Word},
     device |-> Nat, sendFPS |-> {0, 1}, rate |-> Nat \ {0},
     crop |-> {0, 1}, offset |-> 0 .. 7, matrix |-> Matrices,
     opencl |-> {0, 1}]

\* One control sets both quantizers.
OneQuantizer(t) == t["qpI"] = t["qpP"]

Tables == {t \in [Keys -> Int] : OneQuantizer(t) /\ \A k \in Keys : t[k] \in Allowed[k]}

\* What this driver, or an older one that knew fewer settings, stores.
IsStored(r) ==
    /\ DOMAIN r \subseteq Keys
    /\ \A k \in DOMAIN r : r[k] \in Allowed[k]
    /\ "qpI" \in DOMAIN r <=> "qpP" \in DOMAIN r
    /\ "qpI" \in DOMAIN r => OneQuantizer(r)

ASSUME ConfigAssumption ==
    /\ Kilo \in Nat \ {0} /\ Word \in Nat \ {0, 1, 2}
    /\ MaxQuant \in Nat /\ MaxBitrate \in Nat \ {0}
    /\ MaxQuant < Word /\ MaxBitrate < Word
    /\ Typed \subseteq Nat /\ Matrices \subseteq Nat /\ Bt601 \in Matrices
    /\ Default \in Tables
    /\ \A r \in Registries : IsStored(r)
    /\ Scenarios \subseteq [keys : SUBSET Keys,
                         videos : SUBSET [fps : Nat \ {0}, height : Nat \ {0}],
                         counts : SUBSET Nat]

VARIABLES
    scenario,  \* what this behaviour is about
    devices,   \* how many devices the driver lists now
    listed,    \* how many it listed when each instance was made: mDevList
    registry,  \* the values stored under the key, a function of some of Keys
    table,     \* mConfigTable of each instance, a function of no key without one
    shown,     \* what the dialog of each instance shows
    told,      \* fps_num and fps_den of each instance, 0 if it was not told
    session,   \* what the session of each instance was started with
    cause      \* the rates and offsets that anything has put into a table

vars == <<scenario, devices, listed, registry, table, shown, told, session, cause>>

NoTable == [k \in {} |-> 0]

Exists(i) == table[i] # NoTable

\* No colour matrix.
None == -1

\* No dialog, and no session.
Closed == [open |-> FALSE, rc |-> 0, idr |-> 0, device |-> -1]

NoSession ==
    [running |-> FALSE, rate |-> 0, sends |-> FALSE, fps |-> 0, offset |-> 0,
     cropped |-> FALSE, height |-> 0, device |-> 0, of |-> 0,
     matrix |-> None, byKernels |-> FALSE, converted |-> None, vui |-> None,
     changed |-> FALSE]

SetTable(i, t) == table' = [table EXCEPT ![i] = t]
SetShown(i, s) == shown' = [shown EXCEPT ![i] = s]

\* Whether the matrix of the table was changed while the session ran.
MatrixBecomes(i, m) ==
    session' = [session EXCEPT ![i].changed =
                   session[i].changed \/ (session[i].running /\ m # table[i].matrix)]

-----------------------------------------------------------------------------
(* The registry *)

\* readRegistry: what is not stored keeps the value it has.
Loaded(t) == [k \in Keys |-> IF k \in DOMAIN registry THEN registry[k] ELSE t[k]]

New(i) ==
    /\ ~Exists(i)
    /\ SetTable(i, Loaded(Default))
    /\ listed' = [listed EXCEPT ![i] = devices]
    /\ told' = [told EXCEPT ![i] = 0]
    /\ UNCHANGED <<scenario, devices, registry, shown, session, cause>>

Delete(i) ==
    /\ Exists(i) /\ ~shown[i].open
    /\ SetTable(i, NoTable)
    /\ session' = [session EXCEPT ![i] = NoSession]
    /\ UNCHANGED <<scenario, devices, listed, registry, shown, told, cause>>

-----------------------------------------------------------------------------
(* The controls *)

\* CheckControlTextIsNumber drops the sign; GetDlgItemInt gives 0 for a number
\* that does not fit.
Digits(n) == IF n < 0 THEN -n ELSE n
Reads(n) == IF Digits(n) < Word THEN Digits(n) ELSE 0

\* Mutant of Signed: the table holds what was typed.
Unsigned(n) == n

\* A uint32 assigned to an int32.
Signed(n) == IF 2 * n < Word THEN n ELSE n - Word

Clip(n, low, high) == IF n < low THEN low ELSE IF n > high THEN high ELSE n

LowestRC(t) == IF t.method = 0 THEN 0 ELSE 1
HighestRC(t) == IF t.method = 0 THEN MaxQuant ELSE MaxBitrate

\* Mutant of TypedRC: the mode is not asked for.
TypedBitrate(t, n) == [t EXCEPT !.bitrate = Kilo * Clip(Reads(n), 1, MaxBitrate)]

\* EN_CHANGE of the number of the rate control, and the slider above it, which
\* sets that number.
TypedRC(t, n) ==
    LET v == Clip(Reads(n), LowestRC(t), HighestRC(t))
    IN  IF t.method = 0 THEN [t EXCEPT !.qpI = v, !.qpP = v]
                        ELSE [t EXCEPT !.bitrate = Kilo * v]

\* Only what is too large is put right on the screen.
TextRC(t, n) == IF Reads(n) > HighestRC(t) THEN HighestRC(t) ELSE Digits(n)

\* EN_CHANGE of the key frame interval: no limit but the width of the number.
TypedIDR(t, n) == [t EXCEPT !.idr = Signed(IF Reads(n) < 1 THEN 1 ELSE Reads(n))]

ShownRC(t) == IF t.method = 0 THEN t.qpI ELSE t.bitrate \div Kilo

\* MIN of a signed and an unsigned number: the index is cut to the number of
\* the devices, and a negative one counts as large.
ListedDevice(i, d) ==
    IF listed[i] = 0 \/ d \in 0 .. listed[i] - 1 THEN d ELSE listed[i]

\* WM_INITDIALOG: DialogUpdate while mDialogUpdated is false, so that nothing
\* it shows is taken for an input.
OpenDialog(i) ==
    /\ Exists(i) /\ ~shown[i].open
    /\ LET t == [table[i] EXCEPT !.device = ListedDevice(i, @)]
       IN  /\ SetTable(i, t)
           /\ SetShown(i, [open |-> TRUE, rc |-> ShownRC(t), idr |-> t.idr,
                           device |-> IF t.device < listed[i] THEN t.device ELSE -1])
    /\ UNCHANGED <<scenario, devices, listed, registry, told, session, cause>>

Dialog(i, k) == shown[i].open /\ k \in scenario.keys

\* A tick box.
Tick(i, k) ==
    /\ Dialog(i, k) /\ k \in Switches
    /\ SetTable(i, [table[i] EXCEPT ![k] = IF @ = 0 THEN 1 ELSE 0])
    /\ UNCHANGED <<scenario, devices, listed, registry, shown, told, session, cause>>

\* Mutant of ModeShown: the number is left as it was.
ModeShownLater(s, t) == s

\* The mode changes what the number means, and DialogUpdate shows it, once
\* more without taking that for an input.
ModeShown(s, t) == [s EXCEPT !.rc = ShownRC(t), !.idr = t.idr]

SelectMode(i, m) ==
    /\ Dialog(i, "method") /\ m # table[i].method
    /\ SetTable(i, [table[i] EXCEPT !.method = m])
    /\ SetShown(i, ModeShown(shown[i], table'[i]))
    /\ UNCHANGED <<scenario, devices, listed, registry, told, session, cause>>

\* Only the devices that were listed when the instance was made are offered.
SelectDevice(i, d) ==
    /\ Dialog(i, "device") /\ d < listed[i]
    /\ SetTable(i, [table[i] EXCEPT !.device = d])
    /\ SetShown(i, [shown[i] EXCEPT !.device = d])
    /\ UNCHANGED <<scenario, devices, listed, registry, told, session, cause>>

SelectMatrix(i, m) ==
    /\ Dialog(i, "matrix")
    /\ SetTable(i, [table[i] EXCEPT !.matrix = m])
    /\ MatrixBecomes(i, m)
    /\ UNCHANGED <<scenario, devices, listed, registry, shown, told, cause>>

TypeRC(i, n) ==
    /\ Dialog(i, IF table[i].method = 0 THEN "qpI" ELSE "bitrate")
    /\ SetTable(i, TypedRC(table[i], n))
    /\ SetShown(i, [shown[i] EXCEPT !.rc = TextRC(table[i], n)])
    /\ UNCHANGED <<scenario, devices, listed, registry, told, session, cause>>

TypeIDR(i, n) ==
    /\ Dialog(i, "idr")
    /\ SetTable(i, TypedIDR(table[i], n))
    /\ SetShown(i, [shown[i] EXCEPT !.idr = n])
    /\ UNCHANGED <<scenario, devices, listed, registry, told, session, cause>>

\* prepareConfigMap(true), which knows nothing of the rate control.
QuickTable(t) == [t EXCEPT !.offset = Default.offset]

\* Here mDialogUpdated is true while DialogUpdate runs: every number it shows
\* comes back as an input.
QuickSet(i) ==
    /\ shown[i].open
    /\ LET t == QuickTable(table[i])
           rc == ShownRC(t)
       IN  /\ SetTable(i, TypedIDR(TypedRC(t, rc), t.idr))
           /\ SetShown(i, [shown[i] EXCEPT !.rc = TextRC(t, rc), !.idr = Digits(t.idr)])
    /\ UNCHANGED <<scenario, devices, listed, registry, told, session, cause>>

\* saveRegistry stores the whole table, with what sessions have put there, or
\* cannot make the key, which OK does not ask.
OK(i) ==
    /\ shown[i].open
    /\ registry' \in {table[i], registry}
    /\ SetShown(i, Closed)
    /\ UNCHANGED <<scenario, devices, listed, table, told, session, cause>>

\* Cancel reads the registry again, be it newer than the dialog or not there.
Cancel(i) ==
    /\ shown[i].open
    /\ SetTable(i, Loaded(table[i]))
    /\ MatrixBecomes(i, Loaded(table[i]).matrix)
    /\ SetShown(i, Closed)
    /\ UNCHANGED <<scenario, devices, listed, registry, told, cause>>

\* WM_CLOSE: what was changed stays in the table of this instance.
CloseBox(i) ==
    /\ shown[i].open
    /\ SetShown(i, Closed)
    /\ UNCHANGED <<scenario, devices, listed, registry, table, told, session, cause>>

-----------------------------------------------------------------------------
(* Sessions *)

\* In behaviours that are about the frame rate.
CompressFramesInfo(i, v) ==
    /\ Exists(i) /\ "sendFPS" \in scenario.keys
    /\ told' = [told EXCEPT ![i] = v.fps]
    /\ UNCHANGED <<scenario, devices, listed, registry, table, shown, session, cause>>

\* What lies below the picture in its last row of macroblocks, in pairs.
CropOffset(height) == (((height + 15) \div 16) * 16 - height) \div 2

Sends(t) == t.sendFPS = 1

\* Mutant of Derived: the rate is sent whether that is ticked or not.
DerivedAlways(t, fps, height) ==
    [t EXCEPT !.offset = IF t.crop # 0 THEN CropOffset(height) ELSE @,
              !.rate = IF fps > 0 THEN fps ELSE @]

\* CompressBegin writes to the table what it derives from the video.
Derived(t, fps, height) ==
    [t EXCEPT !.offset = IF t.crop # 0 THEN CropOffset(height) ELSE @,
              !.rate = IF Sends(t) /\ fps > 0 THEN fps ELSE @]

\* Mutant of UsedDevice: the table is trusted.
AnyDevice(d) == d

\* An unsigned minimum, as in the dialog, but with the last index.
UsedDevice(d) == IF d \in 0 .. devices - 1 THEN d ELSE devices - 1

UsesOpenCL(t) == t.opencl = 1

\* Mutant of UsedMatrix: the kernels are built with the default one.
DefaultMatrix(t) == IF UsesOpenCL(t) THEN Default.matrix ELSE None

\* The matrix of the kernels, which are built only with OpenCL.
UsedMatrix(t) == IF UsesOpenCL(t) THEN t.matrix ELSE None

\* encodeSetParam copies the table to the configuration of the encoder, which
\* stays as it is until the session ends.
Configured(i, v, t) ==
    [running |-> TRUE, rate |-> t.rate, sends |-> Sends(t), fps |-> told[i],
     offset |-> t.offset, cropped |-> t.crop # 0, height |-> v.height,
     device |-> UsedDevice(t.device), of |-> devices,
     matrix |-> UsedMatrix(t), byKernels |-> FALSE, converted |-> None, vui |-> None,
     changed |-> FALSE]

\* The session that ran before is ended first.  The table is written before
\* the device is asked for and the encoder opened, which may fail.
CompressBegin(i, v) ==
    /\ Exists(i)
    /\ LET t == Derived(table[i], told[i], v.height)
       IN  /\ SetTable(i, t)
           /\ \/ session' = [session EXCEPT ![i] = NoSession]
              \/ /\ devices > 0
                 /\ session' = [session EXCEPT ![i] = Configured(i, v, t)]
    /\ cause' = [rates |-> cause.rates \cup
                    (IF Sends(table[i]) /\ told[i] > 0 THEN {told[i]} ELSE {}),
                 offsets |-> cause.offsets \cup
                    (IF table[i].crop # 0 THEN {CropOffset(v.height)} ELSE {})]
    /\ UNCHANGED <<scenario, devices, listed, registry, shown, told>>

\* A frame of RGB with a parameter set: who converts it is asked for anew, and
\* add_vui is given the matrix of the table.  The process does not survive that
\* OpenCL is ticked in a session that began without kernels.
Compress(i) ==
    /\ session[i].running
    /\ UsesOpenCL(table[i]) => session[i].matrix # None
    /\ session' = [session EXCEPT
           ![i].byKernels = UsesOpenCL(table[i]),
           ![i].converted = IF UsesOpenCL(table[i]) THEN session[i].matrix ELSE Bt601,
           ![i].vui = table[i].matrix]
    /\ UNCHANGED <<scenario, devices, listed, registry, table, shown, told, cause>>

\* CompressEnd, and a CompressBegin that refuses the formats.
CompressEnd(i) ==
    /\ session[i].running
    /\ session' = [session EXCEPT ![i] = NoSession]
    /\ UNCHANGED <<scenario, devices, listed, registry, table, shown, told, cause>>

\* Devices come and go; an instance keeps the list it was made with, a session
\* asks for it again.
Replug(n) ==
    /\ n # devices
    /\ devices' = n
    /\ UNCHANGED <<scenario, listed, registry, table, shown, told, session, cause>>

-----------------------------------------------------------------------------
\* What sessions of earlier processes left in the registry.
Stored(k) == IF k \in DOMAIN registry THEN {registry[k]} ELSE {}

Init ==
    /\ scenario \in Scenarios
    /\ devices \in scenario.counts
    /\ listed = [i \in Instances |-> 0]
    /\ registry \in Registries
    /\ table = [i \in Instances |-> NoTable]
    /\ shown = [i \in Instances |-> Closed]
    /\ told = [i \in Instances |-> 0]
    /\ session = [i \in Instances |-> NoSession]
    /\ cause = [rates |-> {Default.rate} \cup Stored("rate"),
                offsets |-> {Default.offset} \cup Stored("offset")]

UserStep(i) ==
    \/ OpenDialog(i) \/ QuickSet(i) \/ OK(i) \/ Cancel(i) \/ CloseBox(i)
    \/ \E k \in Switches : Tick(i, k)
    \/ \E m \in Methods : SelectMode(i, m)
    \/ \E d \in scenario.counts : SelectDevice(i, d)
    \/ \E m \in Matrices : SelectMatrix(i, m)
    \/ \E n \in Typed : TypeRC(i, n) \/ TypeIDR(i, n)

HostStep(i) ==
    \/ New(i) \/ Delete(i) \/ Compress(i) \/ CompressEnd(i)
    \/ \E v \in scenario.videos : CompressFramesInfo(i, v) \/ CompressBegin(i, v)

Next ==
    \/ \E i \in Instances : UserStep(i) \/ HostStep(i)
    \/ \E n \in scenario.counts : Replug(n)

Spec == Init /\ [][Next]_vars

-----------------------------------------------------------------------------
(* Properties *)

Dialogs == [open : BOOLEAN, rc : Int, idr : Int, device : Int]

Sessions ==
    [running : BOOLEAN, rate : Int, sends : BOOLEAN, fps : Nat, offset : Int,
     cropped : BOOLEAN, height : Nat, device : Int, of : Nat,
     matrix : Int, byKernels : BOOLEAN, converted : Int, vui : Int,
     changed : BOOLEAN]

\* Every setting fits where it is kept and means something to the encoder,
\* whatever is typed, loaded or derived; an instance without a table has
\* neither a dialog nor a session.
TypeOK ==
    /\ scenario \in Scenarios /\ devices \in scenario.counts
    /\ listed \in [Instances -> scenario.counts \cup {0}]
    /\ told \in [Instances -> Nat]
    /\ table \in [Instances -> Tables \cup {NoTable}]
    /\ IsStored(registry)
    /\ shown \in [Instances -> Dialogs]
    /\ session \in [Instances -> Sessions]
    /\ cause \in [rates : SUBSET Int, offsets : SUBSET Int]
    /\ \A i \in Instances : ~Exists(i) => ~shown[i].open /\ ~session[i].running

\* What an open dialog shows is what a session would use, as far as it shows a
\* number that is allowed: the quantizer or bit rate of the chosen mode, the
\* key frame interval and the device.  The number, the mode and the quick sets
\* are set by handlers that call one another, which mDialogUpdated is to stop.
ShownIsUsed ==
    \A i \in Instances : shown[i].open =>
        /\ shown[i].rc \in LowestRC(table[i]) .. HighestRC(table[i]) =>
              IF table[i].method = 0
              THEN table[i].qpI = shown[i].rc /\ table[i].qpP = shown[i].rc
              ELSE table[i].bitrate = Kilo * shown[i].rc
        /\ shown[i].idr > 0 /\ 2 * shown[i].idr < Word => table[i].idr = shown[i].idr
        /\ shown[i].device >= 0 => table[i].device = shown[i].device

\* A session runs on a device that was there when it began, though the setting
\* may be of a time with other devices (compress.cpp:171).
DeviceExists ==
    \A i \in Instances :
        session[i].running => session[i].device \in 0 .. session[i].of - 1

\* A session with Send FPS has the rate it was told, and one with crop ends at
\* the last line of the picture, or one line below it when that is odd.
\* Otherwise both are the default or what some session derived while it was
\* ticked, never anything the encoder was not asked for.
ValuesHaveTheirCause ==
    \A i \in Instances : session[i].running =>
        /\ IF session[i].sends /\ session[i].fps > 0
           THEN session[i].rate = session[i].fps
           ELSE session[i].rate \in cause.rates
        /\ IF session[i].cropped
           THEN /\ session[i].offset \in 0 .. 7
                /\ (session[i].height + 2 * session[i].offset) % 16 \in {0, 15}
           ELSE session[i].offset \in cause.offsets

\* The matrix the stream tells is the one that the picture of the same frame
\* was converted with.  add_vui reads the table at every parameter set
\* (compress.cpp:821), the kernels were built with the table of CompressBegin
\* (compress.cpp:234) if OpenCL was ticked then, and the frame looks at that
\* tick again (compress.cpp:624).  Two cases are known to go wrong, and no
\* other: the matrix was changed while the session ran, by the control or by a
\* Cancel that loads another one; and a frame that BGRtoNV12 converts, which
\* has BT.601 whatever is set and told.
VuiTellsTheMatrix ==
    \A i \in Instances :
        session[i].running /\ session[i].vui # None =>
            \/ session[i].vui = session[i].converted
            \/ session[i].changed
            \/ ~session[i].byKernels /\ session[i].converted = Bt601

\* README.md:81 says of Send FPS: "Untick to treat all videos as having 30 fps".
UnsentIsDefault ==
    \A i \in Instances :
        session[i].running /\ ~session[i].sends => session[i].rate = Default.rate
=============================================================================
