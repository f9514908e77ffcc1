------------------------- MODULE ConfigTableProofs -------------------------
(***************************************************************************)
(* Proofs about ConfigTable, for any number of instances, devices, videos  *)
(* and typed numbers, and for whatever the driver may have stored.         *)
(***************************************************************************)
EXTENDS ConfigTable, TLAPS

-----------------------------------------------------------------------------
(* Tables *)

\* The settings of a table, one by one.
LEMMA TableFields ==
    ASSUME NEW t \in Tables
    PROVE  /\ t \in [Keys -> Int] /\ t # NoTable
           /\ t.method \in Methods /\ t.qpI = t.qpP
           /\ t.qpI \in 0 .. MaxQuant
           /\ t.bitrate \in Nat \ {0} /\ t.bitrate % Kilo = 0
           /\ t.idr \in Int /\ -Word <= 2 * t.idr /\ 2 * t.idr < Word
           /\ t.device \in Nat /\ t.sendFPS \in {0, 1} /\ t.rate \in Nat \ {0}
           /\ t.crop \in {0, 1} /\ t.offset \in 0 .. 7 /\ t.matrix \in Matrices
           /\ t.opencl \in {0, 1}
  <1>1. t \in [Keys -> Int] /\ \A k \in Keys : t[k] \in Allowed[k]
    BY DEF Tables
  <1>2. t # NoTable
    BY <1>1 DEF NoTable, Keys
  <1>3. t.qpI = t.qpP
    BY DEF Tables, OneQuantizer
  <1> QED BY <1>1, <1>2, <1>3 DEF Keys, Allowed

\* What the settings may be, one by one.
LEMMA AllowedValues ==
    /\ Allowed["method"] = Methods
    /\ Allowed["qpI"] = 0 .. MaxQuant /\ Allowed["qpP"] = 0 .. MaxQuant
    /\ Allowed["bitrate"] = {n \in Nat \ {0} : n % Kilo = 0}
    /\ Allowed["idr"] = {n \in Int : -Word <= 2 * n /\ 2 * n < Word}
    /\ Allowed["device"] = Nat /\ Allowed["sendFPS"] = {0, 1} /\ Allowed["rate"] = Nat \ {0}
    /\ Allowed["crop"] = {0, 1} /\ Allowed["offset"] = 0 .. 7 /\ Allowed["matrix"] = Matrices
    /\ Allowed["opencl"] = {0, 1}
  BY DEF Allowed

\* All of them are integers.
LEMMA AllowedAreInt == \A k \in Keys : Allowed[k] \subseteq Int
  <1>1. Matrices \subseteq Int /\ MaxQuant \in Int
    BY ConfigAssumption
  <1>2. ASSUME NEW k \in Keys PROVE Allowed[k] \subseteq Int
    <2>1. CASE k \in {"device", "sendFPS", "rate", "crop", "offset", "opencl"}
      BY <2>1, AllowedValues
    <2>4. CASE k = "method"
      BY <2>4, AllowedValues DEF Methods
    <2>5. CASE k = "matrix"
      BY <1>1, <2>5, AllowedValues
    <2>2. CASE k \in {"qpI", "qpP"}
      BY <1>1, <2>2, AllowedValues
    <2>3. CASE k \in {"bitrate", "idr"}
      BY <2>3, AllowedValues
    <2> QED BY <2>1, <2>2, <2>3, <2>4, <2>5 DEF Keys
  <1> QED BY <1>2

\* A table that holds v in some settings, and otherwise what another one does.
Changed(u, t, keys, v) ==
    u \in Tables /\ \A m \in Keys : u[m] = IF m \in keys THEN v ELSE t[m]

\* One setting other than the quantizers is changed.
LEMMA SetField ==
    ASSUME NEW t \in Tables, NEW k \in Keys \ {"qpI", "qpP"}, NEW v \in Allowed[k],
           NEW u, u = [t EXCEPT ![k] = v]
    PROVE  Changed(u, t, {k}, v)
  <1>1. t \in [Keys -> Int] /\ \A m \in Keys : t[m] \in Allowed[m]
    BY DEF Tables
  <1>2. v \in Int
    BY AllowedAreInt
  <1>3. u \in [Keys -> Int]
    BY <1>1, <1>2
  <1>4. \A m \in Keys : u[m] = IF m = k THEN v ELSE t[m]
    BY <1>1
  <1>5. OneQuantizer(u)
    BY <1>4 DEF Tables, OneQuantizer, Keys
  <1> QED BY <1>1, <1>3, <1>4, <1>5 DEF Tables, Changed

\* Both quantizers are.
LEMMA SetQuantizers ==
    ASSUME NEW t \in Tables, NEW v \in 0 .. MaxQuant,
           NEW u, u = [t EXCEPT !.qpI = v, !.qpP = v]
    PROVE  Changed(u, t, {"qpI", "qpP"}, v)
  <1>1. t \in [Keys -> Int] /\ \A m \in Keys : t[m] \in Allowed[m]
    BY DEF Tables
  <1>2. u \in [Keys -> Int]
    <2>1. v \in Int
      BY ConfigAssumption
    <2> QED BY <1>1, <2>1
  <1>3. u["qpI"] = v /\ u["qpP"] = v /\ \A m \in Keys \ {"qpI", "qpP"} : u[m] = t[m]
    BY <1>1 DEF Keys
  <1>4. \A m \in Keys : u[m] \in Allowed[m]
    BY <1>1, <1>3, AllowedValues
  <1>5. u \in Tables
    BY <1>2, <1>3, <1>4 DEF Tables, OneQuantizer
  <1> QED BY <1>3, <1>5 DEF Changed

\* What is read from the registry fits.
LEMMA LoadedIsTable ==
    ASSUME NEW t \in Tables, IsStored(registry)
    PROVE  Loaded(t) \in Tables
  <1>1. t \in [Keys -> Int] /\ (\A m \in Keys : t[m] \in Allowed[m]) /\ OneQuantizer(t)
    BY DEF Tables
  <1>2. \A k \in Keys : Loaded(t)[k] = IF k \in DOMAIN registry THEN registry[k] ELSE t[k]
    BY DEF Loaded
  <1>3. \A k \in Keys : Loaded(t)[k] \in Allowed[k]
    BY <1>1, <1>2 DEF IsStored
  <1>4. Loaded(t) \in [Keys -> Int]
    BY <1>3, AllowedAreInt DEF Loaded
  <1>5. OneQuantizer(Loaded(t))
    BY <1>1, <1>2 DEF IsStored, OneQuantizer, Keys
  <1> QED BY <1>3, <1>4, <1>5 DEF Tables

\* A table can be stored.
LEMMA TableIsStored ==
    ASSUME NEW t \in Tables
    PROVE  IsStored(t)
  BY DEF Tables, IsStored, Keys

-----------------------------------------------------------------------------
(* Numbers *)

\* The digits of a number, read back.
LEMMA ReadsFacts ==
    ASSUME NEW n \in Int
    PROVE  /\ Digits(n) \in Nat /\ Reads(n) \in Nat /\ Reads(n) < Word
           /\ Digits(n) < Word => Reads(n) = Digits(n)
           /\ n \in Nat => Digits(n) = n
  BY ConfigAssumption DEF Digits, Reads

\* A number that is cut to a range lies in it, and is itself if it did before.
LEMMA ClipFacts ==
    ASSUME NEW n \in Int, NEW low \in Int, NEW high \in Int, low <= high
    PROVE  /\ Clip(n, low, high) \in low .. high
           /\ n \in low .. high => Clip(n, low, high) = n
           /\ n > high => Clip(n, low, high) = high
  BY DEF Clip

\* A uint32 that is kept in an int32.
LEMMA SignedFits ==
    ASSUME NEW n \in Nat, n < Word
    PROVE  Signed(n) \in Allowed["idr"] /\ (2 * n < Word => Signed(n) = n)
  BY ConfigAssumption DEF Signed, Allowed

\* The limits of the rate control number are in order.
LEMMA RangeOfRC ==
    ASSUME NEW t \in Tables
    PROVE  /\ LowestRC(t) \in Nat /\ HighestRC(t) \in Nat
           /\ LowestRC(t) <= HighestRC(t) /\ HighestRC(t) < Word
           /\ t.method = 0 => LowestRC(t) = 0 /\ HighestRC(t) = MaxQuant
           /\ t.method # 0 => LowestRC(t) = 1 /\ HighestRC(t) = MaxBitrate
  BY ConfigAssumption DEF LowestRC, HighestRC

\* The bit rate in thousands, and back.
LEMMA KiloFacts ==
    /\ \A n \in Nat \ {0} : Kilo * n \in Allowed["bitrate"]
    /\ \A n \in Nat \ {0} : n % Kilo = 0 => n = Kilo * (n \div Kilo) /\ n \div Kilo \in Nat
  <1>1. ASSUME NEW n \in Nat \ {0} PROVE Kilo * n \in Nat \ {0} /\ (Kilo * n) % Kilo = 0
    BY ConfigAssumption
  <1>2. ASSUME NEW n \in Nat \ {0}, n % Kilo = 0
        PROVE  n = Kilo * (n \div Kilo) /\ n \div Kilo \in Nat
    BY <1>2, ConfigAssumption
  <1> QED BY <1>1, <1>2 DEF Allowed

-----------------------------------------------------------------------------
(* What the controls and the sessions make of a table *)

\* A table that holds v as the number of its mode, and otherwise what another
\* one does.
HoldsNumber(u, t, v) ==
    /\ u \in Tables
    /\ \A k \in Keys \ {"qpI", "qpP", "bitrate"} : u[k] = t[k]
    /\ v \in LowestRC(t) .. HighestRC(t)
    /\ IF t.method = 0 THEN u.qpI = v /\ u.qpP = v ELSE u.bitrate = Kilo * v

\* The number of the rate control.
LEMMA TypedRCTable ==
    ASSUME NEW t \in Tables, NEW n \in Int, NEW u, u = TypedRC(t, n),
           NEW v, v = Clip(Reads(n), LowestRC(t), HighestRC(t))
    PROVE  HoldsNumber(u, t, v)
  <1>1. v \in LowestRC(t) .. HighestRC(t)
    <2>1. Reads(n) \in Int
      BY ReadsFacts
    <2>2. LowestRC(t) \in Int /\ HighestRC(t) \in Int /\ LowestRC(t) <= HighestRC(t)
      BY RangeOfRC
    <2> QED BY <2>1, <2>2, ClipFacts
  <1>2. CASE t.method = 0
    <2>1. v \in 0 .. MaxQuant /\ u = [t EXCEPT !.qpI = v, !.qpP = v]
      BY <1>1, <1>2, RangeOfRC DEF TypedRC
    <2>2. Changed(u, t, {"qpI", "qpP"}, v)
      BY <2>1, SetQuantizers, Zenon
    <2> QED BY <1>1, <1>2, <2>2 DEF Changed, Keys, HoldsNumber
  <1>3. CASE t.method # 0
    <2>1. v \in Nat \ {0} /\ u = [t EXCEPT !["bitrate"] = Kilo * v]
      BY <1>1, <1>3, RangeOfRC DEF TypedRC
    <2>2. Kilo * v \in Allowed["bitrate"] /\ "bitrate" \in Keys \ {"qpI", "qpP"}
      BY <2>1, KiloFacts DEF Keys
    <2>3. Changed(u, t, {"bitrate"}, Kilo * v)
      BY <2>1, <2>2, SetField
    <2> QED BY <1>1, <1>3, <2>3 DEF Changed, Keys, HoldsNumber
  <1> QED BY <1>2, <1>3

\* The key frame interval.
LEMMA TypedIDRTable ==
    ASSUME NEW t \in Tables, NEW n \in Int, NEW u, u = TypedIDR(t, n)
    PROVE  /\ u \in Tables
           /\ \A k \in Keys \ {"idr"} : u[k] = t[k]
           /\ Digits(n) > 0 /\ 2 * Digits(n) < Word => u.idr = Digits(n)
  <1>1. PICK m \in Nat : m = IF Reads(n) < 1 THEN 1 ELSE Reads(n)
    BY ReadsFacts
  <1>2. /\ m < Word
        /\ Digits(n) > 0 /\ 2 * Digits(n) < Word => m = Digits(n) /\ 2 * m < Word
    BY <1>1, ReadsFacts, ConfigAssumption
  <1>3. u = [t EXCEPT !["idr"] = Signed(m)]
    BY <1>1 DEF TypedIDR
  <1>4. Signed(m) \in Allowed["idr"] /\ (2 * m < Word => Signed(m) = m)
    BY <1>2, SignedFits
  <1>5. "idr" \in Keys \ {"qpI", "qpP"}
    BY DEF Keys
  <1>6. Changed(u, t, {"idr"}, Signed(m))
    BY <1>3, <1>4, <1>5, SetField
  <1> QED BY <1>2, <1>4, <1>6 DEF Changed, Keys

\* The lines that are cropped: at most 15, and they fill the last row of
\* macroblocks but for one line.
LEMMA CropFacts ==
    ASSUME NEW h \in Nat
    PROVE  CropOffset(h) \in 0 .. 7 /\ (h + 2 * CropOffset(h)) % 16 \in {0, 15}
  BY DEF CropOffset

\* A table with the rate and the offset that a session derives, and otherwise
\* what another one has.
HoldsDerived(u, t, fps, h) ==
    /\ u \in Tables
    /\ \A k \in Keys \ {"rate", "offset"} : u[k] = t[k]
    /\ u.rate = IF Sends(t) /\ fps > 0 THEN fps ELSE t.rate
    /\ u.offset = IF t.crop # 0 THEN CropOffset(h) ELSE t.offset

\* What CompressBegin writes is a table.
LEMMA DerivedTable ==
    ASSUME NEW t \in Tables, NEW fps \in Nat, NEW h \in Nat, NEW u, u = Derived(t, fps, h)
    PROVE  HoldsDerived(u, t, fps, h)
  <1>1. PICK o \in Allowed["offset"] : o = IF t.crop # 0 THEN CropOffset(h) ELSE t.offset
    BY TableFields, CropFacts, AllowedValues
  <1>2. PICK r \in Allowed["rate"] : r = IF Sends(t) /\ fps > 0 THEN fps ELSE t.rate
    BY TableFields, AllowedValues
  <1>3. "offset" \in Keys \ {"qpI", "qpP"} /\ "rate" \in Keys \ {"qpI", "qpP"}
    BY DEF Keys
  <1>4. PICK w : w = [t EXCEPT !["offset"] = o]
    OBVIOUS
  <1>5. Changed(w, t, {"offset"}, o)
    BY <1>3, <1>4, SetField
  <1>6. u = [w EXCEPT !["rate"] = r] /\ w \in Tables
    BY <1>1, <1>2, <1>4, <1>5 DEF Derived, Changed
  <1>7. Changed(u, w, {"rate"}, r)
    BY <1>3, <1>6, SetField
  <1> QED BY <1>1, <1>2, <1>3, <1>5, <1>7 DEF Changed, Keys, HoldsDerived

-----------------------------------------------------------------------------
(* What the dialog shows *)

\* The parts of ShownIsUsed, for a table and a dialog.
AgreesRC(t, rc) ==
    rc \in LowestRC(t) .. HighestRC(t) =>
        IF t.method = 0 THEN t.qpI = rc /\ t.qpP = rc ELSE t.bitrate = Kilo * rc

AgreesIDR(t, idr) == idr > 0 /\ 2 * idr < Word => t.idr = idr

AgreesDevice(t, d) == d >= 0 => t.device = d

Agrees(t, s) == AgreesRC(t, s.rc) /\ AgreesIDR(t, s.idr) /\ AgreesDevice(t, s.device)

\* ShownIsUsed, instance by instance and number by number.
LEMMA ShownAgrees ==
    ShownIsUsed <=> \A i \in Instances : shown[i].open => Agrees(table[i], shown[i])
  BY Zenon DEF ShownIsUsed, Agrees, AgreesRC, AgreesIDR, AgreesDevice

\* A table that differs in other settings agrees with what is shown as well.
LEMMA OthersAgree ==
    ASSUME NEW t \in Tables, NEW u \in Tables,
           \A k \in {"method", "qpI", "qpP", "bitrate", "idr", "device"} : u[k] = t[k],
           NEW s \in Dialogs, Agrees(t, s)
    PROVE  Agrees(u, s)
  <1>1. /\ u.method = t.method /\ u.qpI = t.qpI /\ u.qpP = t.qpP
        /\ u.bitrate = t.bitrate /\ u.idr = t.idr /\ u.device = t.device
    BY Zenon
  <1> QED BY <1>1 DEF Agrees, AgreesRC, AgreesIDR, AgreesDevice, LowestRC, HighestRC

\* The number of the mode, as DialogUpdate shows it.
LEMMA ShownRCAgrees ==
    ASSUME NEW t \in Tables
    PROVE  ShownRC(t) \in Int /\ AgreesRC(t, ShownRC(t))
  <1>1. CASE t.method = 0
    BY <1>1, TableFields, ConfigAssumption DEF ShownRC, AgreesRC
  <1>2. CASE t.method # 0
    <2>1. t.bitrate = Kilo * (t.bitrate \div Kilo) /\ t.bitrate \div Kilo \in Nat
      BY TableFields, KiloFacts
    <2> QED BY <1>2, <2>1 DEF ShownRC, AgreesRC
  <1> QED BY <1>1, <1>2

\* The number as it was typed.
LEMMA TypedRCAgrees ==
    ASSUME NEW t \in Tables, NEW n \in Int, NEW u, u = TypedRC(t, n),
           NEW rc, rc = TextRC(t, n)
    PROVE  rc \in Int /\ AgreesRC(u, rc)
  <1>1. PICK v : v = Clip(Reads(n), LowestRC(t), HighestRC(t))
    OBVIOUS
  <1>2. HoldsNumber(u, t, v)
    BY <1>1, TypedRCTable, Zenon
  <1>3. /\ LowestRC(t) \in Nat /\ HighestRC(t) \in Nat
        /\ LowestRC(t) <= HighestRC(t) /\ HighestRC(t) < Word
    BY RangeOfRC
  <1>4. /\ Digits(n) \in Nat /\ Reads(n) \in Nat
        /\ Digits(n) < Word => Reads(n) = Digits(n)
    BY ReadsFacts
  <1>5. rc \in Int /\ (rc \in LowestRC(t) .. HighestRC(t) => v = rc)
    <2>1. Word \in Nat
      BY ConfigAssumption
    <2> QED BY <1>1, <1>3, <1>4, <2>1 DEF TextRC, Clip
  <1>6. u.method = t.method
    BY <1>2 DEF Keys, HoldsNumber
  <1>7. LowestRC(u) = LowestRC(t) /\ HighestRC(u) = HighestRC(t)
    BY <1>6 DEF LowestRC, HighestRC
  <1> QED BY <1>2, <1>5, <1>6, <1>7 DEF AgreesRC, HoldsNumber

\* What is typed as the key frame interval is kept, or shows what it became.
LEMMA TypedIDRAgrees ==
    ASSUME NEW t \in Tables, NEW n \in Int, NEW u, u = TypedIDR(t, n)
    PROVE  Digits(n) \in Int /\ AgreesIDR(u, Digits(n))
  <1>1. Digits(n) > 0 /\ 2 * Digits(n) < Word => u.idr = Digits(n)
    BY TypedIDRTable, Zenon
  <1>2. Digits(n) \in Int
    BY ReadsFacts
  <1> QED BY <1>1, <1>2 DEF AgreesIDR

\* A dialog that shows two numbers, and otherwise what another one does.
Shows(u, s, rc, idr) ==
    /\ u \in Dialogs /\ u.open = s.open /\ u.device = s.device
    /\ u.rc = rc /\ u.idr = idr

\* A dialog shows the numbers that were set.
LEMMA SetDialog ==
    ASSUME NEW s \in Dialogs, NEW rc \in Int, NEW idr \in Int,
           NEW u, u = [s EXCEPT !.rc = rc, !.idr = idr]
    PROVE  Shows(u, s, rc, idr)
  <1>1. u = [open |-> s.open, rc |-> rc, idr |-> idr, device |-> s.device]
    BY Zenon DEF Dialogs
  <1> QED BY <1>1 DEF Dialogs, Shows
-----------------------------------------------------------------------------
(* What a user does *)

\* What an instance has.
LEMMA OfInstance ==
    ASSUME TypeOK, NEW i \in Instances
    PROVE  /\ shown[i] \in Dialogs /\ session[i] \in Sessions
           /\ listed[i] \in Nat /\ told[i] \in Nat
           /\ shown[i].open \/ session[i].running => Exists(i)
           /\ Exists(i) => table[i] \in Tables
  <1>1. scenario.counts \subseteq Nat
    BY ConfigAssumption DEF TypeOK
  <1>2. listed[i] \in scenario.counts \cup {0}
    BY DEF TypeOK
  <1> QED BY <1>1, <1>2 DEF TypeOK, Exists

\* The table and the dialog of an instance are set to t and s: they still
\* agree, the table holds no rate and no offset that was not there or stored,
\* and the matrix does not change without the session noting it.
UserSets(i, t, s) ==
    /\ Exists(i)
    /\ t \in Tables /\ s \in Dialogs
    /\ SetTable(i, t) /\ SetShown(i, s)
    /\ (shown[i].open => Agrees(table[i], shown[i])) => (s.open => Agrees(t, s))
    /\ \/ t.rate = table[i].rate /\ t.offset \in {table[i].offset, Default.offset}
       \/ t = Loaded(table[i])
    /\ \/ session' = session /\ t.matrix = table[i].matrix
       \/ MatrixBecomes(i, t.matrix)

\* Opening the dialog shows what is in the table.
LEMMA OpenDialogSets ==
    ASSUME TypeOK, NEW i \in Instances, OpenDialog(i)
    PROVE  \E t, s : UserSets(i, t, s)
  <1>1. table[i] \in Tables /\ listed[i] \in Nat /\ Exists(i)
    BY OfInstance DEF OpenDialog
  <1>2. PICK t, s :
            /\ t = [table[i] EXCEPT !.device = ListedDevice(i, @)]
            /\ s = [open |-> TRUE, rc |-> ShownRC(t), idr |-> t.idr,
                    device |-> IF t.device < listed[i] THEN t.device ELSE -1]
            /\ SetTable(i, t) /\ SetShown(i, s) /\ session' = session
    BY Zenon DEF OpenDialog
  <1>3. PICK d \in Allowed["device"] : d = ListedDevice(i, table[i]["device"])
    BY <1>1, TableFields, AllowedValues DEF ListedDevice
  <1>4. Changed(t, table[i], {"device"}, d)
    <2>1. "device" \in Keys \ {"qpI", "qpP"}
      BY DEF Keys
    <2>2. t = [table[i] EXCEPT !["device"] = d]
      BY <1>2, <1>3, Zenon
    <2> QED BY <1>1, <1>3, <2>1, <2>2, SetField
  <1>5. /\ t \in Tables /\ t.rate = table[i].rate /\ t.offset = table[i].offset
        /\ t.matrix = table[i].matrix
    BY <1>4 DEF Changed, Keys
  <1>6. t.idr \in Int /\ t.device \in Nat
    BY <1>5, TableFields
  <1>7. s \in Dialogs /\ Agrees(t, s)
    BY <1>1, <1>2, <1>5, <1>6, ShownRCAgrees DEF Dialogs, Agrees, AgreesIDR, AgreesDevice
  <1> QED BY <1>1, <1>2, <1>5, <1>7 DEF UserSets

\* A tick changes the table and what is shown.
LEMMA TickSets ==
    ASSUME TypeOK, NEW i \in Instances, NEW k \in Switches, Tick(i, k)
    PROVE  \E t, s : UserSets(i, t, s)
  <1>1. table[i] \in Tables /\ shown[i] \in Dialogs /\ Exists(i) /\ shown[i].open
    BY OfInstance DEF Tick, Dialog
  <1>2. PICK v \in Allowed[k] : v = IF table[i][k] = 0 THEN 1 ELSE 0
    BY AllowedValues DEF Switches
  <1>3. PICK t : t = [table[i] EXCEPT ![k] = v]
    OBVIOUS
  <1>4. Changed(t, table[i], {k}, v)
    <2>1. k \in Keys \ {"qpI", "qpP"}
      BY DEF Keys, Switches
    <2> QED BY <1>1, <1>2, <1>3, <2>1, SetField
  <1>5. SetTable(i, t) /\ SetShown(i, shown[i]) /\ session' = session
    <2>1. [table[i] EXCEPT ![k] = IF @ = 0 THEN 1 ELSE 0] = t
      BY <1>2, <1>3
    <2>2. shown = [shown EXCEPT ![i] = shown[i]]
      BY DEF TypeOK
    <2> QED BY <2>1, <2>2 DEF Tick, SetShown
  <1>6. /\ t \in Tables /\ t.rate = table[i].rate /\ t.offset = table[i].offset
        /\ t.matrix = table[i].matrix
        /\ \A m \in {"method", "qpI", "qpP", "bitrate", "idr", "device"} :
              t[m] = table[i][m]
    BY <1>4 DEF Changed, Keys, Switches
  <1>7. Agrees(table[i], shown[i]) => Agrees(t, shown[i])
    BY <1>1, <1>6, OthersAgree
  <1> QED BY <1>1, <1>5, <1>6, <1>7 DEF UserSets

\* So does another mode,
LEMMA SelectModeSets ==
    ASSUME TypeOK, NEW i \in Instances, NEW m \in Methods, SelectMode(i, m)
    PROVE  \E t, s : UserSets(i, t, s)
  <1>1. table[i] \in Tables /\ shown[i] \in Dialogs /\ Exists(i) /\ shown[i].open
    BY OfInstance DEF SelectMode, Dialog
  <1>2. PICK t : t = [table[i] EXCEPT !["method"] = m]
    OBVIOUS
  <1>3. Changed(t, table[i], {"method"}, m)
    <2>1. "method" \in Keys \ {"qpI", "qpP"} /\ m \in Allowed["method"]
      BY AllowedValues DEF Keys
    <2> QED BY <1>1, <1>2, <2>1, SetField
  <1>4. SetTable(i, t) /\ table'[i] = t
    BY <1>2 DEF SelectMode, SetTable, TypeOK
  <1>5. /\ t \in Tables /\ t.rate = table[i].rate /\ t.offset = table[i].offset
        /\ t.device = table[i].device /\ t.matrix = table[i].matrix
    BY <1>3 DEF Changed, Keys
  <1>6. PICK s : s = [shown[i] EXCEPT !.rc = ShownRC(t), !.idr = t.idr]
    OBVIOUS
  <1>7. SetShown(i, s) /\ session' = session
    BY <1>4, <1>6, Zenon DEF SelectMode, ModeShown
  <1>8. t.idr \in Int /\ ShownRC(t) \in Int
    BY <1>5, TableFields, ShownRCAgrees
  <1>9. Shows(s, shown[i], ShownRC(t), t.idr)
    BY <1>1, <1>6, <1>8, SetDialog, Zenon
  <1>10. Agrees(table[i], shown[i]) => Agrees(t, s)
    BY <1>5, <1>9, ShownRCAgrees DEF Agrees, AgreesIDR, AgreesDevice, Shows
  <1> QED BY <1>1, <1>4, <1>5, <1>7, <1>9, <1>10 DEF UserSets, Shows

\* another device,
LEMMA SelectDeviceSets ==
    ASSUME TypeOK, NEW i \in Instances, NEW d \in scenario.counts, SelectDevice(i, d)
    PROVE  \E t, s : UserSets(i, t, s)
  <1>1. table[i] \in Tables /\ shown[i] \in Dialogs /\ Exists(i) /\ shown[i].open
    BY OfInstance DEF SelectDevice, Dialog
  <1>2. PICK t : t = [table[i] EXCEPT !["device"] = d]
    OBVIOUS
  <1>3. Changed(t, table[i], {"device"}, d)
    <2>1. "device" \in Keys \ {"qpI", "qpP"} /\ d \in Allowed["device"]
      BY AllowedValues, ConfigAssumption DEF Keys, TypeOK
    <2> QED BY <1>1, <1>2, <2>1, SetField
  <1>4. PICK s : s = [shown[i] EXCEPT !.device = d]
    OBVIOUS
  <1>5. SetTable(i, t) /\ SetShown(i, s) /\ session' = session
    BY <1>2, <1>4 DEF SelectDevice
  <1>6. /\ t \in Tables /\ t.rate = table[i].rate /\ t.offset = table[i].offset
        /\ t.matrix = table[i].matrix
        /\ t.method = table[i].method /\ t.qpI = table[i].qpI /\ t.qpP = table[i].qpP
        /\ t.bitrate = table[i].bitrate /\ t.idr = table[i].idr /\ t.device = d
    BY <1>3 DEF Changed, Keys
  <1>7. /\ s \in Dialogs /\ s.open = shown[i].open /\ s.device = d
        /\ s.rc = shown[i].rc /\ s.idr = shown[i].idr
    <2>1. d \in Int
      BY <1>6, TableFields
    <2> QED BY <1>1, <1>4, <2>1 DEF Dialogs
  <1>8. Agrees(table[i], shown[i]) => Agrees(t, s)
    BY <1>6, <1>7 DEF Agrees, AgreesRC, AgreesIDR, AgreesDevice, LowestRC, HighestRC
  <1> QED BY <1>1, <1>5, <1>6, <1>7, <1>8 DEF UserSets

\* another matrix,
LEMMA SelectMatrixSets ==
    ASSUME TypeOK, NEW i \in Instances, NEW m \in Matrices, SelectMatrix(i, m)
    PROVE  \E t, s : UserSets(i, t, s)
  <1>1. table[i] \in Tables /\ shown[i] \in Dialogs /\ Exists(i) /\ shown[i].open
    BY OfInstance DEF SelectMatrix, Dialog
  <1>2. PICK t : t = [table[i] EXCEPT !["matrix"] = m]
    OBVIOUS
  <1>3. Changed(t, table[i], {"matrix"}, m)
    <2>1. "matrix" \in Keys \ {"qpI", "qpP"} /\ m \in Allowed["matrix"]
      BY AllowedValues DEF Keys
    <2> QED BY <1>1, <1>2, <2>1, SetField
  <1>4. SetTable(i, t) /\ SetShown(i, shown[i]) /\ MatrixBecomes(i, m)
    <2>1. shown = [shown EXCEPT ![i] = shown[i]]
      BY DEF TypeOK
    <2> QED BY <1>2, <2>1 DEF SelectMatrix, SetShown
  <1>5. /\ t \in Tables /\ t.rate = table[i].rate /\ t.offset = table[i].offset
        /\ t.matrix = m
        /\ \A k \in {"method", "qpI", "qpP", "bitrate", "idr", "device"} :
              t[k] = table[i][k]
    BY <1>3 DEF Changed, Keys
  <1>6. Agrees(table[i], shown[i]) => Agrees(t, shown[i])
    BY <1>1, <1>5, OthersAgree
  <1> QED BY <1>1, <1>4, <1>5, <1>6 DEF UserSets

\* another quantizer or rate,
LEMMA TypeRCSets ==
    ASSUME TypeOK, NEW i \in Instances, NEW n \in Typed, TypeRC(i, n)
    PROVE  \E t, s : UserSets(i, t, s)
  <1>1. table[i] \in Tables /\ shown[i] \in Dialogs /\ Exists(i) /\ shown[i].open
    BY OfInstance DEF TypeRC, Dialog
  <1>2. n \in Int
    BY ConfigAssumption
  <1>3. PICK t, rc : t = TypedRC(table[i], n) /\ rc = TextRC(table[i], n)
    OBVIOUS
  <1>4. HoldsNumber(t, table[i], Clip(Reads(n), LowestRC(table[i]), HighestRC(table[i])))
    BY <1>1, <1>2, <1>3, TypedRCTable, Zenon
  <1>5. rc \in Int /\ AgreesRC(t, rc)
    BY <1>1, <1>2, <1>3, TypedRCAgrees, Zenon
  <1>6. PICK s : s = [shown[i] EXCEPT !.rc = rc]
    OBVIOUS
  <1>7. SetTable(i, t) /\ SetShown(i, s) /\ session' = session
    BY <1>3, <1>6 DEF TypeRC
  <1>8. /\ t \in Tables /\ t.rate = table[i].rate /\ t.offset = table[i].offset
        /\ t.matrix = table[i].matrix
        /\ t.idr = table[i].idr /\ t.device = table[i].device
    BY <1>4 DEF HoldsNumber, Keys
  <1>9. /\ s \in Dialogs /\ s.open = shown[i].open /\ s.device = shown[i].device
        /\ s.rc = rc /\ s.idr = shown[i].idr
    BY <1>1, <1>5, <1>6 DEF Dialogs
  <1>10. Agrees(table[i], shown[i]) => Agrees(t, s)
    BY <1>5, <1>8, <1>9 DEF Agrees, AgreesIDR, AgreesDevice
  <1> QED BY <1>1, <1>7, <1>8, <1>9, <1>10 DEF UserSets

\* another key frame interval,
LEMMA TypeIDRSets ==
    ASSUME TypeOK, NEW i \in Instances, NEW n \in Typed, TypeIDR(i, n)
    PROVE  \E t, s : UserSets(i, t, s)
  <1>1. table[i] \in Tables /\ shown[i] \in Dialogs /\ Exists(i) /\ shown[i].open
    BY OfInstance DEF TypeIDR, Dialog
  <1>2. n \in Int /\ Digits(n) = n
    BY ConfigAssumption DEF Digits
  <1>3. PICK t : t = TypedIDR(table[i], n)
    OBVIOUS
  <1>4. t \in Tables /\ \A k \in Keys \ {"idr"} : t[k] = table[i][k]
    BY <1>1, <1>2, <1>3, TypedIDRTable
  <1>5. AgreesIDR(t, n)
    BY <1>1, <1>2, <1>3, TypedIDRAgrees
  <1>6. PICK s : s = [shown[i] EXCEPT !.idr = n]
    OBVIOUS
  <1>7. SetTable(i, t) /\ SetShown(i, s) /\ session' = session
    BY <1>3, <1>6 DEF TypeIDR
  <1>8. /\ t.rate = table[i].rate /\ t.offset = table[i].offset
        /\ t.matrix = table[i].matrix
        /\ t.method = table[i].method /\ t.qpI = table[i].qpI /\ t.qpP = table[i].qpP
        /\ t.bitrate = table[i].bitrate /\ t.device = table[i].device
    BY <1>4 DEF Keys
  <1>9. /\ s \in Dialogs /\ s.open = shown[i].open /\ s.device = shown[i].device
        /\ s.rc = shown[i].rc /\ s.idr = n
    BY <1>1, <1>2, <1>6 DEF Dialogs
  <1>10. Agrees(table[i], shown[i]) => Agrees(t, s)
    BY <1>5, <1>8, <1>9 DEF Agrees, AgreesRC, AgreesDevice, LowestRC, HighestRC
  <1> QED BY <1>1, <1>4, <1>7, <1>8, <1>9, <1>10 DEF UserSets

\* and a quick set.
LEMMA QuickSetSets ==
    ASSUME TypeOK, NEW i \in Instances, QuickSet(i)
    PROVE  \E t, s : UserSets(i, t, s)
  <1>1. table[i] \in Tables /\ shown[i] \in Dialogs /\ Exists(i) /\ shown[i].open
    BY OfInstance DEF QuickSet
  <1>2. PICK q, n, t, rc, idr, s :
            /\ q = QuickTable(table[i]) /\ n = ShownRC(q) /\ idr = q.idr
            /\ t = TypedIDR(TypedRC(q, n), idr) /\ rc = TextRC(q, n)
            /\ s = [shown[i] EXCEPT !.rc = rc, !.idr = Digits(idr)]
            /\ SetTable(i, t) /\ SetShown(i, s) /\ session' = session
    BY Zenon DEF QuickSet
  <1>3. Changed(q, table[i], {"offset"}, Default["offset"])
    <2>1. "offset" \in Keys \ {"qpI", "qpP"} /\ Default["offset"] \in Allowed["offset"]
      BY ConfigAssumption DEF Keys, Tables
    <2>2. q = [table[i] EXCEPT !["offset"] = Default["offset"]]
      BY <1>2, Zenon DEF QuickTable
    <2> QED BY <1>1, <2>1, <2>2, SetField
  <1>4. /\ q \in Tables /\ q.rate = table[i].rate /\ q.offset = Default.offset
        /\ q.matrix = table[i].matrix
        /\ q.device = table[i].device
    BY <1>3 DEF Changed, Keys
  <1>5. n \in Int /\ idr \in Int
    BY <1>2, <1>4, ShownRCAgrees, TableFields
  <1>6. PICK u : u = TypedRC(q, n)
    OBVIOUS
  <1>7. HoldsNumber(u, q, Clip(Reads(n), LowestRC(q), HighestRC(q)))
    BY <1>4, <1>5, <1>6, TypedRCTable, Zenon
  <1>8. rc \in Int /\ AgreesRC(u, rc)
    BY <1>2, <1>4, <1>5, <1>6, TypedRCAgrees, Zenon
  <1>9. /\ u \in Tables /\ u.rate = q.rate /\ u.offset = q.offset /\ u.matrix = q.matrix
        /\ u.device = q.device
    BY <1>7 DEF HoldsNumber, Keys
  <1>10. t = TypedIDR(u, idr)
    BY <1>2, <1>6, Zenon
  <1>11. t \in Tables /\ \A k \in Keys \ {"idr"} : t[k] = u[k]
    BY <1>5, <1>9, <1>10, TypedIDRTable
  <1>12. Digits(idr) \in Int /\ AgreesIDR(t, Digits(idr))
    BY <1>5, <1>9, <1>10, TypedIDRAgrees
  <1>13. /\ t.rate = u.rate /\ t.offset = u.offset /\ t.matrix = u.matrix /\ t.device = u.device
         /\ t.method = u.method /\ t.qpI = u.qpI /\ t.qpP = u.qpP
         /\ t.bitrate = u.bitrate
    BY <1>11 DEF Keys
  <1>14. Shows(s, shown[i], rc, Digits(idr))
    BY <1>1, <1>2, <1>8, <1>12, SetDialog, Zenon
  <1>15. Agrees(table[i], shown[i]) => Agrees(t, s)
    BY <1>4, <1>8, <1>9, <1>12, <1>13, <1>14
       DEF Agrees, AgreesRC, AgreesDevice, LowestRC, HighestRC, Shows
  <1> QED BY <1>1, <1>2, <1>4, <1>9, <1>11, <1>13, <1>14, <1>15 DEF UserSets, Shows

\* A closed dialog is a dialog.
LEMMA ClosedDialog == Closed \in Dialogs /\ ~Closed.open
  BY DEF Closed, Dialogs

\* The three ways to close a dialog.
LEMMA CloseSets ==
    ASSUME TypeOK, NEW i \in Instances, OK(i) \/ Cancel(i) \/ CloseBox(i)
    PROVE  \E t, s : UserSets(i, t, s)
  <1>1. table[i] \in Tables /\ Exists(i) /\ shown[i].open
    BY OfInstance DEF OK, Cancel, CloseBox
  <1>2. SetShown(i, Closed)
    BY DEF OK, Cancel, CloseBox
  <1>3. CASE Cancel(i)
    <2>1. Loaded(table[i]) \in Tables
      BY <1>1, LoadedIsTable DEF TypeOK
    <2>2. SetTable(i, Loaded(table[i])) /\ MatrixBecomes(i, Loaded(table[i]).matrix)
      BY <1>3 DEF Cancel
    <2> QED BY <1>1, <1>2, <2>1, <2>2, ClosedDialog DEF UserSets
  <1>4. CASE OK(i) \/ CloseBox(i)
    <2>1. SetTable(i, table[i]) /\ session' = session
      BY <1>4 DEF OK, CloseBox, SetTable, TypeOK
    <2> QED BY <1>1, <1>2, <2>1, ClosedDialog DEF UserSets
  <1> QED BY <1>3, <1>4

\* What a step of a user does, and what it leaves alone.
LEMMA UserMove ==
    ASSUME TypeOK, NEW i \in Instances, UserStep(i)
    PROVE  /\ \E t, s : UserSets(i, t, s)
           /\ registry' \in {registry, table[i]}
           /\ UNCHANGED <<scenario, devices, listed, told, cause>>
  <1>1. CASE OpenDialog(i)
    BY <1>1, OpenDialogSets DEF OpenDialog
  <1>2. CASE QuickSet(i)
    BY <1>2, QuickSetSets DEF QuickSet
  <1>3. CASE OK(i) \/ Cancel(i) \/ CloseBox(i)
    BY <1>3, CloseSets DEF OK, Cancel, CloseBox
  <1>4. ASSUME NEW k \in Switches, Tick(i, k)
        PROVE  /\ \E t, s : UserSets(i, t, s)
               /\ UNCHANGED <<scenario, devices, listed, registry, told, cause>>
    BY <1>4, TickSets DEF Tick
  <1>5. ASSUME NEW m \in Methods, SelectMode(i, m)
        PROVE  /\ \E t, s : UserSets(i, t, s)
               /\ UNCHANGED <<scenario, devices, listed, registry, told, cause>>
    BY <1>5, SelectModeSets DEF SelectMode
  <1>6. ASSUME NEW d \in scenario.counts, SelectDevice(i, d)
        PROVE  /\ \E t, s : UserSets(i, t, s)
               /\ UNCHANGED <<scenario, devices, listed, registry, told, cause>>
    BY <1>6, SelectDeviceSets DEF SelectDevice
  <1>7. ASSUME NEW m \in Matrices, SelectMatrix(i, m)
        PROVE  /\ \E t, s : UserSets(i, t, s)
               /\ UNCHANGED <<scenario, devices, listed, registry, told, cause>>
    BY <1>7, SelectMatrixSets DEF SelectMatrix
  <1>8. ASSUME NEW n \in Typed, TypeRC(i, n)
        PROVE  /\ \E t, s : UserSets(i, t, s)
               /\ UNCHANGED <<scenario, devices, listed, registry, told, cause>>
    BY <1>8, TypeRCSets DEF TypeRC
  <1>9. ASSUME NEW n \in Typed, TypeIDR(i, n)
        PROVE  /\ \E t, s : UserSets(i, t, s)
               /\ UNCHANGED <<scenario, devices, listed, registry, told, cause>>
    BY <1>9, TypeIDRSets DEF TypeIDR
  <1> QED BY <1>1, <1>2, <1>3, <1>4, <1>5, <1>6, <1>7, <1>8, <1>9, Zenon DEF UserStep
-----------------------------------------------------------------------------
(* The invariants *)

\* Where the rates and offsets come from: what is stored, and what is in a
\* table, was a default or was derived by a session.
TablesHaveTheirCause ==
    /\ Default.rate \in cause.rates /\ Default.offset \in cause.offsets
    /\ "rate" \in DOMAIN registry => registry.rate \in cause.rates
    /\ "offset" \in DOMAIN registry => registry.offset \in cause.offsets
    /\ \A i \in Instances : Exists(i) =>
           table[i].rate \in cause.rates /\ table[i].offset \in cause.offsets

\* What the stream tells is how the picture was converted, but for the cases
\* that VuiTellsTheMatrix names.
Tells(s) ==
    s.vui # None =>
        s.vui = s.converted \/ s.changed \/ (~s.byKernels /\ s.converted = Bt601)

\* As long as the matrix is not changed, the kernels have the one of the table.
MatrixOf(s, m) ==
    s.running => (s.changed \/ s.matrix \in {None, m}) /\ Tells(s)

MatrixInv == \A i \in Instances : MatrixOf(session[i], table[i].matrix)

\* What is set is set for one instance only.
LEMMA SetFacts ==
    ASSUME TypeOK, NEW i \in Instances
    PROVE  /\ \A t : SetTable(i, t) =>
                 \A j \in Instances : table'[j] = IF j = i THEN t ELSE table[j]
           /\ \A s : SetShown(i, s) =>
                 \A j \in Instances : shown'[j] = IF j = i THEN s ELSE shown[j]
  BY DEF TypeOK, SetTable, SetShown

\* A session that differs in nothing but whether the matrix was changed.
Marked(c, s) ==
    /\ c \in Sessions
    /\ c.running = s.running /\ c.rate = s.rate /\ c.sends = s.sends /\ c.fps = s.fps
    /\ c.offset = s.offset /\ c.cropped = s.cropped /\ c.height = s.height
    /\ c.device = s.device /\ c.of = s.of
    /\ c.matrix = s.matrix /\ c.byKernels = s.byKernels
    /\ c.converted = s.converted /\ c.vui = s.vui

\* A change of the matrix leaves the sessions as they are, but for the mark.
LEMMA ChangeFacts ==
    ASSUME TypeOK, NEW i \in Instances, NEW m, MatrixBecomes(i, m)
    PROVE  /\ session' \in [Instances -> Sessions]
           /\ \A j \in Instances \ {i} : session'[j] = session[j]
           /\ Marked(session'[i], session[i])
           /\ session[i].changed \/ (session[i].running /\ m # table[i].matrix)
                  => session'[i].changed
  <1>1. session \in [Instances -> Sessions]
    BY DEF TypeOK
  <1>2. PICK b \in BOOLEAN :
            b = (session[i].changed \/ (session[i].running /\ m # table[i].matrix))
    BY <1>1 DEF Sessions
  <1>3. PICK c : c = [session[i] EXCEPT !.changed = b]
    OBVIOUS
  <1>4. Marked(c, session[i]) /\ c.changed = b
    BY <1>1, <1>3 DEF Sessions, Marked
  <1>5. session' = [session EXCEPT ![i] = c]
    BY <1>2, <1>3, Zenon DEF MatrixBecomes
  <1>6. session'[i] = c /\ \A j \in Instances \ {i} : session'[j] = session[j]
    BY <1>1, <1>5
  <1>7. session' \in [Instances -> Sessions]
    BY <1>1, <1>4, <1>5 DEF Marked
  <1>8. Marked(session'[i], session[i]) /\ session'[i].changed = b
    BY <1>4, <1>6
  <1>9. session[i].changed \/ (session[i].running /\ m # table[i].matrix)
           => session'[i].changed
    <2>1. (session[i].changed \/ (session[i].running /\ m # table[i].matrix)) => b
      BY <1>2, Zenon
    <2> QED BY <1>8, <2>1, Zenon
  <1> QED BY <1>6, <1>7, <1>8, <1>9, Zenon

\* No session is one.
LEMMA NoSessionFacts == NoSession \in Sessions /\ ~NoSession.running
  BY DEF NoSession, Sessions, None

\* The videos of a behaviour have a rate and a height.
LEMMA VideoFacts ==
    ASSUME TypeOK, NEW v \in scenario.videos
    PROVE  v.fps \in Nat \ {0} /\ v.height \in Nat \ {0}
  BY ConfigAssumption DEF TypeOK

\* What CompressBegin leaves.
LEMMA ConfiguredFacts ==
    ASSUME TypeOK, NEW i \in Instances, NEW v \in scenario.videos, NEW t \in Tables,
           devices > 0, NEW c, c = Configured(i, v, t)
    PROVE  /\ c \in Sessions
           /\ c.running /\ c.device \in 0 .. c.of - 1
           /\ c.matrix \in {None, t.matrix} /\ c.vui = None /\ ~c.changed
           /\ c.rate = t.rate /\ c.sends = (t.sendFPS = 1) /\ c.fps = told[i]
           /\ c.offset = t.offset /\ c.cropped = (t.crop # 0) /\ c.height = v.height
  <1>1. devices \in Nat
    BY ConfigAssumption DEF TypeOK
  <1>2. /\ t.rate \in Int /\ t.offset \in Int /\ t.matrix \in Int /\ t.device \in Nat
        /\ t.sendFPS \in {0, 1} /\ t.crop \in {0, 1}
    <2>1. Matrices \subseteq Int
      BY ConfigAssumption
    <2>2. /\ t.rate \in Nat \ {0} /\ t.offset \in 0 .. 7 /\ t.matrix \in Matrices
          /\ t.device \in Nat /\ t.sendFPS \in {0, 1} /\ t.crop \in {0, 1}
      BY TableFields
    <2>3. 0 .. 7 \subseteq Int /\ Nat \ {0} \subseteq Int
      OBVIOUS
    <2> QED BY <2>1, <2>2, <2>3, Zenon
  <1>3. UsedDevice(t.device) \in 0 .. devices - 1
    BY <1>1, <1>2 DEF UsedDevice
  <1>4. told[i] \in Nat /\ v.height \in Nat /\ shown[i].open \in BOOLEAN
    BY VideoFacts DEF TypeOK, Dialogs
  <1>5. c = [running |-> TRUE, rate |-> t.rate, sends |-> Sends(t), fps |-> told[i],
             offset |-> t.offset, cropped |-> t.crop # 0, height |-> v.height,
             device |-> UsedDevice(t.device), of |-> devices,
             matrix |-> UsedMatrix(t), byKernels |-> FALSE, converted |-> None,
             vui |-> None, changed |-> FALSE]
    BY Zenon DEF Configured
  <1>6. Sends(t) = (t.sendFPS = 1)
    BY DEF Sends
  <1>7. UsedMatrix(t) \in {None, t.matrix} /\ UsedMatrix(t) \in Int /\ None \in Int
    BY <1>2 DEF UsedMatrix, None
  <1> QED BY <1>1, <1>2, <1>3, <1>4, <1>5, <1>6, <1>7 DEF Sessions

\* The table and the session CompressBegin leaves.
Begins(i, v, t) ==
    /\ t \in Tables /\ SetTable(i, t)
    /\ \A k \in Keys \ {"rate", "offset"} : t[k] = table[i][k]
    /\ t.rate = IF Sends(t) /\ told[i] > 0 THEN told[i] ELSE table[i].rate
    /\ t.offset = IF t.crop # 0 THEN CropOffset(v.height) ELSE table[i].offset
    /\ \/ session' = [session EXCEPT ![i] = NoSession]
       \/ devices > 0 /\ session' = [session EXCEPT ![i] = Configured(i, v, t)]
    /\ cause' = [rates |-> cause.rates \cup
                    (IF Sends(t) /\ told[i] > 0 THEN {told[i]} ELSE {}),
                 offsets |-> cause.offsets \cup
                    (IF t.crop # 0 THEN {CropOffset(v.height)} ELSE {})]
    /\ UNCHANGED <<scenario, devices, listed, registry, shown, told>>

\* A session begins with values that the table may have.
LEMMA SessionBegins ==
    ASSUME TypeOK, NEW i \in Instances, NEW v \in scenario.videos, CompressBegin(i, v)
    PROVE  \E t : Begins(i, v, t)
  <1>1. table[i] \in Tables /\ told[i] \in Nat /\ v.height \in Nat
    BY OfInstance, VideoFacts DEF CompressBegin
  <1>2. PICK t :
            /\ t = Derived(table[i], told[i], v.height)
            /\ SetTable(i, t)
            /\ \/ session' = [session EXCEPT ![i] = NoSession]
               \/ devices > 0 /\ session' = [session EXCEPT ![i] = Configured(i, v, t)]
    BY Zenon DEF CompressBegin
  <1>3. HoldsDerived(t, table[i], told[i], v.height)
    BY <1>1, <1>2, DerivedTable, Zenon
  <1>4. t.crop = table[i].crop /\ Sends(t) = Sends(table[i])
    BY <1>3 DEF Keys, Sends, HoldsDerived
  <1> QED BY <1>2, <1>3, <1>4 DEF CompressBegin, Begins, HoldsDerived
\* A session with one more frame.
Framed(c, s, t) ==
    /\ c \in Sessions /\ c.changed = s.changed
    /\ c.running = s.running /\ c.rate = s.rate /\ c.sends = s.sends /\ c.fps = s.fps
    /\ c.offset = s.offset /\ c.cropped = s.cropped /\ c.height = s.height
    /\ c.device = s.device /\ c.of = s.of /\ c.matrix = s.matrix
    /\ c.vui = t.matrix
    /\ IF c.byKernels THEN c.matrix # None /\ c.converted = c.matrix ELSE c.converted = Bt601

\* A frame changes no session but its own.
LEMMA CompressFacts ==
    ASSUME TypeOK, NEW i \in Instances, Compress(i)
    PROVE  /\ session' \in [Instances -> Sessions]
           /\ \A j \in Instances \ {i} : session'[j] = session[j]
           /\ session[i].running /\ Framed(session'[i], session[i], table[i])
  <1>1. session \in [Instances -> Sessions] /\ session[i].running
    BY DEF TypeOK, Compress
  <1>2. table[i] \in Tables
    BY <1>1, OfInstance
  <1>3. table[i].matrix \in Int /\ Bt601 \in Int /\ session[i].matrix \in Int
    <2>1. table[i].matrix \in Matrices
      BY <1>2, TableFields, Zenon
    <2>2. Matrices \subseteq Int /\ Bt601 \in Matrices
      BY ConfigAssumption
    <2> QED BY <1>1, <2>1, <2>2 DEF Sessions
  <1>4. PICK b \in BOOLEAN : b = UsesOpenCL(table[i])
    BY DEF UsesOpenCL
  <1>5. PICK m, u : m = (IF b THEN session[i].matrix ELSE Bt601) /\ u = table[i].matrix
    OBVIOUS
  <1>6. m \in Int /\ u \in Int
    BY <1>3, <1>5
  <1>7. PICK c : c = [session[i] EXCEPT !.byKernels = b, !.converted = m, !.vui = u]
    OBVIOUS
  <1>8. /\ c \in Sessions /\ c.byKernels = b /\ c.converted = m /\ c.vui = u
        /\ c.changed = session[i].changed /\ c.matrix = session[i].matrix
        /\ c.running = session[i].running /\ c.rate = session[i].rate
        /\ c.sends = session[i].sends /\ c.fps = session[i].fps
        /\ c.offset = session[i].offset /\ c.cropped = session[i].cropped
        /\ c.height = session[i].height /\ c.device = session[i].device
        /\ c.of = session[i].of
    BY <1>1, <1>6, <1>7 DEF Sessions
  <1>9. b => session[i].matrix # None
    BY <1>4 DEF Compress
  <1>10. Framed(c, session[i], table[i])
    BY <1>5, <1>8, <1>9 DEF Framed
  <1>11. session' = [session EXCEPT ![i] = c]
    BY <1>1, <1>4, <1>5, <1>7 DEF Compress
  <1>12. session'[i] = c /\ \A j \in Instances \ {i} : session'[j] = session[j]
    BY <1>1, <1>11
  <1> QED BY <1>1, <1>8, <1>10, <1>11, <1>12

-----------------------------------------------------------------------------
(* Type correctness *)

\* A user keeps the types.
LEMMA UserTypeOK ==
    ASSUME TypeOK, NEW i \in Instances, UserStep(i)
    PROVE  TypeOK'
  <1>1. PICK t, s : UserSets(i, t, s)
    BY UserMove, Zenon
  <1>2. /\ registry' \in {registry, table[i]}
        /\ UNCHANGED <<scenario, devices, listed, told, cause>>
    BY UserMove, Zenon
  <1>3. /\ t \in Tables /\ s \in Dialogs /\ SetTable(i, t) /\ SetShown(i, s)
        /\ Exists(i) /\ (session' = session \/ MatrixBecomes(i, t.matrix))
    BY <1>1 DEF UserSets
  <1>4. table' \in [Instances -> Tables \cup {NoTable}] /\ shown' \in [Instances -> Dialogs]
    BY <1>3 DEF TypeOK, SetTable, SetShown
  <1>5. IsStored(registry')
    <2>1. table[i] \in Tables
      BY <1>3 DEF TypeOK, Exists
    <2> QED BY <1>2, <2>1, TableIsStored DEF TypeOK
  <1>6. /\ session' \in [Instances -> Sessions]
        /\ \A j \in Instances : session'[j].running = session[j].running
    <2>1. CASE MatrixBecomes(i, t.matrix)
      BY <2>1, ChangeFacts DEF Marked
    <2> QED BY <1>3, <2>1 DEF TypeOK
  <1>7. ASSUME NEW j \in Instances, table'[j] = NoTable
        PROVE  ~shown'[j].open /\ ~session'[j].running
    <2>1. t # NoTable
      BY <1>3, TableFields
    <2>2. j # i /\ table'[j] = table[j] /\ shown'[j] = shown[j]
      BY <1>3, <1>7, <2>1, SetFacts
    <2> QED BY <1>6, <1>7, <2>2 DEF TypeOK, Exists
  <1> QED BY <1>2, <1>4, <1>5, <1>6, <1>7 DEF TypeOK, Exists

\* So does CompressBegin.
LEMMA BeginTypeOK ==
    ASSUME TypeOK, NEW i \in Instances, NEW v \in scenario.videos, CompressBegin(i, v)
    PROVE  TypeOK'
  <1>1. PICK t : Begins(i, v, t)
    BY SessionBegins
  <1>2. table' \in [Instances -> Tables \cup {NoTable}]
    BY <1>1 DEF Begins, TypeOK, SetTable
  <1>3. session' \in [Instances -> Sessions]
        /\ \A j \in Instances \ {i} : session'[j] = session[j]
    <2>1. devices > 0 => Configured(i, v, t) \in Sessions
      BY <1>1, ConfiguredFacts DEF Begins
    <2> QED BY <1>1, <2>1, NoSessionFacts DEF Begins, TypeOK
  <1>4. cause' \in [rates : SUBSET Int, offsets : SUBSET Int]
    <2>1. told[i] \in Int /\ CropOffset(v.height) \in Int
      BY OfInstance, VideoFacts, CropFacts
    <2>2. PICK r, o : r \subseteq {told[i]} /\ o \subseteq {CropOffset(v.height)}
                      /\ cause' = [rates |-> cause.rates \cup r, offsets |-> cause.offsets \cup o]
      BY <1>1 DEF Begins
    <2> QED BY <2>1, <2>2 DEF TypeOK
  <1>5. ASSUME NEW j \in Instances, table'[j] = NoTable
        PROVE  ~shown'[j].open /\ ~session'[j].running
    <2>1. t # NoTable
      BY <1>1, TableFields DEF Begins
    <2>2. j # i /\ table'[j] = table[j] /\ shown' = shown
      BY <1>1, <1>5, <2>1, SetFacts DEF Begins
    <2> QED BY <1>3, <1>5, <2>2 DEF TypeOK, Exists
  <1> QED BY <1>1, <1>2, <1>3, <1>4, <1>5 DEF Begins, TypeOK, Exists

\* So do the other calls of the host.
LEMMA HostTypeOK ==
    ASSUME TypeOK, NEW i \in Instances, HostStep(i)
    PROVE  TypeOK'
  <1>1. CASE New(i)
    <2>1. Loaded(Default) \in Tables
      BY ConfigAssumption, LoadedIsTable DEF TypeOK
    <2>2. table' \in [Instances -> Tables \cup {NoTable}]
      BY <1>1, <2>1 DEF New, SetTable, TypeOK
    <2>3. /\ listed' \in [Instances -> scenario.counts \cup {0}]
          /\ told' \in [Instances -> Nat]
      BY <1>1 DEF New, TypeOK
    <2>4. ASSUME NEW j \in Instances, table'[j] = NoTable
          PROVE  ~shown[j].open /\ ~session[j].running
      <3>1. table[j] = NoTable
        BY <1>1, <2>4, SetFacts DEF New, Exists
      <3> QED BY <3>1 DEF TypeOK, Exists
    <2> QED BY <1>1, <2>2, <2>3, <2>4 DEF New, TypeOK, Exists
  <1>2. CASE Delete(i)
    <2>1. /\ table' \in [Instances -> Tables \cup {NoTable}]
          /\ session' \in [Instances -> Sessions]
      BY <1>2, NoSessionFacts DEF Delete, SetTable, TypeOK
    <2>2. ASSUME NEW j \in Instances, table'[j] = NoTable
          PROVE  ~shown[j].open /\ ~session'[j].running
      <3>1. CASE j = i
        BY <1>2, <3>1, NoSessionFacts DEF Delete, TypeOK
      <3>2. CASE j # i
        <4>1. table[j] = NoTable /\ session'[j] = session[j]
          BY <1>2, <2>2, <3>2, SetFacts DEF Delete, TypeOK
        <4> QED BY <4>1 DEF TypeOK, Exists
      <3> QED BY <3>1, <3>2
    <2> QED BY <1>2, <2>1, <2>2 DEF Delete, TypeOK, Exists
  <1>3. CASE Compress(i)
    <2>1. /\ session' \in [Instances -> Sessions]
          /\ \A j \in Instances : session'[j].running = session[j].running
      BY <1>3, CompressFacts DEF Framed
    <2> QED BY <1>3, <2>1 DEF Compress, TypeOK, Exists
  <1>4. CASE CompressEnd(i)
    <2>1. session' \in [Instances -> Sessions]
          /\ \A j \in Instances : session'[j].running => session[j].running
      BY <1>4, NoSessionFacts DEF CompressEnd, TypeOK
    <2> QED BY <1>4, <2>1 DEF CompressEnd, TypeOK, Exists
  <1>5. ASSUME NEW v \in scenario.videos, CompressFramesInfo(i, v)
        PROVE  TypeOK'
    <2>1. told' \in [Instances -> Nat]
      BY <1>5, VideoFacts DEF CompressFramesInfo, TypeOK
    <2> QED BY <1>5, <2>1 DEF CompressFramesInfo, TypeOK, Exists
  <1> QED BY <1>1, <1>2, <1>3, <1>4, <1>5, BeginTypeOK DEF HostStep

\* The types are kept by every step.
LEMMA StepTypeOK ==
    ASSUME TypeOK, [Next]_vars
    PROVE  TypeOK'
  <1>1. ASSUME NEW n \in scenario.counts, Replug(n) PROVE TypeOK'
    BY <1>1 DEF Replug, TypeOK, Exists
  <1>2. CASE UNCHANGED vars
    BY <1>2 DEF vars, TypeOK, Exists
  <1> QED BY <1>1, <1>2, UserTypeOK, HostTypeOK DEF Next

\* What the registry holds makes a table.
LEMMA InitTypeOK == Init => TypeOK
  <1> SUFFICES ASSUME Init PROVE TypeOK
    OBVIOUS
  <1>1. scenario.counts \subseteq Nat /\ IsStored(registry)
    BY ConfigAssumption DEF Init
  <1>2. \A k \in DOMAIN registry : registry[k] \in Int
    BY <1>1, AllowedAreInt DEF IsStored
  <1>3. cause \in [rates : SUBSET Int, offsets : SUBSET Int]
    <2>1. Default.rate \in Int /\ Default.offset \in Int
      BY ConfigAssumption, TableFields
    <2>2. Stored("rate") \subseteq Int /\ Stored("offset") \subseteq Int
      BY <1>2 DEF Stored
    <2> QED BY <2>1, <2>2 DEF Init
  <1>4. shown \in [Instances -> Dialogs] /\ session \in [Instances -> Sessions]
    BY ClosedDialog, NoSessionFacts DEF Init
  <1>5. \A i \in Instances : ~shown[i].open /\ ~session[i].running
    BY ClosedDialog, NoSessionFacts DEF Init
  <1> QED BY <1>1, <1>3, <1>4, <1>5 DEF Init, TypeOK

-----------------------------------------------------------------------------
(* What the dialog shows is what is used *)

\* Kept by a user, and by the sessions, which change no setting it shows.
LEMMA StepShown ==
    ASSUME TypeOK, ShownIsUsed, [Next]_vars
    PROVE  ShownIsUsed'
  <1> USE ShownAgrees
  <1>0. SUFFICES ASSUME NEW j \in Instances, shown'[j].open
                 PROVE  Agrees(table'[j], shown'[j])
    BY Zenon DEF ShownIsUsed, Agrees, AgreesRC, AgreesIDR, AgreesDevice, LowestRC, HighestRC
  <1>1. shown[j].open => Agrees(table[j], shown[j])
    BY Zenon
  <1>2. CASE table'[j] = table[j] /\ shown'[j] = shown[j]
    BY <1>0, <1>1, <1>2
  <1>3. ASSUME NEW i \in Instances, UserStep(i) PROVE Agrees(table'[j], shown'[j])
    <2>1. PICK t, s : UserSets(i, t, s)
      BY <1>3, UserMove, Zenon
    <2>2. SetTable(i, t) /\ SetShown(i, s)
      BY <2>1 DEF UserSets
    <2>3. CASE j = i
      <3>1. table'[j] = t /\ shown'[j] = s
        BY <2>2, <2>3, SetFacts
      <3> QED BY <1>0, <1>1, <2>1, <2>3, <3>1, Zenon DEF UserSets
    <2>4. CASE j # i
      BY <1>2, <2>2, <2>4, SetFacts
    <2> QED BY <2>3, <2>4
  <1>4. ASSUME NEW i \in Instances, HostStep(i) PROVE Agrees(table'[j], shown'[j])
    <2>1. CASE New(i) \/ Delete(i)
      <3>1. shown' = shown /\ j # i
        BY <1>0, <2>1, OfInstance DEF New, Delete
      <3>2. table'[j] = table[j]
        BY <2>1, <3>1, SetFacts DEF New, Delete
      <3> QED BY <1>2, <3>1, <3>2
    <2>2. CASE Compress(i) \/ CompressEnd(i)
      BY <1>2, <2>2 DEF Compress, CompressEnd
    <2>3. ASSUME NEW v \in scenario.videos, CompressFramesInfo(i, v)
          PROVE  Agrees(table'[j], shown'[j])
      BY <1>2, <2>3 DEF CompressFramesInfo
    <2>4. ASSUME NEW v \in scenario.videos, CompressBegin(i, v)
          PROVE  Agrees(table'[j], shown'[j])
      <3>1. PICK t : Begins(i, v, t)
        BY <2>4, SessionBegins
      <3>2. shown' = shown /\ table'[j] = IF j = i THEN t ELSE table[j]
        BY <3>1, SetFacts DEF Begins
      <3>3. CASE j = i
        <4>1. /\ t \in Tables
              /\ \A k \in {"method", "qpI", "qpP", "bitrate", "idr", "device"} :
                    t[k] = table[i][k]
          BY <3>1 DEF Begins, Keys
        <4>2. table[i] \in Tables /\ shown[i] \in Dialogs
          BY <2>4, OfInstance DEF CompressBegin
        <4>3. Agrees(t, shown[i])
          BY <1>0, <1>1, <3>2, <3>3, <4>1, <4>2, OthersAgree
        <4> QED BY <3>2, <3>3, <4>3
      <3> QED BY <1>2, <3>2, <3>3
    <2> QED BY <1>4, <2>1, <2>2, <2>3, <2>4 DEF HostStep
  <1>5. ASSUME NEW n \in scenario.counts, Replug(n) PROVE Agrees(table'[j], shown'[j])
    BY <1>2, <1>5 DEF Replug
  <1>6. CASE UNCHANGED vars
    BY <1>2, <1>6 DEF vars
  <1> QED BY <1>3, <1>4, <1>5, <1>6 DEF Next

-----------------------------------------------------------------------------
(* The device of a session *)

\* A session gets a device when it begins, and keeps it.
LEMMA StepDevice ==
    ASSUME TypeOK, DeviceExists, [Next]_vars
    PROVE  DeviceExists'
  <1>0. SUFFICES ASSUME NEW j \in Instances, session'[j].running
                 PROVE  session'[j].device \in 0 .. session'[j].of - 1
    BY DEF DeviceExists
  <1>1. ASSUME /\ session'[j].running = session[j].running
               /\ session'[j].device = session[j].device /\ session'[j].of = session[j].of
        PROVE  session'[j].device \in 0 .. session'[j].of - 1
    BY <1>0, <1>1 DEF DeviceExists
  <1>2. ASSUME NEW i \in Instances, UserStep(i)
        PROVE  session'[j].device \in 0 .. session'[j].of - 1
    <2>1. PICK t, s : UserSets(i, t, s)
      BY <1>2, UserMove, Zenon
    <2>2. CASE MatrixBecomes(i, t.matrix)
      BY <1>1, <2>2, ChangeFacts DEF Marked
    <2> QED BY <1>1, <2>1, <2>2 DEF UserSets
  <1>3. ASSUME NEW i \in Instances, HostStep(i)
        PROVE  session'[j].device \in 0 .. session'[j].of - 1
    <2>1. CASE New(i)
      BY <1>1, <2>1 DEF New
    <2>2. CASE Delete(i) \/ CompressEnd(i)
      BY <1>0, <1>1, <2>2, NoSessionFacts DEF Delete, CompressEnd, TypeOK
    <2>3. CASE Compress(i)
      BY <1>1, <2>3, CompressFacts DEF Framed
    <2>4. ASSUME NEW v \in scenario.videos, CompressFramesInfo(i, v)
          PROVE  session'[j].device \in 0 .. session'[j].of - 1
      BY <1>1, <2>4 DEF CompressFramesInfo
    <2>5. ASSUME NEW v \in scenario.videos, CompressBegin(i, v)
          PROVE  session'[j].device \in 0 .. session'[j].of - 1
      <3>1. PICK t : Begins(i, v, t)
        BY <2>5, SessionBegins
      <3>2. CASE session' = [session EXCEPT ![i] = NoSession]
        BY <1>0, <1>1, <3>2, NoSessionFacts DEF TypeOK
      <3>3. CASE devices > 0 /\ session' = [session EXCEPT ![i] = Configured(i, v, t)]
        <4>1. PICK c : c = Configured(i, v, t)
          OBVIOUS
        <4>2. c.device \in 0 .. c.of - 1
          BY <3>1, <3>3, <4>1, ConfiguredFacts DEF Begins
        <4> QED BY <1>1, <3>3, <4>1, <4>2 DEF TypeOK
      <3> QED BY <3>1, <3>2, <3>3 DEF Begins
    <2> QED BY <1>3, <2>1, <2>2, <2>3, <2>4, <2>5 DEF HostStep
  <1>4. ASSUME NEW n \in scenario.counts, Replug(n)
        PROVE  session'[j].device \in 0 .. session'[j].of - 1
    BY <1>1, <1>4 DEF Replug
  <1>5. CASE UNCHANGED vars
    BY <1>1, <1>5 DEF vars
  <1> QED BY <1>2, <1>3, <1>4, <1>5 DEF Next

-----------------------------------------------------------------------------
(* The matrix of a session *)

\* Kept by the user, whose changes are noted, and by the frames.
LEMMA StepMatrix ==
    ASSUME TypeOK, MatrixInv, [Next]_vars
    PROVE  MatrixInv'
  <1>0. SUFFICES ASSUME NEW j \in Instances
                 PROVE  MatrixOf(session'[j], table'[j].matrix)
    BY Zenon DEF MatrixInv, MatrixOf, Tells
  <1>1. MatrixOf(session[j], table[j].matrix)
    BY Zenon DEF MatrixInv
  <1>2. CASE session'[j] = session[j] /\ table'[j].matrix = table[j].matrix
    BY <1>1, <1>2
  <1>3. CASE ~session'[j].running
    BY <1>3 DEF MatrixOf
  <1>4. ASSUME NEW i \in Instances, UserStep(i)
        PROVE  MatrixOf(session'[j], table'[j].matrix)
    <2>1. PICK t, s : UserSets(i, t, s)
      BY <1>4, UserMove, Zenon
    <2>2. table'[j] = IF j = i THEN t ELSE table[j]
      BY <2>1, SetFacts DEF UserSets
    <2>3. CASE j # i
      <3>1. session'[j] = session[j]
        BY <2>1, <2>3, ChangeFacts DEF UserSets
      <3> QED BY <1>2, <2>2, <2>3, <3>1
    <2>4. CASE j = i /\ session' = session /\ t.matrix = table[i].matrix
      BY <1>2, <2>2, <2>4
    <2>5. CASE j = i /\ MatrixBecomes(i, t.matrix)
      <3>1. /\ Marked(session'[j], session[j])
            /\ session[j].changed \/ (session[j].running /\ t.matrix # table[j].matrix)
                   => session'[j].changed
        BY <2>5, ChangeFacts
      <3> QED BY <1>1, <2>2, <2>5, <3>1 DEF Marked, MatrixOf, Tells
    <2> QED BY <2>1, <2>3, <2>4, <2>5 DEF UserSets
  <1>5. ASSUME NEW i \in Instances, HostStep(i)
        PROVE  MatrixOf(session'[j], table'[j].matrix)
    <2>1. CASE New(i)
      <3>1. j = i => ~session'[j].running
        BY <2>1, OfInstance DEF New
      <3>2. j # i => table'[j] = table[j]
        BY <2>1, SetFacts DEF New
      <3> QED BY <1>2, <1>3, <2>1, <3>1, <3>2 DEF New
    <2>2. CASE Delete(i)
      <3>1. j = i => ~session'[j].running
        BY <2>2, NoSessionFacts DEF Delete, TypeOK
      <3>2. j # i => table'[j] = table[j] /\ session'[j] = session[j]
        BY <2>2, SetFacts DEF Delete, TypeOK
      <3> QED BY <1>2, <1>3, <3>1, <3>2
    <2>3. CASE CompressEnd(i)
      <3>1. j = i => ~session'[j].running
        BY <2>3, NoSessionFacts DEF CompressEnd, TypeOK
      <3>2. j # i => session'[j] = session[j]
        BY <2>3 DEF CompressEnd, TypeOK
      <3> QED BY <1>2, <1>3, <2>3, <3>1, <3>2 DEF CompressEnd
    <2>4. CASE Compress(i)
      <3>1. table' = table
        BY <2>4 DEF Compress
      <3>2. CASE j = i
        <4>1. Framed(session'[j], session[j], table[j]) /\ session[j].running
          BY <2>4, <3>2, CompressFacts
        <4> QED BY <1>1, <3>1, <4>1 DEF Framed, MatrixOf, Tells
      <3>3. CASE j # i
        BY <1>2, <2>4, <3>1, <3>3, CompressFacts
      <3> QED BY <3>2, <3>3
    <2>5. ASSUME NEW v \in scenario.videos, CompressFramesInfo(i, v)
          PROVE  MatrixOf(session'[j], table'[j].matrix)
      BY <1>2, <2>5 DEF CompressFramesInfo
    <2>6. ASSUME NEW v \in scenario.videos, CompressBegin(i, v)
          PROVE  MatrixOf(session'[j], table'[j].matrix)
      <3>1. PICK t : Begins(i, v, t)
        BY <2>6, SessionBegins
      <3>2. table'[j] = IF j = i THEN t ELSE table[j]
        BY <3>1, SetFacts DEF Begins
      <3>3. CASE j # i
        <4>1. session'[j] = session[j]
          BY <3>1, <3>3 DEF Begins, TypeOK
        <4> QED BY <1>2, <3>2, <3>3, <4>1
      <3>4. CASE j = i /\ session' = [session EXCEPT ![i] = NoSession]
        BY <1>3, <3>4, NoSessionFacts DEF TypeOK
      <3>5. CASE j = i /\ devices > 0
                 /\ session' = [session EXCEPT ![i] = Configured(i, v, t)]
        <4>1. PICK c : c = Configured(i, v, t)
          OBVIOUS
        <4>2. c.matrix \in {None, t.matrix} /\ c.vui = None
          BY <3>1, <3>5, <4>1, ConfiguredFacts DEF Begins
        <4>3. session'[j] = c
          BY <3>5, <4>1 DEF TypeOK
        <4> QED BY <3>2, <3>5, <4>2, <4>3 DEF MatrixOf, Tells
      <3> QED BY <3>1, <3>3, <3>4, <3>5 DEF Begins
    <2> QED BY <1>5, <2>1, <2>2, <2>3, <2>4, <2>5, <2>6 DEF HostStep
  <1>6. ASSUME NEW n \in scenario.counts, Replug(n)
        PROVE  MatrixOf(session'[j], table'[j].matrix)
    BY <1>2, <1>6 DEF Replug
  <1>7. CASE UNCHANGED vars
    BY <1>2, <1>7 DEF vars
  <1> QED BY <1>4, <1>5, <1>6, <1>7 DEF Next

-----------------------------------------------------------------------------
(* Where rates and offsets come from *)

\* A rate and an offset that anything has put into a table.
Caused(r, o) == r \in cause.rates /\ o \in cause.offsets

\* What is loaded was in the registry or in the table before.
LEMMA LoadedCaused ==
    ASSUME TypeOK, TablesHaveTheirCause, NEW t \in Tables, Caused(t.rate, t.offset)
    PROVE  Caused(Loaded(t).rate, Loaded(t).offset)
  BY DEF Caused, Loaded, TablesHaveTheirCause, Keys

\* A step that sets the table of one instance, to values that have a cause,
\* and may store it.
LEMMA CauseKept ==
    ASSUME TypeOK, TablesHaveTheirCause, NEW i \in Instances, NEW t \in Tables,
           cause.rates \subseteq cause'.rates, cause.offsets \subseteq cause'.offsets,
           registry' = registry \/ (registry' = table[i] /\ Exists(i)),
           table' = table \/ (SetTable(i, t) /\ Caused(t.rate, t.offset)')
    PROVE  TablesHaveTheirCause'
  <1>1. Default.rate \in cause'.rates /\ Default.offset \in cause'.offsets
    BY DEF TablesHaveTheirCause
  <1>2. /\ "rate" \in DOMAIN registry' => registry'.rate \in cause'.rates
        /\ "offset" \in DOMAIN registry' => registry'.offset \in cause'.offsets
    <2>1. CASE registry' = registry
      BY <2>1 DEF TablesHaveTheirCause
    <2>2. CASE registry' = table[i] /\ Exists(i)
      BY <2>2 DEF TablesHaveTheirCause
    <2> QED BY <2>1, <2>2
  <1>3. ASSUME NEW j \in Instances, table'[j] # NoTable
        PROVE  table'[j].rate \in cause'.rates /\ table'[j].offset \in cause'.offsets
    <2>1. CASE table'[j] = table[j]
      BY <1>3, <2>1 DEF TablesHaveTheirCause, Exists
    <2>2. CASE table'[j] # table[j]
      <3>1. table'[j] = t /\ t.rate \in cause'.rates /\ t.offset \in cause'.offsets
        BY <2>2, SetFacts DEF Caused
      <3> QED BY <3>1
    <2> QED BY <2>1, <2>2
  <1> QED BY <1>1, <1>2, <1>3 DEF TablesHaveTheirCause, Exists

\* Only a session adds to what has a cause.
LEMMA StepTables ==
    ASSUME TypeOK, TablesHaveTheirCause, [Next]_vars
    PROVE  TablesHaveTheirCause'
  <1>1. CASE registry' = registry /\ table' = table /\ cause' = cause
    BY <1>1, Zenon DEF TablesHaveTheirCause, Exists
  <1>2. ASSUME NEW i \in Instances, UserStep(i) PROVE TablesHaveTheirCause'
    <2>1. PICK t, s : UserSets(i, t, s)
      BY <1>2, UserMove, Zenon
    <2>2. registry' \in {registry, table[i]} /\ cause' = cause
      BY <1>2, UserMove, Zenon
    <2>3. Exists(i) /\ t \in Tables /\ SetTable(i, t)
      BY <2>1 DEF UserSets
    <2>4. table[i] \in Tables /\ Caused(table[i].rate, table[i].offset)
      BY <2>3, OfInstance DEF Caused, TablesHaveTheirCause
    <2>5. Caused(t.rate, t.offset)
      <3>1. CASE t = Loaded(table[i])
        BY <2>4, <3>1, LoadedCaused
      <3>2. CASE t.rate = table[i].rate /\ t.offset \in {table[i].offset, Default.offset}
        BY <2>4, <3>2 DEF Caused, TablesHaveTheirCause
      <3> QED BY <2>1, <3>1, <3>2 DEF UserSets
    <2>6. Caused(t.rate, t.offset)'
      BY <2>2, <2>5 DEF Caused
    <2> QED BY <2>2, <2>3, <2>6, CauseKept
  <1>3. ASSUME NEW i \in Instances, HostStep(i) PROVE TablesHaveTheirCause'
    <2>1. CASE New(i)
      <3>1. PICK t : t = Loaded(Default)
        OBVIOUS
      <3>2. SetTable(i, t) /\ registry' = registry /\ cause' = cause
        BY <2>1, <3>1 DEF New
      <3>3. Default \in Tables /\ Caused(Default.rate, Default.offset)
        BY ConfigAssumption DEF Caused, TablesHaveTheirCause
      <3>4. t \in Tables /\ Caused(t.rate, t.offset)
        BY <3>1, <3>3, LoadedIsTable, LoadedCaused DEF TypeOK
      <3>5. Caused(t.rate, t.offset)'
        BY <3>2, <3>4 DEF Caused
      <3> QED BY <3>2, <3>4, <3>5, CauseKept
    <2>2. CASE Delete(i)
      <3>1. \A j \in Instances : table'[j] # NoTable => table'[j] = table[j]
        BY <2>2, SetFacts DEF Delete
      <3> QED BY <2>2, <3>1 DEF Delete, TablesHaveTheirCause, Exists
    <2>3. CASE Compress(i) \/ CompressEnd(i)
      BY <1>1, <2>3 DEF Compress, CompressEnd
    <2>4. ASSUME NEW v \in scenario.videos, CompressFramesInfo(i, v)
          PROVE  TablesHaveTheirCause'
      BY <1>1, <2>4 DEF CompressFramesInfo
    <2>5. ASSUME NEW v \in scenario.videos, CompressBegin(i, v)
          PROVE  TablesHaveTheirCause'
      <3>1. PICK t : Begins(i, v, t)
        BY <2>5, SessionBegins
      <3>2. t \in Tables /\ SetTable(i, t) /\ registry' = registry
        BY <3>1 DEF Begins
      <3>3. Exists(i) /\ Caused(table[i].rate, table[i].offset)
        BY <2>5 DEF CompressBegin, Caused, TablesHaveTheirCause
      <3>4. /\ cause'.rates = cause.rates \cup
                   (IF Sends(t) /\ told[i] > 0 THEN {told[i]} ELSE {})
            /\ cause'.offsets = cause.offsets \cup
                   (IF t.crop # 0 THEN {CropOffset(v.height)} ELSE {})
        BY <3>1 DEF Begins
      <3>5. /\ cause.rates \subseteq cause'.rates /\ cause.offsets \subseteq cause'.offsets
            /\ t.rate \in cause'.rates /\ t.offset \in cause'.offsets
        BY <3>1, <3>3, <3>4 DEF Begins, Caused
      <3>6. Caused(t.rate, t.offset)'
        BY <3>5 DEF Caused
      <3> QED BY <3>2, <3>5, <3>6, CauseKept
    <2> QED BY <1>3, <2>1, <2>2, <2>3, <2>4, <2>5 DEF HostStep
  <1>4. ASSUME NEW n \in scenario.counts, Replug(n) PROVE TablesHaveTheirCause'
    BY <1>1, <1>4 DEF Replug
  <1>5. CASE UNCHANGED vars
    BY <1>1, <1>5 DEF vars
  <1> QED BY <1>2, <1>3, <1>4, <1>5 DEF Next

\* ValuesHaveTheirCause for one session.
ValuesOf(s) ==
    s.running =>
        /\ IF s.sends /\ s.fps > 0 THEN s.rate = s.fps ELSE s.rate \in cause.rates
        /\ IF s.cropped
           THEN s.offset \in 0 .. 7 /\ (s.height + 2 * s.offset) % 16 \in {0, 15}
           ELSE s.offset \in cause.offsets

\* ValuesHaveTheirCause, instance by instance.
LEMMA ValuesParts ==
    ValuesHaveTheirCause <=> \A i \in Instances : ValuesOf(session[i])
  BY Zenon DEF ValuesHaveTheirCause, ValuesOf

\* A session keeps its values until it ends, and begins with what was derived
\* for it or what was in the table.
LEMMA StepValues ==
    ASSUME TypeOK, TablesHaveTheirCause, ValuesHaveTheirCause, [Next]_vars
    PROVE  ValuesHaveTheirCause'
  <1>0. SUFFICES ASSUME NEW j \in Instances PROVE ValuesOf(session[j])'
    BY Zenon DEF ValuesHaveTheirCause, ValuesOf
  <1>1. ValuesOf(session[j])
    BY ValuesParts, Zenon
  <1>2. ASSUME session'[j] = session[j],
               cause.rates \subseteq cause'.rates, cause.offsets \subseteq cause'.offsets
        PROVE  ValuesOf(session[j])'
    BY <1>1, <1>2 DEF ValuesOf
  <1>3. ASSUME NEW i \in Instances, UserStep(i) PROVE ValuesOf(session[j])'
    <2>1. PICK t, s : UserSets(i, t, s)
      BY <1>3, UserMove, Zenon
    <2>2. cause' = cause
      BY <1>3, UserMove, Zenon
    <2>3. CASE session'[j] = session[j]
      BY <1>2, <2>2, <2>3
    <2>4. CASE MatrixBecomes(i, t.matrix) /\ j = i
      BY <1>1, <2>2, <2>4, ChangeFacts DEF Marked, ValuesOf
    <2> QED BY <2>1, <2>3, <2>4, ChangeFacts DEF UserSets
  <1>4. ASSUME NEW i \in Instances, HostStep(i) PROVE ValuesOf(session[j])'
    <2>1. CASE New(i)
      BY <1>2, <2>1 DEF New
    <2>2. CASE Delete(i) \/ CompressEnd(i)
      <3>1. cause' = cause /\ session'[j] \in {session[j], NoSession}
        BY <2>2 DEF Delete, CompressEnd, TypeOK
      <3> QED BY <1>2, <3>1, NoSessionFacts DEF ValuesOf
    <2>3. CASE Compress(i)
      <3>1. CASE j = i
        <4>1. Framed(session'[j], session[j], table[j])
          BY <2>3, <3>1, CompressFacts
        <4>2. cause' = cause
          BY <2>3 DEF Compress
        <4> QED BY <1>1, <4>1, <4>2 DEF Framed, ValuesOf
      <3>2. CASE j # i
        BY <1>2, <2>3, <3>2 DEF Compress, TypeOK
      <3> QED BY <3>1, <3>2
    <2>4. ASSUME NEW v \in scenario.videos, CompressFramesInfo(i, v)
          PROVE  ValuesOf(session[j])'
      BY <1>2, <2>4 DEF CompressFramesInfo
    <2>5. ASSUME NEW v \in scenario.videos, CompressBegin(i, v)
          PROVE  ValuesOf(session[j])'
      <3>1. PICK t : Begins(i, v, t)
        BY <2>5, SessionBegins
      <3>2. /\ cause'.rates = cause.rates \cup
                   (IF Sends(t) /\ told[i] > 0 THEN {told[i]} ELSE {})
            /\ cause'.offsets = cause.offsets \cup
                   (IF t.crop # 0 THEN {CropOffset(v.height)} ELSE {})
        BY <3>1 DEF Begins
      <3>3. CASE session'[j] = session[j]
        BY <1>2, <3>2, <3>3
      <3>4. CASE session'[j] = NoSession
        BY <3>4, NoSessionFacts DEF ValuesOf
      <3>5. CASE session'[j] = Configured(i, v, t) /\ devices > 0
        <4>1. PICK c : c = Configured(i, v, t)
          OBVIOUS
        <4>2. /\ c.rate = t.rate /\ c.sends = (t.sendFPS = 1) /\ c.fps = told[i]
              /\ c.offset = t.offset /\ c.cropped = (t.crop # 0) /\ c.height = v.height
          BY <3>1, <3>5, <4>1, ConfiguredFacts DEF Begins
        <4>3. /\ t.rate = IF Sends(t) /\ told[i] > 0 THEN told[i] ELSE table[i].rate
              /\ t.offset = IF t.crop # 0 THEN CropOffset(v.height) ELSE table[i].offset
          BY <3>1 DEF Begins
        <4>4. table[i].rate \in cause.rates /\ table[i].offset \in cause.offsets
          BY <2>5 DEF CompressBegin, TablesHaveTheirCause
        <4>5. IF c.sends /\ c.fps > 0 THEN c.rate = c.fps ELSE c.rate \in cause'.rates
          BY <3>2, <4>2, <4>3, <4>4 DEF Sends
        <4>6. v.height \in Nat
          BY VideoFacts
        <4>7. IF c.cropped
              THEN c.offset \in 0 .. 7 /\ (c.height + 2 * c.offset) % 16 \in {0, 15}
              ELSE c.offset \in cause'.offsets
          <5>1. CASE t.crop # 0
            <6>1. PICK o : o = CropOffset(v.height)
              OBVIOUS
            <6>2. o \in 0 .. 7 /\ (v.height + 2 * o) % 16 \in {0, 15}
              BY <4>6, <6>1, CropFacts
            <6>3. c.cropped /\ c.offset = o /\ c.height = v.height
              BY <4>2, <4>3, <5>1, <6>1
            <6> QED BY <6>2, <6>3
          <5>2. CASE ~(t.crop # 0)
            BY <3>2, <4>2, <4>3, <4>4, <5>2
          <5> QED BY <5>1, <5>2
        <4> QED BY <3>5, <4>1, <4>5, <4>7, Zenon DEF ValuesOf
      <3>6. session'[j] \in {session[j], NoSession}
            \/ (devices > 0 /\ session'[j] = Configured(i, v, t))
        BY <3>1 DEF Begins, TypeOK
      <3> QED BY <3>3, <3>4, <3>5, <3>6
    <2> QED BY <1>4, <2>1, <2>2, <2>3, <2>4, <2>5 DEF HostStep
  <1>5. ASSUME NEW n \in scenario.counts, Replug(n) PROVE ValuesOf(session[j])'
    BY <1>2, <1>5 DEF Replug
  <1>6. CASE UNCHANGED vars
    BY <1>2, <1>6 DEF vars
  <1> QED BY <1>3, <1>4, <1>5, <1>6 DEF Next

-----------------------------------------------------------------------------
(* Theorems *)

\* At the start there is no dialog, no session and no table.
LEMMA InitParts ==
    Init => /\ ShownIsUsed /\ DeviceExists /\ MatrixInv
            /\ TablesHaveTheirCause /\ ValuesHaveTheirCause
  <1> SUFFICES ASSUME Init
               PROVE  /\ ShownIsUsed /\ DeviceExists /\ MatrixInv
                      /\ TablesHaveTheirCause /\ ValuesHaveTheirCause
    OBVIOUS
  <1>1. \A i \in Instances : ~shown[i].open /\ ~session[i].running /\ table[i] = NoTable
    BY ClosedDialog, NoSessionFacts DEF Init
  <1>2. TablesHaveTheirCause
    BY <1>1 DEF Init, TablesHaveTheirCause, Exists, Stored
  <1> QED BY <1>1, <1>2 DEF ShownIsUsed, DeviceExists, MatrixInv, MatrixOf, ValuesHaveTheirCause

\* Every setting fits where it is kept and means something to the encoder,
\* whatever is typed, loaded, stored or derived (configure.cpp).
THEOREM SettingsTyped == Spec => []TypeOK
  <1> QED BY InitTypeOK, StepTypeOK, PTL DEF Spec

\* What an open dialog shows is what a session would use, whatever handlers
\* call one another (configure.cpp, DialogUpdate and ConfigureDialogProc).
THEOREM DialogShowsWhatIsUsed == Spec => []ShownIsUsed
  <1> QED BY InitParts, StepShown, SettingsTyped, PTL DEF Spec

\* A session runs on a device that was there when it began, however the
\* devices change and whatever device is stored (compress.cpp:171).
THEOREM SessionsHaveADevice == Spec => []DeviceExists
  <1> QED BY InitParts, StepDevice, SettingsTyped, PTL DEF Spec

\* The rate and the offset of a session are those of its video if it was to
\* derive them, and otherwise a default or what a session derived before
\* (compress.cpp, CompressBegin).
THEOREM SessionValuesHaveTheirCause == Spec => []ValuesHaveTheirCause
  <1>1. Spec => []TablesHaveTheirCause
    BY InitParts, StepTables, SettingsTyped, PTL DEF Spec
  <1> QED BY <1>1, InitParts, StepValues, SettingsTyped, PTL DEF Spec

\* The matrix in the stream is the one the picture was converted with, unless
\* the matrix was changed while the session ran, or BGRtoNV12 converted the
\* frame to BT.601 (compress.cpp:234, 624 and 821).
THEOREM MatrixIsTold == Spec => []VuiTellsTheMatrix
  <1>1. MatrixInv => VuiTellsTheMatrix
    BY DEF MatrixInv, MatrixOf, Tells, VuiTellsTheMatrix
  <1> QED BY <1>1, InitParts, StepMatrix, SettingsTyped, PTL DEF Spec
=============================================================================
