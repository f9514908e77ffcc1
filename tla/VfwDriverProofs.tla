--------------------------- MODULE VfwDriverProofs ---------------------------
(***************************************************************************)
(* Proofs about VfwDriver, for any finite set of instances and any bounds. *)
(***************************************************************************)
EXTENDS VfwDriver, FiniteSetTheorems, TLAPS

\* The references that somebody will give back.
Refs == Cardinality(OpenInstances) + probes + panels + stray

\* The libraries are there as long as the count says so; the count never goes
\* above the references, and below them only by closes too many.
CountInv ==
    /\ loader.loaded <=> loader.count > 0
    /\ loader.count <= Refs
    /\ excess = 0 => loader.count = Refs

DInv == TypeOK /\ CountInv

-----------------------------------------------------------------------------
LEMMA OpenAreCounted ==
    ASSUME TypeOK
    PROVE  /\ IsFiniteSet(OpenInstances)
           /\ Cardinality(OpenInstances) \in Nat
           /\ \A i \in OpenInstances : Cardinality(OpenInstances) > 0
  <1>1. IsFiniteSet(OpenInstances)
    BY FS_Subset, DriverAssumption DEF OpenInstances
  <1>2. Cardinality(OpenInstances) \in Nat
    BY <1>1, FS_CardinalityType
  <1>3. OpenInstances # {} => Cardinality(OpenInstances) # 0
    BY <1>1, FS_EmptySet
  <1> QED BY <1>1, <1>2, <1>3

\* How many are open when one of them changes its state.
LEMMA OpenChanges ==
    ASSUME TypeOK, NEW i \in Instances, NEW s \in InstanceState,
           inst' = [inst EXCEPT ![i] = s]
    PROVE  /\ inst' \in [Instances -> InstanceState]
           /\ IsOpen(i) /\ s \in {"idle", "running"} =>
                 Cardinality(OpenInstances)' = Cardinality(OpenInstances)
           /\ ~IsOpen(i) /\ s \in {"idle", "running"} =>
                 Cardinality(OpenInstances)' = Cardinality(OpenInstances) + 1
           /\ IsOpen(i) /\ s \notin {"idle", "running"} =>
                 Cardinality(OpenInstances)' = Cardinality(OpenInstances) - 1
  <1>1. inst \in [Instances -> InstanceState] /\ inst' \in [Instances -> InstanceState]
    BY DEF TypeOK
  <1>2. IsFiniteSet(OpenInstances)
    BY OpenAreCounted
  <1>3. ASSUME IsOpen(i), s \in {"idle", "running"}
        PROVE  Cardinality(OpenInstances)' = Cardinality(OpenInstances)
    <2>1. OpenInstances' = OpenInstances
      BY <1>1, <1>3 DEF OpenInstances, IsOpen
    <2> QED BY <2>1
  <1>4. ASSUME ~IsOpen(i), s \in {"idle", "running"}
        PROVE  Cardinality(OpenInstances)' = Cardinality(OpenInstances) + 1
    <2>1. OpenInstances' = OpenInstances \cup {i} /\ i \notin OpenInstances
      BY <1>1, <1>4 DEF OpenInstances, IsOpen
    <2> QED BY <1>2, <2>1, FS_AddElement
  <1>5. ASSUME IsOpen(i), s \notin {"idle", "running"}
        PROVE  Cardinality(OpenInstances)' = Cardinality(OpenInstances) - 1
    <2>1. OpenInstances' = OpenInstances \ {i} /\ i \in OpenInstances
      BY <1>1, <1>5 DEF OpenInstances, IsOpen
    <2> QED BY <1>2, <2>1, FS_RemoveElement
  <1> QED BY <1>1, <1>3, <1>4, <1>5

\* A reference is taken.
LEMMA TakenKeepsCount ==
    ASSUME DInv, loader' = Taken(loader), Refs' = Refs + 1, Refs \in Nat, excess' = excess
    PROVE  CountInv' /\ loader' \in [count : Nat, loaded : BOOLEAN]
  <1>1. loader \in [count : Nat, loaded : BOOLEAN] /\ CountInv
    BY DEF DInv, TypeOK
  <1>2. loader' = [count |-> loader.count + 1, loaded |-> TRUE]
    BY DEF Taken
  <1> QED BY <1>1, <1>2 DEF CountInv

\* A reference is given back, by its holder or once more than it was taken.
LEMMA ReleasedKeepsCount ==
    ASSUME DInv, loader' = Released(loader), Refs \in Nat, Refs' \in Nat, excess \in Nat,
           \/ Refs' = Refs - 1 /\ excess' = excess
           \/ Refs' = Refs /\ excess' = excess + 1
    PROVE  CountInv' /\ loader' \in [count : Nat, loaded : BOOLEAN]
  <1>1. loader \in [count : Nat, loaded : BOOLEAN] /\ CountInv
    BY DEF DInv, TypeOK
  <1>2. /\ loader'.count = IF loader.count > 0 THEN loader.count - 1 ELSE 0
        /\ loader'.loaded = (loader.loaded /\ loader.count > 1)
        /\ loader' \in [count : Nat, loaded : BOOLEAN]
    BY <1>1 DEF Released
  <1>3. loader'.loaded <=> loader'.count > 0
    BY <1>1, <1>2 DEF CountInv
  <1> QED BY <1>1, <1>2, <1>3 DEF CountInv

\* Nothing happens to the references.
LEMMA UntouchedKeepsCount ==
    ASSUME DInv, loader' = loader, Refs' = Refs, excess' = excess
    PROVE  CountInv'
  BY DEF DInv, CountInv

LEMMA InitDInv == Init => DInv
  <1> SUFFICES ASSUME Init PROVE DInv
    OBVIOUS
  <1>1. TypeOK
    BY DriverAssumption DEF Init, TypeOK, InstanceState
  <1>2. OpenInstances = {}
    BY DEF Init, OpenInstances, IsOpen
  <1>3. Refs = 0
    BY <1>2, FS_EmptySet DEF Refs, Init
  <1> QED BY <1>1, <1>3 DEF DInv, CountInv, Init

LEMMA NextDInv == DInv /\ [Next]_vars => DInv'
  <1> SUFFICES ASSUME DInv, [Next]_vars PROVE DInv'
    OBVIOUS
  <1> USE DriverAssumption
  <1>1. TypeOK /\ CountInv
    BY DEF DInv
  <1>2. /\ Cardinality(OpenInstances) \in Nat
        /\ probes \in Nat /\ panels \in Nat /\ stray \in Nat /\ excess \in Nat /\ Refs \in Nat
    BY <1>1, OpenAreCounted DEF TypeOK, Refs
  <1>3. inst' = inst => Cardinality(OpenInstances)' = Cardinality(OpenInstances)
    BY DEF OpenInstances, IsOpen
  <1>4. ASSUME NEW i \in Instances, Open(i) PROVE DInv'
    <2>1. Cardinality(OpenInstances)' = Cardinality(OpenInstances) + 1
          /\ inst' \in [Instances -> InstanceState]
      BY <1>1, <1>4, OpenChanges DEF Open, InstanceState
    <2>2. Refs' = Refs + 1
      BY <1>2, <1>4, <2>1 DEF Refs, Open
    <2>3. CountInv' /\ loader' \in [count : Nat, loaded : BOOLEAN]
      BY <1>2, <1>4, <2>2, TakenKeepsCount DEF Open
    <2> QED BY <1>1, <1>4, <2>1, <2>3 DEF DInv, TypeOK, Open
  <1>5. ASSUME NEW i \in Instances, Begin(i) \/ End(i) PROVE DInv'
    <2>1. /\ Cardinality(OpenInstances)' = Cardinality(OpenInstances)
          /\ inst' \in [Instances -> InstanceState]
      BY <1>1, <1>5, OpenChanges DEF Begin, End, InstanceState, IsOpen
    <2>2. CountInv'
      BY <1>5, <2>1, UntouchedKeepsCount DEF Refs, Begin, End
    <2> QED BY <1>1, <1>5, <2>1, <2>2 DEF DInv, TypeOK, Begin, End, Reaches
  <1>6. ASSUME NEW i \in Instances, Use(i) PROVE DInv'
    <2>1. CountInv'
      BY <1>3, <1>6, UntouchedKeepsCount DEF Refs, Use
    <2> QED BY <1>1, <1>6, <2>1 DEF DInv, TypeOK, Use, Reaches
  <1>7. ASSUME NEW i \in Instances, Close(i) PROVE DInv'
    <2>1. /\ Cardinality(OpenInstances)' = Cardinality(OpenInstances) - 1
          /\ inst' \in [Instances -> InstanceState]
          /\ Cardinality(OpenInstances) > 0
      BY <1>1, <1>7, OpenChanges, OpenAreCounted DEF Close, InstanceState, OpenInstances
    <2>2. Refs' = Refs - 1 /\ Refs' \in Nat
      BY <1>2, <1>7, <2>1 DEF Refs, Close
    <2>3. CountInv' /\ loader' \in [count : Nat, loaded : BOOLEAN]
      BY <1>2, <1>7, <2>2, ReleasedKeepsCount DEF Close
    <2> QED BY <1>1, <1>7, <2>1, <2>3 DEF DInv, TypeOK, Close, Reaches
  <1>8. ASSUME NEW i \in Instances, CloseAgain(i) PROVE DInv'
    <2>1. Refs' = Refs
      BY <1>3, <1>8 DEF Refs, CloseAgain
    <2>2. CountInv' /\ loader' \in [count : Nat, loaded : BOOLEAN]
      BY <1>2, <1>8, <2>1, ReleasedKeepsCount DEF CloseAgain
    <2> QED BY <1>1, <1>8, <2>2 DEF DInv, TypeOK, CloseAgain
  <1>9. ASSUME OpenFails PROVE DInv'
    <2>1. loader \in [count : Nat, loaded : BOOLEAN] /\ ~loader.loaded
      BY <1>1, <1>9 DEF TypeOK, OpenFails, InitFails
    <2>2. loader.count = 0
      BY <1>1, <2>1 DEF CountInv
    <2>3. loader' = loader
      BY <1>9, <2>1, <2>2 DEF OpenFails, Taken, Released
    <2>4. CountInv'
      BY <1>3, <1>9, <2>3, UntouchedKeepsCount DEF Refs, OpenFails
    <2> QED BY <1>1, <1>9, <2>3, <2>4 DEF DInv, TypeOK, OpenFails
  <1>10. ASSUME OpenProbe \/ OpenStray \/ PanelOpen PROVE DInv'
    <2>1. Refs' = Refs + 1 /\ excess' = excess /\ loader' = Taken(loader)
      BY <1>2, <1>3, <1>10 DEF Refs, OpenProbe, OpenStray, PanelOpen
    <2>2. CountInv' /\ loader' \in [count : Nat, loaded : BOOLEAN]
      BY <1>2, <2>1, TakenKeepsCount
    <2>3. inst' = inst /\ excess' = excess /\ wild' = wild
      BY <1>10 DEF OpenProbe, OpenStray, PanelOpen
    <2>4. probes' \in 0 .. MaxProbes /\ panels' \in 0 .. MaxPanels /\ stray' \in 0 .. MaxStray
      BY <1>1, <1>10, SMT DEF TypeOK, OpenProbe, OpenStray, PanelOpen
    <2> QED BY <1>1, <2>2, <2>3, <2>4 DEF DInv, TypeOK
  <1>11. ASSUME PanelClose \/ CloseProbe PROVE DInv'
    <2>1. Refs' = Refs - 1 /\ Refs' \in Nat /\ excess' = excess /\ loader' = Released(loader)
      BY <1>2, <1>3, <1>11 DEF Refs, PanelClose, CloseProbe
    <2>2. CountInv' /\ loader' \in [count : Nat, loaded : BOOLEAN]
      BY <1>2, <2>1, ReleasedKeepsCount
    <2>3. inst' = inst /\ excess' = excess /\ stray' = stray /\ wild' = wild
      BY <1>11 DEF PanelClose, CloseProbe
    <2>4. probes' \in 0 .. MaxProbes /\ panels' \in 0 .. MaxPanels
      BY <1>1, <1>11, SMT DEF TypeOK, PanelClose, CloseProbe
    <2> QED BY <1>1, <2>2, <2>3, <2>4 DEF DInv, TypeOK
  <1>12. ASSUME UseProbe PROVE DInv'
    <2>1. CountInv'
      BY <1>3, <1>12, UntouchedKeepsCount DEF Refs, UseProbe
    <2> QED BY <1>1, <1>12, <2>1 DEF DInv, TypeOK, UseProbe
  <1>13. ASSUME UNCHANGED vars PROVE DInv'
    <2>1. CountInv'
      BY <1>3, <1>13, UntouchedKeepsCount DEF Refs, vars
    <2> QED BY <1>1, <1>13, <2>1 DEF DInv, TypeOK, vars
  <1> QED BY <1>4, <1>5, <1>6, <1>7, <1>8, <1>9, <1>10, <1>11, <1>12, <1>13 DEF Next

LEMMA AlwaysDInv == Spec => []DInv
  BY InitDInv, NextDInv, PTL DEF Spec

-----------------------------------------------------------------------------
\* Every variable keeps its type, for any instances and bounds (the handles of
\* Open and the exported Configure, drvproc.cpp and OpenEncodeVFW.cpp).
THEOREM DriverTypes == Spec => []TypeOK
  <1>1. DInv => TypeOK
    BY DEF DInv
  <1> QED BY <1>1, AlwaysDInv, PTL

LEMMA RefsAreHandles ==
    ASSUME DInv
    PROVE  Refs = Handles + stray /\ Handles \in Nat /\ stray \in Nat
  <1>1. TypeOK
    BY DEF DInv
  <1> QED BY <1>1, OpenAreCounted, DriverAssumption DEF Refs, Handles, TypeOK

\* As long as no handle is closed twice, the count of initOVE and deinitOVE is
\* the number of handles, of whatever kind, and of references that Open lost.
THEOREM EveryHandleIsAReference == Spec => []RefsMatchHandles
  <1>1. DInv => RefsMatchHandles
    BY RefsAreHandles DEF DInv, CountInv, RefsMatchHandles
  <1> QED BY <1>1, AlwaysDInv, PTL

\* The libraries are loaded from the first handle to the last.
THEOREM LibrariesStayForHandles == Spec => []LoadedWhileHeld
  <1>1. DInv => LoadedWhileHeld
    BY RefsAreHandles DEF DInv, CountInv, LoadedWhileHeld
  <1> QED BY <1>1, AlwaysDInv, PTL

\* Even if handles were closed twice, a process without handles has no library
\* left: the count is never negative (oveDynload.cpp:78).
THEOREM LibrariesGoWithHandles == Spec => []NothingHeldNothingLoaded
  <1>1. DInv => NothingHeldNothingLoaded
    <2> SUFFICES ASSUME DInv, Handles + stray = 0 PROVE ~loader.loaded
      BY DEF NothingHeldNothingLoaded
    <2>1. loader.count \in Nat /\ loader.count <= 0
      BY RefsAreHandles DEF DInv, CountInv, TypeOK
    <2> QED BY <2>1 DEF DInv, CountInv
  <1> QED BY <1>1, AlwaysDInv, PTL

\* The only step that reaches for unloaded libraries is the close of the last
\* handle with its session running (OpenEncodeVFW.cpp:117-120).
THEOREM OnlyTheLastCloseIsWild == Spec => OnlyLastCloseReachesUnloaded
  <1> DEFINE Safe == excess = 0 /\ "unloaded" \notin wild /\ "unloaded" \in wild'
                        => Handles = 1 /\ Handles' = 0
                           /\ \E i \in Instances : inst[i] = "running"
  <1>1. DInv /\ [Next]_vars => [Safe]_vars
    <2> SUFFICES ASSUME DInv, Next, excess = 0, "unloaded" \notin wild, "unloaded" \in wild'
                 PROVE  Handles = 1 /\ Handles' = 0 /\ \E i \in Instances : inst[i] = "running"
      OBVIOUS
    <2>1. TypeOK /\ CountInv /\ loader.count = Handles + stray /\ Handles \in Nat /\ stray \in Nat
          /\ loader \in [count : Nat, loaded : BOOLEAN]
      BY RefsAreHandles DEF DInv, CountInv, TypeOK
    <2>2. /\ probes \in Nat /\ panels \in Nat /\ Cardinality(OpenInstances) \in Nat
          /\ \A i \in Instances : IsOpen(i) => Cardinality(OpenInstances) > 0
      BY <2>1, OpenAreCounted, DriverAssumption DEF TypeOK, OpenInstances
    <2>3. \A i \in Instances : IsOpen(i) => loader.loaded
      BY <2>1, <2>2 DEF Handles, CountInv
    <2>4. PICK i \in Instances : Begin(i) \/ Use(i) \/ End(i) \/ Close(i)
      <3>1. \/ \E i \in Instances : Begin(i) \/ Use(i) \/ End(i) \/ Close(i)
            \/ wild' \subseteq wild \cup {"deleted", "probe"}
        BY DEF Next, Open, CloseAgain, OpenFails, OpenProbe, OpenStray, UseProbe, PanelOpen,
               PanelClose, CloseProbe
      <3> QED BY <3>1
    <2>5. ~ (Begin(i) \/ Use(i) \/ End(i))
      BY <2>3 DEF Begin, Use, End, Reaches, IsOpen
    <2>6. Close(i)
      BY <2>4, <2>5
    <2>7. inst[i] = "running" /\ ~loader'.loaded
      BY <2>6 DEF Close, Reaches
    <2>8. loader.count = 1 /\ Cardinality(OpenInstances) > 0
      <3>1. Cardinality(OpenInstances) > 0 /\ loader.loaded
        BY <2>2, <2>3, <2>6 DEF Close
      <3>2. ~ (loader.count > 1)
        BY <2>6, <2>7, <3>1 DEF Close, Released
      <3> QED BY <2>1, <3>1, <3>2 DEF CountInv
    <2>9. Cardinality(OpenInstances) = 1 /\ probes = 0 /\ panels = 0
      BY <2>1, <2>2, <2>8 DEF Handles
    <2>10. Cardinality(OpenInstances)' = 0 /\ probes' = 0 /\ panels' = 0
      <3>1. IsOpen(i) /\ inst' = [inst EXCEPT ![i] = "closed"] /\ probes' = probes /\ panels' = panels
        BY <2>6 DEF Close
      <3>2. Cardinality(OpenInstances)' = Cardinality(OpenInstances) - 1
        BY <2>1, <3>1, OpenChanges DEF InstanceState
      <3> QED BY <2>9, <3>1, <3>2
    <2> QED BY <2>7, <2>9, <2>10 DEF Handles
  <1> QED BY <1>1, AlwaysDInv, PTL DEF Spec, OnlyLastCloseReachesUnloaded
=============================================================================
