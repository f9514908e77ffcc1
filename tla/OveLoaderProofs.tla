-------------------------- MODULE OveLoaderProofs --------------------------
(***************************************************************************)
(* Proofs about OveLoader, for any finite set of threads.                  *)
(***************************************************************************)
EXTENDS OveLoader, FiniteSetTheorems, TLAPS

\* The places where a thread has a reference, and those where it may have
\* taken the count below zero without having made up for it.
Holding == InInit \cup {"in", "release"}
Owing == {"decide", "suspect", "reset"}

At(S) == {t \in Threads : pc[t] \in S}

\* Every variable but the count has its type.
Typed ==
    /\ pc \in [Threads -> Places]
    /\ refCount \in Int
    /\ handle \in [Libs -> BOOLEAN]
    /\ loads \in [Libs -> 0 .. MaxLoads]
    /\ pointers \in {"null", "good", "stale"}
    /\ last \in BOOLEAN /\ refused \in BOOLEAN
    /\ freed \in BOOLEAN /\ overlap \in BOOLEAN /\ unpaired \in BOOLEAN

\* The count lies between the debts and the references; paired calls keep it
\* at the number of references and never reset it.
CountInv ==
    /\ refCount <= Cardinality(At(Holding))
    /\ -Cardinality(At(Owing)) <= refCount
    /\ ~unpaired => refCount = Cardinality(At(Holding)) /\ \A t \in Threads : pc[t] # "reset"

LInv == Typed /\ CountInv

-----------------------------------------------------------------------------
\* The threads at some places can be counted.
LEMMA CountTypes ==
    ASSUME Typed, NEW S
    PROVE  Cardinality(At(S)) \in Nat /\ Cardinality(At(S)) <= Cardinality(Threads)
           /\ Cardinality(Threads) \in Nat
  <1>1. IsFiniteSet(At(S)) /\ Cardinality(At(S)) <= Cardinality(Threads)
    BY FS_Subset, LoaderAssumption DEF At
  <1> QED BY <1>1, FS_CardinalityType, LoaderAssumption

\* How many threads are at some places when one of them moves.
LEMMA Moves ==
    ASSUME Typed, NEW t \in Threads, NEW p \in Places, pc' = [pc EXCEPT ![t] = p], NEW S
    PROVE  /\ pc' \in [Threads -> Places]
           /\ Cardinality(At(S)') \in Nat
           /\ (pc[t] \in S <=> p \in S) => Cardinality(At(S)') = Cardinality(At(S))
           /\ pc[t] \notin S /\ p \in S => Cardinality(At(S)') = Cardinality(At(S)) + 1
           /\ pc[t] \in S /\ p \notin S => Cardinality(At(S)') = Cardinality(At(S)) - 1
  <1>1. pc \in [Threads -> Places] /\ pc' \in [Threads -> Places]
    BY DEF Typed
  <1>2. IsFiniteSet(At(S)) /\ IsFiniteSet(At(S)')
    BY FS_Subset, LoaderAssumption DEF At
  <1>6. Cardinality(At(S)') \in Nat
    BY <1>2, FS_CardinalityType
  <1>3. (pc[t] \in S <=> p \in S) => At(S)' = At(S)
    BY <1>1 DEF At
  <1>4. ASSUME pc[t] \notin S, p \in S
        PROVE  Cardinality(At(S)') = Cardinality(At(S)) + 1
    <2>1. At(S)' = At(S) \cup {t} /\ t \notin At(S)
      BY <1>1, <1>4 DEF At
    <2> QED BY <1>2, <2>1, FS_AddElement
  <1>5. ASSUME pc[t] \in S, p \notin S
        PROVE  Cardinality(At(S)') = Cardinality(At(S)) - 1
    <2>1. At(S)' = At(S) \ {t} /\ t \in At(S)
      BY <1>1, <1>5 DEF At
    <2> QED BY <1>2, <2>1, FS_RemoveElement
  <1> QED BY <1>1, <1>3, <1>4, <1>5, <1>6

\* A step that moves one thread and leaves the count keeps CountInv, if the
\* thread keeps its reference and pays no debt but by a count that allows it.
LEMMA MoveKeepsCount ==
    ASSUME LInv, NEW t \in Threads, NEW p \in Places, pc' = [pc EXCEPT ![t] = p],
           refCount' = refCount, unpaired' = unpaired,
           pc[t] \in Holding <=> p \in Holding,
           pc[t] \in Owing /\ p \notin Owing => refCount >= 0,
           p = "reset" => refCount < 0
    PROVE  CountInv' /\ pc' \in [Threads -> Places]
  <1>1. Typed /\ CountInv /\ refCount \in Int
    BY DEF LInv, Typed
  <1>2. /\ Cardinality(At(Holding)') = Cardinality(At(Holding))
        /\ pc' \in [Threads -> Places]
    BY <1>1, Moves
  <1>3. /\ Cardinality(At(Holding)) \in Nat
        /\ Cardinality(At(Owing)) \in Nat
    BY <1>1, CountTypes
  <1>4. Cardinality(At(Owing)') \in Nat
    BY <1>1, Moves
  <1>5. \/ Cardinality(At(Owing)') = Cardinality(At(Owing))
        \/ Cardinality(At(Owing)') = Cardinality(At(Owing)) + 1
        \/ Cardinality(At(Owing)') = Cardinality(At(Owing)) - 1 /\ refCount >= 0
    BY <1>1, Moves
  <1>6. -Cardinality(At(Owing)') <= refCount
    BY <1>1, <1>3, <1>4, <1>5 DEF CountInv
  <1>7. ~unpaired => \A u \in Threads : pc'[u] # "reset"
    <2>1. ~unpaired => refCount >= 0
      BY <1>1, <1>3 DEF CountInv
    <2> QED BY <1>1, <2>1 DEF CountInv, Typed
  <1> QED BY <1>1, <1>2, <1>6, <1>7 DEF CountInv

-----------------------------------------------------------------------------
\* Who holds a reference, and who owes one, by the places.
LEMMA PlaceFacts ==
    /\ InInit \subseteq Places /\ InDeinit \subseteq Places
    /\ "in" \in Places /\ "out" \in Places
    /\ InInit \subseteq Holding /\ InInit \cap Owing = {}
    /\ "in" \in Holding /\ "in" \notin Owing
    /\ "release" \in Holding /\ "release" \notin Owing
    /\ "out" \notin Holding /\ "out" \notin Owing
    /\ \A p \in InDeinit \ {"release"} : p \notin Holding
    /\ \A p \in InDeinit \ {"decide", "suspect", "reset"} : p \notin Owing
    /\ "reset" \notin InInit /\ "reset" # "in"
  BY DEF Places, InInit, InDeinit, Holding, Owing

\* Nobody holds anything at first.
LEMMA InitLInv == Init => LInv
  <1> SUFFICES ASSUME Init PROVE LInv
    OBVIOUS
  <1>0. 0 \in 0 .. MaxLoads /\ 0 \in Int
    BY LoaderAssumption
  <1>1. Typed
    BY <1>0 DEF Init, Typed, Places
  <1>2. At(Holding) = {} /\ At(Owing) = {}
    BY PlaceFacts DEF Init, At
  <1>3. CountInv
    BY <1>2, FS_EmptySet DEF Init, CountInv
  <1> QED BY <1>1, <1>3 DEF LInv

\* The increment of initOVE takes a reference, in the count and in pc.
LEMMA IncrementLInv ==
    ASSUME LInv, NEW t \in Threads, Increment(t)
    PROVE  LInv'
  <1>1. Typed /\ CountInv /\ refCount \in Int
    BY DEF LInv, Typed
  <1>2. pc[t] = "out" /\ pc' = [pc EXCEPT ![t] = "check"] /\ refCount' = refCount + 1
        /\ unpaired' = unpaired /\ "check" \in InInit
    BY DEF Increment, Enters, InInit
  <1>3. pc' \in [Threads -> Places] /\ Cardinality(At(Holding)') = Cardinality(At(Holding)) + 1
    BY <1>1, <1>2, PlaceFacts, Moves
  <1>4. Cardinality(At(Owing)') = Cardinality(At(Owing))
    BY <1>1, <1>2, PlaceFacts, Moves
  <1>5. Cardinality(At(Holding)) \in Nat /\ Cardinality(At(Owing)) \in Nat
    BY <1>1, CountTypes
  <1>6. ~unpaired => \A u \in Threads : pc'[u] # "reset"
    BY <1>1, <1>2, PlaceFacts DEF CountInv, Typed
  <1>7. CountInv'
    BY <1>1, <1>2, <1>3, <1>4, <1>5, <1>6 DEF CountInv
  <1>8. Typed'
    BY <1>1, <1>2, <1>3 DEF Increment, Enters, Typed
  <1> QED BY <1>7, <1>8 DEF LInv

\* The decrement of deinitOVE gives a reference back, or owes one.
LEMMA DecrementLInv ==
    ASSUME LInv, NEW t \in Threads, Decrement(t)
    PROVE  LInv'
  <1>1. Typed /\ CountInv /\ refCount \in Int /\ unpaired \in BOOLEAN
    BY DEF LInv, Typed
  <1>2. /\ pc[t] \in {"in", "release", "out"} /\ pc' = [pc EXCEPT ![t] = "decide"]
        /\ refCount' = refCount - 1
        /\ ~unpaired' => ~unpaired /\ pc[t] # "out"
        /\ unpaired' \in BOOLEAN /\ overlap' \in BOOLEAN
    BY <1>1 DEF Decrement, Enters, Goes, LInv, Typed
  <1>3. "decide" \in Places /\ "decide" \notin Holding /\ "decide" \in Owing
        /\ "decide" # "reset"
    BY DEF Places, InDeinit, InInit, Holding, Owing
  <1>4. /\ pc' \in [Threads -> Places]
        /\ Cardinality(At(Holding)') = IF pc[t] = "out" THEN Cardinality(At(Holding))
                                       ELSE Cardinality(At(Holding)) - 1
    BY <1>1, <1>2, <1>3, PlaceFacts, Moves
  <1>5. Cardinality(At(Owing)') = Cardinality(At(Owing)) + 1
    BY <1>1, <1>2, <1>3, PlaceFacts, Moves
  <1>6. Cardinality(At(Holding)) \in Nat /\ Cardinality(At(Owing)) \in Nat
    BY <1>1, CountTypes
  <1>7. ~unpaired => \A u \in Threads : pc'[u] # "reset"
    BY <1>1, <1>2, <1>3 DEF CountInv, Typed
  <1>8. /\ refCount' <= Cardinality(At(Holding)')
        /\ -Cardinality(At(Owing)') <= refCount'
        /\ ~unpaired' => refCount' = Cardinality(At(Holding)')
    BY <1>1, <1>2, <1>4, <1>5, <1>6 DEF CountInv
  <1>9. CountInv'
    BY <1>2, <1>7, <1>8 DEF CountInv
  <1>10. Typed'
    BY <1>1, <1>2, <1>4 DEF Decrement, Typed
  <1> QED BY <1>9, <1>10 DEF LInv

\* The reset brings the count up to 0, which no reference can contradict.
LEMMA ResetLInv ==
    ASSUME LInv, NEW t \in Threads, Reset(t)
    PROVE  LInv'
  <1>1. Typed /\ CountInv
    BY DEF LInv
  <1>2. pc[t] = "reset" /\ pc' = [pc EXCEPT ![t] = "freeVideo"] /\ refCount' = 0
        /\ unpaired' = unpaired /\ "freeVideo" \in Places
    BY DEF Reset, Goes, Places, InDeinit
  <1>3. /\ pc' \in [Threads -> Places]
        /\ Cardinality(At(Holding)') \in Nat /\ Cardinality(At(Owing)') \in Nat
    BY <1>1, <1>2, Moves
  <1>4. unpaired
    BY <1>1, <1>2 DEF CountInv
  <1>5. CountInv'
    BY <1>2, <1>3, <1>4 DEF CountInv
  <1>6. Typed'
    BY <1>1, <1>2, <1>3 DEF Reset, Goes, Typed
  <1> QED BY <1>5, <1>6 DEF LInv

\* Every other step leaves the count alone.
LEMMA QuietLInv ==
    ASSUME LInv, NEW t \in Threads, NEW p \in Places, Goes(t, p),
           UNCHANGED <<refCount, unpaired>>,
           handle' \in [Libs -> BOOLEAN], loads' \in [Libs -> 0 .. MaxLoads],
           pointers' \in {"null", "good", "stale"}, freed' \in BOOLEAN,
           last' \in BOOLEAN, refused' \in BOOLEAN,
           pc[t] \in Holding <=> p \in Holding,
           pc[t] \in Owing /\ p \notin Owing => refCount >= 0,
           p = "reset" => refCount < 0
    PROVE  LInv'
  <1>1. CountInv' /\ pc' \in [Threads -> Places]
    BY MoveKeepsCount DEF Goes
  <1>2. Typed'
    BY <1>1 DEF Goes, LInv, Typed
  <1> QED BY <1>1, <1>2 DEF LInv

\* Every step of every thread keeps the invariant.
LEMMA StepLInv == LInv /\ [Next]_vars => LInv'
  <1> SUFFICES ASSUME LInv, [Next]_vars PROVE LInv'
    OBVIOUS
  <1>0. /\ handle \in [Libs -> BOOLEAN] /\ loads \in [Libs -> 0 .. MaxLoads]
        /\ pointers \in {"null", "good", "stale"} /\ freed \in BOOLEAN
        /\ last \in BOOLEAN /\ refused \in BOOLEAN
        /\ refCount \in Int /\ MaxLoads \in Nat
    BY LoaderAssumption DEF LInv, Typed
  <1>1. CASE UNCHANGED vars
    <2>1. Typed'
      BY <1>1 DEF vars, LInv, Typed
    <2>2. At(Holding)' = At(Holding) /\ At(Owing)' = At(Owing)
      BY <1>1 DEF vars, At
    <2>3. CountInv'
      BY <1>1, <2>2 DEF vars, LInv, CountInv
    <2> QED BY <2>1, <2>3 DEF LInv
  <1>2. ASSUME NEW t \in Threads, InitOVE(t) PROVE LInv'
    <2>1. CASE Increment(t)
      BY <2>1, IncrementLInv
    <2>2. CASE Check(t)
      <3>1. PICK p \in {"in", "loadVideo"} : Goes(t, p)
        BY <2>2 DEF Check
      <3> QED BY <1>0, <2>2, <3>1, QuietLInv DEF Check, Places, InInit, InDeinit, Holding, Owing
    <2>3. ASSUME NEW lib \in Libs, NEW here \in InInit, NEW next \in InInit,
                 LoadLibrary(t, lib, here, next)
          PROVE  LInv'
      <3>1. /\ handle' \in [Libs -> BOOLEAN]
            /\ loads' \in [Libs -> 0 .. MaxLoads]
        <4>1. loads[lib] \in 0 .. MaxLoads
          BY <1>0
        <4>2. loads[lib] < MaxLoads => loads[lib] + 1 \in 0 .. MaxLoads
          BY <1>0, <4>1
        <4>3. /\ \/ loads[lib] < MaxLoads /\ loads' = [loads EXCEPT ![lib] = loads[lib] + 1]
                 \/ loads' = loads
              /\ handle' = [handle EXCEPT ![lib] = TRUE] \/ handle' = [handle EXCEPT ![lib] = FALSE]
          BY <2>3 DEF LoadLibrary
        <4>4. loads' \in [Libs -> 0 .. MaxLoads]
          BY <1>0, <4>2, <4>3
        <4> QED BY <1>0, <4>3, <4>4
      <3>2. pc[t] = here /\ Goes(t, next) /\ UNCHANGED <<refCount, pointers, last, freed, unpaired>>
        BY <2>3 DEF LoadLibrary
      <3>4. refused' \in BOOLEAN
        BY <1>0, <2>3 DEF LoadLibrary
      <3>3. /\ next \in Places /\ (here \in Holding <=> next \in Holding)
            /\ here \notin Owing /\ next # "reset"
        BY PlaceFacts
      <3> QED BY <1>0, <3>1, <3>2, <3>3, <3>4, QuietLInv
    <2>4. CASE Resolve(t)
      <3>1. PICK p \in {"in", "release"} : Goes(t, p)
        BY <2>4 DEF Resolve, AfterResolve
      <3>2. /\ pointers' \in {"null", "good", "stale"}
            /\ last' \in BOOLEAN /\ refused' \in BOOLEAN
        BY <1>0, <2>4 DEF Resolve, AllFound, NotFound, NotLoaded
      <3> QED BY <1>0, <2>4, <3>1, <3>2, QuietLInv
              DEF Resolve, Places, InInit, InDeinit, Holding, Owing
    <2>5. "loadVideo" \in InInit /\ "loadCL" \in InInit /\ "resolve" \in InInit
          /\ "video" \in Libs /\ "cl" \in Libs
      BY DEF InInit, Libs
    <2>6. CASE LoadLibrary(t, "video", "loadVideo", "loadCL")
      BY <2>3, <2>5, <2>6
    <2>7. CASE LoadLibrary(t, "cl", "loadCL", "resolve")
      BY <2>3, <2>5, <2>7
    <2> QED BY <1>2, <2>1, <2>2, <2>4, <2>6, <2>7 DEF InitOVE
  <1>3. ASSUME NEW t \in Threads, DeinitOVE(t) PROVE LInv'
    <2>0. /\ {"freeVideo", "clearVideo", "freeCL", "clearCL", "out"} \subseteq Places
          /\ \A p \in {"freeVideo", "clearVideo", "freeCL", "clearCL", "out"} :
                p \notin Holding /\ p \notin Owing /\ p # "reset"
          /\ "video" \in Libs /\ "cl" \in Libs
      BY DEF Places, InInit, InDeinit, Holding, Owing, Libs
    <2>1. CASE Decrement(t)
      BY <2>1, DecrementLInv
    <2>2. CASE Decide(t)
      <3>1. PICK p \in {"out", "suspect"} : Goes(t, p) /\ (p = "out" => refCount > 0)
        BY <2>2 DEF Decide, AfterDecision
      <3> QED BY <1>0, <2>2, <3>1, QuietLInv DEF Decide, Places, InInit, InDeinit, Holding, Owing
    <2>3. CASE Suspect(t)
      <3>1. PICK p \in {"reset", "freeVideo"} :
               Goes(t, p) /\ (p = "reset" => refCount < 0) /\ (p = "freeVideo" => ~(refCount < 0))
        BY <2>3 DEF Suspect, AfterSuspicion
      <3> QED BY <1>0, <2>3, <3>1, QuietLInv DEF Suspect, Places, InInit, InDeinit, Holding, Owing
    <2>4. CASE Reset(t)
      BY <2>4, ResetLInv
    <2>5. ASSUME NEW lib \in Libs, NEW here \in {"freeVideo", "freeCL"},
                 NEW clear \in {"clearVideo", "clearCL"}, NEW next \in {"freeCL", "out"},
                 FreeLibrary(t, lib, here, clear, next)
          PROVE  LInv'
      <3>1. PICK p \in {clear, next} : Goes(t, p)
        BY <2>5 DEF FreeLibrary
      <3>2. loads' \in [Libs -> 0 .. MaxLoads]
        BY <1>0, <2>5 DEF FreeLibrary
      <3>3. pointers' \in {"null", "good", "stale"} /\ freed' \in BOOLEAN
        BY <1>0, <2>5 DEF FreeLibrary, PointersAfterFree
      <3>4. pc[t] = here /\ UNCHANGED <<refCount, handle, last, refused, unpaired>>
        BY <2>5 DEF FreeLibrary
      <3> QED BY <1>0, <2>0, <3>1, <3>2, <3>3, <3>4, QuietLInv
    <2>6. ASSUME NEW lib \in Libs, NEW here \in {"clearVideo", "clearCL"},
                 NEW next \in {"freeCL", "out"}, Clear(t, lib, here, next)
          PROVE  LInv'
      <3>1. /\ pc[t] = here /\ Goes(t, next) /\ handle' \in [Libs -> BOOLEAN]
            /\ UNCHANGED <<refCount, loads, pointers, last, refused, freed, unpaired>>
        BY <1>0, <2>6 DEF Clear
      <3> QED BY <1>0, <2>0, <3>1, QuietLInv
    <2>7. CASE FreeLibrary(t, "video", "freeVideo", "clearVideo", "freeCL")
      BY <2>0, <2>5, <2>7
    <2>8. CASE Clear(t, "video", "clearVideo", "freeCL")
      BY <2>0, <2>6, <2>8
    <2>9. CASE FreeLibrary(t, "cl", "freeCL", "clearCL", "out")
      BY <2>0, <2>5, <2>9
    <2>10. CASE Clear(t, "cl", "clearCL", "out")
      BY <2>0, <2>6, <2>10
    <2> QED BY <1>3, <2>1, <2>2, <2>3, <2>4, <2>7, <2>8, <2>9, <2>10 DEF DeinitOVE
  <1> QED BY <1>1, <1>2, <1>3 DEF Next

\* However calls overlap, and whatever is closed twice, the count lies between
\* the debts and the references, and is them if all is paired (oveDynload.cpp:70-100).
THEOREM LoaderInvariant == Spec => []LInv
  BY InitLInv, StepLInv, PTL DEF Spec

-----------------------------------------------------------------------------
\* oveDynload.cpp keeps refCount between the debts of unpaired closes and the
\* number of threads, whatever they do and however they interleave.
THEOREM LoaderTypes == Spec => []TypeOK
  <1>1. LInv => TypeOK
    <2> SUFFICES ASSUME LInv PROVE TypeOK
      OBVIOUS
    <2>1. Typed /\ CountInv
      BY DEF LInv
    <2>2. /\ Cardinality(At(Holding)) \in Nat /\ Cardinality(At(Owing)) \in Nat
          /\ Cardinality(At(Holding)) <= Cardinality(Threads)
          /\ Cardinality(At(Owing)) <= Cardinality(Threads)
          /\ Cardinality(Threads) \in Nat
      BY <2>1, CountTypes
    <2>3. refCount \in -Cardinality(Threads) .. Cardinality(Threads)
      BY <2>1, <2>2 DEF Typed, CountInv
    <2> QED BY <2>1, <2>3 DEF Typed, TypeOK
  <1> QED BY <1>1, LoaderInvariant, PTL

\* Paired calls of initOVE and deinitOVE, failures included, keep refCount at
\* the number of threads that have a reference.
THEOREM PairedCallsAreCounted == Spec => []CountsHolders
  <1>1. LInv => CountsHolders
    <2>1. Holders = At(Holding)
      BY DEF Holders, At, Holding
    <2> QED BY <2>1 DEF LInv, CountInv, CountsHolders
  <1> QED BY <1>1, LoaderInvariant, PTL

\* Whatever was closed twice, refCount is not negative between the calls.
THEOREM DebtsAreMadeUpFor == Spec => []NoDebtAtRest
  <1>1. LInv => NoDebtAtRest
    <2> SUFFICES ASSUME LInv, \A t \in Threads : ~Inside(t) PROVE refCount >= 0
      BY DEF NoDebtAtRest
    <2>1. At(Owing) = {}
      BY DEF At, Owing, Inside
    <2>2. Cardinality(At(Owing)) = 0
      BY <2>1, FS_EmptySet
    <2> QED BY <2>2 DEF LInv, Typed, CountInv
  <1> QED BY <1>1, LoaderInvariant, PTL
-----------------------------------------------------------------------------
(* What the users get *)

\* As long as nothing was freed or refused, pointers that are set lead into
\* libraries that are loaded, and they are set for whoever uses them: a thread
\* at the list of entry points finds what it, or another one, has loaded.
Reached ==
    /\ \A t \in Threads : pc[t] \in {"loadCL", "resolve"} => handle["video"] /\ loads["video"] > 0
    /\ \A t \in Threads : pc[t] = "resolve" => handle["cl"] /\ loads["cl"] > 0

FirstInv ==
    /\ \A t \in Threads : pc[t] \in {"clearVideo", "clearCL"} => freed
    /\ ~freed /\ ~refused =>
        /\ Reached
        /\ last => pointers = "good"
        /\ pointers = "good" => \A l \in Libs : loads[l] > 0
        /\ Users # {} => pointers = "good"

\* Who uses the libraries when a thread moves.
LEMMA UsersMove ==
    ASSUME Typed, NEW t \in Threads, NEW p \in Places, pc' = [pc EXCEPT ![t] = p]
    PROVE  /\ p = "in" => Users' = Users \cup {t}
           /\ p # "in" => Users' = Users \ {t}
  <1>1. pc \in [Threads -> Places]
    BY DEF Typed
  <1> QED BY <1>1 DEF Users

\* The places inside a call are neither in use nor outside.
LEMMA PlacesOfCalls ==
    /\ "in" \in Places /\ "out" \in Places
    /\ \A p \in InInit \cup InDeinit : p \in Places /\ p # "in" /\ p # "out"
  BY DEF Places, InInit, InDeinit

\* Nobody uses the libraries at first.
LEMMA InitFirstInv == Init => FirstInv
  BY DEF Init, FirstInv, Reached, Users

\* The move of a thread, seen from the places FirstInv looks at.
LEMMA FirstMove ==
    ASSUME Typed, FirstInv, NEW t \in Threads, NEW p \in Places, pc' = [pc EXCEPT ![t] = p],
           p \notin {"loadCL", "resolve", "clearVideo", "clearCL"},
           UNCHANGED <<handle, loads, pointers, last, refused, freed>>,
           p = "in" /\ ~freed /\ ~refused => pointers = "good"
    PROVE  FirstInv'
  <1>1. \A u \in Threads : pc'[u] = pc[u] \/ pc'[u] = p
    BY DEF Typed
  <1>2. Users' \subseteq Users \/ p = "in"
    BY UsersMove
  <1>3. Reached => Reached'
    BY <1>1 DEF Reached
  <1> QED BY <1>1, <1>2, <1>3 DEF FirstInv

\* A library that was loaded stays so until it is freed.
LEMMA FirstLoad ==
    ASSUME Typed, FirstInv, NEW t \in Threads, NEW lib \in Libs, NEW here, NEW next,
           \/ lib = "video" /\ here = "loadVideo" /\ next = "loadCL"
           \/ lib = "cl" /\ here = "loadCL" /\ next = "resolve",
           LoadLibrary(t, lib, here, next)
    PROVE  FirstInv'
  <1>1. /\ pc[t] = here /\ pc' = [pc EXCEPT ![t] = next]
        /\ next \in Places /\ next # "in" /\ next \notin {"clearVideo", "clearCL"}
        /\ UNCHANGED <<pointers, last, freed>>
    BY DEF LoadLibrary, Goes, Places, InInit
  <1>2. \A u \in Threads : pc'[u] = IF u = t THEN next ELSE pc[u]
    BY <1>1 DEF Typed
  <1>3. Users' \subseteq Users
    BY <1>1, UsersMove
  <1>4. CASE refused'
    BY <1>1, <1>2, <1>4 DEF FirstInv
  <1>5. CASE ~refused'
    <2>1. /\ refused' = refused
          /\ loads' = [loads EXCEPT ![lib] = loads[lib] + 1]
          /\ handle' = [handle EXCEPT ![lib] = TRUE]
      BY <1>5 DEF LoadLibrary
    <2>2. /\ handle'[lib] /\ loads'[lib] > 0
          /\ \A l \in Libs : (handle[l] => handle'[l]) /\ (loads[l] > 0 => loads'[l] > 0)
      BY <2>1, LoaderAssumption DEF Typed
    <2>3. Reached => Reached'
      BY <1>1, <1>2, <2>2 DEF Reached, Libs
    <2> QED BY <1>1, <1>2, <1>3, <2>1, <2>2, <2>3 DEF FirstInv
  <1> QED BY <1>4, <1>5

\* A thread that ends a call of deinitOVE without freeing changes nothing.
LEMMA FirstDeinit ==
    ASSUME Typed, FirstInv, NEW t \in Threads, DeinitOVE(t)
    PROVE  FirstInv'
  <1>1. CASE \/ (FreeLibrary(t, "video", "freeVideo", "clearVideo", "freeCL") /\ handle["video"])
            \/ (FreeLibrary(t, "cl", "freeCL", "clearCL", "out") /\ handle["cl"])
    BY <1>1 DEF FreeLibrary, FirstInv
  <1>2. CASE Clear(t, "video", "clearVideo", "freeCL") \/ Clear(t, "cl", "clearCL", "out")
    BY <1>2 DEF Clear, FirstInv
  <1>3. CASE /\ ~Clear(t, "video", "clearVideo", "freeCL") /\ ~Clear(t, "cl", "clearCL", "out")
             /\ ~(FreeLibrary(t, "video", "freeVideo", "clearVideo", "freeCL") /\ handle["video"])
             /\ ~(FreeLibrary(t, "cl", "freeCL", "clearCL", "out") /\ handle["cl"])
    <2>1. PICK p \in {"decide", "out", "suspect", "reset", "freeVideo", "freeCL"} :
             pc' = [pc EXCEPT ![t] = p]
      BY <1>3 DEF DeinitOVE, Decrement, Decide, AfterDecision, Suspect, AfterSuspicion,
                  Reset, FreeLibrary, Enters, Goes
    <2>2. UNCHANGED <<handle, loads, pointers, last, refused, freed>>
      BY <1>3 DEF DeinitOVE, Decrement, Decide, Suspect, Reset, FreeLibrary
    <2>3. p \in Places /\ p # "in" /\ p \notin {"loadCL", "resolve", "clearVideo", "clearCL"}
      BY <2>1 DEF Places, InDeinit
    <2> QED BY <2>1, <2>2, <2>3, FirstMove
  <1> QED BY <1>1, <1>2, <1>3

\* Every step keeps FirstInv.
LEMMA StepFirstInv == Typed /\ FirstInv /\ [Next]_vars => FirstInv'
  <1> SUFFICES ASSUME Typed, FirstInv, [Next]_vars PROVE FirstInv'
    OBVIOUS
  <1>1. CASE UNCHANGED vars
    BY <1>1 DEF vars, FirstInv, Reached, Users
  <1>2. ASSUME NEW t \in Threads, InitOVE(t) PROVE FirstInv'
    <2>1. CASE Increment(t)
      <3>1. pc' = [pc EXCEPT ![t] = "check"] /\ "check" \in Places
            /\ UNCHANGED <<handle, loads, pointers, last, refused, freed>>
        BY <2>1 DEF Increment, Enters, Places, InInit
      <3> QED BY <3>1, FirstMove
    <2>2. CASE Check(t)
      <3>1. PICK p \in {"in", "loadVideo"} :
               /\ pc' = [pc EXCEPT ![t] = p] /\ (p = "in" => AlreadyLoaded)
               /\ UNCHANGED <<handle, loads, pointers, last, refused, freed>>
        BY <2>2 DEF Check, Goes
      <3>2. p \in Places
        BY DEF Places, InInit
      <3>3. ~freed /\ ~refused /\ p = "in" => pointers = "good"
        BY <3>1 DEF AlreadyLoaded, FirstInv
      <3> QED BY <3>1, <3>2, <3>3, FirstMove
    <2>3. CASE LoadLibrary(t, "video", "loadVideo", "loadCL")
      BY <2>3, FirstLoad DEF Libs
    <2>4. CASE LoadLibrary(t, "cl", "loadCL", "resolve")
      BY <2>4, FirstLoad DEF Libs
    <2>5. CASE Resolve(t)
      <3>1. pc[t] = "resolve" /\ UNCHANGED <<handle, loads, freed>>
        BY <2>5 DEF Resolve
      <3>2. PICK p \in {"in", "release"} :
               /\ pc' = [pc EXCEPT ![t] = p]
               /\ p = "in" => AllFound
               /\ p = "release" => NotFound \/ NotLoaded
        BY <2>5 DEF Resolve, AfterResolve, Goes
      <3>3. /\ \A u \in Threads : pc'[u] = pc[u] \/ pc'[u] = p
            /\ p \notin {"loadCL", "resolve", "clearVideo", "clearCL"}
        BY <3>2 DEF Typed
      <3>4. Reached => Reached'
        BY <3>1, <3>3 DEF Reached
      <3>5. refused' \/ refused' = refused
        BY <3>2 DEF AllFound, NotFound, NotLoaded
      <3>6. CASE freed \/ refused'
        BY <3>1, <3>3, <3>6 DEF FirstInv
      <3>7. CASE ~freed /\ ~refused'
        <4>1. Reached /\ \A l \in Libs : handle[l] /\ loads[l] > 0
          <5>1. Reached
            BY <3>5, <3>7 DEF FirstInv
          <5> QED BY <3>1, <5>1 DEF Reached, Libs
        <4>2. ~NotFound /\ ~NotLoaded
          <5>1. \A l \in Libs : ~(loads[l] = 0)
            BY <4>1 DEF Typed
          <5> QED BY <3>7, <4>1, <5>1 DEF NotFound, NotLoaded
        <4>3. pointers' = "good"
          BY <3>2, <4>2 DEF AllFound
        <4> QED BY <3>1, <3>3, <3>4, <4>1, <4>3 DEF FirstInv
      <3> QED BY <3>6, <3>7
    <2> QED BY <1>2, <2>1, <2>2, <2>3, <2>4, <2>5 DEF InitOVE
  <1> QED BY <1>1, <1>2, FirstDeinit DEF Next

\* initOVE keeps its promise to threads that overlap, as long as there was no
\* FreeLibrary and no library or entry point was refused (oveDynload.cpp:93-164).
THEOREM FirstOpensAreServed == Spec => []FirstOpensServed
  <1>1. LInv => Typed
    BY DEF LInv
  <1>2. FirstInv => FirstOpensServed
    BY DEF FirstInv, FirstOpensServed, Served
  <1> QED BY <1>1, <1>2, LoaderInvariant, InitFirstInv, StepFirstInv, PTL DEF Spec

-----------------------------------------------------------------------------
(* Calls that never overlap *)

Unloaded(lib) == ~handle[lib] /\ loads[lib] = 0

\* The handle tells whether the library is loaded.
Paired(lib) == loads[lib] = IF handle[lib] THEN 1 ELSE 0

\* Between two calls.
Rest ==
    IF Users = {} THEN \A l \in Libs : Unloaded(l)
    ELSE pointers = "good" /\ last /\ \A l \in Libs : handle[l] /\ loads[l] = 1

\* While a thread is at a place of a call, and no other thread is in one.
Doing(place) ==
    \/ place \in {"check", "decide"} /\ Rest
    \/ /\ Users = {}
       /\ \/ place = "loadVideo" /\ Unloaded("video") /\ Unloaded("cl")
          \/ place = "loadCL" /\ Paired("video") /\ Unloaded("cl")
          \/ /\ place \in {"resolve", "release", "decide", "suspect", "freeVideo"}
             /\ Paired("video") /\ Paired("cl")
          \/ place = "clearVideo" /\ loads["video"] = 0 /\ Paired("cl")
          \/ place = "freeCL" /\ Unloaded("video") /\ Paired("cl")
          \/ place = "clearCL" /\ Unloaded("video") /\ loads["cl"] = 0

Alone(t) == \A u \in Threads \ {t} : ~Inside(u)

\* One call after the other, each of them takes the libraries from one rest to
\* the next.
SerialInv ==
    ~overlap /\ ~unpaired =>
        \/ Rest /\ \A t \in Threads : ~Inside(t)
        \/ \E t \in Threads : Inside(t) /\ Alone(t) /\ Doing(pc[t])

\* A thread that goes on in a call is the only one in a call.
LEMMA SerialMove ==
    ASSUME Typed, SerialInv, ~overlap, ~unpaired,
           NEW t \in Threads, Inside(t), NEW p \in Places, pc' = [pc EXCEPT ![t] = p]
    PROVE  /\ Doing(pc[t])
           /\ p \notin {"in", "out"} /\ Doing(p)' => SerialInv'
           /\ p \in {"in", "out"} /\ Rest' => SerialInv'
  <1>1. Alone(t) /\ Doing(pc[t])
    BY DEF SerialInv, Alone
  <1>2. pc \in [Threads -> Places]
    BY DEF Typed
  <1>3. Alone(t)' /\ pc'[t] = p
    BY <1>1, <1>2 DEF Alone, Inside
  <1>4. ASSUME p \notin {"in", "out"}, Doing(p)' PROVE SerialInv'
    <2>1. Inside(t)' /\ Doing(pc[t])'
      BY <1>3, <1>4 DEF Inside
    <2> QED BY <1>3, <2>1 DEF SerialInv
  <1>5. ASSUME p \in {"in", "out"}, Rest' PROVE SerialInv'
    <2>1. \A u \in Threads : ~Inside(u)'
      BY <1>3, <1>5 DEF Inside, Alone
    <2> QED BY <1>5, <2>1 DEF SerialInv
  <1> QED BY <1>1, <1>4, <1>5

\* A thread that enters a call, when no call was under way.
LEMMA SerialEnter ==
    ASSUME Typed, SerialInv, ~unpaired,
           NEW t \in Threads, pc[t] \in {"in", "out"}, NEW p \in Places \ {"in", "out"},
           Enters(t, p), ~overlap'
    PROVE  Rest /\ (Doing(p)' => SerialInv')
  <1>1. ~overlap /\ \A u \in Threads : ~Inside(u)
    BY DEF Enters
  <1>2. Rest
    BY <1>1 DEF SerialInv
  <1>3. pc \in [Threads -> Places] /\ pc' = [pc EXCEPT ![t] = p]
    BY DEF Typed, Enters
  <1>4. Alone(t)' /\ pc'[t] = p /\ Inside(t)'
    BY <1>1, <1>3 DEF Alone, Inside
  <1> QED BY <1>2, <1>4 DEF SerialInv

\* A change that Rest does not see.
LEMMA RestStays ==
    ASSUME UNCHANGED <<handle, loads, pointers, last>>, Users' = Users
    PROVE  Rest' = Rest
  BY DEF Rest, Unloaded

\* No call has begun at first.
LEMMA InitSerialInv == Init => SerialInv
  <1> SUFFICES ASSUME Init PROVE SerialInv
    OBVIOUS
  <1>1. Users = {} /\ \A t \in Threads : ~Inside(t)
    BY DEF Init, Users, Inside
  <1>2. \A l \in Libs : Unloaded(l)
    BY DEF Init, Unloaded
  <1> QED BY <1>1, <1>2 DEF SerialInv, Rest


\* Nobody starts to use the libraries, or stops, when a thread goes on.
LEMMA UsersStay ==
    ASSUME Typed, NEW t \in Threads, pc[t] # "in", NEW p \in Places \ {"in"},
           pc' = [pc EXCEPT ![t] = p]
    PROVE  Users' = Users
  BY UsersMove DEF Users

\* What is done inside a call is done by one of these steps.
LEMMA StepSerialInv == LInv /\ SerialInv /\ [Next]_vars => SerialInv'
  <1> SUFFICES ASSUME LInv, SerialInv, [Next]_vars, ~overlap', ~unpaired' PROVE SerialInv'
    BY DEF SerialInv
  <1>0. Typed /\ CountInv /\ (pc \in [Threads -> Places])
    BY DEF LInv, Typed
  <1>1. ~overlap /\ ~unpaired
    <2>1. CASE UNCHANGED vars
      BY <2>1 DEF vars
    <2>2. ASSUME NEW t \in Threads, NEW p, Enters(t, p) \/ Goes(t, p) PROVE ~overlap
      BY <2>2, Zenon DEF Enters, Goes
    <2>3. ASSUME NEW t \in Threads, InitOVE(t) PROVE ~overlap /\ ~unpaired
      <3>1. UNCHANGED unpaired /\ \E p : Enters(t, p) \/ Goes(t, p)
        BY <2>3 DEF InitOVE, Increment, Check, LoadLibrary, Resolve
      <3> QED BY <2>2, <3>1
    <2>4. ASSUME NEW t \in Threads, DeinitOVE(t) PROVE ~overlap /\ ~unpaired
      <3>1. /\ unpaired' = TRUE \/ UNCHANGED unpaired
            /\ \E p : Enters(t, p) \/ Goes(t, p)
        BY <2>4 DEF DeinitOVE, Decrement, Decide, Suspect, Reset, FreeLibrary, Clear
      <3> QED BY <2>2, <3>1
    <2> QED BY <2>1, <2>3, <2>4 DEF Next
  <1>2. CASE UNCHANGED vars
    BY <1>2 DEF vars, SerialInv, Rest, Users, Alone, Inside, Doing, Unloaded, Paired
  <1>3. ASSUME NEW t \in Threads, InitOVE(t) PROVE SerialInv'
    <2>1. CASE Increment(t)
      <3>1. /\ pc[t] = "out" /\ Enters(t, "check") /\ UNCHANGED <<handle, loads, pointers, last>>
            /\ pc' = [pc EXCEPT ![t] = "check"] /\ "check" \in Places \ {"in", "out"}
        BY <2>1 DEF Increment, Enters, Places, InInit
      <3>2. Rest /\ (Doing("check")' => SerialInv')
        BY <1>0, <1>1, <3>1, SerialEnter
      <3>3. Rest'
        BY <1>0, <3>1, <3>2, UsersStay, RestStays
      <3> QED BY <3>2, <3>3 DEF Doing
    <2>2. CASE Check(t)
      <3>1. PICK p \in {"in", "loadVideo"} :
               /\ p = IF AlreadyLoaded THEN "in" ELSE "loadVideo"
               /\ pc' = [pc EXCEPT ![t] = p]
        BY <2>2 DEF Check, Goes
      <3>2. pc[t] = "check" /\ Inside(t) /\ p \in Places /\ UNCHANGED <<handle, loads, pointers, last>>
        BY <2>2 DEF Check, Inside, Places, InInit
      <3>3. /\ Doing("check")
            /\ p = "in" /\ Rest' => SerialInv'
            /\ p = "loadVideo" /\ Doing("loadVideo")' => SerialInv'
        BY <1>0, <1>1, <3>1, <3>2, SerialMove
      <3>4. Rest
        BY <3>3 DEF Doing
      <3>5. CASE p = "in"
        <4>1. Users # {}
          BY <3>1, <3>4, <3>5 DEF AlreadyLoaded, Rest, Unloaded, Libs
        <4>2. Users' = Users \cup {t}
          BY <1>0, <3>1, <3>2, <3>5, UsersMove
        <4>3. Rest'
          BY <3>2, <3>4, <4>1, <4>2 DEF Rest
        <4> QED BY <3>3, <3>5, <4>3
      <3>6. CASE p = "loadVideo"
        <4>1. Users' = Users
          BY <1>0, <3>1, <3>2, <3>6, UsersStay
        <4>2. Users = {}
          BY <3>1, <3>4, <3>6 DEF AlreadyLoaded, Rest, Libs
        <4>3. Doing("loadVideo")'
          BY <3>2, <3>4, <4>1, <4>2 DEF Doing, Rest, Unloaded, Libs
        <4> QED BY <3>3, <3>6, <4>3
      <3> QED BY <3>1, <3>5, <3>6
    <2>3. ASSUME NEW lib \in Libs, NEW here \in InInit, NEW next \in InInit,
                 LoadLibrary(t, lib, here, next), Unloaded(lib)
          PROVE  /\ Paired(lib)' /\ \A l \in Libs \ {lib} : handle'[l] = handle[l] /\ loads'[l] = loads[l]
                 /\ Users' = Users
      <3>1. pc[t] # "in" /\ next \in Places \ {"in"} /\ pc' = [pc EXCEPT ![t] = next]
        BY <2>3 DEF LoadLibrary, Goes, InInit, Places
      <3>2. Users' = Users
        BY <1>0, <3>1, UsersStay
      <3>3. /\ \/ loads' = [loads EXCEPT ![lib] = loads[lib] + 1]
                  /\ handle' = [handle EXCEPT ![lib] = TRUE]
               \/ loads' = loads /\ handle' = [handle EXCEPT ![lib] = FALSE]
        BY <2>3 DEF LoadLibrary
      <3>4. loads \in [Libs -> 0 .. MaxLoads] /\ handle \in [Libs -> BOOLEAN]
        BY <1>0 DEF Typed
      <3> QED BY <2>3, <3>2, <3>3, <3>4 DEF Paired, Unloaded
    <2>4. CASE LoadLibrary(t, "video", "loadVideo", "loadCL")
      <3>1. /\ pc[t] = "loadVideo" /\ pc' = [pc EXCEPT ![t] = "loadCL"]
            /\ Inside(t) /\ "loadCL" \in Places
        BY <2>4 DEF LoadLibrary, Goes, Inside, Places, InInit
      <3>2. Doing("loadVideo") /\ (Doing("loadCL")' => SerialInv')
        BY <1>0, <1>1, <3>1, SerialMove
      <3>3. Users = {} /\ Unloaded("video") /\ Unloaded("cl")
        BY <3>2 DEF Doing
      <3>4. Users' = {} /\ Paired("video")' /\ handle'["cl"] = handle["cl"]
            /\ loads'["cl"] = loads["cl"]
        BY <2>3, <2>4, <3>3 DEF Libs, InInit
      <3>5. Doing("loadCL")'
        BY <3>3, <3>4 DEF Doing, Unloaded
      <3> QED BY <3>2, <3>5
    <2>5. CASE LoadLibrary(t, "cl", "loadCL", "resolve")
      <3>1. /\ pc[t] = "loadCL" /\ pc' = [pc EXCEPT ![t] = "resolve"]
            /\ Inside(t) /\ "resolve" \in Places
        BY <2>5 DEF LoadLibrary, Goes, Inside, Places, InInit
      <3>2. Doing("loadCL") /\ (Doing("resolve")' => SerialInv')
        BY <1>0, <1>1, <3>1, SerialMove
      <3>3. Users = {} /\ Paired("video") /\ Unloaded("cl")
        BY <3>2 DEF Doing
      <3>4. Users' = {} /\ Paired("cl")' /\ handle'["video"] = handle["video"]
            /\ loads'["video"] = loads["video"]
        BY <2>3, <2>5, <3>3 DEF Libs, InInit
      <3>5. Doing("resolve")'
        BY <3>3, <3>4 DEF Doing, Paired
      <3> QED BY <3>2, <3>5
    <2>6. CASE Resolve(t)
      <3>1. PICK ok \in BOOLEAN :
               /\ Goes(t, AfterResolve(ok))
               /\ ok => pointers' = "good" /\ last' /\ \A l \in Libs : handle[l] /\ loads[l] > 0
        BY <2>6 DEF Resolve, AllFound
      <3>2. pc[t] = "resolve" /\ Inside(t) /\ UNCHANGED <<handle, loads>>
        BY <2>6 DEF Resolve, Inside
      <3>3. pc' = [pc EXCEPT ![t] = IF ok THEN "in" ELSE "release"]
            /\ "in" \in Places /\ "release" \in Places
        BY <3>1 DEF Goes, AfterResolve, Places, InDeinit
      <3>4. /\ Doing("resolve")
            /\ ok /\ Rest' => SerialInv'
            /\ ~ok /\ Doing("release")' => SerialInv'
        BY <1>0, <1>1, <3>2, <3>3, SerialMove
      <3>5. Users = {} /\ Paired("video") /\ Paired("cl")
        BY <3>4 DEF Doing
      <3>6. ASSUME ok PROVE Rest'
        <4>1. Users' = {t}
          BY <1>0, <3>3, <3>5, <3>6, UsersMove
        <4>2. \A l \in Libs : handle[l] /\ loads[l] = 1
          BY <3>1, <3>5, <3>6 DEF Paired, Libs
        <4> QED BY <3>1, <3>2, <3>6, <4>1, <4>2 DEF Rest
      <3>7. ASSUME ~ok PROVE Doing("release")'
        <4>1. Users' = {}
          BY <1>0, <3>2, <3>3, <3>5, <3>7, UsersStay
        <4> QED BY <3>2, <3>5, <4>1 DEF Doing, Paired
      <3> QED BY <3>4, <3>6, <3>7
    <2> QED BY <1>3, <2>1, <2>2, <2>4, <2>5, <2>6 DEF InitOVE

  <1>4. ASSUME NEW t \in Threads, DeinitOVE(t) PROVE SerialInv'
    <2>0. /\ \A p \in {"decide", "suspect", "freeVideo", "clearVideo", "freeCL", "clearCL"} :
                p \in Places \ {"in", "out"}
          /\ "out" \in Places \ {"in"}
          /\ "video" \in Libs /\ "cl" \in Libs
      BY DEF Places, InInit, InDeinit, Libs
    <2>1. CASE Decrement(t)
      <3>0. pc[t] \in {"in", "release"} /\ pc' = [pc EXCEPT ![t] = "decide"]
            /\ UNCHANGED <<handle, loads, pointers, last>>
        BY <1>1, <2>1 DEF Decrement, Enters, Goes
      <3>1. CASE pc[t] = "in"
        <4>1. Enters(t, "decide")
          BY <2>1, <3>1 DEF Decrement
        <4>2. Rest /\ (Doing("decide")' => SerialInv')
          BY <1>0, <1>1, <2>0, <3>1, <4>1, SerialEnter
        <4>3. t \in Users /\ Users' = Users \ {t}
          BY <1>0, <2>0, <3>0, <3>1, UsersMove DEF Users
        <4>4. pointers = "good" /\ last /\ \A l \in Libs : handle[l] /\ loads[l] = 1
          BY <4>2, <4>3 DEF Rest
        <4>5. Doing("decide")'
          BY <2>0, <3>0, <4>4 DEF Doing, Rest, Paired
        <4> QED BY <4>2, <4>5
      <3>2. CASE pc[t] = "release"
        <4>1. Inside(t)
          BY <3>2 DEF Inside
        <4>2. Doing("release") /\ (Doing("decide")' => SerialInv')
          BY <1>0, <1>1, <2>0, <3>0, <3>2, <4>1, SerialMove
        <4>3. Users' = Users
          BY <1>0, <2>0, <3>0, <3>2, UsersStay
        <4>4. Doing("decide")'
          BY <3>0, <4>2, <4>3 DEF Doing, Paired
        <4> QED BY <4>2, <4>4
      <3> QED BY <3>0, <3>1, <3>2
    <2>2. CASE Decide(t)
      <3>1. pc[t] = "decide" /\ Inside(t) /\ UNCHANGED <<handle, loads, pointers, last>>
        BY <2>2 DEF Decide, Inside
      <3>2. PICK p \in {"out", "suspect"} :
               pc' = [pc EXCEPT ![t] = p] /\ (p = "out" <=> refCount > 0)
        BY <2>2 DEF Decide, AfterDecision, Goes
      <3>3. /\ Doing("decide") /\ Alone(t)
            /\ p = "out" /\ Rest' => SerialInv'
            /\ p = "suspect" /\ Doing("suspect")' => SerialInv'
        <4>1. p \in Places
          BY <2>0, <3>2
        <4>2. Alone(t)
          BY <1>1, <3>1 DEF SerialInv, Alone
        <4> QED BY <1>0, <1>1, <3>1, <3>2, <4>1, <4>2, SerialMove
      <3>4. At(Holding) = Users
        BY <1>0, <3>1, <3>3 DEF At, Holding, InInit, Users, Alone, Inside
      <3>5. refCount = Cardinality(Users) /\ IsFiniteSet(Users)
        <4>1. IsFiniteSet(Users)
          BY FS_Subset, LoaderAssumption DEF Users
        <4> QED BY <1>0, <1>1, <3>4, <4>1 DEF CountInv
      <3>6. Users = {} <=> p = "suspect"
        <4>1. Cardinality(Users) \in Nat /\ (Cardinality(Users) = 0 <=> Users = {})
          BY <3>5, FS_EmptySet, FS_CardinalityType
        <4> QED BY <3>2, <3>5, <4>1
      <3>7. Users' = Users
        BY <1>0, <2>0, <3>1, <3>2, UsersStay
      <3>8. CASE p = "out"
        <4>1. Rest
          BY <3>3, <3>6, <3>8 DEF Doing
        <4>2. Rest'
          BY <3>1, <3>7, <4>1, RestStays
        <4> QED BY <3>3, <3>8, <4>2
      <3>9. CASE p = "suspect"
        <4>1. Paired("video") /\ Paired("cl")
          BY <2>0, <3>3, <3>6, <3>9 DEF Doing, Rest, Unloaded, Paired
        <4>2. Doing("suspect")'
          BY <3>1, <3>6, <3>7, <3>9, <4>1 DEF Doing, Paired
        <4> QED BY <3>3, <3>9, <4>2
      <3> QED BY <3>2, <3>8, <3>9
    <2>3. CASE Suspect(t)
      <3>1. pc[t] = "suspect" /\ Inside(t) /\ UNCHANGED <<handle, loads, pointers, last>>
        BY <2>3 DEF Suspect, Inside
      <3>2. pc' = [pc EXCEPT ![t] = "freeVideo"]
        <4>1. Cardinality(At(Holding)) \in Nat /\ refCount = Cardinality(At(Holding))
          BY <1>0, <1>1, CountTypes DEF CountInv
        <4>2. ~(refCount < 0)
          BY <4>1
        <4> QED BY <2>3, <4>2, Zenon DEF Suspect, AfterSuspicion, Goes
      <3>3. Doing("suspect") /\ (Doing("freeVideo")' => SerialInv')
        BY <1>0, <1>1, <2>0, <3>1, <3>2, SerialMove
      <3>4. Users' = Users
        BY <1>0, <2>0, <3>1, <3>2, UsersStay
      <3>5. Doing("freeVideo")'
        BY <3>1, <3>3, <3>4 DEF Doing, Paired
      <3> QED BY <3>3, <3>5
    <2>4. CASE Reset(t)
      BY <1>0, <1>1, <2>4 DEF Reset, CountInv
    <2>5. ASSUME NEW lib \in Libs, NEW here, NEW clear, NEW next,
                 FreeLibrary(t, lib, here, clear, next), Paired(lib)
          PROVE  /\ loads'[lib] = 0 /\ UNCHANGED handle
                 /\ pc' = [pc EXCEPT ![t] = IF handle[lib] THEN clear ELSE next]
                 /\ \A l \in Libs \ {lib} : loads'[l] = loads[l]
      <3>1. loads \in [Libs -> 0 .. MaxLoads]
        BY <1>0 DEF Typed
      <3>2. CASE handle[lib]
        BY <2>5, <3>1, <3>2 DEF FreeLibrary, Goes, Paired
      <3>3. CASE ~handle[lib]
        BY <2>5, <3>1, <3>3 DEF FreeLibrary, Goes, Paired
      <3> QED BY <3>2, <3>3
    <2>6. CASE FreeLibrary(t, "video", "freeVideo", "clearVideo", "freeCL")
      <3>1. pc[t] = "freeVideo" /\ Inside(t)
        BY <2>6 DEF FreeLibrary, Inside
      <3>2. PICK p \in {"clearVideo", "freeCL"} :
               /\ p = IF handle["video"] THEN "clearVideo" ELSE "freeCL"
               /\ pc' = [pc EXCEPT ![t] = p]
        BY <2>6 DEF FreeLibrary, Goes
      <3>3. Doing("freeVideo") /\ (Doing(p)' => SerialInv')
        BY <1>0, <1>1, <2>0, <3>1, <3>2, SerialMove
      <3>4. Users = {} /\ Paired("video") /\ Paired("cl")
        BY <3>3 DEF Doing
      <3>5. loads'["video"] = 0 /\ loads'["cl"] = loads["cl"] /\ UNCHANGED handle
        BY <2>0, <2>5, <2>6, <3>4 DEF Libs
      <3>6. Users' = Users
        BY <1>0, <2>0, <3>1, <3>2, UsersStay
      <3>7. Doing(p)'
        BY <3>2, <3>4, <3>5, <3>6 DEF Doing, Paired, Unloaded
      <3> QED BY <3>3, <3>7
    <2>7. CASE FreeLibrary(t, "cl", "freeCL", "clearCL", "out")
      <3>1. pc[t] = "freeCL" /\ Inside(t)
        BY <2>7 DEF FreeLibrary, Inside
      <3>2. PICK p \in {"clearCL", "out"} :
               /\ p = IF handle["cl"] THEN "clearCL" ELSE "out"
               /\ pc' = [pc EXCEPT ![t] = p]
        BY <2>7 DEF FreeLibrary, Goes
      <3>3. /\ Doing("freeCL")
            /\ p = "clearCL" /\ Doing("clearCL")' => SerialInv'
            /\ p = "out" /\ Rest' => SerialInv'
        BY <1>0, <1>1, <2>0, <3>1, <3>2, SerialMove
      <3>4. Users = {} /\ Unloaded("video") /\ Paired("cl")
        BY <3>3 DEF Doing
      <3>5. loads'["cl"] = 0 /\ loads'["video"] = loads["video"] /\ UNCHANGED handle
        BY <2>0, <2>5, <2>7, <3>4 DEF Libs
      <3>6. Users' = {}
        BY <1>0, <2>0, <3>1, <3>2, <3>4, UsersStay
      <3>7. p = "clearCL" => Doing("clearCL")'
        BY <3>4, <3>5, <3>6 DEF Doing, Unloaded
      <3>8. p = "out" => Rest'
        BY <3>2, <3>4, <3>5, <3>6 DEF Rest, Unloaded, Libs
      <3> QED BY <3>2, <3>3, <3>7, <3>8
    <2>8. CASE Clear(t, "video", "clearVideo", "freeCL")
      <3>1. pc[t] = "clearVideo" /\ Inside(t) /\ pc' = [pc EXCEPT ![t] = "freeCL"]
            /\ UNCHANGED loads /\ handle' = [handle EXCEPT !["video"] = FALSE]
        BY <2>8 DEF Clear, Goes, Inside
      <3>2. Doing("clearVideo") /\ (Doing("freeCL")' => SerialInv')
        BY <1>0, <1>1, <2>0, <3>1, SerialMove
      <3>3. Users' = Users
        BY <1>0, <2>0, <3>1, UsersStay
      <3>4. ~handle'["video"] /\ handle'["cl"] = handle["cl"]
        BY <1>0, <2>0, <3>1 DEF Typed
      <3>5. Doing("freeCL")'
        BY <3>1, <3>2, <3>3, <3>4 DEF Doing, Unloaded, Paired
      <3> QED BY <3>2, <3>5
    <2>9. CASE Clear(t, "cl", "clearCL", "out")
      <3>1. pc[t] = "clearCL" /\ Inside(t) /\ pc' = [pc EXCEPT ![t] = "out"]
            /\ UNCHANGED loads /\ handle' = [handle EXCEPT !["cl"] = FALSE]
        BY <2>9 DEF Clear, Goes, Inside
      <3>2. Doing("clearCL") /\ (Rest' => SerialInv')
        BY <1>0, <1>1, <2>0, <3>1, SerialMove
      <3>3. Users' = Users
        BY <1>0, <2>0, <3>1, UsersStay
      <3>4. ~handle'["cl"] /\ handle'["video"] = handle["video"]
        BY <1>0, <2>0, <3>1 DEF Typed
      <3>5. Rest'
        BY <3>1, <3>2, <3>3, <3>4 DEF Doing, Rest, Unloaded, Libs
      <3> QED BY <3>2, <3>5
    <2> QED BY <1>4, <2>1, <2>2, <2>3, <2>4, <2>6, <2>7, <2>8, <2>9 DEF DeinitOVE
  <1> QED BY <1>2, <1>3, <1>4 DEF Next

\* SerialInv is an invariant.
LEMMA LoaderSerial == Spec => [](LInv /\ SerialInv)
  BY LoaderInvariant, InitSerialInv, StepSerialInv, PTL DEF Spec

\* As long as no two calls overlap and each close has its open, whoever uses
\* the libraries finds both loaded and every pointer leading into them.
THEOREM UsersAreServed == Spec => []UsersServed
  <1>1. LInv /\ SerialInv => UsersServed
    <2> SUFFICES ASSUME LInv, SerialInv, ~overlap, ~unpaired, Users # {} PROVE Served
      BY DEF UsersServed
    <2>1. Rest
      BY DEF SerialInv, Doing
    <2> QED BY <2>1 DEF Rest, Served
  <1> QED BY <1>1, LoaderSerial, PTL

\* Between such calls each library is loaded once, or not at all without users.
THEOREM LibrariesAreLoadedOnce == Spec => []LoadedOnce
  <1>1. LInv /\ SerialInv => LoadedOnce
    <2> SUFFICES ASSUME SerialInv, Typed, ~overlap, ~unpaired, \A t \in Threads : ~Inside(t)
                 PROVE  \A l \in Libs : /\ handle[l] <=> Users # {}
                                        /\ loads[l] = IF Users # {} THEN 1 ELSE 0
      BY DEF LoadedOnce, LInv
    <2>1. Rest
      BY DEF SerialInv
    <2> QED BY <2>1 DEF Rest, Unloaded, Typed
  <1> QED BY <1>1, LoaderSerial, PTL
=============================================================================
