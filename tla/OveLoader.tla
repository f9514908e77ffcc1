----------------------------- MODULE OveLoader -----------------------------
(***************************************************************************)
(* The loader of OpenVideo.dll and OpenCL.dll (oveDynload.cpp): initOVE    *)
(* and deinitOVE called by any number of threads, one step per access to   *)
(* the variables they share.  Only refCount is accessed atomically; the    *)
(* module handles and the function pointers are plain globals.             *)
(***************************************************************************)
EXTENDS Integers, FiniteSets

CONSTANTS
    Threads,   \* the host's threads
    Faults,    \* what the system may refuse: a library, or an entry point
    Unpaired,  \* the host may close a driver handle a second time
    MaxLoads   \* bound on the system's own count of loads of a library

Libs == {"video", "cl"}

ASSUME LoaderAssumption ==
    /\ IsFiniteSet(Threads)
    /\ Faults \subseteq Libs \cup {"entry"}
    /\ Unpaired \in BOOLEAN
    /\ MaxLoads \in Nat \ {0}

VARIABLES
    pc,         \* where each thread is
    refCount,   \* refCount
    handle,     \* hMod and hModCL: not NULL
    loads,      \* how many loads of each library the system has yet to undo
    pointers,   \* the function pointers: one of them is NULL, or where they lead
    last,       \* f_clGetKernelWorkGroupInfo, the last of them: not NULL
    refused,    \* a library or an entry point has been refused at least once
    freed,      \* FreeLibrary has been called at least once
    overlap,    \* two calls have been under way at the same time
    unpaired    \* a deinitOVE has had no initOVE before it

vars == <<pc, refCount, handle, loads, pointers, last, refused, freed, overlap, unpaired>>

InInit == {"check", "loadVideo", "loadCL", "resolve"}
InDeinit == {"release", "decide", "suspect", "reset", "freeVideo", "clearVideo", "freeCL", "clearCL"}

\* "out": before initOVE or after deinitOVE; "in": initOVE has returned true
\* and the thread uses the libraries.
Places == {"out", "in"} \cup InInit \cup InDeinit

Inside(t) == pc[t] \notin {"out", "in"}

-----------------------------------------------------------------------------
\* A thread enters one of the two functions.
Enters(t, place) ==
    /\ pc' = [pc EXCEPT ![t] = place]
    /\ overlap' = (overlap \/ \E u \in Threads : Inside(u))

\* A thread inside them goes on.
Goes(t, place) ==
    /\ pc' = [pc EXCEPT ![t] = place]
    /\ UNCHANGED overlap

\* initOVE: InterlockedIncrement64(&refCount).
Increment(t) ==
    /\ pc[t] = "out"
    /\ Enters(t, "check")
    /\ refCount' = refCount + 1
    /\ UNCHANGED <<handle, loads, pointers, last, refused, freed, unpaired>>

\* Mutant of AlreadyLoaded: the pointers are not looked at.
LoadedByHandles == handle["video"] /\ handle["cl"]

\* The shortcut of initOVE: everything is there already, as far as it can see.
AlreadyLoaded == handle["video"] /\ handle["cl"] /\ last

Check(t) ==
    /\ pc[t] = "check"
    /\ Goes(t, IF AlreadyLoaded THEN "in" ELSE "loadVideo")
    /\ UNCHANGED <<refCount, handle, loads, pointers, last, refused, freed, unpaired>>

LoadLibrary(t, lib, here, next) ==
    /\ pc[t] = here
    /\ Goes(t, next)
    /\ \/ /\ loads[lib] < MaxLoads
          /\ loads' = [loads EXCEPT ![lib] = @ + 1]
          /\ handle' = [handle EXCEPT ![lib] = TRUE]
          /\ UNCHANGED refused
       \/ /\ lib \in Faults
          /\ handle' = [handle EXCEPT ![lib] = FALSE]
          /\ refused' = TRUE
          /\ UNCHANGED loads
    /\ UNCHANGED <<refCount, pointers, last, freed, unpaired>>

\* Mutant of AfterResolve: the error path returns without deinitOVE.
ResolveFailsSilently(ok) == IF ok THEN "in" ELSE "out"

AfterResolve(ok) == IF ok THEN "in" ELSE "release"

\* Every entry point is found through handles that are there and loaded.
AllFound ==
    /\ \A l \in Libs : handle[l] /\ loads[l] > 0
    /\ pointers' = "good" /\ last' = TRUE
    /\ UNCHANGED refused

\* An entry point that is not found, for the system does not have it or for a
\* handle that leads nowhere (any more), leaves NULL in the pointer that every
\* thread uses: the list stops at it, and it may be the last one.
NotFound ==
    /\ \/ "entry" \in Faults /\ refused' = TRUE
       \/ (\E l \in Libs : ~handle[l] \/ loads[l] = 0) /\ UNCHANGED refused
    /\ pointers' = "null"
    /\ UNCHANGED last \/ last' = FALSE

\* Without both handles the list is not even begun.
NotLoaded ==
    /\ \E l \in Libs : ~handle[l]
    /\ UNCHANGED <<pointers, last, refused>>

\* The list of entry points; a failure takes the own reference back.
Resolve(t) ==
    /\ pc[t] = "resolve"
    /\ \/ AllFound /\ Goes(t, AfterResolve(TRUE))
       \/ (NotFound \/ NotLoaded) /\ Goes(t, AfterResolve(FALSE))
    /\ UNCHANGED <<refCount, handle, loads, freed, unpaired>>

\* deinitOVE: InterlockedDecrement64(&refCount), called by a user of the
\* libraries or at the end of a failed initOVE.  Close calls it before it looks
\* at the handle, for a handle that was closed before as well.
Decrement(t) ==
    /\ \/ pc[t] = "in" /\ Enters(t, "decide") /\ UNCHANGED unpaired
       \/ pc[t] = "release" /\ Goes(t, "decide") /\ UNCHANGED unpaired
       \/ pc[t] = "out" /\ Unpaired /\ Enters(t, "decide") /\ unpaired' = TRUE
    /\ refCount' = refCount - 1
    /\ UNCHANGED <<handle, loads, pointers, last, refused, freed>>

\* Mutant of AfterDecision: the comparison lets the last but one free.
DecisionOffByOne(n) == IF n > 1 THEN "out" ELSE "suspect"

AfterDecision(n) == IF n > 0 THEN "out" ELSE "suspect"

\* The count is read again, first to leave it to the others ...
Decide(t) ==
    /\ pc[t] = "decide"
    /\ Goes(t, AfterDecision(refCount))
    /\ UNCHANGED <<refCount, handle, loads, pointers, last, refused, freed, unpaired>>

\* Mutant of AfterSuspicion: a negative count is left negative.
NeverSuspects(n) == "freeVideo"

AfterSuspicion(n) == IF n < 0 THEN "reset" ELSE "freeVideo"

\* ... and then once more, to find it negative.
Suspect(t) ==
    /\ pc[t] = "suspect"
    /\ Goes(t, AfterSuspicion(refCount))
    /\ UNCHANGED <<refCount, handle, loads, pointers, last, refused, freed, unpaired>>

Reset(t) ==
    /\ pc[t] = "reset"
    /\ Goes(t, "freeVideo")
    /\ refCount' = 0
    /\ UNCHANGED <<handle, loads, pointers, last, refused, freed, unpaired>>

\* The pointers are left as they are, and go stale with the last load.
PointersAfterFree(n) == IF n = 0 /\ pointers = "good" THEN "stale" ELSE pointers

\* FreeLibrary undoes one load, if there is one.
FreeLibrary(t, lib, here, clear, next) ==
    /\ pc[t] = here
    /\ IF handle[lib]
       THEN /\ loads' = [loads EXCEPT ![lib] = IF @ > 0 THEN @ - 1 ELSE 0]
            /\ pointers' = PointersAfterFree(loads'[lib])
            /\ freed' = TRUE
            /\ Goes(t, clear)
       ELSE Goes(t, next) /\ UNCHANGED <<loads, pointers, freed>>
    /\ UNCHANGED <<refCount, handle, last, refused, unpaired>>

\* The handle is set to NULL after FreeLibrary has returned.
Clear(t, lib, here, next) ==
    /\ pc[t] = here
    /\ handle' = [handle EXCEPT ![lib] = FALSE]
    /\ Goes(t, next)
    /\ UNCHANGED <<refCount, loads, pointers, last, refused, freed, unpaired>>

-----------------------------------------------------------------------------
Init ==
    /\ pc = [t \in Threads |-> "out"]
    /\ refCount = 0
    /\ handle = [l \in Libs |-> FALSE]
    /\ loads = [l \in Libs |-> 0]
    /\ pointers = "null"
    /\ last = FALSE
    /\ refused = FALSE
    /\ freed = FALSE
    /\ overlap = FALSE
    /\ unpaired = FALSE

InitOVE(t) ==
    \/ Increment(t)
    \/ Check(t)
    \/ LoadLibrary(t, "video", "loadVideo", "loadCL")
    \/ LoadLibrary(t, "cl", "loadCL", "resolve")
    \/ Resolve(t)

DeinitOVE(t) ==
    \/ Decrement(t)
    \/ Decide(t)
    \/ Suspect(t)
    \/ Reset(t)
    \/ FreeLibrary(t, "video", "freeVideo", "clearVideo", "freeCL")
    \/ Clear(t, "video", "clearVideo", "freeCL")
    \/ FreeLibrary(t, "cl", "freeCL", "clearCL", "out")
    \/ Clear(t, "cl", "clearCL", "out")

Next == \E t \in Threads : InitOVE(t) \/ DeinitOVE(t)

Spec == Init /\ [][Next]_vars

-----------------------------------------------------------------------------
(* Properties *)

TypeOK ==
    /\ pc \in [Threads -> Places]
    /\ refCount \in -Cardinality(Threads) .. Cardinality(Threads)
    /\ handle \in [Libs -> BOOLEAN]
    /\ loads \in [Libs -> 0 .. MaxLoads]
    /\ pointers \in {"null", "good", "stale"}
    /\ last \in BOOLEAN /\ refused \in BOOLEAN
    /\ freed \in BOOLEAN /\ overlap \in BOOLEAN /\ unpaired \in BOOLEAN

\* The threads that have a reference: between the increment of initOVE and
\* the decrement of deinitOVE.
Holders == {t \in Threads : pc[t] \in InInit \cup {"in", "release"}}

\* However paired calls interleave, refCount is the number of threads that
\* have a reference: no failure path loses or returns one twice, so that the
\* branch "a bit suspect" (oveDynload.cpp:76) is never taken by them.
CountsHolders == ~unpaired => refCount = Cardinality(Holders)

\* That branch makes up for calls that are not paired: whatever was closed
\* twice, no debt is left when the calls are over, and the next initOVE of a
\* process without users starts from a count it can come back to.
NoDebtAtRest == (\A t \in Threads : ~Inside(t)) => refCount >= 0

\* What initOVE promises with TRUE: both libraries are loaded and the
\* pointers lead into them.
Served == pointers = "good" /\ \A l \in Libs : loads[l] > 0

Users == {t \in Threads : pc[t] = "in"}

\* If no two calls ever overlapped, the promise holds for every user.
UsersServed == ~overlap /\ ~unpaired /\ Users # {} => Served

\* Threads that open for the first time in a process serve each other even if
\* their calls overlap.  It takes a FreeLibrary, or a LoadLibrary or
\* GetProcAddress that failed for some thread and left NULL for all of them
\* (oveDynload.cpp:11-18, 100-104), to break the promise.
FirstOpensServed == ~freed /\ ~refused /\ Users # {} => Served

\* Between calls that never overlapped, each library is loaded exactly once
\* while it has users and not at all without.
LoadedOnce ==
    (~overlap /\ ~unpaired /\ \A t \in Threads : ~Inside(t)) =>
        \A l \in Libs : /\ handle[l] <=> Users # {}
                        /\ loads[l] = IF Users # {} THEN 1 ELSE 0
=============================================================================
