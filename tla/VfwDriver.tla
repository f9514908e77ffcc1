----------------------------- MODULE VfwDriver -----------------------------
(***************************************************************************)
(* The driver as the host sees it (drvproc.cpp, Open and Close of          *)
(* OpenEncodeVFW.cpp): the messages of DriverProc that make, use and give  *)
(* back driver handles, the exported Configure, and the reference each of  *)
(* them takes on the libraries.  A message is one step here, its calls of  *)
(* initOVE and deinitOVE included (OveLoader has their interleavings); the *)
(* session of an instance is no more than "running" (CodecSession has it). *)
(***************************************************************************)
EXTENDS Integers, FiniteSets

CONSTANTS
    Instances,  \* the codec instances the host may have
    Faults,     \* "library": it cannot be loaded; "version": it is not told
    Careless,   \* "closeAgain": a handle is closed twice; "useProbe": see UseProbe
    MaxProbes,  \* bound on the handles of DRV_OPEN without parameters
    MaxPanels,  \* bound on the dialogs of the exported Configure
    MaxStray    \* bound on the references and closes that go astray

ASSUME DriverAssumption ==
    /\ IsFiniteSet(Instances)
    /\ Faults \subseteq {"library", "version"}
    /\ Careless \subseteq {"closeAgain", "useProbe"}
    /\ MaxProbes \in Nat /\ MaxPanels \in Nat /\ MaxStray \in Nat

VARIABLES
    loader,   \* refCount, and whether the libraries are loaded
    inst,     \* the instance behind each pointer Open has returned
    probes,   \* handles that are no pointer: Open returned (CodecInst*)1
    panels,   \* dialogs of the exported Configure
    stray,    \* references of an Open that returned NULL
    excess,   \* closes of a handle that was closed already
    wild      \* accesses outside what the process holds

vars == <<loader, inst, probes, panels, stray, excess, wild>>

InstanceState == {"none", "idle", "running", "closed"}

IsOpen(i) == inst[i] \in {"idle", "running"}

-----------------------------------------------------------------------------
(* initOVE and deinitOVE, called by one thread *)

\* Mutant of Taken: libraries that are there already are not counted.
TakenWhenLoading(l) ==
    [count |-> IF l.loaded THEN l.count ELSE l.count + 1, loaded |-> TRUE]

Taken(l) == [count |-> l.count + 1, loaded |-> TRUE]

\* Mutant of Released: the last but one unloads.
ReleasedEarly(l) ==
    [count |-> IF l.count > 0 THEN l.count - 1 ELSE 0, loaded |-> l.loaded /\ l.count > 2]

\* Mutant of Released: only the count goes down.
ReleasedKeepsLoaded(l) == [count |-> IF l.count > 0 THEN l.count - 1 ELSE 0, loaded |-> l.loaded]

\* Mutant of Released: a negative count stays.
ReleasedBelowZero(l) == [count |-> l.count - 1, loaded |-> l.loaded /\ l.count > 1]

\* A negative count is set to 0.
Released(l) ==
    [count |-> IF l.count > 0 THEN l.count - 1 ELSE 0, loaded |-> l.loaded /\ l.count > 1]

\* initOVE fails only where it has to load; it then calls deinitOVE.
InitFails == "library" \in Faults /\ ~loader.loaded

-----------------------------------------------------------------------------
(* DRV_OPEN *)

\* An old Windows version sets dwError, but the instance is returned.
Open(i) ==
    /\ ~IsOpen(i)
    /\ loader' = Taken(loader)
    /\ inst' = [inst EXCEPT ![i] = "idle"]
    /\ UNCHANGED <<probes, panels, stray, excess, wild>>

OpenFails ==
    /\ InitFails
    /\ loader' = Released(Taken(loader))
    /\ UNCHANGED <<inst, probes, panels, stray, excess, wild>>

\* Without ICOPEN no instance is made, and 1 is returned for its pointer.
OpenProbe ==
    /\ probes < MaxProbes
    /\ loader' = Taken(loader)
    /\ probes' = probes + 1
    /\ UNCHANGED <<inst, panels, stray, excess, wild>>

\* Windows' version is asked for after initOVE: if it is not told, or too old
\* where no instance was asked for, NULL is returned.
OpenStray ==
    /\ "version" \in Faults
    /\ stray < MaxStray
    /\ loader' = Taken(loader)
    /\ stray' = stray + 1
    /\ UNCHANGED <<inst, probes, panels, excess, wild>>

-----------------------------------------------------------------------------
(* ICM_COMPRESS_BEGIN, ICM_COMPRESS_END, and the dialogs *)

\* What an access to the encoder meets, with the libraries as l says.
Reaches(l) == IF l.loaded THEN {} ELSE {"unloaded"}

Begin(i) ==
    /\ inst[i] = "idle"
    /\ inst' = [inst EXCEPT ![i] = "running"]
    /\ wild' = wild \cup Reaches(loader)
    /\ UNCHANGED <<loader, probes, panels, stray, excess>>

End(i) ==
    /\ inst[i] = "running"
    /\ inst' = [inst EXCEPT ![i] = "idle"]
    /\ wild' = wild \cup Reaches(loader)
    /\ UNCHANGED <<loader, probes, panels, stray, excess>>

\* A frame of a running session, or the dialog of an instance, which lists the
\* devices: both call the libraries.
Use(i) ==
    /\ IsOpen(i)
    /\ wild' = wild \cup Reaches(loader)
    /\ UNCHANGED <<loader, inst, probes, panels, stray, excess>>

\* DRV_CONFIGURE takes the handle for the pointer of an instance.
UseProbe ==
    /\ "useProbe" \in Careless
    /\ probes > 0
    /\ wild' = wild \cup {"probe"}
    /\ UNCHANGED <<loader, inst, probes, panels, stray, excess>>

\* The exported Configure makes an instance of its own for the dialog, which
\* handles other messages while it is shown.
PanelOpen ==
    /\ panels < MaxPanels
    /\ loader' = Taken(loader)
    /\ panels' = panels + 1
    /\ UNCHANGED <<inst, probes, stray, excess, wild>>

PanelClose ==
    /\ panels > 0
    /\ loader' = Released(loader)
    /\ panels' = panels - 1
    /\ UNCHANGED <<inst, probes, stray, excess, wild>>

-----------------------------------------------------------------------------
(* DRV_CLOSE *)

\* deinitOVE comes first; the destructor of a running session then releases
\* the encoder through the libraries.
Close(i) ==
    /\ IsOpen(i)
    /\ loader' = Released(loader)
    /\ inst' = [inst EXCEPT ![i] = "closed"]
    /\ wild' = wild \cup (IF inst[i] = "running" THEN Reaches(loader') ELSE {})
    /\ UNCHANGED <<probes, panels, stray, excess>>

\* 1 is not writable memory: nothing is deleted.
CloseProbe ==
    /\ probes > 0
    /\ loader' = Released(loader)
    /\ probes' = probes - 1
    /\ UNCHANGED <<inst, panels, stray, excess, wild>>

\* The reference is given back before the pointer is looked at, and the memory
\* of a deleted instance may be writable still.
CloseAgain(i) ==
    /\ "closeAgain" \in Careless
    /\ inst[i] = "closed"
    /\ excess < MaxStray
    /\ loader' = Released(loader)
    /\ excess' = excess + 1
    /\ wild' \in {wild, wild \cup {"deleted"}}
    /\ UNCHANGED <<inst, probes, panels, stray>>

-----------------------------------------------------------------------------
Init ==
    /\ loader = [count |-> 0, loaded |-> FALSE]
    /\ inst = [i \in Instances |-> "none"]
    /\ probes = 0 /\ panels = 0 /\ stray = 0 /\ excess = 0
    /\ wild = {}

Next ==
    \/ \E i \in Instances :
          Open(i) \/ Begin(i) \/ Use(i) \/ End(i) \/ Close(i) \/ CloseAgain(i)
    \/ OpenFails \/ OpenProbe \/ OpenStray
    \/ UseProbe
    \/ PanelOpen \/ PanelClose
    \/ CloseProbe

Spec == Init /\ [][Next]_vars

-----------------------------------------------------------------------------
(* Properties *)

TypeOK ==
    /\ loader \in [count : Nat, loaded : BOOLEAN]
    /\ inst \in [Instances -> InstanceState]
    /\ probes \in 0 .. MaxProbes /\ panels \in 0 .. MaxPanels
    /\ stray \in 0 .. MaxStray /\ excess \in 0 .. MaxStray
    /\ wild \subseteq {"unloaded", "probe", "deleted"}

OpenInstances == {i \in Instances : IsOpen(i)}

Handles == Cardinality(OpenInstances) + probes + panels

\* Every handle the host has, whatever its kind, is one reference; only an
\* Open that took its reference and returned NULL leaves one without a handle.
RefsMatchHandles == excess = 0 => loader.count = Handles + stray

\* The libraries are there exactly while something refers to them.
LoadedWhileHeld == excess = 0 => (loader.loaded <=> Handles + stray > 0)

\* A process that has given everything back has no library left, even if it
\* gave some things back twice.
NothingHeldNothingLoaded == Handles + stray = 0 => ~loader.loaded

\* As long as no handle is closed twice, only the close of the last handle,
\* with its session still running, reaches for an unloaded library: Close
\* calls deinitOVE before the destructor (OpenEncodeVFW.cpp:117-120).
OnlyLastCloseReachesUnloaded ==
    [][excess = 0 /\ "unloaded" \notin wild /\ "unloaded" \in wild'
           => Handles = 1 /\ Handles' = 0 /\ \E i \in Instances : inst[i] = "running"]_vars
=============================================================================
