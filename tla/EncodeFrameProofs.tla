------------------------- MODULE EncodeFrameProofs -------------------------
(***************************************************************************)
(* Proofs about EncodeFrame, for any number of frames and any faults.      *)
(***************************************************************************)
EXTENDS EncodeFrame, FiniteSetTheorems, TLAPS

\* Where the host's path and the kernels' path run, and where the frame has
\* not been given to the encoder yet.
OnHostPath == {"map", "mapWait", "fill", "unmapWait"}
OnKernelPath == {"upload", "uploadWait", "kernelY", "kernelUV", "finish"}
BeforeTask == OnHostPath \cup OnKernelPath \cup {"task"}

\* What TypeOK says of everything but the answer and the faults.
Typed ==
    /\ pc \in Places
    /\ path \in Paths
    /\ frame \in 0 .. MaxFrame
    /\ pc # "idle" => frame \in Frames
    /\ status \in BOOLEAN /\ mapped \in BOOLEAN /\ kernels \in BOOLEAN
    /\ event \in Events
    /\ task \in [Frames -> TaskStates]
    /\ givenUp \subseteq Frames

\* The thread is where its path leads, and waits for what it has enqueued.
Located ==
    /\ pc \in OnHostPath => path # "kernel"
    /\ pc \in OnKernelPath => path = "kernel"
    /\ pc = "mapWait" => event.cmd = "map"
    /\ pc = "unmapWait" => event.cmd = "unmap"
    /\ pc = "taskWait" => event.cmd = "encode"
    /\ kernels => path = "kernel"

\* Who may use the surface, as long as no wait was cut short.
Mapping ==
    mapped /\ "unmap" \notin struck =>
        /\ pc \in {"mapWait", "fill", "unmapWait", "spin", "dead"}
        /\ pc = "mapWait" => event.state # "unset"
        /\ pc = "unmapWait" => event.state # "complete"

KernelWork ==
    kernels /\ "finish" \notin struck => pc \in {"kernelUV", "finish", "idle", "upload"}

EncoderWork ==
    "wait" \notin struck =>
        \A n \in Frames : task[n] = "encoding" =>
            n = frame /\ pc = "taskWait" /\ event.state = "submitted"

UnsetEvents ==
    pc = "unmapWait" /\ event.state = "unset" => "unmap" \in struck

SInv == Typed /\ Located /\ Mapping /\ KernelWork /\ EncoderWork /\ UnsetEvents

-----------------------------------------------------------------------------
LEMMA InitSInv == Init => SInv
  <1> SUFFICES ASSUME Init PROVE SInv
    OBVIOUS
  <1>1. Typed
    <2>1. 0 \in 0 .. MaxFrame
      BY FrameAssumption
    <2>2. event \in Events
      BY DEF Init, Events
    <2>3. task \in [Frames -> TaskStates]
      BY DEF Init, TaskStates
    <2>4. givenUp \subseteq Frames
      BY DEF Init
    <2> QED BY <2>1, <2>2, <2>3, <2>4 DEF Init, Typed, Places
  <1>2. Located /\ Mapping /\ KernelWork /\ UnsetEvents
    BY DEF Init, Located, Mapping, KernelWork, UnsetEvents, OnHostPath, OnKernelPath
  <1>3. EncoderWork
    BY DEF Init, EncoderWork
  <1> QED BY <1>1, <1>2, <1>3 DEF SInv
-----------------------------------------------------------------------------
(* Every step preserves who may use the surface *)

LEMMA StepSInv == SInv /\ [Next]_vars => SInv'
  <1> SUFFICES ASSUME SInv, [Next]_vars PROVE SInv'
    OBVIOUS
  <1> USE FrameAssumption DEF SInv, Typed, Located, Mapping, KernelWork, EncoderWork,
        UnsetEvents, Places, Frames, TaskStates, InRing, Events, OnHostPath, OnKernelPath,
        Answer, GoesTo, Strikes
  <1>1. CASE Ask
    BY <1>1 DEF Ask
  <1>2. CASE Map /\ UNCHANGED givenUp
    <2>1. event' \in Events /\ event'.cmd = "map" /\ mapped' \in BOOLEAN
      <3>1. CASE mapped' = TRUE /\ event' = [cmd |-> "map", state |-> "complete"]
        BY <3>1
      <3>2. CASE event' = Unset("map") /\ mapped' = mapped
        BY <3>2 DEF Unset
      <3> QED BY <1>2, <3>1, <3>2 DEF Map
    <2>2. event'.state = "complete" \/ (event'.state = "unset" /\ mapped' = mapped)
      BY <1>2 DEF Map, Unset
    <2>3. /\ pc = "map" /\ pc' = "mapWait" /\ struck \subseteq struck'
          /\ "unmap" \in struck' => "unmap" \in struck
          /\ "wait" \in struck' => "wait" \in struck
          /\ "finish" \in struck' => "finish" \in struck
          /\ UNCHANGED <<path, frame, status, kernels, task, givenUp>>
      BY <1>2 DEF Map
    <2>4. Typed' /\ Located'
      BY <2>1, <2>3
    <2>5. Mapping'
      BY <2>1, <2>2, <2>3
    <2>6. KernelWork' /\ EncoderWork' /\ UnsetEvents'
      BY <2>3
    <2> QED BY <2>4, <2>5, <2>6
  <1>3. CASE MapDone /\ UNCHANGED givenUp
    BY <1>3 DEF MapDone, Completed
  <1>4. CASE Unmap /\ UNCHANGED givenUp
    BY <1>4 DEF Unmap, Enqueued, Unflushed, Unset
  <1>5. CASE UnmapDone /\ UNCHANGED givenUp
    BY <1>5 DEF UnmapDone, Completed
  <1>6. CASE WaitForUnset /\ UNCHANGED givenUp
    BY <1>6 DEF WaitForUnset
  <1>7. CASE Upload /\ UNCHANGED givenUp
    BY <1>7 DEF Upload, Enqueued, Unflushed, Unset
  <1>8. CASE UploadDone /\ UNCHANGED givenUp
    BY <1>8 DEF UploadDone, Completed
  <1>9. CASE /\ Kernel("kernelY", "kernelUV") \/ Kernel("kernelUV", "finish")
             /\ UNCHANGED givenUp
    <2>1. Typed' /\ Located'
      BY <1>9 DEF Kernel
    <2>2. Mapping' /\ EncoderWork' /\ UnsetEvents'
      BY <1>9 DEF Kernel
    <2>3. KernelWork'
      BY <1>9 DEF Kernel
    <2> QED BY <2>1, <2>2, <2>3
  <1>10. CASE Finish /\ UNCHANGED givenUp
    BY <1>10 DEF Finish, Finished
  <1>11. CASE EncodeTask /\ UNCHANGED givenUp
    BY <1>11 DEF EncodeTask
  <1>12. CASE TaskDone
    <2>1. /\ pc = "taskWait" /\ event.cmd = "encode"
          /\ UNCHANGED <<path, frame, status, event, mapped, kernels, task>>
      BY <1>12 DEF TaskDone
    <2>2. /\ pc' = "query" \/ pc' = "idle"
          /\ givenUp' = givenUp \/ givenUp' = givenUp \cup {frame}
          /\ struck' = struck \/ struck' = struck \cup {"wait"}
      BY <1>12 DEF TaskDone, GivesUp
    <2>3. "wait" \in struck' \/ event.state = "complete" \/ event.state = "error"
      BY <1>12 DEF TaskDone, Completed
    <2>4. Typed' /\ Located'
      BY <2>1, <2>2
    <2>5. Mapping' /\ KernelWork' /\ UnsetEvents'
      BY <2>1, <2>2
    <2>6. EncoderWork'
      BY <2>1, <2>2, <2>3
    <2> QED BY <2>4, <2>5, <2>6
  <1>13. CASE Query
    <2>1. /\ pc = "query" /\ pc' = "idle"
          /\ UNCHANGED <<path, frame, status, event, mapped, kernels>>
      BY <1>13 DEF Query
    <2>2. /\ givenUp' = givenUp \/ givenUp' = givenUp \cup {frame}
          /\ struck' = struck \/ struck' = struck \cup {"query"}
      BY <1>13 DEF Query, GivesUp
    <2>3. /\ task' \in [Frames -> TaskStates]
          /\ \A n \in Frames : task'[n] = "encoding" => task[n] = "encoding"
      BY <1>13 DEF Query, Reclaimed
    <2>4. Typed' /\ Located'
      BY <2>1, <2>2, <2>3
    <2>5. Mapping' /\ KernelWork' /\ UnsetEvents'
      BY <2>1, <2>2
    <2>6. EncoderWork'
      BY <2>1, <2>2, <2>3
    <2> QED BY <2>4, <2>5, <2>6
  <1>14. CASE CommandDone
    BY <1>14 DEF CommandDone, CommandOver
  <1>15. CASE CommandAborted
    BY <1>15 DEF CommandAborted, CommandOver
  <1>16. CASE KernelsDone
    <2>1. ~kernels' /\ kernels' \in BOOLEAN
      BY <1>16 DEF KernelsDone
    <2>2. UNCHANGED <<pc, path, frame, status, event, mapped, task, reply, struck, givenUp>>
      BY <1>16, Zenon DEF KernelsDone
    <2>3. Typed'
      BY <2>1, <2>2, Zenon
    <2>4. Located' /\ KernelWork'
      BY <2>1, <2>2, Zenon
    <2>5. Mapping' /\ EncoderWork' /\ UnsetEvents'
      BY <2>2, Zenon
    <2> QED BY <2>3, <2>4, <2>5
  <1>17. CASE Encoded
    BY <1>17 DEF Encoded
  <1>18. CASE Described
    BY <1>18 DEF Described
  <1>19. CASE UNCHANGED vars
    BY <1>19 DEF vars
  <1>20. CASE WaitUnread /\ UNCHANGED givenUp
    BY <1>20 DEF WaitUnread
  <1>21. CASE CommandTaken
    BY <1>21 DEF CommandTaken
  <1> QED BY <1>1, <1>2, <1>3, <1>4, <1>5, <1>6, <1>7, <1>8, <1>9, <1>10, <1>11, <1>12, <1>13, <1>14, <1>15, <1>16, <1>17, <1>18, <1>19, <1>20, <1>21 DEF Next, EncodeProcess, Drivers

THEOREM SurfaceInvariant == Spec => []SInv
  <1>1. Init => SInv
    BY InitSInv
  <1>2. SInv /\ [Next]_vars => SInv'
    BY StepSInv
  <1> QED BY <1>1, <1>2, PTL DEF Spec

\* However many frames there are and whatever fails, the encoder does not read
\* the surface while it is mapped or a kernel may write it, unless the wait
\* that should have prevented it was itself cut short (compress.cpp:595-735).
THEOREM OneUserAtATime == Spec => []SurfaceExclusive
  <1>1. SInv => SurfaceExclusive
    BY DEF SInv, Mapping, KernelWork, EncoderWork, SurfaceExclusive
  <1> QED BY <1>1, SurfaceInvariant, PTL

-----------------------------------------------------------------------------
(* The ring of outputs *)

NotOutput == {"empty", "failed"}

\* Frames to come have no task yet, and have not been given up.
Later ==
    /\ \A n \in Frames : n > frame => task[n] = "none"
    /\ pc \in BeforeTask => task[frame] = "none"
    /\ \A n \in givenUp : n <= frame /\ (pc # "idle" => n < frame)

\* The frame that is waited for is in the ring.
Held == pc \in {"taskWait", "query"}

\* Until a frame is given up, in the ring is the frame that is waited for, or
\* what an older task that gave no output keeps there.
Waiting ==
    givenUp = {} =>
        \A n \in Frames : task[n] \in InRing =>
            \/ n = frame /\ Held
            \/ \E m \in Frames : m <= n /\ task[m] \in NotOutput

\* The host has had nothing that is younger than what is in the ring.
InOrder ==
    \A m \in Frames, n \in Frames :
        task[m] = "taken" /\ task[n] \in InRing => m < n

\* The last answer.
Answered ==
    /\ reply \in [frame : 0 .. MaxFrame, ok : BOOLEAN, output : 0 .. MaxFrame]
    /\ reply.frame <= frame
    /\ OutputIsOwn
    /\ struck \subseteq Faults

RInv == Later /\ (Held => task[frame] \in InRing) /\ Waiting /\ InOrder /\ Answered

LEMMA InitRInv == Init => RInv
  <1> SUFFICES ASSUME Init PROVE RInv
    OBVIOUS
  <1>1. 0 \in 0 .. MaxFrame
    BY FrameAssumption
  <1>2. Answered
    BY <1>1 DEF Init, Answered, OutputIsOwn
  <1>3. Later
    BY DEF Init, Later, BeforeTask, OnHostPath, OnKernelPath
  <1>4. ~Held /\ Waiting /\ InOrder
    BY DEF Init, Held, Waiting, InOrder, InRing, NotOutput
  <1> QED BY <1>2, <1>3, <1>4 DEF RInv

\* A query that finds an output finds it alone: it is the oldest of the ring.
LEMMA OnlyTheOldest ==
  ASSUME Typed, NEW h \in Frames, Oldest(h), task' = Reclaimed(h)
  PROVE  /\ task'[h] = "taken"
         /\ \A n \in Frames : n # h => task'[n] = task[n]
         /\ \A n \in Frames : task'[n] \in InRing => h < n
  BY FrameAssumption DEF Typed, Frames, Oldest, Ring, Reclaimed, InRing

LEMMA StepRInv == SInv /\ RInv /\ [Next]_vars => RInv'
  <1> SUFFICES ASSUME SInv, RInv, [Next]_vars PROVE RInv'
    OBVIOUS
  <1> USE FrameAssumption DEF RInv, Later, Held, Waiting, InOrder, Answered, OutputIsOwn,
        NotOutput, SInv, Typed, Frames, InRing, BeforeTask, OnHostPath, OnKernelPath,
        Answer, GoesTo, Strikes
  <1>1. CASE Ask
    BY <1>1 DEF Ask
  <1>2. CASE Map /\ UNCHANGED givenUp
    BY <1>2 DEF Map, Unset
  <1>3. CASE MapDone /\ UNCHANGED givenUp
    BY <1>3 DEF MapDone, Completed
  <1>4. CASE Unmap /\ UNCHANGED givenUp
    BY <1>4 DEF Unmap, Enqueued, Unflushed, Unset
  <1>5. CASE UnmapDone /\ UNCHANGED givenUp
    BY <1>5 DEF UnmapDone, Completed
  <1>6. CASE WaitForUnset /\ UNCHANGED givenUp
    BY <1>6 DEF WaitForUnset
  <1>7. CASE Upload /\ UNCHANGED givenUp
    BY <1>7 DEF Upload, Enqueued, Unflushed, Unset
  <1>8. CASE UploadDone /\ UNCHANGED givenUp
    BY <1>8 DEF UploadDone, Completed
  <1>9. CASE /\ Kernel("kernelY", "kernelUV") \/ Kernel("kernelUV", "finish")
             /\ UNCHANGED givenUp
    BY <1>9 DEF Kernel
  <1>10. CASE Finish /\ UNCHANGED givenUp
    BY <1>10 DEF Finish, Finished
  <1>11. CASE EncodeTask /\ UNCHANGED givenUp
    BY <1>11 DEF EncodeTask
  <1>12. CASE TaskDone
    <2>1. pc = "taskWait" /\ UNCHANGED <<frame, task>>
      BY <1>12 DEF TaskDone
    <2>2. CASE pc' = "query" /\ UNCHANGED <<reply, struck, givenUp>>
      BY <2>1, <2>2
    <2>3. CASE Answer(status, 0) /\ GivesUp
      <3>1. struck' \subseteq Faults
        BY <1>12 DEF TaskDone
      <3>2. Later' /\ ~Held' /\ givenUp' # {}
        BY <2>1, <2>3 DEF GivesUp
      <3>3. Answered'
        BY <2>1, <2>3, <3>1
      <3>4. InOrder'
        BY <2>1
      <3> QED BY <3>2, <3>3, <3>4
    <2> QED BY <1>12, <2>2, <2>3 DEF TaskDone
  <1>13. CASE Query
    <2>1. CASE Strikes("query") /\ Answer(status, 0) /\ GivesUp /\ UNCHANGED task
      BY <1>13, <2>1 DEF Query, GivesUp
    <2>2. ASSUME NEW h \in Frames, Oldest(h), task[h] \in NotOutput,
                 Answer(status, 0), UNCHANGED <<task, struck, givenUp>>
          PROVE  RInv'
      <3>1. \A n \in Frames : task[n] \in InRing => h <= n
        BY <2>2 DEF Oldest, Ring
      <3> QED BY <1>13, <2>2, <3>1 DEF Query
    <2>3. ASSUME NEW h \in Frames, Oldest(h), task[h] = "ready",
                 Answer(status, h), task' = Reclaimed(h), UNCHANGED <<struck, givenUp>>
          PROVE  RInv'
      <3>1. /\ task'[h] = "taken"
            /\ \A n \in Frames : n # h => task'[n] = task[n]
            /\ \A n \in Frames : task'[n] \in InRing => h < n
        BY <2>3, OnlyTheOldest
      <3>2. \A m \in Frames : task[m] \in InRing => h <= m
        BY <2>3 DEF Oldest, Ring
      <3>3. UNCHANGED <<frame, event>> /\ pc = "query" /\ pc' = "idle"
        BY <1>13, <2>3 DEF Query
      <3>4. givenUp = {} => h = frame
        BY <2>3, <3>2
      <3>5. Later' /\ ~Held'
        BY <2>3, <3>1, <3>3
      <3>6. Waiting'
        BY <2>3, <3>1, <3>3, <3>4
      <3>7. InOrder'
        BY <2>3, <3>1, <3>2
      <3>8. Answered'
        BY <2>3, <3>3, <3>4
      <3> QED BY <3>5, <3>6, <3>7, <3>8
    <2> QED BY <1>13, <2>1, <2>2, <2>3 DEF Query, LeavesLoop
  <1>14. CASE CommandDone
    BY <1>14 DEF CommandDone, CommandOver
  <1>15. CASE CommandAborted
    BY <1>15 DEF CommandAborted, CommandOver
  <1>16. CASE KernelsDone
    BY <1>16 DEF KernelsDone
  <1>17. CASE Encoded
    BY <1>17 DEF Encoded
  <1>18. CASE Described
    <2> PICK n \in Frames : /\ task[n] = "encoded"
                            /\ \/ task' = [task EXCEPT ![n] = "ready"] /\ UNCHANGED struck
                               \/ \E f \in NotOutput :
                                     Strikes(f) /\ task' = [task EXCEPT ![n] = f]
      BY <1>18 DEF Described
    <2>1. UNCHANGED <<pc, frame, event, reply, givenUp>>
      BY <1>18 DEF Described
    <2>2. /\ \A m \in Frames : m # n => task'[m] = task[m]
          /\ task'[n] \in {"ready"} \cup NotOutput
          /\ struck' \subseteq Faults
      OBVIOUS
    <2>3. Later' /\ (Held' => task'[frame'] \in InRing)
      BY <2>1, <2>2
    <2>4. \A m \in Frames : /\ (task'[m] \in InRing => task[m] \in InRing)
                          /\ (task[m] \in NotOutput => task'[m] \in NotOutput)
                          /\ (task'[m] = "taken" => task[m] = "taken")
      BY <2>2
    <2>5. Waiting'
      BY <2>1, <2>2, <2>4
    <2>6. InOrder'
      BY <2>4
    <2>7. Answered'
      BY <2>1, <2>2
    <2> QED BY <2>3, <2>5, <2>6, <2>7
  <1>19. CASE UNCHANGED vars
    BY <1>19 DEF vars
  <1>20. CASE WaitUnread /\ UNCHANGED givenUp
    BY <1>20 DEF WaitUnread
  <1>21. CASE CommandTaken
    BY <1>21 DEF CommandTaken
  <1> QED BY <1>1, <1>2, <1>3, <1>4, <1>5, <1>6, <1>7, <1>8, <1>9, <1>10, <1>11, <1>12, <1>13, <1>14, <1>15, <1>16, <1>17, <1>18, <1>19, <1>20, <1>21 DEF Next, EncodeProcess, Drivers

THEOREM RingInvariant == Spec => [](SInv /\ RInv)
  <1>1. Init => SInv /\ RInv
    BY InitSInv, InitRInv
  <1>2. SInv /\ RInv /\ [Next]_vars => (SInv /\ RInv)'
    BY StepSInv, StepRInv
  <1> QED BY <1>1, <1>2, PTL DEF Spec

\* In any session, with any faults, every variable keeps to its type: the
\* answers are those of frames that were asked for.
THEOREM FrameTypes == Spec => []TypeOK
  <1>1. SInv /\ RInv => TypeOK
    BY DEF SInv, RInv, Typed, Answered, TypeOK
  <1> QED BY <1>1, RingInvariant, PTL

\* In a session of any length the host is answered with the output of the
\* frame it has just sent, or with none, though the code does not compare task
\* numbers (compress.cpp:740-781), as long as no frame was given up.
THEOREM AnsweredWithItsOwn == Spec => []OutputIsOwn
  <1>1. RInv => OutputIsOwn
    BY DEF RInv, Answered
  <1> QED BY <1>1, RingInvariant, PTL

-----------------------------------------------------------------------------
(* How much the ring holds *)

\* An output that nothing will take.
Blocked == \E n \in Ring : task[n] \in NotOutput

\* One output for each frame that was given up, and the one waited for.
Counted == Blocked \/ Cardinality(Ring) = Cardinality(givenUp) + (IF Held THEN 1 ELSE 0)

LEMMA FiniteRing ==
  ASSUME Typed
  PROVE  IsFiniteSet(Frames) /\ IsFiniteSet(Ring) /\ IsFiniteSet(givenUp)
  <1>1. IsFiniteSet(Frames)
    BY FS_Interval, FrameAssumption DEF Frames
  <1>2. Ring \subseteq Frames /\ givenUp \subseteq Frames
    BY DEF Ring, Typed
  <1> QED BY <1>1, <1>2, FS_Subset

\* Progress of the tasks in the ring changes nothing.
LEMMA SameRing ==
  ASSUME Typed, Counted,
         \A n \in Frames : /\ task'[n] \in InRing <=> task[n] \in InRing
                           /\ task[n] \in NotOutput => task'[n] \in NotOutput,
         UNCHANGED givenUp, Held' <=> Held
  PROVE  Counted'
  <1>1. Ring' = Ring
    BY DEF Ring
  <1>2. Blocked => Blocked'
    BY <1>1 DEF Blocked, Ring
  <1> QED BY <1>1, <1>2 DEF Counted

\* A frame that is given up leaves its task where it is.
LEMMA OneGivenUp ==
  ASSUME SInv, RInv, Counted, Held, ~Held', GivesUp, UNCHANGED task
  PROVE  Counted'
  <1>1. Ring' = Ring /\ Blocked' = Blocked
    BY DEF Ring, Blocked
  <1>2. frame \notin givenUp
    BY FrameAssumption DEF RInv, Later, Held, SInv, Typed, Frames
  <1>3. Cardinality(givenUp') = Cardinality(givenUp) + 1
    BY <1>2, FiniteRing, FS_AddElement DEF GivesUp, SInv
  <1>4. Cardinality(Ring) \in Nat /\ Cardinality(givenUp) \in Nat
    BY FiniteRing, FS_CardinalityType DEF SInv
  <1> QED BY <1>1, <1>3, <1>4 DEF Counted

\* The output of the oldest task leaves the ring alone.
LEMMA OneTaken ==
  ASSUME SInv, Counted, Held, ~Held', UNCHANGED givenUp,
         NEW h \in Frames, Oldest(h), task[h] = "ready", task' = Reclaimed(h)
  PROVE  Counted'
  <1>1. /\ task'[h] = "taken"
        /\ \A n \in Frames : n # h => task'[n] = task[n]
    BY OnlyTheOldest DEF SInv
  <1>2. Ring' = Ring \ {h} /\ h \in Ring
    BY <1>1 DEF Ring, InRing
  <1>3. Blocked => Blocked'
    BY <1>1, <1>2 DEF Blocked, Ring, NotOutput
  <1>4. Cardinality(Ring') = Cardinality(Ring) - 1
    BY <1>2, FiniteRing, FS_RemoveElement DEF SInv
  <1>5. Cardinality(Ring) \in Nat /\ Cardinality(givenUp) \in Nat
    BY FiniteRing, FS_CardinalityType DEF SInv
  <1> QED BY <1>3, <1>4, <1>5 DEF Counted

\* The task of a new frame enters it.
LEMMA OneMore ==
  ASSUME SInv, RInv, Counted, EncodeTask, UNCHANGED givenUp, Held'
  PROVE  Counted'
  <1>1. pc = "task" /\ ~Held
    BY DEF EncodeTask, Held
  <1>2. frame \in Frames /\ task[frame] = "none"
    BY <1>1 DEF SInv, Typed, RInv, Later, BeforeTask
  <1>3. task' = [task EXCEPT ![frame] = "encoding"]
    BY DEF EncodeTask, Answer, Held
  <1>4. Ring' = Ring \cup {frame} /\ frame \notin Ring
    BY <1>2, <1>3 DEF Ring, InRing, SInv, Typed
  <1>5. Blocked => Blocked'
    BY <1>2, <1>3, <1>4 DEF Blocked, Ring, NotOutput, SInv, Typed
  <1>6. Cardinality(Ring') = Cardinality(Ring) + 1
    BY <1>4, FiniteRing, FS_AddElement DEF SInv
  <1>7. Cardinality(Ring) \in Nat /\ Cardinality(givenUp) \in Nat
    BY FiniteRing, FS_CardinalityType DEF SInv
  <1> QED BY <1>1, <1>5, <1>6, <1>7 DEF Counted

LEMMA StepCounted == SInv /\ RInv /\ Counted /\ [Next]_vars => Counted'
  <1> SUFFICES ASSUME SInv, RInv, Counted, [Next]_vars PROVE Counted'
    OBVIOUS
  <1>1. CASE UNCHANGED <<task, givenUp>> /\ (Held' <=> Held)
    BY <1>1, SameRing DEF SInv
  <1>2. CASE Ask
    BY <1>1, <1>2 DEF Ask, Held, GoesTo
  <1>3. CASE EncodeProcess /\ ~EncodeTask /\ ~TaskDone /\ ~Query
    BY <1>1, <1>3 DEF EncodeProcess, Map, MapDone, Unmap, UnmapDone, WaitUnread, WaitForUnset,
                      Upload, UploadDone, Kernel, Finish, Held, GoesTo, Answer
  <1>4. CASE EncodeTask /\ UNCHANGED givenUp
    <2>1. CASE Held'
      BY <1>4, <2>1, OneMore
    <2>2. CASE ~Held'
      BY <1>1, <1>4, <2>2 DEF EncodeTask, Held, GoesTo
    <2> QED BY <2>1, <2>2
  <1>5. CASE TaskDone
    <2>1. CASE Held'
      BY <1>1, <1>5, <2>1 DEF TaskDone, Held, Answer, GoesTo
    <2>2. CASE ~Held'
      BY <1>5, <2>2, OneGivenUp DEF TaskDone, Held, GoesTo
    <2> QED BY <2>1, <2>2
  <1>6. CASE Query
    <2>1. Held /\ ~Held'
      BY <1>6 DEF Query, Held, Answer
    <2>2. CASE GivesUp /\ UNCHANGED task
      BY <2>1, <2>2, OneGivenUp
    <2>3. ASSUME NEW h \in Frames, Oldest(h), task[h] = "ready", task' = Reclaimed(h),
                 UNCHANGED givenUp
          PROVE  Counted'
      BY <2>1, <2>3, OneTaken
    <2>4. ASSUME NEW h \in Frames, Oldest(h), task[h] \in NotOutput, UNCHANGED task
          PROVE  Counted'
      BY <2>4 DEF Counted, Blocked, Oldest, Ring
    <2> QED BY <1>6, <2>2, <2>3, <2>4 DEF Query, LeavesLoop, NotOutput
  <1>7. CASE CommandTaken \/ CommandDone \/ CommandAborted \/ KernelsDone \/ UNCHANGED vars
    BY <1>1, <1>7 DEF CommandTaken, CommandDone, CommandAborted, KernelsDone, Held, vars
  <1>8. CASE Encoded
    <2>1. UNCHANGED <<pc, givenUp>>
      BY <1>8 DEF Encoded
    <2>2. \A n \in Frames : /\ task'[n] \in InRing <=> task[n] \in InRing
                            /\ task[n] \in NotOutput => task'[n] \in NotOutput
      BY <1>8 DEF Encoded, SInv, Typed, InRing, NotOutput
    <2> QED BY <2>1, <2>2, SameRing DEF SInv, Held
  <1>9. CASE Described
    <2>1. UNCHANGED <<pc, givenUp>>
      BY <1>9 DEF Described
    <2>2. \A n \in Frames : /\ task'[n] \in InRing <=> task[n] \in InRing
                            /\ task[n] \in NotOutput => task'[n] \in NotOutput
      BY <1>9 DEF Described, SInv, Typed, InRing, NotOutput
    <2> QED BY <2>1, <2>2, SameRing DEF SInv, Held
  <1> QED BY <1>2, <1>3, <1>4, <1>5, <1>6, <1>7, <1>8, <1>9 DEF Next, EncodeProcess, Drivers

\* Between two frames of any session the ring holds one output for each frame
\* that was given up, so nothing in a session without such a frame, whatever
\* else has failed: unless a task failed or came out empty and blocks it.
THEOREM NothingLeftBehind == Spec => []RingDrained
  <1>1. Init => Counted
    <2> SUFFICES ASSUME Init PROVE Counted
      OBVIOUS
    <2>1. Ring = {} /\ givenUp = {} /\ ~Held
      BY DEF Init, Ring, InRing, Held
    <2> QED BY <2>1, FS_EmptySet DEF Counted
  <1>2. (SInv /\ RInv) /\ Counted /\ [Next]_vars => Counted'
    BY StepCounted
  <1>3. SInv /\ RInv /\ Counted => RingDrained
    <2> SUFFICES ASSUME SInv, Counted, pc = "idle" PROVE RingDrained
      BY DEF RingDrained
    <2>1. Cardinality(givenUp) \in Nat
      BY FiniteRing, FS_CardinalityType DEF SInv
    <2> QED BY <2>1 DEF Counted, Blocked, NotOutput, Held, RingDrained
  <1> QED BY <1>1, <1>2, <1>3, RingInvariant, PTL DEF Spec

\* Only a query takes an output from the ring.
LEMMA OnlyQueryTakes ==
  ASSUME Typed, Later, [Next]_vars, NEW n \in Frames, task[n] = "ready", task'[n] # "ready"
  PROVE  Query
  <1> USE DEF Typed
  <1>1. CASE Ask
    BY <1>1 DEF Ask
  <1>2. CASE EncodeProcess /\ ~EncodeTask /\ ~Query
    BY <1>2 DEF EncodeProcess, Map, MapDone, Unmap, UnmapDone, WaitUnread, WaitForUnset, Upload,
                UploadDone, Kernel, Finish, TaskDone
  <1>3. CASE CommandTaken \/ CommandDone \/ CommandAborted \/ KernelsDone \/ UNCHANGED vars
    BY <1>3 DEF CommandTaken, CommandDone, CommandAborted, KernelsDone, vars
  <1>4. CASE Encoded \/ Described
    BY <1>4 DEF Encoded, Described
  <1>5. CASE EncodeTask
    BY <1>5 DEF EncodeTask, Later, BeforeTask
  <1> QED BY <1>1, <1>2, <1>3, <1>4, <1>5 DEF Next, EncodeProcess, Drivers

\* In a session of any length an output that was described is given to the
\* host or stays, and the host gets the outputs in the order of the frames.
THEOREM OutputsInOrder == Spec => NoOutputSkipped
  <1>1. SInv /\ RInv /\ [Next]_vars =>
          [\A n \in Frames :
              task[n] = "ready" /\ task'[n] # "ready"
              => reply'.output = n /\ \A m \in Frames : m > n => task[m] # "taken"]_vars
    <2> SUFFICES ASSUME SInv, RInv, [Next]_vars,
                        NEW n \in Frames, task[n] = "ready", task'[n] # "ready"
                 PROVE  reply'.output = n /\ \A m \in Frames : m > n => task[m] # "taken"
      OBVIOUS
    <2>1. Query /\ UNCHANGED frame
      BY OnlyQueryTakes DEF SInv, RInv, Query
    <2>2. PICK h \in Frames : Oldest(h) /\ Answer(status, h) /\ task' = Reclaimed(h)
      BY <2>1 DEF Query, LeavesLoop
    <2>3. task[n] \in InRing
      BY DEF InRing
    <2>4. h = n
      BY <2>2, <2>3, OnlyTheOldest DEF SInv, Typed, Oldest, Ring
    <2>5. reply'.output = n
      BY <2>2, <2>4 DEF Answer
    <2>6. \A m \in Frames : m > n => task[m] # "taken"
      BY <2>3, FrameAssumption DEF RInv, InOrder, Frames
    <2> QED BY <2>5, <2>6
  <1> QED BY <1>1, RingInvariant, PTL DEF Spec, NoOutputSkipped
=============================================================================
