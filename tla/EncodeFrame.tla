---------------------------- MODULE EncodeFrame ----------------------------
(***************************************************************************)
(* The frames of one running session, step by step (encodeProcess and      *)
(* waitForEvent of compress.cpp, convert of clconvert.cpp): the thread of  *)
(* the host, the OpenCL queue that executes its commands later, and the    *)
(* encoder, which works on a task while the thread waits.  They share the  *)
(* input surface and the encoder's ring of outputs.                        *)
(***************************************************************************)
EXTENDS Naturals, FiniteSets

CONSTANTS
    Faults,    \* what OpenCL and the encoder may fail at
    Paths,     \* how frames may reach the input surface
    MaxFrame   \* bound on the frames of the session

FrameFaults == {"map", "unmap", "release", "convert", "finish", "task", "wait",
                "query", "abort", "flush", "info", "failed", "empty"}

\* Mapped for the CPU, to be filled from RGB or from YV12 or NV12, or written
\* by the OpenCL kernels.
FramePaths == {"rgb", "yuv", "kernel"}

ASSUME FrameAssumption ==
    /\ Faults \subseteq FrameFaults
    /\ Paths \subseteq FramePaths /\ Paths # {}
    /\ MaxFrame \in Nat \ {0}

VARIABLES
    pc,       \* where the thread is in encodeProcess
    path,     \* mUseCLConv, mFormat and mCompression
    frame,    \* the frame it is at
    status,   \* status == CL_SUCCESS: what encodeProcess will return
    event,    \* the event the thread waits for: its command, and how far it is
    mapped,   \* the input surface is mapped
    kernels,  \* kernels that write the input surface have been enqueued
    task,     \* the encoder's task of each frame
    reply,    \* the last answer: frame, result, and whose output it carries
    struck,   \* the faults that have occurred
    givenUp   \* history: the frames whose task was left to itself

vars == <<pc, path, frame, status, event, mapped, kernels, task, reply, struck, givenUp>>

Frames == 1 .. MaxFrame

Places == {"idle", "map", "mapWait", "fill", "unmapWait", "upload", "uploadWait",
           "kernelY", "kernelUV", "finish", "task", "taskWait", "query", "spin", "dead"}

\* "unset": the variable was never assigned, for the command was refused.
\* "queued": the command was not flushed to the device.
Events == [cmd : {"none", "map", "unmap", "upload", "encode"},
           state : {"unset", "queued", "submitted", "complete", "error"}]

\* A task is worked on, then its output is in the ring, at first undescribed.
InRing == {"encoding", "encoded", "ready", "empty", "failed"}

TaskStates == {"none", "taken"} \cup InRing

Strikes(f) == f \in Faults /\ struck' = struck \cup {f}

\* Mutant of Answer: the frame is counted before it is answered.
AnswerCountedFirst(ok, output) ==
    /\ pc' = "idle"
    /\ reply' = [frame |-> frame + 1, ok |-> ok, output |-> output]

Answer(ok, output) ==
    /\ pc' = "idle"
    /\ reply' = [frame |-> frame, ok |-> ok, output |-> output]

GoesTo(place) == pc' = place /\ UNCHANGED reply

\* A command whose clFlush failed: nobody looks at its result.
Unflushed(cmd) == [cmd |-> cmd, state |-> "queued"]

\* Mutant of Enqueued: clFlush is not called.
EnqueuedOnly(cmd) == Unflushed(cmd)

\* A command and the clFlush that follows it: the queue will execute it.
Enqueued(cmd) == [cmd |-> cmd, state |-> "submitted"]

Unset(cmd) == [cmd |-> cmd, state |-> "unset"]

-----------------------------------------------------------------------------
(* ICM_COMPRESS *)

Ask ==
    /\ pc = "idle" /\ frame < MaxFrame
    /\ frame' = frame + 1
    /\ status' = TRUE
    /\ GoesTo(IF path = "kernel" THEN "upload" ELSE "map")
    /\ UNCHANGED <<path, event, mapped, kernels, task, struck, givenUp>>

-----------------------------------------------------------------------------
(* The CPU fills the mapped surface *)

\* The mapping is a blocking one: it is complete when it returns.  If it fails
\* there is neither a pointer nor an event.
Map ==
    /\ pc = "map"
    /\ GoesTo("mapWait")
    /\ \/ /\ mapped' = TRUE
          /\ event' = [cmd |-> "map", state |-> "complete"]
          /\ UNCHANGED struck
       \/ Strikes("map") /\ event' = Unset("map") /\ UNCHANGED mapped
    /\ UNCHANGED <<path, frame, status, kernels, task>>

\* Mutant of Completed: waitForEvent leaves after one look.
LookedAt(cmd) == event.cmd = cmd

\* waitForEvent goes round until it has read CL_COMPLETE.
Completed(cmd) == event = [cmd |-> cmd, state |-> "complete"]

MapDone ==
    /\ pc = "mapWait" /\ Completed("map")
    /\ GoesTo("fill")
    /\ UNCHANGED <<path, frame, status, event, mapped, kernels, task, struck>>

Unmap ==
    /\ pc = "fill"
    /\ GoesTo("unmapWait")
    /\ \/ event' = Enqueued("unmap") /\ UNCHANGED struck
       \/ Strikes("unmap") /\ event' = Unset("unmap")
       \/ Strikes("flush") /\ event' = Unflushed("unmap")
    /\ UNCHANGED <<path, frame, status, mapped, kernels, task>>

\* The status of the release is the one that stays.
UnmapDone ==
    /\ pc = "unmapWait" /\ Completed("unmap")
    /\ GoesTo("task")
    /\ \/ UNCHANGED <<status, struck>>
       \/ Strikes("release") /\ status' = FALSE
    /\ UNCHANGED <<path, frame, event, mapped, kernels, task>>

\* clGetEventInfo fails and leaves eventStatus as it was: as nobody looks at
\* its result, the loop is never left.
WaitUnread ==
    /\ pc \in {"mapWait", "unmapWait"}
    /\ Strikes("info") /\ GoesTo("spin")
    /\ UNCHANGED <<path, frame, status, event, mapped, kernels, task>>

\* A wait for an event that was never assigned: the process may not survive
\* it, may find no event and wait forever, or one that is complete.  Without
\* the mapping YV12 and NV12 are not converted, and RGB is written to where no
\* memory is; releasing the event may work or not.
WaitForUnset ==
    /\ event.state = "unset"
    /\ \/ /\ pc \in {"mapWait", "unmapWait", "uploadWait"}
          /\ GoesTo("dead") \/ GoesTo("spin")
          /\ UNCHANGED status
       \/ /\ pc = "mapWait" /\ path = "yuv"
          /\ status' \in BOOLEAN /\ Answer(status', 0)
       \/ pc = "unmapWait" /\ status' \in BOOLEAN /\ GoesTo("task")
       \/ pc = "uploadWait" /\ GoesTo("kernelY") /\ UNCHANGED status
    /\ UNCHANGED <<path, frame, event, mapped, kernels, task, struck>>

-----------------------------------------------------------------------------
(* The OpenCL kernels fill the surface: clConvert::convert *)

\* The source is copied to a buffer of its own.  Mapping it waits for all that
\* the queue was given before; if that fails, the conversion fails.
Upload ==
    /\ pc = "upload" /\ ~kernels
    /\ \/ /\ GoesTo("uploadWait")
          /\ \/ event' = Enqueued("upload") /\ UNCHANGED struck
             \/ Strikes("unmap") /\ event' = Unset("upload")
             \/ Strikes("flush") /\ event' = Unflushed("upload")
       \/ Strikes("map") /\ Answer(status, 0) /\ UNCHANGED event
    /\ UNCHANGED <<path, frame, status, mapped, kernels, task>>

\* waitForEventAndRelease gives up when the event cannot be read, and convert
\* does not look at what it returns.
UploadDone ==
    /\ pc = "uploadWait"
    /\ \/ Completed("upload") /\ UNCHANGED struck
       \/ Strikes("info")
    /\ GoesTo("kernelY")
    /\ UNCHANGED <<path, frame, status, event, mapped, kernels, task>>

\* A kernel that cannot be enqueued fails the conversion, and when profiling
\* one that was enqueued may; the other one may be in the queue already.
Kernel(here, next) ==
    /\ pc = here
    /\ \/ kernels' = TRUE /\ GoesTo(next) /\ UNCHANGED struck
       \/ Strikes("convert") /\ Answer(status, 0) /\ (UNCHANGED kernels \/ kernels' = TRUE)
    /\ UNCHANGED <<path, frame, status, event, mapped, task>>

\* Mutant of Finished: clFinish is not called.
NotWaitedFor == TRUE

Finished == ~kernels

\* clFinish waits for both; its result is not looked at.
Finish ==
    /\ pc = "finish"
    /\ \/ Finished /\ UNCHANGED struck
       \/ Strikes("finish")
    /\ GoesTo("task")
    /\ UNCHANGED <<path, frame, status, event, mapped, kernels, task>>

-----------------------------------------------------------------------------
(* The encoder's task *)

EncodeTask ==
    /\ pc = "task"
    /\ \/ /\ task' = [task EXCEPT ![frame] = "encoding"]
          /\ event' = [cmd |-> "encode", state |-> "submitted"]
          /\ GoesTo("taskWait")
          /\ UNCHANGED struck
       \/ Strikes("task") /\ Answer(status, 0) /\ UNCHANGED <<task, event>>
    /\ UNCHANGED <<path, frame, status, mapped, kernels>>

GivesUp == givenUp' = givenUp \cup {frame}

\* clWaitForEvents returns for an event that is over, or with an error.
TaskDone ==
    /\ pc = "taskWait"
    /\ \/ Completed("encode") /\ GoesTo("query") /\ UNCHANGED <<struck, givenUp>>
       \/ /\ \/ event.state = "error" /\ UNCHANGED struck
             \/ Strikes("wait")
          /\ Answer(status, 0) /\ GivesUp
    /\ UNCHANGED <<path, frame, status, event, mapped, kernels, task>>

Ring == {n \in Frames : task[n] \in InRing}

\* The oldest output of the ring is the one that is described.
Oldest(n) == n \in Ring /\ \A m \in Ring : n <= m

\* Mutant of Reclaimed: the whole ring is reclaimed.
ReclaimedAll(h) ==
    [n \in Frames |-> IF task[n] \in InRing THEN "taken" ELSE task[n]]

\* Mutant of Reclaimed: OVEncodeReleaseTask is not called.
NothingReclaimed(h) == task

\* OVEncodeReleaseTask reclaims the ring up to the task.
Reclaimed(h) ==
    [n \in Frames |-> IF task[n] \in InRing /\ n <= h THEN "taken" ELSE task[n]]

\* Mutant of LeavesLoop: the description is asked for once.
AskedOnce(h) == TRUE

\* One description is asked for, again and again while it says that the task
\* is not over.
LeavesLoop(h) == task[h] \in {"ready", "empty", "failed"}

\* Only an output that is complete and has bytes is copied and released.
Query ==
    /\ pc = "query"
    /\ \/ /\ \E h \in Frames :
                /\ Oldest(h) /\ LeavesLoop(h)
                /\ \/ task[h] = "ready" /\ Answer(status, h) /\ task' = Reclaimed(h)
                   \/ task[h] # "ready" /\ Answer(status, 0) /\ UNCHANGED task
          /\ UNCHANGED <<struck, givenUp>>
       \/ Strikes("query") /\ Answer(status, 0) /\ GivesUp /\ UNCHANGED task
    /\ UNCHANGED <<path, frame, status, event, mapped, kernels>>

-----------------------------------------------------------------------------
(* The OpenCL queue and the encoder *)

\* Nothing makes the queue take what was not flushed to it, but it may.
CommandTaken ==
    /\ event.state = "queued"
    /\ event' = [event EXCEPT !.state = "submitted"]
    /\ UNCHANGED <<pc, path, frame, status, mapped, kernels, task, reply, struck, givenUp>>

\* The event of a task is over only when the task is.
CommandOver ==
    /\ event.state = "submitted"
    /\ event.cmd = "encode" => task[frame] # "encoding"

\* The surface is given back when the unmapping is executed.
CommandDone ==
    /\ CommandOver
    /\ event' = [event EXCEPT !.state = "complete"]
    /\ mapped' = (mapped /\ event.cmd # "unmap")
    /\ UNCHANGED <<pc, path, frame, status, kernels, task, reply, struck, givenUp>>

\* Or the command ends with an error, and so will its event.
CommandAborted ==
    /\ CommandOver
    /\ Strikes("abort")
    /\ event' = [event EXCEPT !.state = "error"]
    /\ UNCHANGED <<pc, path, frame, status, mapped, kernels, task, reply, givenUp>>

KernelsDone ==
    /\ kernels
    /\ kernels' = FALSE
    /\ UNCHANGED <<pc, path, frame, status, event, mapped, task, reply, struck, givenUp>>

\* The encoder reads the surface up to here.
Encoded ==
    \E n \in Frames :
        /\ task[n] = "encoding"
        /\ task' = [task EXCEPT ![n] = "encoded"]
        /\ UNCHANGED <<pc, path, frame, status, event, mapped, kernels, reply, struck, givenUp>>

\* The description says that the task is over, and how it went.
Described ==
    \E n \in Frames :
        /\ task[n] = "encoded"
        /\ \/ task' = [task EXCEPT ![n] = "ready"] /\ UNCHANGED struck
           \/ \E f \in {"empty", "failed"} :
                 Strikes(f) /\ task' = [task EXCEPT ![n] = f]
        /\ UNCHANGED <<pc, path, frame, status, event, mapped, kernels, reply, givenUp>>

-----------------------------------------------------------------------------
Init ==
    /\ pc = "idle"
    /\ path \in Paths
    /\ frame = 0
    /\ status = TRUE
    /\ event = [cmd |-> "none", state |-> "complete"]
    /\ mapped = FALSE
    /\ kernels = FALSE
    /\ task = [n \in Frames |-> "none"]
    /\ reply = [frame |-> 0, ok |-> TRUE, output |-> 0]
    /\ struck = {}
    /\ givenUp = {}

\* The thread, once the host has asked for a frame.
EncodeProcess ==
    \/ /\ \/ Map \/ MapDone \/ Unmap \/ UnmapDone \/ WaitUnread \/ WaitForUnset
          \/ Upload \/ UploadDone
          \/ Kernel("kernelY", "kernelUV") \/ Kernel("kernelUV", "finish") \/ Finish
          \/ EncodeTask
       /\ UNCHANGED givenUp
    \/ TaskDone \/ Query

Drivers ==
    CommandTaken \/ CommandDone \/ CommandAborted \/ KernelsDone \/ Encoded \/ Described

Next == Ask \/ EncodeProcess \/ Drivers

\* A thread that can go on without another fault does; the queue executes what
\* was flushed to it (clFinish and a blocking mapping flush it themselves), and
\* the encoder works on what it was given.
Fairness ==
    /\ WF_vars(EncodeProcess /\ UNCHANGED struck)
    /\ WF_vars(CommandDone \/ CommandAborted)
    /\ WF_vars(pc \in {"upload", "finish"} /\ KernelsDone)
    /\ WF_vars(Encoded)
    /\ WF_vars(Described)

Spec == Init /\ [][Next]_vars /\ Fairness

-----------------------------------------------------------------------------
(* Properties *)

TypeOK ==
    /\ pc \in Places
    /\ path \in Paths
    /\ frame \in 0 .. MaxFrame
    /\ status \in BOOLEAN /\ mapped \in BOOLEAN /\ kernels \in BOOLEAN
    /\ event \in Events
    /\ task \in [Frames -> TaskStates]
    /\ reply \in [frame : 0 .. MaxFrame, ok : BOOLEAN, output : 0 .. MaxFrame]
    /\ struck \subseteq Faults
    /\ givenUp \subseteq Frames

\* The encoder never reads the input surface while the CPU has it mapped or a
\* kernel may still write it, of this frame or a later one: unless a wait was
\* cut short by an error, every writer has finished before OVEncodeTask, and
\* the task before the next writer (compress.cpp:595-735, clconvert.cpp:683).
SurfaceExclusive ==
    /\ mapped \/ kernels
    /\ \E n \in Frames : task[n] = "encoding"
    => struck \cap {"unmap", "finish", "wait"} # {}

\* What a frame is answered with is its own output or none: the description
\* read is never that of an earlier frame (compress.cpp:740-781 does not
\* compare task numbers), unless an earlier frame was given up.
OutputIsOwn ==
    \/ reply.output \in {0, reply.frame}
    \/ \E n \in givenUp : n < reply.frame

\* Between frames the ring holds as many outputs as frames were given up, each
\* of which keeps the host one frame behind from then on: none when there was
\* no such frame.  Only a task that failed or came out empty, which nothing
\* ever reclaims (compress.cpp:769-781), lets them pile up.
RingDrained ==
    pc = "idle" =>
        \/ Cardinality(Ring) = Cardinality(givenUp)
        \/ \E n \in Ring : task[n] \in {"empty", "failed"}

\* Whatever fails, an output that was described leaves the ring only to the
\* host, as the answer to a frame no later than any other it has had.
NoOutputSkipped ==
    [][\A n \in Frames :
          task[n] = "ready" /\ task'[n] # "ready"
          => reply'.output = n /\ \A m \in Frames : m > n => task[m] # "taken"]_vars

Busy == pc \notin {"idle", "dead"}

\* In the loop of waitForEvent for an event that it can read but that will not
\* complete, or that it cannot read.
Hangs ==
    \/ pc = "spin"
    \/ /\ pc \in {"unmapWait", "uploadWait"}
       /\ event.state = "error" \/ (event.state = "queued" /\ "flush" \in struck)

\* Whatever the calls return, every frame ends: it is answered, or the process
\* dies of an event that was never assigned, or the thread is in waitForEvent
\* for a command that ended with an error, whose clFlush failed, or whose event
\* was refused or cannot be read (compress.cpp:614-664, clconvert.cpp:639).
FrameAnswered == Busy ~> ~Busy \/ Hangs

\* waitForEvent "waits for the event completion" and promises "true if
\* successful; otherwise false" (compress.cpp:932-936): every wait ends.
WaitsEnd == Busy ~> ~Busy
=============================================================================
