-------------------------- MODULE SessionContract --------------------------
(***************************************************************************)
(* What a Video for Windows compressor promises the host about one codec   *)
(* instance: after a message that was answered with success a session is   *)
(* running, after one that could not open it there is none; the encoder    *)
(* hardware is held exactly while one is running, and the size the next    *)
(* reply will carry was measured in it.                                    *)
(* CodecSession is shown to implement this module.                         *)
(***************************************************************************)
EXTENDS Naturals

CONSTANT MaxSize   \* bound on the size of a compressed frame

VARIABLES phase,   \* "idle" or "encoding"
          holds,   \* the encoder, its queues and buffers are held
          bytes,   \* size of the session's last compressed frame, 0 before it
          answer   \* what the host was told last

vars == <<phase, holds, bytes, answer>>

Idle == phase = "idle" /\ holds = FALSE /\ bytes = 0

Encoding == phase = "encoding" /\ holds = TRUE

Init == Idle /\ answer = "none"

\* A session is opened, whatever ran before it: it starts from nothing.
Begin == Encoding' /\ bytes' = 0 /\ answer' = "begun"

\* A session cannot be opened: none is left, not even the one before it.
Refuse == Idle' /\ answer' = "refused"

\* A frame of the running session, which goes on even if the frame failed.
Frame ==
    /\ Encoding /\ Encoding'
    /\ bytes' \in 0 .. MaxSize
    /\ answer' \in {"frame", "failed"}

\* A first frame that opens the session it belongs to.
FirstFrame ==
    /\ Idle /\ Encoding'
    /\ bytes' \in 0 .. MaxSize
    /\ answer' \in {"frame", "failed"}

\* A first frame for which no session could be opened.
FirstFrameRefused == Idle /\ Idle' /\ answer' = "failed"

End == Idle' /\ answer' = "ended"

\* The instance appears, or goes away, with a session or without.
Instance == Idle' /\ answer' = "none"

Next ==
    \/ Begin \/ Refuse
    \/ Frame \/ FirstFrame \/ FirstFrameRefused
    \/ End \/ Instance

Spec == Init /\ [][Next]_vars
=============================================================================
