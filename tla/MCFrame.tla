------------------------------- MODULE MCFrame -------------------------------
(* Instances of EncodeFrame for TLC.                                         *)
EXTENDS EncodeFrame
===============================================================================
