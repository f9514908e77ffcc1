------------------------------ MODULE MCDriver ------------------------------
(* Instances of VfwDriver for TLC.                                           *)
EXTENDS VfwDriver

CONSTANTS i1, i2, i3

ThreeInstances == {i1, i2, i3}
=============================================================================
