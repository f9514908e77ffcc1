------------------------------ MODULE MCLoader ------------------------------
(* Instances of OveLoader for TLC.                                           *)
EXTENDS OveLoader, TLC

CONSTANTS t1, t2, t3

ThreeThreads == {t1, t2, t3}

Symmetry == Permutations(ThreeThreads)
=============================================================================
