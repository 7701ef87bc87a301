------------------------------- MODULE MCCascade -------------------------------
(* Small instances of Cascade for TLC; instances are interchangeable.      *)
EXTENDS Cascade, TLC

CONSTANTS i1, i2
MCInstances == {i1, i2}
MCLimits == {1, 2}
Interchangeable == Permutations(MCInstances)
=============================================================================
