------------------------------ MODULE MCMacTask ------------------------------
(* Instances of MacTask for TLC.                                           *)
EXTENDS MacTask

CONSTANTS a, b, c

ThreeProfilers == {a, b, c}
TwoMayDie == {b, c}
=============================================================================
