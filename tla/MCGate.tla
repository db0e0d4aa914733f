------------------------------- MODULE MCGate -------------------------------
(* Instances of StartGate for TLC: u1 owns every project, u2 is a member.   *)
EXTENDS StartGate, TLC

CONSTANTS p1, p2, u1, u2

MCOwner == [p \in Projects |-> u1]
=============================================================================
