------------------------------ MODULE MCReader ------------------------------
(* The reader of a member alone, for TLC: two packages of a role and one    *)
(* section.                                                                 *)
EXTENDS Reader

CONSTANTS p1, p2

Later(p, q) == p = p2 /\ q = p1
==============================================================================
