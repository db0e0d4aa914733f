-------------------------- MODULE RecoveryContract --------------------------
(***************************************************************************)
(* What orphan recovery promises of every run, free of rows, sweeps and    *)
(* queue entries: each loss of a run is numbered when it is noticed, is    *)
(* handed back to the queue at most once, and only the first MaxRecovery   *)
(* losses of a run are handed back at all.                                 *)
(***************************************************************************)
EXTENDS Integers

CONSTANTS Runs, MaxRecovery

VARIABLES
  lost,   \* how often each run was noticed to be lost
  open,   \* the losses <<run, number>> somebody has claimed and not settled
  handed  \* the losses of each run after which it was handed back

cvars == <<lost, open, handed>>

Init ==
  /\ lost   = [r \in Runs |-> 0]
  /\ open   = {}
  /\ handed = [r \in Runs |-> {}]

\* Losses are noticed: numbered and claimed in one step.
Lose(R) ==
  /\ lost' = [r \in Runs |-> IF r \in R THEN lost[r] + 1 ELSE lost[r]]
  /\ open' = open \union {<<r, lost[r] + 1>> : r \in R}
  /\ UNCHANGED handed

HandBack(r, n) ==
  /\ <<r, n>> \in open
  /\ n <= MaxRecovery
  /\ handed' = [handed EXCEPT ![r] = @ \union {n}]
  /\ open' = open \ {<<r, n>>}
  /\ UNCHANGED lost

\* Claims are given up, or die with the process that held them.
Drop(C) ==
  /\ C \subseteq open
  /\ open' = open \ C
  /\ UNCHANGED <<lost, handed>>

Next ==
  \/ \E R \in SUBSET Runs : Lose(R)
  \/ \E c \in open : HandBack(c[1], c[2])
  \/ \E C \in SUBSET open : Drop(C)

Spec == Init /\ [][Next]_cvars
=============================================================================
