----------------------------- MODULE MCPackage ------------------------------
(* Instances of PackageGeneration for TLC: what each job row asks for.      *)
EXTENDS PackageGeneration

CONSTANTS full, repair, one, two

MCKind == [j \in Jobs |-> IF j = full THEN "full" ELSE IF j = repair THEN "stale" ELSE "section"]
=============================================================================
