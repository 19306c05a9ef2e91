---------------------------- MODULE MCProofRouter ----------------------------
(* Instances of ProofRouter for TLC: who asks whom for what.                *)
EXTENDS ProofRouter, TLC

CONSTANTS r1, r2, c1, c2, c3

CallSymmetry == Permutations(Call)
FullSymmetry == Permutations(Call) \cup Permutations(Challenge)

(* All clocks agree. *)
NoSkew == [r \in Replica |-> 0]

AllAsks == [at : Replica, ref : Replica, challenge : Challenge]

(* The clock of r2 is one unit ahead. *)
R2Ahead == [r \in Replica |-> IF r = r2 THEN 1 ELSE 0]

(* r1 is asked for by its own clients and by those of r2. *)
AsksForOne == [at : Replica, ref : {r1}, challenge : Challenge]

(* r1 is asked for through r2 only. *)
RoutedAsks == [at : {r2}, ref : {r1}, challenge : Challenge]

=============================================================================
