------------------------------- MODULE MCTrial -------------------------------
(* Small instances of Trial. *)
EXTENDS Trial, TLC

Symmetry == Permutations(TrialWorkers) \cup Permutations(Users)

MCOperator == {[owner |-> u, expire |-> 1, devices |-> 3] : u \in Users}
=============================================================================
