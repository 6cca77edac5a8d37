----------------------------- MODULE MCNotifier ------------------------------
(* Small instances of ExpiryNotifier. *)
EXTENDS ExpiryNotifier, TLC

Symmetry == Permutations(Jobs)

\* One expiry that passes tomorrow, one that is three days away when the clock has moved.
MCOperator == {[owner |-> u, expire |-> e, devices |-> 1] : u \in Users, e \in {0, 4}}
=============================================================================
