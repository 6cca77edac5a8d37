----------------------------- MODULE MCYooKassa -----------------------------
(* Small instances of YooKassa. *)
EXTENDS YooKassa, TLC

Symmetry == Permutations(Payments) \cup Permutations(Workers)

MCRows == {[price |-> 300, days |-> 30, devices |-> 3]}

NoCustom == {}

MCOperator == {[owner |-> u, expire |-> 1, devices |-> 1] : u \in Users}

NoOperator == {}
=============================================================================
