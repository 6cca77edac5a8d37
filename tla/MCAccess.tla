------------------------------ MODULE MCAccess -------------------------------
(* Small instances of Access. *)
EXTENDS Access

MCRows == {[price |-> 300, days |-> 30, devices |-> 3]}

MCTwoRows == MCRows \cup {[price |-> 100, days |-> 7, devices |-> 1]}

MCCustom == {[price |-> 200, months |-> 1, devices |-> 2, unlimited |-> TRUE]}

\* No rows, no requests, no accounts.
Nothing == {}

\* Access that ends today, and has ended once the clock has moved.
MCOperator == {[owner |-> u, expire |-> 0, devices |-> 2] : u \in Users}

\* Access that ends soon once the clock has moved.
MCEnding == {[owner |-> u, expire |-> 4, devices |-> 2] : u \in Users}
=============================================================================
