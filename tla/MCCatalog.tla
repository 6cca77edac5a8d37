------------------------------ MODULE MCCatalog ------------------------------
(* Small instances of PlanCatalog. *)
EXTENDS PlanCatalog

MCNewPlans ==
  {[details |-> "old", place |-> 0, active |-> flag] : flag \in BOOLEAN}

\* One field at a time: two edits meet on the same field or on two.
MCPatches == {[details |-> "new"], [place |-> 1], [active |-> FALSE]}

\* Two administrators who want the two plans the other way round.
MCArrangements == {<< <<1, 0>>, <<2, 1>> >>, << <<2, 0>>, <<1, 1>> >>}

=============================================================================
