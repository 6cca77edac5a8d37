------------------------------ MODULE MCSupport ------------------------------
(* Small instances of SupportTickets and the sign-in beside it. *)
EXTENDS SupportTickets, TLC

Symmetry ==
  Permutations(Doors) \cup Permutations(Clerks) \cup Permutations(Codes)

=============================================================================
