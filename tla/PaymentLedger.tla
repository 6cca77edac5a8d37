---------------------------- MODULE PaymentLedger ---------------------------
(***************************************************************************)
(* What the site promises about a payment, with no goroutines, database or *)
(* panel in sight.  A paid order is taken up once; from then on it either  *)
(* becomes access, once, or is lost, and neither is ever undone.           *)
(***************************************************************************)
EXTENDS Integers

CONSTANT Payments

VARIABLES
  stage,     \* how far each payment has come
  credits    \* how often it has been turned into access

Stage == {"open", "paid", "taken", "credited", "lost"}

LedgerInit ==
  /\ stage = [p \in Payments |-> "open"]
  /\ credits = [p \in Payments |-> 0]

Move(p, from, to) ==
  /\ stage[p] = from
  /\ stage' = [stage EXCEPT ![p] = to]

Pay(p) == Move(p, "open", "paid") /\ UNCHANGED credits

Take(p) == Move(p, "paid", "taken") /\ UNCHANGED credits

Credit(p) ==
  /\ Move(p, "taken", "credited")
  /\ credits' = [credits EXCEPT ![p] = @ + 1]

\* A kill loses every payment that is being handled at that moment.
Lose(lost) ==
  /\ \A p \in lost : stage[p] \in {"paid", "taken"}
  /\ stage' = [p \in Payments |-> IF p \in lost THEN "lost" ELSE stage[p]]
  /\ UNCHANGED credits

LedgerNext ==
  \/ \E p \in Payments : Pay(p) \/ Take(p) \/ Credit(p)
  \/ \E lost \in SUBSET Payments : Lose(lost)

ledgerVars == <<stage, credits>>

LedgerSpec == LedgerInit /\ [][LedgerNext]_ledgerVars

=============================================================================
