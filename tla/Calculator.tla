----------------------------- MODULE Calculator -----------------------------
(***************************************************************************)
(* The price of a custom offer: CalculatePlan of internal/handlers/        *)
(* plans.go.  The code computes in float64 and rounds once, at the end;    *)
(* here the same formula is computed in fractions.  They agree on every    *)
(* one of the 24 x 10 requests: the exact price lies on a half only twice  *)
(* (2 and 15 months for 6 devices, ...1.5 and ...5.5), both halves are     *)
(* floats and both sides round them up.                                    *)
(*                                                                         *)
(* A customer asks for one price after another, in any order.              *)
(***************************************************************************)
EXTENDS Integers

-----------------------------------------------------------------------------
(* The formula, in fractions with a positive denominator.                  *)

Whole(n) == [num |-> n, den |-> 1]

\* The straight line through <<d1, y1>> and <<d2, y2>>, at `days'.
Between(d1, y1, d2, y2, days) ==
  [num |-> y1 * (d2 - d1) + (y2 - y1) * (days - d1), den |-> d2 - d1]

\* Mutant: the second year is charged at the rate of one month.
knownP1Monthly(days) ==
  IF days <= 30 THEN Whole(160)
  ELSE IF days <= 60 THEN Between(30, 160, 60, 290, days)
  ELSE IF days <= 365 THEN Between(60, 290, 365, 1699, days)
  ELSE [num |-> 160 * days, den |-> 30]

\* Price of one device: known at 30, 60 and 365 days, linear between them and
\* at the rate of a year after that.
knownP1(days) ==
  IF days <= 30 THEN Whole(160)
  ELSE IF days <= 60 THEN Between(30, 160, 60, 290, days)
  ELSE IF days <= 365 THEN Between(60, 290, 365, 1699, days)
  ELSE [num |-> 1699 * days, den |-> 365]

\* Mutant: the last case is missing.
knownRatioUpToAYear(days) ==
  IF days <= 30 THEN Whole(75)
  ELSE IF days <= 60 THEN Between(30, 75, 60, 87, days)
  ELSE IF days <= 365 THEN Between(60, 87, 365, 53, days)
  ELSE Whole(0)

\* What a further device costs, in hundredths of the price of the first.
knownRatio(days) ==
  IF days <= 30 THEN Whole(75)
  ELSE IF days <= 60 THEN Between(30, 75, 60, 87, days)
  ELSE IF days <= 365 THEN Between(60, 87, 365, 53, days)
  ELSE Whole(53)

\* All the devices, in prices of the first: 1 + (devices - 1) * ratio.
AllDevices(devices, ratio) ==
  [num |-> 100 * ratio.den + (devices - 1) * ratio.num, den |-> 100 * ratio.den]

\* math.Round of a positive product, halves up: the whole part of p goes first,
\* because TLC's integers have 32 bits.
RoundedProduct(p, q) ==
  LET whole == (p.num \div p.den) * q.num
      rest  == (whole % q.den) * p.den + (p.num % p.den) * q.num
      den   == p.den * q.den
  IN  whole \div q.den + (2 * rest + den) \div (2 * den)

(***************************************************************************)
(* The handler.                                                            *)
(***************************************************************************)
VARIABLES
  request,   \* what the customer asked for last
  quote      \* and what they were answered

vars == <<request, quote>>

\* What a request may hold; `no limit' is counted as ten devices.
Asked == [months : 0 .. 25, devices : 0 .. 11, unlimited : BOOLEAN]

Counted(r) == IF r.unlimited THEN 10 ELSE r.devices

\* Anything else is answered with 400; a zero is a field that is missing.
Accepted(r) ==
  /\ r.months \in 1 .. 24
  /\ r.devices # 0
  /\ Counted(r) \in 1 .. 10

Answer(r) ==
  LET days    == r.months * 30
      rounded == RoundedProduct(knownP1(days), AllDevices(Counted(r), knownRatio(days)))
  IN  [price        |-> IF rounded < 99 THEN 99 ELSE rounded,
       durationDays |-> days,
       maxDevices   |-> IF r.unlimited THEN 99999 ELSE Counted(r)]

CalculatePlan(r) ==
  /\ Accepted(r)
  /\ request' = r
  /\ quote' = Answer(r)

OneMonth == [months |-> 1, devices |-> 1, unlimited |-> FALSE]

Init == request = OneMonth /\ quote = Answer(OneMonth)

Next == \E r \in Asked : CalculatePlan(r)

Spec == Init /\ [][Next]_vars

-----------------------------------------------------------------------------
(* Properties. *)

\* Request r asks for no less than s.
NoLess(r, s) == r.months >= s.months /\ Counted(r) >= Counted(s)

\* Whoever asks for a longer term, or for more devices, without giving anything
\* up, is asked for more money: although the share that a further device costs
\* falls with the term (knownRatio), and whatever the roundings do.
MoreCostsMore ==
  [][NoLess(request', request) /\ ~ NoLess(request, request')
       => quote'.price > quote.price]_vars

\* One order is never dearer than two that make up the same term for the same
\* devices, roundings included; only two single months are sometimes cheaper
\* than two months at once.
SplittingNeverPays ==
  request.months > 2 =>
    \A m \in 1 .. request.months - 1 :
      quote.price <= Answer([request EXCEPT !.months = m]).price
                       + Answer([request EXCEPT !.months = @ - m]).price

=============================================================================
