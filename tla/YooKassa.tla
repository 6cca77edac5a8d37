------------------------------- MODULE YooKassa -----------------------------
(***************************************************************************)
(* Selling access: internal/yookassa.  A customer orders a plan of the     *)
(* catalogue or a custom offer, pays at the provider, and the provider     *)
(* calls the site's webhook until it gets a 200.  PaymentSuccess then      *)
(* records the payment (its id is the primary key) and creates or prolongs *)
(* the customer's account on the panel.  Webhook handlers of the same or   *)
(* of different payments run concurrently; each step of a handler below is *)
(* one call to the database or to the panel.                               *)
(*                                                                         *)
(* The handler answers 200 whatever PaymentSuccess returns, so a call that *)
(* fails is never tried again once that answer arrives.  The history       *)
(* variable `mishap' says which calls failed for a payment.                *)
(***************************************************************************)
EXTENDS RemnaPanel

CONSTANTS
  Payments,        \* payment ids the provider hands out
  Workers,         \* goroutines that may serve the webhook at the same time
  PlanIds,         \* ids of catalogue plans
  PlanRows,        \* what a plan may say: price, days and devices
  CustomRequests,  \* bodies of POST /yookassa/payment/create-custom
  Custom           \* the plan id of a custom offer (0 in the code)

Offer == [price : Nat, days : Nat, devices : Nat]

CustomRequest == [price : Nat, months : Nat, devices : Nat, unlimited : BOOLEAN]

\* What the customer ordered.  `offer' is what was on sale when the order was
\* made; of a catalogue plan the provider is only given the id and the price.
Order == [user : Users, plan : PlanIds \cup {Custom}, offer : Offer,
          status : {"pending", "succeeded", "canceled"}]

\* models.Payment
Row == [user : Users, plan : PlanIds \cup {Custom}, amount : Nat]

\* Calls that went wrong while a payment was handled.
Mishap == {"db", "no plan", "panel", "refused", "killed"}

ASSUME YooKassaAssumption ==
  /\ PlanRows \subseteq Offer
  /\ CustomRequests \subseteq CustomRequest
  /\ Custom \notin PlanIds
  /\ None \notin Offer /\ None \notin Order /\ None \notin Row
  /\ None \notin Payments

VARIABLES
  plans,      \* the catalogue: a row under each id, or None
  orders,     \* the provider: what each payment id stands for, or None
  payments,   \* the table of recorded payments
  acked,      \* payments whose webhook has had its 200
  worker,     \* what each webhook goroutine holds
  credits,    \* history: how often each payment has been credited
  mishap,     \* history: what went wrong for each payment
  repriced    \* history: orders whose plan was written after the sale

payVars == <<plans, orders, payments, acked, worker, credits, mishap, repriced>>

Steps == {"lookup", "plan", "insert", "find", "create", "update", "answer"}

\* PaymentSuccess's locals: `now' (line 140), the second reading of the clock
\* behind `expire' (line 158), and rUser's UUID and ExpireAt.
Busy == [pc : Steps, payment : Payments, offer : Offer \cup {None},
         now : Nat, start : Nat,
         account : Accounts \cup {None}, seen : Nat]

Idle == [pc |-> "idle"]

Handling(p) ==
  [pc |-> "lookup", payment |-> p, offer |-> None, now |-> 0, start |-> 0,
   account |-> None, seen |-> 0]

\* The catalogue, the provider, the table and the handlers hold well-formed data.
PayTypeOK ==
  /\ plans \in [PlanIds -> PlanRows \cup {None}]
  /\ orders \in [Payments -> Order \cup {None}]
  /\ payments \in [Payments -> Row \cup {None}]
  /\ acked \subseteq Payments
  /\ worker \in [Workers -> Busy \cup {Idle}]
  /\ credits \in [Payments -> Nat]
  /\ mishap \in [Payments -> SUBSET Mishap]
  /\ repriced \subseteq Payments

\* The types of the shop and of everything it stands on.
TypeOK == ServerTypeOK /\ PanelTypeOK /\ PayTypeOK

PayInit ==
  /\ plans \in [PlanIds -> PlanRows \cup {None}]
  /\ orders = [p \in Payments |-> None]
  /\ payments = [p \in Payments |-> None]
  /\ acked = {}
  /\ worker = [w \in Workers |-> Idle]
  /\ credits = [p \in Payments |-> 0]
  /\ mishap = [p \in Payments |-> {}]
  /\ repriced = {}

-----------------------------------------------------------------------------
(* Ordering and paying. *)

\* Mutant: `no limit' written as -1.
CustomOfferNoLimit(request) ==
  [price   |-> request.price,
   days    |-> request.months * 30,
   devices |-> IF request.unlimited THEN -1 ELSE request.devices]

\* A month is 30 days, and `unlimited' replaces the number of devices.
CustomOffer(request) ==
  [price   |-> request.price,
   days    |-> request.months * 30,
   devices |-> IF request.unlimited THEN 99999 ELSE request.devices]

Place(p, u, plan, offer) ==
  /\ orders[p] = None
  /\ orders' = [orders EXCEPT ![p] =
                 [user |-> u, plan |-> plan, offer |-> offer, status |-> "pending"]]
  /\ UNCHANGED <<plans, payments, acked, worker, credits, mishap, repriced>>

\* The order exists as soon as the provider has taken the request, answered or
\* not; a customer who tries again gets a new payment id.
CreatePayment(p, u, id) ==
  /\ plans[id] # None
  /\ Place(p, u, id, plans[id])

CreateCustomPayment(p, u) ==
  \E request \in CustomRequests : Place(p, u, Custom, CustomOffer(request))

Pending(p) == orders[p] # None /\ orders[p].status = "pending"

Succeeded(p) == orders[p] # None /\ orders[p].status = "succeeded"

Canceled(p) == orders[p] # None /\ orders[p].status = "canceled"

\* The customer pays, or the provider gives the payment up.
ProviderSettles(p) ==
  /\ Pending(p)
  /\ \E status \in {"succeeded", "canceled"} :
       orders' = [orders EXCEPT ![p].status = status]
  /\ UNCHANGED <<plans, payments, acked, worker, credits, mishap, repriced>>

\* An administrator adds, changes or deletes a plan: the last database call of
\* AddPlan, UpdatePlan and DeletePlanWithID.
WritePlan(id) ==
  /\ \E row \in (PlanRows \cup {None}) \ {plans[id]} :
       plans' = [plans EXCEPT ![id] = row]
  /\ repriced' = repriced \cup
       {p \in Payments : orders[p] # None /\ orders[p].plan = id}
  /\ UNCHANGED <<orders, payments, acked, worker, credits, mishap>>

-----------------------------------------------------------------------------
(* The webhook. *)

\* Any event but payment.succeeded is answered without being looked at.
IgnoreWebhook(p) ==
  /\ Canceled(p)
  /\ acked' = acked \cup {p}
  /\ UNCHANGED <<plans, orders, payments, worker, credits, mishap, repriced>>

\* The provider calls until it is answered, and may call again after that.  The
\* route is public and its handler looks at the event only: that nobody but the
\* provider calls it, and only of what was paid, is the assumption `Succeeded'.
Webhook(w, p) ==
  /\ worker[w] = Idle
  /\ Succeeded(p)
  /\ worker' = [worker EXCEPT ![w] = Handling(p)]
  /\ UNCHANGED <<plans, orders, payments, acked, credits, mishap, repriced>>

At(w, step) == worker[w].pc = step

Goto(w, step) == worker' = [worker EXCEPT ![w].pc = step]

\* PaymentSuccess returns; its locals are gone.
Finish(w) ==
  worker' = [worker EXCEPT ![w] = [Handling(worker[w].payment) EXCEPT !.pc = "answer"]]

\* PaymentSuccess returns an error, and Webhook drops it.
GiveUp(w, reason) ==
  /\ Finish(w)
  /\ mishap' = [mishap EXCEPT ![worker[w].payment] = @ \cup {reason}]

\* Mutant: the row is looked up by customer, not by payment.
RecordedForUser(p) ==
  /\ orders[p] # None
  /\ \E q \in Payments : payments[q] # None /\ payments[q].user = orders[p].user

Recorded(p) == payments[p] # None

LookupPayment(w) ==
  LET p == worker[w].payment IN
  /\ At(w, "lookup")
  /\ \/ Recorded(p) /\ Finish(w) /\ UNCHANGED mishap
     \/ ~ Recorded(p) /\ Goto(w, "plan") /\ UNCHANGED mishap
     \/ GiveUp(w, "db")
  /\ UNCHANGED <<plans, orders, payments, acked, credits, repriced>>

\* Mutant: the months of a custom offer are read as days.
SoldMonthsAsDays(order) ==
  IF order.plan = Custom
    THEN [order.offer EXCEPT !.days = @ \div 30]
    ELSE plans[order.plan]

\* A custom offer travels in the payment's metadata; a plan is read afresh.
Sold(order) == IF order.plan = Custom THEN order.offer ELSE plans[order.plan]

ReadPlan(w) ==
  LET order == orders[worker[w].payment]
  IN
  /\ At(w, "plan")
  /\ \/ /\ Sold(order) # None
        /\ worker' = [worker EXCEPT ![w].pc = "insert",
                                    ![w].offer = Sold(order),
                                    ![w].now = clock]
        /\ UNCHANGED mishap
     \/ Sold(order) = None /\ GiveUp(w, "no plan")
     \/ order.plan # Custom /\ GiveUp(w, "db")
  /\ UNCHANGED <<plans, orders, payments, acked, credits, repriced>>

\* Mutant: the table has no primary key.
NoConflict(p) == FALSE

\* The primary key refuses a second row for the same payment.
Conflict(p) == Recorded(p)

Record(w) ==
  LET p == worker[w].payment IN
  payments' = [payments EXCEPT ![p] =
    [user |-> orders[p].user, plan |-> orders[p].plan,
     amount |-> worker[w].offer.price]]

InsertPayment(w) ==
  LET p == worker[w].payment IN
  /\ At(w, "insert")
  /\ \/ /\ ~ Conflict(p)
        /\ Record(w)
        /\ worker' = [worker EXCEPT ![w].pc = "find", ![w].start = clock]
        /\ UNCHANGED mishap
     \/ Conflict(p) /\ Finish(w) /\ UNCHANGED <<payments, mishap>>
     \/ GiveUp(w, "db") /\ UNCHANGED payments
     \/ ~ Conflict(p) /\ Record(w) /\ GiveUp(w, "db")   \* committed, answer lost
  /\ UNCHANGED <<plans, orders, acked, credits, repriced>>

Buyer(w) == orders[worker[w].payment].user

\* Mutant: a customer the panel does not know is passed over in silence.
FindUserPassOver(w) ==
  /\ At(w, "find")
  /\ \/ FoundBy(Buyer(w)) = {} /\ Finish(w)
     \/ \E a \in FoundBy(Buyer(w)) :
          worker' = [worker EXCEPT ![w].pc = "update",
                                   ![w].account = a,
                                   ![w].seen = panel[a].expire]
  /\ UNCHANGED <<panelVars, plans, orders, payments, acked, credits, mishap, repriced>>

FindUser(w) ==
  /\ At(w, "find")
  /\ \/ FoundBy(Buyer(w)) = {} /\ Goto(w, "create") /\ UNCHANGED mishap
     \/ /\ \E a \in FoundBy(Buyer(w)) :
             worker' = [worker EXCEPT ![w].pc = "update",
                                      ![w].account = a,
                                      ![w].seen = panel[a].expire]
        /\ UNCHANGED mishap
     \/ GiveUp(w, "panel")
  /\ UNCHANGED <<panelVars, plans, orders, payments, acked, credits, repriced>>

Credit(w) == credits' = [credits EXCEPT ![worker[w].payment] = @ + 1]

\* Mutant: the creation is sent again when its answer is lost.
CreateUserAgain(w) ==
  LET u == Buyer(w)
      offer == worker[w].offer
  IN
  /\ At(w, "create")
  /\ \/ /\ CreateAccount(u, [owner |-> u, expire |-> worker[w].start + offer.days,
                             devices |-> offer.devices], offer.days)
        /\ Credit(w)
        /\ UNCHANGED <<worker, mishap>>
     \/ Refuses(u) /\ GiveUp(w, "refused") /\ UNCHANGED <<panelVars, credits>>
  /\ UNCHANGED <<plans, orders, payments, acked, repriced>>

\* A request the panel carried out but whose answer was lost ends the handler
\* as an answered one does.  CreateNewUser runs under the request's context, so
\* it also fails when the provider hangs up.
CreateUser(w) ==
  LET u == Buyer(w)
      offer == worker[w].offer
  IN
  /\ At(w, "create")
  /\ \/ /\ CreateAccount(u, [owner |-> u, expire |-> worker[w].start + offer.days,
                             devices |-> offer.devices], offer.days)
        /\ Credit(w)
        /\ Finish(w)
        /\ UNCHANGED mishap
     \/ Refuses(u) /\ GiveUp(w, "refused") /\ UNCHANGED <<panelVars, credits>>
     \/ GiveUp(w, "panel") /\ UNCHANGED <<panelVars, credits>>
  /\ UNCHANGED <<plans, orders, payments, acked, repriced>>

UpdateUser(w) ==
  LET h == worker[w] IN
  /\ At(w, "update")
  /\ \/ /\ ExtendAccount(h.account, NewExpire(h.seen, h.now, h.offer.days), h.offer.days)
        /\ Credit(w)
        /\ Finish(w)
        /\ UNCHANGED mishap
     \/ GiveUp(w, "panel") /\ UNCHANGED <<panelVars, credits>>
  /\ UNCHANGED <<plans, orders, payments, acked, repriced>>

\* Always 200; the provider may or may not see it.
Answer(w) ==
  /\ At(w, "answer")
  /\ worker' = [worker EXCEPT ![w] = Idle]
  /\ \/ acked' = acked \cup {worker[w].payment}
     \/ UNCHANGED acked
  /\ UNCHANGED <<plans, orders, payments, credits, mishap, repriced>>

\* Between its row and its credit a payment is in the hands of one goroutine.
Holds(w, p) ==
  /\ worker[w].pc \in {"find", "create", "update"}
  /\ worker[w].payment = p

\* The process is killed: the goroutines are gone, the database is not.
LoseWorkers ==
  /\ worker' = [w \in Workers |-> Idle]
  /\ mishap' = [p \in Payments |->
                 IF \E w \in Workers : Holds(w, p)
                   THEN mishap[p] \cup {"killed"}
                   ELSE mishap[p]]
  /\ UNCHANGED <<plans, orders, payments, acked, credits, repriced>>

-----------------------------------------------------------------------------
(* The specification. *)

Work(w) ==
  \/ (LookupPayment(w) \/ ReadPlan(w) \/ InsertPayment(w) \/ Answer(w))
       /\ UNCHANGED panelVars
  \/ FindUser(w) \/ CreateUser(w) \/ UpdateUser(w)

Shop ==
  \/ \E p \in Payments :
       \/ \E u \in Users, id \in PlanIds : CreatePayment(p, u, id)
       \/ \E u \in Users : CreateCustomPayment(p, u)
       \/ ProviderSettles(p)
       \/ IgnoreWebhook(p)
       \/ \E w \in Workers : Webhook(w, p)
  \/ \E id \in PlanIds : WritePlan(id)

PayStep ==
  /\ \/ Shop /\ UNCHANGED panelVars
     \/ \E w \in Workers : Work(w)
  /\ UNCHANGED serverVars

PayCrash == Restart /\ LoseWorkers /\ UNCHANGED panelVars

vars == <<serverVars, panelVars, payVars>>

Init == ServerInit /\ PanelInit /\ PayInit

Next ==
  \/ PayStep
  \/ PayCrash
  \/ Surroundings /\ UNCHANGED payVars

Spec == Init /\ [][Next]_vars

\* A goroutine that can take a step takes one.  Its calls to the panel end by the
\* client's timeout; those to the database have none (PaymentSuccess passes them no
\* context), and that each answers or fails is an assumption about the database.
WorkersRun == \A w \in Workers : WF_vars(Work(w) /\ UNCHANGED serverVars)

\* The provider keeps calling the webhook of a payment it has no 200 for.
Deliver(p) ==
  /\ p \notin acked
  /\ \E w \in Workers : Webhook(w, p)
  /\ UNCHANGED <<serverVars, panelVars>>

ProviderRetries == \A p \in Payments : SF_vars(Deliver(p))

FairSpec == Spec /\ WorkersRun /\ ProviderRetries

-----------------------------------------------------------------------------
(* Properties. *)

InHand(p) == \E w \in Workers : Holds(w, p)

Served(p) == \E w \in Workers : worker[w] # Idle /\ worker[w].payment = p

\* A payment gives access at most once, however often and however concurrently
\* its webhook is called and wherever the process is killed.
CreditedAtMostOnce == \A p \in Payments : credits[p] <= 1

\* A recorded payment is never looked at again (service.go:102), so one that
\* was recorded and is in no goroutine's hands has been credited, unless a call
\* after its row, or the row's own answer, failed.
LossIsExplained ==
  \A p \in Payments :
    Recorded(p) /\ credits[p] = 0 /\ ~ InHand(p)
      => mishap[p] \cap {"db", "panel", "refused", "killed"} # {}

\* Once the provider has its 200 and no handler of the payment is left, the
\* customer has the access, unless a call failed or the plan was gone.
AckedIsSettled ==
  \A p \in Payments :
    p \in acked /\ Succeeded(p) /\ ~ Served(p)
      => credits[p] = 1 \/ mishap[p] # {}

\* What is recorded, and what a handler is about to grant, is what was sold,
\* unless an administrator wrote the plan between the sale and the webhook.
SoldIsRecorded ==
  \A p \in Payments \ repriced :
    /\ Recorded(p) => payments[p].amount = orders[p].offer.price
    /\ \A w \in Workers : Holds(w, p) => worker[w].offer = orders[p].offer

\* No account outlives the later of today and what operators gave it by more
\* than the days it was granted, whatever stale expiry the handlers write back.
NoFreeTime ==
  \A a \in Accounts :
    ExpiryOf(panel[a]) <= Later(ceiling[a], clock) + granted[a]

\* The panel refuses a new account only because another payment of the same
\* customer made it after the lookup, or an operator wrote an account with the
\* customer's UUID.
RefusedIsRace ==
  \A p \in Payments :
    "refused" \in mishap[p] =>
      \/ ceiling[orders[p].user] >= 0
      \/ \E q \in Payments \ {p} : credits[q] = 1 /\ orders[q].user = orders[p].user

\* What a goroutine about to prolong account a read of it, or of the clock, is
\* out of date.
Stale(read, a) ==
  /\ read.pc = "update"
  /\ read.account = a
  /\ read.seen # panel[a].expire \/ read.now # clock

\* A grant to an account that existed gives the full term on top of what the
\* account had left, or from today if it had expired, unless somebody wrote the
\* account or the day changed since the handler that grants it looked.
FullTermUnlessStale ==
  [][\A a \in Accounts :
       Exists(a) /\ granted'[a] > granted[a]
         => \/ panel'[a].expire
                  >= Later(panel[a].expire, clock) + (granted'[a] - granted[a])
            \/ \E w \in Workers : worker'[w] # worker[w] /\ Stale(worker[w], a)]_vars

\* Every successful payment is in the end credited, or something went wrong.
Settles ==
  \A p \in Payments : Succeeded(p) ~> (credits[p] > 0 \/ mishap[p] # {})

\* support.go:37 tells customers that access is activated automatically after a
\* successful payment: once a payment is acknowledged and no handler of it is
\* left, it has been credited.
PaidIsActivated ==
  \A p \in Payments : p \in acked /\ Succeeded(p) /\ ~ Served(p) => credits[p] = 1

\* support.go:41 tells customers that the number of devices is the one in the
\* description of the plan: the account credited has the limit that was sold.
LimitIsThePlans ==
  [][\A p \in Payments :
       credits'[p] > credits[p] =>
         \E a \in Accounts :
           granted'[a] > granted[a] /\ panel'[a].devices = orders[p].offer.devices]_vars

-----------------------------------------------------------------------------
(* The ledger this implements. *)

StageOf(p) ==
  CASE credits[p] > 0                                  -> "credited"
    [] credits[p] = 0 /\ Recorded(p) /\ InHand(p)      -> "taken"
    [] credits[p] = 0 /\ Recorded(p) /\ ~ InHand(p)    -> "lost"
    [] credits[p] = 0 /\ ~ Recorded(p) /\ Succeeded(p) -> "paid"
    [] OTHER                                           -> "open"

Ledger == INSTANCE PaymentLedger
            WITH stage <- [p \in Payments |-> StageOf(p)], credits <- credits

\* A payment is taken up once and then credited once or lost for good.
LedgerSpec == Ledger!LedgerSpec

=============================================================================
