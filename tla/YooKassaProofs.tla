--------------------------- MODULE YooKassaProofs ---------------------------
(***************************************************************************)
(* Proofs about YooKassa, for any number of payments, goroutines, users,   *)
(* plans and operators' accounts.  Each section strengthens one property   *)
(* until it is inductive, on top of the invariants proved before it.       *)
(***************************************************************************)
EXTENDS YooKassa, PanelProofs

(***************************************************************************)
(* Type correctness.  TypeOK alone is not inductive: what a handler writes *)
(* has its type only because the handler has been through the steps that   *)
(* fill in its locals.                                                     *)
(***************************************************************************)
\* A handler past a step holds what that step filled in.
Ready(h) ==
  h # Idle =>
    /\ Succeeded(h.payment)
    /\ h.pc \in {"insert", "find", "create", "update"} => h.offer \in Offer
    /\ h.pc = "update" => h.account \in Accounts

HandlersReady == \A w \in Workers : Ready(worker[w])

TypeInv == TypeOK /\ HandlersReady

\* The initial states have the types, and no handler is at work.
LEMMA InitType == Init => TypeInv
  BY ServerAssumption, PanelAssumption, YooKassaAssumption
  DEF Init, ServerInit, PanelInit, PayInit, TypeInv, TypeOK, ServerTypeOK, PanelTypeOK,
      PayTypeOK, HandlersReady, Ready, Idle, Exists, Account

\* A goroutine that is past its webhook's arrival.
LEMMA BusyHandler ==
  ASSUME TypeInv, NEW w \in Workers, worker[w].pc # "idle"
  PROVE  /\ worker[w] \in Busy
         /\ worker[w] # Idle
         /\ worker[w].payment \in Payments
         /\ orders[worker[w].payment] \in Order
         /\ Ready(worker[w])
  BY DEF TypeInv, TypeOK, PayTypeOK, HandlersReady, Ready, Succeeded, Busy, Idle

\* One goroutine takes a step that leaves the orders alone.
LEMMA OneHandlerMoves ==
  ASSUME TypeInv, NEW w \in Workers, NEW h \in Busy \cup {Idle}, Ready(h),
         worker' = [worker EXCEPT ![w] = h], UNCHANGED orders
  PROVE  worker' \in [Workers -> Busy \cup {Idle}] /\ HandlersReady'
<1>1. worker' \in [Workers -> Busy \cup {Idle}]
  BY DEF TypeInv, TypeOK, PayTypeOK
<1>2. ASSUME NEW v \in Workers PROVE Ready(worker[v])'
  <2>1. Ready(worker'[v])
    BY DEF TypeInv, TypeOK, PayTypeOK, HandlersReady
  <2>. QED BY <2>1 DEF Ready, Succeeded
<1>. QED BY <1>1, <1>2 DEF HandlersReady

\* A handler that returns, with or without an error.
LEMMA FinishType ==
  ASSUME TypeInv, NEW w \in Workers, worker[w].pc # "idle", Finish(w), UNCHANGED orders
  PROVE  worker' \in [Workers -> Busy \cup {Idle}] /\ HandlersReady'
<1> DEFINE h == [Handling(worker[w].payment) EXCEPT !.pc = "answer"]
<1>1. h \in Busy /\ Ready(h)
  BY BusyHandler DEF Handling, Busy, Steps, Ready
<1>. QED BY <1>1, OneHandlerMoves DEF Finish

\* The same, with the reason of the error kept in mishap.
LEMMA GiveUpType ==
  ASSUME TypeInv, NEW w \in Workers, worker[w].pc # "idle", UNCHANGED orders,
         NEW reason \in Mishap, GiveUp(w, reason)
  PROVE  /\ worker' \in [Workers -> Busy \cup {Idle}]
         /\ HandlersReady'
         /\ mishap' \in [Payments -> SUBSET Mishap]
  BY FinishType, BusyHandler DEF GiveUp, TypeInv, TypeOK, PayTypeOK

\* Every step of the webhook, the shop, the panel and the clock keeps the types.
LEMMA TypeStep == TypeInv /\ [Next]_vars => TypeInv'
<1> SUFFICES ASSUME TypeInv, [Next]_vars PROVE TypeInv'
  OBVIOUS
<1> USE DEF TypeInv, TypeOK
<1>t. clock \in Nat
  BY ServerAssumption DEF ServerTypeOK
<1>s. ASSUME Shop, UNCHANGED <<serverVars, panelVars>> PROVE TypeInv'
  <2> USE DEF serverVars, panelVars, ServerTypeOK, PanelTypeOK
  <2>1. ASSUME NEW p \in Payments, NEW u \in Users, NEW plan \in PlanIds \cup {Custom},
               NEW offer \in Offer, Place(p, u, plan, offer)
        PROVE  TypeInv'
    BY <1>s, <2>1, YooKassaAssumption DEF Place, PayTypeOK, HandlersReady, Ready, Succeeded, Order
  <2>2. ASSUME NEW p \in Payments, NEW u \in Users, NEW id \in PlanIds, CreatePayment(p, u, id)
        PROVE  TypeInv'
    BY <2>1, <2>2, YooKassaAssumption DEF CreatePayment, PayTypeOK
  <2>3. ASSUME NEW p \in Payments, NEW u \in Users, CreateCustomPayment(p, u)
        PROVE  TypeInv'
    <3>1. PICK request \in CustomRequests : Place(p, u, Custom, CustomOffer(request))
      BY <2>3 DEF CreateCustomPayment
    <3>2. CustomOffer(request) \in Offer
      BY YooKassaAssumption DEF CustomOffer, CustomRequest, Offer
    <3>. QED BY <2>1, <3>1, <3>2
  <2>4. ASSUME NEW p \in Payments, ProviderSettles(p) PROVE TypeInv'
    BY <1>s, <2>4, YooKassaAssumption
    DEF ProviderSettles, Pending, PayTypeOK, HandlersReady, Ready, Succeeded, Order
  <2>5. ASSUME NEW p \in Payments, IgnoreWebhook(p) PROVE TypeInv'
    BY <1>s, <2>5 DEF IgnoreWebhook, PayTypeOK, HandlersReady, Ready, Succeeded
  <2>6. ASSUME NEW p \in Payments, NEW w \in Workers, Webhook(w, p) PROVE TypeInv'
    BY <1>s, <2>6 DEF Webhook, Handling, PayTypeOK, HandlersReady, Ready, Succeeded, Busy, Steps
  <2>7. ASSUME NEW id \in PlanIds, WritePlan(id) PROVE TypeInv'
    BY <1>s, <2>7 DEF WritePlan, PayTypeOK, HandlersReady, Ready, Succeeded
  <2>. QED BY <1>s, <2>2, <2>3, <2>4, <2>5, <2>6, <2>7 DEF Shop
<1>w. ASSUME NEW w \in Workers, Work(w), UNCHANGED serverVars PROVE TypeInv'
  <2> DEFINE h == worker[w]
  <2>k. ASSUME worker[w].pc # "idle"
        PROVE  /\ h \in Busy /\ h # Idle /\ h.payment \in Payments
               /\ orders[h.payment] \in Order /\ Ready(h)
    BY <2>k, BusyHandler
  <2>1. ASSUME LookupPayment(w), UNCHANGED panelVars PROVE TypeInv'
    <3>0. At(w, "lookup") /\ worker[w].pc # "idle"
      BY <2>1 DEF LookupPayment, At
    <3>1. /\ worker' \in [Workers -> Busy \cup {Idle}] /\ HandlersReady'
          /\ mishap' \in [Payments -> SUBSET Mishap]
      <4>1. CASE Finish(w) /\ UNCHANGED mishap
        BY <2>1, <3>0, <4>1, FinishType DEF LookupPayment, PayTypeOK
      <4>2. CASE Goto(w, "plan") /\ UNCHANGED mishap
        <5>1. [h EXCEPT !.pc = "plan"] \in Busy /\ Ready([h EXCEPT !.pc = "plan"])
          BY <3>0, <2>k DEF Busy, Steps, Ready
        <5>. QED BY <2>1, <4>2, <5>1, OneHandlerMoves DEF LookupPayment, Goto, PayTypeOK
      <4>3. CASE GiveUp(w, "db")
        BY <2>1, <3>0, <4>3, GiveUpType DEF LookupPayment, Mishap
      <4>. QED BY <2>1, <4>1, <4>2, <4>3 DEF LookupPayment
    <3>. QED
      BY <1>w, <2>1, <3>1
      DEF LookupPayment, PayTypeOK, ServerTypeOK, PanelTypeOK, serverVars, panelVars
  <2>2. ASSUME ReadPlan(w), UNCHANGED panelVars PROVE TypeInv'
    <3>0. At(w, "plan") /\ worker[w].pc # "idle"
      BY <2>2 DEF ReadPlan, At
    <3> DEFINE offer == Sold(orders[h.payment])
               g == [h EXCEPT !.pc = "insert", !.offer = offer, !.now = clock]
    <3>1. /\ worker' \in [Workers -> Busy \cup {Idle}] /\ HandlersReady'
          /\ mishap' \in [Payments -> SUBSET Mishap]
      <4>1. CASE offer # None /\ worker' = [worker EXCEPT ![w] = g] /\ UNCHANGED mishap
        <5>1. offer \in Offer
          BY <3>0, <2>k, <4>1, YooKassaAssumption DEF Sold, PayTypeOK, Order
        <5>2. g \in Busy /\ Ready(g)
          BY <1>t, <3>0, <2>k, <5>1 DEF Busy, Steps, Ready, Idle
        <5>. QED BY <2>2, <4>1, <5>2, OneHandlerMoves DEF ReadPlan, PayTypeOK
      <4>2. CASE GiveUp(w, "no plan") \/ GiveUp(w, "db")
        BY <2>2, <3>0, <4>2, GiveUpType DEF ReadPlan, Mishap
      <4>. QED BY <2>2, <4>1, <4>2 DEF ReadPlan
    <3>. QED
      BY <1>w, <2>2, <3>1
      DEF ReadPlan, PayTypeOK, ServerTypeOK, PanelTypeOK, serverVars, panelVars
  <2>3. ASSUME InsertPayment(w), UNCHANGED panelVars PROVE TypeInv'
    <3>0. At(w, "insert") /\ worker[w].pc # "idle"
      BY <2>3 DEF InsertPayment, At
    <3> DEFINE g == [h EXCEPT !.pc = "find", !.start = clock]
    <3>1. /\ worker' \in [Workers -> Busy \cup {Idle}] /\ HandlersReady'
          /\ mishap' \in [Payments -> SUBSET Mishap]
      <4>1. CASE worker' = [worker EXCEPT ![w] = g] /\ UNCHANGED mishap
        <5>1. g \in Busy /\ Ready(g)
          BY <1>t, <3>0, <2>k DEF At, Busy, Steps, Ready, Idle
        <5>. QED BY <2>3, <4>1, <5>1, OneHandlerMoves DEF InsertPayment, PayTypeOK
      <4>2. CASE Finish(w) /\ UNCHANGED mishap
        BY <2>3, <3>0, <4>2, FinishType DEF InsertPayment, PayTypeOK
      <4>3. CASE GiveUp(w, "db")
        BY <2>3, <3>0, <4>3, GiveUpType DEF InsertPayment, Mishap
      <4>. QED BY <2>3, <4>1, <4>2, <4>3 DEF InsertPayment
    <3>2. payments' \in [Payments -> Row \cup {None}]
      <4>1. CASE Record(w)
        <5>1. h.offer.price \in Nat
          BY <3>0, <2>k DEF At, Ready, Offer
        <5>. QED BY <3>0, <2>k, <4>1, <5>1 DEF Record, PayTypeOK, Row, Order
      <4>2. CASE UNCHANGED payments
        BY <4>2 DEF PayTypeOK
      <4>. QED BY <2>3, <4>1, <4>2 DEF InsertPayment
    <3>. QED
      BY <1>w, <2>3, <3>1, <3>2
      DEF InsertPayment, PayTypeOK, ServerTypeOK, PanelTypeOK, serverVars, panelVars
  <2>4. ASSUME FindUser(w) PROVE TypeInv'
    <3>0. At(w, "find") /\ worker[w].pc # "idle"
      BY <2>4 DEF FindUser, At
    <3>1. /\ worker' \in [Workers -> Busy \cup {Idle}] /\ HandlersReady'
          /\ mishap' \in [Payments -> SUBSET Mishap]
      <4>1. CASE Goto(w, "create") /\ UNCHANGED mishap
        <5>1. [h EXCEPT !.pc = "create"] \in Busy /\ Ready([h EXCEPT !.pc = "create"])
          BY <3>0, <2>k DEF At, Busy, Steps, Ready, Idle
        <5>. QED BY <2>4, <4>1, <5>1, OneHandlerMoves DEF FindUser, Goto, PayTypeOK
      <4>2. ASSUME NEW a \in FoundBy(Buyer(w)), UNCHANGED mishap,
                   worker' = [worker EXCEPT ![w].pc = "update", ![w].account = a,
                                            ![w].seen = panel[a].expire]
            PROVE  /\ worker' \in [Workers -> Busy \cup {Idle}] /\ HandlersReady'
                   /\ mishap' \in [Payments -> SUBSET Mishap]
        <5> DEFINE g == [h EXCEPT !.pc = "update", !.account = a, !.seen = panel[a].expire]
        <5>1. a \in Accounts /\ panel[a].expire \in Nat
          BY DEF FoundBy, Exists, PanelTypeOK, Account
        <5>2. g \in Busy /\ Ready(g)
          BY <3>0, <2>k, <5>1 DEF At, Busy, Steps, Ready, Idle
        <5>. QED BY <2>4, <4>2, <5>2, OneHandlerMoves DEF FindUser, PayTypeOK
      <4>3. CASE GiveUp(w, "panel")
        BY <2>4, <3>0, <4>3, GiveUpType DEF FindUser, Mishap
      <4>. QED BY <2>4, <4>1, <4>2, <4>3 DEF FindUser
    <3>. QED
      BY <1>w, <2>4, <3>1
      DEF FindUser, PayTypeOK, ServerTypeOK, PanelTypeOK, serverVars, panelVars
  <2>5. ASSUME CreateUser(w) PROVE TypeInv'
    <3>0. At(w, "create") /\ worker[w].pc # "idle"
      BY <2>5 DEF CreateUser, At
    <3>1. /\ worker' \in [Workers -> Busy \cup {Idle}] /\ HandlersReady'
          /\ mishap' \in [Payments -> SUBSET Mishap]
      <4>1. CASE Finish(w) /\ UNCHANGED mishap
        BY <2>5, <3>0, <4>1, FinishType DEF CreateUser, PayTypeOK
      <4>2. CASE GiveUp(w, "refused") \/ GiveUp(w, "panel")
        BY <2>5, <3>0, <4>2, GiveUpType DEF CreateUser, Mishap
      <4>. QED BY <2>5, <4>1, <4>2 DEF CreateUser
    <3>2. PanelTypeOK' /\ credits' \in [Payments -> Nat]
      <4>1. CASE UNCHANGED <<panelVars, credits>>
        BY <4>1 DEF panelVars, PanelTypeOK, PayTypeOK
      <4> DEFINE u == Buyer(w)
                 record == [owner |-> u, expire |-> h.start + h.offer.days,
                            devices |-> h.offer.devices]
      <4>2. CASE CreateAccount(u, record, h.offer.days) /\ Credit(w)
        <5>1. u \in Users /\ u \in Accounts
          BY <3>0, <2>k DEF Buyer, Order, Accounts
        <5>2. h.offer.days \in Nat /\ h.offer.devices \in Nat /\ h.start \in Nat
          BY <3>0, <2>k DEF At, Ready, Offer, Busy
        <5>3. record \in Account
          BY <5>1, <5>2 DEF Account
        <5>. QED
          BY <3>0, <2>k, <4>2, <5>1, <5>2, <5>3
          DEF CreateAccount, Credit, PanelTypeOK, PayTypeOK
      <4>. QED BY <2>5, <4>1, <4>2 DEF CreateUser
    <3>. QED
      BY <1>w, <2>5, <3>1, <3>2 DEF CreateUser, PayTypeOK, ServerTypeOK, serverVars
  <2>6. ASSUME UpdateUser(w) PROVE TypeInv'
    <3>0. At(w, "update") /\ worker[w].pc # "idle"
      BY <2>6 DEF UpdateUser, At
    <3>1. /\ worker' \in [Workers -> Busy \cup {Idle}] /\ HandlersReady'
          /\ mishap' \in [Payments -> SUBSET Mishap]
      <4>1. CASE Finish(w) /\ UNCHANGED mishap
        BY <2>6, <3>0, <4>1, FinishType DEF UpdateUser, PayTypeOK
      <4>2. CASE GiveUp(w, "panel")
        BY <2>6, <3>0, <4>2, GiveUpType DEF UpdateUser, Mishap
      <4>. QED BY <2>6, <4>1, <4>2 DEF UpdateUser
    <3>2. PanelTypeOK' /\ credits' \in [Payments -> Nat]
      <4>1. CASE UNCHANGED <<panelVars, credits>>
        BY <4>1 DEF panelVars, PanelTypeOK, PayTypeOK
      <4> DEFINE expire == NewExpire(h.seen, h.now, h.offer.days)
      <4>2. CASE ExtendAccount(h.account, expire, h.offer.days) /\ Credit(w)
        <5>1. h.account \in Accounts /\ h.offer.days \in Nat /\ h.seen \in Nat /\ h.now \in Nat
          BY <3>0, <2>k DEF At, Ready, Offer, Busy
        <5>2. expire \in Nat
          BY <5>1 DEF NewExpire
        <5>3. [panel[h.account] EXCEPT !.expire = expire] \in Account
          BY <4>2, <5>1, <5>2 DEF ExtendAccount, Exists, PanelTypeOK, Account
        <5>. QED
          BY <3>0, <2>k, <4>2, <5>1, <5>3
          DEF ExtendAccount, Credit, PanelTypeOK, PayTypeOK
      <4>. QED BY <2>6, <4>1, <4>2 DEF UpdateUser
    <3>. QED
      BY <1>w, <2>6, <3>1, <3>2 DEF UpdateUser, PayTypeOK, ServerTypeOK, serverVars
  <2>7. ASSUME Answer(w), UNCHANGED panelVars PROVE TypeInv'
    <3>1. worker' \in [Workers -> Busy \cup {Idle}] /\ HandlersReady'
      BY <2>7, OneHandlerMoves DEF Answer, Ready
    <3>2. acked' \subseteq Payments
      BY <2>7, <2>k DEF Answer, At, PayTypeOK
    <3>. QED
      BY <1>w, <2>7, <3>1, <3>2
      DEF Answer, PayTypeOK, ServerTypeOK, PanelTypeOK, serverVars, panelVars
  <2>. QED BY <1>w, <2>1, <2>2, <2>3, <2>4, <2>5, <2>6, <2>7 DEF Work
<1>c. CASE PayCrash
  <2>1. ServerTypeOK'
    BY <1>c, ServerAssumption DEF PayCrash, Restart, ServerTypeOK
  <2>2. worker' \in [Workers -> Busy \cup {Idle}] /\ HandlersReady'
    BY <1>c DEF PayCrash, LoseWorkers, HandlersReady, Ready
  <2>3. mishap' \in [Payments -> SUBSET Mishap]
    BY <1>c DEF PayCrash, LoseWorkers, PayTypeOK, Mishap
  <2>. QED
    BY <1>c, <2>1, <2>2, <2>3 DEF PayCrash, LoseWorkers, panelVars, PanelTypeOK, PayTypeOK
<1>e. CASE Surroundings /\ UNCHANGED payVars
  BY <1>e, SurroundingsType DEF payVars, PayTypeOK, HandlersReady, Ready, Succeeded
<1>u. CASE UNCHANGED vars
  BY <1>u DEF vars, payVars, serverVars, panelVars, ServerTypeOK, PanelTypeOK, PayTypeOK,
      HandlersReady, Ready, Succeeded
<1>. QED
  BY <1>s, <1>w, <1>c, <1>e, <1>u DEF Next, PayStep

\* Every reachable state has the types of TypeOK.
THEOREM TypeCorrect == Spec => []TypeOK
<1>1. Init => TypeInv
  BY InitType
<1>2. TypeInv /\ [Next]_vars => TypeInv'
  BY TypeStep
<1>3. TypeInv => TypeOK
  BY DEF TypeInv
<1>. QED
  BY <1>1, <1>2, <1>3, PTL DEF Spec

\* For the sections below: the strengthened form.
LEMMA TypeInvariant == Spec => []TypeInv
  BY InitType, TypeStep, PTL DEF Spec

(***************************************************************************)
(* At most one credit, and no unexplained loss.  The goroutine that wrote  *)
(* a payment's row is the only one between the row and the credit, and the *)
(* payment has not been credited while it is there; the primary key keeps  *)
(* every other goroutine out.                                              *)
(***************************************************************************)
HoldersAreExclusive ==
  \A w, v \in Workers, p \in Payments : Holds(w, p) /\ Holds(v, p) => w = v

HeldIsUncredited ==
  \A w \in Workers, p \in Payments : Holds(w, p) => Recorded(p) /\ credits[p] = 0

UnrecordedIsUncredited ==
  \A p \in Payments : ~ Recorded(p) => credits[p] = 0

LedgerInv ==
  /\ HoldersAreExclusive
  /\ HeldIsUncredited
  /\ UnrecordedIsUncredited
  /\ CreditedAtMostOnce
  /\ LossIsExplained

Holders == {"find", "create", "update"}

\* Who holds what after one goroutine moved.
LEMMA HoldersAfter ==
  ASSUME TypeInv, NEW w \in Workers, NEW h, worker' = [worker EXCEPT ![w] = h]
  PROVE  \A v \in Workers, p \in Payments :
           Holds(v, p)' <=> IF v = w THEN h.pc \in Holders /\ h.payment = p ELSE Holds(v, p)
  BY DEF TypeInv, TypeOK, PayTypeOK, Holds, Holders

\* A handler that returns holds nothing; nobody else is disturbed.
LEMMA HoldersAfterFinish ==
  ASSUME TypeInv, NEW w \in Workers, worker[w].pc # "idle", Finish(w)
  PROVE  \A v \in Workers, p \in Payments : Holds(v, p)' <=> v # w /\ Holds(v, p)
<1> DEFINE h == [Handling(worker[w].payment) EXCEPT !.pc = "answer"]
<1>1. h.pc = "answer"
  BY DEF Handling
<1>. QED BY <1>1, HoldersAfter DEF Finish, Holders

\* Steps that take nothing up and put nothing down.
LEMMA SameHolders ==
  ASSUME LedgerInv, UNCHANGED <<payments, credits>>,
         \A p \in Payments : mishap[p] \subseteq mishap'[p],
         \A v \in Workers, p \in Payments : Holds(v, p)' <=> Holds(v, p)
  PROVE  LedgerInv'
  BY DEF LedgerInv, HoldersAreExclusive, HeldIsUncredited, UnrecordedIsUncredited,
         CreditedAtMostOnce, LossIsExplained, InHand, Recorded

\* The holder of a payment returns, with a credit or with a reason.
LEMMA HolderReturns ==
  ASSUME TypeInv, LedgerInv, UNCHANGED payments,
         \A q \in Payments : mishap[q] \subseteq mishap'[q],
         NEW w \in Workers, NEW p \in Payments, Holds(w, p),
         \A v \in Workers, q \in Payments : Holds(v, q)' <=> v # w /\ Holds(v, q),
         \/ credits' = [credits EXCEPT ![p] = @ + 1]
         \/ /\ UNCHANGED credits
            /\ mishap'[p] \cap {"db", "panel", "refused", "killed"} # {}
  PROVE  LedgerInv'
<1>1. /\ credits \in [Payments -> Nat] /\ credits[p] = 0 /\ Recorded(p)
      /\ \A v \in Workers : Holds(v, p) => v = w
  BY DEF TypeInv, TypeOK, PayTypeOK, LedgerInv, HeldIsUncredited, HoldersAreExclusive
<1>2. /\ \A q \in Payments : Recorded(q)' <=> Recorded(q)
      /\ \A q \in Payments \ {p} : credits'[q] = credits[q]
      /\ \/ credits'[p] = 1
         \/ credits'[p] = 0 /\ mishap'[p] \cap {"db", "panel", "refused", "killed"} # {}
  BY <1>1 DEF Recorded
<1>3. /\ \A v \in Workers : ~ Holds(v, p)'
      /\ \A q \in Payments \ {p} : InHand(q)' => InHand(q)
      /\ \A q \in Payments \ {p} : InHand(q) => InHand(q)' \/ Holds(w, q)
  BY <1>1 DEF InHand
<1>4. \A q \in Payments : Holds(w, q) => q = p
  BY DEF Holds
<1>5. HoldersAreExclusive'
  BY DEF LedgerInv, HoldersAreExclusive
<1>6. HeldIsUncredited'
  BY <1>2, <1>3 DEF LedgerInv, HeldIsUncredited
<1>7. UnrecordedIsUncredited' /\ CreditedAtMostOnce'
  BY <1>1, <1>2 DEF LedgerInv, UnrecordedIsUncredited, CreditedAtMostOnce
<1>8. LossIsExplained'
  BY <1>2, <1>3, <1>4 DEF LedgerInv, LossIsExplained
<1>. QED BY <1>5, <1>6, <1>7, <1>8 DEF LedgerInv

\* An error of PaymentSuccess is on file afterwards.
LEMMA GiveUpGrows ==
  ASSUME TypeInv, NEW w \in Workers, NEW reason, GiveUp(w, reason),
         worker[w].payment \in Payments
  PROVE  /\ Finish(w)
         /\ reason \in mishap'[worker[w].payment]
         /\ \A p \in Payments : mishap[p] \subseteq mishap'[p]
  BY DEF GiveUp, TypeInv, TypeOK, PayTypeOK

\* Every step keeps the books: rows, holders and credits stay in agreement.
LEMMA LedgerStep == TypeInv /\ LedgerInv /\ [Next]_vars => LedgerInv'
<1> SUFFICES ASSUME TypeInv, LedgerInv, [Next]_vars PROVE LedgerInv'
  OBVIOUS
<1>0. /\ worker \in [Workers -> Busy \cup {Idle}]
      /\ mishap \in [Payments -> SUBSET Mishap]
      /\ payments \in [Payments -> Row \cup {None}]
  BY DEF TypeInv, TypeOK, PayTypeOK
<1>1. CASE UNCHANGED <<worker, payments, credits, mishap>>
  BY <1>1, SameHolders DEF Holds
<1>2. ASSUME NEW p \in Payments, NEW w \in Workers, Webhook(w, p) PROVE LedgerInv'
  BY <1>2, HoldersAfter, SameHolders DEF Webhook, Handling, Holds, Holders, Idle
<1>3. ASSUME NEW w \in Workers, LookupPayment(w) PROVE LedgerInv'
  <2>1. worker[w].pc = "lookup" /\ worker[w].payment \in Payments /\ worker[w] \in Busy
    BY <1>3, BusyHandler DEF LookupPayment, At
  <2>2. \A p \in Payments : ~ Holds(w, p) /\ mishap[p] \subseteq mishap'[p]
    BY <1>3, <2>1, GiveUpGrows DEF LookupPayment, Holds
  <2>3. CASE Finish(w)
    BY <1>3, <2>1, <2>2, <2>3, HoldersAfterFinish, SameHolders DEF LookupPayment
  <2>4. CASE Goto(w, "plan")
    <3>1. \A v \in Workers, p \in Payments : Holds(v, p)' <=> v # w /\ Holds(v, p)
      <4> DEFINE h == [worker[w] EXCEPT !.pc = "plan"]
      <4>1. worker' = [worker EXCEPT ![w] = h] /\ h.pc = "plan"
        BY <2>1, <2>4 DEF Goto, Busy
      <4>. QED BY <4>1, HoldersAfter DEF Holders
    <3>. QED BY <1>3, <2>2, <3>1, SameHolders DEF LookupPayment
  <2>. QED BY <1>3, <2>3, <2>4 DEF LookupPayment, GiveUp
<1>4. ASSUME NEW w \in Workers, ReadPlan(w) PROVE LedgerInv'
  <2>1. worker[w].pc = "plan" /\ worker[w].payment \in Payments /\ worker[w] \in Busy
    BY <1>4, BusyHandler DEF ReadPlan, At
  <2>2. \A p \in Payments : ~ Holds(w, p) /\ mishap[p] \subseteq mishap'[p]
    BY <1>4, <2>1, GiveUpGrows DEF ReadPlan, Holds
  <2>3. CASE Finish(w)
    BY <1>4, <2>1, <2>2, <2>3, HoldersAfterFinish, SameHolders DEF ReadPlan
  <2>4. CASE worker' = [worker EXCEPT ![w].pc = "insert",
                                      ![w].offer = Sold(orders[worker[w].payment]),
                                      ![w].now = clock]
    <3>1. \A v \in Workers, p \in Payments : Holds(v, p)' <=> v # w /\ Holds(v, p)
      <4> DEFINE h == [worker[w] EXCEPT !.pc = "insert", !.now = clock,
                                        !.offer = Sold(orders[worker[w].payment])]
      <4>1. worker' = [worker EXCEPT ![w] = h] /\ h.pc = "insert"
        BY <2>1, <2>4 DEF Busy
      <4>. QED BY <4>1, HoldersAfter DEF Holders
    <3>. QED BY <1>4, <2>2, <3>1, SameHolders DEF ReadPlan
  <2>. QED BY <1>4, <2>3, <2>4 DEF ReadPlan, GiveUp
<1>5. ASSUME NEW w \in Workers, InsertPayment(w) PROVE LedgerInv'
  <2>0. worker[w].pc = "insert" /\ worker[w].payment \in Payments /\ worker[w] \in Busy
    BY <1>5, BusyHandler DEF InsertPayment, At
  <2>p. PICK p \in Payments : p = worker[w].payment
    BY <2>0
  <2>1. worker[w].pc = "insert" /\ p = worker[w].payment /\ worker[w] \in Busy
    BY <2>0, <2>p
  <2>2. \A q \in Payments : ~ Holds(w, q) /\ mishap[q] \subseteq mishap'[q]
    BY <1>5, <2>1, GiveUpGrows DEF InsertPayment, Holds
  <2>3. ASSUME Finish(w)
        PROVE  \A v \in Workers, q \in Payments : Holds(v, q)' <=> Holds(v, q)
    BY <2>1, <2>2, <2>3, HoldersAfterFinish
  <2>4. CASE Finish(w) /\ UNCHANGED payments
    BY <1>5, <2>1, <2>2, <2>3, <2>4, SameHolders DEF InsertPayment
  <2>5. CASE ~ Conflict(p) /\ Record(w)
    <3>1. ~ Recorded(p) /\ credits[p] = 0 /\ \A v \in Workers : ~ Holds(v, p)
      BY <2>1, <2>5 DEF LedgerInv, HeldIsUncredited, UnrecordedIsUncredited, Conflict
    <3>2. \A q \in Payments \ {p} : Recorded(q)' <=> Recorded(q)
      BY <1>0, <2>1, <2>5 DEF Record, Recorded
    <3>3. Recorded(p)'
      <4>1. worker[w].offer.price \in Nat /\ orders[p] \in Order
        BY <2>1, BusyHandler DEF Ready, Offer
      <4>2. payments'[p] \in Row
        BY <1>0, <2>1, <2>5, <4>1 DEF Record, Row, Order
      <4>. QED BY <4>2, YooKassaAssumption DEF Recorded
    <3>4. UNCHANGED credits /\ \A q \in Payments : mishap[q] \subseteq mishap'[q]
      BY <1>5, <2>2 DEF InsertPayment
    <3>5. CASE GiveUp(w, "db")
      <4>1. \A v \in Workers, q \in Payments : Holds(v, q)' <=> Holds(v, q)
        BY <2>3, <3>5 DEF GiveUp
      <4>2. "db" \in mishap'[p]
        BY <2>1, <3>5, GiveUpGrows
      <4>3. HoldersAreExclusive' /\ HeldIsUncredited'
        BY <3>1, <3>2, <3>4, <4>1 DEF LedgerInv, HoldersAreExclusive, HeldIsUncredited
      <4>4. UnrecordedIsUncredited' /\ CreditedAtMostOnce'
        BY <3>2, <3>3, <3>4 DEF LedgerInv, UnrecordedIsUncredited, CreditedAtMostOnce
      <4>5. LossIsExplained'
        BY <3>2, <3>4, <4>1, <4>2 DEF LedgerInv, LossIsExplained, InHand
      <4>. QED BY <4>3, <4>4, <4>5 DEF LedgerInv
    <3>6. CASE worker' = [worker EXCEPT ![w].pc = "find", ![w].start = clock]
      <4> DEFINE h == [worker[w] EXCEPT !.pc = "find", !.start = clock]
      <4>1. worker' = [worker EXCEPT ![w] = h] /\ h.pc = "find" /\ h.payment = p
        BY <2>1, <3>6 DEF Busy
      <4>2. \A v \in Workers, q \in Payments :
              Holds(v, q)' <=> IF v = w THEN q = p ELSE Holds(v, q)
        BY <4>1, HoldersAfter DEF Holders
      <4>3. HoldersAreExclusive' /\ HeldIsUncredited'
        BY <3>1, <3>2, <3>3, <3>4, <4>2 DEF LedgerInv, HoldersAreExclusive, HeldIsUncredited
      <4>4. UnrecordedIsUncredited' /\ CreditedAtMostOnce'
        BY <3>2, <3>3, <3>4 DEF LedgerInv, UnrecordedIsUncredited, CreditedAtMostOnce
      <4>5. \A q \in Payments : InHand(q)' <=> q = p \/ InHand(q)
        BY <2>2, <4>2 DEF InHand
      <4>6. LossIsExplained'
        BY <3>2, <3>4, <4>5 DEF LedgerInv, LossIsExplained
      <4>. QED BY <4>3, <4>4, <4>6 DEF LedgerInv
    <3>. QED BY <1>5, <2>1, <2>5, <3>5, <3>6 DEF InsertPayment, Conflict, Recorded, Finish
  <2>. QED BY <1>5, <2>1, <2>4, <2>5 DEF InsertPayment, GiveUp
<1>6. ASSUME NEW w \in Workers, FindUser(w) PROVE LedgerInv'
  <2>1. worker[w].pc = "find" /\ worker[w].payment \in Payments /\ worker[w] \in Busy
    BY <1>6, BusyHandler DEF FindUser, At
  <2>2. Holds(w, worker[w].payment)
    BY <2>1 DEF Holds
  <2>3. CASE GiveUp(w, "panel")
    BY <1>6, <2>1, <2>2, <2>3, GiveUpGrows, HoldersAfterFinish, HolderReturns DEF FindUser
  <2>4. ASSUME NEW h, worker' = [worker EXCEPT ![w] = h], UNCHANGED mishap,
               h.payment = worker[w].payment, h.pc \in {"create", "update"}
        PROVE  LedgerInv'
    <3>1. \A v \in Workers, p \in Payments : Holds(v, p)' <=> Holds(v, p)
      BY <2>1, <2>4, HoldersAfter DEF Holders, Holds
    <3>. QED BY <1>6, <2>4, <3>1, SameHolders DEF FindUser
  <2>5. CASE Goto(w, "create") /\ UNCHANGED mishap
    BY <2>1, <2>4, <2>5 DEF Goto, Busy
  <2>6. ASSUME NEW a \in FoundBy(Buyer(w)), UNCHANGED mishap,
               worker' = [worker EXCEPT ![w].pc = "update", ![w].account = a,
                                        ![w].seen = panel[a].expire]
        PROVE  LedgerInv'
    <3> DEFINE h == [worker[w] EXCEPT !.pc = "update", !.account = a, !.seen = panel[a].expire]
    <3>1. /\ worker' = [worker EXCEPT ![w] = h]
          /\ h.pc = "update" /\ h.payment = worker[w].payment
      BY <2>1, <2>6 DEF Busy
    <3>. QED BY <2>4, <2>6, <3>1
  <2>. QED BY <1>6, <2>3, <2>5, <2>6 DEF FindUser
<1>7. ASSUME NEW w \in Workers, CreateUser(w) \/ UpdateUser(w) PROVE LedgerInv'
  <2>1. worker[w].pc \in {"create", "update"} /\ worker[w].payment \in Payments
    BY <1>7, BusyHandler DEF CreateUser, UpdateUser, At
  <2>2. Holds(w, worker[w].payment)
    BY <2>1 DEF Holds
  <2>3. CASE Finish(w) /\ UNCHANGED mishap /\ Credit(w)
    BY <1>7, <2>1, <2>2, <2>3, HoldersAfterFinish, HolderReturns
    DEF CreateUser, UpdateUser, Credit
  <2>4. ASSUME NEW reason \in {"refused", "panel"}, GiveUp(w, reason), UNCHANGED credits
        PROVE  LedgerInv'
    BY <1>7, <2>1, <2>2, <2>4, GiveUpGrows, HoldersAfterFinish, HolderReturns
    DEF CreateUser, UpdateUser
  <2>. QED BY <1>7, <2>3, <2>4 DEF CreateUser, UpdateUser
<1>9. ASSUME NEW w \in Workers, Answer(w) PROVE LedgerInv'
  BY <1>0, <1>9, HoldersAfter, SameHolders DEF Answer, At, Holds, Holders, Idle
<1>10. CASE PayCrash
  <2>1. \A v \in Workers, p \in Payments : ~ Holds(v, p)'
    BY <1>10 DEF PayCrash, LoseWorkers, Holds, Idle
  <2>2. \A p \in Payments :
          /\ mishap[p] \subseteq mishap'[p]
          /\ InHand(p) => "killed" \in mishap'[p]
    BY <1>0, <1>10 DEF PayCrash, LoseWorkers, InHand
  <2>. QED
    BY <1>10, <2>1, <2>2
    DEF PayCrash, LoseWorkers, LedgerInv, HoldersAreExclusive, HeldIsUncredited,
        UnrecordedIsUncredited, CreditedAtMostOnce, LossIsExplained, InHand, Recorded
<1>. QED
  BY <1>1, <1>2, <1>3, <1>4, <1>5, <1>6, <1>7, <1>9, <1>10
  DEF Next, PayStep, Shop, Work, CreatePayment, CreateCustomPayment, Place, ProviderSettles,
      IgnoreWebhook, WritePlan, vars, payVars

\* The books are in order in every reachable state.
LEMMA LedgerInvariant == Spec => [](TypeInv /\ LedgerInv)
<1>1. Init => LedgerInv
  BY DEF Init, PayInit, LedgerInv, HoldersAreExclusive, HeldIsUncredited,
         UnrecordedIsUncredited, CreditedAtMostOnce, LossIsExplained, Holds, Idle, Recorded
<1>. QED
  BY <1>1, LedgerStep, TypeInvariant, PTL DEF Spec

\* However often the provider calls, in however many goroutines, and wherever
\* the process is killed, a payment is credited at most once.
THEOREM AtMostOneCredit == Spec => []CreditedAtMostOnce
<1>1. LedgerInv => CreditedAtMostOnce
  BY DEF LedgerInv
<1>. QED
  BY <1>1, LedgerInvariant, PTL

\* A recorded payment that nobody is working on is credited, unless a call that
\* came after the lookup failed or the process was killed under its handler.
THEOREM NoUnexplainedLoss == Spec => []LossIsExplained
<1>1. LedgerInv => LossIsExplained
  BY DEF LedgerInv
<1>. QED
  BY <1>1, LedgerInvariant, PTL

(***************************************************************************)
(* Nothing that happened to a payment is undone: orders keep the status    *)
(* they settled in, rows stay, and a mishap is not forgotten.              *)
(***************************************************************************)
Lasting(p) ==
  /\ Recorded(p) => Recorded(p)'
  /\ Succeeded(p) => Succeeded(p)'
  /\ Canceled(p) => Canceled(p)'
  /\ mishap[p] \subseteq mishap'[p]

\* No step takes back a row, a status of the provider or a mishap.
LEMMA EverythingLasts ==
  ASSUME TypeInv, [Next]_vars
  PROVE  \A p \in Payments : Lasting(p)
<1>0. /\ orders \in [Payments -> Order \cup {None}]
      /\ payments \in [Payments -> Row \cup {None}]
      /\ mishap \in [Payments -> SUBSET Mishap]
  BY DEF TypeInv, TypeOK, PayTypeOK
<1>1. \A p \in Payments : Recorded(p) => Recorded(p)'
  <2>1. CASE UNCHANGED payments
    BY <2>1 DEF Recorded
  <2>2. ASSUME NEW w \in Workers, InsertPayment(w)
        PROVE  \A p \in Payments : Recorded(p) => Recorded(p)'
    BY <1>0, <2>1, <2>2 DEF InsertPayment, Conflict, Record, Recorded
  <2>. QED
    BY <2>1, <2>2
    DEF Next, PayStep, PayCrash, Shop, Work, CreatePayment, CreateCustomPayment, Place,
        ProviderSettles, IgnoreWebhook, Webhook, WritePlan, LookupPayment, ReadPlan, FindUser,
        CreateUser, UpdateUser, Answer, LoseWorkers, vars, payVars
<1>2. \A p \in Payments : (Succeeded(p) => Succeeded(p)') /\ (Canceled(p) => Canceled(p)')
  <2>1. CASE UNCHANGED orders
    BY <2>1 DEF Succeeded, Canceled
  <2>2. ASSUME NEW q \in Payments, NEW u, NEW plan, NEW offer, Place(q, u, plan, offer)
        PROVE  \A p \in Payments : (Succeeded(p) => Succeeded(p)') /\ (Canceled(p) => Canceled(p)')
    BY <1>0, <2>2 DEF Place, Succeeded, Canceled
  <2>3. ASSUME NEW q \in Payments, ProviderSettles(q)
        PROVE  \A p \in Payments : (Succeeded(p) => Succeeded(p)') /\ (Canceled(p) => Canceled(p)')
    <3>1. \A p \in Payments \ {q} : orders'[p] = orders[p]
      BY <1>0, <2>3 DEF ProviderSettles
    <3>2. ~ Succeeded(q) /\ ~ Canceled(q)
      BY <2>3 DEF ProviderSettles, Pending, Succeeded, Canceled
    <3>. QED BY <3>1, <3>2 DEF Succeeded, Canceled
  <2>. QED
    BY <2>1, <2>2, <2>3
    DEF Next, PayStep, PayCrash, Shop, Work, CreatePayment, CreateCustomPayment, IgnoreWebhook,
        Webhook, WritePlan, LookupPayment, ReadPlan, InsertPayment, FindUser, CreateUser,
        UpdateUser, Answer, LoseWorkers, vars, payVars
<1>3. \A p \in Payments : mishap[p] \subseteq mishap'[p]
  <2>1. CASE UNCHANGED mishap
    BY <2>1
  <2>2. ASSUME NEW w \in Workers, NEW reason, GiveUp(w, reason)
        PROVE  \A p \in Payments : mishap[p] \subseteq mishap'[p]
    BY <1>0, <2>2 DEF GiveUp
  <2>3. CASE PayCrash
    BY <1>0, <2>3 DEF PayCrash, LoseWorkers
  <2>. QED
    BY <2>1, <2>2, <2>3
    DEF Next, PayStep, Shop, Work, CreatePayment, CreateCustomPayment, Place, ProviderSettles,
        IgnoreWebhook, Webhook, WritePlan, LookupPayment, ReadPlan, InsertPayment, FindUser,
        CreateUser, UpdateUser, Answer, vars, payVars
<1>. QED BY <1>1, <1>2, <1>3 DEF Lasting

(***************************************************************************)
(* An answered payment is accounted for.  A handler reaches its answer     *)
(* with a row in the table or a mishap on file.                            *)
(***************************************************************************)
Accounted(p) == Recorded(p) \/ mishap[p] # {}

AnswersAccountFor ==
  \A w \in Workers : worker[w].pc = "answer" => Accounted(worker[w].payment)

AckedIsAccounted ==
  \A p \in acked : Canceled(p) \/ (Succeeded(p) /\ Accounted(p))

SettledInv == AnswersAccountFor /\ AckedIsAccounted

\* Every step keeps answered and acknowledged payments accounted for.
LEMMA SettledStep == TypeInv /\ LedgerInv /\ SettledInv /\ [Next]_vars => SettledInv'
<1> SUFFICES ASSUME TypeInv, LedgerInv, SettledInv, [Next]_vars PROVE SettledInv'
  OBVIOUS
<1>0. /\ worker \in [Workers -> Busy \cup {Idle}]
      /\ acked \subseteq Payments
      /\ \A p \in Payments : Lasting(p)
      /\ \A p \in Payments : Accounted(p) => Accounted(p)'
  BY EverythingLasts DEF TypeInv, TypeOK, PayTypeOK, Lasting, Accounted
<1>1. AckedIsAccounted'
  <2>1. CASE UNCHANGED acked
    BY <1>0, <2>1 DEF SettledInv, AckedIsAccounted, Lasting
  <2>2. ASSUME NEW p \in Payments, IgnoreWebhook(p) PROVE AckedIsAccounted'
    <3>1. Canceled(p) /\ acked' = acked \cup {p}
      BY <2>2 DEF IgnoreWebhook
    <3>2. \A q \in acked \cup {p} : q \in Payments /\ (Canceled(q) \/ (Succeeded(q) /\ Accounted(q)))
      <4>1. \A q \in acked : q \in Payments /\ (Canceled(q) \/ (Succeeded(q) /\ Accounted(q)))
        BY <1>0 DEF SettledInv, AckedIsAccounted
      <4>. QED BY <2>2, <3>1, <4>1
    <3>3. \A q \in acked \cup {p} : Canceled(q)' \/ (Succeeded(q)' /\ Accounted(q)')
      BY <1>0, <3>2 DEF Lasting
    <3>. QED BY <3>1, <3>3 DEF AckedIsAccounted
  <2>3. ASSUME NEW w \in Workers, Answer(w) PROVE AckedIsAccounted'
    <3>1. PICK p \in Payments : p = worker[w].payment /\ Succeeded(p) /\ Accounted(p)
      BY <2>3, BusyHandler DEF Answer, At, Ready, SettledInv, AnswersAccountFor
    <3>. QED BY <1>0, <2>3, <3>1 DEF Answer, SettledInv, AckedIsAccounted, Lasting
  <2>. QED
    BY <2>1, <2>2, <2>3
    DEF Next, PayStep, PayCrash, Shop, Work, CreatePayment, CreateCustomPayment, Place,
        ProviderSettles, Webhook, WritePlan, LookupPayment, ReadPlan, InsertPayment, FindUser,
        CreateUser, UpdateUser, LoseWorkers, vars, payVars
<1>2. AnswersAccountFor'
  <2>1. ASSUME NEW w \in Workers, NEW p \in Payments, p = worker[w].payment, Finish(w),
               Accounted(p)'
        PROVE  AnswersAccountFor'
    <3>1. worker' = [worker EXCEPT ![w] = [Handling(p) EXCEPT !.pc = "answer"]]
      BY <2>1 DEF Finish
    <3>2. worker'[w].payment = p
      BY <1>0, <3>1 DEF Handling
    <3>3. ASSUME NEW v \in Workers \ {w}, worker'[v].pc = "answer"
          PROVE  Accounted(worker[v].payment)'
      <4>1. worker'[v] = worker[v]
        BY <1>0, <3>1
      <4>2. PICK q \in Payments : q = worker[v].payment /\ Accounted(q)
        BY <3>3, <4>1, BusyHandler DEF SettledInv, AnswersAccountFor
      <4>. QED BY <1>0, <3>3, <4>1, <4>2
    <3>. QED BY <2>1, <3>2, <3>3 DEF AnswersAccountFor
  <2>2. ASSUME NEW w \in Workers, worker'[w].pc # "answer",
               \A v \in Workers \ {w} : worker'[v] = worker[v]
        PROVE  AnswersAccountFor'
    <3>1. ASSUME NEW v \in Workers, worker'[v].pc = "answer"
          PROVE  Accounted(worker[v].payment)' /\ worker'[v] = worker[v]
      <4>1. worker'[v] = worker[v]
        BY <2>2, <3>1
      <4>2. PICK q \in Payments : q = worker[v].payment /\ Accounted(q)
        BY <3>1, <4>1, BusyHandler DEF SettledInv, AnswersAccountFor
      <4>. QED BY <1>0, <3>1, <4>1, <4>2
    <3>. QED BY <3>1 DEF AnswersAccountFor
  <2>3. ASSUME NEW w \in Workers, NEW reason, GiveUp(w, reason), worker[w].payment \in Payments
        PROVE  AnswersAccountFor'
    <3>1. PICK p \in Payments : p = worker[w].payment
      BY <2>3
    <3>2. Accounted(p)'
      BY <2>3, <3>1, GiveUpGrows DEF Accounted
    <3>. QED BY <2>1, <2>3, <3>1, <3>2 DEF GiveUp
  <2>4. CASE UNCHANGED worker
    <3>1. ASSUME NEW v \in Workers, worker[v].pc = "answer"
          PROVE  Accounted(worker[v].payment)'
      <4>1. PICK q \in Payments : q = worker[v].payment /\ Accounted(q)
        BY <3>1, BusyHandler DEF SettledInv, AnswersAccountFor
      <4>. QED BY <1>0, <2>4, <4>1
    <3>. QED BY <2>4, <3>1 DEF AnswersAccountFor
  <2>5. ASSUME NEW p \in Payments, NEW w \in Workers, Webhook(w, p) PROVE AnswersAccountFor'
    BY <1>0, <2>2, <2>5 DEF Webhook, Handling
  <2>6. ASSUME NEW w \in Workers, LookupPayment(w) PROVE AnswersAccountFor'
    <3>1. worker[w] \in Busy /\ worker[w].pc = "lookup" /\ worker[w].payment \in Payments
      BY <2>6, BusyHandler DEF LookupPayment, At
    <3>2. PICK p \in Payments : p = worker[w].payment
      BY <3>1
    <3>3. CASE Recorded(p) /\ Finish(w)
      BY <1>0, <2>1, <2>6, <3>2, <3>3 DEF Accounted
    <3>4. CASE Goto(w, "plan")
      BY <1>0, <2>2, <2>6, <3>1, <3>4 DEF Goto, Busy
    <3>. QED BY <2>3, <2>6, <3>1, <3>2, <3>3, <3>4 DEF LookupPayment
  <2>7. ASSUME NEW w \in Workers, ReadPlan(w) PROVE AnswersAccountFor'
    <3>1. worker[w] \in Busy /\ worker[w].pc = "plan" /\ worker[w].payment \in Payments
      BY <2>7, BusyHandler DEF ReadPlan, At
    <3>2. CASE worker' = [worker EXCEPT ![w].pc = "insert",
                                        ![w].offer = Sold(orders[worker[w].payment]),
                                        ![w].now = clock]
      BY <1>0, <2>2, <2>7, <3>1, <3>2 DEF Busy
    <3>. QED BY <2>3, <2>7, <3>1, <3>2 DEF ReadPlan
  <2>8. ASSUME NEW w \in Workers, InsertPayment(w) PROVE AnswersAccountFor'
    <3>1. worker[w] \in Busy /\ worker[w].pc = "insert" /\ worker[w].payment \in Payments
      BY <2>8, BusyHandler DEF InsertPayment, At
    <3>2. PICK p \in Payments : p = worker[w].payment
      BY <3>1
    <3>3. CASE Conflict(p) /\ Finish(w)
      BY <1>0, <2>1, <2>8, <3>2, <3>3 DEF Conflict, Accounted
    <3>4. CASE worker' = [worker EXCEPT ![w].pc = "find", ![w].start = clock]
      BY <1>0, <2>2, <2>8, <3>1, <3>4 DEF Busy
    <3>. QED BY <2>3, <2>8, <3>1, <3>2, <3>3, <3>4 DEF InsertPayment
  <2>9. ASSUME NEW w \in Workers, FindUser(w) PROVE AnswersAccountFor'
    <3>1. worker[w] \in Busy /\ worker[w].pc = "find" /\ worker[w].payment \in Payments
      BY <2>9, BusyHandler DEF FindUser, At
    <3>2. CASE Goto(w, "create")
      BY <1>0, <2>2, <2>9, <3>1, <3>2 DEF Goto, Busy
    <3>3. ASSUME NEW a,
                 worker' = [worker EXCEPT ![w].pc = "update", ![w].account = a,
                                          ![w].seen = panel[a].expire]
          PROVE  AnswersAccountFor'
      BY <1>0, <2>2, <2>9, <3>1, <3>3 DEF Busy
    <3>. QED BY <2>3, <2>9, <3>1, <3>2, <3>3 DEF FindUser
  <2>10. ASSUME NEW w \in Workers, CreateUser(w) \/ UpdateUser(w) PROVE AnswersAccountFor'
    <3>1. worker[w].pc \in {"create", "update"} /\ worker[w].payment \in Payments
      BY <2>10, BusyHandler DEF CreateUser, UpdateUser, At
    <3>2. PICK p \in Payments : p = worker[w].payment
      BY <3>1
    <3>3. Recorded(p)
      BY <3>1, <3>2, <2>10 DEF LedgerInv, HeldIsUncredited, Holds
    <3>4. CASE Finish(w)
      BY <1>0, <2>1, <2>10, <3>2, <3>3, <3>4 DEF Accounted
    <3>. QED BY <2>3, <2>10, <3>1, <3>4 DEF CreateUser, UpdateUser
  <2>11. ASSUME NEW w \in Workers, Answer(w) PROVE AnswersAccountFor'
    BY <1>0, <2>2, <2>11 DEF Answer, Idle
  <2>12. CASE PayCrash
    BY <2>12 DEF PayCrash, LoseWorkers, AnswersAccountFor, Idle
  <2>. QED
    BY <2>4, <2>5, <2>6, <2>7, <2>8, <2>9, <2>10, <2>11, <2>12
    DEF Next, PayStep, Shop, Work, CreatePayment, CreateCustomPayment, Place, ProviderSettles,
        IgnoreWebhook, WritePlan, vars, payVars
<1>. QED BY <1>1, <1>2 DEF SettledInv

\* An answered payment that no handler holds is credited or has a mishap on file.
LEMMA SettledWhenAnswered == TypeInv /\ LedgerInv /\ SettledInv => AckedIsSettled
<1> SUFFICES ASSUME TypeInv, LedgerInv, SettledInv, NEW p \in Payments,
                    p \in acked, Succeeded(p), ~ Served(p)
             PROVE  credits[p] = 1 \/ mishap[p] # {}
  BY DEF AckedIsSettled
<1>1. Recorded(p) \/ mishap[p] # {}
  BY DEF SettledInv, AckedIsAccounted, Accounted, Canceled, Succeeded
<1>2. ~ InHand(p)
  BY DEF Served, InHand, Holds, Idle
<1>3. credits[p] = 0 \/ credits[p] = 1
  BY DEF TypeInv, TypeOK, PayTypeOK, LedgerInv, CreditedAtMostOnce
<1>. QED
  BY <1>1, <1>2, <1>3 DEF LedgerInv, LossIsExplained

\* When the provider has its 200 and no handler of the payment is left, the
\* payment has been credited or its mishap is on file.
THEOREM AckedSettled == Spec => []AckedIsSettled
<1>1. Init => SettledInv
  BY DEF Init, PayInit, SettledInv, AnswersAccountFor, AckedIsAccounted, Idle
<1>. QED
  BY <1>1, SettledWhenAnswered, SettledStep, LedgerInvariant, PTL DEF Spec

(***************************************************************************)
(* No account is given more time than was granted.  An expiry a handler    *)
(* has read, however stale, was within the bound when it was read, and the *)
(* bound never shrinks; the write adds the days to both sides.             *)
(***************************************************************************)
Bound(a) == Later(ceiling[a], clock) + granted[a]

InTime(h) ==
  /\ h.pc \in {"insert", "find", "create", "update"} => h.now <= clock
  /\ h.pc \in {"find", "create"} => h.start <= clock
  /\ h.pc = "update" => h.seen <= Bound(h.account)

TimeInv == NoFreeTime /\ \A w \in Workers : InTime(worker[w])

\* The bound is a number, no less than today and than what operators gave.
LEMMA BoundType ==
  ASSUME TypeInv, NEW a \in Accounts
  PROVE  /\ clock \in Nat /\ ceiling[a] \in Nat \cup {-1} /\ granted[a] \in Nat
         /\ Bound(a) \in Nat
         /\ clock <= Bound(a) - granted[a] /\ ceiling[a] <= Bound(a) - granted[a]
         /\ ExpiryOf(panel[a]) \in Nat
<1>1. clock \in Nat /\ ceiling[a] \in Nat \cup {-1} /\ granted[a] \in Nat
  BY ServerAssumption DEF TypeInv, TypeOK, ServerTypeOK, PanelTypeOK
<1>2. ExpiryOf(panel[a]) \in Nat
  BY DEF TypeInv, TypeOK, PanelTypeOK, ExpiryOf, Account
<1>. QED BY <1>1, <1>2 DEF Bound, Later

\* The bound of an account never shrinks.
LEMMA BoundGrows ==
  TypeInv /\ [Next]_vars => \A a \in Accounts : Bound(a) <= Bound(a)'
<1> SUFFICES ASSUME TypeInv, [Next]_vars, NEW a \in Accounts PROVE Bound(a) <= Bound(a)'
  OBVIOUS
<1>0. TypeInv' /\ PanelTypeOK /\ PanelTypeOK' /\ clock \in Nat /\ clock' \in Nat
  BY TypeStep, ServerAssumption DEF TypeInv, TypeOK, ServerTypeOK
<1>1. clock <= clock'
  BY <1>0 DEF Next, PayStep, PayCrash, Restart, Surroundings, Tick, vars, serverVars
<1>2. UNCHANGED <<granted, ceiling>> \/ Grows
  <2>1. ASSUME NEW w \in Workers, CreateUser(w) \/ UpdateUser(w)
        PROVE  UNCHANGED <<granted, ceiling>> \/ Grows
    <3>1. /\ worker[w].pc \in {"create", "update"} /\ worker[w].offer.days \in Nat
          /\ Buyer(w) \in Accounts
          /\ worker[w].pc = "update" => worker[w].account \in Accounts
      BY <2>1, BusyHandler
      DEF CreateUser, UpdateUser, At, Ready, Offer, Order, Buyer, Accounts
    <3>2. CASE UNCHANGED panelVars
      BY <3>2 DEF panelVars
    <3>3. CASE CreateUser(w)
      BY <1>0, <3>1, <3>2, <3>3, CreateGrows DEF CreateUser
    <3>4. CASE UpdateUser(w)
      BY <1>0, <3>1, <3>2, <3>4, ExtendGrows DEF UpdateUser, At
    <3>. QED BY <2>1, <3>3, <3>4
  <2>2. CASE Operator
    BY <1>0, <2>2, OperatorGrows
  <2>. QED
    BY <2>1, <2>2
    DEF Next, PayStep, PayCrash, Work, FindUser, Surroundings, panelVars, vars
<1>3. granted[a] <= granted'[a] /\ ceiling[a] <= ceiling'[a]
  BY <1>0, <1>2 DEF Grows, PanelTypeOK
<1>. QED BY <1>0, <1>1, <1>3 DEF Bound, Later, PanelTypeOK

\* What the panel's writers do to the bound and to the expiry below it.
LEMMA OperatorWithinBound ==
  ASSUME TypeInv, NoFreeTime, Operator, UNCHANGED serverVars
  PROVE  NoFreeTime' /\ \A a \in Accounts : Bound(a) <= Bound(a)'
<1> SUFFICES ASSUME NEW a \in Accounts
             PROVE  ExpiryOf(panel[a])' <= Bound(a)' /\ Bound(a) <= Bound(a)'
  BY DEF NoFreeTime, Bound
<1>0. /\ ExpiryOf(panel[a]) <= Bound(a)
      /\ clock' = clock /\ granted' = granted
      /\ panel \in [Accounts -> Account \cup {None}] /\ ceiling \in [Accounts -> Nat \cup {-1}]
  BY DEF NoFreeTime, Bound, Operator, AdminUpdateUser, AdminCreateUser, serverVars,
         TypeInv, TypeOK, PanelTypeOK
<1>1. CASE panel'[a] = panel[a] /\ ceiling'[a] = ceiling[a]
  BY <1>0, <1>1, BoundType DEF Bound
<1>2. ASSUME NEW record \in Account, panel'[a] = record,
             \/ ceiling'[a] = Later(ceiling[a], record.expire)
             \/ /\ ceiling'[a] = ceiling[a]
                /\ Exists(a) /\ record.expire = panel[a].expire
      PROVE  ExpiryOf(panel[a])' <= Bound(a)' /\ Bound(a) <= Bound(a)'
  <2>1. record.expire \in Nat /\ ExpiryOf(panel[a])' = record.expire
    BY <1>2, PanelAssumption DEF Account, ExpiryOf
  <2>2. CASE ceiling'[a] = Later(ceiling[a], record.expire)
    BY <1>0, <2>1, <2>2, BoundType DEF Bound, Later
  <2>3. CASE ceiling'[a] = ceiling[a] /\ Exists(a) /\ record.expire = panel[a].expire
    BY <1>0, <2>1, <2>3, BoundType DEF Bound, Exists, ExpiryOf
  <2>. QED BY <1>2, <2>2, <2>3
<1>3. ASSUME NEW b \in Accounts, AdminUpdateUser(b)
      PROVE  ExpiryOf(panel[a])' <= Bound(a)' /\ Bound(a) <= Bound(a)'
  <2>1. Exists(b) /\ panel[b] \in Account
    BY <1>0, <1>3 DEF AdminUpdateUser, Exists
  <2>2. PICK body \in OperatorAccounts :
          \E record \in Patched(panel[b], body) :
            /\ panel' = [panel EXCEPT ![b] = record]
            /\ ceiling' = IF record.expire = panel[b].expire
                            THEN ceiling
                            ELSE [ceiling EXCEPT ![b] = Later(@, record.expire)]
    BY <1>3 DEF AdminUpdateUser
  <2>3. PICK record \in Patched(panel[b], body) :
          /\ panel' = [panel EXCEPT ![b] = record]
          /\ ceiling' = IF record.expire = panel[b].expire
                          THEN ceiling
                          ELSE [ceiling EXCEPT ![b] = Later(@, record.expire)]
    BY <2>2
  <2>4. record \in Account
    BY <2>1, PanelAssumption DEF Patched, Account
  <2>5. CASE a # b
    BY <1>0, <1>1, <2>3, <2>5
  <2>6. CASE a = b
    BY <1>0, <1>2, <2>1, <2>3, <2>4, <2>6
  <2>. QED BY <2>5, <2>6
<1>4. ASSUME NEW b \in Accounts, AdminCreateUser(b)
      PROVE  ExpiryOf(panel[a])' <= Bound(a)' /\ Bound(a) <= Bound(a)'
  <2>1. PICK record \in OperatorAccounts :
          /\ panel' = [panel EXCEPT ![b] = record]
          /\ ceiling' = [ceiling EXCEPT ![b] = Later(@, record.expire)]
    BY <1>4 DEF AdminCreateUser
  <2>2. record \in Account
    BY PanelAssumption
  <2>3. CASE a # b
    BY <1>0, <1>1, <2>1, <2>3
  <2>4. CASE a = b
    BY <1>0, <1>2, <2>1, <2>2, <2>4
  <2>. QED BY <2>3, <2>4
<1>. QED BY <1>3, <1>4 DEF Operator

\* A handler that is left alone stays in time while the bound grows.
LEMMA InTimeLasts ==
  ASSUME TypeInv, NEW w \in Workers, InTime(worker[w]), worker'[w] = worker[w],
         clock' \in Nat, clock <= clock',
         \A a \in Accounts : Bound(a) <= Bound(a)' /\ Bound(a)' \in Nat
  PROVE  InTime(worker[w])'
<1>1. CASE worker[w].pc = "idle"
  BY <1>1 DEF InTime
<1>2. CASE worker[w].pc # "idle"
  <2>1. worker[w] \in Busy /\ Ready(worker[w]) /\ worker[w] # Idle
    BY <1>2, BusyHandler
  <2>2. worker[w].now \in Nat /\ worker[w].start \in Nat /\ worker[w].seen \in Nat /\ clock \in Nat
    BY <2>1, ServerAssumption DEF Busy, TypeInv, TypeOK, ServerTypeOK
  <2>3. CASE worker[w].pc = "update"
    <3>1. worker[w].account \in Accounts
      BY <2>1, <2>3 DEF Ready
    <3>. QED BY <2>2, <2>3, <3>1, BoundType DEF InTime
  <2>4. CASE worker[w].pc # "update"
    BY <2>2, <2>4 DEF InTime
  <2>. QED BY <2>3, <2>4
<1>. QED BY <1>1, <1>2

\* Every step keeps expiries, and the expiries handlers remember, below the bound.
LEMMA TimeStep == TypeInv /\ TimeInv /\ [Next]_vars => TimeInv'
<1> SUFFICES ASSUME TypeInv, TimeInv, [Next]_vars PROVE TimeInv'
  OBVIOUS
<1>0. /\ TypeInv' /\ NoFreeTime
      /\ \A w \in Workers : InTime(worker[w])
      /\ worker \in [Workers -> Busy \cup {Idle}]
      /\ panel \in [Accounts -> Account \cup {None}]
      /\ clock \in Nat /\ granted \in [Accounts -> Nat]
  BY TypeStep, ServerAssumption
  DEF TimeInv, TypeInv, TypeOK, ServerTypeOK, PanelTypeOK, PayTypeOK
<1>1. clock' \in Nat /\ clock <= clock' /\ \A a \in Accounts : Bound(a)' \in Nat
  <2>1. /\ clock' \in Nat
        /\ \A a \in Accounts : ceiling'[a] \in Nat \cup {-1} /\ granted'[a] \in Nat
    BY <1>0, ServerAssumption DEF TypeInv, TypeOK, ServerTypeOK, PanelTypeOK
  <2>2. clock <= clock'
    BY <1>0
    DEF Next, PayStep, PayCrash, Restart, Surroundings, Tick, vars, serverVars
  <2>. QED BY <2>1, <2>2 DEF Bound, Later
<1>2. ASSUME NEW w \in Workers, NoFreeTime', InTime(worker[w])',
             \A v \in Workers \ {w} : worker'[v] = worker[v],
             \A a \in Accounts : Bound(a) <= Bound(a)'
      PROVE  TimeInv'
  BY <1>0, <1>1, <1>2, InTimeLasts DEF TimeInv
<1>3. CASE UNCHANGED worker /\ NoFreeTime' /\ \A a \in Accounts : Bound(a) <= Bound(a)'
  BY <1>0, <1>1, <1>3, InTimeLasts DEF TimeInv
<1>4. ASSUME UNCHANGED <<serverVars, panelVars>>
      PROVE  NoFreeTime' /\ \A a \in Accounts : Bound(a) <= Bound(a)'
  BY <1>0, <1>4, BoundType DEF NoFreeTime, Bound, serverVars, panelVars
<1>5. ASSUME NEW w \in Workers, Finish(w) PROVE InTime(worker[w])'
  <2>1. worker'[w].pc = "answer"
    BY <1>0, <1>5 DEF Finish, Handling
  <2>. QED BY <2>1 DEF InTime
<1>6. ASSUME NEW w \in Workers, Work(w), UNCHANGED serverVars PROVE TimeInv'
  <2>0. /\ \A v \in Workers \ {w} : worker'[v] = worker[v]
        /\ \A step \in {"lookup", "plan", "insert", "find", "create", "update", "answer"} :
             At(w, step) => worker[w].pc # "idle"
    BY <1>0, <1>6
    DEF At, Work, LookupPayment, ReadPlan, InsertPayment, FindUser, CreateUser, UpdateUser,
        Answer, GiveUp, Finish, Goto
  <2>1. ASSUME worker[w].pc # "idle"
        PROVE  /\ worker[w] \in Busy /\ Ready(worker[w]) /\ worker[w] # Idle
               /\ worker[w].now \in Nat /\ worker[w].start \in Nat /\ worker[w].seen \in Nat
    BY <2>1, BusyHandler DEF Busy
  <2>2. ASSUME UNCHANGED panelVars, InTime(worker[w])' PROVE TimeInv'
    BY <1>2, <1>4, <1>6, <2>0, <2>2
  <2>3. CASE UNCHANGED panelVars /\ Finish(w)
    BY <1>5, <2>2, <2>3
  <2>4. CASE LookupPayment(w) /\ UNCHANGED panelVars
    <3>1. CASE Goto(w, "plan")
      BY <1>0, <2>0, <2>1, <2>2, <2>4, <3>1 DEF LookupPayment, Goto, InTime, Busy
    <3>. QED BY <2>3, <2>4, <3>1 DEF LookupPayment, GiveUp
  <2>5. CASE ReadPlan(w) /\ UNCHANGED panelVars
    <3>1. CASE worker' = [worker EXCEPT ![w].pc = "insert",
                                        ![w].offer = Sold(orders[worker[w].payment]),
                                        ![w].now = clock]
      <4>1. worker'[w].pc = "insert" /\ worker'[w].now = clock /\ clock' = clock
        BY <1>0, <1>6, <2>0, <2>1, <2>5, <3>1 DEF ReadPlan, Busy, serverVars
      <4>. QED BY <1>0, <2>2, <2>5, <4>1 DEF InTime
    <3>. QED BY <2>3, <2>5, <3>1 DEF ReadPlan, GiveUp
  <2>6. CASE InsertPayment(w) /\ UNCHANGED panelVars
    <3>1. CASE worker' = [worker EXCEPT ![w].pc = "find", ![w].start = clock]
      <4>1. /\ worker'[w].pc = "find" /\ worker'[w].start = clock /\ clock' = clock
            /\ worker'[w].now = worker[w].now /\ worker[w].now <= clock
        BY <1>0, <1>6, <2>0, <2>1, <2>6, <3>1 DEF InsertPayment, At, InTime, Busy, serverVars
      <4>. QED BY <1>0, <2>2, <2>6, <4>1 DEF InTime
    <3>. QED BY <2>3, <2>6, <3>1 DEF InsertPayment, GiveUp
  <2>7. CASE FindUser(w)
    <3>1. CASE Goto(w, "create")
      <4>1. /\ worker'[w].pc = "create" /\ clock' = clock
            /\ worker'[w].start = worker[w].start /\ worker[w].start <= clock
            /\ worker'[w].now = worker[w].now /\ worker[w].now <= clock
        BY <1>0, <1>6, <2>0, <2>1, <2>7, <3>1 DEF FindUser, Goto, At, InTime, Busy, serverVars
      <4>. QED BY <1>0, <2>2, <2>7, <4>1 DEF InTime, FindUser
    <3>2. ASSUME NEW a \in FoundBy(Buyer(w)),
                 worker' = [worker EXCEPT ![w].pc = "update", ![w].account = a,
                                          ![w].seen = panel[a].expire]
          PROVE  TimeInv'
      <4>1. a \in Accounts /\ ExpiryOf(panel[a]) = panel[a].expire
        BY DEF FoundBy, Exists, ExpiryOf
      <4>2. /\ worker'[w].pc = "update" /\ worker'[w].account = a /\ clock' = clock
            /\ worker'[w].seen = panel[a].expire
            /\ worker'[w].now = worker[w].now /\ worker[w].now <= clock
        BY <1>0, <1>6, <2>0, <2>1, <2>7, <3>2 DEF FindUser, At, InTime, Busy, serverVars
      <4>3. panel[a].expire <= Bound(a)'
        BY <1>0, <1>6, <2>7, <4>1 DEF NoFreeTime, Bound, FindUser, panelVars, serverVars
      <4>. QED BY <1>0, <2>2, <2>7, <4>2, <4>3 DEF InTime, FindUser
    <3>. QED BY <2>3, <2>7, <3>1, <3>2 DEF FindUser, GiveUp
  <2>8. ASSUME NEW a \in Accounts, NEW days \in Nat, NEW expire \in Nat,
               expire <= Bound(a) + days, Finish(w),
               granted' = [granted EXCEPT ![a] = @ + days], UNCHANGED ceiling,
               panel'[a] # None, panel'[a].expire = expire,
               \A b \in Accounts \ {a} : panel'[b] = panel[b]
        PROVE  TimeInv'
    <3>1. /\ clock' = clock
          /\ Bound(a)' = Bound(a) + days
          /\ \A b \in Accounts \ {a} : Bound(b)' = Bound(b)
      BY <1>0, <1>6, <2>8, BoundType DEF Bound, Later, serverVars
    <3>2. NoFreeTime'
      <4>1. ExpiryOf(panel[a])' <= Bound(a)'
        BY <2>8, <3>1 DEF ExpiryOf
      <4>2. ASSUME NEW b \in Accounts \ {a} PROVE ExpiryOf(panel[b])' <= Bound(b)'
        <5>1. ExpiryOf(panel[b]) <= Bound(b)
          BY <1>0 DEF NoFreeTime, Bound
        <5>2. ExpiryOf(panel[b])' = ExpiryOf(panel[b])
          BY <2>8 DEF ExpiryOf
        <5>. QED BY <3>1, <5>1, <5>2
      <4>. QED BY <4>1, <4>2 DEF NoFreeTime, Bound
    <3>3. \A b \in Accounts : Bound(b) <= Bound(b)'
      BY <2>8, <3>1, BoundType
    <3>. QED BY <1>2, <1>5, <2>0, <2>8, <3>2, <3>3
  <2>9. CASE CreateUser(w)
    <3>1. /\ worker[w].pc = "create" /\ worker[w].pc # "idle"
          /\ Buyer(w) \in Accounts /\ worker[w].offer.days \in Nat
          /\ worker[w].start <= clock
      BY <1>0, <2>0, <2>9, BusyHandler
      DEF CreateUser, At, Ready, Offer, Order, Buyer, Accounts, InTime
    <3> DEFINE h == worker[w]
               u == Buyer(w)
               record == [owner |-> u, expire |-> h.start + h.offer.days,
                          devices |-> h.offer.devices]
    <3>2. CASE CreateAccount(u, record, h.offer.days) /\ Finish(w)
      <4>1. /\ panel'[u] = record /\ \A b \in Accounts \ {u} : panel'[b] = panel[b]
            /\ granted' = [granted EXCEPT ![u] = @ + h.offer.days] /\ UNCHANGED ceiling
        BY <1>0, <3>1, <3>2 DEF CreateAccount
      <4>2. panel'[u] # None
        BY <1>0, <3>1, <3>2, <4>1, BusyHandler, PanelAssumption
        DEF Ready, Offer, Busy, Account, Order, Buyer
      <4>3. h.start + h.offer.days \in Nat /\ h.start + h.offer.days <= Bound(u) + h.offer.days
        BY <2>1, <3>1, BoundType
      <4>4. panel'[u].expire = h.start + h.offer.days
        BY <4>1
      <4>. QED BY <2>8, <3>1, <3>2, <4>1, <4>2, <4>3, <4>4
    <3>. QED BY <2>3, <2>9, <3>2 DEF CreateUser, GiveUp
  <2>10. CASE UpdateUser(w)
    <3>1. /\ worker[w].pc = "update" /\ worker[w].pc # "idle"
          /\ worker[w].account \in Accounts /\ worker[w].offer.days \in Nat
          /\ worker[w].now <= clock /\ worker[w].seen <= Bound(worker[w].account)
      BY <1>0, <2>0, <2>10, BusyHandler DEF UpdateUser, At, Ready, Offer, InTime
    <3> DEFINE h == worker[w]
               a == h.account
               expire == NewExpire(h.seen, h.now, h.offer.days)
    <3>2. CASE ExtendAccount(a, expire, h.offer.days) /\ Finish(w)
      <4>1. panel[a] \in Account /\ [panel[a] EXCEPT !.expire = expire].expire = expire
        BY <1>0, <3>1, <3>2 DEF ExtendAccount, Exists, Account
      <4>2. expire \in Nat /\ expire <= Bound(a) + h.offer.days
        BY <1>0, <2>1, <3>1, BoundType DEF NewExpire
      <4>3. [panel[a] EXCEPT !.expire = expire] # None
        BY <4>1, <4>2, PanelAssumption DEF Account
      <4>4. /\ panel'[a] = [panel[a] EXCEPT !.expire = expire]
            /\ \A b \in Accounts \ {a} : panel'[b] = panel[b]
            /\ granted' = [granted EXCEPT ![a] = @ + h.offer.days] /\ UNCHANGED ceiling
        BY <1>0, <3>1, <3>2 DEF ExtendAccount
      <4>. QED BY <2>8, <3>1, <3>2, <4>1, <4>2, <4>3, <4>4
    <3>. QED BY <2>3, <2>10, <3>2 DEF UpdateUser, GiveUp
  <2>11. CASE Answer(w) /\ UNCHANGED panelVars
    BY <1>0, <2>2, <2>11 DEF Answer, InTime, Idle
  <2>. QED BY <1>6, <2>4, <2>5, <2>6, <2>7, <2>9, <2>10, <2>11 DEF Work
<1>7. ASSUME NEW p \in Payments, NEW w \in Workers, Webhook(w, p),
             UNCHANGED <<serverVars, panelVars>>
      PROVE  TimeInv'
  <2>1. worker'[w].pc = "lookup" /\ \A v \in Workers \ {w} : worker'[v] = worker[v]
    BY <1>0, <1>7 DEF Webhook, Handling
  <2>. QED BY <1>2, <1>4, <1>7, <2>1 DEF InTime
<1>8. CASE PayCrash
  <2>1. UNCHANGED clock /\ NoFreeTime'
    BY <1>0, <1>8 DEF PayCrash, Restart, panelVars, NoFreeTime
  <2>. QED BY <1>8, <2>1 DEF PayCrash, LoseWorkers, TimeInv, InTime, Idle
<1>9. CASE Surroundings /\ UNCHANGED payVars
  <2>1. CASE Tick /\ UNCHANGED panelVars
    <3>1. \A a \in Accounts : Bound(a) <= Bound(a)'
      BY <1>0, <1>1, <2>1, BoundType DEF Bound, Later, panelVars
    <3>2. NoFreeTime'
      <4>1. ASSUME NEW a \in Accounts PROVE ExpiryOf(panel[a])' <= Bound(a)'
        <5>1. ExpiryOf(panel[a]) <= Bound(a) /\ ExpiryOf(panel[a])' = ExpiryOf(panel[a])
          BY <1>0, <2>1 DEF NoFreeTime, Bound, panelVars, ExpiryOf
        <5>. QED BY <1>1, <3>1, <5>1, BoundType
      <4>. QED BY <4>1 DEF NoFreeTime, Bound
    <3>. QED BY <1>3, <1>9, <3>1, <3>2 DEF payVars
  <2>2. CASE Operator /\ UNCHANGED serverVars
    BY <1>0, <1>3, <1>9, <2>2, OperatorWithinBound DEF payVars
  <2>. QED BY <1>9, <2>1, <2>2 DEF Surroundings
<1>10. CASE UNCHANGED <<serverVars, panelVars, worker>>
  BY <1>3, <1>4, <1>10
<1>. QED
  BY <1>6, <1>7, <1>8, <1>9, <1>10
  DEF Next, PayStep, Shop, CreatePayment, CreateCustomPayment, Place, ProviderSettles,
      IgnoreWebhook, WritePlan, vars, payVars

\* Whatever the interleaving of payments, operators and time, an account never
\* gets more days than it was granted on top of what operators gave it.
THEOREM NoTimeForFree == Spec => []NoFreeTime
<1>1. Init => TimeInv
  <2> SUFFICES ASSUME Init PROVE TimeInv
    OBVIOUS
  <2>1. \A w \in Workers : InTime(worker[w])
    BY DEF Init, PayInit, InTime, Idle
  <2>2. ASSUME NEW a \in Accounts PROVE ExpiryOf(panel[a]) <= Later(ceiling[a], clock) + granted[a]
    <3>1. granted[a] = 0 /\ clock = 0 /\ ceiling[a] \in {ExpiryOf(panel[a]), -1}
      BY DEF Init, PanelInit, ServerInit, Exists, ExpiryOf
    <3>2. ExpiryOf(panel[a]) \in Nat /\ (ceiling[a] = -1 => ExpiryOf(panel[a]) = 0)
      BY InitType, BoundType DEF Init, PanelInit, Exists, ExpiryOf
    <3>. QED BY <3>1, <3>2 DEF Later
  <2>. QED BY <2>1, <2>2 DEF TimeInv, NoFreeTime
<1>2. TimeInv => NoFreeTime
  BY DEF TimeInv
<1>. QED
  BY <1>1, <1>2, TimeStep, TypeInvariant, PTL DEF Spec

(***************************************************************************)
(* The handlers implement the ledger of payments.  A step of the site      *)
(* changes the stage of at most one payment, except for a kill, which      *)
(* loses every payment that is in a goroutine's hands.                     *)
(***************************************************************************)
Stages == [p \in Payments |-> StageOf(p)]

\* What the stage of a payment is read off from, before and after a step.
Unmoved(p) ==
  /\ credits'[p] = credits[p]
  /\ Recorded(p)' <=> Recorded(p)
  /\ InHand(p)' <=> InHand(p)
  /\ Succeeded(p)' <=> Succeeded(p)

\* A payment none of whose facts change stays at its stage.
LEMMA UnmovedStage ==
  ASSUME NEW p \in Payments, Unmoved(p)
  PROVE  StageOf(p)' = StageOf(p)
  BY DEF Unmoved, StageOf

\* The stage of a payment, fact by fact.
LEMMA StageValues ==
  ASSUME TypeInv, NEW p \in Payments
  PROVE  /\ credits[p] = 0 /\ Recorded(p) /\ InHand(p) => StageOf(p) = "taken"
         /\ credits[p] = 0 /\ ~ Recorded(p) /\ Succeeded(p) => StageOf(p) = "paid"
         /\ credits[p] = 0 /\ ~ Recorded(p) /\ ~ Succeeded(p) => StageOf(p) = "open"
  BY DEF StageOf

\* The same after a step.
LEMMA NextStageValues ==
  ASSUME NEW p \in Payments
  PROVE  /\ credits'[p] = 0 /\ Recorded(p)' /\ InHand(p)' => StageOf(p)' = "taken"
         /\ credits'[p] = 0 /\ Recorded(p)' /\ ~ InHand(p)' => StageOf(p)' = "lost"
         /\ credits'[p] = 0 /\ ~ Recorded(p)' /\ Succeeded(p)' => StageOf(p)' = "paid"
         /\ credits'[p] = 1 => StageOf(p)' = "credited"
  BY DEF StageOf

\* When no payment moves, the ledger does not.
LEMMA StagesStutter ==
  ASSUME \A p \in Payments : Unmoved(p), UNCHANGED credits
  PROVE  UNCHANGED Ledger!ledgerVars
  BY UnmovedStage DEF Ledger!ledgerVars

\* A step that moves the stage of p, and of p alone.
LEMMA StagesMove ==
  ASSUME NEW p \in Payments, \A q \in Payments \ {p} : Unmoved(q),
         NEW from, NEW to, StageOf(p) = from, StageOf(p)' = to
  PROVE  /\ Stages[p] = from
         /\ Stages' = [Stages EXCEPT ![p] = to]
  BY UnmovedStage DEF Stages

\* Every step of the webhook, the shop, the panel and the clock is a step of the
\* ledger or leaves it as it is.
LEMMA StageStep ==
  TypeInv /\ LedgerInv /\ [Next]_vars => [Ledger!LedgerNext]_(Ledger!ledgerVars)
<1> SUFFICES ASSUME TypeInv, LedgerInv, [Next]_vars
             PROVE  Ledger!LedgerNext \/ UNCHANGED Ledger!ledgerVars
  OBVIOUS
<1>0. /\ TypeInv' /\ LedgerInv'
      /\ worker \in [Workers -> Busy \cup {Idle}]
      /\ credits \in [Payments -> Nat]
      /\ payments \in [Payments -> Row \cup {None}]
      /\ orders \in [Payments -> Order \cup {None}]
  BY TypeStep, LedgerStep DEF TypeInv, TypeOK, PayTypeOK
<1>1. CASE UNCHANGED <<orders, payments, credits, worker>>
  <2>1. \A p \in Payments : Unmoved(p)
    BY <1>1 DEF Unmoved, Recorded, InHand, Holds, Succeeded
  <2>. QED BY <1>1, <2>1, StagesStutter
<1>2. ASSUME NEW p \in Payments, NEW u, NEW plan, NEW offer, Place(p, u, plan, offer)
      PROVE  UNCHANGED Ledger!ledgerVars
  <2>1. \A q \in Payments : Unmoved(q)
    BY <1>0, <1>2 DEF Place, Unmoved, Recorded, InHand, Holds, Succeeded
  <2>. QED BY <1>2, <2>1, StagesStutter DEF Place
<1>3. ASSUME NEW p \in Payments, ProviderSettles(p)
      PROVE  Ledger!LedgerNext \/ UNCHANGED Ledger!ledgerVars
  <2>1. /\ \A q \in Payments \ {p} : Unmoved(q)
        /\ credits' = credits /\ (Recorded(p)' <=> Recorded(p)) /\ (InHand(p)' <=> InHand(p))
        /\ ~ Succeeded(p)
    BY <1>0, <1>3
    DEF ProviderSettles, Pending, Unmoved, Recorded, InHand, Holds, Succeeded
  <2>2. CASE Unmoved(p)
    BY <2>1, <2>2, StagesStutter
  <2>3. CASE StageOf(p)' = StageOf(p)
    <3>1. \A q \in Payments : StageOf(q)' = StageOf(q)
      BY <2>1, <2>3, UnmovedStage
    <3>. QED BY <2>1, <3>1 DEF Ledger!ledgerVars
  <2>4. CASE Succeeded(p)' /\ StageOf(p)' # StageOf(p)
    <3>1. credits[p] = 0 /\ ~ Recorded(p)
      BY <2>1, <2>4 DEF StageOf
    <3>2. StageOf(p) = "open" /\ StageOf(p)' = "paid"
      BY <2>1, <2>4, <3>1, StageValues, NextStageValues
    <3>3. Stages[p] = "open" /\ Stages' = [Stages EXCEPT ![p] = "paid"]
      BY <2>1, <3>2, StagesMove
    <3>. QED BY <2>1, <3>3 DEF Ledger!LedgerNext, Ledger!Pay, Ledger!Move, Stages
  <2>. QED BY <2>1, <2>2, <2>3, <2>4 DEF Unmoved
\* A goroutine that holds nothing before and nothing after.
<1>a. ASSUME NEW w \in Workers, UNCHANGED <<orders, payments, credits>>,
             worker[w].pc \notin Holders, worker'[w].pc \notin Holders,
             \A v \in Workers \ {w} : worker'[v] = worker[v]
      PROVE  UNCHANGED Ledger!ledgerVars
  <2>1. \A v \in Workers, q \in Payments : Holds(v, q)' <=> Holds(v, q)
    BY <1>a DEF Holds, Holders
  <2>2. \A q \in Payments : Unmoved(q)
    BY <1>a, <2>1 DEF Unmoved, Recorded, InHand, Succeeded
  <2>. QED BY <1>a, <2>2, StagesStutter
<1>4. ASSUME NEW p \in Payments, NEW w \in Workers, Webhook(w, p)
      PROVE  UNCHANGED Ledger!ledgerVars
  BY <1>0, <1>4, <1>a DEF Webhook, Handling, Idle, Holders
<1>b. ASSUME NEW w \in Workers, Finish(w), worker[w].pc \notin Holders,
             UNCHANGED <<orders, payments, credits>>
      PROVE  UNCHANGED Ledger!ledgerVars
  BY <1>0, <1>a, <1>b DEF Finish, Handling, Holders
<1>5. ASSUME NEW w \in Workers, LookupPayment(w) \/ ReadPlan(w) \/ Answer(w)
      PROVE  UNCHANGED Ledger!ledgerVars
  <2>1. /\ worker[w].pc \in {"lookup", "plan", "answer"} /\ worker[w] \in Busy
        /\ UNCHANGED <<orders, payments, credits>>
    BY <1>5, BusyHandler DEF LookupPayment, ReadPlan, Answer, At
  <2>2. CASE Finish(w)
    BY <1>5, <1>b, <2>1, <2>2 DEF Holders
  <2>3. CASE Goto(w, "plan")
    BY <1>0, <1>5, <1>a, <2>1, <2>3 DEF Goto, Busy, Holders
  <2>4. CASE worker' = [worker EXCEPT ![w].pc = "insert",
                                      ![w].offer = Sold(orders[worker[w].payment]),
                                      ![w].now = clock]
    BY <1>0, <1>5, <1>a, <2>1, <2>4 DEF Busy, Holders
  <2>5. CASE worker' = [worker EXCEPT ![w] = Idle]
    BY <1>0, <1>5, <1>a, <2>1, <2>5 DEF Idle, Holders
  <2>. QED BY <1>5, <2>2, <2>3, <2>4, <2>5 DEF LookupPayment, ReadPlan, Answer, GiveUp
\* The holder of p drops it.
<1>c. ASSUME NEW p \in Payments, \A q \in Payments \ {p} : Unmoved(q),
             StageOf(p) \in {"paid", "taken"}, StageOf(p)' = "lost", UNCHANGED credits
      PROVE  Ledger!LedgerNext
  <2>1. Stages[p] \in {"paid", "taken"} /\ Stages' = [Stages EXCEPT ![p] = "lost"]
    BY <1>c, StagesMove
  <2>2. Stages' = [q \in Payments |-> IF q \in {p} THEN "lost" ELSE Stages[q]]
    BY <2>1 DEF Stages
  <2>. QED BY <1>c, <2>1, <2>2 DEF Ledger!LedgerNext, Ledger!Lose, Stages
<1>6. ASSUME NEW w \in Workers, InsertPayment(w)
      PROVE  Ledger!LedgerNext \/ UNCHANGED Ledger!ledgerVars
  <2>1. PICK p \in Payments :
          /\ p = worker[w].payment /\ worker[w].pc = "insert" /\ worker[w] \in Busy
          /\ Succeeded(p) /\ orders[p] \in Order /\ worker[w].offer.price \in Nat
    BY <1>6, BusyHandler DEF InsertPayment, At, Ready, Offer
  <2>2. UNCHANGED <<orders, credits>>
    BY <1>6 DEF InsertPayment
  <2>3. CASE Finish(w) /\ UNCHANGED payments
    BY <1>6, <1>b, <2>1, <2>2, <2>3 DEF Holders
  <2>4. CASE ~ Conflict(p) /\ Record(w)
    <3>1. ~ Recorded(p) /\ credits[p] = 0 /\ \A v \in Workers : ~ Holds(v, p)
      BY <2>4 DEF LedgerInv, HeldIsUncredited, UnrecordedIsUncredited, Conflict
    <3>2. Recorded(p)' /\ \A q \in Payments \ {p} : Recorded(q)' <=> Recorded(q)
      BY <1>0, <2>1, <2>4, YooKassaAssumption DEF Record, Recorded, Row, Order
    <3>3. StageOf(p) = "paid"
      BY <2>1, <3>1, StageValues
    <3>4. \A q \in Payments : ~ Holds(w, q)
      BY <2>1 DEF Holds
    <3>5. CASE Finish(w)
      <4>1. \A v \in Workers, q \in Payments : Holds(v, q)' <=> Holds(v, q)
        BY <2>1, <3>4, <3>5, HoldersAfterFinish
      <4>2. \A q \in Payments \ {p} : Unmoved(q)
        BY <2>2, <3>2, <4>1 DEF Unmoved, InHand, Succeeded
      <4>3. StageOf(p)' = "lost"
        BY <2>2, <3>1, <3>2, <4>1, NextStageValues DEF InHand
      <4>. QED BY <1>c, <2>2, <3>3, <4>2, <4>3
    <3>6. CASE worker' = [worker EXCEPT ![w].pc = "find", ![w].start = clock]
      <4> DEFINE h == [worker[w] EXCEPT !.pc = "find", !.start = clock]
      <4>1. worker' = [worker EXCEPT ![w] = h] /\ h.pc = "find" /\ h.payment = p
        BY <2>1, <3>6 DEF Busy
      <4>2. \A v \in Workers, q \in Payments :
              Holds(v, q)' <=> IF v = w THEN q = p ELSE Holds(v, q)
        BY <4>1, HoldersAfter DEF Holders
      <4>3. \A q \in Payments \ {p} : Unmoved(q)
        BY <2>2, <3>2, <3>4, <4>2 DEF Unmoved, InHand, Succeeded
      <4>4. StageOf(p)' = "taken"
        BY <2>2, <3>1, <3>2, <4>2, NextStageValues DEF InHand
      <4>5. Stages[p] = "paid" /\ Stages' = [Stages EXCEPT ![p] = "taken"]
        BY <3>3, <4>3, <4>4, StagesMove
      <4>. QED BY <2>2, <4>5 DEF Ledger!LedgerNext, Ledger!Take, Ledger!Move, Stages
    <3>. QED BY <1>6, <2>1, <2>4, <3>5, <3>6 DEF InsertPayment, GiveUp, Conflict
  <2>. QED BY <1>6, <2>1, <2>3, <2>4 DEF InsertPayment, GiveUp
\* The holder of p returns: p is no longer in hand, and nothing else moves.
<1>d. ASSUME NEW w \in Workers, NEW p \in Payments, p = worker[w].payment,
             worker[w].pc \in Holders, Finish(w), UNCHANGED <<orders, payments>>,
             \A q \in Payments \ {p} : credits'[q] = credits[q]
      PROVE  /\ credits[p] = 0 /\ Recorded(p)' /\ StageOf(p) = "taken" /\ ~ InHand(p)'
             /\ \A q \in Payments \ {p} : Unmoved(q)
  <2>1. \A v \in Workers, q \in Payments : Holds(v, q)' <=> v # w /\ Holds(v, q)
    BY <1>d, HoldersAfterFinish DEF Holders
  <2>2. Holds(w, p) /\ \A q \in Payments \ {p} : ~ Holds(w, q)
    BY <1>d DEF Holds, Holders
  <2>3. credits[p] = 0 /\ Recorded(p) /\ InHand(p) /\ \A v \in Workers : Holds(v, p) => v = w
    BY <2>2 DEF LedgerInv, HeldIsUncredited, HoldersAreExclusive, InHand
  <2>4. Recorded(p)' /\ ~ InHand(p)' /\ StageOf(p) = "taken"
    BY <1>d, <2>1, <2>3, StageValues DEF InHand, Recorded
  <2>5. \A q \in Payments \ {p} : Unmoved(q)
    BY <1>d, <2>1, <2>2 DEF Unmoved, InHand, Recorded, Succeeded
  <2>. QED BY <2>3, <2>4, <2>5
<1>e. ASSUME NEW w \in Workers, worker[w].pc \in Holders, Finish(w),
             UNCHANGED <<orders, payments, credits>>
      PROVE  Ledger!LedgerNext
  <2>1. PICK p \in Payments : p = worker[w].payment
    BY <1>e, BusyHandler DEF Holders
  <2>2. /\ credits[p] = 0 /\ Recorded(p)' /\ StageOf(p) = "taken" /\ ~ InHand(p)'
        /\ \A q \in Payments \ {p} : Unmoved(q)
    BY <1>d, <1>e, <2>1
  <2>3. StageOf(p)' = "lost"
    BY <1>e, <2>2, NextStageValues
  <2>. QED BY <1>c, <1>e, <2>2, <2>3
<1>7. ASSUME NEW w \in Workers, FindUser(w)
      PROVE  Ledger!LedgerNext \/ UNCHANGED Ledger!ledgerVars
  <2>1. /\ worker[w].pc = "find" /\ worker[w] \in Busy
        /\ UNCHANGED <<orders, payments, credits>>
    BY <1>7, BusyHandler DEF FindUser, At
  <2>2. CASE Finish(w)
    BY <1>7, <1>e, <2>1, <2>2 DEF Holders
  <2>3. ASSUME worker'[w].pc \in Holders, worker'[w].payment = worker[w].payment,
               \A v \in Workers \ {w} : worker'[v] = worker[v]
        PROVE  UNCHANGED Ledger!ledgerVars
    <3>1. \A v \in Workers, q \in Payments : Holds(v, q)' <=> Holds(v, q)
      BY <2>1, <2>3 DEF Holds, Holders
    <3>2. \A q \in Payments : Unmoved(q)
      BY <2>1, <3>1 DEF Unmoved, Recorded, InHand, Succeeded
    <3>. QED BY <2>1, <3>2, StagesStutter
  <2>4. CASE Goto(w, "create")
    BY <1>0, <1>7, <2>1, <2>3, <2>4 DEF Goto, Busy, Holders
  <2>5. ASSUME NEW a,
               worker' = [worker EXCEPT ![w].pc = "update", ![w].account = a,
                                        ![w].seen = panel[a].expire]
        PROVE  UNCHANGED Ledger!ledgerVars
    BY <1>0, <1>7, <2>1, <2>3, <2>5 DEF Busy, Holders
  <2>. QED BY <1>7, <2>2, <2>4, <2>5 DEF FindUser, GiveUp
<1>8. ASSUME NEW w \in Workers, CreateUser(w) \/ UpdateUser(w)
      PROVE  Ledger!LedgerNext
  <2>1. /\ worker[w].pc \in {"create", "update"} /\ worker[w].payment \in Payments
        /\ UNCHANGED <<orders, payments>> /\ Finish(w)
    BY <1>8, BusyHandler DEF CreateUser, UpdateUser, At, GiveUp
  <2>2. CASE UNCHANGED credits
    BY <1>8, <1>e, <2>1, <2>2 DEF Holders
  <2>3. CASE Credit(w)
    <3>1. PICK p \in Payments : p = worker[w].payment
      BY <2>1
    <3>2. \A q \in Payments \ {p} : credits'[q] = credits[q]
      BY <1>0, <2>3, <3>1 DEF Credit
    <3>3. /\ credits[p] = 0 /\ StageOf(p) = "taken"
          /\ \A q \in Payments \ {p} : Unmoved(q)
      BY <1>8, <1>d, <2>1, <3>1, <3>2 DEF Holders
    <3>4. credits'[p] = 1 /\ credits' = [credits EXCEPT ![p] = @ + 1]
      BY <1>0, <2>3, <3>1, <3>3 DEF Credit
    <3>5. Stages[p] = "taken" /\ Stages' = [Stages EXCEPT ![p] = "credited"]
      BY <3>3, <3>4, NextStageValues, StagesMove
    <3>. QED BY <3>4, <3>5 DEF Ledger!LedgerNext, Ledger!Credit, Ledger!Move, Stages
  <2>. QED BY <1>8, <2>2, <2>3 DEF CreateUser, UpdateUser
<1>9. CASE PayCrash
  <2> DEFINE held == {p \in Payments : InHand(p)}
  <2>1. /\ UNCHANGED <<orders, payments, credits>>
        /\ \A p \in Payments : ~ InHand(p)'
    BY <1>9 DEF PayCrash, LoseWorkers, InHand, Holds, Idle
  <2>2. \A p \in Payments \ held : StageOf(p)' = StageOf(p)
    BY <2>1, UnmovedStage DEF Unmoved, Recorded, Succeeded
  <2>3. \A p \in held : StageOf(p) = "taken" /\ StageOf(p)' = "lost"
    <3>1. \A p \in held : credits[p] = 0 /\ Recorded(p)
      BY DEF LedgerInv, HeldIsUncredited, InHand
    <3>2. \A p \in held : credits'[p] = 0 /\ Recorded(p)'
      BY <2>1, <3>1 DEF Recorded
    <3>. QED BY <2>1, <3>1, <3>2, StageValues, NextStageValues
  <2>4. Ledger!Lose(held)
    BY <2>1, <2>2, <2>3 DEF Ledger!Lose
  <2>. QED BY <2>4 DEF Ledger!LedgerNext
<1>. QED
  BY <1>1, <1>2, <1>3, <1>4, <1>5, <1>6, <1>7, <1>8, <1>9
  DEF Next, PayStep, Shop, Work, CreatePayment, CreateCustomPayment, IgnoreWebhook, WritePlan,
      Surroundings, vars, payVars

\* The site, with its goroutines, its database and its panel, is a ledger that
\* takes up a paid order once and then credits it once or loses it for good.
THEOREM ImplementsLedger == Spec => LedgerSpec
<1>1. Init => Ledger!LedgerInit
  <2> SUFFICES ASSUME Init PROVE Ledger!LedgerInit
    OBVIOUS
  <2>1. \A p \in Payments : StageOf(p) = "open"
    BY InitType, StageValues DEF Init, PayInit, Recorded, Succeeded
  <2>. QED BY <2>1 DEF Ledger!LedgerInit, Init, PayInit
<1>. QED
  BY <1>1, StageStep, LedgerInvariant, PTL DEF Spec, LedgerSpec, Ledger!LedgerSpec

(***************************************************************************)
(* What is granted is what was sold.  An order nobody wrote the plan of    *)
(* still reads as the offer it was made for, so what a handler has read of *)
(* it, and the row it wrote, are that offer.                               *)
(***************************************************************************)
\* A handler that has read what the payment stands for.
Carries(w, p) == worker[w].pc \in Holders \cup {"insert"} /\ worker[w].payment = p

AsSold(p) ==
  /\ orders[p] # None => Sold(orders[p]) = orders[p].offer
  /\ Recorded(p) => payments[p].amount = orders[p].offer.price
  /\ \A w \in Workers : Carries(w, p) => worker[w].offer = orders[p].offer

SoldInv ==
  \A p \in Payments :
    /\ Recorded(p) => orders[p] # None
    /\ p \notin repriced => AsSold(p)

\* A step of the handlers that reads an order afresh, or nothing, and writes no row.
LEMMA SoldLasts ==
  ASSUME SoldInv, UNCHANGED <<plans, orders, payments, repriced>>,
         \A v \in Workers, p \in Payments : Carries(v, p)' =>
           \/ Carries(v, p) /\ worker'[v].offer = worker[v].offer
           \/ orders[p] # None /\ worker'[v].offer = Sold(orders[p])
  PROVE  SoldInv'
<1> SUFFICES ASSUME NEW p \in Payments
             PROVE  /\ (Recorded(p) => orders[p] # None)'
                    /\ (p \notin repriced => AsSold(p))'
  BY DEF SoldInv
<1>1. (Recorded(p) => orders[p] # None)'
  BY DEF SoldInv, Recorded
<1>2. ASSUME p \notin repriced' PROVE AsSold(p)'
  <2>1. AsSold(p)
    BY <1>2 DEF SoldInv
  <2>2. (orders[p] # None => Sold(orders[p]) = orders[p].offer)'
    BY <2>1 DEF AsSold, Sold
  <2>3. (Recorded(p) => payments[p].amount = orders[p].offer.price)'
    BY <2>1 DEF AsSold, Recorded
  <2>4. ASSUME NEW v \in Workers, Carries(v, p)' PROVE worker'[v].offer = orders[p].offer
    BY <2>1, <2>4 DEF AsSold
  <2>. QED BY <2>2, <2>3, <2>4 DEF AsSold
<1>. QED BY <1>1, <1>2

\* Who carries what after one goroutine moved, or returned.
LEMMA CarriersAfter ==
  ASSUME TypeInv, NEW w \in Workers, NEW h, worker' = [worker EXCEPT ![w] = h]
  PROVE  \A v \in Workers, p \in Payments : Carries(v, p)' =>
           IF v = w THEN h.pc \in Holders \cup {"insert"} /\ h.payment = p /\ worker'[v] = h
                    ELSE Carries(v, p) /\ worker'[v] = worker[v]
  BY DEF TypeInv, TypeOK, PayTypeOK, Carries

\* A handler that returns carries nothing; the others carry what they did.
LEMMA CarriersAfterFinish ==
  ASSUME TypeInv, NEW w \in Workers, Finish(w)
  PROVE  \A v \in Workers, p \in Payments : Carries(v, p)' => Carries(v, p) /\ worker'[v] = worker[v]
<1> DEFINE h == [Handling(worker[w].payment) EXCEPT !.pc = "answer"]
<1>1. h.pc = "answer"
  BY DEF Handling
<1>. QED BY <1>1, CarriersAfter DEF Finish, Holders

\* Every step keeps rows and handlers at what was sold.
LEMMA SoldStep == TypeInv /\ SoldInv /\ [Next]_vars => SoldInv'
<1> SUFFICES ASSUME TypeInv, SoldInv, [Next]_vars PROVE SoldInv'
  OBVIOUS
<1>0. /\ worker \in [Workers -> Busy \cup {Idle}]
      /\ payments \in [Payments -> Row \cup {None}]
      /\ orders \in [Payments -> Order \cup {None}]
  BY DEF TypeInv, TypeOK, PayTypeOK
<1>1. CASE UNCHANGED <<plans, orders, payments, worker, repriced>>
  BY <1>1, SoldLasts DEF Carries
<1>2. ASSUME NEW w \in Workers, Finish(w), UNCHANGED <<plans, orders, payments, repriced>>
      PROVE  SoldInv'
  BY <1>2, CarriersAfterFinish, SoldLasts
<1>3. ASSUME NEW w \in Workers, NEW h, worker' = [worker EXCEPT ![w] = h],
             UNCHANGED <<plans, orders, payments, repriced>>,
             h.pc \in Holders \cup {"insert"} =>
               /\ h.payment = worker[w].payment
               /\ \/ Carries(w, worker[w].payment) /\ h.offer = worker[w].offer
                  \/ orders[worker[w].payment] # None /\ h.offer = Sold(orders[worker[w].payment])
      PROVE  SoldInv'
  BY <1>3, CarriersAfter, SoldLasts DEF Carries
<1>4. ASSUME NEW p \in Payments, NEW u \in Users, NEW plan \in PlanIds \cup {Custom},
             NEW offer, Place(p, u, plan, offer), plan = Custom \/ offer = plans[plan]
      PROVE  SoldInv'
  <2> SUFFICES ASSUME NEW q \in Payments
               PROVE  /\ (Recorded(q) => orders[q] # None)'
                      /\ (q \notin repriced => AsSold(q))'
    BY DEF SoldInv
  <2>0. UNCHANGED <<plans, payments, worker, repriced>>
    BY <1>4 DEF Place
  <2>1. CASE q # p
    <3>1. orders'[q] = orders[q]
      BY <1>0, <1>4, <2>1 DEF Place
    <3>. QED BY <2>0, <3>1 DEF SoldInv, AsSold, Recorded, Carries, Sold
  <2>2. CASE q = p
    <3>1. /\ orders[p] = None /\ ~ Recorded(p)
          /\ \A w \in Workers : ~ Carries(w, p)
      <4>1. orders[p] = None /\ ~ Recorded(p)
        BY <1>4 DEF Place, SoldInv
      <4>2. ASSUME NEW w \in Workers, Carries(w, p) PROVE FALSE
        <5>1. worker[w].pc # "idle" /\ worker[w].payment = p
          BY <4>2 DEF Carries, Holders
        <5>. QED BY <4>1, <5>1, BusyHandler, YooKassaAssumption
      <4>. QED BY <4>1, <4>2
    <3>2. orders'[p].plan = plan /\ orders'[p].offer = offer
      BY <1>0, <1>4 DEF Place
    <3>3. (Sold(orders[p]) = orders[p].offer)'
      BY <1>4, <2>0, <3>2 DEF Sold
    <3>. QED BY <2>0, <2>2, <3>1, <3>3 DEF AsSold, Recorded, Carries, Sold
  <2>. QED BY <2>1, <2>2
<1>5. ASSUME NEW p \in Payments, ProviderSettles(p) PROVE SoldInv'
  <2>0. UNCHANGED <<plans, payments, worker, repriced>>
    BY <1>5 DEF ProviderSettles
  <2>1. /\ \A q \in Payments : orders[q] = None <=> orders'[q] = None
        /\ \A q \in Payments : orders[q] # None =>
             orders'[q].plan = orders[q].plan /\ orders'[q].offer = orders[q].offer
    <3>1. PICK status \in {"succeeded", "canceled"} :
            orders' = [orders EXCEPT ![p].status = status]
      BY <1>5 DEF ProviderSettles
    <3>2. orders[p] \in Order /\ orders[p] # None
      BY <1>0, <1>5 DEF ProviderSettles, Pending
    <3>3. [orders[p] EXCEPT !.status = status] \in Order
      BY <3>2 DEF Order
    <3>4. orders'[p] # None /\ orders'[p].plan = orders[p].plan /\ orders'[p].offer = orders[p].offer
      BY <1>0, <3>1, <3>2, <3>3, YooKassaAssumption DEF Order
    <3>. QED BY <1>0, <3>1, <3>2, <3>4
  <2>2. ASSUME NEW w \in Workers, NEW q \in Payments, Carries(w, q) PROVE orders[q] # None
    <3>1. worker[w].pc # "idle" /\ worker[w].payment = q
      BY <2>2 DEF Carries, Holders
    <3>. QED BY <3>1, BusyHandler, YooKassaAssumption
  <2> SUFFICES ASSUME NEW q \in Payments
               PROVE  /\ (Recorded(q) => orders[q] # None)'
                      /\ (q \notin repriced => AsSold(q))'
    BY DEF SoldInv
  <2>3. (Recorded(q) => orders[q] # None)'
    BY <2>0, <2>1 DEF SoldInv, Recorded
  <2>4. ASSUME q \notin repriced' PROVE AsSold(q)'
    <3>1. AsSold(q) /\ (Recorded(q) => orders[q] # None)
      BY <2>0, <2>4 DEF SoldInv
    <3>2. (orders[q] # None => Sold(orders[q]) = orders[q].offer)'
      BY <2>0, <2>1, <3>1 DEF AsSold, Sold
    <3>3. (Recorded(q) => payments[q].amount = orders[q].offer.price)'
      BY <2>0, <2>1, <3>1 DEF AsSold, Recorded
    <3>4. ASSUME NEW v \in Workers, Carries(v, q)' PROVE worker'[v].offer = orders'[q].offer
      BY <2>0, <2>1, <2>2, <3>1, <3>4 DEF AsSold, Carries
    <3>. QED BY <3>2, <3>3, <3>4 DEF AsSold
  <2>. QED BY <2>3, <2>4
<1>6. ASSUME NEW id \in PlanIds, WritePlan(id) PROVE SoldInv'
  <2>1. /\ UNCHANGED <<orders, payments, worker>> /\ repriced \subseteq repriced'
        /\ \A q \in Payments \ repriced' : orders[q] # None => orders[q].plan # id
        /\ \A i \in PlanIds \ {id} : plans'[i] = plans[i]
    BY <1>6 DEF WritePlan, TypeInv, TypeOK, PayTypeOK
  <2>2. ASSUME NEW q \in Payments \ repriced' PROVE AsSold(q)'
    <3>1. AsSold(q)
      BY <2>1, <2>2 DEF SoldInv
    <3>2. orders[q] # None => orders[q].plan \in (PlanIds \ {id}) \cup {Custom}
      BY <1>0, <2>1 DEF Order
    <3>3. (orders[q] # None => Sold(orders[q]) = orders[q].offer)'
      BY <2>1, <3>1, <3>2 DEF AsSold, Sold
    <3>. QED BY <2>1, <3>1, <3>3 DEF AsSold, Recorded, Carries
  <2>. QED BY <2>1, <2>2 DEF SoldInv, Recorded
<1>7. ASSUME NEW p \in Payments, NEW w \in Workers, Webhook(w, p) PROVE SoldInv'
  <2>1. worker' = [worker EXCEPT ![w] = Handling(p)] /\ Handling(p).pc = "lookup"
    BY <1>7 DEF Webhook, Handling
  <2>. QED BY <1>3, <1>7, <2>1 DEF Webhook, Holders
<1>8. ASSUME NEW w \in Workers, LookupPayment(w) PROVE SoldInv'
  <2>1. CASE Goto(w, "plan")
    <3> DEFINE h == [worker[w] EXCEPT !.pc = "plan"]
    <3>0. worker[w] \in Busy
      BY <1>8, BusyHandler DEF LookupPayment, At
    <3>1. worker' = [worker EXCEPT ![w] = h] /\ h.pc = "plan"
      BY <2>1, <3>0 DEF Goto, Busy
    <3>. QED BY <1>3, <1>8, <3>1 DEF LookupPayment, Holders
  <2>. QED BY <1>2, <1>8, <2>1 DEF LookupPayment, GiveUp
<1>9. ASSUME NEW w \in Workers, ReadPlan(w) PROVE SoldInv'
  <2>0. worker[w] \in Busy /\ worker[w].payment \in Payments /\ orders[worker[w].payment] \in Order
    BY <1>9, BusyHandler DEF ReadPlan, At
  <2>1. CASE worker' = [worker EXCEPT ![w].pc = "insert",
                                      ![w].offer = Sold(orders[worker[w].payment]),
                                      ![w].now = clock]
    <3> DEFINE h == [worker[w] EXCEPT !.pc = "insert", !.now = clock,
                                      !.offer = Sold(orders[worker[w].payment])]
    <3>1. /\ worker' = [worker EXCEPT ![w] = h]
          /\ h.payment = worker[w].payment /\ h.offer = Sold(orders[worker[w].payment])
      BY <2>0, <2>1 DEF Busy
    <3>. QED BY <1>3, <1>9, <2>0, <3>1, YooKassaAssumption DEF ReadPlan
  <2>. QED BY <1>2, <1>9, <2>1 DEF ReadPlan, GiveUp
<1>10. ASSUME NEW w \in Workers, InsertPayment(w) PROVE SoldInv'
  <2>0. worker[w].pc = "insert" /\ worker[w] \in Busy /\ worker[w].payment \in Payments
    BY <1>10, BusyHandler DEF InsertPayment, At
  <2>p. PICK p \in Payments : p = worker[w].payment
    BY <2>0
  <2>1. UNCHANGED <<plans, orders, repriced>> /\ Carries(w, p) /\ orders[p] \in Order
    BY <1>10, <2>0, <2>p, BusyHandler DEF InsertPayment, Carries
  <2>2. \A v \in Workers, q \in Payments :
          Carries(v, q)' => Carries(v, q) /\ worker'[v].offer = worker[v].offer
    <3>1. CASE worker' = [worker EXCEPT ![w].pc = "find", ![w].start = clock]
      <4> DEFINE h == [worker[w] EXCEPT !.pc = "find", !.start = clock]
      <4>1. /\ worker' = [worker EXCEPT ![w] = h]
            /\ h.payment = p /\ h.offer = worker[w].offer
        BY <2>0, <2>p, <3>1 DEF Busy
      <4>. QED BY <2>1, <4>1, CarriersAfter
    <3>2. CASE Finish(w)
      BY <3>2, CarriersAfterFinish
    <3>. QED BY <1>10, <3>1, <3>2 DEF InsertPayment, GiveUp
  <2>3. CASE UNCHANGED payments
    BY <2>1, <2>2, <2>3, SoldLasts
  <2>4. CASE Record(w)
    <3>1. /\ payments'[p].amount = worker[w].offer.price
          /\ \A q \in Payments \ {p} : payments'[q] = payments[q]
      BY <1>0, <2>p, <2>4 DEF Record
    <3> SUFFICES ASSUME NEW q \in Payments
                 PROVE  /\ (Recorded(q) => orders[q] # None)'
                        /\ (q \notin repriced => AsSold(q))'
      BY DEF SoldInv
    <3>2. (Recorded(q) => orders[q] # None)'
      BY <2>1, <3>1, YooKassaAssumption DEF SoldInv, Recorded
    <3>3. ASSUME q \notin repriced' PROVE AsSold(q)'
      <4>1. AsSold(q)
        BY <2>1, <3>3 DEF SoldInv
      <4>2. (orders[q] # None => Sold(orders[q]) = orders[q].offer)'
        BY <2>1, <4>1 DEF AsSold, Sold
      <4>3. (Recorded(q) => payments[q].amount = orders[q].offer.price)'
        BY <2>1, <3>1, <4>1 DEF AsSold, Recorded
      <4>4. \A v \in Workers : Carries(v, q)' => worker'[v].offer = orders'[q].offer
        BY <2>1, <2>2, <4>1 DEF AsSold
      <4>. QED BY <4>2, <4>3, <4>4 DEF AsSold
    <3>. QED BY <3>2, <3>3
  <2>. QED BY <1>10, <2>3, <2>4 DEF InsertPayment
<1>11. ASSUME NEW w \in Workers, FindUser(w) PROVE SoldInv'
  <2>0. worker[w].pc = "find" /\ worker[w] \in Busy /\ worker[w].payment \in Payments
    BY <1>11, BusyHandler DEF FindUser, At
  <2>1. Carries(w, worker[w].payment)
    BY <2>0 DEF Carries, Holders
  <2>2. ASSUME NEW h, worker' = [worker EXCEPT ![w] = h],
               h.payment = worker[w].payment, h.offer = worker[w].offer
        PROVE  SoldInv'
    BY <1>3, <1>11, <2>1, <2>2 DEF FindUser
  <2>3. CASE Goto(w, "create")
    BY <2>0, <2>2, <2>3 DEF Goto, Busy
  <2>4. ASSUME NEW a \in FoundBy(Buyer(w)),
               worker' = [worker EXCEPT ![w].pc = "update", ![w].account = a,
                                        ![w].seen = panel[a].expire]
        PROVE  SoldInv'
    <3> DEFINE h == [worker[w] EXCEPT !.pc = "update", !.account = a, !.seen = panel[a].expire]
    <3>1. /\ worker' = [worker EXCEPT ![w] = h]
          /\ h.payment = worker[w].payment /\ h.offer = worker[w].offer
      BY <2>0, <2>4 DEF Busy
    <3>. QED BY <2>2, <3>1
  <2>. QED BY <1>2, <1>11, <2>3, <2>4 DEF FindUser, GiveUp
<1>12. ASSUME NEW w \in Workers, CreateUser(w) \/ UpdateUser(w) PROVE SoldInv'
  BY <1>2, <1>12 DEF CreateUser, UpdateUser, GiveUp
<1>13. ASSUME NEW w \in Workers, Answer(w) PROVE SoldInv'
  BY <1>3, <1>13 DEF Answer, Idle, Holders
<1>14. CASE PayCrash
  <2>1. \A v \in Workers, p \in Payments : ~ Carries(v, p)'
    BY <1>14 DEF PayCrash, LoseWorkers, Carries, Holders, Idle
  <2>. QED BY <1>14, <2>1, SoldLasts DEF PayCrash, LoseWorkers
<1>15. ASSUME NEW p \in Payments, NEW u \in Users, NEW id \in PlanIds, CreatePayment(p, u, id)
       PROVE  SoldInv'
  BY <1>4, <1>15 DEF CreatePayment
<1>16. ASSUME NEW p \in Payments, NEW u \in Users, CreateCustomPayment(p, u) PROVE SoldInv'
  BY <1>4, <1>16 DEF CreateCustomPayment
<1>. QED
  BY <1>1, <1>5, <1>6, <1>7, <1>8, <1>9, <1>10, <1>11, <1>12, <1>13, <1>14, <1>15, <1>16
  DEF Next, PayStep, Shop, Work, IgnoreWebhook, vars, payVars

\* Unless an administrator wrote the plan after the sale, what is recorded and
\* what a handler is about to grant is what the customer ordered.
THEOREM SoldIsGranted == Spec => []SoldIsRecorded
<1>1. Init => SoldInv
  BY DEF Init, PayInit, SoldInv, AsSold, Recorded, Carries, Holders, Idle
<1>2. SoldInv => SoldIsRecorded
  BY DEF SoldInv, AsSold, SoldIsRecorded, Holds, Carries, Holders
<1>. QED BY <1>1, <1>2, SoldStep, TypeInvariant, PTL DEF Spec

(***************************************************************************)
(* The full term.  A grant to an account that existed is an extension, and *)
(* one whose readings are up to date adds its days to what the account has *)
(* left.                                                                   *)
(***************************************************************************)
\* An extension by a handler whose readings are up to date gives the full term.
LEMMA FreshExtension ==
  ASSUME TypeInv, NEW w \in Workers, UpdateUser(w), NEW a \in Accounts,
         granted'[a] > granted[a], ~ (worker'[w] # worker[w] /\ Stale(worker[w], a))
  PROVE  panel'[a].expire >= Later(panel[a].expire, clock) + (granted'[a] - granted[a])
<1> DEFINE h == worker[w]
           expire == NewExpire(h.seen, h.now, h.offer.days)
<1>0. /\ worker[w].pc = "update" /\ h.account \in Accounts /\ h.offer.days \in Nat
      /\ h.seen \in Nat /\ h.now \in Nat
  BY BusyHandler DEF UpdateUser, At, Ready, Offer, Busy
<1>1. /\ granted \in [Accounts -> Nat] /\ panel \in [Accounts -> Account \cup {None}]
  BY DEF TypeInv, TypeOK, PanelTypeOK
<1>2. CASE UNCHANGED panelVars
  BY <1>1, <1>2 DEF panelVars
<1>3. CASE ExtendAccount(h.account, expire, h.offer.days)
  <2>1. h.account = a
    BY <1>0, <1>1, <1>3 DEF ExtendAccount
  <2>2. h.seen = panel[a].expire /\ h.now = clock
    <3> DEFINE done == [Handling(h.payment) EXCEPT !.pc = "answer"]
    <3>1. worker' = [worker EXCEPT ![w] = done]
      BY DEF UpdateUser, Finish, GiveUp
    <3>d. done.pc = "answer"
      BY DEF Handling
    <3> HIDE DEF done
    <3>2. worker'[w].pc = "answer"
      BY <3>1, <3>d DEF TypeInv, TypeOK, PayTypeOK
    <3>. QED BY <1>0, <2>1, <3>2 DEF Stale
  <2>3. granted'[a] - granted[a] = h.offer.days
    BY <1>0, <1>1, <1>3, <2>1 DEF ExtendAccount
  <2>4. panel'[a].expire = expire
    <3>1. panel[a] \in Account
      BY <1>1, <1>3, <2>1 DEF ExtendAccount, Exists
    <3>. QED BY <1>1, <1>3, <2>1, <3>1 DEF ExtendAccount, Account
  <2>5. expire = Later(panel[a].expire, clock) + h.offer.days
    BY <1>0, <2>2 DEF NewExpire, Later
  <2>6. expire \in Nat
    BY <1>0 DEF NewExpire
  <2>. QED BY <2>3, <2>4, <2>5, <2>6
<1>. QED BY <1>2, <1>3 DEF UpdateUser

\* A step that grants to an account that existed.
LEMMA FullTermStep ==
  TypeInv /\ [Next]_vars =>
    [\A a \in Accounts :
       Exists(a) /\ granted'[a] > granted[a]
         => \/ panel'[a].expire
                  >= Later(panel[a].expire, clock) + (granted'[a] - granted[a])
            \/ \E w \in Workers : worker'[w] # worker[w] /\ Stale(worker[w], a)]_vars
<1> SUFFICES ASSUME TypeInv, Next, NEW a \in Accounts,
                    Exists(a), granted'[a] > granted[a],
                    ~ \E w \in Workers : worker'[w] # worker[w] /\ Stale(worker[w], a)
             PROVE  panel'[a].expire
                      >= Later(panel[a].expire, clock) + (granted'[a] - granted[a])
  OBVIOUS
<1>0. granted \in [Accounts -> Nat]
  BY DEF TypeInv, TypeOK, PanelTypeOK
<1>1. ~ UNCHANGED granted
  BY <1>0
<1>2. ASSUME NEW w \in Workers, CreateUser(w) PROVE FALSE
  <2>1. worker[w].offer.days \in Nat
    BY <1>2, BusyHandler DEF CreateUser, At, Ready, Offer
  <2>. QED BY <1>0, <1>1, <1>2, <2>1 DEF CreateUser, CreateAccount, Refuses, panelVars
<1>3. PICK w \in Workers : UpdateUser(w)
  BY <1>1, <1>2
  DEF Next, PayStep, PayCrash, Work, FindUser, Surroundings, Operator, AdminUpdateUser,
      AdminCreateUser, panelVars
<1>. QED BY <1>3, FreshExtension

\* A grant to an account that existed gives the full term, unless what its own
\* handler had read of it, or of the clock, was out of date by then.
THEOREM FullTerm == Spec => FullTermUnlessStale
BY FullTermStep, TypeInvariant, PTL DEF Spec, FullTermUnlessStale

(***************************************************************************)
(* Why the panel refuses.  Under a customer's own UUID there is only what  *)
(* an operator wrote or what a payment of the customer made.               *)
(***************************************************************************)
MadeBy(q, u) == credits[q] = 1 /\ orders[q] # None /\ orders[q].user = u

MadeFor(u) == ceiling[u] >= 0 \/ \E q \in Payments : MadeBy(q, u)

MadeByAnother(p) ==
  \/ ceiling[orders[p].user] >= 0
  \/ \E q \in Payments \ {p} : MadeBy(q, orders[p].user)

RaceInv ==
  /\ \A u \in Users : Exists(u) => MadeFor(u)
  /\ \A p \in Payments : "refused" \in mishap[p] => orders[p] # None /\ MadeByAnother(p)

\* What the steps below have in common: nothing that explains an account goes.
Explains ==
  /\ \A a \in Accounts : ceiling[a] >= 0 => ceiling'[a] >= 0
  /\ \A q \in Payments : credits[q] = 1 => credits'[q] = 1
  /\ \A q \in Payments : orders[q] # None => orders'[q] # None /\ orders'[q].user = orders[q].user

\* An account that is new is made for its customer, and a refusal is of a payment
\* that finds an account of its customer and has made none.
NewIsExplained ==
  /\ \A u \in Users : Exists(u)' => Exists(u) \/ MadeFor(u)'
  /\ \A p \in Payments : "refused" \in mishap'[p] =>
       \/ "refused" \in mishap[p]
       \/ orders[p] # None /\ Exists(orders[p].user) /\ credits[p] = 0

\* A step that takes no explanation back, and explains what it adds.
LEMMA RaceRests ==
  ASSUME TypeInv, RaceInv, Explains, NewIsExplained
  PROVE  RaceInv'
<1>1. \A u \in Users, q \in Payments : MadeBy(q, u) => MadeBy(q, u)'
  BY DEF Explains, MadeBy
<1>2. \A u \in Users : MadeFor(u) => MadeFor(u)'
  BY <1>1 DEF Explains, MadeFor, Accounts
<1>3. ASSUME NEW p \in Payments, "refused" \in mishap'[p]
      PROVE  orders'[p] # None /\ MadeByAnother(p)'
  <2>1. orders[p] # None /\ MadeByAnother(p)
    <3>1. CASE "refused" \in mishap[p]
      BY <3>1 DEF RaceInv
    <3>2. CASE orders[p] # None /\ Exists(orders[p].user) /\ credits[p] = 0
      <4>1. orders[p].user \in Users
        BY <3>2 DEF TypeInv, TypeOK, PayTypeOK, Order
      <4>2. MadeFor(orders[p].user) /\ \A q \in Payments : MadeBy(q, orders[p].user) => q # p
        BY <3>2, <4>1 DEF RaceInv, MadeBy
      <4>. QED BY <3>2, <4>2 DEF MadeFor, MadeByAnother
    <3>. QED BY <1>3, <3>1, <3>2 DEF NewIsExplained
  <2>2. PICK u \in Users : u = orders[p].user /\ u \in Accounts
    BY <2>1 DEF TypeInv, TypeOK, PayTypeOK, Order, Accounts
  <2>3. orders'[p] # None /\ orders'[p].user = u
    BY <2>1, <2>2 DEF Explains
  <2>4. CASE ceiling[u] >= 0
    BY <2>2, <2>3, <2>4 DEF Explains, MadeByAnother
  <2>5. ASSUME NEW q \in Payments \ {p}, MadeBy(q, u) PROVE MadeByAnother(p)'
    <3>1. MadeBy(q, u)'
      BY <1>1, <2>5
    <3>2. credits'[q] = 1 /\ orders'[q] # None /\ orders'[q].user = orders'[p].user
      BY <2>3, <3>1 DEF MadeBy
    <3>. QED BY <3>2 DEF MadeByAnother, MadeBy
  <2>. QED BY <2>1, <2>2, <2>3, <2>4, <2>5 DEF MadeByAnother
<1>. QED BY <1>2, <1>3 DEF RaceInv, NewIsExplained

\* No step takes back an order, a credit or an operator's date.
LEMMA ExplanationsLast == TypeInv /\ LedgerInv /\ [Next]_vars => Explains
<1> SUFFICES ASSUME TypeInv, LedgerInv, [Next]_vars PROVE Explains
  OBVIOUS
<1>0. /\ orders \in [Payments -> Order \cup {None}]
      /\ credits \in [Payments -> Nat] /\ ceiling \in [Accounts -> Nat \cup {-1}]
      /\ panel \in [Accounts -> Account \cup {None}]
  BY DEF TypeInv, TypeOK, PayTypeOK, PanelTypeOK
<1>1. \A a \in Accounts : ceiling[a] >= 0 => ceiling'[a] >= 0
  <2>1. CASE UNCHANGED ceiling
    BY <2>1
  <2>2. ASSUME NEW b \in Accounts, AdminUpdateUser(b) \/ AdminCreateUser(b)
        PROVE  \A a \in Accounts : ceiling[a] >= 0 => ceiling'[a] >= 0
    <3>1. ASSUME NEW e \in Nat, ceiling' = [ceiling EXCEPT ![b] = Later(@, e)]
          PROVE  \A a \in Accounts : ceiling[a] >= 0 => ceiling'[a] >= 0
      BY <1>0, <3>1 DEF Later
    <3>2. CASE AdminUpdateUser(b)
      <4>1. PICK body \in OperatorAccounts :
              \E record \in Patched(panel[b], body) :
                ceiling' = IF record.expire = panel[b].expire
                             THEN ceiling
                             ELSE [ceiling EXCEPT ![b] = Later(@, record.expire)]
        BY <3>2 DEF AdminUpdateUser
      <4>2. PICK record \in Patched(panel[b], body) :
              ceiling' = IF record.expire = panel[b].expire
                           THEN ceiling
                           ELSE [ceiling EXCEPT ![b] = Later(@, record.expire)]
        BY <4>1
      <4>3. record.expire \in Nat
        BY <1>0, <3>2, PanelAssumption DEF AdminUpdateUser, Exists, Patched, Account
      <4>. QED BY <2>1, <3>1, <4>2, <4>3
    <3>3. CASE AdminCreateUser(b)
      BY <3>1, <3>3, PanelAssumption DEF AdminCreateUser, Account
    <3>. QED BY <2>2, <3>2, <3>3
  <2>. QED
    BY <2>1, <2>2
    DEF Next, PayStep, PayCrash, Shop, Work, FindUser, CreateUser, UpdateUser, CreateAccount,
        ExtendAccount, Surroundings, Operator, panelVars, vars
<1>2. \A q \in Payments : credits[q] = 1 => credits'[q] = 1
  <2>1. CASE UNCHANGED credits
    BY <2>1
  <2>2. ASSUME NEW w \in Workers, CreateUser(w) \/ UpdateUser(w)
        PROVE  \A q \in Payments : credits[q] = 1 => credits'[q] = 1
    <3>1. worker[w].pc \in {"create", "update"} /\ worker[w].payment \in Payments
      BY <2>2, BusyHandler DEF CreateUser, UpdateUser, At
    <3>2. PICK p \in Payments : p = worker[w].payment
      BY <3>1
    <3>3. credits[p] = 0
      BY <3>1, <3>2 DEF LedgerInv, HeldIsUncredited, Holds
    <3>4. CASE Credit(w)
      BY <1>0, <3>2, <3>3, <3>4 DEF Credit
    <3>. QED BY <2>1, <2>2, <3>4 DEF CreateUser, UpdateUser
  <2>. QED
    BY <2>1, <2>2
    DEF Next, PayStep, PayCrash, Shop, Work, CreatePayment, CreateCustomPayment, Place,
        ProviderSettles, IgnoreWebhook, Webhook, WritePlan, LookupPayment, ReadPlan,
        InsertPayment, FindUser, Answer, LoseWorkers, vars, payVars
<1>3. \A q \in Payments : orders[q] # None =>
        orders'[q] # None /\ orders'[q].user = orders[q].user
  <2>1. CASE UNCHANGED orders
    BY <2>1
  <2>2. ASSUME NEW p \in Payments, NEW u, NEW plan, NEW offer, Place(p, u, plan, offer)
        PROVE  \A q \in Payments : orders[q] # None =>
                 orders'[q] # None /\ orders'[q].user = orders[q].user
    BY <1>0, <2>2 DEF Place
  <2>3. ASSUME NEW p \in Payments, ProviderSettles(p)
        PROVE  \A q \in Payments : orders[q] # None =>
                 orders'[q] # None /\ orders'[q].user = orders[q].user
    <3>1. PICK status \in {"succeeded", "canceled"} :
            orders' = [orders EXCEPT ![p].status = status]
      BY <2>3 DEF ProviderSettles
    <3>2. orders[p] \in Order
      BY <1>0, <2>3 DEF ProviderSettles, Pending
    <3>3. [orders[p] EXCEPT !.status = status] \in Order
      BY <3>2 DEF Order
    <3>. QED BY <1>0, <3>1, <3>2, <3>3, YooKassaAssumption DEF Order
  <2>. QED
    BY <2>1, <2>2, <2>3
    DEF Next, PayStep, PayCrash, Shop, Work, CreatePayment, CreateCustomPayment, IgnoreWebhook,
        Webhook, WritePlan, LookupPayment, ReadPlan, InsertPayment, FindUser, CreateUser,
        UpdateUser, Answer, LoseWorkers, vars, payVars
<1>. QED BY <1>1, <1>2, <1>3 DEF Explains

\* Every step explains the accounts and the refusals it adds.
LEMMA StepsExplained ==
  TypeInv /\ LedgerInv /\ [Next]_vars => NewIsExplained
<1> SUFFICES ASSUME TypeInv, LedgerInv, [Next]_vars PROVE NewIsExplained
  OBVIOUS
<1>0. /\ mishap \in [Payments -> SUBSET Mishap]
      /\ credits \in [Payments -> Nat] /\ ceiling \in [Accounts -> Nat \cup {-1}]
      /\ panel \in [Accounts -> Account \cup {None}]
  BY DEF TypeInv, TypeOK, PayTypeOK, PanelTypeOK
<1>1. CASE /\ \A u \in Users : Exists(u)' => Exists(u)
           /\ \A p \in Payments : "refused" \in mishap'[p] => "refused" \in mishap[p]
  BY <1>1 DEF NewIsExplained
<1>2. ASSUME NEW w \in Workers, NEW reason \in Mishap \ {"refused"}, GiveUp(w, reason)
      PROVE  \A p \in Payments : "refused" \in mishap'[p] => "refused" \in mishap[p]
  BY <1>0, <1>2 DEF GiveUp
<1>3. CASE UNCHANGED panel /\ \A p \in Payments : "refused" \in mishap'[p] => "refused" \in mishap[p]
  BY <1>1, <1>3 DEF Exists
<1>4. ASSUME NEW w \in Workers, CreateUser(w) PROVE NewIsExplained
  <2>0. /\ worker[w].pc = "create" /\ worker[w] \in Busy
        /\ worker[w].payment \in Payments /\ orders[worker[w].payment] \in Order
    BY <1>4, BusyHandler DEF CreateUser, At
  <2>p. PICK p \in Payments : p = worker[w].payment /\ orders[p] \in Order
    BY <2>0
  <2>1. PICK u \in Users : u = Buyer(w) /\ u = orders[p].user /\ u \in Accounts
    BY <2>p DEF Buyer, Order, Accounts
  <2>2. credits[p] = 0 /\ orders[p] # None
    BY <2>0, <2>p, YooKassaAssumption DEF LedgerInv, HeldIsUncredited, Holds, Holders
  <2>3. UNCHANGED orders
    BY <1>4 DEF CreateUser
  <2>4. CASE /\ Credit(w) /\ UNCHANGED mishap
             /\ \A a \in Accounts \ {u} : panel'[a] = panel[a]
    <3>1. MadeFor(u)'
      <4>1. credits'[p] = 1
        BY <1>0, <2>p, <2>2, <2>4 DEF Credit
      <4>. QED BY <2>1, <2>2, <2>3, <4>1 DEF MadeFor, MadeBy
    <3>2. \A v \in Users : Exists(v)' => Exists(v) \/ MadeFor(v)'
      BY <2>4, <3>1 DEF Exists, Accounts
    <3>. QED BY <2>4, <3>2 DEF NewIsExplained
  <2>5. CASE Refuses(u) /\ GiveUp(w, "refused") /\ UNCHANGED panelVars
    <3>1. \A q \in Payments : "refused" \in mishap'[q] => q = p \/ "refused" \in mishap[q]
      BY <1>0, <2>p, <2>5 DEF GiveUp
    <3>2. Exists(orders[p].user)
      BY <2>1, <2>5 DEF Refuses
    <3>3. \A v \in Users : Exists(v)' => Exists(v)
      BY <2>5 DEF panelVars, Exists
    <3>. QED BY <2>2, <3>1, <3>2, <3>3 DEF NewIsExplained
  <2>6. CASE GiveUp(w, "panel") /\ UNCHANGED panelVars
    BY <1>2, <1>3, <2>6 DEF panelVars, Mishap
  <2>. QED BY <1>0, <1>4, <2>1, <2>4, <2>5, <2>6 DEF CreateUser, CreateAccount
<1>5. ASSUME NEW w \in Workers, UpdateUser(w) PROVE NewIsExplained
  <2>1. CASE UNCHANGED mishap /\ \E a \in Accounts : \E e, d : ExtendAccount(a, e, d)
    <3>1. \A u \in Accounts : Exists(u)' => Exists(u)
      BY <1>0, <2>1 DEF ExtendAccount, Exists
    <3>. QED BY <1>1, <2>1, <3>1 DEF Accounts
  <2>2. CASE GiveUp(w, "panel") /\ UNCHANGED panelVars
    BY <1>2, <1>3, <2>2 DEF panelVars, Mishap
  <2>3. worker[w].account \in Accounts
    BY <1>5, BusyHandler DEF UpdateUser, At, Ready
  <2>. QED BY <1>5, <2>1, <2>2, <2>3 DEF UpdateUser
<1>6. ASSUME NEW w \in Workers,
             \/ (LookupPayment(w) \/ ReadPlan(w) \/ InsertPayment(w) \/ Answer(w))
                  /\ UNCHANGED panelVars
             \/ FindUser(w)
      PROVE  NewIsExplained
  <2>1. UNCHANGED panel
    BY <1>6 DEF FindUser, panelVars
  <2>2. CASE UNCHANGED mishap
    BY <1>3, <2>1, <2>2
  <2>3. ASSUME NEW reason \in {"db", "no plan", "panel"}, GiveUp(w, reason) PROVE NewIsExplained
    BY <1>2, <1>3, <2>1, <2>3 DEF Mishap
  <2>. QED
    BY <1>6, <2>2, <2>3 DEF LookupPayment, ReadPlan, InsertPayment, Answer, FindUser
<1>7. CASE PayCrash
  <2>1. \A p \in Payments : "refused" \in mishap'[p] => "refused" \in mishap[p]
    BY <1>0, <1>7 DEF PayCrash, LoseWorkers
  <2>. QED BY <1>3, <1>7, <2>1 DEF PayCrash, panelVars
<1>8. CASE Surroundings /\ UNCHANGED payVars
  <2>1. UNCHANGED mishap
    BY <1>8 DEF payVars
  <2>2. CASE UNCHANGED panelVars
    BY <1>3, <2>1, <2>2 DEF panelVars
  <2>3. ASSUME NEW a \in Accounts, AdminUpdateUser(a) PROVE NewIsExplained
    <3>1. Exists(a) /\ \A b \in Accounts \ {a} : panel'[b] = panel[b]
      BY <1>0, <2>3 DEF AdminUpdateUser
    <3>. QED BY <1>1, <2>1, <3>1 DEF Exists, Accounts
  <2>4. ASSUME NEW a \in Accounts, AdminCreateUser(a) PROVE NewIsExplained
    <3>1. PICK record \in OperatorAccounts :
            /\ panel' = [panel EXCEPT ![a] = record]
            /\ ceiling' = [ceiling EXCEPT ![a] = Later(@, record.expire)]
      BY <2>4 DEF AdminCreateUser
    <3>2. record.expire \in Nat
      BY PanelAssumption DEF Account
    <3>3. ceiling'[a] >= 0 /\ \A b \in Accounts \ {a} : panel'[b] = panel[b]
      BY <1>0, <3>1, <3>2 DEF Later
    <3>4. \A u \in Users : Exists(u)' => Exists(u) \/ MadeFor(u)'
      BY <3>3 DEF Exists, Accounts, MadeFor
    <3>. QED BY <2>1, <3>4 DEF NewIsExplained
  <2>. QED BY <1>8, <2>2, <2>3, <2>4 DEF Surroundings, Operator
<1>9. CASE UNCHANGED <<panelVars, mishap>>
  BY <1>3, <1>9 DEF panelVars
<1>. QED
  BY <1>4, <1>5, <1>6, <1>7, <1>8, <1>9
  DEF Next, PayStep, Shop, Work, CreatePayment, CreateCustomPayment, Place, ProviderSettles,
      IgnoreWebhook, Webhook, WritePlan, vars, payVars

\* Every step leaves accounts and refusals explained.
LEMMA RaceStep ==
  TypeInv /\ LedgerInv /\ RaceInv /\ [Next]_vars => RaceInv'
BY ExplanationsLast, StepsExplained, RaceRests

\* The panel refuses a customer's new account only because an operator wrote it or
\* another payment made it first.
THEOREM RefusalIsRace == Spec => []RefusedIsRace
<1>1. Init => RaceInv
  <2> SUFFICES ASSUME Init PROVE RaceInv
    OBVIOUS
  <2>1. ASSUME NEW u \in Users, Exists(u) PROVE ceiling[u] >= 0
    <3>1. u \in Accounts /\ panel[u] \in OperatorAccounts /\ ceiling[u] = panel[u].expire
      BY <2>1 DEF Init, PanelInit, Exists, Accounts
    <3>. QED BY <3>1, PanelAssumption DEF Account
  <2>. QED BY <2>1 DEF Init, PayInit, RaceInv, MadeFor
<1>2. RaceInv => RefusedIsRace
  BY DEF RaceInv, RefusedIsRace, MadeByAnother, MadeBy
<1>3. TypeInv /\ LedgerInv /\ RaceInv /\ [Next]_vars => RaceInv'
  BY RaceStep
<1>. QED BY <1>1, <1>2, <1>3, LedgerInvariant, PTL DEF Spec

=============================================================================
