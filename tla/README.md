# Verification of the neVPN site backend

TLA+ models of the Go program in this repository, checked with TLC on small
instances and proved with TLAPS for every instance.

The program is one process (`cmd/server/main.go`): a gin HTTP server, a daily
cron job, PostgreSQL through gorm, Redis, and three services it calls over
HTTP: the YooKassa payment provider, the Remnawave panel where the VPN accounts
live, and a mail service. It keeps nothing of its own in memory between
requests; what can go wrong is what happens *between the calls of one handler*.

## 1. Inventory

| Component | State it keeps | Operations | What makes it correct |
| --- | --- | --- | --- |
| Payments, `internal/yookassa` | table `payments` (id of the provider is the primary key); everything else travels in the provider's metadata | `CreatePayment`, `CreateCustomPayment`, `Webhook` -> `PaymentSuccess` | a payment becomes access at most once, and is not lost without a cause; the customer gets what was sold |
| Free trial, `handlers/trial.go` | Redis key `trial_used:<email>`, permanent | `StartTrial` | once per customer; no mark without a trial, no trial without a mark |
| Panel, `internal/remna` | the accounts (external): owner, expiry, device limit | lookup by e-mail, create, patch; admin handlers that create and patch | grants add up; nobody's paid time is taken back, nobody gets time nobody granted |
| Plan catalogue, `handlers/plans.go` | table `plans` | `AddPlan`, `UpdatePlan`, `DeletePlanWithID`, `AdminReorderPlans`, listings, `CalculatePlan` | requests that do not cross leave exactly what they answered; a deleted plan stays deleted; asking for more costs more |
| Expiry notifier, `internal/jobs` | table `subscription_notifications` | `Run` (at start-up and daily) | one "expiring" notice per account and day, one "expired" notice; no failing call keeps a run from the accounts after it |
| Sign-in, `handlers/auth.go` | Redis `code:<email>`, a limiter key per e-mail, sessions, table `users` | `SendCode`, `Login`, `Logout` | a code signs in once; a code that was mailed works; one user per e-mail |
| Support, `handlers/support.go` | table `support_tickets`, a limiter key per address | `CreateTicket` and the goroutine it leaves behind, `GetTickets`, admin listing and status | the team is told of every ticket; a ticket belongs to somebody who signed in |
| Subscription page, `handlers/subscription.go` | none | `GetSubscription` | whoever has access is told so |
| Profile, middleware, config, db | none | reads | - |
| `internal/auth` | none | not registered by `main.go` | unreachable |

How they interact: payments and trials write the *same* panel accounts, with a
lookup and a write that are separate requests, and operators write them too
through `/admin/remna/users`; the subscription page reads whichever of them the
panel lists first; payments read the catalogue a second time when the webhook
arrives; the notifier reads all accounts once and works through them while they
change; support reads the session that sign-in wrote, and both stand behind one
limiter.

Hard behaviours: deliveries of one webhook that are repeated and concurrent;
calls that fail, or succeed with their answer lost; the process killed between
two calls; a date computed from a read that is stale when it is written; a row
read, changed in memory and saved whole; a loop of statements outside a
transaction; check-then-act on the trial's key and on the sign-in code; work
left to a goroutine nobody waits for; errors that are dropped. `PROJECT.json` lists
each at its line under "hazards", with the properties aimed at it.

## 2. Modules

    Server            clock and restarts
      RemnaPanel      accounts, the client's calls, the operators' handlers
        YooKassa      ordering, paying, the webhook        -- implements --> PaymentLedger
        Trial         the free trial
        ExpiryNotifier   notices that access ends
          Access      YooKassa, Trial and ExpiryNotifier in one process on one panel
      PlanCatalog     the administrators' side of the table of plans
      RateLimiter     the limiter in Redis
        SignIn        codes by e-mail, users, sessions
          SupportTickets   tickets beside the sign-in whose sessions they read
    Calculator        the price of a custom offer

    PanelProofs       lemmas about RemnaPanel
      YooKassaProofs  theorems about YooKassa
      TrialProofs     theorems about Trial
      NotifierProofs  theorems about ExpiryNotifier
      AccessProofs    theorems about Access, from those of its three parts
    CatalogProofs     theorems about PlanCatalog
    CalculatorProofs  theorems about Calculator
    SupportProofs     theorems about SupportTickets and SignIn
    MCYooKassa, MCTrial, MCAccess, MCNotifier, MCCatalog, MCSupport   small instances

Payments see the catalogue through `WritePlan`, which may change any row at any
moment. Every statement of `PlanCatalog` writes one row at most, so that each is
such a step or leaves what is offered alone; this is read off its actions, and not
proved, since the two are not composed.

**Server.** `clock` counts days; `crashes` counts kills. A restart loses every
goroutine and keeps the databases, so each module with goroutines says what it
loses (`LoseWorkers`, `LoseTrials`).

**RemnaPanel.** `panel[a]` is the account stored under UUID `a`. The site
creates an account for user `u` under `u`'s own id (service.go:168,
trial.go:64), so `Users` are UUIDs too; `Foreign` are the UUIDs operators
create. `FoundBy(u)` is `GetUserByEmail`: any account with that e-mail may be
the first of the list. `CreateAccount` is refused for a UUID that exists.
`ExtendAccount` is the PATCH the handlers send: it replaces the expiry and, the
other fields being `omitempty` and left out, keeps the device limit.
`AdminUpdateUser` and `AdminCreateUser` are the operators. `granted` and
`ceiling` are history: days granted by the site, latest date given by operators
(-1 while none has given one).

**YooKassa.** An order (`orders[p]`) stands for the metadata the provider keeps
and echoes. The catalogue may change at any moment (`WritePlan`). A webhook
goroutine holds `PaymentSuccess`'s locals and takes one step per external call:

| `pc` | code (service.go) | outcomes |
| --- | --- | --- |
| `lookup` | 101-106 | row found: return; none: go on; error: return it |
| `plan` | 108-140 | custom offer or plan read; plan gone; error |
| `insert` | 142-158 | committed; refused by the key; error; committed and answer lost |
| `find` | 163-181 | not found; some account; error |
| `create` | 165-178 | done (answered or not); refused; error |
| `update` | 183-193 | done (answered or not); error |
| `answer` | handler.go:236-243 | always 200; the provider may or may not see it |

`mishap[p]` is history: which kinds of call failed for a payment. A request the
panel carried out but did not answer ends the handler exactly as an answered
one does (the error is dropped), so the two are one outcome.

**PaymentLedger.** What the site promises of a payment with no goroutines in
sight: open, paid, taken, then credited or lost, and never back.
`YooKassa!LedgerSpec` is the refinement, with each payment's stage computed from
the table, the goroutines and the provider (`StageOf`).

**Trial.** The same for `StartTrial`: check, find, create or update, mark. An
error of Redis counts as "not used" (trial.go:46); any error of the lookup leads
to a creation (trial.go:60). `unguarded` is history: customers for whom the
once-only check could not work (Redis failed, a request was past its check, the
panel's answer was lost, the process was killed before the mark). `crowded` is
history too: customers who may have come by a second account, because a lookup
failed to return the one they had or because operators gave them another.
`GetSubscription` is what the customer's page may then say
(handlers/subscription.go).

**Access.** Instances of YooKassa, Trial and ExpiryNotifier over the same clock
and panel; one crash ends goroutines of all kinds. Payments, trials and operators
write the accounts; the notifier reads all of them once and works through its
list while they do.

**ExpiryNotifier.** A run of the job is a goroutine with the list it read
(`list`), what is left of it (`todo`) and the account at hand; `pc` is `list`
(jobs:88), `next` (100-124, the check included), `send` (126-135) and `save`
(144-151). `StartUp` is the run main.go launches at start-up, `Cron` the one of
every noon; nothing keeps them apart. The table holds notices dated by the run's
own `now`. A mail or a record that fails is logged and the run goes on (`GoOn`).
`trouble` is history: notices a call of which failed, over which two runs met, or
whose mail went out just before a kill. `missed` is history kept with a run: the
accounts that this very run failed to mail or to record, which is the only excuse
`NobodyPassedOver` grants when the run ends.

**PlanCatalog.** A row is its place, its flag `active`, and the rest.
`AddPlan` and `DeletePlanWithID` are one statement each. `UpdatePlan` reads
(`UpdatePlan`) and saves (`SavePlan`); `AdminReorderPlans` is one `MovePlan` per
turn of its loop, with no transaction around them, and `EndReorder`, its 200. A
statement may fail, or be carried out and not answered. `said` is history: the
table as the requests that were answered leave it, each taken at its word and one
at a time; a request that fails, is killed, or relies on a plan that another
request has written meanwhile (`crossed`) is taken at what it has done. A reorder
that names a plan twice leaves it where the later move puts it (`LastMove`).

**Calculator.** `CalculatePlan` in exact fractions: the piecewise price of one
device, the piecewise share of a further one, the product rounded once, the
floor of 99. A state is a request and its answer, a step is the next request.

**RateLimiter.** `redis_rate`, as used by `SendCode`, `Login` and
`CreateTicket`: for each key the time by which all requests let through would
have been earned, compared with the clock and the burst in one atomic script. The
script is the library's, and is here for what it lets the handlers do next to each
other; no property is about it. `Limit` holds the limits the handlers ask for. The
code and its comment disagree about the one for tickets: support.go:66 says 3 per 15
minutes, and lines 67-71 ask for 3 per minute, which is what the model has.

**SignIn.** `SendCode` is admit, store, mail; `Login` is admit, compare, spend,
find, create, save the session; one step for each call to Redis, PostgreSQL or
the mail service, by goroutines (`Doors`) that a kill empties. `issue` numbers
the codes kept, so that two draws of the same digits are told apart. Two logins
that both match a code, or a deletion that fails, are `doubtful`; codes lost to
a login that failed, or deleted by one that held an older code, are `unlucky`.

**SupportTickets.** `CreateTicket` is admit, read the session, insert; the
goroutine it leaves behind is `Announce`. `AdminUpdateTicketStatus` is one
statement. It runs beside `SignIn`, whose sessions it reads.

## 3. Runs

Each property of a passing run has a mutant in `PROJECT.json`: a plausible bug
(an operator commented `Mutant:` next to the one it replaces) under which TLC
finds the property violated with the same configuration.

| Run | Question | Result |
| --- | --- | --- |
| `YooKassa_webhooks` | two payments of one customer, two goroutines, all failures, one kill, one day change | each credited at most once (`CreditedAtMostOnce`), and never for more than its days (`NoFreeTime`); every loss has a cause (`LossIsExplained`, `AckedIsSettled`); the panel refuses a payment only after a race (`RefusedIsRace`); a grant gives its full term beyond today and the old expiry unless what was read is stale (`FullTermUnlessStale`); implements the ledger (`LedgerSpec`) |
| `YooKassa_settles` | liveness: two payments, one goroutine, one kill | every successful payment ends credited or with a failure on file (`Settles`) |
| `Trial_once` | two requests of a customer at a time, two trials at most, operators' accounts under their own id or another, two day changes, one kill | a second trial only where the check could not work (`OnceUnlessUnguarded`); no mark without a trial (`MarkedWasGiven`), no trial without a mark (`GivenIsMarked`); access that runs is shown (`LiveIsShown`) |
| `Access_both` | a payment of a plan or of a custom offer, a trial, an operator writing the account, an administrator rewriting, removing and restoring the plan, a change of day, one kill | `NoFreeTime`, `FullTermUnlessStale` and `RefusedIsRace` for the composition; recorded and granted is what was sold unless the plan was written meanwhile (`SoldIsRecorded`) |
| `Access_notices` | two accounts of a customer, a payment that renews one of them, an operator who writes either, failing calls and one kill, between the steps of the notifier's run | a run that ends has told of every account on its list that was due, or failed at that very account (`NobodyPassedOver`): no account and no failure keeps it from the others; `NoFreeTime` for accounts that operators gave days to come; `OnceUnlessTrouble` and `NoFalseAlarm` in the company of the writers: who has just paid is told that access ends only by a run that had listed the account before |
| `Notifier_runs` | two overlapping runs over three days, all failures, an operator, one kill | a notice is sent twice only after a failure, an overlap or a kill (`OnceUnlessTrouble`); a record means a mail (`RecordedWasMailed`); nobody with more than three days left is told, unless prolonged after the listing (`NoFalseAlarm`) |
| `Catalog_admins` | two administrators edit, reorder, add and delete two plans, all failures, one kill | the table, and what the public is offered, is what was answered, crossings and failures apart (`AsAcknowledged`); a deleted plan returns only by an edit that had read it (`DeletedStaysDeleted`) |
| `Calculator_quotes` | every accepted request after every other | asking for more costs more (`MoreCostsMore`); one order is never dearer than two for the same term, two single months apart (`SplittingNeverPays`) |
| `Support_site` | sign-in of one e-mail in two goroutines, two tickets beside it, limiters, all failures, one kill | `CodeSignsInOnce` and `MailedCodeWorks` up to named accidents; `TicketIsAnnounced` unless its mail failed or the process was killed; `AuthorsSignedIn` |
| `YooKassa_activated` | is a paid and acknowledged order always active? (support.go:37) | **violated**: one failed call after the lookup suffices |
| `YooKassa_limit` | does the account get the plan's device limit? (support.go:41) | **violated** for every customer who already has an account |
| `Access_prolong` | do grants only prolong? (trial.go:55) | **violated**: a stale read moves the expiry back |

The three violations are described under "findings" in `PROJECT.json`.

Two more statements of the source do not hold, and are stated here through the
exact condition under which they fail, which the passing runs check. The trial's
mark is called permanent (trial.go:95) and a second request is told the trial has
been used (trial.go:47); overlapping requests, or one failure of Redis, give it
twice (`OnceUnlessUnguarded`). The notice of expiry is "one and done"
(check_expiring_subscriptions.go:173); two overlapping runs, or a failed query,
send it again (`OnceUnlessTrouble`).

**What the excuses mean.** Several properties name the accidents after which they
promise nothing, in history variables: `mishap`, `unguarded`, `crowded`, `repriced`,
`crossed`, `trouble`, `doubtful`, `unlucky`, `unheard`. The code does not prevent
these accidents, and most of them are the very hazards listed in `PROJECT.json`: a
property of this form does not say that the bad outcome is excluded, it says that
*nothing else* leads to it. So `OnceUnlessUnguarded` says that overlap, a failed
Redis, a lost answer and a kill are all the ways to a second trial, and not that
there is none. Such a variable is set by the step at which the accident happens and
for the one it happens to (a payment, a customer, a notice, a code), so that one
accident does not excuse another's outcome; and it stays set, so that what follows
later from the same accident is excused as well. The staleness that
`FullTermUnlessStale` excuses is narrower: only what the goroutine that writes had
itself read. So is `missed`, which a run loses when it ends.

Seen while modelling and neither a property nor a finding: the comment at
support.go:66 gives the ticket limit as 3 per 15 minutes, the code at lines 67-71 as
3 per minute, which is seen by reading the two and needs no run; an `AddPlan` with
`active: false` is stored active, because the column has a default and gorm leaves
out zero values (compare the intent at plans.go:51-54); two single months cost less
than two months at once from four devices on.

**Bounds and why they are enough.** Two goroutines are what an overlap needs: every
race here is between one handler that has read and another that writes in between.
Two payments of one customer are needed for two *different* payments to meet on one
account (lost update, refused creation); one payment with two goroutines covers
repeated deliveries. One kill reaches every pair of adjacent calls; the handlers keep
nothing across restarts, so a second kill meets a state a first one can also leave.
`MaxDay = 2` with operators' accounts that expire on day 1 puts an expiry before, on
and after `now` in `Trial_once`; one change of day lets the two clock readings of
`PaymentSuccess` differ, and in `Access_both` an operator's date, day 0, is today or
past and a grant's is to come. A plan has two possible rows so that an edit is
visible, and one custom offer takes the "unlimited" branch. Operators' accounts carry
a device limit that differs from the plans'. `Access_both` runs without the notifier,
which writes nothing the others read; `Access_notices` has only what can cross it:
one payment that prolongs, an operator whose dates end soon once the day has changed,
and one run at a time. It has two accounts, the customer's own and one that an
operator made, so that a failure at one could keep the run from the other; a kill
there is one more way for a run to end, and the runs after it meet what it left on
record. `Notifier_runs` has what takes two runs at once, and one account: its checks
are keyed by account, and two goroutines on one account are what a duplicate takes.
Its two expiry dates make the account far, due soon (on the boundary of three days)
and expired on the three days of the run, so that both kinds of notice arise.
`MaxTrials` is 2 where a second trial is the question; one customer is enough there,
since keys and accounts are looked up by e-mail and a request touches nothing of
another's. The catalogue has two plans because a reorder needs two, and arrangements
that contradict each other; patches name one field each, so that two edits meet on
one field or on two. Support has one e-mail, one browser and one address: codes,
sessions and limiter keys are per e-mail, browser and address, and what interferes is
two goroutines of the same one. Two goroutines file two tickets, so that each has the
other's to mix up with its own. That a ticket names the customer who was signed in,
and not another one, is left to `TicketsHaveAuthors`, which holds for any e-mails.
`MaxIssues = 2` codes and `MaxRequests = 4` let a code be replaced while a login
holds the first. `CodeLife` (15 minutes, 150 periods of 6 seconds) is shrunk to 2
periods and `TicketInterval` (20 seconds, 3 1/3 periods) to 1, so that codes expire
and limiters fill up and recover within the run; the order of events is what the
properties depend on, and a code outliving every limiter interval by far changes none
of the orders. `PlanRows`, `CustomRequests` and `OperatorAccounts` are constants: the
proofs hold for any. Symmetry is used only where no liveness is checked.

**Deadlock** checking is off, except in `Calculator_quotes`, because an instance
really stops: a finite set of payment ids is sold and settled, the ids of the
table of plans are used up, the days end, and the server has nothing left to do.

**Fairness** appears in `YooKassa_settles` only. `WorkersRun`: a webhook
goroutine that can step does. Its calls to the panel end by the client's timeout
(15 s, remna/client.go:51; 600 s over all, service.go:160). Its calls to the
database have no timeout, since `PaymentSuccess` passes them no context; that each
of them returns, with a result or an error, is assumed of the database.
`ProviderRetries`: the provider repeats a notification that has not been
answered, and since goroutines come free only at times this is strong fairness.
Nothing is assumed about failures, kills or the arrival of customers.

## 4. Proofs

The theorems hold for any finite or infinite sets of payments, goroutines, users,
plans, rows, requests, e-mails, browsers, codes and accounts, and for arbitrary
bounds. What they assume is named where the constants are declared:

| Assumption | Says |
| --- | --- |
| `ServerAssumption` | `MaxDay` and `MaxCrashes` are naturals |
| `PanelAssumption` | operators' UUIDs are not site users', and `None` is no account |
| `YooKassaAssumption` | constants have their types; `Custom` is not a plan's id |
| `TrialAssumption` | `MaxTrials` is a natural |
| `AccessAssumption` | the assumptions of `YooKassa`, `Trial` and `ExpiryNotifier` |
| `NotifierAssumption` | accounts without an e-mail or a date are accounts |
| `CatalogAssumption` | requests are over the fields of a row, and `None` is neither a row nor a goroutine |
| `LimiterAssumption`, `SignInAssumption`, `TicketAssumption` | the interval for tickets is a positive natural, the life of a code and the bounds are naturals; `None` is no e-mail and no stored code |

`PanelProofs` holds what the modules over the panel need of it: its initial state, a
creation, an extension and the surroundings keep its types, and nothing takes a
grant back.

Of `YooKassa`:

| Theorem | Says | Inductive part |
| --- | --- | --- |
| `TypeCorrect` | `[]TypeOK` | `HandlersReady`: a handler past a step holds what the step filled in; without it what `update` writes has no type |
| `AtMostOneCredit` | `[]CreditedAtMostOnce` | `LedgerInv`: at most one goroutine is between a payment's row and its credit, the payment it holds is recorded and uncredited, and an unrecorded payment is uncredited |
| `NoUnexplainedLoss` | `[]LossIsExplained` | part of `LedgerInv`; the cause is recorded by the same step that drops the payment |
| `AckedSettled` | `[]AckedIsSettled` | `SettledInv`: a handler only reaches its answer with the payment recorded or a failure on file, and rows, statuses and failures are never taken back |
| `NoTimeForFree` | `[]NoFreeTime` | `TimeInv`: clock readings a handler holds are not in the future, and the expiry it remembers lies below a bound that only grows |
| `SoldIsGranted` | `[]SoldIsRecorded` | `SoldInv`: an order nobody wrote the plan of still reads as the offer it was made for, and so do the row and every handler past reading it; only what was ordered is recorded |
| `FullTerm` | `FullTermUnlessStale` | `HandlersReady`; only an extension grants to an account that existed, and one with current readings adds its days to what is left |
| `RefusalIsRace` | `[]RefusedIsRace` | `RaceInv`: an account under a customer's UUID was dated by an operator or made by a credited payment, which stays so |
| `ImplementsLedger` | `LedgerSpec` | `LedgerInv`, and one lemma that maps every step to a step of the ledger or a stutter |

Of `Trial`:

| Theorem | Says | Inductive part |
| --- | --- | --- |
| `TypeCorrect` | `[]TypeOK` | `UpdatesAccounts`: a request about to prolong holds an account and not `None` |
| `TrialOnceIfGuarded` | `[]OnceUnlessUnguarded` | `GuardWorks`: a customer who is not `unguarded` has at most one request past its check, no trial yet while that request has still to give one, and the mark, or a request about to write it, once it is given |
| `MarkMeansTrial` | `[]MarkedWasGiven` | `MarksFollowTrials`: a request about to mark has given a trial |
| `TrialMeansMark` | `[]GivenIsMarked` | `GuardWorks` again |
| `LiveAccountIsShown` | `[]LiveIsShown` | `OneAccount`: a customer who is not `crowded` has at most one account, and none while a request is about to create it |

Of `Access`, where every step is a step of `YooKassa`, of `Trial` or of
`ExpiryNotifier`, or one they share. To the writers of accounts a step is seen as
one of theirs or as one that leaves both alone (`Sides`); to the notifier, whatever
is not its own step or the kill is a step of `Others`, who may write the accounts in
any well-typed way and move the clock forward (`NotifierSide`). `NotifierProofs`
proves every step lemma for `AnyNext`, beside such others, and so each part's
invariants are kept by its own steps through the lemmas of its own module; what is
proved here is that the steps of the rest do not disturb them:

| Theorem | Says | Inductive part |
| --- | --- | --- |
| `TypeCorrect` | `[]TypeOK` | the type invariants of the three parts, which agree on clock and panel |
| `ImplementsLedger` | `LedgerSpec` of `YooKassa` | `LedgerInv`: nobody else touches anything the ledger reads |
| `AtMostOneCredit`, `NoUnexplainedLoss`, `AckedSettled` | `CreditedAtMostOnce`, `LossIsExplained` and `AckedIsSettled` of `YooKassa` | `LedgerInv` and `SettledInv`: nobody else touches a row, an answer, a credit or a mishap |
| `TrialOnceIfGuarded`, `MarkMeansTrial`, `TrialMeansMark` | `OnceUnlessUnguarded`, `MarkedWasGiven` and `GivenIsMarked` of `Trial` | `GrantsInv`: nobody else touches the key or the requests |
| `FullTerm` | `FullTermUnlessStale` | as for `YooKassa`; only what the writing goroutine, of either kind, has read may be stale |
| `NoTimeForFree` | `[]NoFreeTime` | `TimeInv` of both writers: what a trial remembers of the clock and of its account lies below the bound that payments use, and each side only raises it |
| `RefusalIsRace` | `[]RefusedIsRace` | `RaceInv`, with the trial as the third that may have made the account |
| `SoldIsGranted` | `[]SoldIsRecorded` | `SoldInv`, which nobody else touches |
| `RecordMeansMail` | `RecordedWasMailed` of `ExpiryNotifier` | `MailInv` |
| `ToldOnce`, `EverybodyIsTold` | `[]OnceUnlessTrouble`, `NobodyPassedOver` | `OnceInv` and `PassInv` of the notifier: they speak of the list a run holds, so that a write to the panel leaves them be |
| `AlarmsAreTrue` | `NoFalseAlarm` | the notifier's `AtHand`: an account mailed against the panel's word is one whose list entry is out of date |

Of `SupportTickets`, which includes `SignIn` and the limiter:

| Theorem | Says | Inductive part |
| --- | --- | --- |
| `TypeCorrect` | `[]TypeOK` | `DoorsKnow`, `CodesKnow`, `ClerksKnow`: a goroutine past storing or matching a code, a key in Redis, and a goroutine about to tell the team speak of a code or a ticket that exists, and of its e-mail |
| `OneSignInPerCode` | `[]CodeSignsInOnce` | `OneUse`: a code that is not `doubtful` is in at most one goroutine's hand, has signed nobody in while it is, and is out of Redis once it was spent |
| `NoCodeIsLost` | `[]MailedCodeWorks` | `Accounted`: the same of every code stored, mailed or not |
| `TicketsHaveAuthors` | `[]AuthorsSignedIn` | `AuthorsInv`: whom a session, a request or a ticket names is a user and has signed in |
| `TeamIsTold` | `[]TicketIsAnnounced` | `ToldInv`: a ticket is announced, unheard of with a cause, or in the hands of the goroutine that will send it |

Of `PlanCatalog`:

| Theorem | Says | Inductive part |
| --- | --- | --- |
| `TypeCorrect` | `[]TypeOK` | `Sound`: a reorder is not past the end of its list |
| `TableIsAcknowledged` | `[]AsAcknowledged` | `CatalogInv`: what an edit or reorder that nobody crossed has read or written is still in the table (`Fresh`), and the table differs from what was acknowledged in places only, and only of plans that are being moved (`Agrees`) |
| `DeletedPlansStay` | `DeletedStaysDeleted` | `Fresh` again: an edit that nobody crossed finds the row it has read |

Of `ExpiryNotifier`:

| Theorem | Says | Inductive part |
| --- | --- | --- |
| `TypeCorrect` | `[]TypeOK` | `ListKept`, `AtHand`: the account a run is at is one of its list and due by the run's own clock |
| `RecordMeansMail` | `[]RecordedWasMailed` | `MailInv`: a run about to record has mailed |
| `ToldOnce` | `[]OnceUnlessTrouble` | `Once`, for a notice without trouble: at most one run is about to send or record it, it found none on record that would stop it, and what was mailed is on record or will be by that run |
| `EverybodyIsTold` | `NobodyPassedOver` | `PassInv`: what a run has gone past is settled: on record, not due, or among those it has `missed`; a step that ends a run finds nothing left of its list |
| `AlarmsAreTrue` | `NoFalseAlarm` | `AtHand`: the account about to be mailed was due when it was listed, and the clock has not gone back |

Of `Calculator`, where TLC goes through every request the code accepts and the
proofs say why the result is what it is. Every exact price is a natural number
over one denominator (`Exact`, `Unit`), and the answer is the integer next to it
(`PriceIsNearest`):

| Theorem | Says | Argument |
| --- | --- | --- |
| `MoreAlwaysCostsMore` | `MoreCostsMore` | a longer term makes one device dearer by a ruble at least and a further device no cheaper (`LongerCostsMore`), a further device costs 120 rubles at least; a difference of a ruble survives the rounding |
| `SplittingNeverPaysOff` | `[]SplittingNeverPays` | two parts cost half a ruble more than the whole before rounding (`TogetherCostsLess`), which pays for the two roundings; two years of one device, where the difference is less, are compared after it |

Only model-checked: `Settles`, since liveness under fairness is out of the prover's
reach. `LiveIsShown` is checked and proved for `Trial` alone, where a customer's
accounts come from trials and operators (`crowded`); in `Access` a payment that is
about to create an account may be crowded too, which `crowded` does not record.

## 5. Abstractions

- Time is in whole days; `72 * time.Hour` is three days, `AddDate(0, 0, n)` is
  `n` days, a custom month is 30 days (handler.go:138).
- E-mails and users correspond one to one (`models.User` has a unique index).
- A panel request that was not answered within its timeout is carried out
  before the handler goes on, or not at all; it does not take effect later.
- Accounts are not deleted: the client has no call for it.
- The panel answers `GET /users` with all accounts at once; `Mute` stands for
  accounts without an e-mail or a date (jobs:103-110).
- Duplicate notices are counted by the day of the run, which is what the table
  records, and not by the day a mail arrives.
- Prices, months and devices of a request are naturals; the code checks only
  that they are not zero (handler.go:120-126).
- The 400 answers of `Webhook` to a malformed body are left out: the provider
  echoes metadata this site wrote. So is `CreatePayment` being called without a
  session, which the middleware refuses.
- A plan's `Save` of a row that is gone inserts it, and an insert stores `active`
  as TRUE whatever the request says: that is gorm, modelled as external.
- The clock of the sign-in counts periods of 6 seconds, the limiters' unit for
  `SendCode` and `Login`. A code is told right or wrong by comparing it; how it is drawn is left out,
  and two draws may be equal.
- A mail service that answers with an error is, to `SendCode`, one that answered:
  the customer is told "Code sent" either way, so a mail is delivered or not and
  the handler goes on the same. The `retry_after` of 60 seconds in its answers is
  wording; the limiter's interval is 6 seconds.
- The four ticket statuses after `open` are one: nothing distinguishes them.
- On the subscription page a lookup that fails reads as `none`; `LiveIsShown` is
  about the answers given when the panel replies.
- The price formula is computed in float64 by the code and in fractions here; the
  two agree on all 240 requests (the two that lie on a half are noted in
  `Calculator`).
- That only the provider calls the webhook is trusted. `Webhook` is guarded by
  `Succeeded(p)`, a payment that was really paid; the route is public and the handler
  looks at nothing but the `event` field (handler.go:178), so that the code itself
  does not establish the guard. What is checked and proved of payments is worth what
  that assumption is worth.
- Squads, usernames, tags, descriptions and log lines are left out.
- `GetUserByEmail` treats a status of 300 or more as an error different from
  "not found" (client.go:83, 176); both outcomes are in `FindUser`.

## 6. Not modelled

- `internal/auth`: not registered by `main.go`.
- `GetProfile`, `Me`, `GetTickets`, `AdminGetAllTickets`, `GetSupport` and the
  read-only admin handlers of the panel: they read and format.
- `RequireAuth`, `RequireAdmin` and CORS: a check of one request's own headers and
  session, with no state.
- Start-up (`config`, `db`, Redis): runs once before anything is served, and
  ends the process when it fails.
- The provider, the panel, the mail service and the databases themselves:
  external, modelled by how this code uses them.

## 7. Plan

Written, in this order: `Server` and `RemnaPanel`; `YooKassa` with
`PaymentLedger` and its proofs; `Trial`; `Access`; `ExpiryNotifier`;
`PlanCatalog` and `Calculator`; `RateLimiter`, `SignIn` and `SupportTickets`;
the proofs of `Trial`, `SupportTickets`, `PlanCatalog` and `ExpiryNotifier`, of
the remaining safety properties of `YooKassa`, and of `Access`; the notifier in
`Access`, and the proofs of that and of `Calculator`.
