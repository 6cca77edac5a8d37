-------------------------------- MODULE Access -------------------------------
(***************************************************************************)
(* Access from its grant to its end: webhooks of payments (YooKassa) and   *)
(* requests for the trial (Trial) write the accounts of one panel,         *)
(* together with the operators' handlers, while the notifier               *)
(* (ExpiryNotifier) goes through a list of them.  All of it runs in one    *)
(* process, and killing that ends every kind of goroutine at once.         *)
(***************************************************************************)
EXTENDS RemnaPanel

CONSTANTS Payments, Workers, PlanIds, PlanRows, CustomRequests, Custom,
          TrialWorkers, MaxTrials, Jobs, Mute

VARIABLES plans, orders, payments, acked, worker, credits, mishap, repriced,
          trialUsed, trial, trials, unguarded, crowded,
          started, noon, job, notices, mails, trouble

Pay == INSTANCE YooKassa

Free == INSTANCE Trial

Notify == INSTANCE ExpiryNotifier

\* What YooKassa, Trial and ExpiryNotifier ask of their constants.
ASSUME AccessAssumption ==
  /\ PlanRows \subseteq Pay!Offer
  /\ CustomRequests \subseteq Pay!CustomRequest
  /\ Custom \notin PlanIds
  /\ None \notin Pay!Offer /\ None \notin Pay!Order /\ None \notin Pay!Row
  /\ None \notin Payments
  /\ MaxTrials \in Nat
  /\ Mute \subseteq Accounts

payVars == <<plans, orders, payments, acked, worker, credits, mishap, repriced>>

trialVars == <<trialUsed, trial, trials, unguarded, crowded>>

notifierVars == <<started, noon, job, notices, mails, trouble>>

vars == <<serverVars, panelVars, payVars, trialVars, notifierVars>>

\* The types of every kind of goroutine, of the tables and of the panel.
TypeOK == Pay!TypeOK /\ Free!TrialTypeOK /\ Notify!TypeOK

Init == ServerInit /\ PanelInit /\ Pay!PayInit /\ Free!TrialInit /\ Notify!NotifierInit

Crash ==
  /\ Restart
  /\ Pay!LoseWorkers
  /\ Free!LoseTrials
  /\ Notify!LoseJobs
  /\ UNCHANGED panelVars

Next ==
  \/ Pay!PayStep /\ UNCHANGED <<trialVars, notifierVars>>
  \/ Free!TrialStep /\ UNCHANGED <<payVars, notifierVars>>
  \/ Notify!NotifierStep /\ UNCHANGED <<payVars, trialVars>>
  \/ Crash
  \/ /\ Surroundings
     /\ Free!OperatorsCrowd
     /\ UNCHANGED <<payVars, trialUsed, trial, trials, unguarded, notifierVars>>

Spec == Init /\ [][Next]_vars

-----------------------------------------------------------------------------
(* Properties. *)

\* Payments and trials together never prolong an account beyond the later of
\* today and what operators gave it by more than the days they granted.
NoFreeTime == Pay!NoFreeTime

\* A payment or a trial granted to an existing account gives its full term on
\* top of what the account had left, or from today if it had expired, unless the
\* account was written or the day changed since the handler that grants it looked.
FullTermUnlessStale ==
  [][\A a \in Accounts :
       Exists(a) /\ granted'[a] > granted[a]
         => \/ panel'[a].expire
                  >= Later(panel[a].expire, clock) + (granted'[a] - granted[a])
            \/ \E w \in Workers : worker'[w] # worker[w] /\ Pay!Stale(worker[w], a)
            \/ \E h \in TrialWorkers : trial'[h] # trial[h] /\ Pay!Stale(trial[h], a)]_vars

\* A first payment is refused by the panel only when a trial or another payment
\* of the customer made the account meanwhile, or an operator wrote an account
\* with the customer's UUID.
RefusedIsRace ==
  \A p \in Payments :
    "refused" \in mishap[p] =>
      \/ trials[orders[p].user] > 0
      \/ ceiling[orders[p].user] >= 0
      \/ \E q \in Payments \ {p} : credits[q] = 1 /\ orders[q].user = orders[p].user

\* What is recorded and granted is what was sold, whatever else runs.
SoldIsRecorded == Pay!SoldIsRecorded

\* Payments and trials that write accounts while the notifier goes through its
\* list make it neither repeat a notice, nor end before everybody due is told,
\* nor tell one who has more than three days left, unless their account was
\* written after the run had listed it.
OnceUnlessTrouble == Notify!OnceUnlessTrouble

NobodyPassedOver == Notify!NobodyPassedOver

NoFalseAlarm == Notify!NoFalseAlarm

\* trial.go:55 says of trials and payments alike that an account that exists is
\* prolonged: neither ever moves an expiry back.
GrantsProlong ==
  [][\A a \in Accounts :
       Exists(a) /\ granted'[a] > granted[a]
         => panel'[a].expire >= panel[a].expire]_vars

=============================================================================
