---------------------------- MODULE AccessProofs ------------------------------
(***************************************************************************)
(* Proofs about Access.  A step of the composition is a step of YooKassa,  *)
(* of Trial or of ExpiryNotifier, or one they share; the invariants of     *)
(* each, proved in YooKassaProofs, TrialProofs and NotifierProofs, are     *)
(* kept by their own steps, and what is left to prove here is that the     *)
(* steps of the others disturb them neither.                               *)
(***************************************************************************)
EXTENDS Access, TLAPS

P == INSTANCE YooKassaProofs

F == INSTANCE TrialProofs

N == INSTANCE NotifierProofs

(***************************************************************************)
(* The theorems of P, F and N hold under their assumptions, which are      *)
(* those of Access.                                                        *)
(***************************************************************************)
\* What YooKassaProofs assumes.
LEMMA PayAssumes ==
  /\ MaxDay \in Nat /\ MaxCrashes \in Nat
  /\ Users \cap Foreign = {}
  /\ OperatorAccounts \subseteq P!Account /\ None \notin P!Account /\ None \notin P!Accounts
  /\ PlanRows \subseteq P!Offer
  /\ CustomRequests \subseteq P!CustomRequest
  /\ Custom \notin PlanIds
  /\ None \notin P!Offer /\ None \notin P!Order /\ None \notin P!Row
  /\ None \notin Payments
BY ServerAssumption, PanelAssumption, AccessAssumption
DEF Account, Accounts, P!Account, P!Accounts, Pay!Offer, Pay!CustomRequest, Pay!Order, Pay!Row,
    P!Offer, P!CustomRequest, P!Order, P!Row

\* What TrialProofs assumes.
LEMMA TrialAssumes ==
  /\ MaxDay \in Nat /\ MaxCrashes \in Nat
  /\ Users \cap Foreign = {}
  /\ OperatorAccounts \subseteq F!Account /\ None \notin F!Account /\ None \notin F!Accounts
  /\ MaxTrials \in Nat
BY ServerAssumption, PanelAssumption, AccessAssumption
DEF Account, Accounts, F!Account, F!Accounts

\* What NotifierProofs assumes.
LEMMA NotifierAssumes ==
  /\ MaxDay \in Nat /\ MaxCrashes \in Nat
  /\ Users \cap Foreign = {}
  /\ OperatorAccounts \subseteq N!Account /\ None \notin N!Account /\ None \notin N!Accounts
  /\ Mute \subseteq N!Accounts
BY ServerAssumption, PanelAssumption, AccessAssumption
DEF Account, Accounts, N!Account, N!Accounts

(***************************************************************************)
(* Access names the operations of its three parts through instances of its *)
(* own; they are the same operations.                                      *)
(***************************************************************************)
\* A step of a webhook, of the shop or of an administrator.
LEMMA SamePayStep == Pay!PayStep <=> P!PayStep
BY DEF
  Pay!PayStep, Pay!Shop, Pay!CreatePayment, Pay!CreateCustomPayment, Pay!Place, Pay!CustomOffer,
  Pay!ProviderSettles, Pay!Pending, Pay!IgnoreWebhook, Pay!Canceled, Pay!Webhook,
  Pay!Succeeded, Pay!Idle, Pay!Handling, Pay!WritePlan, Pay!Work, Pay!LookupPayment,
  Pay!ReadPlan, Pay!InsertPayment, Pay!Answer, Pay!FindUser, Pay!CreateUser, Pay!UpdateUser,
  Pay!At, Pay!Goto, Pay!Finish, Pay!GiveUp, Pay!Recorded, Pay!Sold, Pay!Conflict, Pay!Record,
  Pay!Buyer, Pay!Credit, Pay!panelVars, Pay!serverVars, Pay!FoundBy, Pay!Exists, Pay!Refuses,
  Pay!CreateAccount, Pay!ExtendAccount, Pay!NewExpire, Pay!Accounts,
  P!PayStep, P!Shop, P!CreatePayment, P!CreateCustomPayment, P!Place, P!CustomOffer,
  P!ProviderSettles, P!Pending, P!IgnoreWebhook, P!Canceled, P!Webhook,
  P!Succeeded, P!Idle, P!Handling, P!WritePlan, P!Work, P!LookupPayment,
  P!ReadPlan, P!InsertPayment, P!Answer, P!FindUser, P!CreateUser, P!UpdateUser,
  P!At, P!Goto, P!Finish, P!GiveUp, P!Recorded, P!Sold, P!Conflict, P!Record,
  P!Buyer, P!Credit, P!panelVars, P!serverVars, P!FoundBy, P!Exists, P!Refuses,
  P!CreateAccount, P!ExtendAccount, P!NewExpire, P!Accounts

\* A step of a request for the trial.
LEMMA SameTrialStep == Free!TrialStep <=> F!TrialStep
BY DEF
  Free!TrialStep, Free!StartTrial, Free!Serve, Free!CheckTrial, Free!FindForTrial,
  Free!CreateTrial, Free!UpdateTrial, Free!MarkTrial, Free!At, Free!Goto, Free!Return,
  Free!Suspect, Free!Asking, Free!Resting, Free!AlreadyUsed, Free!Overlaps, Free!TrialSteps,
  Free!Proceed, Free!Give, Free!AfterGrant, Free!Fail, Free!TrialDays, Free!TrialDevices,
  Free!panelVars, Free!serverVars, Free!FoundBy, Free!Exists, Free!Refuses,
  Free!CreateAccount, Free!ExtendAccount, Free!NewExpire, Free!Accounts,
  F!TrialStep, F!StartTrial, F!Serve, F!CheckTrial, F!FindForTrial,
  F!CreateTrial, F!UpdateTrial, F!MarkTrial, F!At, F!Goto, F!Return,
  F!Suspect, F!Asking, F!Resting, F!AlreadyUsed, F!Overlaps, F!TrialSteps,
  F!Proceed, F!Give, F!AfterGrant, F!Fail, F!TrialDays, F!TrialDevices,
  F!panelVars, F!serverVars, F!FoundBy, F!Exists, F!Refuses,
  F!CreateAccount, F!ExtendAccount, F!NewExpire, F!Accounts

\* A step of the notifier.
LEMMA SameNotifierStep == Notify!NotifierStep <=> N!NotifierStep
BY DEF
  Notify!NotifierStep, Notify!StartUp, Notify!Cron, Notify!Begin, Notify!Beginning, Notify!Run,
  Notify!ListUsers, Notify!Finish, Notify!Visit, Notify!SendMail, Notify!SaveNotice, Notify!At,
  Notify!AllUsers, Notify!Skip, Notify!Check, Notify!Due, Notify!DueSoon, Notify!KindFor,
  Notify!Expired, Notify!AlreadyNotified, Notify!Overlaps, Notify!Proceed, Notify!Blame,
  Notify!GoOn, Notify!Deliver, Notify!NewNotice, Notify!Resting, Notify!Exists, Notify!Accounts,
  Notify!panelVars, Notify!serverVars,
  N!NotifierStep, N!StartUp, N!Cron, N!Begin, N!Beginning, N!Run,
  N!ListUsers, N!Finish, N!Visit, N!SendMail, N!SaveNotice, N!At,
  N!AllUsers, N!Skip, N!Check, N!Due, N!DueSoon, N!KindFor,
  N!Expired, N!AlreadyNotified, N!Overlaps, N!Proceed, N!Blame,
  N!GoOn, N!Deliver, N!NewNotice, N!Resting, N!Exists, N!Accounts,
  N!panelVars, N!serverVars

\* The clock and the operators.
LEMMA SameSurroundings ==
  /\ Surroundings <=> P!Surroundings
  /\ Surroundings <=> F!Surroundings
  /\ Free!OperatorsCrowd <=> F!OperatorsCrowd
BY DEF
  Surroundings, Tick, Operator, AdminUpdateUser, AdminCreateUser, Patched, Later, Refuses,
  Exists, Accounts, serverVars, panelVars,
  P!Surroundings, P!Tick, P!Operator, P!AdminUpdateUser, P!AdminCreateUser, P!Patched, P!Later,
  P!Refuses, P!Exists, P!Accounts, P!serverVars, P!panelVars,
  F!Surroundings, F!Tick, F!Operator, F!AdminUpdateUser, F!AdminCreateUser, F!Patched, F!Later,
  F!Refuses, F!Exists, F!Accounts, F!serverVars, F!panelVars,
  Free!OperatorsCrowd, Free!FoundBy, Free!Exists, Free!Accounts, Free!At,
  F!OperatorsCrowd, F!FoundBy, F!At

\* A kill of the process.
LEMMA SameCrash == Crash => P!PayCrash /\ F!TrialCrash /\ N!NotifierCrash
BY DEF
  Crash, Restart, panelVars, Pay!LoseWorkers, Pay!Idle, Pay!Holds, P!PayCrash, P!Restart,
  P!panelVars, P!LoseWorkers, P!Idle, P!Holds, Free!LoseTrials, Free!Resting, Free!At,
  F!TrialCrash, F!Restart, F!panelVars, F!LoseTrials, F!Resting, F!At, Notify!LoseJobs,
  Notify!Resting, Notify!At, Notify!KindFor, Notify!Expired, N!NotifierCrash, N!Restart,
  N!panelVars, N!LoseJobs, N!Resting, N!At, N!KindFor, N!Expired

\* The initial states.
LEMMA SameInit == Init => P!Init /\ F!Init /\ N!Init
BY DEF
  Init, ServerInit, PanelInit, Accounts, Exists, Pay!PayInit, Pay!Idle, Free!TrialInit,
  Free!Resting, Free!FoundBy, Free!Exists, Free!Accounts, Notify!NotifierInit, Notify!Resting,
  Notify!Accounts, Notify!Kinds, Notify!Days, N!Init, N!ServerInit, N!PanelInit, N!Accounts,
  N!Exists, N!NotifierInit, N!Resting, N!Kinds, N!Days,
  P!Init, P!ServerInit, P!PanelInit, P!Accounts, P!Exists, P!PayInit, P!Idle,
  F!Init, F!ServerInit, F!PanelInit, F!Accounts, F!Exists, F!TrialInit, F!Resting,
  F!FoundBy, F!Exists

\* A step of the composition, seen from the writers of the accounts: a step of
\* YooKassa, or of none of them, that leaves the requests for a trial alone or
\* ends them, or a step of Trial that leaves the webhooks alone.
LEMMA Sides ==
  ASSUME [Next]_vars
  PROVE  \/ /\ [P!Next]_P!vars
            /\ \/ UNCHANGED trialVars
               \/ [F!Next]_F!vars /\ UNCHANGED trials /\ \/ UNCHANGED trial
                                                         \/ trial' = [h \in TrialWorkers |-> F!Resting]
         \/ F!TrialStep /\ UNCHANGED payVars
<1>1. CASE Pay!PayStep /\ UNCHANGED <<trialVars, notifierVars>>
  BY <1>1, SamePayStep DEF P!Next
<1>2. CASE Free!TrialStep /\ UNCHANGED <<payVars, notifierVars>>
  BY <1>2, SameTrialStep
<1>3. CASE Crash
  BY <1>3, SameCrash DEF P!Next, F!Next, F!TrialCrash, F!LoseTrials
<1>4. CASE /\ Surroundings /\ Free!OperatorsCrowd
           /\ UNCHANGED <<payVars, trialUsed, trial, trials, unguarded, notifierVars>>
  BY <1>4, SameSurroundings DEF P!Next, F!Next, P!payVars, payVars
<1>5. CASE UNCHANGED vars
  BY <1>5
  DEF vars, payVars, trialVars, serverVars, panelVars, P!vars, P!payVars, P!serverVars, P!panelVars
<1>6. CASE Notify!NotifierStep /\ UNCHANGED <<payVars, trialVars>>
  BY <1>6
  DEF Notify!NotifierStep, Notify!serverVars, Notify!panelVars, payVars, trialVars,
      P!vars, P!payVars, P!serverVars, P!panelVars
<1>. QED BY <1>1, <1>2, <1>3, <1>4, <1>5, <1>6 DEF Next

(***************************************************************************)
(* Type correctness.                                                       *)
(***************************************************************************)
TypeInv == P!TypeInv /\ F!TypeInv

\* The two sides agree on the server and on the panel.
LEMMA SameGround ==
  /\ P!ServerTypeOK <=> F!ServerTypeOK
  /\ P!PanelTypeOK <=> F!PanelTypeOK
BY DEF P!ServerTypeOK, F!ServerTypeOK, P!PanelTypeOK, F!PanelTypeOK, P!Accounts, F!Accounts,
       P!Account, F!Account

LEMMA TypeInit == Init => TypeInv
BY SameInit, P!InitType, F!TypeInit, PayAssumes, TrialAssumes DEF TypeInv

\* Every step keeps the types of both sides.
LEMMA TypeStep == TypeInv /\ [Next]_vars => TypeInv'
<1> SUFFICES ASSUME TypeInv, [Next]_vars PROVE TypeInv'
  OBVIOUS
<1>1. CASE [P!Next]_P!vars
  <2>1. P!TypeInv'
    BY <1>1, P!TypeStep, PayAssumes DEF TypeInv
  <2>2. CASE UNCHANGED trialVars
    <3>1. (P!ServerTypeOK <=> F!ServerTypeOK)' /\ (P!PanelTypeOK <=> F!PanelTypeOK)'
      BY DEF P!ServerTypeOK, F!ServerTypeOK, P!PanelTypeOK, F!PanelTypeOK, P!Accounts, F!Accounts,
             P!Account, F!Account
    <3>2. F!TypeInv'
      BY <2>1, <2>2, <3>1
      DEF TypeInv, P!TypeInv, P!TypeOK, F!TypeInv, F!TypeOK, F!TrialTypeOK, F!UpdatesAccounts, F!At,
          trialVars
    <3>. QED BY <2>1, <3>2 DEF TypeInv
  <2>3. CASE [F!Next]_F!vars
    BY <2>1, <2>3, F!TypeStep, TrialAssumes DEF TypeInv
  <2>4. CASE F!TrialStep
    BY <2>1, <2>4, F!TypeStep, TrialAssumes DEF TypeInv, F!Next
  <2>. QED BY <2>2, <2>3, <2>4, Sides
<1>2. CASE F!TrialStep /\ UNCHANGED payVars
  <2>1. F!TypeInv'
    BY <1>2, F!TypeStep, TrialAssumes DEF TypeInv, F!Next
  <2>2. (P!ServerTypeOK <=> F!ServerTypeOK)' /\ (P!PanelTypeOK <=> F!PanelTypeOK)'
    BY DEF P!ServerTypeOK, F!ServerTypeOK, P!PanelTypeOK, F!PanelTypeOK, P!Accounts, F!Accounts,
           P!Account, F!Account
  <2>3. P!TypeInv'
    BY <1>2, <2>1, <2>2
    DEF TypeInv, P!TypeInv, P!TypeOK, F!TypeInv, F!TypeOK, P!PayTypeOK, P!HandlersReady, P!Ready,
        P!Succeeded, payVars
  <2>. QED BY <2>1, <2>3 DEF TypeInv
<1>. QED BY <1>1, <1>2, Sides

LEMMA TypeInvariant == Spec => []TypeInv
BY TypeInit, TypeStep, PTL DEF Spec

\* The clock does not go back.
LEMMA ClockAdvances ==
  ASSUME clock \in Nat, [Next]_vars
  PROVE  clock <= clock'
<1>1. clock' = clock \/ clock' = clock + 1
  BY Sides
  DEF P!Next, P!PayStep, P!PayCrash, P!Restart, P!Surroundings, P!Tick, P!vars, P!serverVars,
      F!TrialStep, F!serverVars
<1>. QED BY <1>1

\* For the notifier, payments, trials, operators and the clock are others that
\* write the accounts beside it.
LEMMA NotifierSide == TypeInv /\ [Next]_vars => [N!AnyNext]_N!vars
<1> SUFFICES ASSUME TypeInv, [Next]_vars PROVE [N!AnyNext]_N!vars
  OBVIOUS
<1>1. CASE UNCHANGED notifierVars
  <2>1. TypeInv' /\ clock <= clock'
    BY TypeStep, ClockAdvances, ServerAssumption
    DEF TypeInv, P!TypeInv, P!TypeOK, P!ServerTypeOK
  <2>2. N!ServerTypeOK' /\ N!PanelTypeOK'
    BY <2>1
    DEF TypeInv, P!TypeInv, P!TypeOK, P!ServerTypeOK, P!PanelTypeOK, P!Accounts, P!Account,
        N!ServerTypeOK, N!PanelTypeOK, N!Accounts, N!Account
  <2>. QED BY <1>1, <2>1, <2>2 DEF N!AnyNext, N!Others, N!notifierVars, notifierVars
<1>2. CASE Notify!NotifierStep
  BY <1>2, SameNotifierStep DEF N!AnyNext
<1>3. CASE Crash
  BY <1>3, SameCrash DEF N!AnyNext
<1>. QED BY <1>1, <1>2, <1>3 DEF Next, vars

\* The notifier's own types, beside everybody else.
LEMMA NotifierTypeInvariant == Spec => [](TypeInv /\ N!TypeInv)
<1>1. Init => N!TypeInv
  BY SameInit, N!TypeInit, NotifierAssumes
<1>2. TypeInv /\ N!TypeInv /\ [Next]_vars => N!TypeInv'
  BY NotifierSide, N!TypeStep, NotifierAssumes
<1>. QED BY <1>1, <1>2, TypeInvariant, PTL DEF Spec

\* Every reachable state of the composition has the types of all three parts.
THEOREM TypeCorrect == Spec => []TypeOK
<1>1. TypeInv => Pay!TypeOK /\ Free!TrialTypeOK
  BY DEF TypeInv, P!TypeInv, F!TypeInv, TypeOK, Pay!TypeOK, P!TypeOK, F!TypeOK,
      Pay!ServerTypeOK, P!ServerTypeOK, Pay!PanelTypeOK, P!PanelTypeOK, Pay!Accounts, P!Accounts,
      Pay!Account, P!Account, Pay!PayTypeOK, P!PayTypeOK, Pay!Order, P!Order, Pay!Offer, P!Offer,
      Pay!Row, P!Row, Pay!Busy, P!Busy, Pay!Idle, P!Idle, Pay!Steps, P!Steps, Pay!Mishap, P!Mishap,
      Free!TrialTypeOK, F!TrialTypeOK, Free!TrialSteps, F!TrialSteps, Free!Accounts, F!Accounts,
      Free!Resting, F!Resting
<1>2. N!TypeInv => Notify!TypeOK
  BY DEF N!TypeInv, N!TypeOK, Notify!TypeOK, Notify!ServerTypeOK, N!ServerTypeOK,
      Notify!PanelTypeOK, N!PanelTypeOK, Notify!Accounts, N!Accounts, Notify!Account, N!Account,
      Notify!Days, N!Days, Notify!Kinds, N!Kinds, Notify!Running, N!Running, Notify!Resting,
      N!Resting, Notify!Notice, N!Notice
<1>. QED BY <1>1, <1>2, NotifierTypeInvariant, PTL DEF TypeOK

(***************************************************************************)
(* The ledger.  A trial touches none of a payment's facts.                 *)
(***************************************************************************)
\* A payment's rows and credits stay in agreement beside trials.
LEMMA LedgerStep == TypeInv /\ P!LedgerInv /\ [Next]_vars => P!LedgerInv'
<1> SUFFICES ASSUME TypeInv, P!LedgerInv, [Next]_vars PROVE P!LedgerInv'
  OBVIOUS
<1>1. CASE [P!Next]_P!vars
  BY <1>1, P!LedgerStep, PayAssumes DEF TypeInv
<1>2. CASE UNCHANGED payVars
  BY <1>2, P!SameHolders, PayAssumes DEF payVars, P!Holds
<1>. QED BY <1>1, <1>2, Sides

LEMMA LedgerInvariant == Spec => [](TypeInv /\ P!LedgerInv)
<1>1. Init => P!LedgerInv
  BY SameInit DEF P!Init, P!PayInit, P!LedgerInv, P!HoldersAreExclusive, P!HeldIsUncredited,
     P!UnrecordedIsUncredited, P!CreditedAtMostOnce, P!LossIsExplained, P!Holds, P!Idle, P!Recorded
<1>. QED BY <1>1, LedgerStep, TypeInvariant, PTL DEF Spec

\* Trials beside it do not disturb the ledger: a payment is still taken up once
\* and then credited once or lost for good.
THEOREM ImplementsLedger == Spec => Pay!LedgerSpec
<1>1. Init => Pay!Ledger!LedgerInit
  <2> SUFFICES ASSUME Init PROVE Pay!Ledger!LedgerInit
    OBVIOUS
  <2>1. P!TypeInv /\ P!PayInit
    BY TypeInit, SameInit DEF TypeInv, P!Init
  <2>2. \A p \in Payments : P!StageOf(p) = "open"
    BY <2>1, P!StageValues, PayAssumes DEF P!PayInit, P!Recorded, P!Succeeded
  <2>. QED
    BY <2>1, <2>2
    DEF P!PayInit, Pay!Ledger!LedgerInit, Pay!StageOf, P!StageOf, Pay!Recorded, P!Recorded,
        Pay!InHand, P!InHand, Pay!Holds, P!Holds, Pay!Succeeded, P!Succeeded
<1>2. TypeInv /\ P!LedgerInv /\ [Next]_vars => [Pay!Ledger!LedgerNext]_(Pay!Ledger!ledgerVars)
  <2> SUFFICES ASSUME TypeInv, P!LedgerInv, [Next]_vars
               PROVE  [Pay!Ledger!LedgerNext]_(Pay!Ledger!ledgerVars)
    OBVIOUS
  <2>1. CASE [P!Next]_P!vars
    <3>1. [P!Ledger!LedgerNext]_(P!Ledger!ledgerVars)
      BY <2>1, P!StageStep, PayAssumes DEF TypeInv
    <3>. QED
      BY <3>1
      DEF Pay!Ledger!LedgerNext, Pay!Ledger!ledgerVars, Pay!Ledger!Pay, Pay!Ledger!Take,
          Pay!Ledger!Credit, Pay!Ledger!Lose, Pay!Ledger!Move,
          P!Ledger!LedgerNext, P!Ledger!ledgerVars, P!Ledger!Pay, P!Ledger!Take,
          P!Ledger!Credit, P!Ledger!Lose, P!Ledger!Move,
          Pay!StageOf, P!StageOf, Pay!Recorded, P!Recorded, Pay!InHand, P!InHand,
          Pay!Holds, P!Holds, Pay!Succeeded, P!Succeeded
  <2>2. CASE UNCHANGED payVars
    BY <2>2
    DEF payVars, Pay!Ledger!ledgerVars, Pay!StageOf, Pay!Recorded, Pay!InHand, Pay!Holds,
        Pay!Succeeded
  <2>. QED BY <2>1, <2>2, Sides
<1>. QED
  BY <1>1, <1>2, LedgerInvariant, PTL DEF Spec, Pay!LedgerSpec, Pay!Ledger!LedgerSpec

\* Beside trials, operators and the notifier a payment is credited once at most.
THEOREM AtMostOneCredit == Spec => []Pay!CreditedAtMostOnce
<1>1. P!LedgerInv => Pay!CreditedAtMostOnce
  BY DEF P!LedgerInv, P!CreditedAtMostOnce, Pay!CreditedAtMostOnce
<1>. QED BY <1>1, LedgerInvariant, PTL

\* A recorded payment that nobody holds is credited, or its own calls failed: no
\* trial, operator or run of the notifier is ever the cause.
THEOREM NoUnexplainedLoss == Spec => []Pay!LossIsExplained
<1>1. P!LedgerInv => Pay!LossIsExplained
  BY DEF P!LedgerInv, P!LossIsExplained, P!Recorded, P!InHand, P!Holds,
         Pay!LossIsExplained, Pay!Recorded, Pay!InHand, Pay!Holds
<1>. QED BY <1>1, LedgerInvariant, PTL

\* A payment the provider has its 200 for is credited, or has a mishap on file,
\* in the company of all the others.
THEOREM AckedSettled == Spec => []Pay!AckedIsSettled
<1>1. Init => P!SettledInv
  BY SameInit
  DEF P!Init, P!PayInit, P!SettledInv, P!AnswersAccountFor, P!AckedIsAccounted, P!Idle
<1>2. TypeInv /\ P!LedgerInv /\ P!SettledInv /\ [Next]_vars => P!SettledInv'
  <2> SUFFICES ASSUME TypeInv, P!LedgerInv, P!SettledInv, [Next]_vars PROVE P!SettledInv'
    OBVIOUS
  <2>1. CASE [P!Next]_P!vars
    BY <2>1, P!SettledStep, PayAssumes DEF TypeInv
  <2>2. CASE UNCHANGED payVars
    BY <2>2
    DEF payVars, P!SettledInv, P!AnswersAccountFor, P!AckedIsAccounted, P!Accounted, P!Recorded,
        P!Canceled, P!Succeeded
  <2>. QED BY <2>1, <2>2, Sides
<1>3. TypeInv /\ P!LedgerInv /\ P!SettledInv => Pay!AckedIsSettled
  <2>1. P!AckedIsSettled => Pay!AckedIsSettled
    BY DEF P!AckedIsSettled, P!Succeeded, P!Served, P!Idle,
           Pay!AckedIsSettled, Pay!Succeeded, Pay!Served, Pay!Idle
  <2>. QED BY <2>1, P!SettledWhenAnswered, PayAssumes DEF TypeInv
<1>. QED BY <1>1, <1>2, <1>3, LedgerInvariant, PTL DEF Spec

(***************************************************************************)
(* The trial's own promises.  Payments, operators and the notifier touch   *)
(* neither its key nor its requests.                                       *)
(***************************************************************************)
\* The once-only check stays sound beside everybody else.
LEMMA GrantsInvariant == Spec => [](TypeInv /\ F!GrantsInv)
<1>1. Init => F!GrantsInv
  BY SameInit, F!GrantsInit, TrialAssumes
<1>2. TypeInv /\ F!GrantsInv /\ [Next]_vars => F!GrantsInv'
  <2> SUFFICES ASSUME TypeInv, F!GrantsInv, [Next]_vars PROVE F!GrantsInv'
    OBVIOUS
  <2>1. CASE UNCHANGED trialVars
    BY <2>1
    DEF trialVars, F!GrantsInv, F!GuardWorks, F!GuardedOnce, F!MarksFollowTrials,
        F!MarkedWasGiven, F!InHand, F!At
  <2>2. CASE [F!Next]_F!vars \/ F!TrialStep
    BY <2>2, F!GrantsStep, TrialAssumes DEF TypeInv, F!Next
  <2>. QED BY <2>1, <2>2, Sides
<1>. QED BY <1>1, <1>2, TypeInvariant, PTL DEF Spec

\* A payment or an operator never opens a way to a second trial: it goes only to
\* a customer for whom the check could not work.
THEOREM TrialOnceIfGuarded == Spec => []Free!OnceUnlessUnguarded
<1>1. TypeInv /\ F!GrantsInv => Free!OnceUnlessUnguarded
  BY DEF TypeInv, F!TypeInv, F!TypeOK, F!TrialTypeOK, F!GrantsInv, F!GuardWorks, F!GuardedOnce,
         Free!OnceUnlessUnguarded
<1>. QED BY <1>1, GrantsInvariant, PTL

\* A customer who has only paid is not barred from the trial.
THEOREM MarkMeansTrial == Spec => []Free!MarkedWasGiven
<1>1. F!GrantsInv => Free!MarkedWasGiven
  BY DEF F!GrantsInv, F!MarkedWasGiven, Free!MarkedWasGiven
<1>. QED BY <1>1, GrantsInvariant, PTL

\* Who got the trial is marked once the request is over, or is suspect, whoever
\* else wrote the account meanwhile.
THEOREM TrialMeansMark == Spec => []Free!GivenIsMarked
<1>1. TypeInv /\ F!GrantsInv => Free!GivenIsMarked
  BY DEF TypeInv, F!TypeInv, F!TypeOK, F!TrialTypeOK, F!GrantsInv, F!GuardWorks, F!GuardedOnce,
         F!At, Free!GivenIsMarked, Free!At
<1>. QED BY <1>1, GrantsInvariant, PTL

(***************************************************************************)
(* The full term, from payments and trials alike.                          *)
(***************************************************************************)
\* A grant to an account that existed gives its full term, unless the goroutine
\* that made it held an outdated read of the account or the clock.
THEOREM FullTerm == Spec => FullTermUnlessStale
<1>1. TypeInv /\ [Next]_vars =>
        [\A a \in Accounts :
           Exists(a) /\ granted'[a] > granted[a]
             => \/ panel'[a].expire
                      >= Later(panel[a].expire, clock) + (granted'[a] - granted[a])
                \/ \E w \in Workers : worker'[w] # worker[w] /\ Pay!Stale(worker[w], a)
                \/ \E h \in TrialWorkers : trial'[h] # trial[h] /\ Pay!Stale(trial[h], a)]_vars
  <2> SUFFICES ASSUME TypeInv, Next, NEW a \in Accounts,
                      Exists(a), granted'[a] > granted[a],
                      ~ \E w \in Workers : worker'[w] # worker[w] /\ Pay!Stale(worker[w], a),
                      ~ \E h \in TrialWorkers : trial'[h] # trial[h] /\ Pay!Stale(trial[h], a)
               PROVE  panel'[a].expire
                        >= Later(panel[a].expire, clock) + (granted'[a] - granted[a])
    OBVIOUS
  <2>0. granted \in [Accounts -> Nat] /\ panel \in [Accounts -> Account \cup {None}]
    BY DEF TypeInv, P!TypeInv, P!TypeOK, P!PanelTypeOK, P!Accounts, P!Account, Accounts, Account
  <2>1. ~ UNCHANGED granted
    BY <2>0
  <2>2. CASE [P!Next]_P!vars
    <3>1. [\A b \in P!Accounts :
             P!Exists(b) /\ granted'[b] > granted[b]
               => \/ panel'[b].expire
                        >= P!Later(panel[b].expire, clock) + (granted'[b] - granted[b])
                  \/ \E w \in Workers : worker'[w] # worker[w] /\ P!Stale(worker[w], b)]_P!vars
      BY <2>2, P!FullTermStep, PayAssumes DEF TypeInv
    <3>2. ~ \E w \in Workers : worker'[w] # worker[w] /\ P!Stale(worker[w], a)
      BY DEF Pay!Stale, P!Stale
    <3>. QED BY <2>1, <3>1, <3>2 DEF P!vars, P!panelVars, P!Accounts, Accounts, P!Exists, Exists, P!Later, Later
  <2>3. CASE F!TrialStep
    <3>1. PICK h \in TrialWorkers : F!CreateTrial(h) \/ F!UpdateTrial(h)
      BY <2>1, <2>3 DEF F!TrialStep, F!Serve, F!CheckTrial, F!FindForTrial, F!MarkTrial, F!panelVars
    <3> DEFINE t == trial[h]
               expire == F!NewExpire(t.seen, t.now, F!TrialDays)
    <3>2. t \in F!Request /\ t.user \in Accounts
      BY <3>1, F!AtWork, TrialAssumes DEF TypeInv, F!CreateTrial, F!UpdateTrial, F!At, Accounts
    <3>3. CASE F!CreateTrial(h)
      <4>1. PICK record : F!CreateAccount(t.user, record, F!TrialDays)
        BY <2>1, <3>3 DEF F!CreateTrial, F!Fail, F!panelVars
      <4>. QED
        BY <2>0, <3>2, <4>1
        DEF F!CreateAccount, F!Refuses, F!Exists, Exists, F!TrialDays
    <3>4. CASE F!UpdateTrial(h)
      <4>1. t.pc = "update" /\ F!ExtendAccount(t.account, expire, F!TrialDays)
        BY <2>1, <3>4 DEF F!UpdateTrial, F!Fail, F!panelVars, F!At
      <4>2. t.account = a /\ granted'[a] - granted[a] = F!TrialDays
        <5>1. t.account \in Accounts
          BY <4>1 DEF TypeInv, F!TypeInv, F!UpdatesAccounts, F!At, F!Accounts, Accounts
        <5>. QED BY <2>0, <4>1, <5>1 DEF F!ExtendAccount, F!TrialDays
      <4>3. t.seen = panel[a].expire /\ t.now = clock
        <5>1. trial'[h].pc # "update"
          BY <2>1, <3>4
          DEF F!UpdateTrial, F!AfterGrant, F!Return, F!Fail, F!panelVars, F!Asking, F!Resting,
              TypeInv, F!TypeInv, F!TypeOK, F!TrialTypeOK
        <5>. QED BY <4>1, <4>2, <5>1 DEF Pay!Stale
      <4>4. panel'[a].expire = expire
        <5>1. panel[a] \in Account
          BY <2>0, <4>1, <4>2 DEF F!ExtendAccount, F!Exists
        <5>. QED BY <2>0, <4>1, <4>2, <5>1 DEF F!ExtendAccount, Account
      <4>5. expire = Later(panel[a].expire, clock) + F!TrialDays /\ expire \in Nat
        BY <3>2, <4>3 DEF F!NewExpire, Later, F!TrialDays, F!Request
      <4>. QED BY <4>2, <4>4, <4>5
    <3>. QED BY <3>1, <3>3, <3>4
  <2>. QED BY <2>2, <2>3, Sides DEF vars
<1>. QED BY <1>1, TypeInvariant, PTL DEF Spec, FullTermUnlessStale

(***************************************************************************)
(* No time for free.  What a request for a trial remembers of the clock    *)
(* and of its account lies below the same bound as what a webhook does.    *)
(***************************************************************************)
TrialInTime(t) ==
  /\ t.pc \in {"find", "create", "update"} => t.now <= clock
  /\ t.pc = "update" => t.seen <= P!Bound(t.account)

TimeInv == P!TimeInv /\ \A h \in TrialWorkers : TrialInTime(trial[h])

\* A request that is left alone stays in time while the bound grows.
LEMMA TrialInTimeLasts ==
  ASSUME TypeInv, NEW h \in TrialWorkers, TrialInTime(trial[h]), trial'[h] = trial[h],
         clock \in Nat, clock' \in Nat, clock <= clock',
         \A a \in Accounts : /\ P!Bound(a) \in Nat /\ P!Bound(a)' \in Nat
                             /\ P!Bound(a) <= P!Bound(a)'
  PROVE  TrialInTime(trial[h])'
<1>1. CASE trial[h].pc \in {"find", "create", "update"}
  <2>1. trial[h] \in F!Request
    BY <1>1, F!AtWork, TrialAssumes DEF TypeInv
  <2>2. trial[h].pc = "update" => trial[h].account \in Accounts
    BY DEF TypeInv, F!TypeInv, F!UpdatesAccounts, F!At, F!Accounts, Accounts
  <2>3. trial[h].now \in Nat /\ trial[h].seen \in Nat
    BY <2>1 DEF F!Request
  <2>4. trial[h].now <= clock'
    BY <1>1, <2>3 DEF TrialInTime
  <2>5. CASE trial[h].pc = "update"
    <3>1. PICK a \in Accounts : a = trial[h].account
      BY <2>2, <2>5
    <3>2. trial[h].seen <= P!Bound(a)'
      BY <2>3, <2>5, <3>1 DEF TrialInTime
    <3>3. P!Bound(trial[h].account)' = P!Bound(a)'
      BY <3>1 DEF P!Bound
    <3>. QED BY <2>4, <2>5, <3>2, <3>3 DEF TrialInTime
  <2>. QED BY <2>4, <2>5 DEF TrialInTime
<1>. QED BY <1>1 DEF TrialInTime

\* A grant of no more than its days above the bound keeps every account below it.
LEMMA GrantWithinBound ==
  ASSUME TypeInv, P!NoFreeTime, UNCHANGED <<clock, ceiling>>,
         NEW a \in Accounts, NEW days \in Nat, NEW expire \in Nat,
         expire <= P!Bound(a) + days,
         granted' = [granted EXCEPT ![a] = @ + days],
         panel'[a] # None, panel'[a].expire = expire,
         \A b \in Accounts \ {a} : panel'[b] = panel[b]
  PROVE  P!NoFreeTime' /\ \A b \in Accounts : P!Bound(b) <= P!Bound(b)'
<1>0. /\ granted \in [Accounts -> Nat] /\ ceiling \in [Accounts -> Nat \cup {-1}] /\ clock \in Nat
      /\ \A b \in Accounts : P!Bound(b) \in Nat
  BY ServerAssumption
  DEF TypeInv, P!TypeInv, P!TypeOK, P!PanelTypeOK, P!ServerTypeOK, P!Accounts, Accounts,
      P!Bound, P!Later
<1>1. /\ P!Bound(a)' = P!Bound(a) + days
      /\ \A b \in Accounts \ {a} : P!Bound(b)' = P!Bound(b)
  BY <1>0 DEF P!Bound, P!Later
<1>2. P!ExpiryOf(panel[a])' <= P!Bound(a)'
  BY <1>1 DEF P!ExpiryOf
<1>3. ASSUME NEW b \in Accounts \ {a} PROVE P!ExpiryOf(panel[b])' <= P!Bound(b)'
  <2>1. P!ExpiryOf(panel[b]) <= P!Bound(b)
    BY DEF P!NoFreeTime, P!Bound, P!Accounts, Accounts
  <2>. QED BY <1>1, <2>1 DEF P!ExpiryOf
<1>. QED BY <1>0, <1>1, <1>2, <1>3 DEF P!NoFreeTime, P!Bound, P!Accounts, Accounts

\* A step of a request keeps expiries, and those that requests remember, in bounds.
LEMMA TrialTimeStep ==
  ASSUME TypeInv, TypeInv', TimeInv, F!TrialStep
  PROVE  /\ P!NoFreeTime' /\ \A a \in Accounts : P!Bound(a) <= P!Bound(a)'
         /\ \A h \in TrialWorkers : trial'[h] # trial[h] => TrialInTime(trial[h])'
<1>0. /\ clock \in Nat /\ clock' = clock /\ crashes' = crashes
      /\ granted \in [Accounts -> Nat] /\ panel \in [Accounts -> Account \cup {None}]
      /\ trial \in [TrialWorkers -> F!Request \cup {F!Resting}]
      /\ \A a \in Accounts : P!Bound(a) \in Nat /\ clock <= P!Bound(a)
  BY ServerAssumption
  DEF TypeInv, P!TypeInv, P!TypeOK, P!PanelTypeOK, P!ServerTypeOK, P!Accounts, Accounts,
      P!Account, Account, P!Bound, P!Later, F!TypeInv, F!TypeOK, F!TrialTypeOK, F!Request,
      F!TrialStep, F!serverVars
<1>1. PICK h \in TrialWorkers :
        \/ \E u \in Users : F!StartTrial(h, u) /\ UNCHANGED F!panelVars
        \/ F!Serve(h)
  BY DEF F!TrialStep
<1>2. \A g \in TrialWorkers \ {h} : trial'[g] = trial[g]
  BY <1>0, <1>1
  DEF F!StartTrial, F!Serve, F!CheckTrial, F!FindForTrial, F!CreateTrial, F!UpdateTrial,
      F!MarkTrial, F!Return, F!Proceed, F!Goto, F!AfterGrant, F!Fail
<1>3. ASSUME UNCHANGED F!panelVars
      PROVE  P!NoFreeTime' /\ \A a \in Accounts : P!Bound(a) <= P!Bound(a)'
  BY <1>0, <1>3 DEF TimeInv, P!TimeInv, P!NoFreeTime, P!Bound, F!panelVars
<1>4. ASSUME trial'[h].pc \notin {"find", "create", "update"} PROVE TrialInTime(trial[h])'
  BY <1>4 DEF TrialInTime
<1>r. F!Return(h) => trial'[h].pc = "idle"
  BY <1>0 DEF F!Return, F!Resting
<1>g. F!AfterGrant(h) => trial'[h].pc \in {"idle", "mark"}
  BY <1>0, <1>r DEF F!AfterGrant, F!Asking
<1>5. ASSUME NEW u \in Users, F!StartTrial(h, u), UNCHANGED F!panelVars
      PROVE  P!NoFreeTime' /\ (\A a \in Accounts : P!Bound(a) <= P!Bound(a)') /\ TrialInTime(trial[h])'
  BY <1>0, <1>3, <1>4, <1>5 DEF F!StartTrial, F!Asking
<1>w. ASSUME trial[h].pc # "idle"
      PROVE  /\ trial[h] \in F!Request /\ trial[h].user \in Accounts
             /\ trial[h].now \in Nat /\ trial[h].seen \in Nat
  BY <1>w, F!AtWork, TrialAssumes DEF TypeInv, Accounts, F!Request
<1>6. CASE F!CheckTrial(h)
  <2>1. CASE F!Return(h)
    BY <1>2, <1>3, <1>4, <1>6, <1>r, <2>1 DEF F!CheckTrial
  <2>2. CASE F!Proceed(h)
    <3>1. trial'[h].pc = "find" /\ trial'[h].now = clock
      BY <1>0, <1>6, <1>w, <2>2 DEF F!CheckTrial, F!At, F!Proceed, F!Request
    <3>. QED BY <1>0, <1>3, <1>6, <1>2, <3>1 DEF F!CheckTrial, TrialInTime
  <2>. QED BY <1>2, <1>3, <1>6, <2>1, <2>2 DEF F!CheckTrial
<1>7. CASE F!FindForTrial(h)
  <2>0. trial[h].pc = "find" /\ trial[h].now <= clock /\ UNCHANGED F!panelVars
    BY <1>7 DEF F!FindForTrial, F!At, TimeInv, TrialInTime
  <2>1. CASE F!Goto(h, "create")
    <3>1. trial'[h].pc = "create" /\ trial'[h].now = trial[h].now
      BY <1>0, <1>w, <2>0, <2>1 DEF F!Goto, F!Request
    <3>. QED BY <1>0, <1>2, <1>3, <2>0, <3>1 DEF TrialInTime
  <2>2. ASSUME NEW a \in F!FoundBy(trial[h].user),
               trial' = [trial EXCEPT ![h].pc = "update", ![h].account = a,
                                      ![h].seen = panel[a].expire]
        PROVE  TrialInTime(trial[h])'
    <3>1. /\ trial'[h].pc = "update" /\ trial'[h].now = trial[h].now
          /\ trial'[h].account = a /\ trial'[h].seen = panel[a].expire
      BY <1>0, <1>w, <2>0, <2>2 DEF F!Request
    <3>2. a \in Accounts /\ panel[a] # None
      BY DEF F!FoundBy, F!Exists, F!Accounts, Accounts
    <3>3. panel[a].expire <= P!Bound(a)
      BY <3>2 DEF TimeInv, P!TimeInv, P!NoFreeTime, P!Bound, P!ExpiryOf, P!Accounts, Accounts
    <3>4. P!Bound(a)' = P!Bound(a)
      BY <1>0, <2>0 DEF P!Bound, F!panelVars
    <3>5. P!Bound(trial[h].account)' = P!Bound(a)'
      BY <3>1 DEF P!Bound
    <3>. QED BY <1>0, <2>0, <3>1, <3>3, <3>4, <3>5 DEF TrialInTime
  <2>. QED BY <1>2, <1>3, <1>7, <2>0, <2>1, <2>2 DEF F!FindForTrial
<1>8. CASE F!CreateTrial(h)
  <2>0. trial[h].pc = "create" /\ trial[h].now <= clock
    BY <1>8 DEF F!CreateTrial, F!At, TimeInv, TrialInTime
  <2> DEFINE t == trial[h]
             u == t.user
             record == [owner |-> u, expire |-> t.now + F!TrialDays,
                        devices |-> F!TrialDevices]
  <2>1. CASE F!CreateAccount(u, record, F!TrialDays) /\ F!AfterGrant(h)
    <3>1. /\ granted' = [granted EXCEPT ![u] = @ + F!TrialDays] /\ UNCHANGED ceiling
          /\ panel' = [panel EXCEPT ![u] = record]
      BY <2>1 DEF F!CreateAccount
    <3>2. /\ t.now + F!TrialDays \in Nat /\ F!TrialDays \in Nat
          /\ t.now + F!TrialDays <= P!Bound(u) + F!TrialDays
      BY <1>0, <1>w, <2>0 DEF F!TrialDays
    <3>3. record \in Account
      BY <1>w, <2>0, <3>2 DEF Account, F!TrialDevices, F!Request
    <3>4. /\ panel'[u] # None /\ panel'[u].expire = t.now + F!TrialDays
          /\ \A b \in Accounts \ {u} : panel'[b] = panel[b]
      BY <1>0, <1>w, <2>0, <3>1, <3>3, PanelAssumption
    <3>5. P!NoFreeTime' /\ \A a \in Accounts : P!Bound(a) <= P!Bound(a)'
      BY <1>0, <1>w, <2>0, <3>1, <3>2, <3>4, GrantWithinBound DEF TimeInv, P!TimeInv
    <3>. QED BY <1>2, <1>4, <1>g, <2>1, <3>5
  <2>2. CASE F!Fail(h)
    BY <1>2, <1>3, <1>4, <1>r, <2>2 DEF F!Fail
  <2>. QED BY <1>8, <2>1, <2>2 DEF F!CreateTrial
<1>9. CASE F!UpdateTrial(h)
  <2> DEFINE t == trial[h]
             a == t.account
             expire == F!NewExpire(t.seen, t.now, F!TrialDays)
  <2>0. /\ t.pc = "update" /\ t.now <= clock /\ t.seen <= P!Bound(a) /\ a \in Accounts
    BY <1>9
    DEF F!UpdateTrial, F!At, TimeInv, TrialInTime, TypeInv, F!TypeInv, F!UpdatesAccounts,
        F!Accounts, Accounts
  <2>1. CASE F!ExtendAccount(a, expire, F!TrialDays) /\ F!AfterGrant(h)
    <3>1. /\ granted' = [granted EXCEPT ![a] = @ + F!TrialDays] /\ UNCHANGED ceiling
          /\ panel' = [panel EXCEPT ![a] = [panel[a] EXCEPT !.expire = expire]]
          /\ panel[a] \in Account
      BY <1>0, <2>0, <2>1 DEF F!ExtendAccount, F!Exists
    <3>2. expire \in Nat /\ F!TrialDays \in Nat /\ expire <= P!Bound(a) + F!TrialDays
      BY <1>0, <1>w, <2>0 DEF F!TrialDays, F!NewExpire
    <3>3. [panel[a] EXCEPT !.expire = expire] \in Account
      BY <3>1, <3>2 DEF Account
    <3>4. /\ panel'[a] # None /\ panel'[a].expire = expire
          /\ \A b \in Accounts \ {a} : panel'[b] = panel[b]
      BY <1>0, <2>0, <3>1, <3>3, PanelAssumption DEF Account
    <3>5. P!NoFreeTime' /\ \A b \in Accounts : P!Bound(b) <= P!Bound(b)'
      BY <1>0, <2>0, <3>1, <3>2, <3>4, GrantWithinBound DEF TimeInv, P!TimeInv
    <3>. QED BY <1>2, <1>4, <1>g, <2>1, <3>5
  <2>2. CASE F!Fail(h)
    BY <1>2, <1>3, <1>4, <1>r, <2>2 DEF F!Fail
  <2>. QED BY <1>9, <2>1, <2>2 DEF F!UpdateTrial
<1>10. CASE F!MarkTrial(h)
  BY <1>2, <1>3, <1>4, <1>10, <1>r DEF F!MarkTrial
<1>. QED BY <1>1, <1>2, <1>5, <1>6, <1>7, <1>8, <1>9, <1>10 DEF F!Serve

\* Every step keeps expiries, and those either side remembers, below the bound.
LEMMA TimeStep == TypeInv /\ TimeInv /\ [Next]_vars => TimeInv'
<1> SUFFICES ASSUME TypeInv, TimeInv, [Next]_vars PROVE TimeInv'
  OBVIOUS
<1>0. /\ TypeInv' /\ clock \in Nat /\ clock' \in Nat
      /\ \A a \in Accounts : P!Bound(a) \in Nat /\ P!Bound(a)' \in Nat
  BY TypeStep, ServerAssumption
  DEF TypeInv, P!TypeInv, P!TypeOK, P!PanelTypeOK, P!ServerTypeOK, P!Accounts, Accounts,
      P!Bound, P!Later
<1>1. clock <= clock'
  BY <1>0, ClockAdvances
<1>2. CASE [P!Next]_P!vars
  <2>1. P!TimeInv'
    BY <1>2, P!TimeStep, PayAssumes DEF TypeInv, TimeInv
  <2>2. \A a \in Accounts : P!Bound(a) <= P!Bound(a)'
    BY <1>2, P!BoundGrows, PayAssumes DEF TypeInv, P!Accounts, Accounts
  <2>3. CASE UNCHANGED trial
    BY <1>0, <1>1, <2>1, <2>2, <2>3, TrialInTimeLasts DEF TimeInv
  <2>4. CASE trial' = [h \in TrialWorkers |-> F!Resting]
    BY <2>1, <2>4 DEF TimeInv, TrialInTime, F!Resting
  <2>5. CASE F!TrialStep /\ UNCHANGED payVars
    <3>1. \A h \in TrialWorkers : TrialInTime(trial[h])'
      BY <1>0, <1>1, <2>2, <2>5, TrialTimeStep, TrialInTimeLasts DEF TimeInv
    <3>. QED BY <2>1, <3>1 DEF TimeInv
  <2>. QED BY <2>3, <2>4, <2>5, Sides DEF trialVars
<1>3. CASE F!TrialStep /\ UNCHANGED payVars
  <2>1. P!NoFreeTime' /\ \A a \in Accounts : P!Bound(a) <= P!Bound(a)'
    BY <1>0, <1>3, TrialTimeStep
  <2>2. \A h \in TrialWorkers : TrialInTime(trial[h])'
    BY <1>0, <1>1, <1>3, <2>1, TrialTimeStep, TrialInTimeLasts DEF TimeInv
  <2>3. \A w \in Workers : P!InTime(worker[w])'
    <3>1. \A a \in P!Accounts : P!Bound(a) <= P!Bound(a)' /\ P!Bound(a)' \in Nat
      BY <1>0, <2>1 DEF P!Accounts, Accounts
    <3>. QED
      BY <1>0, <1>1, <1>3, <3>1, P!InTimeLasts, PayAssumes DEF TypeInv, TimeInv, P!TimeInv, payVars
  <2>. QED BY <2>1, <2>2, <2>3 DEF TimeInv, P!TimeInv
<1>. QED BY <1>2, <1>3, Sides

\* Payments and trials together give no account more days than they granted on
\* top of what operators gave it.
THEOREM NoTimeForFree == Spec => []NoFreeTime
<1>1. Init => TimeInv
  <2> SUFFICES ASSUME Init PROVE TimeInv
    OBVIOUS
  <2>1. \A w \in Workers : P!InTime(worker[w])
    BY SameInit DEF P!Init, P!PayInit, P!InTime, P!Idle
  <2>2. \A h \in TrialWorkers : TrialInTime(trial[h])
    BY SameInit DEF F!Init, F!TrialInit, TrialInTime, F!Resting
  <2>3. P!NoFreeTime
    <3>1. ASSUME NEW a \in P!Accounts
          PROVE  P!ExpiryOf(panel[a]) <= P!Later(ceiling[a], clock) + granted[a]
      <4>1. granted[a] = 0 /\ ceiling[a] = IF panel[a] # None THEN panel[a].expire ELSE -1
        BY SameInit DEF P!Init, P!PanelInit, P!Exists
      <4>2. ceiling[a] \in Nat \cup {-1} /\ clock \in Nat
        BY TypeInit, ServerAssumption
        DEF TypeInv, P!TypeInv, P!TypeOK, P!PanelTypeOK, P!ServerTypeOK
      <4>. QED BY <4>1, <4>2 DEF P!Later, P!ExpiryOf
    <3>. QED BY <3>1 DEF P!NoFreeTime
  <2>. QED BY <2>1, <2>2, <2>3 DEF TimeInv, P!TimeInv
<1>2. TimeInv => NoFreeTime
  BY DEF TimeInv, P!TimeInv, NoFreeTime, P!NoFreeTime, Pay!NoFreeTime, P!ExpiryOf, Pay!ExpiryOf,
      P!Later, Pay!Later, P!Accounts, Pay!Accounts
<1>. QED BY <1>1, <1>2, TimeStep, TypeInvariant, PTL DEF Spec

(***************************************************************************)
(* Why the panel refuses.  Under a customer's own UUID there is only what  *)
(* an operator wrote, or what a trial or a payment of the customer made.   *)
(***************************************************************************)
ByTrialOrOperator(u) == ceiling[u] >= 0 \/ trials[u] > 0

MadeByAnother(p) ==
  \/ ByTrialOrOperator(orders[p].user)
  \/ \E q \in Payments \ {p} : P!MadeBy(q, orders[p].user)

RaceInv ==
  /\ \A u \in Users : Exists(u) => ByTrialOrOperator(u) \/ \E q \in Payments : P!MadeBy(q, u)
  /\ \A p \in Payments : "refused" \in mishap[p] => orders[p] # None /\ MadeByAnother(p)

\* A step that takes no explanation back, and explains what it adds.
LEMMA RaceRests ==
  ASSUME TypeInv, RaceInv, P!Explains,
         \A u \in Users : trials[u] > 0 => trials'[u] > 0,
         \A u \in Users : Exists(u)' =>
           \/ Exists(u)
           \/ ByTrialOrOperator(u)'
           \/ \E q \in Payments : P!MadeBy(q, u)',
         \A p \in Payments : "refused" \in mishap'[p] =>
           \/ "refused" \in mishap[p]
           \/ orders[p] # None /\ Exists(orders[p].user) /\ credits[p] = 0
  PROVE  RaceInv'
<1>1. \A u \in Users, q \in Payments : P!MadeBy(q, u) => P!MadeBy(q, u)'
  BY DEF P!Explains, P!MadeBy
<1>2. \A u \in Users : ByTrialOrOperator(u) => ByTrialOrOperator(u)'
  BY DEF P!Explains, ByTrialOrOperator, P!Accounts
<1>3. ASSUME NEW p \in Payments, "refused" \in mishap'[p]
      PROVE  orders'[p] # None /\ MadeByAnother(p)'
  <2>1. orders[p] # None /\ MadeByAnother(p)
    <3>1. CASE "refused" \in mishap[p]
      BY <3>1 DEF RaceInv
    <3>2. CASE orders[p] # None /\ Exists(orders[p].user) /\ credits[p] = 0
      <4>1. orders[p].user \in Users
        BY <3>2 DEF TypeInv, P!TypeInv, P!TypeOK, P!PayTypeOK, P!Order
      <4>2. \A q \in Payments : P!MadeBy(q, orders[p].user) => q # p
        BY <3>2 DEF P!MadeBy
      <4>. QED BY <3>2, <4>1, <4>2 DEF RaceInv, MadeByAnother
    <3>. QED BY <1>3, <3>1, <3>2
  <2>2. PICK u \in Users : u = orders[p].user
    BY <2>1 DEF TypeInv, P!TypeInv, P!TypeOK, P!PayTypeOK, P!Order
  <2>3. orders'[p] # None /\ orders'[p].user = u
    BY <2>1, <2>2 DEF P!Explains
  <2>4. CASE ByTrialOrOperator(u)
    BY <1>2, <2>3, <2>4 DEF MadeByAnother, ByTrialOrOperator
  <2>5. ASSUME NEW q \in Payments \ {p}, P!MadeBy(q, u) PROVE MadeByAnother(p)'
    <3>1. P!MadeBy(q, u)'
      BY <1>1, <2>5
    <3>2. credits'[q] = 1 /\ orders'[q] # None /\ orders'[q].user = orders'[p].user
      BY <2>3, <3>1 DEF P!MadeBy
    <3>. QED BY <3>2 DEF MadeByAnother, P!MadeBy
  <2>. QED BY <2>1, <2>2, <2>3, <2>4, <2>5 DEF MadeByAnother
<1>4. \A u \in Users : Exists(u)' =>
        ByTrialOrOperator(u)' \/ \E q \in Payments : P!MadeBy(q, u)'
  BY <1>1, <1>2 DEF RaceInv
<1>. QED BY <1>3, <1>4 DEF RaceInv

\* A step of a trial leaves the payments be and creates an account only of a
\* customer whom it has given the trial.
LEMMA TrialExplains ==
  ASSUME TypeInv, F!TrialStep, UNCHANGED payVars
  PROVE  /\ P!Explains
         /\ \A u \in Users : trials[u] > 0 => trials'[u] > 0
         /\ \A u \in Users : Exists(u)' => Exists(u) \/ ByTrialOrOperator(u)'
<1>0. /\ trials \in [Users -> Nat] /\ Users \subseteq Accounts
      /\ panel \in [Accounts -> Account \cup {None}] /\ None \notin Account
  BY PanelAssumption
  DEF TypeInv, F!TypeInv, F!TypeOK, F!TrialTypeOK, P!TypeInv, P!TypeOK, P!PanelTypeOK, P!Accounts,
      P!Account, Accounts, Account
<1>1. ASSUME UNCHANGED <<panel, ceiling, trials>>
      PROVE  /\ P!Explains
             /\ \A u \in Users : trials[u] > 0 => trials'[u] > 0
             /\ \A u \in Users : Exists(u)' => Exists(u) \/ ByTrialOrOperator(u)'
  BY <1>1 DEF P!Explains, payVars, Exists
<1>2. PICK h \in TrialWorkers :
        \/ \E u \in Users : F!StartTrial(h, u) /\ UNCHANGED F!panelVars
        \/ F!Serve(h)
  BY DEF F!TrialStep
<1>3. ASSUME trial[h].pc # "idle"
      PROVE  trial[h] \in F!Request /\ trial[h].user \in Users
  BY <1>3, F!AtWork, TrialAssumes DEF TypeInv
<1>4. CASE F!CreateTrial(h)
  <2>1. trial[h].user \in Users
    BY <1>3, <1>4 DEF F!CreateTrial, F!At
  <2>2. CASE F!Fail(h)
    BY <1>1, <2>2 DEF F!Fail, F!panelVars
  <2>3. ASSUME NEW record, F!CreateAccount(trial[h].user, record, F!TrialDays),
               F!Give(trial[h].user)
        PROVE  /\ P!Explains
               /\ \A u \in Users : trials[u] > 0 => trials'[u] > 0
               /\ \A u \in Users : Exists(u)' => Exists(u) \/ ByTrialOrOperator(u)'
    <3>1. \A u \in Users : trials'[u] >= trials[u] /\ trials[u] \in Nat /\ trials'[u] \in Nat
      BY <1>0, <2>1, <2>3 DEF F!Give
    <3>2. trials'[trial[h].user] > 0
      BY <1>0, <2>1, <2>3 DEF F!Give
    <3>3. \A u \in Users \ {trial[h].user} : panel'[u] = panel[u]
      BY <1>0, <2>1, <2>3 DEF F!CreateAccount
    <3>4. P!Explains
      BY <2>3 DEF F!CreateAccount, P!Explains, payVars
    <3>5. \A u \in Users : Exists(u)' => Exists(u) \/ ByTrialOrOperator(u)'
      BY <3>2, <3>3 DEF Exists, ByTrialOrOperator
    <3>. QED BY <3>1, <3>4, <3>5
  <2>. QED BY <1>4, <2>2, <2>3 DEF F!CreateTrial
<1>5. CASE F!UpdateTrial(h)
  <2>1. trial[h].user \in Users
    BY <1>3, <1>5 DEF F!UpdateTrial, F!At
  <2>2. CASE F!Fail(h)
    BY <1>1, <2>2 DEF F!Fail, F!panelVars
  <2>3. ASSUME NEW e, F!ExtendAccount(trial[h].account, e, F!TrialDays), F!Give(trial[h].user)
        PROVE  /\ P!Explains
               /\ \A u \in Users : trials[u] > 0 => trials'[u] > 0
               /\ \A u \in Users : Exists(u)' => Exists(u) \/ ByTrialOrOperator(u)'
    <3>1. \A u \in Users : trials'[u] >= trials[u] /\ trials[u] \in Nat /\ trials'[u] \in Nat
      BY <1>0, <2>1, <2>3 DEF F!Give
    <3>2. \A u \in Users : u # trial[h].account => panel'[u] = panel[u]
      BY <1>0, <2>3 DEF F!ExtendAccount
    <3>3. P!Explains
      BY <2>3 DEF F!ExtendAccount, P!Explains, payVars
    <3>4. \A u \in Users : Exists(u)' => Exists(u)
      BY <2>3, <3>2 DEF Exists, F!ExtendAccount, F!Exists
    <3>. QED BY <3>1, <3>3, <3>4
  <2>. QED BY <1>5, <2>2, <2>3 DEF F!UpdateTrial
<1>6. CASE UNCHANGED <<panel, granted, ceiling, trials>>
  BY <1>1, <1>6
<1>7. F!CreateTrial(h) \/ F!UpdateTrial(h) \/ UNCHANGED <<panel, granted, ceiling, trials>>
  <2>1. CASE \E u \in Users : F!StartTrial(h, u) /\ UNCHANGED F!panelVars
    BY <2>1 DEF F!StartTrial, F!panelVars
  <2>2. CASE F!CheckTrial(h)
    BY <2>2 DEF F!CheckTrial, F!panelVars
  <2>3. CASE F!FindForTrial(h)
    BY <2>3 DEF F!FindForTrial, F!panelVars
  <2>4. CASE F!MarkTrial(h)
    BY <2>4 DEF F!MarkTrial, F!panelVars
  <2>. QED BY <1>2, <2>1, <2>2, <2>3, <2>4 DEF F!Serve
<1>. QED BY <1>4, <1>5, <1>6, <1>7

LEMMA RaceStep ==
  TypeInv /\ P!LedgerInv /\ RaceInv /\ [Next]_vars => RaceInv'
<1> SUFFICES ASSUME TypeInv, P!LedgerInv, RaceInv, [Next]_vars PROVE RaceInv'
  OBVIOUS
<1>1. CASE [P!Next]_P!vars /\ UNCHANGED trials
  <2>1. P!Explains /\ P!NewIsExplained
    BY <1>1, P!ExplanationsLast, P!StepsExplained, PayAssumes DEF TypeInv
  <2>2. \A u \in Users : Exists(u)' =>
          \/ Exists(u)
          \/ ByTrialOrOperator(u)'
          \/ \E q \in Payments : P!MadeBy(q, u)'
    BY <2>1 DEF P!NewIsExplained, P!MadeFor, ByTrialOrOperator, P!Exists, Exists
  <2>3. \A p \in Payments : "refused" \in mishap'[p] =>
          \/ "refused" \in mishap[p]
          \/ orders[p] # None /\ Exists(orders[p].user) /\ credits[p] = 0
    BY <2>1 DEF P!NewIsExplained, P!Exists, Exists
  <2>. QED BY <1>1, <2>1, <2>2, <2>3, RaceRests
<1>2. CASE F!TrialStep /\ UNCHANGED payVars
  BY <1>2, TrialExplains, RaceRests DEF payVars
<1>. QED BY <1>1, <1>2, Sides DEF trialVars

\* The panel refuses a first payment only
\* because a trial, another payment or an operator made the account meanwhile.
THEOREM RefusalIsRace == Spec => []RefusedIsRace
<1>1. Init => RaceInv
  <2> SUFFICES ASSUME Init PROVE RaceInv
    OBVIOUS
  <2>1. ASSUME NEW u \in Users, Exists(u) PROVE ceiling[u] >= 0
    <3>1. u \in Accounts /\ panel[u] \in OperatorAccounts /\ ceiling[u] = panel[u].expire
      BY <2>1 DEF Init, PanelInit, Exists, Accounts
    <3>. QED BY <3>1, PanelAssumption DEF Account
  <2>. QED BY <2>1, SameInit DEF P!Init, P!PayInit, RaceInv, ByTrialOrOperator
<1>2. RaceInv => RefusedIsRace
  BY DEF RaceInv, RefusedIsRace, MadeByAnother, ByTrialOrOperator, P!MadeBy
<1>3. TypeInv /\ P!LedgerInv /\ RaceInv /\ [Next]_vars => RaceInv'
  BY RaceStep
<1>. QED BY <1>1, <1>2, <1>3, LedgerInvariant, PTL DEF Spec

(***************************************************************************)
(* What is sold is what is recorded.                                       *)
(***************************************************************************)
\* Whatever runs beside it, a payment is recorded and granted as it was sold.
THEOREM SoldIsGranted == Spec => []SoldIsRecorded
<1>1. Init => P!SoldInv
  BY SameInit
  DEF P!Init, P!PayInit, P!SoldInv, P!AsSold, P!Recorded, P!Carries, P!Holders, P!Idle
<1>2. TypeInv /\ P!SoldInv /\ [Next]_vars => P!SoldInv'
  <2> SUFFICES ASSUME TypeInv, P!SoldInv, [Next]_vars PROVE P!SoldInv'
    OBVIOUS
  <2>1. CASE [P!Next]_P!vars
    BY <2>1, P!SoldStep, PayAssumes DEF TypeInv
  <2>2. CASE UNCHANGED payVars
    BY <2>2, P!SoldLasts, PayAssumes DEF payVars, P!Carries
  <2>. QED BY <2>1, <2>2, Sides
<1>3. P!SoldInv => SoldIsRecorded
  BY DEF P!SoldInv, P!AsSold, P!Recorded, P!Carries, P!Holders, SoldIsRecorded,
      Pay!SoldIsRecorded, Pay!Recorded, Pay!Holds
<1>. QED BY <1>1, <1>2, <1>3, TypeInvariant, PTL DEF Spec

(***************************************************************************)
(* The notices, while payments and trials write the accounts.              *)
(***************************************************************************)
\* A notice is not repeated, unless something went wrong for it.
THEOREM ToldOnce == Spec => []OnceUnlessTrouble
<1>1. Init => N!OnceInv
  BY SameInit, N!OnceInit, NotifierAssumes
<1>2. TypeInv /\ N!TypeInv /\ N!OnceInv /\ [Next]_vars => N!OnceInv'
  BY NotifierSide, N!OnceStep, NotifierAssumes
<1>3. N!OnceInv => OnceUnlessTrouble
  BY DEF N!OnceInv, N!Once, N!MailedTwice, N!Mailed, N!Accounts, N!Kinds, N!Days,
      OnceUnlessTrouble, Notify!OnceUnlessTrouble, Notify!MailedTwice, Notify!Mailed,
      Notify!Accounts, Notify!Kinds, Notify!Days
<1>. QED BY <1>1, <1>2, <1>3, NotifierTypeInvariant, PTL DEF Spec

\* A notice on record was mailed, whatever is written to the accounts meanwhile.
THEOREM RecordMeansMail == Spec => []Notify!RecordedWasMailed
<1>1. Init => N!MailInv
  BY SameInit, N!MailInit, NotifierAssumes
<1>2. TypeInv /\ N!TypeInv /\ N!MailInv /\ [Next]_vars => N!MailInv'
  BY NotifierSide, N!MailStep, NotifierAssumes
<1>3. N!MailInv => Notify!RecordedWasMailed
  BY DEF N!MailInv, N!RecordedWasMailed, N!Mailed, Notify!RecordedWasMailed, Notify!Mailed
<1>. QED BY <1>1, <1>2, <1>3, NotifierTypeInvariant, PTL DEF Spec

\* A run that ends has told every customer on its list who is due, or has failed
\* at them itself, whoever writes the accounts meanwhile.
THEOREM EverybodyIsTold == Spec => NobodyPassedOver
<1>1. Init => N!PassInv
  BY SameInit, N!PassInit, NotifierAssumes
<1>2. TypeInv /\ N!TypeInv /\ N!PassInv /\ [Next]_vars => N!PassInv'
  BY NotifierSide, N!PassStep, NotifierAssumes
<1>3. TypeInv /\ N!TypeInv /\ N!PassInv /\ [Next]_vars => \A j \in Jobs : N!AllSettled(j)
  BY NotifierSide, N!EndStep, NotifierAssumes
<1>4. (\A j \in Jobs : N!AllSettled(j)) =>
        \A j \in Jobs :
          job[j].pc \notin {"idle", "list"} /\ job'[j] = Notify!Resting /\ crashes' = crashes =>
            \A a \in Notify!Accounts \ Mute :
              LET record == job[j].list[a] IN
              record # None /\ record.expire <= job[j].now + 3 =>
                \/ Notify!Told(a, IF record.expire < job[j].now THEN "expired"
                                                               ELSE "expiring_soon", job[j].now)
                \/ a \in job[j].missed
  BY DEF N!AllSettled, N!Settled, N!Due, N!DueSoon, N!KindFor, N!Expired, N!AlreadyNotified,
      N!Accounts, N!Resting, Notify!Accounts, Notify!Resting, Notify!Told
<1>. QED
  BY <1>1, <1>2, <1>3, <1>4, NotifierTypeInvariant, PTL
  DEF Spec, NobodyPassedOver, Notify!NobodyPassedOver

\* A mail goes to somebody who is due, or whose account a payment, a trial or an
\* operator wrote after the run had listed it.
THEOREM AlarmsAreTrue == Spec => NoFalseAlarm
<1>1. TypeInv /\ N!TypeInv /\ [Next]_vars => [N!TrueAlarms]_(Notify!vars)
  BY NotifierSide, N!AlarmStep, NotifierAssumes
<1>2. [N!TrueAlarms]_(Notify!vars) =>
        [\A a \in Notify!Accounts, kind \in Notify!Kinds, d \in Notify!Days :
           mails'[<<a, kind, d>>] > mails[<<a, kind, d>>] =>
             \/ panel[a].expire <= clock + 3
             \/ \E j \in Jobs :
                  Notify!At(j, "send") /\ job[j].at = a /\ job[j].list[a] # panel[a]]_(Notify!vars)
  BY DEF N!TrueAlarms, N!Accounts, N!Kinds, N!Days, N!At, Notify!Accounts, Notify!Kinds,
      Notify!Days, Notify!At
<1>. QED BY <1>1, <1>2, NotifierTypeInvariant, PTL DEF Spec, NoFalseAlarm, Notify!NoFalseAlarm

=============================================================================
