---------------------------- MODULE TrialProofs ------------------------------
(***************************************************************************)
(* Proofs about Trial, for any customers, goroutines, operators' accounts  *)
(* and number of trials.                                                   *)
(***************************************************************************)
EXTENDS Trial, PanelProofs

(***************************************************************************)
(* Type correctness.  What UpdateTrial writes to is an account only        *)
(* because FindForTrial has put one there.                                 *)
(***************************************************************************)
Request ==
  [pc : TrialSteps, user : Users, now : Nat, account : Accounts \cup {None}, seen : Nat]

UpdatesAccounts ==
  \A h \in TrialWorkers : At(h, "update") => trial[h].account \in Accounts

TypeInv == TypeOK /\ UpdatesAccounts

\* A goroutine that is at work holds a request.
LEMMA AtWork ==
  ASSUME TypeInv, NEW h \in TrialWorkers, trial[h].pc # "idle"
  PROVE  trial[h] \in Request /\ trial[h].user \in Users
  BY DEF TypeInv, TypeOK, TrialTypeOK, Request, Resting

\* One goroutine takes a step.
LEMMA OneMoves ==
  ASSUME TypeInv, NEW h \in TrialWorkers, NEW x \in Request \cup {Resting},
         x.pc = "update" => x.account \in Accounts,
         trial' = [trial EXCEPT ![h] = x]
  PROVE  /\ trial' \in [TrialWorkers -> Request \cup {Resting}]
         /\ UpdatesAccounts'
         /\ trial'[h] = x
         /\ \A g \in TrialWorkers \ {h} : trial'[g] = trial[g]
<1>1. trial \in [TrialWorkers -> Request \cup {Resting}]
  BY DEF TypeInv, TypeOK, TrialTypeOK, Request
<1>2. /\ trial' \in [TrialWorkers -> Request \cup {Resting}]
      /\ trial'[h] = x
      /\ \A g \in TrialWorkers \ {h} : trial'[g] = trial[g]
  BY <1>1
<1>. QED
  BY <1>2 DEF TypeInv, UpdatesAccounts, At

\* The request a goroutine takes up, and the one it marks, are requests.
LEMMA AskingType ==
  ASSUME NEW u \in Users
  PROVE  /\ Asking(u) \in Request
         /\ [Asking(u) EXCEPT !.pc = "mark"] \in Request
  BY DEF Asking, Request, TrialSteps

\* A goroutine that got the panel's answer, or did not.
LEMMA AfterGrantType ==
  ASSUME TypeInv, NEW h \in TrialWorkers, trial[h].pc # "idle", AfterGrant(h)
  PROVE  /\ trial' \in [TrialWorkers -> Request \cup {Resting}]
         /\ UpdatesAccounts'
         /\ unguarded' \subseteq Users
<1>u. trial[h].user \in Users /\ unguarded \subseteq Users
  BY AtWork DEF TypeInv, TypeOK, TrialTypeOK
<1> DEFINE x == [Asking(trial[h].user) EXCEPT !.pc = "mark"]
<1>1. CASE trial' = [trial EXCEPT ![h] = x] /\ UNCHANGED unguarded
  <2>1. x \in Request /\ x.pc = "mark"
    BY <1>u, AskingType DEF Asking
  <2>. QED BY <1>u, <1>1, <2>1, OneMoves
<1>2. CASE Return(h) /\ Suspect(trial[h].user)
  BY <1>u, <1>2, OneMoves DEF Return, Suspect, Resting
<1>. QED BY <1>1, <1>2 DEF AfterGrant

\* The initial states have the types, and no goroutine is at work.
LEMMA TypeInit == Init => TypeInv
<1> SUFFICES ASSUME Init PROVE TypeInv
  OBVIOUS
<1>1. PanelTypeOK
  BY PanelInitType DEF Init
<1>2. ServerTypeOK
  BY ServerAssumption DEF Init, ServerInit, ServerTypeOK
<1>. QED
  BY <1>1, <1>2 DEF Init, TrialInit, TypeInv, TypeOK, TrialTypeOK, UpdatesAccounts, At, Resting

\* Every step keeps the types.
LEMMA TypeStep == TypeInv /\ [Next]_vars => TypeInv'
<1> SUFFICES ASSUME TypeInv, [Next]_vars PROVE TypeInv'
  OBVIOUS
<1> USE DEF TypeInv, TypeOK
<1>t. clock \in Nat
  BY ServerAssumption DEF ServerTypeOK
<1>c. trialUsed \subseteq Users /\ trials \in [Users -> Nat] /\ unguarded \subseteq Users
      /\ crowded \subseteq Users
  BY DEF TrialTypeOK
<1>r. TrialTypeOK' <=> /\ trialUsed' \subseteq Users
                       /\ trial' \in [TrialWorkers -> Request \cup {Resting}]
                       /\ trials' \in [Users -> Nat]
                       /\ unguarded' \subseteq Users
                       /\ crowded' \subseteq Users
  BY DEF TrialTypeOK, Request
<1>1. ASSUME NEW h \in TrialWorkers, NEW u \in Users, StartTrial(h, u),
             UNCHANGED <<serverVars, panelVars>>
      PROVE  TypeInv'
  <2>1. Asking(u) \in Request /\ Asking(u).pc = "check"
    BY AskingType DEF Asking
  <2>. QED
    BY <1>c, <1>r, <1>1, <2>1, OneMoves
    DEF StartTrial, serverVars, panelVars, ServerTypeOK, PanelTypeOK
<1>2. ASSUME NEW h \in TrialWorkers, UNCHANGED serverVars, CheckTrial(h) PROVE TypeInv'
  <2>1. trial[h] \in Request /\ trial[h].user \in Users
    BY <1>2, AtWork DEF CheckTrial, At
  <2> DEFINE x == [trial[h] EXCEPT !.pc = "find", !.now = clock]
  <2>2. x \in Request /\ x.pc = "find"
    BY <1>t, <2>1 DEF Request, TrialSteps
  <2>3. trial' \in [TrialWorkers -> Request \cup {Resting}] /\ UpdatesAccounts'
    <3>1. CASE Return(h)
      BY <3>1, OneMoves DEF Return, Resting
    <3>2. CASE Proceed(h)
      <4>1. trial' = [trial EXCEPT ![h] = x]
        BY <3>2 DEF Proceed
      <4>. QED BY <2>2, <4>1, OneMoves
    <3>. QED BY <1>2, <3>1, <3>2 DEF CheckTrial
  <2>. QED
    BY <1>c, <1>r, <1>2, <2>1, <2>3
    DEF CheckTrial, Suspect, serverVars, panelVars, ServerTypeOK, PanelTypeOK
<1>3. ASSUME NEW h \in TrialWorkers, UNCHANGED serverVars, FindForTrial(h) PROVE TypeInv'
  <2>1. trial[h] \in Request /\ trial[h].user \in Users
    BY <1>3, AtWork DEF FindForTrial, At
  <2>2. trial' \in [TrialWorkers -> Request \cup {Resting}] /\ UpdatesAccounts'
    <3>1. CASE Goto(h, "create")
      <4>1. [trial[h] EXCEPT !.pc = "create"] \in Request
        BY <2>1 DEF Request, TrialSteps
      <4>. QED BY <2>1, <3>1, <4>1, OneMoves DEF Goto, Request
    <3>2. ASSUME NEW a \in FoundBy(trial[h].user),
                 trial' = [trial EXCEPT ![h].pc = "update", ![h].account = a,
                                        ![h].seen = panel[a].expire]
          PROVE  trial' \in [TrialWorkers -> Request \cup {Resting}] /\ UpdatesAccounts'
      <4> DEFINE x == [trial[h] EXCEPT !.pc = "update", !.account = a,
                                       !.seen = panel[a].expire]
      <4>1. a \in Accounts /\ panel[a].expire \in Nat
        BY DEF FoundBy, Exists, PanelTypeOK, Account
      <4>2. x \in Request /\ x.account = a
        BY <2>1, <4>1 DEF Request, TrialSteps
      <4>3. trial' = [trial EXCEPT ![h] = x]
        BY <3>2
      <4>. QED BY <4>1, <4>2, <4>3, OneMoves
    <3>. QED BY <1>3, <3>1, <3>2 DEF FindForTrial
  <2>. QED
    BY <1>c, <1>r, <1>3, <2>1, <2>2
    DEF FindForTrial, serverVars, panelVars, ServerTypeOK, PanelTypeOK
<1>4. ASSUME NEW h \in TrialWorkers, UNCHANGED serverVars, CreateTrial(h) PROVE TypeInv'
  <2> DEFINE u == trial[h].user
             record == [owner |-> u, expire |-> trial[h].now + TrialDays,
                        devices |-> TrialDevices]
  <2>1. trial[h] \in Request /\ u \in Users /\ trial[h].pc # "idle"
    BY <1>4, AtWork DEF CreateTrial, At
  <2>2. u \in Accounts /\ record \in Account /\ TrialDays \in Nat
    BY <2>1 DEF Accounts, Account, Request, TrialDays, TrialDevices
  <2>3. CASE CreateAccount(u, record, TrialDays) /\ Give(u) /\ AfterGrant(h)
    <3>1. PanelTypeOK'
      BY <2>2, <2>3, CreatedType
    <3>2. trials' \in [Users -> Nat]
      BY <1>c, <2>1, <2>3 DEF Give
    <3>. QED
      BY <1>c, <1>r, <1>4, <2>1, <2>3, <3>1, <3>2, AfterGrantType
      DEF CreateTrial, serverVars, ServerTypeOK
  <2>4. CASE Fail(h)
    BY <1>c, <1>r, <1>4, <2>4, OneMoves
    DEF CreateTrial, Fail, Return, Resting, serverVars, panelVars, ServerTypeOK, PanelTypeOK
  <2>. QED BY <1>4, <2>3, <2>4 DEF CreateTrial
<1>5. ASSUME NEW h \in TrialWorkers, UNCHANGED serverVars, UpdateTrial(h) PROVE TypeInv'
  <2> DEFINE t == trial[h]
             expire == NewExpire(t.seen, t.now, TrialDays)
  <2>1. t \in Request /\ t.user \in Users /\ t.account \in Accounts /\ t.pc # "idle"
    BY <1>5, AtWork DEF UpdateTrial, At, UpdatesAccounts
  <2>2. expire \in Nat /\ TrialDays \in Nat
    BY <2>1 DEF NewExpire, Request, TrialDays
  <2>3. CASE ExtendAccount(t.account, expire, TrialDays) /\ Give(t.user) /\ AfterGrant(h)
    <3>1. PanelTypeOK'
      BY <2>1, <2>2, <2>3, ExtendedType
    <3>2. trials' \in [Users -> Nat]
      BY <1>c, <2>1, <2>3 DEF Give
    <3>. QED
      BY <1>c, <1>r, <1>5, <2>1, <2>3, <3>1, <3>2, AfterGrantType
      DEF UpdateTrial, serverVars, ServerTypeOK
  <2>4. CASE Fail(h)
    BY <1>c, <1>r, <1>5, <2>4, OneMoves
    DEF UpdateTrial, Fail, Return, Resting, serverVars, panelVars, ServerTypeOK, PanelTypeOK
  <2>. QED BY <1>5, <2>3, <2>4 DEF UpdateTrial
<1>6. ASSUME NEW h \in TrialWorkers, UNCHANGED serverVars, MarkTrial(h) PROVE TypeInv'
  <2>1. trial[h].user \in Users
    BY <1>6, AtWork DEF MarkTrial, At
  <2>. QED
    BY <1>c, <1>r, <1>6, <2>1, OneMoves
    DEF MarkTrial, Return, Suspect, Resting, serverVars, panelVars, ServerTypeOK, PanelTypeOK
<1>7. CASE TrialCrash
  <2>1. ServerTypeOK'
    BY <1>7, ServerAssumption DEF TrialCrash, Restart, ServerTypeOK
  <2>. QED
    BY <1>c, <1>r, <1>7, <2>1
    DEF TrialCrash, LoseTrials, UpdatesAccounts, At, Resting, panelVars, PanelTypeOK
<1>8. CASE Surroundings /\ OperatorsCrowd /\ UNCHANGED <<trialUsed, trial, trials, unguarded>>
  <2>1. ServerTypeOK' /\ PanelTypeOK'
    BY <1>8, SurroundingsType
  <2>2. crowded' \subseteq Users
    BY <1>c, <1>8 DEF OperatorsCrowd
  <2>. QED
    BY <1>8, <2>1, <2>2 DEF TrialTypeOK, UpdatesAccounts, At
<1>9. CASE UNCHANGED vars
  BY <1>9
  DEF vars, trialVars, serverVars, panelVars, ServerTypeOK, PanelTypeOK, TrialTypeOK,
      UpdatesAccounts, At
<1>. QED
  BY <1>1, <1>2, <1>3, <1>4, <1>5, <1>6, <1>7, <1>8, <1>9 DEF Next, TrialStep, Serve

\* Every reachable state has the types of TypeOK.
THEOREM TypeCorrect == Spec => []TypeOK
<1>1. TypeInv => TypeOK
  BY DEF TypeInv
<1>. QED
  BY TypeInit, TypeStep, <1>1, PTL DEF Spec

\* For the sections below: the strengthened form.
LEMMA TypeInvariant == Spec => []TypeInv
  BY TypeInit, TypeStep, PTL DEF Spec

(***************************************************************************)
(* Once per customer.  While the check of a customer can be trusted, at    *)
(* most one goroutine is past it, none that has yet to give a trial can    *)
(* meet one that was given, and a trial that was given is marked or about  *)
(* to be.                                                                  *)
(***************************************************************************)
InHand(h, u) == trial[h].pc \in {"find", "create", "update", "mark"} /\ trial[h].user = u

GuardedOnce(u) ==
  /\ trials[u] <= 1
  /\ trials[u] = 1 =>
       u \in trialUsed \/ \E h \in TrialWorkers : At(h, "mark") /\ trial[h].user = u
  /\ \A h \in TrialWorkers : InHand(h, u) /\ ~ At(h, "mark") => trials[u] = 0
  /\ \A h, g \in TrialWorkers : InHand(h, u) /\ InHand(g, u) => h = g

GuardWorks == \A u \in Users \ unguarded : GuardedOnce(u)

MarksFollowTrials == \A h \in TrialWorkers : At(h, "mark") => trials[trial[h].user] > 0

GrantsInv == GuardWorks /\ MarksFollowTrials /\ MarkedWasGiven

\* Nobody has had a trial yet, and no goroutine is at work.
LEMMA GrantsInit == Init => GrantsInv
  BY DEF Init, TrialInit, GrantsInv, GuardWorks, GuardedOnce, MarksFollowTrials,
      MarkedWasGiven, InHand, At, Resting

\* What a step of one goroutine leaves of the others.
LEMMA OthersRest ==
  ASSUME TypeInv, NEW h \in TrialWorkers, NEW x, trial' = [trial EXCEPT ![h] = x]
  PROVE  trial'[h] = x /\ \A g \in TrialWorkers \ {h} : trial'[g] = trial[g]
  BY DEF TypeInv, TypeOK, TrialTypeOK

\* A goroutine begins, returns without a grant, or goes on to a step before it;
\* no trial is given and no key is written.
LEMMA QuietStep ==
  ASSUME TypeInv, GrantsInv, NEW h \in TrialWorkers, NEW x,
         trial' = [trial EXCEPT ![h] = x], trial[h].pc # "mark",
         \/ x.pc \in {"idle", "check"}
         \/ x.pc \in {"find", "create", "update"} /\ InHand(h, x.user),
         UNCHANGED <<trialUsed, trials>>, unguarded \subseteq unguarded'
  PROVE  GrantsInv'
<1>o. trial'[h] = x /\ \A g \in TrialWorkers \ {h} : trial'[g] = trial[g]
  BY OthersRest
<1>1. ASSUME NEW u \in Users \ unguarded' PROVE GuardedOnce(u)'
  <2>1. GuardedOnce(u)
    BY <1>1 DEF GrantsInv, GuardWorks
  <2>2. \A g \in TrialWorkers : InHand(g, u)' => InHand(g, u) /\ (At(g, "mark")' <=> At(g, "mark"))
    BY <1>o DEF InHand, At
  <2>3. \A g \in TrialWorkers : At(g, "mark") /\ trial[g].user = u
          => (At(g, "mark") /\ trial[g].user = u)'
    BY <1>o DEF At
  <2>. QED BY <2>1, <2>2, <2>3 DEF GuardedOnce
<1>2. MarksFollowTrials'
  BY <1>o DEF GrantsInv, MarksFollowTrials, At, InHand
<1>3. MarkedWasGiven'
  BY DEF GrantsInv, MarkedWasGiven
<1>. QED BY <1>1, <1>2, <1>3 DEF GrantsInv, GuardWorks

\* A goroutine passes the check.
LEMMA CheckStep ==
  ASSUME TypeInv, GrantsInv, NEW h \in TrialWorkers, CheckTrial(h)
  PROVE  GrantsInv'
<1> DEFINE u == trial[h].user
           x == [trial[h] EXCEPT !.pc = "find", !.now = clock]
<1>t. trial[h] \in Request /\ u \in Users /\ trials[u] \in Nat
  BY AtWork DEF CheckTrial, At, TypeInv, TypeOK, TrialTypeOK
<1>u. UNCHANGED <<trialUsed, trials>> /\ unguarded \subseteq unguarded' /\ At(h, "check")
  BY DEF CheckTrial, Suspect
<1>1. CASE Return(h)
  BY <1>u, <1>1, QuietStep DEF Return, Resting, At
<1>2. CASE Proceed(h) /\ (u \in unguarded' \/ (~ AlreadyUsed(u) /\ ~ Overlaps(h, u)))
  <2>1. trial' = [trial EXCEPT ![h] = x] /\ x.pc = "find" /\ x.user = u
    BY <1>t, <1>2 DEF Proceed, Request
  <2>o. trial'[h] = x /\ \A g \in TrialWorkers \ {h} : trial'[g] = trial[g]
    BY <2>1, OthersRest
  <2>2. ASSUME NEW v \in Users \ unguarded' PROVE GuardedOnce(v)'
    <3>1. GuardedOnce(v) /\ v \notin unguarded
      BY <1>u, <2>2 DEF GrantsInv, GuardWorks
    <3>2. CASE v # u
      <4>1. \A g \in TrialWorkers :
              /\ InHand(g, v)' => InHand(g, v) /\ (At(g, "mark")' <=> At(g, "mark"))
              /\ At(g, "mark") /\ trial[g].user = v => (At(g, "mark") /\ trial[g].user = v)'
        BY <1>u, <2>1, <2>o, <3>2 DEF InHand, At
      <4>. QED BY <1>u, <3>1, <4>1 DEF GuardedOnce
    <3>3. CASE v = u
      <4>1. ~ AlreadyUsed(u) /\ ~ Overlaps(h, u)
        BY <1>2, <2>2, <3>3
      <4>2. \A g \in TrialWorkers \ {h} : ~ InHand(g, u)
        BY <4>1 DEF Overlaps, InHand, TrialSteps
      <4>3. trials[u] = 0
        BY <1>t, <1>u, <3>1, <3>3, <4>1, <4>2 DEF GuardedOnce, AlreadyUsed, InHand, At
      <4>4. \A g \in TrialWorkers : InHand(g, v)' => g = h
        BY <2>o, <3>3, <4>2 DEF InHand
      <4>. QED BY <1>u, <3>3, <4>3, <4>4 DEF GuardedOnce
    <3>. QED BY <3>2, <3>3
  <2>3. MarksFollowTrials'
    BY <1>u, <2>1, <2>o DEF GrantsInv, MarksFollowTrials, At
  <2>4. MarkedWasGiven'
    BY <1>u DEF GrantsInv, MarkedWasGiven
  <2>. QED BY <2>2, <2>3, <2>4 DEF GrantsInv, GuardWorks
<1>3. \/ Return(h)
      \/ /\ Proceed(h)
         /\ Suspect(u) \/ (~ AlreadyUsed(u) /\ ~ Overlaps(h, u))
  BY DEF CheckTrial
<1>4. Suspect(u) => u \in unguarded'
  BY DEF Suspect
<1>. QED BY <1>1, <1>2, <1>3, <1>4

\* A trial is given.
LEMMA GrantStep ==
  ASSUME TypeInv, GrantsInv, NEW h \in TrialWorkers, trial[h].pc \in {"create", "update"},
         Give(trial[h].user), AfterGrant(h), UNCHANGED trialUsed
  PROVE  GrantsInv'
<1> DEFINE u == trial[h].user
           x == [Asking(u) EXCEPT !.pc = "mark"]
<1>t. u \in Users /\ trials \in [Users -> Nat]
  BY AtWork DEF TypeInv, TypeOK, TrialTypeOK
<1>g. trials'[u] = trials[u] + 1 /\ \A v \in Users \ {u} : trials'[v] = trials[v]
  BY <1>t DEF Give
<1>o. /\ \A g \in TrialWorkers \ {h} : trial'[g] = trial[g]
      /\ \/ trial'[h].pc = "mark" /\ trial'[h].user = u /\ unguarded' = unguarded
         \/ trial'[h].pc = "idle" /\ unguarded' = unguarded \cup {u}
  <2>1. CASE trial' = [trial EXCEPT ![h] = x] /\ UNCHANGED unguarded
    <3>1. x.pc = "mark" /\ x.user = u
      BY DEF Asking
    <3>. QED BY <2>1, <3>1, OthersRest
  <2>2. CASE Return(h) /\ Suspect(u)
    <3>1. trial' = [trial EXCEPT ![h] = Resting] /\ unguarded' = unguarded \cup {u}
      BY <2>2 DEF Return, Suspect
    <3>2. Resting.pc = "idle"
      BY DEF Resting
    <3>. QED BY <3>1, <3>2, OthersRest
  <2>. QED BY <2>1, <2>2 DEF AfterGrant
<1>1. ASSUME NEW v \in Users \ unguarded' PROVE GuardedOnce(v)'
  <2>1. GuardedOnce(v) /\ v \notin unguarded
    BY <1>o, <1>1 DEF GrantsInv, GuardWorks
  <2>2. CASE v # u
    <3>1. \A g \in TrialWorkers :
            /\ InHand(g, v)' => InHand(g, v) /\ (At(g, "mark")' <=> At(g, "mark"))
            /\ At(g, "mark") /\ trial[g].user = v => (At(g, "mark") /\ trial[g].user = v)'
      BY <1>o, <2>2 DEF InHand, At
    <3>. QED BY <1>g, <2>1, <2>2, <3>1 DEF GuardedOnce
  <2>3. CASE v = u
    <3>1. trial'[h].pc = "mark" /\ trial'[h].user = u
      BY <1>o, <1>1, <2>3
    <3>2. InHand(h, u) /\ ~ At(h, "mark")
      BY DEF InHand, At
    <3>3. trials[u] = 0 /\ \A g \in TrialWorkers \ {h} : ~ InHand(g, u)
      BY <2>1, <2>3, <3>2 DEF GuardedOnce
    <3>4. \A g \in TrialWorkers : InHand(g, v)' => g = h
      BY <1>o, <2>3, <3>3 DEF InHand
    <3>. QED BY <1>g, <2>3, <3>1, <3>3, <3>4 DEF GuardedOnce, At
  <2>. QED BY <2>2, <2>3
<1>2. MarksFollowTrials'
  <2>1. ASSUME NEW g \in TrialWorkers, At(g, "mark")' PROVE trials'[trial'[g].user] > 0
    <3>1. CASE g = h
      BY <1>t, <1>g, <1>o, <2>1, <3>1 DEF At
    <3>2. CASE g # h
      <4>1. At(g, "mark") /\ trials[trial[g].user] > 0 /\ trial[g].user \in Users
        BY <1>o, <2>1, <3>2, AtWork DEF At, GrantsInv, MarksFollowTrials
      <4>. QED BY <1>t, <1>g, <1>o, <3>2, <4>1
    <3>. QED BY <3>1, <3>2
  <2>. QED BY <2>1 DEF MarksFollowTrials
<1>3. MarkedWasGiven'
  BY <1>t, <1>g DEF GrantsInv, MarkedWasGiven, TypeInv, TypeOK, TrialTypeOK
<1>. QED BY <1>1, <1>2, <1>3 DEF GrantsInv, GuardWorks

\* The key is written, or its write fails.
LEMMA MarkStep ==
  ASSUME TypeInv, GrantsInv, NEW h \in TrialWorkers, MarkTrial(h)
  PROVE  GrantsInv'
<1> DEFINE u == trial[h].user
<1>t. u \in Users /\ At(h, "mark")
  BY AtWork DEF MarkTrial, At
<1>o. trial'[h] = Resting /\ \A g \in TrialWorkers \ {h} : trial'[g] = trial[g]
  BY OthersRest DEF MarkTrial, Return
<1>u. /\ trials' = trials
      /\ \/ trialUsed' = trialUsed \cup {u} /\ unguarded' = unguarded
         \/ trialUsed' = trialUsed /\ unguarded' = unguarded \cup {u}
  BY DEF MarkTrial, Suspect
<1>1. ASSUME NEW v \in Users \ unguarded' PROVE GuardedOnce(v)'
  <2>1. GuardedOnce(v) /\ v \notin unguarded
    BY <1>u, <1>1 DEF GrantsInv, GuardWorks
  <2>2. \A g \in TrialWorkers :
          /\ InHand(g, v)' => InHand(g, v) /\ (At(g, "mark")' <=> At(g, "mark"))
          /\ g # h /\ At(g, "mark") /\ trial[g].user = v => (At(g, "mark") /\ trial[g].user = v)'
    BY <1>o DEF InHand, At, Resting
  <2>3. v = u => v \in trialUsed'
    BY <1>u, <1>1
  <2>. QED BY <1>u, <2>1, <2>2, <2>3 DEF GuardedOnce
<1>2. MarksFollowTrials'
  BY <1>o, <1>u DEF GrantsInv, MarksFollowTrials, At, Resting
<1>3. MarkedWasGiven'
  BY <1>t, <1>u DEF GrantsInv, MarkedWasGiven, MarksFollowTrials
<1>. QED BY <1>1, <1>2, <1>3 DEF GrantsInv, GuardWorks

\* The process is killed: nobody is at work, and who was to be marked is suspect.
LEMMA LossStep ==
  ASSUME TypeInv, GrantsInv, LoseTrials
  PROVE  GrantsInv'
  BY DEF LoseTrials, Resting, TypeInv, TypeOK, TrialTypeOK, GrantsInv, GuardWorks,
      GuardedOnce, MarksFollowTrials, MarkedWasGiven, InHand, At

\* Every step keeps the once-only check sound where it can be.
LEMMA GrantsStep == TypeInv /\ GrantsInv /\ [Next]_vars => GrantsInv'
<1> SUFFICES ASSUME TypeInv, GrantsInv, [Next]_vars PROVE GrantsInv'
  OBVIOUS
<1>1. ASSUME NEW h \in TrialWorkers, NEW u \in Users, StartTrial(h, u) PROVE GrantsInv'
  <2>1. Asking(u).pc = "check" /\ trial[h].pc # "mark"
    BY <1>1 DEF StartTrial, Resting, Asking
  <2>. QED BY <1>1, <2>1, QuietStep DEF StartTrial
<1>2. ASSUME NEW h \in TrialWorkers, CheckTrial(h) PROVE GrantsInv'
  BY <1>2, CheckStep
<1>3. ASSUME NEW h \in TrialWorkers, FindForTrial(h) PROVE GrantsInv'
  <2>1. trial[h] \in Request /\ UNCHANGED <<trialUsed, trials, unguarded>> /\ trial[h].pc = "find"
    BY <1>3, AtWork DEF FindForTrial, At
  <2>2. PICK x : /\ trial' = [trial EXCEPT ![h] = x]
                 /\ x.pc \in {"create", "update"}
                 /\ x.user = trial[h].user
    <3>1. CASE Goto(h, "create")
      <4>1. /\ trial' = [trial EXCEPT ![h] = [trial[h] EXCEPT !.pc = "create"]]
            /\ [trial[h] EXCEPT !.pc = "create"].pc = "create"
            /\ [trial[h] EXCEPT !.pc = "create"].user = trial[h].user
        BY <2>1, <3>1 DEF Goto, Request
      <4>. QED BY <4>1
    <3>2. ASSUME NEW a, trial' = [trial EXCEPT ![h].pc = "update", ![h].account = a,
                                               ![h].seen = panel[a].expire]
          PROVE  \E x : /\ trial' = [trial EXCEPT ![h] = x]
                        /\ x.pc \in {"create", "update"}
                        /\ x.user = trial[h].user
      <4> DEFINE x == [trial[h] EXCEPT !.pc = "update", !.account = a,
                                       !.seen = panel[a].expire]
      <4>1. trial' = [trial EXCEPT ![h] = x] /\ x.pc = "update" /\ x.user = trial[h].user
        BY <2>1, <3>2 DEF Request
      <4>. QED BY <4>1
    <3>. QED BY <1>3, <3>1, <3>2 DEF FindForTrial
  <2>. QED BY <2>1, <2>2, QuietStep DEF InHand
<1>4. ASSUME NEW h \in TrialWorkers, CreateTrial(h) PROVE GrantsInv'
  BY <1>4, GrantStep, QuietStep DEF CreateTrial, Fail, Return, Resting, At
<1>5. ASSUME NEW h \in TrialWorkers, UpdateTrial(h) PROVE GrantsInv'
  BY <1>5, GrantStep, QuietStep DEF UpdateTrial, Fail, Return, Resting, At
<1>6. ASSUME NEW h \in TrialWorkers, MarkTrial(h) PROVE GrantsInv'
  BY <1>6, MarkStep
<1>7. CASE TrialCrash
  BY <1>7, LossStep DEF TrialCrash
<1>8. CASE UNCHANGED <<trialUsed, trial, trials, unguarded>>
  BY <1>8 DEF GrantsInv, GuardWorks, GuardedOnce, MarksFollowTrials, MarkedWasGiven, InHand, At
<1>. QED
  BY <1>1, <1>2, <1>3, <1>4, <1>5, <1>6, <1>7, <1>8
  DEF Next, TrialStep, Serve, vars, trialVars

LEMMA GrantsInvariant == Spec => [](TypeInv /\ GrantsInv)
  BY TypeInit, TypeStep, GrantsInit, GrantsStep, PTL DEF Spec

\* However requests overlap and wherever the process is killed, a second trial
\* goes only to a customer for whom the check could not work.
THEOREM TrialOnceIfGuarded == Spec => []OnceUnlessUnguarded
<1>1. TypeInv /\ GrantsInv => OnceUnlessUnguarded
  BY DEF TypeInv, TypeOK, TrialTypeOK, GrantsInv, GuardWorks, GuardedOnce, OnceUnlessUnguarded
<1>. QED BY <1>1, GrantsInvariant, PTL

\* Nobody is barred from a trial they did not get.
THEOREM MarkMeansTrial == Spec => []MarkedWasGiven
<1>1. GrantsInv => MarkedWasGiven
  BY DEF GrantsInv
<1>. QED BY <1>1, GrantsInvariant, PTL

\* Who got the trial is marked once the request is over, or is suspect.
THEOREM TrialMeansMark == Spec => []GivenIsMarked
<1>1. TypeInv /\ GrantsInv => GivenIsMarked
  BY DEF TypeInv, TypeOK, TrialTypeOK, GrantsInv, GuardWorks, GuardedOnce, GivenIsMarked
<1>. QED BY <1>1, GrantsInvariant, PTL

(***************************************************************************)
(* One account per customer.  A customer whom neither a lookup that failed *)
(* nor an operator has crowded has at most one account, and a goroutine    *)
(* about to create one has found none, so that at most another goroutine's *)
(* account, under the same UUID, can have come in between.                 *)
(***************************************************************************)
Alone(u) ==
  /\ \A a, b \in FoundBy(u) : a = b
  /\ \A h \in TrialWorkers :
       At(h, "create") /\ trial[h].user = u => FoundBy(u) \subseteq {u}

OneAccount == \A u \in Users \ crowded : Alone(u)

\* A customer is crowded from the start who has two accounts then.
LEMMA OneAccountInit == Init => OneAccount
  BY DEF Init, TrialInit, OneAccount, Alone, At, Resting

\* A new account is found under its owner.
LEMMA FoundAfterCreate ==
  ASSUME TypeInv, NEW u \in Users, NEW record \in Account, record.owner = u, NEW days,
         CreateAccount(u, record, days)
  PROVE  /\ u \notin FoundBy(u)
         /\ \A v \in Users : FoundBy(v)' \subseteq FoundBy(v) \cup (IF v = u THEN {u} ELSE {})
<1>1. u \in Accounts /\ panel[u] = None
  BY DEF Accounts, CreateAccount, Refuses, Exists
<1>2. panel'[u] = record /\ \A a \in Accounts \ {u} : panel'[a] = panel[a]
  BY <1>1 DEF CreateAccount, TypeInv, TypeOK, PanelTypeOK
<1>. QED
  BY <1>1, <1>2 DEF FoundBy, Exists

\* A new date leaves the owners as they are.
LEMMA FoundAfterExtend ==
  ASSUME TypeInv, NEW a \in Accounts, NEW expire \in Nat, NEW days,
         ExtendAccount(a, expire, days)
  PROVE  \A v \in Users : FoundBy(v)' = FoundBy(v)
<1>1. panel[a] \in Account /\ panel[a] # None
  BY DEF ExtendAccount, Exists, TypeInv, TypeOK, PanelTypeOK
<1> DEFINE record == [panel[a] EXCEPT !.expire = expire]
<1>2. record \in Account /\ record.owner = panel[a].owner
  BY <1>1 DEF Account
<1>3. panel'[a] = record /\ \A b \in Accounts \ {a} : panel'[b] = panel[b]
  BY DEF ExtendAccount, TypeInv, TypeOK, PanelTypeOK
<1>. QED
  BY <1>1, <1>2, <1>3, PanelAssumption DEF FoundBy, Exists

\* Operators give at most one account a new owner at a time.
LEMMA FoundAfterOperator ==
  ASSUME TypeInv, Operator
  PROVE  \E a \in Accounts : \A v \in Users : FoundBy(v)' \subseteq FoundBy(v) \cup {a}
<1>1. PICK a \in Accounts : AdminUpdateUser(a) \/ AdminCreateUser(a)
  BY DEF Operator
<1>2. PICK record : panel' = [panel EXCEPT ![a] = record]
  BY <1>1 DEF AdminUpdateUser, AdminCreateUser
<1>3. \A b \in Accounts \ {a} : panel'[b] = panel[b]
  BY <1>2 DEF TypeInv, TypeOK, PanelTypeOK
<1>. QED
  BY <1>3 DEF FoundBy, Exists

\* A step that finds nobody more, and takes nobody to a creation.
LEMMA SameAccounts ==
  ASSUME TypeInv, OneAccount, UNCHANGED crowded,
         \A v \in Users : FoundBy(v)' = FoundBy(v),
         \A h \in TrialWorkers : At(h, "create")' =>
           At(h, "create") /\ trial'[h].user = trial[h].user
  PROVE  OneAccount'
  BY DEF OneAccount, Alone

\* Every step keeps one account per customer who is not crowded.
LEMMA OneAccountStep == TypeInv /\ OneAccount /\ [Next]_vars => OneAccount'
<1> SUFFICES ASSUME TypeInv, OneAccount, [Next]_vars PROVE OneAccount'
  OBVIOUS
<1>p. UNCHANGED panel => \A v \in Users : FoundBy(v)' = FoundBy(v)
  BY DEF FoundBy, Exists
<1>1. ASSUME NEW h \in TrialWorkers, NEW u \in Users, StartTrial(h, u), UNCHANGED panelVars
      PROVE  OneAccount'
  <2>1. Asking(u).pc = "check"
    BY DEF Asking
  <2>. QED
    BY <1>p, <1>1, <2>1, OthersRest, SameAccounts DEF StartTrial, At, panelVars
<1>2. ASSUME NEW h \in TrialWorkers, CheckTrial(h) PROVE OneAccount'
  <2>1. trial[h] \in Request
    BY <1>2, AtWork DEF CheckTrial, At
  <2>2. \E x : x.pc # "create" /\ trial' = [trial EXCEPT ![h] = x]
    <3>1. CASE Return(h)
      BY <3>1 DEF Return, Resting
    <3>2. CASE Proceed(h)
      <4> DEFINE x == [trial[h] EXCEPT !.pc = "find", !.now = clock]
      <4>1. x.pc = "find" /\ trial' = [trial EXCEPT ![h] = x]
        BY <2>1, <3>2 DEF Proceed, Request
      <4>. QED BY <4>1
    <3>. QED BY <1>2, <3>1, <3>2 DEF CheckTrial
  <2>. QED
    BY <1>p, <1>2, <2>2, OthersRest, SameAccounts DEF CheckTrial, At, panelVars
<1>3. ASSUME NEW h \in TrialWorkers, FindForTrial(h) PROVE OneAccount'
  <2> DEFINE u == trial[h].user
  <2>1. trial[h] \in Request /\ UNCHANGED panel
    BY <1>3, AtWork DEF FindForTrial, At, panelVars
  <2>2. CASE /\ Goto(h, "create")
             /\ crowded' = IF FoundBy(u) = {} THEN crowded ELSE crowded \cup {u}
    <3> DEFINE x == [trial[h] EXCEPT !.pc = "create"]
    <3>1. x.user = u /\ trial' = [trial EXCEPT ![h] = x]
      BY <2>1, <2>2 DEF Goto, Request
    <3>2. trial'[h] = x /\ \A g \in TrialWorkers \ {h} : trial'[g] = trial[g]
      BY <3>1, OthersRest
    <3>3. ASSUME NEW v \in Users \ crowded' PROVE Alone(v)'
      <4>1. Alone(v) /\ (v = u => FoundBy(v) = {})
        BY <2>2, <3>3 DEF OneAccount
      <4>2. FoundBy(v)' = FoundBy(v)
        BY <1>p, <2>1
      <4>3. \A g \in TrialWorkers : At(g, "create")' /\ trial'[g].user = v
              => v = u \/ (At(g, "create") /\ trial[g].user = v)
        BY <3>1, <3>2 DEF At
      <4>. QED BY <4>1, <4>2, <4>3 DEF Alone
    <3>. QED BY <3>3 DEF OneAccount
  <2>3. ASSUME NEW a, UNCHANGED crowded,
               trial' = [trial EXCEPT ![h].pc = "update", ![h].account = a,
                                      ![h].seen = panel[a].expire]
        PROVE  OneAccount'
    <3> DEFINE x == [trial[h] EXCEPT !.pc = "update", !.account = a,
                                     !.seen = panel[a].expire]
    <3>1. x.pc = "update" /\ trial' = [trial EXCEPT ![h] = x]
      BY <2>1, <2>3 DEF Request
    <3>2. trial'[h] = x /\ \A g \in TrialWorkers \ {h} : trial'[g] = trial[g]
      BY <3>1, OthersRest
    <3>3. \A g \in TrialWorkers : At(g, "create")' =>
            At(g, "create") /\ trial'[g].user = trial[g].user
      BY <3>1, <3>2 DEF At
    <3>. QED BY <1>p, <2>1, <2>3, <3>3, SameAccounts
  <2>. QED BY <1>3, <2>2, <2>3 DEF FindForTrial
<1>r. ASSUME NEW h \in TrialWorkers, AfterGrant(h) \/ Return(h)
      PROVE  \A g \in TrialWorkers : At(g, "create")' => g # h /\ trial'[g] = trial[g]
  <2> DEFINE x == [Asking(trial[h].user) EXCEPT !.pc = "mark"]
  <2>1. x.pc = "mark" /\ Resting.pc = "idle"
    BY DEF Asking, Resting
  <2>2. trial' = [trial EXCEPT ![h] = x] \/ trial' = [trial EXCEPT ![h] = Resting]
    BY <1>r DEF AfterGrant, Return
  <2>. QED BY <2>1, <2>2, OthersRest DEF At
<1>4. ASSUME NEW h \in TrialWorkers, CreateTrial(h) PROVE OneAccount'
  <2> DEFINE u == trial[h].user
             record == [owner |-> u, expire |-> trial[h].now + TrialDays,
                        devices |-> TrialDevices]
  <2>1. trial[h] \in Request /\ u \in Users /\ At(h, "create") /\ UNCHANGED crowded
    BY <1>4, AtWork DEF CreateTrial, At
  <2>2. CASE CreateAccount(u, record, TrialDays) /\ AfterGrant(h)
    <3>1. record \in Account /\ record.owner = u
      BY <2>1 DEF Account, Request, TrialDays, TrialDevices
    <3>2. /\ u \notin FoundBy(u)
          /\ \A v \in Users : FoundBy(v)' \subseteq FoundBy(v) \cup (IF v = u THEN {u} ELSE {})
      BY <2>1, <2>2, <3>1, FoundAfterCreate
    <3>3. ASSUME NEW v \in Users \ crowded' PROVE Alone(v)'
      <4>1. Alone(v)
        BY <2>1, <3>3 DEF OneAccount
      <4>2. CASE v = u
        <5>1. FoundBy(v) = {}
          BY <2>1, <3>2, <4>1, <4>2 DEF Alone
        <5>2. FoundBy(v)' \subseteq {v}
          BY <3>2, <4>2, <5>1
        <5>. QED BY <5>2 DEF Alone
      <4>3. CASE v # u
        <5>1. FoundBy(v)' \subseteq FoundBy(v)
          BY <3>2, <4>3
        <5>2. \A g \in TrialWorkers : At(g, "create")' /\ trial'[g].user = v
                => At(g, "create") /\ trial[g].user = v
          BY <1>r, <2>2 DEF At
        <5>. QED BY <4>1, <5>1, <5>2 DEF Alone
      <4>. QED BY <4>2, <4>3
    <3>. QED BY <3>3 DEF OneAccount
  <2>3. CASE Fail(h)
    BY <1>p, <1>r, <2>1, <2>3, SameAccounts DEF Fail, At, panelVars
  <2>. QED BY <1>4, <2>2, <2>3 DEF CreateTrial
<1>5. ASSUME NEW h \in TrialWorkers, UpdateTrial(h) PROVE OneAccount'
  <2> DEFINE t == trial[h]
             expire == NewExpire(t.seen, t.now, TrialDays)
  <2>1. /\ t \in Request /\ t.account \in Accounts /\ expire \in Nat
        /\ UNCHANGED crowded /\ At(h, "update")
    BY <1>5, AtWork
    DEF UpdateTrial, At, TypeInv, UpdatesAccounts, NewExpire, Request, TrialDays
  <2>2. CASE ExtendAccount(t.account, expire, TrialDays) /\ AfterGrant(h)
    <3>1. \A v \in Users : FoundBy(v)' = FoundBy(v)
      BY <2>1, <2>2, FoundAfterExtend
    <3>. QED BY <1>r, <2>1, <2>2, <3>1, SameAccounts DEF At
  <2>3. CASE Fail(h)
    BY <1>p, <1>r, <2>1, <2>3, SameAccounts DEF Fail, At, panelVars
  <2>. QED BY <1>5, <2>2, <2>3 DEF UpdateTrial
<1>6. ASSUME NEW h \in TrialWorkers, MarkTrial(h) PROVE OneAccount'
  BY <1>p, <1>r, <1>6, SameAccounts DEF MarkTrial, At, panelVars
<1>7. CASE TrialCrash
  BY <1>p, <1>7, SameAccounts DEF TrialCrash, LoseTrials, Resting, At, panelVars
<1>8. CASE Surroundings /\ OperatorsCrowd /\ UNCHANGED <<trialUsed, trial, trials, unguarded>>
  <2>1. CASE UNCHANGED panelVars
    <3>1. crowded' = crowded
      BY <1>p, <1>8, <2>1 DEF OperatorsCrowd, panelVars, TypeInv, TypeOK, TrialTypeOK
    <3>. QED BY <1>p, <1>8, <2>1, <3>1, SameAccounts DEF panelVars, At
  <2>2. CASE Operator
    <3>1. PICK a \in Accounts : \A v \in Users : FoundBy(v)' \subseteq FoundBy(v) \cup {a}
      BY <2>2, FoundAfterOperator
    <3>2. ASSUME NEW v \in Users \ crowded' PROVE Alone(v)'
      <4>1. Alone(v)
        BY <1>8, <3>2 DEF OperatorsCrowd, OneAccount
      <4>2. CASE FoundBy(v)' \subseteq FoundBy(v)
        BY <1>8, <4>1, <4>2 DEF Alone, At
      <4>3. CASE ~ (FoundBy(v)' \subseteq FoundBy(v))
        <5>1. FoundBy(v) = {} /\ \A h \in TrialWorkers : ~ (At(h, "create") /\ trial[h].user = v)
          BY <1>8, <3>2, <4>3 DEF OperatorsCrowd
        <5>2. FoundBy(v)' \subseteq {a}
          BY <3>1, <5>1
        <5>3. \A h \in TrialWorkers : ~ (At(h, "create") /\ trial[h].user = v)'
          BY <1>8, <5>1 DEF At
        <5>. QED BY <5>2, <5>3 DEF Alone
      <4>. QED BY <4>2, <4>3
    <3>. QED BY <3>2 DEF OneAccount
  <2>. QED BY <1>8, <2>1, <2>2 DEF Surroundings
<1>9. CASE UNCHANGED vars
  BY <1>p, <1>9, SameAccounts DEF vars, trialVars, panelVars, At
<1>. QED
  BY <1>1, <1>2, <1>3, <1>4, <1>5, <1>6, <1>7, <1>8, <1>9 DEF Next, TrialStep, Serve

\* Access that runs is shown as active, for any number of accounts and requests,
\* to everybody who has not come by a second account.
THEOREM LiveAccountIsShown == Spec => []LiveIsShown
<1>1. OneAccount => LiveIsShown
  <2> SUFFICES ASSUME OneAccount, NEW u \in Users \ crowded,
                      NEW a \in FoundBy(u), panel[a].expire > clock
               PROVE  GetSubscription(u) = {"active"}
    BY DEF LiveIsShown
  <2>1. FoundBy(u) = {a}
    BY DEF OneAccount, Alone
  <2>2. SubscriptionStatus(panel[a]) = {"active"}
    BY DEF SubscriptionStatus
  <2>3. {SubscriptionStatus(panel[b]) : b \in FoundBy(u)} = {{"active"}}
    BY <2>1, <2>2
  <2>. QED BY <2>1, <2>3 DEF GetSubscription
<1>. QED BY <1>1, TypeInvariant, OneAccountInit, OneAccountStep, PTL DEF Spec

=============================================================================
