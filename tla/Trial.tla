-------------------------------- MODULE Trial --------------------------------
(***************************************************************************)
(* The free trial: StartTrial of internal/handlers/trial.go.  A signed-in  *)
(* customer asks once for three days of access.  The handler reads a       *)
(* permanent Redis key, looks the customer up on the panel, creates or     *)
(* prolongs the account, and only then writes the key.  Requests of one    *)
(* customer (two tabs, a second click) run concurrently, and a request     *)
(* that ended in an error can be sent again.                               *)
(***************************************************************************)
EXTENDS RemnaPanel

CONSTANTS
  TrialWorkers,   \* goroutines that may serve POST /trial at the same time
  MaxTrials       \* bound: trials given to one customer

ASSUME TrialAssumption == MaxTrials \in Nat

VARIABLES
  trialUsed,      \* customers whose key trial_used:<email> is in Redis
  trial,          \* what each goroutine holds
  trials,         \* history: trials given to each customer
  unguarded,      \* history: customers whose once-only check could not work
  crowded         \* history: customers who may have come by a second account

trialVars == <<trialUsed, trial, trials, unguarded, crowded>>

TrialDays == 3

TrialDevices == 1

TrialSteps == {"check", "find", "create", "update", "mark"}

Resting == [pc |-> "idle"]

Asking(u) ==
  [pc |-> "check", user |-> u, now |-> 0, account |-> None, seen |-> 0]

\* Keys belong to customers; a goroutine rests or serves one request.
TrialTypeOK ==
  /\ trialUsed \subseteq Users
  /\ trial \in [TrialWorkers ->
       [pc : TrialSteps, user : Users, now : Nat,
        account : Accounts \cup {None}, seen : Nat] \cup {Resting}]
  /\ trials \in [Users -> Nat]
  /\ unguarded \subseteq Users
  /\ crowded \subseteq Users

\* The types of the trial and of everything it stands on.
TypeOK == ServerTypeOK /\ PanelTypeOK /\ TrialTypeOK

TrialInit ==
  /\ trialUsed = {}
  /\ trial = [h \in TrialWorkers |-> Resting]
  /\ trials = [u \in Users |-> 0]
  /\ unguarded = {}
  /\ crowded = {u \in Users : \E a, b \in FoundBy(u) : a # b}

-----------------------------------------------------------------------------

At(h, step) == trial[h].pc = step

Goto(h, step) == trial' = [trial EXCEPT ![h].pc = step]

Return(h) == trial' = [trial EXCEPT ![h] = Resting]

Suspect(u) == unguarded' = unguarded \cup {u}

StartTrial(h, u) ==
  /\ trial[h] = Resting
  /\ trials[u] < MaxTrials
  /\ trial' = [trial EXCEPT ![h] = Asking(u)]
  /\ UNCHANGED <<trialUsed, trials, unguarded, crowded>>

\* Mutant: the key is not looked at.
NeverUsed(u) == FALSE

AlreadyUsed(u) == u \in trialUsed

\* Another request of u is past its own check and has not written the key.
Overlaps(h, u) ==
  \E other \in TrialWorkers \ {h} :
    /\ trial[other].pc \in TrialSteps \ {"check"}
    /\ trial[other].user = u

Proceed(h) == trial' = [trial EXCEPT ![h].pc = "find", ![h].now = clock]

\* An error of Redis counts as "not used".
CheckTrial(h) ==
  LET u == trial[h].user IN
  /\ At(h, "check")
  /\ \/ AlreadyUsed(u) /\ Return(h) /\ UNCHANGED unguarded
     \/ /\ ~ AlreadyUsed(u)
        /\ Proceed(h)
        /\ IF Overlaps(h, u) THEN Suspect(u) ELSE UNCHANGED unguarded
     \/ Proceed(h) /\ Suspect(u)
  /\ UNCHANGED <<panelVars, trialUsed, trials, crowded>>

\* Mutant: an account that has run out counts as none.
FindForTrialLive(h) ==
  LET u    == trial[h].user
      live == {a \in FoundBy(u) : panel[a].expire > clock}
  IN
  /\ At(h, "find")
  /\ \/ live = {} /\ Goto(h, "create")
     \/ \E a \in live :
          trial' = [trial EXCEPT ![h].pc = "update",
                                 ![h].account = a,
                                 ![h].seen = panel[a].expire]
  /\ UNCHANGED <<panelVars, trialUsed, trials, unguarded, crowded>>

\* Any error of the lookup, not only "not found", leads to CreateNewUser.
FindForTrial(h) ==
  LET u == trial[h].user IN
  /\ At(h, "find")
  /\ \/ /\ Goto(h, "create")
        /\ crowded' = IF FoundBy(u) = {} THEN crowded ELSE crowded \cup {u}
     \/ /\ \E a \in FoundBy(u) :
             trial' = [trial EXCEPT ![h].pc = "update",
                                    ![h].account = a,
                                    ![h].seen = panel[a].expire]
        /\ UNCHANGED crowded
  /\ UNCHANGED <<panelVars, trialUsed, trials, unguarded>>

Give(u) == trials' = [trials EXCEPT ![u] = @ + 1]

\* Mutant: returns without writing the key.
AfterGrantUnmarked(h) == Return(h) /\ UNCHANGED unguarded

\* The panel's answer decides: with it the key is written next, without it the
\* customer gets a 502 and no key, whether or not the panel did the work.
AfterGrant(h) ==
  \/ /\ trial' = [trial EXCEPT ![h] = [Asking(trial[h].user) EXCEPT !.pc = "mark"]]
     /\ UNCHANGED unguarded
  \/ Return(h) /\ Suspect(trial[h].user)

\* Mutant: the panel's error is only logged and the key is written.
FailMarked(h) ==
  /\ trial' = [trial EXCEPT ![h] = [Asking(trial[h].user) EXCEPT !.pc = "mark"]]
  /\ UNCHANGED <<panelVars, trials, unguarded>>

Fail(h) == Return(h) /\ UNCHANGED <<panelVars, trials, unguarded>>

\* Runs under the request's context; the other calls have ten minutes.
CreateTrial(h) ==
  LET u == trial[h].user IN
  /\ At(h, "create")
  /\ \/ /\ CreateAccount(u, [owner |-> u, expire |-> trial[h].now + TrialDays,
                             devices |-> TrialDevices], TrialDays)
        /\ Give(u)
        /\ AfterGrant(h)
     \/ Fail(h)
  /\ UNCHANGED <<trialUsed, crowded>>

UpdateTrial(h) ==
  LET t == trial[h] IN
  /\ At(h, "update")
  /\ \/ /\ ExtendAccount(t.account, NewExpire(t.seen, t.now, TrialDays), TrialDays)
        /\ Give(t.user)
        /\ AfterGrant(h)
     \/ Fail(h)
  /\ UNCHANGED <<trialUsed, crowded>>

\* Mutant: the key carries the account instead of the e-mail.
MarkTrialByAccount(h) ==
  /\ At(h, "mark")
  /\ Return(h)
  /\ trialUsed' = trialUsed \cup {trial[h].account}
  /\ UNCHANGED <<panelVars, trials, unguarded, crowded>>

\* A failure to write the key is logged, and the customer is told all is well.
MarkTrial(h) ==
  LET u == trial[h].user IN
  /\ At(h, "mark")
  /\ Return(h)
  /\ \/ trialUsed' = trialUsed \cup {u} /\ UNCHANGED unguarded
     \/ Suspect(u) /\ UNCHANGED trialUsed
  /\ UNCHANGED <<panelVars, trials, crowded>>

\* The process is killed; a trial that was given stays given, with no key.
LoseTrials ==
  /\ trial' = [h \in TrialWorkers |-> Resting]
  /\ unguarded' = unguarded \cup
       {u \in Users : \E h \in TrialWorkers : At(h, "mark") /\ trial[h].user = u}
  /\ UNCHANGED <<trialUsed, trials, crowded>>

\* Operators give a customer an account beside another, or beside one that a
\* request has just failed to find and is about to create.
OperatorsCrowd ==
  crowded' = crowded \cup
    {u \in Users :
       /\ FoundBy(u)' \ FoundBy(u) # {}
       /\ \/ FoundBy(u) # {}
          \/ \E h \in TrialWorkers : At(h, "create") /\ trial[h].user = u}

-----------------------------------------------------------------------------
(* The specification. *)

Serve(h) ==
  \/ CheckTrial(h)
  \/ FindForTrial(h)
  \/ CreateTrial(h)
  \/ UpdateTrial(h)
  \/ MarkTrial(h)

TrialStep ==
  /\ \E h \in TrialWorkers :
       \/ \E u \in Users : StartTrial(h, u) /\ UNCHANGED panelVars
       \/ Serve(h)
  /\ UNCHANGED serverVars

TrialCrash == Restart /\ LoseTrials /\ UNCHANGED panelVars

vars == <<serverVars, panelVars, trialVars>>

Init == ServerInit /\ PanelInit /\ TrialInit

Next ==
  \/ TrialStep
  \/ TrialCrash
  \/ /\ Surroundings
     /\ OperatorsCrowd
     /\ UNCHANGED <<trialUsed, trial, trials, unguarded>>

Spec == Init /\ [][Next]_vars

-----------------------------------------------------------------------------
(* What the customer sees: GetSubscription of internal/handlers/             *)
(* subscription.go.                                                          *)

\* The panel's own status is ACTIVE until the panel notices that an account has
\* run out, and either that or the date makes the page say `active'.
SubscriptionStatus(record) ==
  IF record.expire > clock THEN {"active"} ELSE {"active", "expired"}

\* The page takes whichever account the lookup by e-mail returns; these are its
\* answers when the panel does (an error of the lookup reads as `none').
GetSubscription(u) ==
  IF FoundBy(u) = {} THEN {"none"}
  ELSE UNION {SubscriptionStatus(panel[a]) : a \in FoundBy(u)}

-----------------------------------------------------------------------------
(* Properties. *)

\* trial.go:95 calls the mark permanent, and trial.go:47 tells who asks again that
\* the trial has been used.  Even so it may be given twice, and this says when:
\* it is given twice only to a customer for whom the check could not
\* work: Redis failed, a request overlapped the check, the panel's answer was
\* lost, or the process was killed before it wrote the key.
OnceUnlessUnguarded ==
  \A u \in Users : trials[u] > 1 => u \in unguarded

\* Nobody is barred from a trial they did not get.
MarkedWasGiven == \A u \in trialUsed : trials[u] > 0

\* Outside a request, everybody who got the trial is marked, or is one of those
\* for whom the check could not work.
GivenIsMarked ==
  \A u \in Users :
    /\ trials[u] > 0
    /\ \A h \in TrialWorkers : At(h, "mark") => trial[h].user # u
    => u \in trialUsed \cup unguarded

\* A customer with an account that has not run out is told so, whichever of
\* their accounts the panel lists first; unless a trial opened the account after
\* a lookup that failed to return one they had, or operators gave them a second.
LiveIsShown ==
  \A u \in Users \ crowded :
    (\E a \in FoundBy(u) : panel[a].expire > clock)
      => GetSubscription(u) = {"active"}

=============================================================================
