--------------------------- MODULE NotifierProofs ---------------------------
(***************************************************************************)
(* Proofs about ExpiryNotifier, for any accounts and any number of runs    *)
(* at one time.  Of the accounts' writers the proofs use only what Others  *)
(* says, so that they hold as well where payments and trials write them    *)
(* (AccessProofs).                                                         *)
(***************************************************************************)
EXTENDS ExpiryNotifier, PanelProofs

(***************************************************************************)
(* Type correctness.  What is left of a list is on the list, and the       *)
(* account at hand is due by it.                                           *)
(***************************************************************************)
Holding == Running \cup {Resting}

Busy(j) == job[j].pc \in {"send", "save"}

ListKept(j) ==
  job[j].pc # "idle" =>
    /\ job[j].now <= clock
    /\ \A a \in job[j].todo : job[j].list[a] # None

AtHand(j) ==
  Busy(j) =>
    /\ job[j].at \in Accounts
    /\ job[j].list[job[j].at] # None
    /\ Due(j, job[j].at)

TypeInv == TypeOK /\ \A j \in Jobs : ListKept(j) /\ AtHand(j)

\* What a run at work is.
LEMMA AtWork ==
  ASSUME TypeInv, NEW j \in Jobs, job[j].pc # "idle"
  PROVE  job[j] \in Running
BY DEF TypeInv, TypeOK, Resting

\* One run takes a step.
LEMMA JobMoves ==
  ASSUME TypeInv, NEW j \in Jobs, NEW x \in Holding, job' = [job EXCEPT ![j] = x]
  PROVE  job' \in [Jobs -> Holding] /\ job'[j] = x /\ \A i \in Jobs \ {j} : job'[i] = job[i]
BY DEF TypeInv, TypeOK, Holding

\* The others keep what they hold, while the clock does not go back.
LEMMA OthersKeep ==
  ASSUME TypeInv, NEW i \in Jobs, job'[i] = job[i], clock' \in Days, clock <= clock'
  PROVE  ListKept(i)' /\ AtHand(i)'
<1>1. job[i].pc # "idle" => job[i].now \in Days /\ clock \in Days
  BY AtWork DEF TypeInv, TypeOK, ServerTypeOK, Days, Running
<1>2. ListKept(i)'
  BY <1>1, ServerAssumption DEF TypeInv, ListKept, Days
<1>3. AtHand(i)'
  BY DEF TypeInv, AtHand, Busy, Due
<1>. QED BY <1>2, <1>3

\* The steps of one run.
LEMMA Begins ==
  ASSUME TypeInv, NEW j \in Jobs, Begin(j)
  PROVE  /\ job' \in [Jobs -> Holding] /\ \A i \in Jobs \ {j} : job'[i] = job[i]
         /\ job'[j].pc = "list" /\ job[j].pc = "idle"
         /\ job'[j].now = clock /\ job'[j].todo = {}
<1>1. Beginning \in Holding
  BY DEF TypeInv, TypeOK, ServerTypeOK, Beginning, Holding, Running, Days
<1>2. job' \in [Jobs -> Holding] /\ job'[j] = Beginning /\ \A i \in Jobs \ {j} : job'[i] = job[i]
  BY <1>1, JobMoves DEF Begin
<1>3. Beginning.pc = "list" /\ Beginning.now = clock /\ Beginning.todo = {}
  BY DEF Beginning
<1>. QED BY <1>2, <1>3 DEF Begin, Resting

LEMMA Lists ==
  ASSUME TypeInv, NEW j \in Jobs, ListUsers(j)
  PROVE  /\ job' \in [Jobs -> Holding] /\ \A i \in Jobs \ {j} : job'[i] = job[i]
         /\ job[j].pc = "list"
         /\ \/ job'[j] = Resting
            \/ /\ job'[j].pc = "next" /\ job'[j].now = clock /\ job'[j].list = panel
               /\ job'[j].todo = {a \in Accounts : panel[a] # None}
<1>1. job[j] \in Running /\ job[j].pc = "list"
  BY AtWork DEF ListUsers, At
<1>2. CASE job' = [job EXCEPT ![j] = Resting]
  BY <1>1, <1>2, JobMoves DEF Holding
<1>3. CASE job' = [job EXCEPT ![j].pc = "next", ![j].now = clock, ![j].list = AllUsers,
                              ![j].todo = {a \in Accounts : Exists(a)}]
  <2> DEFINE x == [job[j] EXCEPT !.pc = "next", !.now = clock, !.list = panel,
                                 !.todo = {a \in Accounts : panel[a] # None}]
  <2>1. /\ x \in Running /\ x.pc = "next" /\ x.now = clock /\ x.list = panel
        /\ x.todo = {a \in Accounts : panel[a] # None}
    BY <1>1 DEF TypeInv, TypeOK, ServerTypeOK, PanelTypeOK, Running, Days
  <2>2. job' = [job EXCEPT ![j] = x]
    BY <1>3 DEF TypeInv, TypeOK, AllUsers, Exists
  <2> HIDE DEF x
  <2>. QED BY <1>1, <2>1, <2>2, JobMoves DEF Holding
<1>. QED BY <1>2, <1>3 DEF ListUsers

LEMMA Ends ==
  ASSUME TypeInv, NEW j \in Jobs, Finish(j)
  PROVE  /\ job' \in [Jobs -> Holding] /\ \A i \in Jobs \ {j} : job'[i] = job[i]
         /\ job[j].pc = "next" /\ job'[j] = Resting
BY JobMoves DEF Finish, At, Holding

LEMMA Skips ==
  ASSUME TypeInv, NEW j \in Jobs, At(j, "next"), NEW a \in job[j].todo,
         job' = [job EXCEPT ![j].todo = @ \ {a}]
  PROVE  /\ job' \in [Jobs -> Holding] /\ \A i \in Jobs \ {j} : job'[i] = job[i]
         /\ job[j].pc = "next" /\ a \in Accounts
         /\ job'[j].pc = "next" /\ job'[j].now = job[j].now /\ job'[j].list = job[j].list
         /\ job'[j].todo = job[j].todo \ {a} /\ job'[j].missed = job[j].missed
<1> DEFINE x == [job[j] EXCEPT !.todo = @ \ {a}]
<1>1. job[j] \in Running
  BY AtWork DEF At
<1>2. /\ x \in Running /\ x.pc = job[j].pc /\ x.now = job[j].now /\ x.list = job[j].list
      /\ x.todo = job[j].todo \ {a} /\ a \in Accounts /\ x.missed = job[j].missed
  BY <1>1 DEF Running
<1>3. job' = [job EXCEPT ![j] = x]
  BY DEF TypeInv, TypeOK
<1> HIDE DEF x
<1>. QED BY <1>2, <1>3, JobMoves DEF Holding, At

LEMMA Proceeds ==
  ASSUME TypeInv, NEW j \in Jobs, At(j, "next"), NEW a \in job[j].todo, Proceed(j, a)
  PROVE  /\ job' \in [Jobs -> Holding] /\ \A i \in Jobs \ {j} : job'[i] = job[i]
         /\ job[j].pc = "next" /\ a \in Accounts
         /\ job'[j].pc = "send" /\ job'[j].now = job[j].now /\ job'[j].list = job[j].list
         /\ job'[j].todo = job[j].todo \ {a} /\ job'[j].at = a
         /\ job'[j].missed = job[j].missed
<1> DEFINE x == [job[j] EXCEPT !.pc = "send", !.todo = @ \ {a}, !.at = a]
<1>1. job[j] \in Running
  BY AtWork DEF At
<1>2. /\ x \in Running /\ x.pc = "send" /\ x.now = job[j].now /\ x.list = job[j].list
      /\ x.todo = job[j].todo \ {a} /\ x.at = a /\ a \in Accounts
      /\ x.missed = job[j].missed
  BY <1>1 DEF Running
<1>3. job' = [job EXCEPT ![j] = x]
  BY DEF TypeInv, TypeOK, Proceed
<1> HIDE DEF x
<1>. QED BY <1>2, <1>3, JobMoves DEF Holding, At

LEMMA Saves ==
  ASSUME TypeInv, NEW j \in Jobs, At(j, "send"), job' = [job EXCEPT ![j].pc = "save"]
  PROVE  /\ job' \in [Jobs -> Holding] /\ \A i \in Jobs \ {j} : job'[i] = job[i]
         /\ job'[j].pc = "save" /\ job'[j].now = job[j].now /\ job'[j].list = job[j].list
         /\ job'[j].todo = job[j].todo /\ job'[j].at = job[j].at
         /\ job'[j].missed = job[j].missed
<1> DEFINE x == [job[j] EXCEPT !.pc = "save"]
<1>1. job[j] \in Running
  BY AtWork DEF At
<1>2. /\ x \in Running /\ x.pc = "save" /\ x.now = job[j].now /\ x.list = job[j].list
      /\ x.todo = job[j].todo /\ x.at = job[j].at /\ x.missed = job[j].missed
  BY <1>1 DEF Running
<1>3. job' = [job EXCEPT ![j] = x]
  BY DEF TypeInv, TypeOK
<1> HIDE DEF x
<1>. QED BY <1>2, <1>3, JobMoves DEF Holding

LEMMA GoesOn ==
  ASSUME TypeInv, NEW j \in Jobs, Busy(j), NEW missed \in {{}, {job[j].at}}, GoOn(j, missed)
  PROVE  /\ job' \in [Jobs -> Holding] /\ \A i \in Jobs \ {j} : job'[i] = job[i]
         /\ job'[j].pc = "next" /\ job'[j].now = job[j].now /\ job'[j].list = job[j].list
         /\ job'[j].todo = job[j].todo /\ job'[j].missed = job[j].missed \cup missed
<1> DEFINE x == [job[j] EXCEPT !.pc = "next", !.at = None, !.missed = @ \cup missed]
<1>1. job[j] \in Running /\ missed \subseteq Accounts
  BY AtWork DEF Busy, TypeInv, AtHand
<1>2. /\ x \in Running /\ x.pc = "next" /\ x.now = job[j].now /\ x.list = job[j].list
      /\ x.todo = job[j].todo /\ x.missed = job[j].missed \cup missed
  BY <1>1 DEF Running
<1>3. job' = [job EXCEPT ![j] = x]
  BY DEF TypeInv, TypeOK, GoOn
<1> HIDE DEF x
<1>. QED BY <1>2, <1>3, JobMoves DEF Holding

LEMMA KindType == ASSUME NEW j, NEW a PROVE KindFor(j, a) \in Kinds
BY DEF KindFor, Kinds

\* The account at hand, its notice and the day of the run.
LEMMA HandType ==
  ASSUME TypeInv, NEW j \in Jobs, Busy(j)
  PROVE  job[j].at \in Accounts /\ KindFor(j, job[j].at) \in Kinds /\ job[j].now \in Days
<1>1. job[j] \in Running
  BY AtWork DEF Busy
<1>. QED BY <1>1, KindType DEF TypeInv, AtHand, Running

\* A step of a run keeps the types, if what it leaves of its own is sound.
LEMMA StepType ==
  ASSUME TypeInv, NEW j \in Jobs, UNCHANGED <<serverVars, panelVars>>,
         job' \in [Jobs -> Holding], \A i \in Jobs \ {j} : job'[i] = job[i],
         ListKept(j)' /\ AtHand(j)',
         started' \in BOOLEAN, noon' \in Days \cup {-1},
         notices' \subseteq Notice, mails' \in [Accounts \X Kinds \X Days -> Nat],
         trouble' \subseteq Accounts \X Kinds
  PROVE  TypeInv'
<1>1. ServerTypeOK' /\ PanelTypeOK'
  BY DEF TypeInv, TypeOK, ServerTypeOK, PanelTypeOK, serverVars, panelVars
<1>2. clock' \in Days /\ clock <= clock'
  BY ServerAssumption DEF TypeInv, TypeOK, ServerTypeOK, serverVars, Days
<1>3. \A i \in Jobs : ListKept(i)' /\ AtHand(i)'
  BY <1>2, OthersKeep
<1>. QED BY <1>1, <1>3 DEF TypeInv, TypeOK, Holding

\* At first no run is at work and nothing was told.
LEMMA TypeInit == Init => TypeInv
<1> SUFFICES ASSUME Init PROVE TypeInv
  OBVIOUS
<1>1. ServerTypeOK /\ PanelTypeOK
  BY PanelInitType, ServerAssumption DEF Init, ServerInit, ServerTypeOK
<1>2. TypeOK
  BY <1>1 DEF Init, NotifierInit, TypeOK
<1>3. \A j \in Jobs : ListKept(j) /\ AtHand(j)
  BY DEF Init, NotifierInit, ListKept, AtHand, Busy, Resting
<1>. QED BY <1>2, <1>3 DEF TypeInv

\* What anybody else may do beside the runs: write the accounts, or let the clock
\* move on.  What is proved of [AnyNext]_vars holds beside any such writers.
Others == UNCHANGED notifierVars /\ ServerTypeOK' /\ PanelTypeOK' /\ clock <= clock'

AnyNext == NotifierStep \/ NotifierCrash \/ Others

\* Operators and the clock are such writers.
LEMMA NextIsAny == TypeInv /\ [Next]_vars => [AnyNext]_vars
<1> SUFFICES ASSUME TypeInv, Surroundings, UNCHANGED notifierVars PROVE Others
  BY DEF Next, AnyNext
<1>1. ServerTypeOK /\ PanelTypeOK
  BY DEF TypeInv, TypeOK
<1>2. ServerTypeOK' /\ PanelTypeOK'
  BY <1>1, SurroundingsType
<1>3. clock <= clock'
  BY <1>1, ServerAssumption DEF Surroundings, Tick, serverVars, ServerTypeOK
<1>. QED BY <1>2, <1>3 DEF Others

LEMMA TypeStep == TypeInv /\ [AnyNext]_vars => TypeInv'
<1> SUFFICES ASSUME TypeInv, [AnyNext]_vars PROVE TypeInv'
  OBVIOUS
<1>t. /\ ServerTypeOK /\ PanelTypeOK /\ clock \in Days /\ clock \in Nat
      /\ notices \subseteq Notice /\ mails \in [Accounts \X Kinds \X Days -> Nat]
      /\ trouble \subseteq Accounts \X Kinds /\ started \in BOOLEAN /\ noon \in Days \cup {-1}
  BY ServerAssumption DEF TypeInv, TypeOK, ServerTypeOK, Days
<1>1. ASSUME NEW j \in Jobs, StartUp(j) \/ Cron(j), UNCHANGED <<serverVars, panelVars>>
      PROVE  TypeInv'
  <2>1. Begin(j) /\ started' \in BOOLEAN /\ noon' \in Days \cup {-1}
    BY <1>t, <1>1 DEF StartUp, Cron
  <2>2. UNCHANGED <<notices, mails, trouble>>
    BY <2>1 DEF Begin
  <2>3. /\ job' \in [Jobs -> Holding] /\ \A i \in Jobs \ {j} : job'[i] = job[i]
        /\ job'[j].pc = "list" /\ job'[j].now = clock /\ job'[j].todo = {}
    BY <2>1, Begins
  <2>4. clock' = clock
    BY <1>1 DEF serverVars
  <2>5. ListKept(j)' /\ AtHand(j)'
    BY <1>t, <2>3, <2>4 DEF ListKept, AtHand, Busy
  <2>. QED BY <1>t, <1>1, <2>1, <2>2, <2>3, <2>5, StepType
<1>2. ASSUME NEW j \in Jobs, ListUsers(j), UNCHANGED <<serverVars, panelVars>> PROVE TypeInv'
  <2>1. UNCHANGED <<started, noon, notices, mails, trouble>>
    BY <1>2 DEF ListUsers
  <2>2. /\ job' \in [Jobs -> Holding] /\ \A i \in Jobs \ {j} : job'[i] = job[i]
        /\ \/ job'[j] = Resting
           \/ /\ job'[j].pc = "next" /\ job'[j].now = clock /\ job'[j].list = panel
              /\ job'[j].todo = {a \in Accounts : panel[a] # None}
    BY <1>2, Lists
  <2>3. clock' = clock
    BY <1>2 DEF serverVars
  <2>4. ListKept(j)' /\ AtHand(j)'
    BY <1>t, <2>2, <2>3 DEF ListKept, AtHand, Busy, Resting
  <2>. QED BY <1>t, <1>2, <2>1, <2>2, <2>4, StepType
<1>3. ASSUME NEW j \in Jobs, Finish(j), UNCHANGED <<serverVars, panelVars>> PROVE TypeInv'
  <2>1. UNCHANGED <<started, noon, notices, mails, trouble>>
    BY <1>3 DEF Finish
  <2>2. /\ job' \in [Jobs -> Holding] /\ \A i \in Jobs \ {j} : job'[i] = job[i]
        /\ job'[j] = Resting
    BY <1>3, Ends
  <2>3. ListKept(j)' /\ AtHand(j)'
    BY <2>2 DEF ListKept, AtHand, Busy, Resting
  <2>. QED BY <1>t, <1>3, <2>1, <2>2, <2>3, StepType
<1>4. ASSUME NEW j \in Jobs, Visit(j), UNCHANGED <<serverVars, panelVars>> PROVE TypeInv'
  <2>1. UNCHANGED <<started, noon, notices, mails>> /\ At(j, "next") /\ clock' = clock
    BY <1>4 DEF Visit, serverVars
  <2>2. ListKept(j) /\ job[j].pc # "idle"
    BY <2>1 DEF TypeInv, At
  <2>3. PICK a \in job[j].todo : Skip(j, a) \/ Check(j, a)
    BY <1>4 DEF Visit
  <2>4. a \in Accounts /\ KindFor(j, a) \in Kinds
    BY <2>1, <2>2, AtWork, KindType DEF Running
  <2>5. trouble' \subseteq Accounts \X Kinds
    BY <1>t, <2>3, <2>4 DEF Skip, Check, Blame
  <2>6. CASE job' = [job EXCEPT ![j].todo = @ \ {a}]
    <3>1. /\ job' \in [Jobs -> Holding] /\ \A i \in Jobs \ {j} : job'[i] = job[i]
          /\ job'[j].pc = "next" /\ job'[j].now = job[j].now /\ job'[j].list = job[j].list
          /\ job'[j].todo = job[j].todo \ {a}
      BY <2>1, <2>6, Skips
    <3>2. ListKept(j)' /\ AtHand(j)'
      BY <2>1, <2>2, <3>1 DEF ListKept, AtHand, Busy
    <3>. QED BY <1>t, <1>4, <2>1, <2>5, <3>1, <3>2, StepType
  <2>7. CASE Due(j, a) /\ Proceed(j, a)
    <3>1. /\ job' \in [Jobs -> Holding] /\ \A i \in Jobs \ {j} : job'[i] = job[i]
          /\ job'[j].pc = "send" /\ job'[j].now = job[j].now /\ job'[j].list = job[j].list
          /\ job'[j].todo = job[j].todo \ {a} /\ job'[j].at = a
      BY <2>1, <2>7, Proceeds
    <3>2. ListKept(j)' /\ AtHand(j)'
      BY <2>1, <2>2, <2>4, <2>7, <3>1 DEF ListKept, AtHand, Busy, Due
    <3>. QED BY <1>t, <1>4, <2>1, <2>5, <3>1, <3>2, StepType
  <2>. QED BY <2>3, <2>6, <2>7 DEF Skip, Check
<1>5. ASSUME NEW j \in Jobs, SendMail(j), UNCHANGED <<serverVars, panelVars>> PROVE TypeInv'
  <2>1. UNCHANGED <<started, noon, notices>> /\ At(j, "send") /\ Busy(j) /\ clock' = clock
    BY <1>5 DEF SendMail, serverVars, Busy, At
  <2>2. ListKept(j) /\ AtHand(j) /\ job[j].pc # "idle"
    BY <2>1 DEF TypeInv, At
  <2>3. job[j].at \in Accounts /\ KindFor(j, job[j].at) \in Kinds /\ job[j].now \in Days
    BY <2>1, HandType
  <2>4. trouble' \subseteq Accounts \X Kinds
    BY <1>t, <1>5, <2>3 DEF SendMail, Blame
  <2>5. mails' \in [Accounts \X Kinds \X Days -> Nat]
    BY <1>t, <1>5, <2>3 DEF SendMail, Deliver
  <2>6. CASE job' = [job EXCEPT ![j].pc = "save"]
    <3>1. /\ job' \in [Jobs -> Holding] /\ \A i \in Jobs \ {j} : job'[i] = job[i]
          /\ job'[j].pc = "save" /\ job'[j].now = job[j].now /\ job'[j].list = job[j].list
          /\ job'[j].todo = job[j].todo /\ job'[j].at = job[j].at
      BY <2>1, <2>6, Saves
    <3>2. ListKept(j)' /\ AtHand(j)'
      BY <2>1, <2>2, <3>1 DEF ListKept, AtHand, Busy, Due
    <3>. QED BY <1>t, <1>5, <2>1, <2>4, <2>5, <3>1, <3>2, StepType
  <2>7. CASE GoOn(j, {job[j].at})
    <3>1. /\ job' \in [Jobs -> Holding] /\ \A i \in Jobs \ {j} : job'[i] = job[i]
          /\ job'[j].pc = "next" /\ job'[j].now = job[j].now /\ job'[j].list = job[j].list
          /\ job'[j].todo = job[j].todo
      BY <2>1, <2>7, GoesOn
    <3>2. ListKept(j)' /\ AtHand(j)'
      BY <2>1, <2>2, <3>1 DEF ListKept, AtHand, Busy
    <3>. QED BY <1>t, <1>5, <2>1, <2>4, <2>5, <3>1, <3>2, StepType
  <2>. QED BY <1>5, <2>6, <2>7 DEF SendMail
<1>6. ASSUME NEW j \in Jobs, SaveNotice(j), UNCHANGED <<serverVars, panelVars>> PROVE TypeInv'
  <2>1. UNCHANGED <<started, noon, mails>> /\ Busy(j) /\ clock' = clock
    BY <1>6 DEF SaveNotice, serverVars, Busy, At
  <2>g. PICK missed \in {{}, {job[j].at}} : GoOn(j, missed)
    BY <1>6 DEF SaveNotice
  <2>2. ListKept(j) /\ job[j].pc # "idle"
    BY <2>1 DEF TypeInv, Busy
  <2>3. job[j].at \in Accounts /\ KindFor(j, job[j].at) \in Kinds /\ job[j].now \in Days
    BY <2>1, HandType
  <2>4. trouble' \subseteq Accounts \X Kinds /\ notices' \subseteq Notice
    BY <1>t, <1>6, <2>3 DEF SaveNotice, Blame, NewNotice, Notice
  <2>5. /\ job' \in [Jobs -> Holding] /\ \A i \in Jobs \ {j} : job'[i] = job[i]
        /\ job'[j].pc = "next" /\ job'[j].now = job[j].now /\ job'[j].list = job[j].list
        /\ job'[j].todo = job[j].todo
    BY <2>1, <2>g, GoesOn
  <2>6. ListKept(j)' /\ AtHand(j)'
    BY <2>1, <2>2, <2>5 DEF ListKept, AtHand, Busy
  <2>. QED BY <1>t, <1>6, <2>1, <2>4, <2>5, <2>6, StepType
<1>7. CASE NotifierCrash
  <2>1. ServerTypeOK' /\ PanelTypeOK'
    BY <1>t, <1>7, ServerAssumption
    DEF NotifierCrash, Restart, ServerTypeOK, PanelTypeOK, panelVars
  <2>2. trouble' \subseteq Accounts \X Kinds
    <3>1. \A j \in Jobs : At(j, "save") => job[j].at \in Accounts /\ KindFor(j, job[j].at) \in Kinds
      BY HandType DEF At, Busy
    <3>. QED BY <1>t, <1>7, <3>1 DEF NotifierCrash, LoseJobs
  <2>3. TypeOK'
    BY <1>t, <1>7, <2>1, <2>2 DEF TypeOK, NotifierCrash, LoseJobs
  <2>4. \A j \in Jobs : ListKept(j)' /\ AtHand(j)'
    BY <1>7 DEF NotifierCrash, LoseJobs, ListKept, AtHand, Busy, Resting
  <2>. QED BY <2>3, <2>4 DEF TypeInv
<1>8. CASE Others
  <2>1. TypeOK' /\ clock' \in Days /\ clock <= clock'
    BY <1>8 DEF Others, TypeInv, TypeOK, notifierVars, ServerTypeOK, Days
  <2>2. \A j \in Jobs : ListKept(j)' /\ AtHand(j)'
    BY <1>8, <2>1, OthersKeep DEF Others, notifierVars
  <2>. QED BY <2>1, <2>2 DEF TypeInv
<1>9. CASE UNCHANGED vars
  <2>1. TypeOK' /\ clock' \in Days /\ clock <= clock'
    BY <1>t, <1>9 DEF TypeInv, TypeOK, vars, notifierVars, serverVars, panelVars, ServerTypeOK, PanelTypeOK
  <2>2. \A j \in Jobs : ListKept(j)' /\ AtHand(j)'
    BY <1>9, <2>1, OthersKeep DEF vars, notifierVars
  <2>. QED BY <2>1, <2>2 DEF TypeInv
<1>. QED
  BY <1>1, <1>2, <1>3, <1>4, <1>5, <1>6, <1>7, <1>8, <1>9
  DEF AnyNext, NotifierStep, Run

\* Every reachable state has the types of TypeOK.
THEOREM TypeCorrect == Spec => []TypeOK
<1>1. TypeInv => TypeOK
  BY DEF TypeInv
<1>. QED BY TypeInit, NextIsAny, TypeStep, <1>1, PTL DEF Spec

LEMMA TypeInvariant == Spec => []TypeInv
BY TypeInit, NextIsAny, TypeStep, PTL DEF Spec

(***************************************************************************)
(* What a step may do to a run and to its notices, for all that follows.   *)
(***************************************************************************)
Quiet == UNCHANGED <<notices, mails, trouble>>

SameRun(j) ==
  /\ job'[j].now = job[j].now /\ job'[j].list = job[j].list
  /\ job[j].missed \subseteq job'[j].missed

NoticeAtHand(j) == <<job[j].at, KindFor(j, job[j].at)>>

Idles(j) ==
  /\ ~ Busy(j) /\ job'[j].pc \in {"list", "idle"} /\ Quiet
  /\ job[j].pc = "next" => job[j].todo = {}

Starts(j) ==
  /\ ~ Busy(j) /\ job'[j].pc = "next" /\ Quiet
  /\ job'[j].list = panel /\ job'[j].todo = {a \in Accounts : panel[a] # None}

Passes(j, a) ==
  /\ job[j].pc = "next" /\ job'[j].pc = "next" /\ SameRun(j) /\ Quiet
  /\ job'[j].todo = job[j].todo \ {a}
  /\ Due(j, a) => AlreadyNotified(a, KindFor(j, a), job[j].now)

Takes(j, a) ==
  /\ job[j].pc = "next" /\ job'[j].pc = "send" /\ SameRun(j)
  /\ job'[j].todo = job[j].todo \ {a} /\ job'[j].at = a
  /\ UNCHANGED <<notices, mails>> /\ trouble \subseteq trouble'
  /\ \/ <<a, KindFor(j, a)>> \in trouble'
     \/ ~ AlreadyNotified(a, KindFor(j, a), job[j].now) /\ ~ Overlaps(j, a)

Sends(j) ==
  /\ job[j].pc = "send" /\ job'[j].pc = "save" /\ SameRun(j)
  /\ job'[j].todo = job[j].todo /\ job'[j].at = job[j].at
  /\ Deliver(job[j].at, KindFor(j, job[j].at), job[j].now)
  /\ UNCHANGED <<notices, trouble>>

Leaves(j) ==
  /\ Busy(j) /\ job'[j].pc = "next" /\ SameRun(j) /\ job'[j].todo = job[j].todo
  /\ \/ /\ trouble' = trouble \cup {NoticeAtHand(j)} /\ UNCHANGED notices
        /\ job[j].at \in job'[j].missed
        /\ \/ UNCHANGED mails
           \/ Deliver(job[j].at, KindFor(j, job[j].at), job[j].now)
     \/ /\ job[j].pc = "save" /\ UNCHANGED <<mails, trouble>>
        /\ notices' = notices \cup {NewNotice(j)}

OneRun(j) ==
  /\ UNCHANGED <<serverVars, panelVars>>
  /\ \A i \in Jobs \ {j} : job'[i] = job[i]
  /\ \/ Idles(j) \/ Starts(j) \/ Sends(j) \/ Leaves(j)
     \/ \E a \in Accounts : a \in job[j].todo /\ (Passes(j, a) \/ Takes(j, a))

LEMMA Steps ==
  ASSUME TypeInv, [AnyNext]_vars
  PROVE  \/ UNCHANGED notifierVars
         \/ NotifierCrash
         \/ \E j \in Jobs : OneRun(j)
<1>1. ASSUME NEW j \in Jobs, StartUp(j) \/ Cron(j), UNCHANGED <<serverVars, panelVars>>
      PROVE  OneRun(j)
  <2>1. Begin(j) /\ Quiet
    BY <1>1 DEF StartUp, Cron, Begin, Quiet
  <2>. QED BY <1>1, <2>1, Begins DEF OneRun, Idles, Busy
<1>2. ASSUME NEW j \in Jobs, ListUsers(j), UNCHANGED <<serverVars, panelVars>> PROVE OneRun(j)
  <2>1. Quiet
    BY <1>2 DEF ListUsers, Quiet
  <2>. QED BY <1>2, <2>1, Lists DEF OneRun, Idles, Starts, Busy, Resting
<1>3. ASSUME NEW j \in Jobs, Finish(j), UNCHANGED <<serverVars, panelVars>> PROVE OneRun(j)
  <2>1. Quiet /\ job[j].todo = {}
    BY <1>3 DEF Finish, Quiet
  <2>. QED BY <1>3, <2>1, Ends DEF OneRun, Idles, Busy, Resting
<1>4. ASSUME NEW j \in Jobs, Visit(j), UNCHANGED <<serverVars, panelVars>> PROVE OneRun(j)
  <2>1. UNCHANGED <<notices, mails>> /\ At(j, "next")
    BY <1>4 DEF Visit
  <2>2. PICK a \in job[j].todo : Skip(j, a) \/ Check(j, a)
    BY <1>4 DEF Visit
  <2>3. CASE /\ job' = [job EXCEPT ![j].todo = @ \ {a}] /\ UNCHANGED trouble
             /\ Due(j, a) => AlreadyNotified(a, KindFor(j, a), job[j].now)
    <3>1. /\ \A i \in Jobs \ {j} : job'[i] = job[i]
          /\ a \in Accounts /\ Passes(j, a)
      BY <2>1, <2>3, Skips DEF Passes, SameRun, Quiet
    <3>. QED BY <1>4, <3>1 DEF OneRun
  <2>4. CASE /\ Proceed(j, a) /\ trouble \subseteq trouble'
             /\ \/ <<a, KindFor(j, a)>> \in trouble'
                \/ ~ AlreadyNotified(a, KindFor(j, a), job[j].now) /\ ~ Overlaps(j, a)
    <3>1. /\ \A i \in Jobs \ {j} : job'[i] = job[i]
          /\ a \in Accounts /\ Takes(j, a)
      BY <2>1, <2>4, Proceeds DEF Takes, SameRun
    <3>. QED BY <1>4, <3>1 DEF OneRun
  <2>. QED BY <2>2, <2>3, <2>4 DEF Skip, Check, Blame
<1>5. ASSUME NEW j \in Jobs, SendMail(j), UNCHANGED <<serverVars, panelVars>> PROVE OneRun(j)
  <2>1. UNCHANGED notices /\ At(j, "send") /\ Busy(j) /\ job[j].pc = "send"
    BY <1>5 DEF SendMail, Busy, At
  <2>2. CASE /\ job' = [job EXCEPT ![j].pc = "save"] /\ UNCHANGED trouble
             /\ Deliver(job[j].at, KindFor(j, job[j].at), job[j].now)
    <3>1. Sends(j) /\ \A i \in Jobs \ {j} : job'[i] = job[i]
      BY <2>1, <2>2, Saves DEF Sends, SameRun
    <3>. QED BY <1>5, <3>1 DEF OneRun
  <2>3. CASE /\ GoOn(j, {job[j].at}) /\ Blame(job[j].at, KindFor(j, job[j].at))
             /\ \/ UNCHANGED mails
                \/ Deliver(job[j].at, KindFor(j, job[j].at), job[j].now)
    <3>1. Leaves(j) /\ \A i \in Jobs \ {j} : job'[i] = job[i]
      BY <2>1, <2>3, GoesOn DEF Leaves, SameRun, Blame, NoticeAtHand
    <3>. QED BY <1>5, <3>1 DEF OneRun
  <2>. QED BY <1>5, <2>2, <2>3 DEF SendMail
<1>6. ASSUME NEW j \in Jobs, SaveNotice(j), UNCHANGED <<serverVars, panelVars>> PROVE OneRun(j)
  <2>1. UNCHANGED mails /\ Busy(j) /\ job[j].pc = "save"
    BY <1>6 DEF SaveNotice, Busy, At
  <2>2. CASE GoOn(j, {}) /\ notices' = notices \cup {NewNotice(j)} /\ UNCHANGED trouble
    <3>1. Leaves(j) /\ \A i \in Jobs \ {j} : job'[i] = job[i]
      BY <2>1, <2>2, GoesOn DEF Leaves, SameRun
    <3>. QED BY <1>6, <3>1 DEF OneRun
  <2>3. CASE /\ GoOn(j, {job[j].at}) /\ UNCHANGED notices
             /\ Blame(job[j].at, KindFor(j, job[j].at))
    <3>1. Leaves(j) /\ \A i \in Jobs \ {j} : job'[i] = job[i]
      BY <2>1, <2>3, GoesOn DEF Leaves, SameRun, Blame, NoticeAtHand
    <3>. QED BY <1>6, <3>1 DEF OneRun
  <2>. QED BY <1>6, <2>2, <2>3 DEF SaveNotice
<1>. QED
  BY <1>1, <1>2, <1>3, <1>4, <1>5, <1>6
  DEF AnyNext, Others, NotifierStep, Run, vars, notifierVars

(***************************************************************************)
(* A notice on record was mailed: the run that is about to record one has  *)
(* mailed it.                                                              *)
(***************************************************************************)
MailInv ==
  /\ RecordedWasMailed
  /\ \A j \in Jobs :
       At(j, "save") => Mailed(job[j].at, KindFor(j, job[j].at), job[j].now) > 0

\* A mail is not taken back.
LEMMA Delivers ==
  ASSUME TypeInv, NEW j \in Jobs, Busy(j),
         \/ UNCHANGED mails
         \/ Deliver(job[j].at, KindFor(j, job[j].at), job[j].now)
  PROVE  \A a \in Accounts, kind \in Kinds, d \in Days :
           /\ mails[<<a, kind, d>>] \in Nat /\ mails'[<<a, kind, d>>] \in Nat
           /\ mails'[<<a, kind, d>>] >= mails[<<a, kind, d>>]
           /\ <<a, kind>> # NoticeAtHand(j) \/ d # job[j].now
                => mails'[<<a, kind, d>>] = mails[<<a, kind, d>>]
<1>1. mails \in [Accounts \X Kinds \X Days -> Nat]
  BY DEF TypeInv, TypeOK
<1>2. ASSUME Deliver(job[j].at, KindFor(j, job[j].at), job[j].now),
             NEW a \in Accounts, NEW kind \in Kinds, NEW d \in Days
      PROVE  mails'[<<a, kind, d>>] =
               IF a = job[j].at /\ kind = KindFor(j, job[j].at) /\ d = job[j].now
                 THEN mails[<<a, kind, d>>] + 1 ELSE mails[<<a, kind, d>>]
  BY <1>1, <1>2 DEF Deliver
<1>3. CASE UNCHANGED mails
  BY <1>1, <1>3
<1>4. CASE Deliver(job[j].at, KindFor(j, job[j].at), job[j].now)
  <2> SUFFICES ASSUME NEW a \in Accounts, NEW kind \in Kinds, NEW d \in Days
               PROVE  /\ mails[<<a, kind, d>>] \in Nat /\ mails'[<<a, kind, d>>] \in Nat
                      /\ mails'[<<a, kind, d>>] >= mails[<<a, kind, d>>]
                      /\ <<a, kind>> # NoticeAtHand(j) \/ d # job[j].now
                           => mails'[<<a, kind, d>>] = mails[<<a, kind, d>>]
    OBVIOUS
  <2>1. mails[<<a, kind, d>>] \in Nat
    BY <1>1
  <2>2. a = job[j].at /\ kind = KindFor(j, job[j].at) => <<a, kind>> = NoticeAtHand(j)
    BY DEF NoticeAtHand
  <2>. QED BY <1>2, <1>4, <2>1, <2>2
<1>. QED BY <1>3, <1>4

LEMMA MailInit == Init => MailInv
BY DEF Init, NotifierInit, MailInv, RecordedWasMailed, At, Resting

LEMMA MailStep == TypeInv /\ MailInv /\ [AnyNext]_vars => MailInv'
<1> SUFFICES ASSUME TypeInv, MailInv, [AnyNext]_vars PROVE MailInv'
  OBVIOUS
<1>t. notices \subseteq Notice
  BY DEF TypeInv, TypeOK
<1>1. CASE UNCHANGED notifierVars
  BY <1>1 DEF notifierVars, MailInv, RecordedWasMailed, At, Mailed, KindFor
<1>2. CASE NotifierCrash
  BY <1>2 DEF NotifierCrash, LoseJobs, MailInv, RecordedWasMailed, At, Mailed, Resting
<1>3. ASSUME NEW j \in Jobs, OneRun(j) PROVE MailInv'
  <2>1. \A i \in Jobs \ {j} : job'[i] = job[i]
    BY <1>3 DEF OneRun
  <2>2. \A i \in Jobs : At(i, "save") =>
          job[i].at \in Accounts /\ KindFor(i, job[i].at) \in Kinds /\ job[i].now \in Days
    BY HandType DEF At, Busy
  <2>3. CASE UNCHANGED <<notices, mails>> /\ job'[j].pc # "save"
    <3>1. RecordedWasMailed'
      BY <2>3 DEF MailInv, RecordedWasMailed, Mailed
    <3>2. ASSUME NEW i \in Jobs, At(i, "save")'
          PROVE  (Mailed(job[i].at, KindFor(i, job[i].at), job[i].now) > 0)'
      BY <2>1, <2>3, <3>2 DEF MailInv, At, Mailed, KindFor
    <3>. QED BY <3>1, <3>2 DEF MailInv
  <2>4. CASE Sends(j) \/ Leaves(j)
    <3>1. /\ Busy(j)
          /\ \/ UNCHANGED mails
             \/ Deliver(job[j].at, KindFor(j, job[j].at), job[j].now)
      BY <2>4 DEF Sends, Leaves, Busy
    <3>2. \A a \in Accounts, kind \in Kinds, d \in Days :
            /\ mails[<<a, kind, d>>] \in Nat /\ mails'[<<a, kind, d>>] \in Nat
            /\ mails'[<<a, kind, d>>] >= mails[<<a, kind, d>>]
      BY <3>1, Delivers
    <3>3. \A n \in notices : mails'[<<n.account, n.kind, n.day>>] > 0
      <4> SUFFICES ASSUME NEW n \in notices PROVE mails'[<<n.account, n.kind, n.day>>] > 0
        OBVIOUS
      <4>1. n.account \in Accounts /\ n.kind \in Kinds /\ n.day \in Days
        BY <1>t DEF Notice
      <4>2. mails[<<n.account, n.kind, n.day>>] > 0
        BY DEF MailInv, RecordedWasMailed, Mailed
      <4>. QED BY <3>2, <4>1, <4>2
    <3>4. ASSUME NEW i \in Jobs \ {j}, At(i, "save")'
          PROVE  (Mailed(job[i].at, KindFor(i, job[i].at), job[i].now) > 0)'
      <4>1. At(i, "save") /\ job'[i] = job[i]
        BY <2>1, <3>4 DEF At
      <4>2. mails[<<job[i].at, KindFor(i, job[i].at), job[i].now>>] > 0
        BY <4>1 DEF MailInv, Mailed
      <4>3. mails'[<<job[i].at, KindFor(i, job[i].at), job[i].now>>] > 0
        BY <2>2, <3>2, <4>1, <4>2
      <4>. QED BY <4>1, <4>3 DEF Mailed, KindFor
    <3>5. job[j].at \in Accounts /\ KindFor(j, job[j].at) \in Kinds /\ job[j].now \in Days
      BY <3>1, HandType
    <3>6. CASE Sends(j)
      <4>1. mails'[<<job[j].at, KindFor(j, job[j].at), job[j].now>>] > 0
        <5>1. mails \in [Accounts \X Kinds \X Days -> Nat]
          BY DEF TypeInv, TypeOK
        <5>. QED BY <3>5, <3>6, <5>1 DEF Sends, Deliver
      <4>2. (Mailed(job[j].at, KindFor(j, job[j].at), job[j].now) > 0)'
        BY <3>6, <4>1 DEF Sends, SameRun, Mailed, KindFor
      <4>3. UNCHANGED notices
        BY <3>6 DEF Sends
      <4>. QED BY <3>3, <3>4, <4>2, <4>3 DEF MailInv, RecordedWasMailed, Mailed
    <3>7. CASE Leaves(j)
      <4>1. ~ At(j, "save")'
        BY <3>7 DEF Leaves, At
      <4>2. CASE UNCHANGED notices
        BY <3>3, <3>4, <4>1, <4>2 DEF MailInv, RecordedWasMailed, Mailed
      <4>3. CASE job[j].pc = "save" /\ UNCHANGED mails /\ notices' = notices \cup {NewNotice(j)}
        <5>1. mails'[<<job[j].at, KindFor(j, job[j].at), job[j].now>>] > 0
          BY <4>3 DEF MailInv, At, Mailed
        <5>0. NewNotice(j).account = job[j].at /\ NewNotice(j).kind = KindFor(j, job[j].at)
              /\ NewNotice(j).day = job[j].now
          BY DEF NewNotice
        <5>2. \A n \in notices' : mails'[<<n.account, n.kind, n.day>>] > 0
          BY <3>3, <4>3, <5>0, <5>1
        <5>. QED BY <3>4, <4>1, <5>2 DEF MailInv, RecordedWasMailed, Mailed
      <4>. QED BY <3>7, <4>2, <4>3 DEF Leaves
    <3>. QED BY <2>4, <3>6, <3>7
  <2>. QED BY <1>3, <2>3, <2>4 DEF OneRun, Idles, Starts, Passes, Takes, Quiet
<1>. QED BY <1>1, <1>2, <1>3, Steps

\* A record says that a mail went out, whatever fails and whenever the process
\* is killed.
THEOREM RecordMeansMail == Spec => []RecordedWasMailed
<1>1. MailInv => RecordedWasMailed
  BY DEF MailInv
<1>. QED BY MailInit, NextIsAny, MailStep, TypeInvariant, <1>1, PTL DEF Spec

(***************************************************************************)
(* One notice, unless something went wrong for it.  At most one run is     *)
(* about to send or record it; that run found none on record that would    *)
(* stop it; and what was mailed is on record, or will be by that run.      *)
(***************************************************************************)
About(j, a, kind) == Busy(j) /\ job[j].at = a /\ KindFor(j, a) = kind

OnRecord(a, kind, d) == \E n \in notices : n.account = a /\ n.kind = kind /\ n.day = d

Rival(kind, d, e) == kind = "expired" \/ d = e

Once(a, kind) ==
  /\ \A i, j \in Jobs : About(i, a, kind) /\ About(j, a, kind) => i = j
  /\ \A j \in Jobs, d \in Days :
       About(j, a, kind) /\ Mailed(a, kind, d) > 0 /\ Rival(kind, d, job[j].now)
         => At(j, "save") /\ d = job[j].now
  /\ \A d \in Days : Mailed(a, kind, d) > 0 =>
       \/ OnRecord(a, kind, d)
       \/ \E j \in Jobs : About(j, a, kind) /\ At(j, "save") /\ job[j].now = d
  /\ ~ MailedTwice(a, kind)

OnceInv == \A a \in Accounts, kind \in Kinds : <<a, kind>> \notin trouble => Once(a, kind)

LEMMA OnceInit == Init => OnceInv
<1> SUFFICES ASSUME Init, NEW a \in Accounts, NEW kind \in Kinds PROVE Once(a, kind)
  BY DEF OnceInv
<1>1. \A j \in Jobs : ~ About(j, a, kind)
  BY DEF Init, NotifierInit, About, Busy, Resting
<1>2. \A d \in Days : Mailed(a, kind, d) = 0
  BY DEF Init, NotifierInit, Mailed
<1>. QED BY <1>1, <1>2 DEF Once, MailedTwice

\* A step that mails nothing of this notice, and takes it up by no run.
LEMMA OnceRests ==
  ASSUME NEW a \in Accounts, NEW kind \in Kinds, Once(a, kind),
         \A d \in Days : mails'[<<a, kind, d>>] = mails[<<a, kind, d>>],
         notices \subseteq notices',
         \A j \in Jobs : About(j, a, kind)' => About(j, a, kind) /\ job'[j] = job[j],
         \A j \in Jobs : About(j, a, kind) /\ At(j, "save") =>
           \/ About(j, a, kind)' /\ job'[j] = job[j]
           \/ \E n \in notices' : n.account = a /\ n.kind = kind /\ n.day = job[j].now
  PROVE  Once(a, kind)'
<1>1. \A d \in Days : Mailed(a, kind, d)' = Mailed(a, kind, d)
  BY DEF Mailed
<1>2. \A i, j \in Jobs : About(i, a, kind)' /\ About(j, a, kind)' => i = j
  BY DEF Once
<1>3. \A j \in Jobs, d \in Days :
        About(j, a, kind)' /\ Mailed(a, kind, d)' > 0 /\ Rival(kind, d, job'[j].now)
          => At(j, "save")' /\ d = job'[j].now
  BY <1>1 DEF Once, At
<1>4. ASSUME NEW d \in Days, Mailed(a, kind, d)' > 0
      PROVE  \/ OnRecord(a, kind, d)'
             \/ \E j \in Jobs : About(j, a, kind)' /\ At(j, "save")' /\ job'[j].now = d
  <2>1. CASE OnRecord(a, kind, d)
    BY <2>1 DEF OnRecord
  <2>2. ASSUME NEW j \in Jobs, About(j, a, kind), At(j, "save"), job[j].now = d
        PROVE  \/ OnRecord(a, kind, d)'
               \/ \E i \in Jobs : About(i, a, kind)' /\ At(i, "save")' /\ job'[i].now = d
    BY <2>2 DEF At, OnRecord
  <2>. QED BY <1>1, <1>4, <2>1, <2>2 DEF Once
<1>5. ~ MailedTwice(a, kind)'
  BY <1>1 DEF Once, MailedTwice
<1>. QED BY <1>2, <1>3, <1>4, <1>5 DEF Once

\* A run takes the notice up: it has found none on record, and no rival run.
LEMMA OnceTaken ==
  ASSUME TypeInv, NEW j \in Jobs, NEW a \in Accounts, NEW kind \in Kinds, kind = KindFor(j, a),
         Once(a, kind), Takes(j, a), \A i \in Jobs \ {j} : job'[i] = job[i],
         ~ AlreadyNotified(a, kind, job[j].now), ~ Overlaps(j, a)
  PROVE  Once(a, kind)'
<1>1. \A d \in Days : Mailed(a, kind, d)' = Mailed(a, kind, d)
  BY DEF Takes, Mailed
<1>2. /\ ~ About(j, a, kind) /\ About(j, a, kind)' /\ ~ At(j, "save")'
      /\ job'[j].now = job[j].now /\ job[j].now \in Nat
  <2>1. job[j] \in Running
    BY AtWork DEF Takes
  <2>2. job[j].now \in Nat
    BY <2>1, ServerAssumption DEF Running, Days
  <2>3. KindFor(j, a)' = KindFor(j, a)
    BY DEF KindFor, Takes, SameRun
  <2>. QED BY <2>2, <2>3 DEF Takes, About, Busy, At, SameRun
<1>3. \A i \in Jobs \ {j} : ~ About(i, a, kind) /\ ~ About(i, a, kind)'
  <2>1. \A i \in Jobs \ {j} : ~ About(i, a, kind)
    BY DEF Overlaps, About, Busy
  <2>2. \A i \in Jobs \ {j} : About(i, a, kind)' <=> About(i, a, kind)
    BY DEF About, Busy, KindFor
  <2>. QED BY <2>1, <2>2
<1>4. \A d \in Days : Mailed(a, kind, d) > 0 => OnRecord(a, kind, d)
  BY <1>2, <1>3 DEF Once
<1>5. \A d \in Days : Rival(kind, d, job[j].now) => ~ OnRecord(a, kind, d)
  <2> SUFFICES ASSUME NEW d \in Days, Rival(kind, d, job[j].now), OnRecord(a, kind, d) PROVE FALSE
    OBVIOUS
  <2>1. PICK n \in notices : n.account = a /\ n.kind = kind /\ n.day = d
    BY DEF OnRecord
  <2>2. kind = "expiring_soon" => n.day >= job[j].now
    BY <1>2, <2>1 DEF Rival
  <2>. QED BY <2>1, <2>2 DEF AlreadyNotified
<1>6. \A d \in Days : OnRecord(a, kind, d) => OnRecord(a, kind, d)'
  BY DEF OnRecord, Takes
<1>7. ~ MailedTwice(a, kind)'
  BY <1>1 DEF Once, MailedTwice
<1>. QED BY <1>1, <1>2, <1>3, <1>4, <1>5, <1>6, <1>7 DEF Once

\* The run mails it: nobody has, and it is the one to record it.
LEMMA OnceSent ==
  ASSUME TypeInv, NEW j \in Jobs, NEW a \in Accounts, NEW kind \in Kinds, About(j, a, kind),
         Once(a, kind), Sends(j), \A i \in Jobs \ {j} : job'[i] = job[i]
  PROVE  Once(a, kind)'
<1>h. job[j].now \in Days
  BY HandType DEF About
<1> PICK now \in Days : now = job[j].now
  BY <1>h
<1>t. /\ mails \in [Accounts \X Kinds \X Days -> Nat] /\ now \in Days
      /\ job[j].at = a /\ KindFor(j, job[j].at) = kind
  BY DEF TypeInv, TypeOK, About
<1>1. \A d \in Days : mails'[<<a, kind, d>>] = IF d = now THEN mails[<<a, kind, d>>] + 1
                                                         ELSE mails[<<a, kind, d>>]
  BY <1>t DEF Sends, Deliver
<1>2. About(j, a, kind)' /\ At(j, "save")' /\ job'[j].now = now /\ ~ At(j, "save")
  BY <1>t DEF Sends, SameRun, About, Busy, KindFor, At
<1>3. \A i \in Jobs \ {j} : ~ About(i, a, kind) /\ ~ About(i, a, kind)'
  <2>1. \A i \in Jobs \ {j} : ~ About(i, a, kind)
    BY DEF Once
  <2>2. \A i \in Jobs \ {j} : About(i, a, kind)' <=> About(i, a, kind)
    BY DEF About, Busy, KindFor
  <2>. QED BY <2>1, <2>2
<1>4. \A d \in Days : Rival(kind, d, now) => mails[<<a, kind, d>>] = 0
  <2>1. \A d \in Days : mails[<<a, kind, d>>] \in Nat
    BY <1>t
  <2>. QED BY <1>2, <2>1 DEF Once, Mailed
<1>5. \A d \in Days \ {now} : Mailed(a, kind, d)' = Mailed(a, kind, d)
  BY <1>1 DEF Mailed
<1>6. Mailed(a, kind, now)' = 1
  <2>1. mails[<<a, kind, now>>] = 0
    BY <1>4 DEF Rival
  <2>2. mails'[<<a, kind, now>>] = 0 + 1
    BY <1>1, <2>1
  <2>. QED BY <2>2 DEF Mailed
<1>7. \A i, k \in Jobs : About(i, a, kind)' /\ About(k, a, kind)' => i = k
  BY <1>3
<1>8. ASSUME NEW i \in Jobs, NEW d \in Days,
             About(i, a, kind)', Mailed(a, kind, d)' > 0, Rival(kind, d, job'[i].now)
      PROVE  At(i, "save")' /\ d = job'[i].now
  <2>1. i = j
    BY <1>3, <1>8
  <2>2. d = now
    BY <1>2, <1>4, <1>5, <1>8, <2>1 DEF Mailed
  <2>. QED BY <1>2, <2>1, <2>2
<1>9. ASSUME NEW d \in Days, Mailed(a, kind, d)' > 0
      PROVE  \/ OnRecord(a, kind, d)'
             \/ \E i \in Jobs : About(i, a, kind)' /\ At(i, "save")' /\ job'[i].now = d
  <2>1. CASE d = now
    BY <1>2, <2>1
  <2>2. CASE d # now
    <3>1. Mailed(a, kind, d) > 0
      BY <1>5, <1>9, <2>2
    <3>2. \A i \in Jobs : ~ (About(i, a, kind) /\ At(i, "save"))
      BY <1>2, <1>3
    <3>3. OnRecord(a, kind, d)
      BY <3>1, <3>2 DEF Once
    <3>. QED BY <3>3 DEF OnRecord, Sends
  <2>. QED BY <2>1, <2>2
<1>10. ~ MailedTwice(a, kind)'
  <2> SUFFICES ASSUME NEW d \in Days, NEW e \in Days,
                      Mailed(a, kind, d)' > 0, Mailed(a, kind, e)' > 0,
                      kind = "expired" \/ d = e, d = e => Mailed(a, kind, d)' > 1
               PROVE  FALSE
    BY DEF MailedTwice
  <2>1. CASE d # now /\ e # now
    BY <1>5, <2>1 DEF Once, MailedTwice
  <2>2. CASE d = now /\ e = now
    BY <1>6, <2>2
  <2>3. CASE d = now /\ e # now
    BY <1>4, <1>5, <2>3 DEF Rival, Mailed
  <2>4. CASE d # now /\ e = now
    BY <1>4, <1>5, <2>4 DEF Rival, Mailed
  <2>. QED BY <2>1, <2>2, <2>3, <2>4
<1>. QED BY <1>7, <1>8, <1>9, <1>10 DEF Once

LEMMA OnceStep == TypeInv /\ OnceInv /\ [AnyNext]_vars => OnceInv'
<1> SUFFICES ASSUME TypeInv, OnceInv, [AnyNext]_vars,
                    NEW a \in Accounts, NEW kind \in Kinds, <<a, kind>> \notin trouble'
             PROVE  Once(a, kind)'
  BY DEF OnceInv
<1>t. mails \in [Accounts \X Kinds \X Days -> Nat]
  BY DEF TypeInv, TypeOK
<1>1. CASE UNCHANGED notifierVars
  <2>1. Once(a, kind)
    BY <1>1 DEF notifierVars, OnceInv
  <2>. QED BY <1>1, <2>1, OnceRests DEF notifierVars, About, Busy, KindFor
<1>2. CASE NotifierCrash
  <2>1. /\ UNCHANGED <<notices, mails>> /\ trouble \subseteq trouble'
        /\ \A j \in Jobs : job'[j] = Resting
        /\ \A j \in Jobs : At(j, "save") => <<job[j].at, KindFor(j, job[j].at)>> \in trouble'
    BY <1>2 DEF NotifierCrash, LoseJobs
  <2>2. Once(a, kind)
    BY <2>1 DEF OnceInv
  <2>3. \A j \in Jobs : ~ About(j, a, kind)'
    BY <2>1 DEF About, Busy, Resting
  <2>4. \A j \in Jobs : ~ (About(j, a, kind) /\ At(j, "save"))
    BY <2>1 DEF About
  <2>. QED BY <2>1, <2>2, <2>3, <2>4, OnceRests
<1>3. ASSUME NEW j \in Jobs, OneRun(j) PROVE Once(a, kind)'
  <2>1. \A i \in Jobs \ {j} : job'[i] = job[i] /\ (About(i, a, kind)' <=> About(i, a, kind))
    BY <1>3 DEF OneRun, About, Busy, KindFor
  <2>2. trouble \subseteq trouble'
    BY <1>3 DEF OneRun, Idles, Starts, Passes, Takes, Sends, Leaves, Quiet
  <2>3. Once(a, kind)
    BY <2>2 DEF OnceInv
  <2>4. CASE Idles(j) \/ Starts(j) \/ \E b \in Accounts : Passes(j, b)
    <3>1. UNCHANGED <<notices, mails>> /\ ~ Busy(j) /\ ~ Busy(j)'
      BY <2>4 DEF Idles, Starts, Passes, Quiet, Busy
    <3>2. ~ About(j, a, kind) /\ ~ About(j, a, kind)'
      BY <3>1 DEF About
    <3>. QED BY <2>1, <2>3, <3>1, <3>2, OnceRests
  <2>5. ASSUME NEW b \in Accounts, Takes(j, b) PROVE Once(a, kind)'
    <3>1. CASE b = a /\ kind = KindFor(j, a)
      <4>1. ~ AlreadyNotified(a, kind, job[j].now) /\ ~ Overlaps(j, a)
        BY <2>5, <3>1 DEF Takes
      <4>. QED BY <2>1, <2>3, <2>5, <3>1, <4>1, OnceTaken
    <3>2. CASE ~ (b = a /\ kind = KindFor(j, a))
      <4>1. UNCHANGED <<notices, mails>> /\ ~ About(j, a, kind)
        BY <2>5 DEF Takes, About, Busy
      <4>2. ~ About(j, a, kind)'
        BY <2>5, <3>2 DEF Takes, SameRun, About, Busy, KindFor
      <4>. QED BY <2>1, <2>3, <4>1, <4>2, OnceRests
    <3>. QED BY <3>1, <3>2
  <2>6. CASE Sends(j)
    <3>1. CASE About(j, a, kind)
      BY <2>1, <2>3, <2>6, <3>1, OnceSent
    <3>2. CASE ~ About(j, a, kind)
      <4>1. Busy(j) /\ UNCHANGED notices
        BY <2>6 DEF Sends, Busy
      <4>2. <<a, kind>> # NoticeAtHand(j)
        BY <3>2, <4>1 DEF About, NoticeAtHand
      <4>3. \A d \in Days : mails'[<<a, kind, d>>] = mails[<<a, kind, d>>]
        BY <2>6, <4>1, <4>2, Delivers DEF Sends
      <4>4. ~ About(j, a, kind)'
        BY <2>6, <3>2 DEF Sends, SameRun, About, Busy, KindFor
      <4>. QED BY <2>1, <2>3, <3>2, <4>1, <4>3, <4>4, OnceRests
    <3>. QED BY <3>1, <3>2
  <2>7. CASE Leaves(j)
    <3>1. Busy(j) /\ ~ About(j, a, kind)'
      BY <2>7 DEF Leaves, About, Busy
    <3>2. CASE /\ trouble' = trouble \cup {NoticeAtHand(j)} /\ UNCHANGED notices
               /\ \/ UNCHANGED mails
                  \/ Deliver(job[j].at, KindFor(j, job[j].at), job[j].now)
      <4>1. <<a, kind>> # NoticeAtHand(j)
        BY <3>2
      <4>2. ~ About(j, a, kind)
        BY <4>1 DEF About, NoticeAtHand
      <4>3. \A d \in Days : mails'[<<a, kind, d>>] = mails[<<a, kind, d>>]
        BY <3>1, <3>2, <4>1, Delivers
      <4>. QED BY <2>1, <2>3, <3>1, <3>2, <4>2, <4>3, OnceRests
    <3>3. CASE UNCHANGED mails /\ notices' = notices \cup {NewNotice(j)}
      <4>1. About(j, a, kind) =>
              \E n \in notices' : n.account = a /\ n.kind = kind /\ n.day = job[j].now
        <5>1. /\ NewNotice(j) \in notices' /\ NewNotice(j).account = job[j].at
              /\ NewNotice(j).kind = KindFor(j, job[j].at) /\ NewNotice(j).day = job[j].now
          BY <3>3 DEF NewNotice
        <5>. QED BY <5>1 DEF About
      <4>. QED BY <2>1, <2>3, <3>1, <3>3, <4>1, OnceRests
    <3>. QED BY <2>7, <3>2, <3>3 DEF Leaves
  <2>. QED BY <1>3, <2>4, <2>5, <2>6, <2>7 DEF OneRun
<1>. QED BY <1>1, <1>2, <1>3, Steps

\* Nobody gets the same notice twice, unless a call of that notice failed, two
\* runs met over it, or the process was killed between its mail and its record.
THEOREM ToldOnce == Spec => []OnceUnlessTrouble
<1>1. OnceInv => OnceUnlessTrouble
  BY DEF OnceInv, Once, OnceUnlessTrouble
<1>. QED BY OnceInit, NextIsAny, OnceStep, TypeInvariant, <1>1, PTL DEF Spec

(***************************************************************************)
(* Nobody is passed over: what a run has been past and is due, by its list *)
(* and its clock, has been notified or something went wrong for it.        *)
(***************************************************************************)
Past(j, a) ==
  /\ job[j].pc \in {"next", "send", "save"}
  /\ a \notin job[j].todo
  /\ ~ (Busy(j) /\ job[j].at = a)
  /\ job[j].list[a] # None
  /\ Due(j, a)

Settled(j, a) ==
  \/ AlreadyNotified(a, KindFor(j, a), job[j].now)
  \/ a \in job[j].missed

PassInv == \A j \in Jobs, a \in Accounts : Past(j, a) => Settled(j, a)

\* What is settled stays so, for a run that keeps its list and its clock.
LEMMA SettledStays ==
  ASSUME NEW j \in Jobs, NEW a \in Accounts, Settled(j, a), SameRun(j),
         notices \subseteq notices'
  PROVE  Settled(j, a)'
BY DEF Settled, SameRun, AlreadyNotified, KindFor

LEMMA PassInit == Init => PassInv
BY DEF Init, NotifierInit, PassInv, Past, Resting

LEMMA PassStep == TypeInv /\ PassInv /\ [AnyNext]_vars => PassInv'
<1> SUFFICES ASSUME TypeInv, PassInv, [AnyNext]_vars,
                    NEW i \in Jobs, NEW a \in Accounts, Past(i, a)'
             PROVE  Settled(i, a)'
  BY DEF PassInv
<1>1. ASSUME job'[i] = job[i], notices \subseteq notices'
      PROVE  Settled(i, a)'
  <2>1. Past(i, a)
    BY <1>1 DEF Past, Busy, Due
  <2>2. Settled(i, a)
    BY <2>1 DEF PassInv
  <2>. QED BY <1>1, <2>2, SettledStays DEF SameRun
<1>2. CASE UNCHANGED notifierVars
  BY <1>1, <1>2 DEF notifierVars
<1>3. CASE NotifierCrash
  BY <1>3 DEF NotifierCrash, LoseJobs, Past, Resting
<1>4. ASSUME NEW j \in Jobs, OneRun(j) PROVE Settled(i, a)'
  <2>1. notices \subseteq notices'
    BY <1>4 DEF OneRun, Idles, Starts, Passes, Takes, Sends, Leaves, Quiet
  <2>2. CASE i # j
    BY <1>1, <1>4, <2>1, <2>2 DEF OneRun
  <2>3. CASE i = j
    <3>1. CASE Idles(j)
      BY <2>3, <3>1 DEF Idles, Past
    <3>2. CASE Starts(j)
      BY <2>3, <3>2 DEF Starts, Past
    <3>3. ASSUME SameRun(j), Past(j, a) PROVE Settled(i, a)'
      BY <2>1, <2>3, <3>3, SettledStays DEF PassInv
    <3>4. SameRun(j) => (Due(j, a)' <=> Due(j, a)) /\ job'[j].list[a] = job[j].list[a]
      BY DEF SameRun, Due
    <3>5. ASSUME NEW b \in Accounts, Passes(j, b) PROVE Settled(i, a)'
      <4>1. CASE a = b
        <5>1. AlreadyNotified(a, KindFor(j, a), job[j].now)
          BY <2>3, <3>4, <3>5, <4>1 DEF Passes, Past
        <5>. QED BY <2>1, <2>3, <3>5, <5>1, SettledStays DEF Settled, Passes
      <4>2. CASE a # b
        <5>1. Past(j, a)
          BY <2>3, <3>4, <3>5, <4>2 DEF Passes, Past, Busy
        <5>. QED BY <3>3, <3>5, <5>1 DEF Passes
      <4>. QED BY <4>1, <4>2
    <3>6. ASSUME NEW b \in Accounts, Takes(j, b) PROVE Settled(i, a)'
      <4>1. a # b
        BY <2>3, <3>6 DEF Takes, Past, Busy
      <4>2. Past(j, a)
        BY <2>3, <3>4, <3>6, <4>1 DEF Takes, Past, Busy
      <4>. QED BY <3>3, <3>6, <4>2 DEF Takes
    <3>7. CASE Sends(j)
      <4>1. Past(j, a)
        BY <2>3, <3>4, <3>7 DEF Sends, Past, Busy
      <4>. QED BY <3>3, <3>7, <4>1 DEF Sends
    <3>8. CASE Leaves(j)
      <4>1. CASE job[j].at = a
        <5>1. KindFor(j, a)' = KindFor(j, a) /\ job'[j].now = job[j].now
          BY <3>8 DEF Leaves, SameRun, KindFor
        <5>2. CASE job[j].at \in job'[j].missed
          BY <2>3, <4>1, <5>2 DEF Settled
        <5>3. CASE notices' = notices \cup {NewNotice(j)}
          <6>1. /\ NewNotice(j) \in notices' /\ NewNotice(j).account = a
                /\ NewNotice(j).kind = KindFor(j, a) /\ NewNotice(j).day = job[j].now
            BY <4>1, <5>3 DEF NewNotice
          <6>2. job[j].now \in Nat
            BY <3>8, HandType, ServerAssumption DEF Leaves, Days
          <6>3. AlreadyNotified(a, KindFor(j, a), job[j].now)'
            BY <5>1, <6>1, <6>2 DEF AlreadyNotified
          <6>. QED BY <2>3, <6>3 DEF Settled
        <5>. QED BY <3>8, <5>2, <5>3 DEF Leaves
      <4>2. CASE job[j].at # a
        <5>1. Past(j, a)
          BY <2>3, <3>4, <3>8, <4>2 DEF Leaves, Past, Busy
        <5>. QED BY <3>3, <3>8, <5>1 DEF Leaves
      <4>. QED BY <4>1, <4>2
    <3>. QED BY <1>4, <3>1, <3>2, <3>5, <3>6, <3>7, <3>8 DEF OneRun
  <2>. QED BY <2>2, <2>3
<1>. QED BY <1>2, <1>3, <1>4, Steps

\* A run that ends, and is not killed, has been past its whole list.
AllSettled(j) ==
  job[j].pc \notin {"idle", "list"} /\ job'[j] = Resting /\ crashes' = crashes =>
    \A a \in Accounts : job[j].list[a] # None /\ Due(j, a) => Settled(j, a)

LEMMA EndStep == TypeInv /\ PassInv /\ [AnyNext]_vars => \A j \in Jobs : AllSettled(j)
<1> SUFFICES ASSUME TypeInv, PassInv, [AnyNext]_vars, NEW j \in Jobs,
                    job[j].pc \notin {"idle", "list"}, job'[j] = Resting, crashes' = crashes,
                    NEW a \in Accounts, job[j].list[a] # None, Due(j, a)
             PROVE  Settled(j, a)
  BY DEF AllSettled
<1>1. job'[j] # job[j] /\ job'[j].pc = "idle"
  BY DEF Resting
<1>2. ~ NotifierCrash
  BY DEF NotifierCrash, Restart, TypeInv, TypeOK, ServerTypeOK
<1>3. OneRun(j)
  BY <1>1, <1>2, Steps DEF OneRun, notifierVars
<1>4. ~ Busy(j) /\ job[j].pc = "next" /\ job[j].todo = {}
  <2>1. Idles(j)
    BY <1>1, <1>3 DEF OneRun, Starts, Sends, Leaves, Passes, Takes
  <2>2. job[j].pc \in {"list", "next", "send", "save"}
    BY AtWork DEF Running
  <2>. QED BY <2>1, <2>2 DEF Idles, Busy
<1>5. Past(j, a)
  BY <1>4 DEF Past
<1>. QED BY <1>5 DEF PassInv

\* A run that ends has told everybody on its list who is due, or has failed at
\* them itself.
THEOREM EverybodyIsTold == Spec => NobodyPassedOver
<1>1. TypeInv /\ PassInv /\ [Next]_vars => \A j \in Jobs : AllSettled(j)
  BY NextIsAny, EndStep
<1>2. (\A j \in Jobs : AllSettled(j)) =>
        \A j \in Jobs :
          job[j].pc \notin {"idle", "list"} /\ job'[j] = Resting /\ crashes' = crashes =>
            \A a \in Accounts \ Mute :
              LET record == job[j].list[a] IN
              record # None /\ record.expire <= job[j].now + 3 =>
                \/ Told(a, IF record.expire < job[j].now THEN "expired" ELSE "expiring_soon",
                        job[j].now)
                \/ a \in job[j].missed
  BY DEF AllSettled, Settled, Due, DueSoon, KindFor, Expired, Told, AlreadyNotified
<1>. QED BY PassInit, NextIsAny, PassStep, TypeInvariant, <1>1, <1>2, PTL DEF Spec, NobodyPassedOver

\* Whom a step mails: somebody who is due, or whose account was written since it
\* was listed.
TrueAlarms ==
  \A a \in Accounts, kind \in Kinds, d \in Days :
    mails'[<<a, kind, d>>] > mails[<<a, kind, d>>] =>
      \/ panel[a].expire <= clock + 3
      \/ \E j \in Jobs : At(j, "send") /\ job[j].at = a /\ job[j].list[a] # panel[a]

LEMMA AlarmStep == TypeInv /\ [AnyNext]_vars => TrueAlarms
<1> SUFFICES ASSUME TypeInv, [AnyNext]_vars, NEW a \in Accounts, NEW kind \in Kinds, NEW d \in Days,
                    mails'[<<a, kind, d>>] > mails[<<a, kind, d>>]
             PROVE  \/ panel[a].expire <= clock + 3
                    \/ \E j \in Jobs : At(j, "send") /\ job[j].at = a /\ job[j].list[a] # panel[a]
  BY DEF TrueAlarms
<1>t. mails[<<a, kind, d>>] \in Nat
  BY DEF TypeInv, TypeOK
<1>1. mails' # mails
  BY <1>t
<1>2. PICK j \in Jobs : SendMail(j)
  BY <1>1
  DEF AnyNext, Others, vars, NotifierStep, NotifierCrash, LoseJobs, notifierVars, StartUp, Cron,
      Begin, Run, ListUsers, Finish, Visit, SaveNotice
<1>3. At(j, "send") /\ Busy(j)
  BY <1>2 DEF SendMail, At, Busy
<1>4. /\ mails' = mails \/ Deliver(job[j].at, KindFor(j, job[j].at), job[j].now)
      /\ job[j].at \in Accounts
  BY <1>2, <1>3, HandType DEF SendMail
<1>5. job[j].at = a
  <2>1. CASE <<a, kind>> = NoticeAtHand(j)
    BY <2>1 DEF NoticeAtHand
  <2>2. CASE <<a, kind>> # NoticeAtHand(j)
    BY <1>t, <1>3, <1>4, <2>2, Delivers
  <2>. QED BY <2>1, <2>2
<1>6. /\ job[j].list[a] # None /\ Due(j, a) /\ job[j].now <= clock
      /\ job[j] \in Running /\ clock \in Nat
  BY <1>3, <1>5, AtWork, ServerAssumption
  DEF TypeInv, TypeOK, ServerTypeOK, AtHand, ListKept, Busy
<1>7. job[j].list[a] \in Account /\ job[j].now \in Nat
  BY <1>6, ServerAssumption DEF Running, Days
<1>8. job[j].list[a].expire <= job[j].now + 3 /\ job[j].list[a].expire \in Nat
  BY <1>6, <1>7 DEF Due, DueSoon, Account
<1>. QED BY <1>3, <1>5, <1>6, <1>7, <1>8

\* A mail goes to an account that is due, or that was written since it was listed.
THEOREM AlarmsAreTrue == Spec => NoFalseAlarm
<1>1. TypeInv /\ [Next]_vars => TrueAlarms
  BY NextIsAny, AlarmStep
<1>. QED BY <1>1, TypeInvariant, PTL DEF Spec, NoFalseAlarm, TrueAlarms

=============================================================================
