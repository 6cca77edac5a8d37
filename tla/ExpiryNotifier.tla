---------------------------- MODULE ExpiryNotifier ---------------------------
(***************************************************************************)
(* Telling customers that their access ends: internal/jobs.  A run of the  *)
(* job lists the accounts of the panel once and goes through the list; for *)
(* an account that has expired, or will within three days, it counts the   *)
(* notices on record, sends a mail and records it.  One run starts with    *)
(* the process and one every noon, each in a goroutine of its own, and     *)
(* nothing keeps them apart.  Meanwhile operators (and payments) write the *)
(* accounts.                                                               *)
(*                                                                         *)
(* The history variable `trouble' says for which notices a call failed, a  *)
(* run came in the way of another one, or the process was killed.          *)
(***************************************************************************)
EXTENDS RemnaPanel

CONSTANTS
  Jobs,   \* goroutines that may run the job at the same time
  Mute    \* accounts without an e-mail or without an expiry date

ASSUME NotifierAssumption == Mute \subseteq Accounts

VARIABLES
  started,   \* whether this process has launched its first run
  noon,      \* the last day the cron fired
  job,       \* what each goroutine holds
  notices,   \* the table of sent notices
  mails,     \* history: mails delivered, per account, kind and day of the run
  trouble    \* history: accounts and kinds for which something went wrong

notifierVars == <<started, noon, job, notices, mails, trouble>>

Kinds == {"expiring_soon", "expired"}

Days == 0 .. MaxDay

\* models.SubscriptionNotification; two rows that agree in this count as one.
Notice == [account : Accounts, kind : Kinds, day : Days]

Resting == [pc |-> "idle"]

\* Run's locals: `now', the list, what is left of it, the account at hand, and
\* (history) the accounts it has failed to mail or to record.
Running == [pc : {"list", "next", "send", "save"}, now : Days,
            list : [Accounts -> Account \cup {None}],
            todo : SUBSET Accounts, at : Accounts \cup {None},
            missed : SUBSET Accounts]

\* Runs rest or go through a list; notices and mails are of known kinds and days.
TypeOK ==
  /\ ServerTypeOK
  /\ PanelTypeOK
  /\ started \in BOOLEAN
  /\ noon \in Days \cup {-1}
  /\ job \in [Jobs -> Running \cup {Resting}]
  /\ notices \subseteq Notice
  /\ mails \in [Accounts \X Kinds \X Days -> Nat]
  /\ trouble \subseteq Accounts \X Kinds

NotifierInit ==
  /\ started = FALSE
  /\ noon = -1
  /\ job = [j \in Jobs |-> Resting]
  /\ notices = {}
  /\ mails = [m \in Accounts \X Kinds \X Days |-> 0]
  /\ trouble = {}

-----------------------------------------------------------------------------
(* Runs that begin. *)

Beginning ==
  [pc |-> "list", now |-> clock, list |-> [a \in Accounts |-> None],
   todo |-> {}, at |-> None, missed |-> {}]

Begin(j) ==
  /\ job[j] = Resting
  /\ job' = [job EXCEPT ![j] = Beginning]
  /\ UNCHANGED <<notices, mails, trouble>>

StartUp(j) == ~ started /\ Begin(j) /\ started' = TRUE /\ UNCHANGED noon

Cron(j) == noon < clock /\ Begin(j) /\ noon' = clock /\ UNCHANGED started

At(j, step) == job[j].pc = step

\* GET /users: every account, as it is at that moment.
AllUsers == panel

\* Mutant: the error of the client is not looked at, and there is no list then.
ListUsersUnchecked(j) ==
  /\ At(j, "list")
  /\ \E list \in {AllUsers, None} :
       job' = [job EXCEPT ![j].pc = "next", ![j].now = clock, ![j].list = list,
                          ![j].todo = {a \in Accounts : list # None /\ Exists(a)}]
  /\ UNCHANGED <<started, noon, notices, mails, trouble>>

\* The list comes first and the clock is read after it.
ListUsers(j) ==
  /\ At(j, "list")
  /\ \/ job' = [job EXCEPT ![j].pc = "next", ![j].now = clock, ![j].list = AllUsers,
                           ![j].todo = {a \in Accounts : Exists(a)}]
     \/ job' = [job EXCEPT ![j] = Resting]
  /\ UNCHANGED <<started, noon, notices, mails, trouble>>

Finish(j) ==
  /\ At(j, "next")
  /\ job[j].todo = {}
  /\ job' = [job EXCEPT ![j] = Resting]
  /\ UNCHANGED <<started, noon, notices, mails, trouble>>

-----------------------------------------------------------------------------
(* One account of the list. *)

Expired(record, now) == record.expire < now

\* Mutant: everybody is told a day early.
DueSoonEarly(record, now) == record.expire <= now + 4

DueSoon(record, now) == record.expire <= now + 3

Due(j, a) == a \notin Mute /\ DueSoon(job[j].list[a], job[j].now)

KindFor(j, a) ==
  IF Expired(job[j].list[a], job[j].now) THEN "expired" ELSE "expiring_soon"

Skip(j, a) ==
  /\ ~ Due(j, a)
  /\ job' = [job EXCEPT ![j].todo = @ \ {a}]
  /\ UNCHANGED trouble

\* Mutant: both kinds are looked for among the notices of today.
AlreadyNotifiedToday(a, kind, now) ==
  \E n \in notices : n.account = a /\ n.kind = kind /\ n.day >= now

\* Mutant: a notice of the run's own day is not seen.
AlreadyNotifiedAfter(a, kind, now) ==
  \E n \in notices : n.account = a /\ n.kind = kind /\ n.day > now

\* One notice a day that access ends soon, one ever that it has ended.  Records
\* are dated by the run, so a run that has waited past midnight sees later ones.
AlreadyNotified(a, kind, now) ==
  \E n \in notices :
    /\ n.account = a
    /\ n.kind = kind
    /\ kind = "expiring_soon" => n.day >= now

\* Another run has passed this check for the same notice and not recorded it.
Overlaps(j, a) ==
  \E other \in Jobs \ {j} :
    /\ job[other].pc \in {"send", "save"}
    /\ job[other].at = a
    /\ KindFor(other, a) = KindFor(j, a)

Proceed(j, a) ==
  job' = [job EXCEPT ![j].pc = "send", ![j].todo = @ \ {a}, ![j].at = a]

Blame(a, kind) == trouble' = trouble \cup {<<a, kind>>}

\* The error of the count is not looked at, and the count is then zero.
Check(j, a) ==
  LET kind == KindFor(j, a) IN
  /\ Due(j, a)
  /\ \/ /\ AlreadyNotified(a, kind, job[j].now)
        /\ job' = [job EXCEPT ![j].todo = @ \ {a}]
        /\ UNCHANGED trouble
     \/ /\ ~ AlreadyNotified(a, kind, job[j].now)
        /\ Proceed(j, a)
        /\ IF Overlaps(j, a) THEN Blame(a, kind) ELSE UNCHANGED trouble
     \/ Proceed(j, a) /\ Blame(a, kind)

Visit(j) ==
  /\ At(j, "next")
  /\ \E a \in job[j].todo : Skip(j, a) \/ Check(j, a)
  /\ UNCHANGED <<started, noon, notices, mails>>

GoOn(j, missed) ==
  job' = [job EXCEPT ![j].pc = "next", ![j].at = None, ![j].missed = @ \cup missed]

Deliver(a, kind, now) == mails' = [mails EXCEPT ![<<a, kind, now>>] = @ + 1]

\* Mutant: a mail that fails ends the run.
SendMailOrReturn(j) ==
  LET a == job[j].at
      kind == KindFor(j, a)
  IN
  /\ At(j, "send")
  /\ \/ Deliver(a, kind, job[j].now) /\ job' = [job EXCEPT ![j].pc = "save"] /\ UNCHANGED trouble
     \/ job' = [job EXCEPT ![j] = Resting] /\ Blame(a, kind) /\ UNCHANGED mails
  /\ UNCHANGED <<started, noon, notices>>

\* An error, whether or not the mail went out, and the account is left at that:
\* the run goes on with the next one.
SendMail(j) ==
  LET a == job[j].at
      kind == KindFor(j, a)
  IN
  /\ At(j, "send")
  /\ \/ /\ Deliver(a, kind, job[j].now)
        /\ \/ job' = [job EXCEPT ![j].pc = "save"] /\ UNCHANGED trouble
           \/ GoOn(j, {a}) /\ Blame(a, kind)
     \/ GoOn(j, {a}) /\ Blame(a, kind) /\ UNCHANGED mails
  /\ UNCHANGED <<started, noon, notices>>

\* Mutant: the row is dated by the day it is written on.
NewNoticeToday(j) ==
  [account |-> job[j].at, kind |-> KindFor(j, job[j].at), day |-> clock]

NewNotice(j) ==
  [account |-> job[j].at, kind |-> KindFor(j, job[j].at), day |-> job[j].now]

\* A record that cannot be saved is logged and the run goes on.
SaveNotice(j) ==
  /\ At(j, "save")
  /\ \/ /\ GoOn(j, {})
        /\ notices' = notices \cup {NewNotice(j)}
        /\ UNCHANGED trouble
     \/ /\ GoOn(j, {job[j].at})
        /\ Blame(job[j].at, KindFor(j, job[j].at))
        /\ UNCHANGED notices
  /\ UNCHANGED <<started, noon, mails>>

\* The process is killed; what was mailed and not recorded stays that way.
LoseJobs ==
  /\ job' = [j \in Jobs |-> Resting]
  /\ started' = FALSE
  /\ trouble' = trouble \cup
       {<<job[j].at, KindFor(j, job[j].at)>> : j \in {i \in Jobs : At(i, "save")}}
  /\ UNCHANGED <<noon, notices, mails>>

-----------------------------------------------------------------------------
(* The specification. *)

Run(j) == ListUsers(j) \/ Finish(j) \/ Visit(j) \/ SendMail(j) \/ SaveNotice(j)

NotifierStep ==
  /\ \E j \in Jobs : StartUp(j) \/ Cron(j) \/ Run(j)
  /\ UNCHANGED <<serverVars, panelVars>>

NotifierCrash == Restart /\ LoseJobs /\ UNCHANGED panelVars

vars == <<serverVars, panelVars, notifierVars>>

Init == ServerInit /\ PanelInit /\ NotifierInit

Next ==
  \/ NotifierStep
  \/ NotifierCrash
  \/ Surroundings /\ UNCHANGED notifierVars

Spec == Init /\ [][Next]_vars

-----------------------------------------------------------------------------
(* Properties. *)

Mailed(a, kind, day) == mails[<<a, kind, day>>]

\* The customer got the same notice twice: that access ends soon, by runs of
\* one day, or that it has ended, by any two runs.
MailedTwice(a, kind) ==
  \E d, e \in Days :
    /\ Mailed(a, kind, d) > 0
    /\ Mailed(a, kind, e) > 0
    /\ kind = "expired" \/ d = e
    /\ d = e => Mailed(a, kind, d) > 1

\* Nobody gets the same notice twice, unless a call of that notice failed, two
\* runs met over it, or the process was killed between its mail and its record:
\* jobs:173 says that the notice of an end is sent once ever, "one and done".
OnceUnlessTrouble ==
  \A a \in Accounts, kind \in Kinds : MailedTwice(a, kind) => <<a, kind>> \in trouble

\* A record says that a mail went out, so nobody is passed over because of a
\* notice that never reached them.
RecordedWasMailed == \A n \in notices : Mailed(n.account, n.kind, n.day) > 0

\* The table says that the customer knows: today's notice that access ends soon,
\* or the one notice that it has ended.
Told(a, kind, now) ==
  \E n \in notices :
    n.account = a /\ n.kind = kind /\ (kind = "expired" \/ n.day >= now)

\* A run that had its list and was not killed ends only when everybody on the
\* list who is due has been told, or could not be by this very run: no account,
\* and no call that failed for one, keeps the run from those behind it.
NobodyPassedOver ==
  [][\A j \in Jobs :
       job[j].pc \notin {"idle", "list"} /\ job'[j] = Resting /\ crashes' = crashes =>
         \A a \in Accounts \ Mute :
           LET record == job[j].list[a] IN
           record # None /\ record.expire <= job[j].now + 3 =>
             \/ Told(a, IF record.expire < job[j].now THEN "expired" ELSE "expiring_soon",
                     job[j].now)
             \/ a \in job[j].missed]_vars

\* Nobody with more than three days left is told that access ends, unless the
\* account was written after the run listed it.
NoFalseAlarm ==
  [][\A a \in Accounts, kind \in Kinds, d \in Days :
       mails'[<<a, kind, d>>] > mails[<<a, kind, d>>] =>
         \/ panel[a].expire <= clock + 3
         \/ \E j \in Jobs : At(j, "send") /\ job[j].at = a /\ job[j].list[a] # panel[a]]_vars

=============================================================================
