------------------------------- MODULE SignIn -------------------------------
(***************************************************************************)
(* Signing in by a code sent by e-mail: internal/handlers/auth.go.         *)
(* SendCode keeps a code in Redis for 15 minutes and then asks the mail    *)
(* service to send it.  Login compares the code, deletes it, reads or      *)
(* creates the user, and saves the session.  Requests for one e-mail run   *)
(* concurrently when their limiter has let them through; each step below   *)
(* is one call to Redis, the database or the mail service.                 *)
(***************************************************************************)
EXTENDS RateLimiter, Sequences

CONSTANTS
  Codes,      \* codes that may be drawn; two draws may be alike
  CodeLife,   \* 15 minutes, in periods of the limiter
  MaxIssues,  \* bound: codes kept in all
  Doors,      \* goroutines that may serve sign-in at one time
  None        \* no code, nobody

Issues == 1 .. MaxIssues

\* A code in Redis; `issue' tells equal codes apart.
Kept == [code : Codes, issue : Issues, until : Nat]

ASSUME SignInAssumption ==
  /\ CodeLife \in Nat
  /\ MaxIssues \in Nat
  /\ None \notin Emails \cup Kept

VARIABLES
  codes,     \* Redis code:<email>, or None
  users,     \* e-mails with a row in the table of users
  sessions,  \* whom each browser is signed in as, or None
  door,      \* what each goroutine holds
  issued,    \* history: the e-mail of every code that was kept, in order
  mailed,    \* history: codes that reached their mailbox
  signIns,   \* history: how often each code has signed somebody in
  doubtful,  \* history: codes that two logins had in hand, or whose deletion failed
  unlucky    \* history: codes lost to a login that failed

signInVars ==
  <<limiterVars, codes, users, sessions, door, issued, mailed, signIns, doubtful, unlucky>>

Idle == [pc |-> "idle"]

\* SendCode past its limiter, then past its Redis call.
Sending == [pc : {"store", "mail"}, email : Emails, issue : Issues \cup {0}]

\* Login past its limiter; past the comparison it holds the issue it matched.
LoggingIn ==
  [pc : {"compare", "spend", "find", "create", "session"},
   email : Emails, browser : Browsers, code : Codes, issue : Issues \cup {0}]

SignInTypeOK ==
  /\ LimiterTypeOK
  /\ codes \in [Emails -> Kept \cup {None}]
  /\ users \subseteq Emails
  /\ sessions \in [Browsers -> Emails \cup {None}]
  /\ door \in [Doors -> Sending \cup LoggingIn \cup {Idle}]
  /\ issued \in Seq(Emails) /\ Len(issued) <= MaxIssues
  /\ mailed \subseteq Issues /\ doubtful \subseteq Issues /\ unlucky \subseteq Issues
  /\ signIns \in [Issues -> Nat]

SignInInit ==
  /\ LimiterInit
  /\ codes = [m \in Emails |-> None]
  /\ users \in SUBSET Emails
  /\ sessions = [b \in Browsers |-> None]
  /\ door = [d \in Doors |-> Idle]
  /\ issued = << >>
  /\ mailed = {}
  /\ signIns = [i \in Issues |-> 0]
  /\ doubtful = {}
  /\ unlucky = {}

-----------------------------------------------------------------------------

At(d, step) == door[d].pc = step

Goto(d, step) == door' = [door EXCEPT ![d].pc = step]

Return(d) == door' = [door EXCEPT ![d] = Idle]

\* Logins that have matched a code and not yet ended.
Matched == {d \in Doors : door[d].pc \in {"spend", "find", "create", "session"}}

\* Redis forgets a code when its time is over.
Lives(m) == codes[m] # None /\ clock < codes[m].until

(* SendCode. *)

\* An error of the limiter refuses the request whether it counted it or not.
SendCode(d, m) ==
  /\ door[d] = Idle
  /\ Admit(<<"sendcode", m>>)
  /\ door' = [door EXCEPT ![d] = [pc |-> "store", email |-> m, issue |-> 0]]
  /\ UNCHANGED <<codes, users, sessions, issued, mailed, signIns, doubtful, unlucky>>

\* Set replaces the code there was.  The last disjunct is its error, after
\* which the code may be there and is never mailed.
StoreCode(d) ==
  LET m == door[d].email
      i == Len(issued) + 1
  IN
  /\ At(d, "store")
  /\ \/ /\ i \in Issues
        /\ issued' = Append(issued, m)
        /\ \E c \in Codes :
             codes' = [codes EXCEPT ![m] =
                        [code |-> c, issue |-> i, until |-> clock + CodeLife]]
        /\ \/ door' = [door EXCEPT ![d].pc = "mail", ![d].issue = i]
           \/ Return(d)
     \/ Return(d) /\ UNCHANGED <<codes, issued>>
  /\ UNCHANGED <<limiterVars, users, sessions, mailed, signIns, doubtful, unlucky>>

\* The mail is delivered or not.  What the customer is told depends on an
\* answer having come, and not on what it says.
MailCode(d) ==
  /\ At(d, "mail")
  /\ Return(d)
  /\ mailed' \in {mailed, mailed \cup {door[d].issue}}
  /\ UNCHANGED <<limiterVars, codes, users, sessions, issued, signIns, doubtful, unlucky>>

(* Login. *)

Login(d, b, m) ==
  /\ door[d] = Idle
  /\ Admit(<<"login", m>>)
  /\ \E c \in Codes :
       door' = [door EXCEPT ![d] =
         [pc |-> "compare", email |-> m, browser |-> b, code |-> c, issue |-> 0]]
  /\ UNCHANGED <<codes, users, sessions, issued, mailed, signIns, doubtful, unlucky>>

Matches(m, c) == Lives(m) /\ codes[m].code = c

\* Mutant: a wrong code uses the right one up.
CompareCodeOnce(d) ==
  LET m == door[d].email IN
  /\ At(d, "compare")
  /\ IF Matches(m, door[d].code)
       THEN /\ door' = [door EXCEPT ![d].pc = "spend", ![d].issue = codes[m].issue]
            /\ UNCHANGED codes
       ELSE /\ Return(d)
            /\ codes' = [codes EXCEPT ![m] = None]
  /\ UNCHANGED <<limiterVars, users, sessions, issued, mailed, signIns, doubtful, unlucky>>

\* No code, another code or an error of Redis: 401.
CompareCode(d) ==
  LET m == door[d].email IN
  /\ At(d, "compare")
  /\ \/ /\ Matches(m, door[d].code)
        /\ door' = [door EXCEPT ![d].pc = "spend", ![d].issue = codes[m].issue]
        /\ doubtful' = IF \E e \in Matched : door[e].issue = codes[m].issue
                         THEN doubtful \cup {codes[m].issue} ELSE doubtful
     \/ Return(d) /\ UNCHANGED doubtful
  /\ UNCHANGED <<limiterVars, codes, users, sessions, issued, mailed, signIns, unlucky>>

\* Mutant: the code is left to run out.
SpendCodeLeave(d) ==
  /\ At(d, "spend")
  /\ Goto(d, "find")
  /\ UNCHANGED <<limiterVars, codes, users, sessions, issued, mailed, signIns, doubtful, unlucky>>

\* Del goes by the e-mail: it also takes a code that came after the comparison.
\* Its error is not looked at.
SpendCode(d) ==
  LET m == door[d].email
      i == door[d].issue
  IN
  /\ At(d, "spend")
  /\ Goto(d, "find")
  /\ \/ /\ codes' = [codes EXCEPT ![m] = None]
        /\ unlucky' = IF codes[m] # None /\ codes[m].issue # i
                        THEN unlucky \cup {codes[m].issue} ELSE unlucky
        /\ UNCHANGED doubtful
     \/ doubtful' = doubtful \cup {i} /\ UNCHANGED <<codes, unlucky>>
  /\ UNCHANGED <<limiterVars, users, sessions, issued, mailed, signIns>>

\* A call of Login past the comparison fails: 500, and the code is gone.
LoginFails(d) == Return(d) /\ unlucky' = unlucky \cup {door[d].issue}

FindUser(d) ==
  LET m == door[d].email IN
  /\ At(d, "find")
  /\ \/ Goto(d, IF m \in users THEN "session" ELSE "create") /\ UNCHANGED unlucky
     \/ LoginFails(d)
  /\ UNCHANGED <<limiterVars, codes, users, sessions, issued, mailed, signIns, doubtful>>

\* Mutant: a refused insert is taken for a user who is there.
CreateUserAnyway(d) ==
  LET m == door[d].email IN
  /\ At(d, "create")
  /\ users' \in {users, users \cup {m}}
  /\ Goto(d, "session")
  /\ UNCHANGED <<limiterVars, codes, sessions, issued, mailed, signIns, doubtful, unlucky>>

\* The e-mail is unique in the table: an insert that comes second is refused.
CreateUser(d) ==
  LET m == door[d].email IN
  /\ At(d, "create")
  /\ \/ m \notin users /\ users' = users \cup {m} /\ Goto(d, "session") /\ UNCHANGED unlucky
     \/ users' \in {users, users \cup {m}} /\ LoginFails(d)
  /\ UNCHANGED <<limiterVars, codes, sessions, issued, mailed, signIns, doubtful>>

\* The last disjunct is an error of Redis that changed nothing.  One that comes
\* after the session was saved still signs in a browser that has its cookie.
SaveSession(d) ==
  LET x == door[d] IN
  /\ At(d, "session")
  /\ \/ /\ sessions' = [sessions EXCEPT ![x.browser] = x.email]
        /\ signIns' = [signIns EXCEPT ![x.issue] = @ + 1]
        /\ Return(d) /\ UNCHANGED unlucky
     \/ LoginFails(d) /\ UNCHANGED <<sessions, signIns>>
  /\ UNCHANGED <<limiterVars, codes, users, issued, mailed, doubtful>>

\* Logout, or the end of the session's 24 hours.
Logout(b) ==
  /\ sessions[b] # None
  /\ sessions' = [sessions EXCEPT ![b] = None]
  /\ UNCHANGED <<limiterVars, codes, users, door, issued, mailed, signIns, doubtful, unlucky>>

\* The process is killed; Redis and the database keep what they have.
LoseDoors ==
  /\ door' = [d \in Doors |-> Idle]
  /\ unlucky' = unlucky \cup {door[d].issue : d \in Matched}
  /\ UNCHANGED <<limiterVars, codes, users, sessions, issued, mailed, signIns, doubtful>>

SignInStep ==
  \/ \E d \in Doors :
       \/ \E m \in Emails : SendCode(d, m)
       \/ StoreCode(d)
       \/ MailCode(d)
       \/ \E b \in Browsers, m \in Emails : Login(d, b, m)
       \/ CompareCode(d)
       \/ SpendCode(d)
       \/ FindUser(d)
       \/ CreateUser(d)
       \/ SaveSession(d)
  \/ \E b \in Browsers : Logout(b)

-----------------------------------------------------------------------------
(* Properties. *)

\* A code signs in twice only if two logins had it in hand at one time, the
\* second let through by the limiter before the first was done with it, or if
\* its deletion failed.
CodeSignsInOnce == \A i \in Issues : signIns[i] > 1 => i \in doubtful

\* The code in a customer's mail works until its time is over, unless another
\* was kept after it, a login has it in hand or has used it, or a login that
\* failed or that held an older code has taken it along.
MailedCodeWorks ==
  \A i \in mailed :
    LET m == issued[i] IN
    \/ codes[m] # None /\ codes[m].issue = i
    \/ \E j \in i + 1 .. Len(issued) : issued[j] = m
    \/ \E d \in Matched : door[d].issue = i
    \/ signIns[i] > 0
    \/ i \in unlucky

=============================================================================
