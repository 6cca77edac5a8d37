--------------------------- MODULE SupportTickets ---------------------------
(***************************************************************************)
(* Support tickets: internal/handlers/support.go, beside the sign-in whose *)
(* sessions it reads.  CreateTicket counts the address, reads the session, *)
(* inserts the ticket, answers, and leaves a goroutine behind that tells   *)
(* the support team by e-mail.  Administrators list all tickets and set    *)
(* their status; a customer lists their own.                               *)
(***************************************************************************)
EXTENDS SignIn

CONSTANTS
  Clerks,      \* goroutines that may serve a ticket, its mail included
  MaxTickets   \* bound: tickets filed

ASSUME TicketAssumption == MaxTickets \in Nat

VARIABLES
  tickets,    \* table support_tickets, in the order of insertion
  clerk,      \* what each goroutine holds
  announced,  \* history: tickets the support team was told of
  unheard     \* history: tickets whose mail or insert went wrong

ticketVars == <<tickets, clerk, announced, unheard>>

\* validStatuses: a new ticket is open; the other four are one here.
Statuses == {"open", "later"}

\* models.SupportTicket: its user, if it has one, and its status.
Ticket == [author : Emails \cup {None}, status : Statuses]

Filing == [pc : {"read", "insert", "announce"}, browser : Browsers,
           author : Emails \cup {None}, ticket : 0 .. MaxTickets]

Free == [pc |-> "free"]

\* The types of the tickets and of the sign-in.
TypeOK ==
  /\ ServerTypeOK
  /\ SignInTypeOK
  /\ tickets \in Seq(Ticket) /\ Len(tickets) <= MaxTickets
  /\ clerk \in [Clerks -> Filing \cup {Free}]
  /\ announced \subseteq DOMAIN tickets
  /\ unheard \subseteq DOMAIN tickets

Init ==
  /\ ServerInit
  /\ SignInInit
  /\ tickets = << >>
  /\ clerk = [c \in Clerks |-> Free]
  /\ announced = {}
  /\ unheard = {}

-----------------------------------------------------------------------------

Leave(c) == clerk' = [clerk EXCEPT ![c] = Free]

\* The limiter comes first: a ticket that is then refused as malformed (400)
\* has been counted, and is a request that leaves at its next step.
CreateTicket(c, b) ==
  /\ clerk[c] = Free
  /\ Admit(<<"ticket", b>>)
  /\ clerk' = [clerk EXCEPT ![c] =
                [pc |-> "read", browser |-> b, author |-> None, ticket |-> 0]]
  /\ UNCHANGED <<tickets, announced, unheard>>

\* A session that cannot be read counts as nobody's.
ReadSession(c) ==
  /\ clerk[c].pc = "read"
  /\ \/ \E author \in {sessions[clerk[c].browser], None} :
          clerk' = [clerk EXCEPT ![c].pc = "insert", ![c].author = author]
     \/ Leave(c)
  /\ UNCHANGED <<limiterVars, tickets, announced, unheard>>

\* Mutant: the status is one the administrators' handler does not know.
NewTicketNew(author) == [author |-> author, status |-> "new"]

NewTicket(author) == [author |-> author, status |-> "open"]

\* The goroutine that tells the team starts only when the insert has answered.
InsertTicket(c) ==
  LET t == Len(tickets) + 1 IN
  /\ clerk[c].pc = "insert"
  /\ \/ /\ t <= MaxTickets
        /\ tickets' = Append(tickets, NewTicket(clerk[c].author))
        /\ \/ /\ clerk' = [clerk EXCEPT ![c].pc = "announce", ![c].ticket = t]
              /\ UNCHANGED unheard
           \/ Leave(c) /\ unheard' = unheard \cup {t}
     \/ Leave(c) /\ UNCHANGED <<tickets, unheard>>
  /\ UNCHANGED <<limiterVars, announced>>

\* Mutant: the goroutine mails the newest ticket of the table, not its own.
AnnounceNewest(c) ==
  LET t == Len(tickets) IN
  /\ clerk[c].pc = "announce"
  /\ Leave(c)
  /\ \/ announced' = announced \cup {t} /\ UNCHANGED unheard
     \/ unheard' = unheard \cup {t} /\ UNCHANGED announced
  /\ UNCHANGED <<limiterVars, tickets>>

\* Fire and forget: a failure is logged.
Announce(c) ==
  LET t == clerk[c].ticket IN
  /\ clerk[c].pc = "announce"
  /\ Leave(c)
  /\ \/ announced' = announced \cup {t} /\ UNCHANGED unheard
     \/ unheard' = unheard \cup {t} /\ UNCHANGED announced
  /\ UNCHANGED <<limiterVars, tickets>>

\* One UPDATE of one column; any status may follow any other.
AdminUpdateTicketStatus(t) ==
  /\ \E status \in Statuses \ {tickets[t].status} :
       tickets' = [tickets EXCEPT ![t].status = status]
  /\ UNCHANGED <<limiterVars, clerk, announced, unheard>>

\* The process is killed; a mail that was not sent yet is forgotten.
LoseClerks ==
  /\ clerk' = [c \in Clerks |-> Free]
  /\ unheard' = unheard \cup
       {clerk[c].ticket : c \in {d \in Clerks : clerk[d].pc = "announce"}}
  /\ UNCHANGED <<tickets, announced>>

-----------------------------------------------------------------------------
(* The specification: sign-in and tickets in one process. *)

vars == <<serverVars, signInVars, ticketVars>>

TicketStep ==
  /\ \/ \E c \in Clerks :
          \/ \E b \in Browsers : CreateTicket(c, b)
          \/ ReadSession(c)
          \/ InsertTicket(c)
          \/ Announce(c)
     \/ \E t \in DOMAIN tickets : AdminUpdateTicketStatus(t)
  /\ UNCHANGED <<codes, users, sessions, door, issued, mailed, signIns, doubtful, unlucky>>

Next ==
  \/ SignInStep /\ UNCHANGED <<serverVars, ticketVars>>
  \/ TicketStep /\ UNCHANGED serverVars
  \/ Tick /\ UNCHANGED <<signInVars, ticketVars>>
  \/ Restart /\ LoseDoors /\ LoseClerks

Spec == Init /\ [][Next]_vars

-----------------------------------------------------------------------------
(* Properties. *)

\* The support team is told of every ticket in the table, unless its mail
\* failed, its insert was not answered, or the process was killed first.
TicketIsAnnounced ==
  \A t \in DOMAIN tickets :
    \/ t \in announced \cup unheard
    \/ \E c \in Clerks : clerk[c].pc = "announce" /\ clerk[c].ticket = t

\* Whoever a ticket belongs to is in the table of users and has signed in by a
\* code that was kept for their e-mail: GetTickets can show it to nobody else.
AuthorsSignedIn ==
  \A t \in DOMAIN tickets :
    LET m == tickets[t].author IN
    m # None => /\ m \in users
                /\ \E i \in DOMAIN issued : issued[i] = m /\ signIns[i] > 0

=============================================================================
