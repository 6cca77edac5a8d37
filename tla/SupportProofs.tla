---------------------------- MODULE SupportProofs ----------------------------
(***************************************************************************)
(* Proofs about SupportTickets and the sign-in beside it, for any e-mails, *)
(* browsers, goroutines, codes, intervals and bounds.                      *)
(***************************************************************************)
EXTENDS SupportTickets, TLAPS

\* A request is let through.
LEMMA AdmitKeeps ==
  ASSUME LimiterTypeOK, clock \in Nat, NEW k \in Keys, Admit(k)
  PROVE  LimiterTypeOK'
<1>1. NextGate(k) \in Nat
  BY LimiterAssumption DEF LimiterTypeOK, NextGate, Limit
<1>2. admitted + 1 \in 0 .. MaxRequests
  BY LimiterAssumption DEF LimiterTypeOK, Admit
<1>. QED BY <1>1, <1>2 DEF LimiterTypeOK, Admit

(***************************************************************************)
(* Who uses the limiter: what lets a request through is the first call of  *)
(* SendCode, Login and CreateTicket, and nothing else touches it.          *)
(***************************************************************************)
ServedInv == ServerTypeOK /\ LimiterTypeOK

\* Every step lets one request through, or leaves the limiter alone.
LEMMA LimiterSteps ==
  ASSUME Next
  PROVE  \/ UNCHANGED clock /\ \E k \in Keys : Admit(k)
         \/ UNCHANGED limiterVars
<1>1. ASSUME NEW d \in Doors, NEW m \in Emails, SendCode(d, m) \/ \E b \in Browsers : Login(d, b, m)
      PROVE  \E k \in Keys : Admit(k)
  <2>1. <<"sendcode", m>> \in Keys /\ <<"login", m>> \in Keys
    BY DEF Keys
  <2>. QED BY <1>1, <2>1 DEF SendCode, Login
<1>2. ASSUME NEW c \in Clerks, NEW b \in Browsers, CreateTicket(c, b)
      PROVE  \E k \in Keys : Admit(k)
  <2>1. <<"ticket", b>> \in Keys
    BY DEF Keys
  <2>. QED BY <1>2, <2>1 DEF CreateTicket
<1>3. ASSUME NEW d \in Doors,
             \/ StoreCode(d) \/ MailCode(d) \/ CompareCode(d) \/ SpendCode(d)
             \/ FindUser(d) \/ CreateUser(d) \/ SaveSession(d)
      PROVE  UNCHANGED limiterVars
  BY <1>3 DEF StoreCode, MailCode, CompareCode, SpendCode, FindUser, CreateUser, SaveSession
<1>4. ASSUME NEW c \in Clerks, ReadSession(c) \/ InsertTicket(c) \/ Announce(c)
      PROVE  UNCHANGED limiterVars
  BY <1>4 DEF ReadSession, InsertTicket, Announce
<1>5. CASE SignInStep /\ UNCHANGED <<serverVars, ticketVars>>
  BY <1>1, <1>3, <1>5 DEF SignInStep, Logout, serverVars
<1>6. CASE TicketStep /\ UNCHANGED serverVars
  BY <1>2, <1>4, <1>6 DEF TicketStep, AdminUpdateTicketStatus, serverVars
<1>7. CASE Tick /\ UNCHANGED <<signInVars, ticketVars>>
  BY <1>7 DEF signInVars
<1>8. CASE Restart /\ LoseDoors /\ LoseClerks
  BY <1>8 DEF LoseDoors
<1>. QED
  BY <1>5, <1>6, <1>7, <1>8 DEF Next

\* The clock does not go back, and stays within its bounds.
LEMMA ServerSteps ==
  ASSUME ServerTypeOK, Next
  PROVE  ServerTypeOK' /\ clock \in Nat /\ clock' \in Nat /\ clock' >= clock
<1>1. clock \in Nat /\ crashes \in Nat /\ MaxDay \in Nat /\ MaxCrashes \in Nat
  BY ServerAssumption DEF ServerTypeOK
<1>2. UNCHANGED serverVars \/ Tick \/ Restart
  BY DEF Next
<1>. QED
  BY <1>1, <1>2 DEF ServerTypeOK, serverVars, Tick, Restart

\* Clock and limiter keep their types.
LEMMA ServedInvariant == Spec => []ServedInv
<1>1. Init => ServedInv
  BY ServerAssumption, LimiterAssumption
  DEF Init, SignInInit, LimiterInit, LimiterTypeOK, ServedInv, ServerInit, ServerTypeOK
<1>2. ServedInv /\ [Next]_vars => ServedInv'
  <2> SUFFICES ASSUME ServedInv, [Next]_vars PROVE ServedInv'
    OBVIOUS
  <2>1. CASE Next
    <3>1. ServerTypeOK' /\ clock \in Nat
      BY <2>1, ServerSteps DEF ServedInv
    <3>2. CASE UNCHANGED limiterVars
      BY <3>1, <3>2 DEF ServedInv, LimiterTypeOK, limiterVars
    <3>3. ASSUME NEW k \in Keys, Admit(k) PROVE ServedInv'
      BY <3>1, <3>3, AdmitKeeps DEF ServedInv
    <3>. QED BY <2>1, <3>2, <3>3, LimiterSteps
  <2>2. CASE UNCHANGED vars
    BY <2>2 DEF vars, signInVars, serverVars, limiterVars, ServedInv, ServerTypeOK, LimiterTypeOK
  <2>. QED BY <2>1, <2>2
<1>. QED
  BY <1>1, <1>2, PTL DEF Spec

(***************************************************************************)
(* Type correctness of the sign-in.  A code that is kept, mailed or        *)
(* matched is one that was issued, to the e-mail it is kept, mailed or     *)
(* matched for; without that what SpendCode and SaveSession write has no   *)
(* type.                                                                   *)
(***************************************************************************)
Holding == Sending \cup LoggingIn \cup {Idle}

Issued(i, m) == i \in 1 .. Len(issued) /\ issued[i] = m

DoorsKnow ==
  \A d \in Doors :
    door[d].pc \in {"mail", "spend", "find", "create", "session"}
      => Issued(door[d].issue, door[d].email)

CodesKnow == \A m \in Emails : codes[m] # None => Issued(codes[m].issue, m)

SignInInv == SignInTypeOK /\ DoorsKnow /\ CodesKnow

\* A goroutine that sends a code.
LEMMA SendingAt ==
  ASSUME SignInInv, NEW d \in Doors, door[d].pc \in {"store", "mail"}
  PROVE  door[d] \in Sending
  BY DEF SignInInv, SignInTypeOK, LoggingIn, Idle

\* A goroutine that logs somebody in.
LEMMA LoggingInAt ==
  ASSUME SignInInv, NEW d \in Doors,
         door[d].pc \in {"compare", "spend", "find", "create", "session"}
  PROVE  door[d] \in LoggingIn
  BY DEF SignInInv, SignInTypeOK, Sending, Idle

\* One goroutine takes a step.
LEMMA DoorMoves ==
  ASSUME SignInInv, NEW d \in Doors, NEW x \in Holding, door' = [door EXCEPT ![d] = x]
  PROVE  /\ door' \in [Doors -> Holding]
         /\ door'[d] = x
         /\ \A e \in Doors \ {d} : door'[e] = door[e]
  BY DEF SignInInv, SignInTypeOK, Holding

\* It ends.
LEMMA ReturnMoves ==
  ASSUME SignInInv, NEW d \in Doors, Return(d)
  PROVE  /\ door' \in [Doors -> Holding]
         /\ door'[d].pc = "idle"
         /\ \A e \in Doors \ {d} : door'[e] = door[e]
<1>1. Idle \in Holding /\ Idle.pc = "idle"
  BY DEF Holding, Idle
<1>. QED BY <1>1, DoorMoves DEF Return

\* It goes on to the next call of Login.
LEMMA GotoMoves ==
  ASSUME SignInInv, NEW d \in Doors, NEW step \in {"find", "create", "session"},
         door[d].pc \in {"compare", "spend", "find", "create", "session"}, Goto(d, step)
  PROVE  /\ door' \in [Doors -> Holding]
         /\ door'[d].pc = step
         /\ door'[d].email = door[d].email /\ door'[d].issue = door[d].issue
         /\ \A e \in Doors \ {d} : door'[e] = door[e]
<1> DEFINE x == [door[d] EXCEPT !.pc = step]
<1>1. door[d] \in LoggingIn
  BY LoggingInAt
<1>2. x \in Holding /\ x.pc = step /\ x.email = door[d].email /\ x.issue = door[d].issue
  BY <1>1 DEF LoggingIn, Holding
<1>3. door' = [door EXCEPT ![d] = x]
  BY DEF Goto
<1>. QED BY <1>2, <1>3, DoorMoves

\* A code is kept under the next number.
LEMMA StoreMoves ==
  ASSUME SignInInv, NEW d \in Doors, NEW i, At(d, "store"), i = Len(issued) + 1, i \in Issues,
         door' = [door EXCEPT ![d].pc = "mail", ![d].issue = i]
  PROVE  /\ door' \in [Doors -> Holding]
         /\ door'[d].pc = "mail"
         /\ door'[d].email = door[d].email /\ door'[d].issue = i
         /\ \A e \in Doors \ {d} : door'[e] = door[e]
<1> DEFINE x == [door[d] EXCEPT !.pc = "mail", !.issue = i]
<1>1. door[d] \in Sending
  BY SendingAt DEF At
<1>2. x \in Holding /\ x.pc = "mail" /\ x.email = door[d].email /\ x.issue = i
  BY <1>1 DEF Sending, Holding
<1>3. door' = [door EXCEPT ![d] = x]
  OBVIOUS
<1>. QED BY <1>2, <1>3, DoorMoves

\* A code is matched.
LEMMA MatchMoves ==
  ASSUME SignInInv, NEW d \in Doors, NEW i \in Issues, At(d, "compare"),
         door' = [door EXCEPT ![d].pc = "spend", ![d].issue = i]
  PROVE  /\ door' \in [Doors -> Holding]
         /\ door'[d].pc = "spend"
         /\ door'[d].email = door[d].email /\ door'[d].issue = i
         /\ \A e \in Doors \ {d} : door'[e] = door[e]
<1> DEFINE x == [door[d] EXCEPT !.pc = "spend", !.issue = i]
<1>1. door[d] \in LoggingIn
  BY LoggingInAt DEF At
<1>2. x \in Holding /\ x.pc = "spend" /\ x.email = door[d].email /\ x.issue = i
  BY <1>1 DEF LoggingIn, Holding
<1>3. door' = [door EXCEPT ![d] = x]
  OBVIOUS
<1>. QED BY <1>2, <1>3, DoorMoves

\* A code that is kept for an e-mail.
LEMMA KeptCode ==
  ASSUME SignInInv, NEW m \in Emails, codes[m] # None
  PROVE  codes[m] \in Kept /\ codes[m].issue \in Issues /\ Issued(codes[m].issue, m)
  BY DEF SignInInv, SignInTypeOK, CodesKnow, Kept

\* What a goroutine past the comparison has in hand.
LEMMA InHand ==
  ASSUME SignInInv, NEW d \in Matched
  PROVE  /\ d \in Doors /\ door[d] \in LoggingIn
         /\ door[d].email \in Emails /\ door[d].browser \in Browsers
         /\ door[d].issue \in Issues /\ Issued(door[d].issue, door[d].email)
<1>1. d \in Doors /\ door[d].pc \in {"spend", "find", "create", "session"}
  BY DEF Matched
<1>2. door[d] \in LoggingIn /\ Issued(door[d].issue, door[d].email)
  BY <1>1, LoggingInAt DEF SignInInv, DoorsKnow
<1>3. Len(issued) \in Nat /\ Len(issued) <= MaxIssues /\ MaxIssues \in Nat
  BY SignInAssumption DEF SignInInv, SignInTypeOK
<1>. QED BY <1>1, <1>2, <1>3 DEF LoggingIn, Issued, Issues

\* Every step of the sign-in keeps its types.
LEMMA SignInSteps ==
  ASSUME SignInInv, LimiterTypeOK', clock \in Nat, SignInStep
  PROVE  SignInInv'
<1>n. MaxIssues \in Nat /\ CodeLife \in Nat /\ Len(issued) \in Nat
  BY SignInAssumption DEF SignInInv, SignInTypeOK
<1>t. /\ codes \in [Emails -> Kept \cup {None}]
      /\ users \subseteq Emails
      /\ sessions \in [Browsers -> Emails \cup {None}]
      /\ issued \in Seq(Emails) /\ Len(issued) <= MaxIssues
      /\ mailed \subseteq Issues /\ doubtful \subseteq Issues /\ unlucky \subseteq Issues
      /\ signIns \in [Issues -> Nat]
  BY DEF SignInInv, SignInTypeOK
<1>i. DoorsKnow /\ CodesKnow
  BY DEF SignInInv
<1>r. SignInTypeOK' <=>
        /\ codes' \in [Emails -> Kept \cup {None}]
        /\ users' \subseteq Emails
        /\ sessions' \in [Browsers -> Emails \cup {None}]
        /\ door' \in [Doors -> Holding]
        /\ issued' \in Seq(Emails) /\ Len(issued') <= MaxIssues
        /\ mailed' \subseteq Issues /\ doubtful' \subseteq Issues /\ unlucky' \subseteq Issues
        /\ signIns' \in [Issues -> Nat]
  BY DEF SignInTypeOK, Holding
<1>1. ASSUME NEW d \in Doors, NEW m \in Emails, SendCode(d, m) PROVE SignInInv'
  <2> DEFINE x == [pc |-> "store", email |-> m, issue |-> 0]
  <2>1. x \in Holding /\ x.pc = "store"
    BY DEF Holding, Sending
  <2>2. /\ door' \in [Doors -> Holding] /\ door'[d].pc = "store"
        /\ \A e \in Doors \ {d} : door'[e] = door[e]
    BY <1>1, <2>1, DoorMoves DEF SendCode
  <2>. QED
    BY <1>1, <1>t, <1>i, <1>r, <2>2 DEF SendCode, SignInInv, DoorsKnow, CodesKnow, Issued
<1>2. ASSUME NEW d \in Doors, StoreCode(d) PROVE SignInInv'
  <2> DEFINE m == door[d].email
             i == Len(issued) + 1
  <2>1. door[d] \in Sending /\ m \in Emails
    BY <1>2, SendingAt DEF StoreCode, At, Sending
  <2>2. CASE Return(d) /\ UNCHANGED <<codes, issued>>
    BY <1>2, <1>t, <1>i, <1>r, <2>2, ReturnMoves
    DEF StoreCode, SignInInv, DoorsKnow, CodesKnow, Issued
  <2>3. ASSUME i \in Issues, issued' = Append(issued, m), NEW c \in Codes,
               codes' = [codes EXCEPT ![m] =
                           [code |-> c, issue |-> i, until |-> clock + CodeLife]],
               \/ door' = [door EXCEPT ![d].pc = "mail", ![d].issue = i]
               \/ Return(d)
        PROVE  SignInInv'
    <3>1. /\ issued' \in Seq(Emails) /\ Len(issued') = i /\ issued'[i] = m
          /\ \A j \in 1 .. Len(issued) : issued'[j] = issued[j]
      BY <1>t, <2>1, <2>3
    <3>2. [code |-> c, issue |-> i, until |-> clock + CodeLife] \in Kept
      BY <1>n, <2>3 DEF Kept
    <3>3. codes' \in [Emails -> Kept \cup {None}] /\ codes'[m].issue = i
          /\ \A o \in Emails \ {m} : codes'[o] = codes[o]
      BY <1>t, <2>1, <2>3, <3>2
    <3>4. /\ door' \in [Doors -> Holding]
          /\ \A e \in Doors \ {d} : door'[e] = door[e]
          /\ \/ door'[d].pc = "mail" /\ door'[d].email = m /\ door'[d].issue = i
             \/ door'[d].pc = "idle"
      BY <1>2, <2>3, StoreMoves, ReturnMoves DEF StoreCode
    <3>5. \A j \in 1 .. Len(issued) : j \in 1 .. Len(issued') /\ issued'[j] = issued[j]
      BY <1>n, <3>1
    <3>6. i \in 1 .. Len(issued') /\ issued'[i] = m
      BY <1>n, <3>1
    <3> HIDE DEF i
    <3>7. DoorsKnow'
      BY <1>i, <3>4, <3>5, <3>6 DEF DoorsKnow, Issued
    <3>8. CodesKnow'
      BY <1>i, <3>3, <3>5, <3>6 DEF CodesKnow, Issued
    <3>. QED
      BY <1>2, <1>n, <1>t, <1>r, <2>3, <3>1, <3>3, <3>4, <3>7, <3>8
      DEF StoreCode, SignInInv, Issues
  <2>. QED BY <1>2, <2>2, <2>3 DEF StoreCode
<1>3. ASSUME NEW d \in Doors, MailCode(d) PROVE SignInInv'
  <2>1. door[d].issue \in Issues
    BY <1>3, <1>i, <1>n, <1>t DEF MailCode, At, DoorsKnow, Issued, Issues
  <2>. QED
    BY <1>3, <1>t, <1>i, <1>r, <2>1, ReturnMoves
    DEF MailCode, SignInInv, DoorsKnow, CodesKnow, Issued
<1>4. ASSUME NEW d \in Doors, NEW b \in Browsers, NEW m \in Emails, Login(d, b, m)
      PROVE  SignInInv'
  <2>1. PICK c \in Codes :
          door' = [door EXCEPT ![d] =
            [pc |-> "compare", email |-> m, browser |-> b, code |-> c, issue |-> 0]]
    BY <1>4 DEF Login
  <2> DEFINE x == [pc |-> "compare", email |-> m, browser |-> b, code |-> c, issue |-> 0]
  <2>2. x \in Holding /\ x.pc = "compare"
    BY DEF Holding, LoggingIn
  <2>3. /\ door' \in [Doors -> Holding] /\ door'[d].pc = "compare"
        /\ \A e \in Doors \ {d} : door'[e] = door[e]
    BY <2>1, <2>2, DoorMoves
  <2>. QED
    BY <1>4, <1>t, <1>i, <1>r, <2>3 DEF Login, SignInInv, DoorsKnow, CodesKnow, Issued
<1>5. ASSUME NEW d \in Doors, CompareCode(d) PROVE SignInInv'
  <2> DEFINE m == door[d].email
  <2>1. m \in Emails
    BY <1>5, LoggingInAt DEF CompareCode, At, LoggingIn
  <2>2. CASE Return(d) /\ UNCHANGED doubtful
    BY <1>5, <1>t, <1>i, <1>r, <2>2, ReturnMoves
    DEF CompareCode, SignInInv, DoorsKnow, CodesKnow, Issued
  <2>3. CASE /\ Matches(m, door[d].code)
             /\ door' = [door EXCEPT ![d].pc = "spend", ![d].issue = codes[m].issue]
             /\ doubtful' = IF \E e \in Matched : door[e].issue = codes[m].issue
                              THEN doubtful \cup {codes[m].issue} ELSE doubtful
    <3>1. codes[m].issue \in Issues /\ Issued(codes[m].issue, m)
      BY <2>1, <2>3, KeptCode DEF Matches, Lives
    <3>2. /\ door' \in [Doors -> Holding] /\ door'[d].pc = "spend"
          /\ door'[d].email = m /\ door'[d].issue = codes[m].issue
          /\ \A e \in Doors \ {d} : door'[e] = door[e]
      BY <1>5, <2>3, <3>1, MatchMoves DEF CompareCode
    <3>3. DoorsKnow' /\ CodesKnow'
      BY <1>5, <1>i, <3>1, <3>2 DEF CompareCode, DoorsKnow, CodesKnow, Issued
    <3>4. doubtful' \subseteq Issues
      BY <1>t, <2>3, <3>1
    <3>. QED BY <1>5, <1>t, <1>r, <3>2, <3>3, <3>4 DEF CompareCode, SignInInv
  <2>. QED BY <1>5, <2>2, <2>3 DEF CompareCode
<1>6. ASSUME NEW d \in Doors, SpendCode(d) PROVE SignInInv'
  <2>1. d \in Matched
    BY <1>6 DEF SpendCode, At, Matched
  <2>2. /\ door[d].email \in Emails /\ door[d].issue \in Issues
        /\ Issued(door[d].issue, door[d].email)
    BY <2>1, InHand
  <2>3. /\ door' \in [Doors -> Holding] /\ door'[d].pc = "find"
        /\ door'[d].email = door[d].email /\ door'[d].issue = door[d].issue
        /\ \A e \in Doors \ {d} : door'[e] = door[e]
    BY <1>6, GotoMoves DEF SpendCode, At
  <2>4. UNCHANGED <<issued, users, sessions, mailed, signIns>>
    BY <1>6 DEF SpendCode
  <2>5. DoorsKnow'
    BY <1>i, <2>2, <2>3, <2>4 DEF DoorsKnow, Issued
  <2>6. CASE /\ codes' = [codes EXCEPT ![door[d].email] = None]
             /\ unlucky' = IF codes[door[d].email] # None /\ codes[door[d].email].issue # door[d].issue
                             THEN unlucky \cup {codes[door[d].email].issue} ELSE unlucky
             /\ UNCHANGED doubtful
    <3>1. codes' \in [Emails -> Kept \cup {None}] /\ CodesKnow'
      BY <1>t, <1>i, <2>2, <2>4, <2>6 DEF CodesKnow, Issued
    <3>2. unlucky' \subseteq Issues
      BY <1>t, <2>2, <2>6, KeptCode
    <3>. QED BY <1>t, <1>r, <2>3, <2>4, <2>5, <2>6, <3>1, <3>2 DEF SignInInv
  <2>7. CASE doubtful' = doubtful \cup {door[d].issue} /\ UNCHANGED <<codes, unlucky>>
    <3>1. CodesKnow'
      BY <1>i, <2>4, <2>7 DEF CodesKnow, Issued
    <3>. QED BY <1>t, <1>r, <2>2, <2>3, <2>4, <2>5, <2>7, <3>1 DEF SignInInv
  <2>. QED BY <1>6, <2>6, <2>7 DEF SpendCode
<1>7. ASSUME NEW d \in Doors, LoginFails(d), d \in Matched,
             UNCHANGED <<codes, issued, sessions, mailed, signIns, doubtful>>,
             users' \subseteq Emails
      PROVE  SignInInv'
  <2>1. door[d].issue \in Issues
    BY <1>7, InHand
  <2>2. /\ door' \in [Doors -> Holding] /\ door'[d].pc = "idle"
        /\ \A e \in Doors \ {d} : door'[e] = door[e]
    BY <1>7, ReturnMoves DEF LoginFails, Matched
  <2>. QED
    BY <1>7, <1>t, <1>i, <1>r, <2>1, <2>2
    DEF LoginFails, SignInInv, DoorsKnow, CodesKnow, Issued
<1>8. ASSUME NEW d \in Matched, NEW step \in {"create", "session"}, Goto(d, step),
             UNCHANGED <<codes, issued, sessions, mailed, signIns, doubtful, unlucky>>,
             users' \subseteq Emails
      PROVE  SignInInv'
  <2>1. d \in Doors /\ Issued(door[d].issue, door[d].email)
    BY InHand
  <2>2. /\ door' \in [Doors -> Holding] /\ door'[d].pc = step
        /\ door'[d].email = door[d].email /\ door'[d].issue = door[d].issue
        /\ \A e \in Doors \ {d} : door'[e] = door[e]
    BY <1>8, <2>1, GotoMoves DEF Matched
  <2>. QED
    BY <1>8, <1>t, <1>i, <1>r, <2>1, <2>2 DEF SignInInv, DoorsKnow, CodesKnow, Issued
<1>9. ASSUME NEW d \in Doors, FindUser(d) PROVE SignInInv'
  <2>1. d \in Matched
    BY <1>9 DEF FindUser, At, Matched
  <2>. QED BY <1>7, <1>8, <1>9, <1>t, <2>1 DEF FindUser
<1>10. ASSUME NEW d \in Doors, CreateUser(d) PROVE SignInInv'
  <2>1. d \in Matched /\ door[d].email \in Emails
    BY <1>10, InHand DEF CreateUser, At, Matched
  <2>. QED BY <1>7, <1>8, <1>10, <1>t, <2>1 DEF CreateUser
<1>11. ASSUME NEW d \in Doors, SaveSession(d) PROVE SignInInv'
  <2> DEFINE x == door[d]
  <2>1. d \in Matched
    BY <1>11 DEF SaveSession, At, Matched
  <2>2. x.email \in Emails /\ x.browser \in Browsers /\ x.issue \in Issues
    BY <2>1, InHand
  <2>3. CASE LoginFails(d) /\ UNCHANGED <<sessions, signIns>>
    BY <1>7, <1>11, <1>t, <2>1, <2>3 DEF SaveSession
  <2>4. CASE /\ sessions' = [sessions EXCEPT ![x.browser] = x.email]
             /\ signIns' = [signIns EXCEPT ![x.issue] = @ + 1]
             /\ Return(d) /\ UNCHANGED unlucky
    <3>1. /\ door' \in [Doors -> Holding] /\ door'[d].pc = "idle"
          /\ \A e \in Doors \ {d} : door'[e] = door[e]
      BY <2>4, ReturnMoves
    <3>2. sessions' \in [Browsers -> Emails \cup {None}] /\ signIns' \in [Issues -> Nat]
      BY <1>t, <2>2, <2>4
    <3>3. DoorsKnow' /\ CodesKnow'
      BY <1>11, <1>i, <3>1 DEF SaveSession, DoorsKnow, CodesKnow, Issued
    <3>. QED BY <1>11, <1>t, <1>r, <2>4, <3>1, <3>2, <3>3 DEF SaveSession, SignInInv
  <2>. QED BY <1>11, <2>3, <2>4 DEF SaveSession
<1>12. ASSUME NEW b \in Browsers, Logout(b) PROVE SignInInv'
  <2>1. door' \in [Doors -> Holding]
    BY <1>12 DEF Logout, SignInInv, SignInTypeOK, Holding
  <2>. QED
    BY <1>12, <1>t, <1>i, <1>r, <2>1 DEF Logout, SignInInv, DoorsKnow, CodesKnow, Issued
<1>. QED
  BY <1>1, <1>2, <1>3, <1>4, <1>5, <1>6, <1>9, <1>10, <1>11, <1>12 DEF SignInStep

(***************************************************************************)
(* Type correctness of the tickets: a goroutine that tells the team of a   *)
(* ticket tells them of one in the table.                                  *)
(***************************************************************************)
ClerksKnow ==
  \A c \in Clerks : clerk[c].pc = "announce" => clerk[c].ticket \in 1 .. Len(tickets)

TicketInv ==
  /\ tickets \in Seq(Ticket) /\ Len(tickets) <= MaxTickets
  /\ clerk \in [Clerks -> Filing \cup {Free}]
  /\ announced \subseteq 1 .. Len(tickets)
  /\ unheard \subseteq 1 .. Len(tickets)
  /\ ClerksKnow

TypeInv == ServedInv /\ SignInInv /\ TicketInv

\* A goroutine that serves a ticket.
LEMMA FilingAt ==
  ASSUME TicketInv, NEW c \in Clerks, clerk[c].pc # "free"
  PROVE  clerk[c] \in Filing
  BY DEF TicketInv, Free

\* One goroutine takes a step.
LEMMA ClerkMoves ==
  ASSUME TicketInv, NEW c \in Clerks, NEW x \in Filing \cup {Free}, clerk' = [clerk EXCEPT ![c] = x]
  PROVE  /\ clerk' \in [Clerks -> Filing \cup {Free}]
         /\ clerk'[c] = x
         /\ \A e \in Clerks \ {c} : clerk'[e] = clerk[e]
  BY DEF TicketInv

\* It ends.
LEMMA LeaveMoves ==
  ASSUME TicketInv, NEW c \in Clerks, Leave(c)
  PROVE  /\ clerk' \in [Clerks -> Filing \cup {Free}]
         /\ clerk'[c].pc = "free"
         /\ \A e \in Clerks \ {c} : clerk'[e] = clerk[e]
<1>1. Free.pc = "free"
  BY DEF Free
<1>. QED BY <1>1, ClerkMoves DEF Leave

\* The table grows by one ticket.
LEMMA TableGrows ==
  ASSUME TicketInv, NEW ticket \in Ticket, tickets' = Append(tickets, ticket)
  PROVE  /\ Len(tickets) \in Nat /\ Len(tickets') = Len(tickets) + 1
         /\ tickets' \in Seq(Ticket) /\ tickets'[Len(tickets) + 1] = ticket
         /\ \A t \in 1 .. Len(tickets) : tickets'[t] = tickets[t]
         /\ 1 .. Len(tickets) \subseteq 1 .. Len(tickets')
         /\ Len(tickets) + 1 \in 1 .. Len(tickets')
<1>1. /\ Len(tickets) \in Nat /\ Len(tickets') = Len(tickets) + 1
      /\ tickets' \in Seq(Ticket) /\ tickets'[Len(tickets) + 1] = ticket
      /\ \A t \in 1 .. Len(tickets) : tickets'[t] = tickets[t]
  BY DEF TicketInv
<1>. QED BY <1>1

\* Every step of a ticket keeps the tickets' types.
LEMMA TicketSteps ==
  ASSUME SignInInv, TicketInv, TicketStep
  PROVE  TicketInv'
<1>s. sessions \in [Browsers -> Emails \cup {None}]
  BY DEF SignInInv, SignInTypeOK
<1>t. /\ tickets \in Seq(Ticket) /\ Len(tickets) <= MaxTickets /\ MaxTickets \in Nat
      /\ announced \subseteq 1 .. Len(tickets) /\ unheard \subseteq 1 .. Len(tickets)
      /\ Len(tickets) \in Nat
  BY TicketAssumption DEF TicketInv
<1>i. ClerksKnow
  BY DEF TicketInv
<1>1. ASSUME NEW c \in Clerks, NEW b \in Browsers, CreateTicket(c, b) PROVE TicketInv'
  <2> DEFINE x == [pc |-> "read", browser |-> b, author |-> None, ticket |-> 0]
  <2>1. x \in Filing /\ x.pc = "read"
    BY <1>t DEF Filing
  <2>2. /\ clerk' \in [Clerks -> Filing \cup {Free}] /\ clerk'[c].pc = "read"
        /\ \A e \in Clerks \ {c} : clerk'[e] = clerk[e]
    BY <1>1, <2>1, ClerkMoves DEF CreateTicket
  <2>. QED BY <1>1, <1>t, <1>i, <2>2 DEF CreateTicket, TicketInv, ClerksKnow
<1>2. ASSUME NEW c \in Clerks, ReadSession(c) PROVE TicketInv'
  <2>1. clerk[c] \in Filing /\ clerk[c].browser \in Browsers
    BY <1>2, FilingAt DEF ReadSession, Filing
  <2>2. CASE Leave(c)
    BY <1>2, <1>t, <1>i, <2>2, LeaveMoves DEF ReadSession, TicketInv, ClerksKnow
  <2>3. ASSUME NEW author \in {sessions[clerk[c].browser], None},
               clerk' = [clerk EXCEPT ![c].pc = "insert", ![c].author = author]
        PROVE  TicketInv'
    <3> DEFINE x == [clerk[c] EXCEPT !.pc = "insert", !.author = author]
    <3>1. x \in Filing /\ x.pc = "insert"
      BY <1>s, <2>1 DEF Filing
    <3>2. clerk' = [clerk EXCEPT ![c] = x]
      BY <2>3
    <3>3. /\ clerk' \in [Clerks -> Filing \cup {Free}] /\ clerk'[c].pc = "insert"
          /\ \A e \in Clerks \ {c} : clerk'[e] = clerk[e]
      BY <3>1, <3>2, ClerkMoves
    <3>. QED BY <1>2, <1>t, <1>i, <3>3 DEF ReadSession, TicketInv, ClerksKnow
  <2>. QED BY <1>2, <2>2, <2>3 DEF ReadSession
<1>3. ASSUME NEW c \in Clerks, InsertTicket(c) PROVE TicketInv'
  <2> DEFINE t == Len(tickets) + 1
  <2>1. clerk[c] \in Filing /\ NewTicket(clerk[c].author) \in Ticket
    BY <1>3, FilingAt DEF InsertTicket, Filing, NewTicket, Ticket, Statuses
  <2>2. CASE Leave(c) /\ UNCHANGED <<tickets, unheard>>
    BY <1>3, <1>t, <1>i, <2>2, LeaveMoves DEF InsertTicket, TicketInv, ClerksKnow
  <2>3. CASE /\ t <= MaxTickets
             /\ tickets' = Append(tickets, NewTicket(clerk[c].author))
             /\ \/ /\ clerk' = [clerk EXCEPT ![c].pc = "announce", ![c].ticket = t]
                   /\ UNCHANGED unheard
                \/ Leave(c) /\ unheard' = unheard \cup {t}
    <3>1. /\ Len(tickets') = t /\ tickets' \in Seq(Ticket)
          /\ 1 .. Len(tickets) \subseteq 1 .. Len(tickets') /\ t \in 1 .. Len(tickets')
      BY <2>1, <2>3, TableGrows
    <3> DEFINE x == [clerk[c] EXCEPT !.pc = "announce", !.ticket = t]
    <3>2. x \in Filing /\ x.ticket = t
      <4>1. t \in 0 .. MaxTickets
        BY <1>t, <2>3
      <4> HIDE DEF t
      <4>. QED BY <2>1, <4>1 DEF Filing
    <3>3. /\ clerk' \in [Clerks -> Filing \cup {Free}]
          /\ \A e \in Clerks \ {c} : clerk'[e] = clerk[e]
          /\ clerk'[c].pc = "announce" => clerk'[c].ticket = t
      <4>1. CASE clerk' = [clerk EXCEPT ![c].pc = "announce", ![c].ticket = t]
        <5>1. clerk' = [clerk EXCEPT ![c] = x]
          BY <4>1
        <5> HIDE DEF x
        <5>. QED BY <3>2, <5>1, ClerkMoves
      <4>2. CASE Leave(c)
        BY <4>2, LeaveMoves
      <4>. QED BY <2>3, <4>1, <4>2
    <3>4. ClerksKnow'
      BY <1>i, <3>1, <3>3 DEF ClerksKnow
    <3>5. unheard' \subseteq 1 .. Len(tickets') /\ announced' \subseteq 1 .. Len(tickets')
      BY <1>3, <1>t, <2>3, <3>1 DEF InsertTicket
    <3>. QED BY <2>3, <3>1, <3>3, <3>4, <3>5 DEF TicketInv
  <2>. QED BY <1>3, <2>2, <2>3 DEF InsertTicket
<1>4. ASSUME NEW c \in Clerks, Announce(c) PROVE TicketInv'
  <2>1. clerk[c].ticket \in 1 .. Len(tickets)
    BY <1>4, <1>i DEF Announce, ClerksKnow
  <2>. QED BY <1>4, <1>t, <1>i, <2>1, LeaveMoves DEF Announce, TicketInv, ClerksKnow
<1>5. ASSUME NEW t \in DOMAIN tickets, AdminUpdateTicketStatus(t) PROVE TicketInv'
  <2>1. PICK status \in Statuses : tickets' = [tickets EXCEPT ![t].status = status]
    BY <1>5 DEF AdminUpdateTicketStatus
  <2>2. t \in 1 .. Len(tickets) /\ tickets[t] \in Ticket
    BY <1>t
  <2>3. [tickets[t] EXCEPT !.status = status] \in Ticket
    BY <2>2 DEF Ticket
  <2>4. tickets' \in Seq(Ticket) /\ Len(tickets') = Len(tickets)
    BY <1>t, <2>1, <2>2, <2>3
  <2>. QED BY <1>5, <1>t, <1>i, <2>4 DEF AdminUpdateTicketStatus, TicketInv, ClerksKnow
<1>. QED
  BY <1>1, <1>2, <1>3, <1>4, <1>5 DEF TicketStep

\* The initial states have the types, and no goroutine is at work.
LEMMA TypeInit == Init => SignInInv /\ TicketInv
<1> SUFFICES ASSUME Init PROVE SignInInv /\ TicketInv
  OBVIOUS
<1>1. LimiterTypeOK
  BY LimiterAssumption DEF Init, SignInInit, LimiterInit, LimiterTypeOK
<1>2. SignInTypeOK
  BY <1>1, SignInAssumption DEF Init, SignInInit, SignInTypeOK, Idle
<1>3. DoorsKnow /\ CodesKnow
  BY DEF Init, SignInInit, DoorsKnow, CodesKnow, Idle
<1>4. TicketInv
  BY TicketAssumption DEF Init, TicketInv, ClerksKnow, Free
<1>. QED BY <1>2, <1>3, <1>4 DEF SignInInv

\* Every step keeps the types.
LEMMA TypeStep ==
  ServedInv /\ SignInInv /\ TicketInv /\ ServedInv' /\ [Next]_vars => SignInInv' /\ TicketInv'
<1> SUFFICES ASSUME ServedInv, SignInInv, TicketInv, ServedInv', [Next]_vars
             PROVE  SignInInv' /\ TicketInv'
  OBVIOUS
<1>1. clock \in Nat /\ LimiterTypeOK'
  BY ServerAssumption DEF ServedInv, ServerTypeOK
<1>2. CASE SignInStep /\ UNCHANGED <<serverVars, ticketVars>>
  <2>1. SignInInv'
    BY <1>1, <1>2, SignInSteps
  <2>. QED BY <1>2, <2>1 DEF ticketVars, TicketInv, ClerksKnow
<1>3. ASSUME UNCHANGED <<codes, users, sessions, door, issued, mailed, signIns, doubtful, unlucky>>
      PROVE  SignInInv'
  BY <1>1, <1>3 DEF SignInInv, SignInTypeOK, DoorsKnow, CodesKnow, Issued
<1>4. CASE TicketStep /\ UNCHANGED serverVars
  BY <1>3, <1>4, TicketSteps DEF TicketStep
<1>5. CASE (Tick /\ UNCHANGED <<signInVars, ticketVars>>) \/ UNCHANGED vars
  BY <1>3, <1>5 DEF vars, signInVars, ticketVars, TicketInv, ClerksKnow
<1>6. CASE Restart /\ LoseDoors /\ LoseClerks
  <2>1. \A d \in Matched : door[d].issue \in Issues
    BY InHand
  <2>2. SignInInv'
    <3>1. Idle.pc = "idle"
      BY DEF Idle
    <3>2. door' \in [Doors -> Holding] /\ \A d \in Doors : door'[d].pc = "idle"
      BY <1>6, <3>1 DEF LoseDoors, Holding
    <3>3. unlucky' \subseteq Issues
      BY <1>6, <2>1 DEF LoseDoors, SignInInv, SignInTypeOK
    <3>. QED
      BY <1>1, <1>6, <3>2, <3>3
      DEF LoseDoors, SignInInv, SignInTypeOK, Holding, DoorsKnow, CodesKnow, Issued
  <2>3. TicketInv'
    <3>1. Free.pc = "free"
      BY DEF Free
    <3>2. clerk' \in [Clerks -> Filing \cup {Free}] /\ \A c \in Clerks : clerk'[c].pc = "free"
      BY <1>6, <3>1 DEF LoseClerks
    <3>3. unheard' \subseteq 1 .. Len(tickets)
      BY <1>6 DEF LoseClerks, TicketInv, ClerksKnow
    <3>. QED BY <1>6, <3>2, <3>3 DEF LoseClerks, TicketInv, ClerksKnow
  <2>. QED BY <2>2, <2>3
<1>. QED
  BY <1>2, <1>4, <1>5, <1>6 DEF Next

\* For the sections below: the strengthened form.
LEMMA TypeInvariant == Spec => []TypeInv
<1>1. Init => SignInInv /\ TicketInv
  BY TypeInit
<1>2. ServedInv /\ SignInInv /\ TicketInv /\ ServedInv' /\ [Next]_vars => SignInInv' /\ TicketInv'
  BY TypeStep
<1>. QED BY <1>1, <1>2, ServedInvariant, PTL DEF Spec, TypeInv

\* Every reachable state has the types of TypeOK.
THEOREM TypeCorrect == Spec => []TypeOK
<1>1. TypeInv => TypeOK
  <2>1. ASSUME TicketInv PROVE DOMAIN tickets = 1 .. Len(tickets)
    BY <2>1 DEF TicketInv
  <2>. QED BY <2>1 DEF TypeInv, ServedInv, SignInInv, TicketInv, TypeOK
<1>. QED BY TypeInvariant, <1>1, PTL

(***************************************************************************)
(* What only ever grows, and what most steps leave of the codes and of the *)
(* goroutines that have matched one.                                       *)
(***************************************************************************)
Grows ==
  /\ users \subseteq users' /\ doubtful \subseteq doubtful' /\ unlucky \subseteq unlucky'
  /\ Len(issued) <= Len(issued') /\ \A i \in 1 .. Len(issued) : issued'[i] = issued[i]
  /\ \A i \in Issues : signIns[i] <= signIns'[i]

\* Users, codes issued, sign-ins and accidents are not taken back.
LEMMA StepGrows ==
  ASSUME SignInInv, [Next]_vars
  PROVE  Grows
<1>t. issued \in Seq(Emails) /\ Len(issued) \in Nat /\ signIns \in [Issues -> Nat]
  BY DEF SignInInv, SignInTypeOK
<1>1. ASSUME UNCHANGED <<users, issued, signIns, doubtful, unlucky>> PROVE Grows
  BY <1>t, <1>1 DEF Grows
<1>2. ASSUME NEW d \in Doors,
             \/ MailCode(d) \/ (\E m \in Emails : SendCode(d, m) \/ \E b \in Browsers : Login(d, b, m))
      PROVE  Grows
  BY <1>1, <1>2 DEF MailCode, SendCode, Login
<1>3. ASSUME NEW d \in Doors, StoreCode(d) PROVE Grows
  <2>1. door[d].email \in Emails
    BY <1>3, SendingAt DEF StoreCode, At, Sending
  <2>2. issued' = issued \/ issued' = Append(issued, door[d].email)
    BY <1>3 DEF StoreCode
  <2>. QED BY <1>t, <1>3, <2>1, <2>2 DEF StoreCode, Grows
<1>4. ASSUME NEW d \in Doors, CompareCode(d) \/ SpendCode(d) \/ FindUser(d) \/ CreateUser(d)
      PROVE  Grows
  BY <1>t, <1>4 DEF CompareCode, SpendCode, FindUser, CreateUser, LoginFails, Grows
<1>5. ASSUME NEW d \in Doors, SaveSession(d) PROVE Grows
  <2>1. \/ signIns' = signIns
        \/ signIns' = [signIns EXCEPT ![door[d].issue] = @ + 1]
    BY <1>5 DEF SaveSession
  <2>2. \A i \in Issues : signIns[i] <= signIns'[i]
    BY <1>t, <2>1
  <2>. QED BY <1>t, <1>5, <2>2 DEF SaveSession, LoginFails, Grows
<1>6. CASE SignInStep
  BY <1>1, <1>2, <1>3, <1>4, <1>5, <1>6 DEF SignInStep, Logout
<1>7. CASE TicketStep \/ (Tick /\ UNCHANGED <<signInVars, ticketVars>>) \/ UNCHANGED vars
  BY <1>1, <1>7 DEF TicketStep, vars, signInVars
<1>8. CASE Restart /\ LoseDoors /\ LoseClerks
  BY <1>t, <1>8 DEF LoseDoors, Grows
<1>. QED
  BY <1>6, <1>7, <1>8 DEF Next

(***************************************************************************)
(* One sign-in per code.  Unless it is doubtful, one goroutine at most has *)
(* matched a code; once that goroutine is past the deletion, or has signed *)
(* somebody in, the code is gone and cannot be matched again.              *)
(***************************************************************************)
Holds(d, i) ==
  door[d].pc \in {"spend", "find", "create", "session"} /\ door[d].issue = i

Spent(d, i) == door[d].pc \in {"find", "create", "session"} /\ door[d].issue = i

Gone(i) == \A m \in Emails : codes[m] = None \/ codes[m].issue # i

OneUse(i) ==
  /\ signIns[i] <= 1
  /\ \A d, e \in Doors : Holds(d, i) /\ Holds(e, i) => d = e
  /\ \A d \in Doors : Holds(d, i) => signIns[i] = 0
  /\ \A d \in Doors : Spent(d, i) => Gone(i)
  /\ signIns[i] > 0 => Gone(i)

UseInv ==
  /\ \A i \in Issues : signIns[i] > 0 => i <= Len(issued)
  /\ \A i \in Issues \ doubtful : OneUse(i)

\* No code has been matched yet.
LEMMA UseInit == Init => UseInv
  BY SignInAssumption
  DEF Init, SignInInit, UseInv, OneUse, Holds, Spent, Gone, Idle, Issues

\* A step after which nobody has matched a code who had not before, and a code
\* that was gone is still gone.
LEMMA UseRests ==
  ASSUME SignInInv, UseInv, Grows, UNCHANGED signIns,
         \A d \in Doors, i \in Issues : Holds(d, i)' => Holds(d, i),
         \A d \in Doors, i \in Issues \ doubtful' : Spent(d, i)' => Spent(d, i) \/ Gone(i)',
         \A i \in 1 .. Len(issued) : Gone(i) => Gone(i)'
  PROVE  UseInv'
<1>t. /\ Len(issued) \in Nat /\ Len(issued') \in Nat /\ MaxIssues \in Nat
      /\ signIns \in [Issues -> Nat]
  BY SignInAssumption DEF SignInInv, SignInTypeOK, Grows
<1>1. \A i \in Issues : signIns'[i] > 0 => i <= Len(issued')
  BY <1>t DEF UseInv, Grows, Issues
<1>2. ASSUME NEW i \in Issues \ doubtful' PROVE OneUse(i)'
  <2>1. OneUse(i)
    BY DEF UseInv, Grows
  <2>2. \A d \in Doors : Spent(d, i) => i \in 1 .. Len(issued)
    BY DEF SignInInv, DoorsKnow, Spent, Issued
  <2>3. signIns[i] > 0 => i \in 1 .. Len(issued)
    BY <1>t DEF UseInv, Issues
  <2>4. \A d \in Doors : Spent(d, i)' => Gone(i)'
    BY <2>1, <2>2 DEF OneUse
  <2>5. signIns'[i] > 0 => Gone(i)'
    BY <2>1, <2>3 DEF OneUse
  <2>. QED BY <2>1, <2>4, <2>5 DEF OneUse
<1>. QED BY <1>1, <1>2 DEF UseInv

\* A call of Login fails after the comparison.
LEMMA UseLoginFails ==
  ASSUME SignInInv, UseInv, Grows, NEW d \in Matched, LoginFails(d),
         UNCHANGED <<codes, issued, signIns, doubtful>>
  PROVE  UseInv'
<1>1. d \in Doors
  BY DEF Matched
<1>2. door'[d].pc = "idle" /\ \A e \in Doors \ {d} : door'[e] = door[e]
  BY <1>1, ReturnMoves DEF LoginFails
<1>3. \A e \in Doors, i \in Issues : Holds(e, i)' => Holds(e, i)
  BY <1>2 DEF Holds
<1>4. \A e \in Doors, i \in Issues : Spent(e, i)' => Spent(e, i)
  BY <1>2 DEF Spent
<1>5. \A i : Gone(i) => Gone(i)'
  BY DEF Gone
<1>. QED BY <1>3, <1>4, <1>5, UseRests

\* Login goes on to its next call.
LEMMA UseGoesOn ==
  ASSUME SignInInv, UseInv, Grows, NEW d \in Matched, NEW step \in {"create", "session"},
         door[d].pc \in {"find", "create"}, Goto(d, step),
         UNCHANGED <<codes, issued, signIns, doubtful>>
  PROVE  UseInv'
<1>1. d \in Doors
  BY DEF Matched
<1>2. /\ door'[d].pc = step /\ door'[d].issue = door[d].issue
      /\ \A e \in Doors \ {d} : door'[e] = door[e]
  BY <1>1, GotoMoves
<1>3. \A e \in Doors, i \in Issues : Holds(e, i)' => Holds(e, i)
  BY <1>2 DEF Holds
<1>4. \A e \in Doors, i \in Issues : Spent(e, i)' => Spent(e, i)
  BY <1>2 DEF Spent
<1>5. \A i : Gone(i) => Gone(i)'
  BY DEF Gone
<1>. QED BY <1>3, <1>4, <1>5, UseRests

\* Every step of the sign-in keeps one use per code.
LEMMA UseSteps ==
  ASSUME SignInInv, UseInv, Grows, SignInStep
  PROVE  UseInv'
<1>t. /\ Len(issued) \in Nat /\ signIns \in [Issues -> Nat]
      /\ codes \in [Emails -> Kept \cup {None}]
  BY DEF SignInInv, SignInTypeOK
<1>c. ASSUME UNCHANGED codes PROVE \A i : Gone(i) => Gone(i)'
  BY <1>c DEF Gone
<1>1. ASSUME NEW d \in Doors, NEW m \in Emails,
             SendCode(d, m) \/ \E b \in Browsers : Login(d, b, m)
      PROVE  UseInv'
  <2>1. /\ door'[d].pc \in {"store", "compare"}
        /\ \A e \in Doors \ {d} : door'[e] = door[e]
    BY <1>1 DEF SendCode, Login, SignInInv, SignInTypeOK
  <2>2. UNCHANGED <<codes, signIns>>
    BY <1>1 DEF SendCode, Login
  <2>. QED BY <1>c, <2>1, <2>2, UseRests DEF Holds, Spent
<1>2. ASSUME NEW d \in Doors, StoreCode(d) PROVE UseInv'
  <2>1. /\ door'[d].pc \in {"mail", "idle"}
        /\ \A e \in Doors \ {d} : door'[e] = door[e]
    <3>1. CASE Return(d)
      BY <3>1, ReturnMoves
    <3>2. CASE /\ Len(issued) + 1 \in Issues
               /\ door' = [door EXCEPT ![d].pc = "mail", ![d].issue = Len(issued) + 1]
      BY <1>2, <3>2, StoreMoves DEF StoreCode
    <3>. QED BY <1>2, <3>1, <3>2 DEF StoreCode
  <2>2. ASSUME NEW i \in 1 .. Len(issued), Gone(i) PROVE Gone(i)'
    <3>1. CASE UNCHANGED codes
      BY <2>2, <3>1, <1>c
    <3>2. ASSUME NEW c \in Codes,
                 codes' = [codes EXCEPT ![door[d].email] =
                   [code |-> c, issue |-> Len(issued) + 1, until |-> clock + CodeLife]]
          PROVE  Gone(i)'
      BY <1>t, <2>2, <3>2 DEF Gone
    <3>. QED BY <1>2, <3>1, <3>2 DEF StoreCode
  <2>3. UNCHANGED signIns
    BY <1>2 DEF StoreCode
  <2>. QED BY <2>1, <2>2, <2>3, UseRests DEF Holds, Spent
<1>3. ASSUME NEW d \in Doors, MailCode(d) PROVE UseInv'
  <2>1. door'[d].pc = "idle" /\ \A e \in Doors \ {d} : door'[e] = door[e]
    BY <1>3, ReturnMoves DEF MailCode
  <2>. QED BY <1>3, <1>c, <2>1, UseRests DEF MailCode, Holds, Spent
<1>4. ASSUME NEW d \in Doors, CompareCode(d) PROVE UseInv'
  <2> DEFINE m == door[d].email
  <2>1. UNCHANGED <<codes, signIns>>
    BY <1>4 DEF CompareCode
  <2>2. CASE Return(d)
    <3>1. door'[d].pc = "idle" /\ \A e \in Doors \ {d} : door'[e] = door[e]
      BY <2>2, ReturnMoves
    <3>. QED BY <1>c, <2>1, <3>1, UseRests DEF Holds, Spent
  <2>3. CASE /\ Matches(m, door[d].code)
             /\ door' = [door EXCEPT ![d].pc = "spend", ![d].issue = codes[m].issue]
             /\ doubtful' = IF \E e \in Matched : door[e].issue = codes[m].issue
                              THEN doubtful \cup {codes[m].issue} ELSE doubtful
    <3> DEFINE j == codes[m].issue
    <3>1. m \in Emails
      BY <1>4, LoggingInAt DEF CompareCode, At, LoggingIn
    <3>2. codes[m] # None /\ j \in Issues
      BY <2>3, <3>1, KeptCode DEF Matches, Lives
    <3>3. /\ door'[d].pc = "spend" /\ door'[d].issue = j
          /\ \A e \in Doors \ {d} : door'[e] = door[e]
      BY <1>4, <2>3, <3>2, MatchMoves DEF CompareCode
    <3>4. ASSUME NEW i \in Issues \ doubtful' PROVE OneUse(i)'
      <4>1. OneUse(i)
        BY DEF UseInv, Grows
      <4>2. Gone(i)' <=> Gone(i)
        BY <2>1 DEF Gone
      <4>3. \A e \in Doors : Spent(e, i)' => Spent(e, i)
        BY <3>3 DEF Spent
      <4>4. CASE i = j
        <5>1. ~ Gone(i)
          BY <3>1, <3>2, <4>4 DEF Gone
        <5>2. \A e \in Doors : ~ Holds(e, i)
          BY <2>3, <4>4 DEF Holds, Matched
        <5>3. \A e \in Doors : Holds(e, i)' => e = d
          BY <3>3, <5>2 DEF Holds
        <5>4. signIns[i] = 0
          BY <1>t, <4>1, <5>1 DEF OneUse
        <5>. QED BY <2>1, <4>1, <4>2, <4>3, <5>3, <5>4 DEF OneUse
      <4>5. CASE i # j
        <5>1. \A e \in Doors : Holds(e, i)' => Holds(e, i)
          BY <3>3, <4>5 DEF Holds
        <5>. QED BY <2>1, <4>1, <4>2, <4>3, <5>1 DEF OneUse
      <4>. QED BY <4>4, <4>5
    <3>. QED BY <2>1, <1>4, <3>4 DEF UseInv, CompareCode
  <2>. QED BY <1>4, <2>2, <2>3 DEF CompareCode
<1>5. ASSUME NEW d \in Doors, SpendCode(d) PROVE UseInv'
  <2> DEFINE m == door[d].email
             j == door[d].issue
  <2>1. d \in Matched /\ At(d, "spend")
    BY <1>5 DEF SpendCode, At, Matched
  <2>2. m \in Emails /\ j \in Issues /\ Issued(j, m)
    BY <2>1, InHand
  <2>3. /\ door'[d].pc = "find" /\ door'[d].issue = j
        /\ \A e \in Doors \ {d} : door'[e] = door[e]
    BY <1>5, GotoMoves DEF SpendCode, At
  <2>4. \A e \in Doors, i \in Issues : Holds(e, i)' => Holds(e, i)
    BY <2>1, <2>3 DEF Holds, At
  <2>5. \A e \in Doors, i \in Issues : Spent(e, i)' => Spent(e, i) \/ i = j
    BY <2>3 DEF Spent
  <2>6. UNCHANGED signIns
    BY <1>5 DEF SpendCode
  <2>7. CASE codes' = [codes EXCEPT ![m] = None]
    <3>1. \A i : Gone(i) => Gone(i)'
      BY <1>t, <2>7 DEF Gone
    <3>2. ASSUME NEW i \in Issues, i = j PROVE Gone(i)'
      <4>1. issued[i] = m
        BY <2>2, <3>2 DEF Issued
      <4>2. \A o \in Emails \ {m} : codes'[o] = codes[o]
        BY <1>t, <2>7
      <4>3. codes'[m] = None
        BY <1>t, <2>2, <2>7
      <4>4. \A o \in Emails : codes[o] # None => issued[codes[o].issue] = o
        BY DEF SignInInv, CodesKnow, Issued
      <4>. QED BY <4>1, <4>2, <4>3, <4>4 DEF Gone
    <3>3. \A e \in Doors, i \in Issues : Spent(e, i)' => Spent(e, i) \/ Gone(i)'
      BY <2>5, <3>2
    <3>. QED BY <2>4, <2>6, <3>1, <3>3, UseRests
  <2>8. CASE doubtful' = doubtful \cup {j} /\ UNCHANGED codes
    BY <1>c, <2>4, <2>5, <2>6, <2>8, UseRests
  <2>. QED BY <1>5, <2>7, <2>8 DEF SpendCode
<1>6. ASSUME NEW d \in Doors, FindUser(d) \/ CreateUser(d) PROVE UseInv'
  <2>1. d \in Matched /\ door[d].pc \in {"find", "create"}
    BY <1>6 DEF FindUser, CreateUser, At, Matched
  <2>2. UNCHANGED <<codes, issued, signIns, doubtful>>
    BY <1>6 DEF FindUser, CreateUser
  <2>3. LoginFails(d) \/ \E step \in {"create", "session"} : Goto(d, step)
    BY <1>6 DEF FindUser, CreateUser
  <2>. QED BY <2>1, <2>2, <2>3, UseLoginFails, UseGoesOn
<1>7. ASSUME NEW d \in Doors, SaveSession(d) PROVE UseInv'
  <2> DEFINE j == door[d].issue
  <2>1. d \in Matched /\ At(d, "session") /\ j \in Issues
    BY <1>7, InHand DEF SaveSession, At, Matched
  <2>2. UNCHANGED <<codes, issued, doubtful>>
    BY <1>7 DEF SaveSession
  <2>3. CASE LoginFails(d) /\ UNCHANGED signIns
    BY <2>1, <2>2, <2>3, UseLoginFails
  <2>4. CASE signIns' = [signIns EXCEPT ![j] = @ + 1] /\ Return(d)
    <3>1. door'[d].pc = "idle" /\ \A e \in Doors \ {d} : door'[e] = door[e]
      BY <2>4, ReturnMoves
    <3>2. /\ signIns'[j] = signIns[j] + 1
          /\ \A i \in Issues \ {j} : signIns'[i] = signIns[i]
      BY <1>t, <2>1, <2>4
    <3>3. j \in 1 .. Len(issued)
      BY <2>1, InHand DEF Issued
    <3>4. Spent(d, j) /\ Holds(d, j)
      BY <2>1 DEF Spent, Holds, At
    <3>5. \A e \in Doors, i \in Issues :
            /\ Holds(e, i)' => Holds(e, i) /\ e # d
            /\ Spent(e, i)' => Spent(e, i)
      BY <3>1 DEF Holds, Spent
    <3>6. ASSUME NEW i \in Issues \ doubtful' PROVE OneUse(i)'
      <4>1. OneUse(i)
        BY DEF UseInv, Grows
      <4>2. Gone(i)' <=> Gone(i)
        BY <2>2 DEF Gone
      <4>3. CASE i = j
        <5>1. signIns[i] = 0 /\ Gone(i)
          BY <3>4, <4>1, <4>3 DEF OneUse
        <5>2. \A e \in Doors : ~ Holds(e, i)'
          BY <3>4, <3>5, <4>1, <4>3 DEF OneUse
        <5>. QED BY <3>2, <3>5, <4>1, <4>2, <4>3, <5>1, <5>2 DEF OneUse
      <4>4. CASE i # j
        BY <3>2, <3>5, <4>1, <4>2, <4>4 DEF OneUse
      <4>. QED BY <4>3, <4>4
    <3>7. \A i \in Issues : signIns'[i] > 0 => i <= Len(issued')
      BY <1>t, <2>2, <3>2, <3>3 DEF UseInv
    <3>. QED BY <3>6, <3>7 DEF UseInv
  <2>. QED BY <1>7, <2>3, <2>4 DEF SaveSession
<1>8. ASSUME NEW b \in Browsers, Logout(b) PROVE UseInv'
  BY <1>8, <1>c, UseRests DEF Logout, Holds, Spent
<1>. QED
  BY <1>1, <1>2, <1>3, <1>4, <1>5, <1>6, <1>7, <1>8 DEF SignInStep

\* Every step keeps one use per code.
LEMMA UseStep == TypeInv /\ UseInv /\ [Next]_vars => UseInv'
<1> SUFFICES ASSUME TypeInv, UseInv, [Next]_vars PROVE UseInv'
  OBVIOUS
<1>1. SignInInv /\ Grows
  BY StepGrows DEF TypeInv
<1>2. CASE SignInStep
  BY <1>1, <1>2, UseSteps
<1>3. ASSUME UNCHANGED <<codes, door, signIns>> PROVE UseInv'
  BY <1>1, <1>3, UseRests DEF Holds, Spent, Gone
<1>4. CASE TicketStep \/ (Tick /\ UNCHANGED <<signInVars, ticketVars>>) \/ UNCHANGED vars
  BY <1>3, <1>4 DEF TicketStep, vars, signInVars
<1>5. CASE Restart /\ LoseDoors /\ LoseClerks
  <2>1. \A d \in Doors : door'[d].pc = "idle"
    BY <1>5 DEF LoseDoors, Idle
  <2>. QED BY <1>1, <1>5, <2>1, UseRests DEF LoseDoors, Holds, Spent, Gone
<1>. QED
  BY <1>2, <1>4, <1>5 DEF Next

\* A code signs somebody in twice only if two logins had it in hand at one time
\* or its deletion failed.
THEOREM OneSignInPerCode == Spec => []CodeSignsInOnce
<1>1. TypeInv /\ UseInv => CodeSignsInOnce
  <2> SUFFICES ASSUME TypeInv, UseInv, NEW i \in Issues, signIns[i] > 1, i \notin doubtful
               PROVE  FALSE
    BY DEF CodeSignsInOnce
  <2>1. signIns[i] \in Nat /\ signIns[i] <= 1
    BY DEF TypeInv, SignInInv, SignInTypeOK, UseInv, OneUse
  <2>. QED BY <2>1
<1>. QED
  BY TypeInvariant, UseInit, UseStep, <1>1, PTL DEF Spec

(***************************************************************************)
(* No code is lost without a cause.  The property speaks of codes that     *)
(* were mailed; it holds, and is kept, of every code that was issued.      *)
(***************************************************************************)
Keeps(m, i) == codes[m] # None /\ codes[m].issue = i

Accounted(i) ==
  \/ Keeps(issued[i], i)
  \/ \E j \in i + 1 .. Len(issued) : issued[j] = issued[i]
  \/ \E d \in Doors : Holds(d, i)
  \/ signIns[i] > 0
  \/ i \in unlucky

WorksInv ==
  /\ \A i \in 1 .. Len(issued) : Accounted(i)
  /\ mailed \subseteq 1 .. Len(issued)

\* No code has been issued yet.
LEMMA WorksInit == Init => WorksInv
  BY DEF Init, SignInInit, WorksInv

\* A step that issues no code, and that accounts for the codes it takes out of
\* Redis or out of the hands of a goroutine.
LEMMA WorksRests ==
  ASSUME SignInInv, SignInInv', WorksInv, Grows, UNCHANGED issued, mailed' \subseteq 1 .. Len(issued),
         \A m \in Emails, i \in Issues :
           Keeps(m, i) => Keeps(m, i)' \/ i \in unlucky' \/ \E d \in Doors : Holds(d, i)',
         \A d \in Doors, i \in Issues :
           Holds(d, i) => Holds(d, i)' \/ i \in unlucky' \/ signIns'[i] > 0
  PROVE  WorksInv'
<1>t. /\ issued \in Seq(Emails) /\ Len(issued) <= MaxIssues /\ MaxIssues \in Nat
      /\ Len(issued) \in Nat /\ signIns \in [Issues -> Nat] /\ signIns' \in [Issues -> Nat]
  BY SignInAssumption DEF SignInInv, SignInTypeOK
<1>1. ASSUME NEW i \in 1 .. Len(issued) PROVE Accounted(i)'
  <2>1. i \in Issues /\ issued[i] \in Emails /\ issued'[i] = issued[i]
    BY <1>t DEF Issues
  <2>2. Accounted(i)
    BY DEF WorksInv
  <2>3. CASE Keeps(issued[i], i)
    <3>1. Keeps(issued[i], i)' \/ i \in unlucky' \/ \E d \in Doors : Holds(d, i)'
      BY <2>1, <2>3 DEF Keeps
    <3>. QED BY <3>1 DEF Accounted
  <2>4. CASE \E j \in i + 1 .. Len(issued) : issued[j] = issued[i]
    BY <2>4 DEF Accounted
  <2>5. CASE \E d \in Doors : Holds(d, i)
    BY <2>1, <2>5 DEF Accounted
  <2>6. CASE signIns[i] > 0
    <3>1. signIns'[i] > 0
      BY <1>t, <2>1, <2>6 DEF Grows
    <3>. QED BY <3>1 DEF Accounted
  <2>7. CASE i \in unlucky
    BY <2>7 DEF Grows, Accounted
  <2>. QED BY <2>2, <2>3, <2>4, <2>5, <2>6, <2>7 DEF Accounted
<1>. QED BY <1>1 DEF WorksInv

\* Every step of the sign-in accounts for the codes issued.
LEMMA WorksSteps ==
  ASSUME SignInInv, SignInInv', WorksInv, Grows, clock \in Nat, SignInStep
  PROVE  WorksInv'
<1>t. /\ issued \in Seq(Emails) /\ Len(issued) \in Nat
      /\ codes \in [Emails -> Kept \cup {None}] /\ signIns \in [Issues -> Nat]
      /\ mailed \subseteq 1 .. Len(issued)
  BY DEF SignInInv, SignInTypeOK, WorksInv
<1>c. ASSUME UNCHANGED codes PROVE \A m, i : Keeps(m, i) => Keeps(m, i)'
  BY <1>c DEF Keeps
<1>1. ASSUME NEW d \in Doors, door[d].pc \notin {"spend", "find", "create", "session"},
             \A e \in Doors \ {d} : door'[e] = door[e],
             UNCHANGED <<codes, issued>>, mailed' \subseteq 1 .. Len(issued)
      PROVE  WorksInv'
  BY <1>1, <1>c, WorksRests DEF Holds
<1>2. ASSUME NEW d \in Matched, LoginFails(d), UNCHANGED <<codes, issued, mailed>> PROVE WorksInv'
  <2>1. \A e \in Doors \ {d} : door'[e] = door[e]
    BY <1>2, ReturnMoves DEF LoginFails, Matched
  <2>2. door[d].issue \in unlucky'
    BY <1>2 DEF LoginFails
  <2>. QED BY <1>c, <1>t, <1>2, <2>1, <2>2, WorksRests DEF Holds
<1>3. ASSUME NEW d \in Doors, NEW m \in Emails,
             SendCode(d, m) \/ \E b \in Browsers : Login(d, b, m)
      PROVE  WorksInv'
  <2>1. \A e \in Doors \ {d} : door'[e] = door[e]
    BY <1>3 DEF SendCode, Login, SignInInv, SignInTypeOK
  <2>2. door[d].pc = "idle"
    BY <1>3 DEF SendCode, Login, Idle
  <2>. QED BY <1>1, <1>3, <1>t, <2>1, <2>2 DEF SendCode, Login
<1>4. ASSUME NEW d \in Doors, StoreCode(d) PROVE WorksInv'
  <2> DEFINE m == door[d].email
             n == Len(issued) + 1
  <2>1. At(d, "store") /\ m \in Emails
    BY <1>4, SendingAt DEF StoreCode, At, Sending
  <2>2. CASE Return(d) /\ UNCHANGED <<codes, issued>>
    BY <1>1, <1>4, <1>t, <2>1, <2>2, ReturnMoves DEF StoreCode, At
  <2>3. ASSUME n \in Issues, issued' = Append(issued, m), NEW c \in Codes,
               codes' = [codes EXCEPT ![m] =
                           [code |-> c, issue |-> n, until |-> clock + CodeLife]],
               \/ door' = [door EXCEPT ![d].pc = "mail", ![d].issue = n]
               \/ Return(d)
        PROVE  WorksInv'
    <3>1. /\ Len(issued') = n /\ issued'[n] = m
          /\ \A i \in 1 .. Len(issued) : issued'[i] = issued[i] /\ issued[i] \in Emails
      BY <1>t, <2>1, <2>3
    <3>2. /\ codes'[m] = [code |-> c, issue |-> n, until |-> clock + CodeLife]
          /\ \A o \in Emails \ {m} : codes'[o] = codes[o]
      BY <1>t, <2>1, <2>3
    <3>3. \A e \in Doors \ {d} : door'[e] = door[e]
      BY <2>1, <2>3, StoreMoves, ReturnMoves
    <3>4. codes'[m] # None /\ codes'[m].issue = n
      <4>1. codes'[m] \in Kept
        BY <2>3, <3>2, SignInAssumption DEF Kept
      <4>. QED BY <3>2, <4>1, SignInAssumption
    <3> HIDE DEF n
    <3>5. n \in Nat /\ n = Len(issued) + 1
      BY <1>t DEF n
    <3>6. ASSUME NEW i \in 1 .. Len(issued'), i # n PROVE Accounted(i)'
      <4>1. i \in 1 .. Len(issued) /\ n \in i + 1 .. Len(issued') /\ i \in Issues
        BY <1>t, <3>1, <3>5, <3>6, SignInAssumption DEF SignInInv, SignInTypeOK, Issues
      <4>2. Accounted(i) /\ issued'[i] = issued[i] /\ issued[i] \in Emails
        BY <3>1, <4>1 DEF WorksInv
      <4>3. CASE issued[i] = m
        BY <3>1, <4>1, <4>2, <4>3 DEF Accounted
      <4>4. CASE issued[i] # m /\ Keeps(issued[i], i)
        BY <3>2, <4>2, <4>4 DEF Accounted, Keeps
      <4>5. CASE \E j \in i + 1 .. Len(issued) : issued[j] = issued[i]
        <5>1. PICK j \in i + 1 .. Len(issued) : issued[j] = issued[i]
          BY <4>5
        <5>2. j \in 1 .. Len(issued) /\ j \in i + 1 .. Len(issued')
          BY <1>t, <3>1, <3>5, <4>1
        <5>. QED BY <3>1, <4>2, <5>1, <5>2 DEF Accounted
      <4>6. CASE \E e \in Doors : Holds(e, i)
        BY <2>1, <3>3, <4>6 DEF Accounted, Holds, At
      <4>7. CASE signIns[i] > 0 \/ i \in unlucky
        BY <1>4, <4>7 DEF StoreCode, Accounted
      <4>. QED BY <4>2, <4>3, <4>4, <4>5, <4>6, <4>7 DEF Accounted
    <3>7. ASSUME NEW i \in 1 .. Len(issued'), i = n PROVE Accounted(i)'
      BY <3>1, <3>4, <3>7 DEF Accounted, Keeps
    <3>8. mailed' \subseteq 1 .. Len(issued')
      BY <1>4, <1>t, <3>1, <3>5 DEF StoreCode
    <3>. QED BY <3>6, <3>7, <3>8 DEF WorksInv
  <2>. QED BY <1>4, <2>2, <2>3 DEF StoreCode
<1>5. ASSUME NEW d \in Doors, MailCode(d) PROVE WorksInv'
  <2>1. door[d].issue \in 1 .. Len(issued)
    BY <1>5 DEF MailCode, At, SignInInv, DoorsKnow, Issued
  <2>. QED BY <1>1, <1>5, <1>t, <2>1, ReturnMoves DEF MailCode, At
<1>6. ASSUME NEW d \in Doors, CompareCode(d) PROVE WorksInv'
  <2>1. \A e \in Doors \ {d} : door'[e] = door[e]
    <3>1. CASE Return(d)
      BY <3>1, ReturnMoves
    <3>2. CASE /\ Matches(door[d].email, door[d].code)
               /\ door' = [door EXCEPT ![d].pc = "spend", ![d].issue = codes[door[d].email].issue]
      <4>1. door[d].email \in Emails
        BY <1>6, LoggingInAt DEF CompareCode, At, LoggingIn
      <4>2. codes[door[d].email].issue \in Issues
        BY <3>2, <4>1, KeptCode DEF Matches, Lives
      <4>. QED BY <1>6, <3>2, <4>2, MatchMoves DEF CompareCode
    <3>. QED BY <1>6, <3>1, <3>2 DEF CompareCode
  <2>. QED BY <1>1, <1>6, <1>t, <2>1 DEF CompareCode, At
<1>7. ASSUME NEW d \in Doors, SpendCode(d) PROVE WorksInv'
  <2> DEFINE m == door[d].email
  <2>1. d \in Matched /\ At(d, "spend") /\ m \in Emails
    BY <1>7, InHand DEF SpendCode, At, Matched
  <2>2. /\ door'[d].pc = "find" /\ door'[d].issue = door[d].issue
        /\ \A e \in Doors \ {d} : door'[e] = door[e]
    BY <1>7, GotoMoves DEF SpendCode, At
  <2>3. UNCHANGED <<issued, mailed, signIns>>
    BY <1>7 DEF SpendCode
  <2>4. \A e \in Doors, i \in Issues : Holds(e, i) => Holds(e, i)'
    BY <2>2 DEF Holds
  <2>5. Holds(d, door[d].issue) /\ door[d].issue \in Issues
    BY <2>1, InHand DEF Holds, At
  <2>6. ASSUME NEW o \in Emails, NEW i \in Issues, Keeps(o, i)
        PROVE  Keeps(o, i)' \/ i \in unlucky' \/ \E e \in Doors : Holds(e, i)'
    <3>1. CASE UNCHANGED codes \/ (o # m /\ codes' = [codes EXCEPT ![m] = None])
      BY <1>t, <2>6, <3>1 DEF Keeps
    <3>2. CASE o = m /\ i = door[d].issue
      BY <2>4, <2>5, <3>2
    <3>3. CASE /\ o = m /\ i # door[d].issue
               /\ unlucky' = IF codes[m] # None /\ codes[m].issue # door[d].issue
                               THEN unlucky \cup {codes[m].issue} ELSE unlucky
      BY <2>6, <3>3 DEF Keeps
    <3>. QED BY <1>7, <3>1, <3>2, <3>3 DEF SpendCode
  <2>. QED BY <1>t, <2>3, <2>4, <2>6, WorksRests
<1>8. ASSUME NEW d \in Matched, NEW step \in {"create", "session"}, Goto(d, step),
             UNCHANGED <<codes, issued, mailed>>
      PROVE  WorksInv'
  <2>1. d \in Doors
    BY DEF Matched
  <2>2. /\ door'[d].pc = step /\ door'[d].issue = door[d].issue
        /\ \A e \in Doors \ {d} : door'[e] = door[e]
    BY <1>8, <2>1, GotoMoves DEF Matched
  <2>3. \A e \in Doors, i \in Issues : Holds(e, i) => Holds(e, i)'
    BY <2>2 DEF Holds
  <2>. QED BY <1>c, <1>t, <1>8, <2>3, WorksRests
<1>9. ASSUME NEW d \in Doors, FindUser(d) \/ CreateUser(d) PROVE WorksInv'
  <2>1. d \in Matched
    BY <1>9 DEF FindUser, CreateUser, At, Matched
  <2>2. UNCHANGED <<codes, issued, mailed>>
    BY <1>9 DEF FindUser, CreateUser
  <2>3. LoginFails(d) \/ \E step \in {"create", "session"} : Goto(d, step)
    BY <1>9 DEF FindUser, CreateUser
  <2>. QED BY <1>2, <1>8, <2>1, <2>2, <2>3
<1>10. ASSUME NEW d \in Doors, SaveSession(d) PROVE WorksInv'
  <2>1. d \in Matched /\ door[d].issue \in Issues
    BY <1>10, InHand DEF SaveSession, At, Matched
  <2>2. UNCHANGED <<codes, issued, mailed>>
    BY <1>10 DEF SaveSession
  <2>3. CASE LoginFails(d)
    BY <1>2, <2>1, <2>2, <2>3
  <2>4. CASE signIns' = [signIns EXCEPT ![door[d].issue] = @ + 1] /\ Return(d)
    <3>1. signIns'[door[d].issue] > 0
      BY <1>t, <2>1, <2>4
    <3>2. \A e \in Doors \ {d} : door'[e] = door[e]
      BY <2>4, ReturnMoves
    <3>3. \A e \in Doors, i \in Issues : Holds(e, i) => Holds(e, i)' \/ signIns'[i] > 0
      BY <3>1, <3>2 DEF Holds
    <3>. QED BY <1>c, <1>t, <2>2, <3>3, WorksRests
  <2>. QED BY <1>10, <2>3, <2>4 DEF SaveSession
<1>11. ASSUME NEW b \in Browsers, Logout(b) PROVE WorksInv'
  <2>1. \A e \in Doors, i \in Issues : Holds(e, i) => Holds(e, i)'
    BY <1>11 DEF Logout, Holds
  <2>. QED BY <1>11, <1>c, <1>t, <2>1, WorksRests DEF Logout
<1>. QED
  BY <1>3, <1>4, <1>5, <1>6, <1>7, <1>9, <1>10, <1>11 DEF SignInStep

\* Every step accounts for the codes issued.
LEMMA WorksStep == TypeInv /\ TypeInv' /\ WorksInv /\ [Next]_vars => WorksInv'
<1> SUFFICES ASSUME TypeInv, TypeInv', WorksInv, [Next]_vars PROVE WorksInv'
  OBVIOUS
<1>1. SignInInv /\ SignInInv' /\ Grows /\ clock \in Nat
  BY StepGrows, ServerAssumption DEF TypeInv, ServedInv, ServerTypeOK
<1>2. CASE SignInStep
  BY <1>1, <1>2, WorksSteps
<1>3. ASSUME UNCHANGED <<codes, door, issued, mailed, signIns, unlucky>> PROVE WorksInv'
  BY <1>3 DEF WorksInv, Accounted, Keeps, Holds
<1>4. CASE TicketStep \/ (Tick /\ UNCHANGED <<signInVars, ticketVars>>) \/ UNCHANGED vars
  BY <1>3, <1>4 DEF TicketStep, vars, signInVars
<1>5. CASE Restart /\ LoseDoors /\ LoseClerks
  <2>1. \A d \in Doors, i \in Issues : Holds(d, i) => i \in unlucky'
    BY <1>5 DEF LoseDoors, Holds, Matched
  <2>2. \A m, i : Keeps(m, i) => Keeps(m, i)'
    BY <1>5 DEF LoseDoors, Keeps
  <2>. QED BY <1>1, <1>5, <2>1, <2>2, WorksRests DEF LoseDoors, WorksInv
<1>. QED
  BY <1>2, <1>4, <1>5 DEF Next

\* The code in a customer's mail works, unless it was superseded, is in use or
\* was used, or was lost to a login that failed or held an older code.
THEOREM NoCodeIsLost == Spec => []MailedCodeWorks
<1>1. TypeInv /\ WorksInv => MailedCodeWorks
  <2> SUFFICES ASSUME WorksInv, NEW i \in mailed
               PROVE  \/ codes[issued[i]] # None /\ codes[issued[i]].issue = i
                      \/ \E j \in i + 1 .. Len(issued) : issued[j] = issued[i]
                      \/ \E d \in Matched : door[d].issue = i
                      \/ signIns[i] > 0
                      \/ i \in unlucky
    BY DEF MailedCodeWorks
  <2>. QED BY DEF WorksInv, Accounted, Keeps, Holds, Matched
<1>. QED
  BY TypeInvariant, WorksInit, WorksStep, <1>1, PTL DEF Spec

(***************************************************************************)
(* Whose ticket it is.  Whoever a session, a request or a ticket names is  *)
(* a user who signed in by a code of theirs; users and sign-ins stay.      *)
(***************************************************************************)
SignedIn(m) ==
  /\ m \in users
  /\ \E i \in 1 .. Len(issued) : issued[i] = m /\ signIns[i] > 0

Named(m) ==
  \/ \E b \in Browsers : sessions[b] = m
  \/ \E c \in Clerks : clerk[c].pc = "insert" /\ clerk[c].author = m
  \/ \E t \in 1 .. Len(tickets) : tickets[t].author = m

AuthorsInv ==
  /\ \A m \in Emails : Named(m) => SignedIn(m)
  /\ \A d \in Doors : At(d, "session") => door[d].email \in users

\* Nobody is signed in, and nobody has written.
LEMMA AuthorsInit == Init => AuthorsInv
<1> SUFFICES ASSUME Init PROVE AuthorsInv
  OBVIOUS
<1>1. \A m \in Emails : ~ Named(m)
  BY SignInAssumption DEF Init, SignInInit, Named, Free
<1>. QED BY <1>1 DEF Init, SignInInit, AuthorsInv, At, Idle

\* Who has signed in, has.
LEMMA SignedInStays ==
  ASSUME SignInInv, SignInInv', Grows, NEW m, SignedIn(m)
  PROVE  SignedIn(m)'
<1>t. /\ Len(issued) \in Nat /\ Len(issued') \in Nat /\ Len(issued) <= MaxIssues
      /\ MaxIssues \in Nat
      /\ signIns \in [Issues -> Nat] /\ signIns' \in [Issues -> Nat]
  BY SignInAssumption DEF SignInInv, SignInTypeOK
<1>1. PICK i \in 1 .. Len(issued) : issued[i] = m /\ signIns[i] > 0
  BY DEF SignedIn
<1>2. i \in Issues /\ i \in 1 .. Len(issued')
  BY <1>t DEF Issues, Grows
<1>3. signIns'[i] > 0 /\ issued'[i] = m
  BY <1>t, <1>1, <1>2 DEF Grows
<1>. QED BY <1>2, <1>3 DEF SignedIn, Grows

\* A step that names nobody new, and brings nobody to the saving of a session.
LEMMA AuthorsRest ==
  ASSUME SignInInv, SignInInv', Grows, AuthorsInv,
         \A m \in Emails : Named(m)' => Named(m) \/ SignedIn(m)',
         \A d \in Doors : At(d, "session")' => At(d, "session") /\ door'[d] = door[d]
  PROVE  AuthorsInv'
<1>1. \A m \in Emails : Named(m)' => SignedIn(m)'
  BY SignedInStays DEF AuthorsInv
<1>2. \A d \in Doors : At(d, "session")' => door'[d].email \in users'
  BY DEF AuthorsInv, Grows
<1>. QED BY <1>1, <1>2 DEF AuthorsInv

\* Every step of the sign-in keeps that.
LEMMA AuthorsSignIn ==
  ASSUME SignInInv, SignInInv', Grows, AuthorsInv, SignInStep, UNCHANGED <<clerk, tickets>>
  PROVE  AuthorsInv'
<1>t. sessions \in [Browsers -> Emails \cup {None}] /\ signIns \in [Issues -> Nat]
  BY DEF SignInInv, SignInTypeOK
<1>1. ASSUME UNCHANGED sessions, NEW d \in Doors, door'[d].pc # "session",
             \A e \in Doors \ {d} : door'[e] = door[e]
      PROVE  AuthorsInv'
  <2>1. \A m \in Emails : Named(m)' => Named(m)
    BY <1>1 DEF Named
  <2>. QED BY <1>1, <2>1, AuthorsRest DEF At
<1>2. ASSUME NEW d \in Doors, Return(d), UNCHANGED sessions PROVE AuthorsInv'
  BY <1>1, <1>2, ReturnMoves
<1>3. ASSUME NEW d \in Doors, NEW m \in Emails,
             SendCode(d, m) \/ \E b \in Browsers : Login(d, b, m)
      PROVE  AuthorsInv'
  <2>1. /\ door'[d].pc \in {"store", "compare"}
        /\ \A e \in Doors \ {d} : door'[e] = door[e]
    BY <1>3 DEF SendCode, Login, SignInInv, SignInTypeOK
  <2>. QED BY <1>1, <1>3, <2>1 DEF SendCode, Login
<1>4. ASSUME NEW d \in Doors, StoreCode(d) PROVE AuthorsInv'
  <2>1. CASE Return(d)
    BY <1>2, <1>4, <2>1 DEF StoreCode
  <2>2. CASE /\ Len(issued) + 1 \in Issues
             /\ door' = [door EXCEPT ![d].pc = "mail", ![d].issue = Len(issued) + 1]
    <3>1. door'[d].pc = "mail" /\ \A e \in Doors \ {d} : door'[e] = door[e]
      BY <1>4, <2>2, StoreMoves DEF StoreCode
    <3>. QED BY <1>1, <1>4, <3>1 DEF StoreCode
  <2>. QED BY <1>4, <2>1, <2>2 DEF StoreCode
<1>5. ASSUME NEW d \in Doors, CompareCode(d) PROVE AuthorsInv'
  <2>1. CASE Return(d)
    BY <1>2, <1>5, <2>1 DEF CompareCode
  <2>2. CASE /\ Matches(door[d].email, door[d].code)
             /\ door' = [door EXCEPT ![d].pc = "spend", ![d].issue = codes[door[d].email].issue]
    <3>1. door[d].email \in Emails
      BY <1>5, LoggingInAt DEF CompareCode, At, LoggingIn
    <3>2. codes[door[d].email].issue \in Issues
      BY <2>2, <3>1, KeptCode DEF Matches, Lives
    <3>3. door'[d].pc = "spend" /\ \A e \in Doors \ {d} : door'[e] = door[e]
      BY <1>5, <2>2, <3>2, MatchMoves DEF CompareCode
    <3>. QED BY <1>1, <1>5, <3>3 DEF CompareCode
  <2>. QED BY <1>5, <2>1, <2>2 DEF CompareCode
<1>6. ASSUME NEW d \in Doors, SpendCode(d) PROVE AuthorsInv'
  <2>1. door'[d].pc = "find" /\ \A e \in Doors \ {d} : door'[e] = door[e]
    BY <1>6, GotoMoves DEF SpendCode, At
  <2>. QED BY <1>1, <1>6, <2>1 DEF SpendCode
<1>7. ASSUME NEW d \in Doors, FindUser(d) \/ CreateUser(d) PROVE AuthorsInv'
  <2>1. d \in Matched /\ door[d].pc \in {"find", "create"} /\ UNCHANGED sessions
    BY <1>7 DEF FindUser, CreateUser, At, Matched
  <2>2. CASE LoginFails(d)
    BY <1>2, <2>1, <2>2 DEF LoginFails
  <2>3. CASE Goto(d, "create")
    <3>1. door'[d].pc = "create" /\ \A e \in Doors \ {d} : door'[e] = door[e]
      BY <2>1, <2>3, GotoMoves
    <3>. QED BY <1>1, <2>1, <3>1
  <2>4. CASE Goto(d, "session") /\ door[d].email \in users'
    <3>1. /\ door'[d].pc = "session" /\ door'[d].email = door[d].email
          /\ \A e \in Doors \ {d} : door'[e] = door[e]
      BY <2>1, <2>4, GotoMoves
    <3>2. \A e \in Doors : At(e, "session")' => door'[e].email \in users'
      BY <2>4, <3>1 DEF AuthorsInv, At, Grows
    <3>3. \A m \in Emails : Named(m)' => SignedIn(m)'
      BY <2>1, SignedInStays DEF AuthorsInv, Named
    <3>. QED BY <3>2, <3>3 DEF AuthorsInv
  <2>. QED BY <1>7, <2>2, <2>3, <2>4 DEF FindUser, CreateUser
<1>8. ASSUME NEW d \in Doors, SaveSession(d) PROVE AuthorsInv'
  <2> DEFINE x == door[d]
  <2>1. /\ d \in Matched /\ At(d, "session") /\ x.email \in users
        /\ x.issue \in Issues /\ x.browser \in Browsers /\ x.email \in Emails
        /\ Issued(x.issue, x.email)
    BY <1>8, InHand DEF SaveSession, At, Matched, AuthorsInv
  <2>2. CASE LoginFails(d) /\ UNCHANGED sessions
    BY <1>2, <2>2 DEF LoginFails
  <2>3. CASE /\ sessions' = [sessions EXCEPT ![x.browser] = x.email]
             /\ signIns' = [signIns EXCEPT ![x.issue] = @ + 1]
             /\ Return(d)
    <3>1. signIns'[x.issue] > 0 /\ UNCHANGED <<issued, users>>
      BY <1>8, <1>t, <2>1, <2>3 DEF SaveSession
    <3>2. ASSUME NEW m \in Emails, m = x.email PROVE SignedIn(m)'
      BY <2>1, <3>1, <3>2 DEF SignedIn, Issued
    <3>3. \A b \in Browsers : sessions'[b] = sessions[b] \/ sessions'[b] = x.email
      BY <1>t, <2>1, <2>3
    <3>4. \A m \in Emails : Named(m)' => Named(m) \/ m = x.email
      BY <3>3 DEF Named
    <3>5. door'[d].pc = "idle" /\ \A e \in Doors \ {d} : door'[e] = door[e]
      BY <2>3, ReturnMoves
    <3>. QED BY <3>2, <3>4, <3>5, AuthorsRest DEF At
  <2>. QED BY <1>8, <2>2, <2>3 DEF SaveSession
<1>9. ASSUME NEW b \in Browsers, Logout(b) PROVE AuthorsInv'
  <2>1. \A o \in Browsers : sessions'[o] = sessions[o] \/ sessions'[o] = None
    BY <1>9, <1>t DEF Logout
  <2>2. \A m \in Emails : Named(m)' => Named(m)
    BY <2>1, SignInAssumption DEF Named
  <2>. QED BY <1>9, <2>2, AuthorsRest DEF Logout, At
<1>10. ASSUME NEW d \in Doors, MailCode(d) PROVE AuthorsInv'
  BY <1>2, <1>10 DEF MailCode
<1>. QED
  BY <1>3, <1>4, <1>5, <1>6, <1>7, <1>8, <1>9, <1>10 DEF SignInStep

\* Every step of a ticket keeps that.
LEMMA AuthorsTickets ==
  ASSUME TypeInv, SignInInv', Grows, AuthorsInv, TicketStep
  PROVE  AuthorsInv'
<1>t. /\ TicketInv /\ SignInInv /\ tickets \in Seq(Ticket)
      /\ UNCHANGED <<door, sessions>>
  BY DEF TypeInv, TicketInv, TicketStep
<1>1. ASSUME \A m \in Emails : Named(m)' => Named(m) PROVE AuthorsInv'
  BY <1>t, <1>1, AuthorsRest DEF At
<1>2. ASSUME UNCHANGED tickets, NEW c \in Clerks, clerk'[c].pc # "insert",
             \A e \in Clerks \ {c} : clerk'[e] = clerk[e]
      PROVE  AuthorsInv'
  BY <1>t, <1>1, <1>2 DEF Named
<1>3. ASSUME UNCHANGED tickets, NEW c \in Clerks, Leave(c) PROVE AuthorsInv'
  BY <1>t, <1>2, <1>3, LeaveMoves
<1>4. ASSUME NEW c \in Clerks, NEW b \in Browsers, CreateTicket(c, b) PROVE AuthorsInv'
  <2>1. clerk'[c].pc = "read" /\ \A e \in Clerks \ {c} : clerk'[e] = clerk[e]
    BY <1>4, <1>t DEF CreateTicket, TicketInv
  <2>. QED BY <1>2, <1>4, <2>1 DEF CreateTicket
<1>5. ASSUME NEW c \in Clerks, ReadSession(c) PROVE AuthorsInv'
  <2>1. clerk[c] \in Filing /\ clerk[c].browser \in Browsers
    BY <1>5, <1>t, FilingAt DEF ReadSession, Filing
  <2>2. CASE Leave(c)
    BY <1>3, <1>5, <2>2 DEF ReadSession
  <2>3. ASSUME NEW author \in {sessions[clerk[c].browser], None},
               clerk' = [clerk EXCEPT ![c].pc = "insert", ![c].author = author]
        PROVE  AuthorsInv'
    <3>1. clerk'[c].author = author /\ \A e \in Clerks \ {c} : clerk'[e] = clerk[e]
      BY <1>t, <2>1, <2>3 DEF TicketInv, Filing
    <3>2. \A m \in Emails : author = m => Named(m)
      BY <2>1, SignInAssumption DEF Named
    <3>3. \A m \in Emails : Named(m)' => Named(m)
      BY <1>5, <1>t, <3>1, <3>2 DEF Named, ReadSession
    <3>. QED BY <1>1, <3>3
  <2>. QED BY <1>5, <2>2, <2>3 DEF ReadSession
<1>6. ASSUME NEW c \in Clerks, InsertTicket(c) PROVE AuthorsInv'
  <2> DEFINE ticket == NewTicket(clerk[c].author)
  <2>1. clerk[c] \in Filing /\ clerk[c].pc = "insert"
    BY <1>6, <1>t, FilingAt DEF InsertTicket
  <2>2. ticket \in Ticket /\ ticket.author = clerk[c].author
    BY <2>1 DEF Filing, NewTicket, Ticket, Statuses
  <2>3. CASE Leave(c) /\ UNCHANGED tickets
    BY <1>3, <2>3
  <2>4. CASE /\ tickets' = Append(tickets, ticket)
             /\ \/ clerk' = [clerk EXCEPT ![c].pc = "announce", ![c].ticket = Len(tickets) + 1]
                \/ Leave(c)
    <3>1. \A e \in Clerks \ {c} : clerk'[e] = clerk[e]
      BY <1>t, <2>4, LeaveMoves DEF TicketInv
    <3>2. clerk'[c].pc # "insert"
      <4>1. CASE Leave(c)
        BY <1>t, <4>1, LeaveMoves
      <4>2. CASE clerk' = [clerk EXCEPT ![c].pc = "announce", ![c].ticket = Len(tickets) + 1]
        BY <1>t, <2>1, <4>2 DEF TicketInv, Filing
      <4>. QED BY <2>4, <4>1, <4>2
    <3>3. /\ Len(tickets) \in Nat /\ Len(tickets') = Len(tickets) + 1
          /\ tickets'[Len(tickets) + 1] = ticket
          /\ \A t \in 1 .. Len(tickets) : tickets'[t] = tickets[t]
      BY <1>t, <2>2, <2>4, TableGrows
    <3>4. \A t \in 1 .. Len(tickets') :
            tickets'[t].author = clerk[c].author
              \/ (t \in 1 .. Len(tickets) /\ tickets'[t] = tickets[t])
      <4> HIDE DEF ticket
      <4>. QED BY <2>2, <3>3
    <3>5. \A m \in Emails : Named(m)' => Named(m)
      BY <1>t, <2>1, <3>1, <3>2, <3>4 DEF Named
    <3>. QED BY <1>1, <3>5
  <2>. QED BY <1>6, <2>3, <2>4 DEF InsertTicket
<1>7. ASSUME NEW c \in Clerks, Announce(c) PROVE AuthorsInv'
  BY <1>3, <1>7 DEF Announce
<1>8. ASSUME NEW t \in DOMAIN tickets, AdminUpdateTicketStatus(t) PROVE AuthorsInv'
  <2>1. PICK status \in Statuses : tickets' = [tickets EXCEPT ![t].status = status]
    BY <1>8 DEF AdminUpdateTicketStatus
  <2>2. Len(tickets') = Len(tickets)
        /\ \A o \in 1 .. Len(tickets) : tickets'[o].author = tickets[o].author
    BY <1>t, <2>1 DEF Ticket
  <2>3. \A m \in Emails : Named(m)' => Named(m)
    BY <1>8, <1>t, <2>2 DEF Named, AdminUpdateTicketStatus
  <2>. QED BY <1>1, <2>3
<1>. QED
  BY <1>4, <1>5, <1>6, <1>7, <1>8 DEF TicketStep

\* Every step keeps that.
LEMMA AuthorsStep == TypeInv /\ TypeInv' /\ AuthorsInv /\ [Next]_vars => AuthorsInv'
<1> SUFFICES ASSUME TypeInv, TypeInv', AuthorsInv, [Next]_vars PROVE AuthorsInv'
  OBVIOUS
<1>1. SignInInv /\ SignInInv' /\ Grows
  BY StepGrows DEF TypeInv
<1>2. CASE SignInStep /\ UNCHANGED <<serverVars, ticketVars>>
  BY <1>1, <1>2, AuthorsSignIn DEF ticketVars
<1>3. CASE TicketStep
  BY <1>1, <1>3, AuthorsTickets
<1>4. CASE (Tick /\ UNCHANGED <<signInVars, ticketVars>>) \/ UNCHANGED vars
  BY <1>1, <1>4, AuthorsRest DEF vars, signInVars, ticketVars, Named, At
<1>5. CASE Restart /\ LoseDoors /\ LoseClerks
  <2>1. /\ \A d \in Doors : door'[d].pc = "idle"
        /\ \A c \in Clerks : clerk'[c].pc = "free"
        /\ UNCHANGED <<sessions, tickets>>
    BY <1>5 DEF LoseDoors, LoseClerks, Idle, Free
  <2>. QED BY <1>1, <2>1, AuthorsRest DEF Named, At
<1>. QED
  BY <1>2, <1>3, <1>4, <1>5 DEF Next

\* Whoever a ticket belongs to is a user who signed in by a code of theirs.
THEOREM TicketsHaveAuthors == Spec => []AuthorsSignedIn
<1>1. TypeInv /\ AuthorsInv => AuthorsSignedIn
  <2> SUFFICES ASSUME TypeInv, AuthorsInv, NEW t \in DOMAIN tickets, tickets[t].author # None
               PROVE  /\ tickets[t].author \in users
                      /\ \E i \in DOMAIN issued : issued[i] = tickets[t].author /\ signIns[i] > 0
    BY DEF AuthorsSignedIn
  <2>1. /\ DOMAIN tickets = 1 .. Len(tickets) /\ DOMAIN issued = 1 .. Len(issued)
        /\ tickets[t] \in Ticket
    BY DEF TypeInv, TicketInv, SignInInv, SignInTypeOK
  <2>2. tickets[t].author \in Emails
    BY <2>1 DEF Ticket
  <2>. QED BY <2>1, <2>2 DEF AuthorsInv, Named, SignedIn
<1>. QED
  BY TypeInvariant, AuthorsInit, AuthorsStep, <1>1, PTL DEF Spec

(***************************************************************************)
(* No ticket is left without its mail, or without a reason for that: the   *)
(* goroutine that inserts a ticket takes it along.                         *)
(***************************************************************************)
Told(t) ==
  \/ t \in announced \cup unheard
  \/ \E c \in Clerks : clerk[c].pc = "announce" /\ clerk[c].ticket = t

ToldInv == \A t \in 1 .. Len(tickets) : Told(t)

\* Every step keeps that.
LEMMA ToldStep == TypeInv /\ ToldInv /\ [Next]_vars => ToldInv'
<1> SUFFICES ASSUME TypeInv, ToldInv, [Next]_vars PROVE ToldInv'
  OBVIOUS
<1>t. TicketInv /\ tickets \in Seq(Ticket)
  BY DEF TypeInv, TicketInv
<1>1. ASSUME Len(tickets') = Len(tickets), NEW c \in Clerks,
             \A e \in Clerks \ {c} : clerk'[e] = clerk[e],
             announced \subseteq announced', unheard \subseteq unheard',
             clerk[c].pc = "announce" => clerk[c].ticket \in announced' \cup unheard'
      PROVE  ToldInv'
  BY <1>1 DEF ToldInv, Told
<1>2. ASSUME NEW c \in Clerks, NEW b \in Browsers, CreateTicket(c, b) PROVE ToldInv'
  BY <1>1, <1>2, <1>t DEF CreateTicket, TicketInv, Free
<1>3. ASSUME NEW c \in Clerks, ReadSession(c) PROVE ToldInv'
  BY <1>1, <1>3, <1>t DEF ReadSession, Leave, TicketInv
<1>4. ASSUME NEW c \in Clerks, InsertTicket(c) PROVE ToldInv'
  <2> DEFINE ticket == NewTicket(clerk[c].author)
  <2>1. clerk[c] \in Filing /\ clerk[c].pc = "insert"
    BY <1>4, <1>t, FilingAt DEF InsertTicket
  <2>2. ticket \in Ticket
    BY <2>1 DEF Filing, NewTicket, Ticket, Statuses
  <2>3. \A e \in Clerks \ {c} : clerk'[e] = clerk[e]
    BY <1>4, <1>t DEF InsertTicket, Leave, TicketInv
  <2>4. CASE UNCHANGED <<tickets, unheard>>
    BY <1>1, <1>4, <2>1, <2>3, <2>4 DEF InsertTicket
  <2>5. CASE /\ tickets' = Append(tickets, ticket)
             /\ \/ /\ clerk' = [clerk EXCEPT ![c].pc = "announce", ![c].ticket = Len(tickets) + 1]
                   /\ UNCHANGED unheard
                \/ unheard' = unheard \cup {Len(tickets) + 1}
    <3>1. Len(tickets) \in Nat /\ Len(tickets') = Len(tickets) + 1
      BY <1>t, <2>2, <2>5, TableGrows
    <3>2. ASSUME NEW t \in 1 .. Len(tickets') PROVE Told(t)'
      <4>1. CASE t \in 1 .. Len(tickets)
        BY <1>4, <2>1, <2>3, <2>5, <4>1 DEF ToldInv, Told, InsertTicket
      <4>2. CASE t = Len(tickets) + 1
        <5>1. CASE unheard' = unheard \cup {Len(tickets) + 1}
          BY <4>2, <5>1 DEF Told
        <5>2. CASE clerk' = [clerk EXCEPT ![c].pc = "announce", ![c].ticket = Len(tickets) + 1]
          <6>1. clerk'[c].pc = "announce" /\ clerk'[c].ticket = t
            BY <1>t, <2>1, <4>2, <5>2 DEF TicketInv, Filing
          <6>. QED BY <6>1 DEF Told
        <5>. QED BY <2>5, <5>1, <5>2
      <4>. QED BY <3>1, <4>1, <4>2
    <3>. QED BY <3>2 DEF ToldInv
  <2>. QED BY <1>4, <2>4, <2>5 DEF InsertTicket
<1>5. ASSUME NEW c \in Clerks, Announce(c) PROVE ToldInv'
  BY <1>1, <1>5, <1>t DEF Announce, Leave, TicketInv
<1>6. ASSUME NEW t \in DOMAIN tickets, AdminUpdateTicketStatus(t) PROVE ToldInv'
  <2>1. Len(tickets') = Len(tickets)
    BY <1>6, <1>t DEF AdminUpdateTicketStatus
  <2>. QED BY <1>6, <2>1 DEF AdminUpdateTicketStatus, ToldInv, Told
<1>7. CASE TicketStep
  BY <1>2, <1>3, <1>4, <1>5, <1>6, <1>7 DEF TicketStep
<1>8. CASE UNCHANGED ticketVars
  BY <1>8 DEF ticketVars, ToldInv, Told
<1>9. CASE Restart /\ LoseDoors /\ LoseClerks
  BY <1>9 DEF LoseClerks, ToldInv, Told
<1>. QED
  BY <1>7, <1>8, <1>9 DEF Next, vars

\* The support team is told of every ticket, unless its mail or its insert went
\* wrong or the process was killed.
THEOREM TeamIsTold == Spec => []TicketIsAnnounced
<1>1. Init => ToldInv
  BY DEF Init, ToldInv
<1>2. TypeInv /\ ToldInv => TicketIsAnnounced
  <2>1. ASSUME TypeInv PROVE DOMAIN tickets = 1 .. Len(tickets)
    BY <2>1 DEF TypeInv, TicketInv
  <2>. QED BY <2>1 DEF ToldInv, Told, TicketIsAnnounced
<1>. QED
  BY TypeInvariant, ToldStep, <1>1, <1>2, PTL DEF Spec

=============================================================================
