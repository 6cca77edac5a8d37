\* Two sign-in requests of one e-mail and two tickets at a time, the process
\* killed once.
SPECIFICATION Spec
CONSTANTS
  MaxDay = 2
  MaxCrashes = 1
  Emails = {m1}
  Browsers = {b1}
  TicketInterval = 1
  MaxRequests = 4
  Codes = {c1, c2}
  CodeLife = 2
  MaxIssues = 2
  Doors = {d1, d2}
  None = None
  Clerks = {k1, k2}
  MaxTickets = 2
INVARIANTS
  TypeOK
  CodeSignsInOnce
  MailedCodeWorks
  TicketIsAnnounced
  AuthorsSignedIn
SYMMETRY Symmetry
\* The periods end, and then nothing is left to do.
CHECK_DEADLOCK FALSE
