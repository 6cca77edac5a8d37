----------------------------- MODULE RemnaPanel -----------------------------
(***************************************************************************)
(* The Remnawave panel, where the VPN accounts live, as the client in      *)
(* internal/remna uses it, and the two admin handlers of that package      *)
(* through which operators write to it.                                    *)
(*                                                                         *)
(* The panel is a separate program.  The site keeps no copy of an account: *)
(* a handler looks one up by e-mail, computes a new expiry date in memory  *)
(* and sends it back in a request of its own, so any other writer may come *)
(* in between.  E-mails are in one-to-one correspondence with site users   *)
(* (models.User has a unique index on Email), so an e-mail is written as   *)
(* the user it belongs to.                                                 *)
(***************************************************************************)
EXTENDS Server, FiniteSets

CONSTANTS
  Users,             \* site users; the account the site creates for u has u's id as its UUID
  Foreign,           \* UUIDs of the accounts that operators create
  OperatorAccounts,  \* what operators may write into an account
  None               \* no account, no row, no value

Accounts == Users \cup Foreign

\* RemnaUserResponse, reduced to the fields the handlers act on.
Account == [owner : Users, expire : Nat, devices : Nat]

ASSUME PanelAssumption ==
  /\ Users \cap Foreign = {}
  /\ OperatorAccounts \subseteq Account
  /\ None \notin Account
  /\ None \notin Accounts

VARIABLES
  panel,     \* the account stored under each UUID, or None
  granted,   \* history: the days the site has granted to each account
  ceiling    \* history: the latest expiry an operator has given each account, or -1

panelVars == <<panel, granted, ceiling>>

\* Accounts are well-formed; what the site grants and operators give are days.
PanelTypeOK ==
  /\ panel \in [Accounts -> Account \cup {None}]
  /\ granted \in [Accounts -> Nat]
  /\ ceiling \in [Accounts -> Nat \cup {-1}]

Exists(a) == panel[a] # None

ExpiryOf(record) == IF record = None THEN 0 ELSE record.expire

Later(s, t) == IF s < t THEN t ELSE s

\* Some accounts may be there before the site starts, made by operators.
PanelInit ==
  /\ panel \in [Accounts -> OperatorAccounts \cup {None}]
  /\ granted = [a \in Accounts |-> 0]
  /\ ceiling = [a \in Accounts |-> IF Exists(a) THEN panel[a].expire ELSE -1]

-----------------------------------------------------------------------------
(* What the client asks of the panel. *)

\* GetUserByEmail takes the first of the list the panel returns, which has no
\* promised order; the empty list is "not found user by this email".
FoundBy(u) == {a \in Accounts : Exists(a) /\ panel[a].owner = u}

\* Mutant: always from now, the rest of the old term is lost.
NewExpireFromNow(old, now, days) == now + days

\* Mutant: always from the old expiry, however long ago it was.
NewExpireFromOld(old, now, days) == old + days

\* Mutant: the day of the grant is not counted.
NewExpireDayMore(old, now, days) == Later(old, now) + days + 1

\* An expiry in the past counts from now, one in the future is prolonged.
NewExpire(old, now, days) == (IF old < now THEN now ELSE old) + days

\* POST /users: the panel refuses a UUID it already has.
Refuses(a) == Exists(a)

CreateAccount(a, record, days) ==
  /\ ~ Refuses(a)
  /\ panel' = [panel EXCEPT ![a] = record]
  /\ granted' = [granted EXCEPT ![a] = @ + days]
  /\ UNCHANGED ceiling

\* PATCH /users with uuid and expireAt: hwidDeviceLimit is `omitempty' and the
\* handlers leave it out, so the panel keeps the limit it has.
ExtendAccount(a, expire, days) ==
  /\ Exists(a)
  /\ panel' = [panel EXCEPT ![a].expire = expire]
  /\ granted' = [granted EXCEPT ![a] = @ + days]
  /\ UNCHANGED ceiling

-----------------------------------------------------------------------------
(* The operators' handlers. *)

\* Every field of RemnaUserRequest is `omitempty': a PATCH replaces the fields
\* it carries and keeps the others.
Patched(old, body) ==
  [owner   : {old.owner, body.owner},
   expire  : {old.expire, body.expire},
   devices : {old.devices, body.devices}]

AdminUpdateUser(a) ==
  /\ Exists(a)
  /\ \E body \in OperatorAccounts :
       \E record \in Patched(panel[a], body) :
         /\ panel' = [panel EXCEPT ![a] = record]
         /\ ceiling' = IF record.expire = panel[a].expire
                         THEN ceiling
                         ELSE [ceiling EXCEPT ![a] = Later(@, record.expire)]
  /\ UNCHANGED granted

AdminCreateUser(a) ==
  /\ ~ Refuses(a)
  /\ \E record \in OperatorAccounts :
       /\ panel' = [panel EXCEPT ![a] = record]
       /\ ceiling' = [ceiling EXCEPT ![a] = Later(@, record.expire)]
  /\ UNCHANGED granted

Operator == \E a \in Accounts : AdminUpdateUser(a) \/ AdminCreateUser(a)

\* What happens around the site's own handlers.
Surroundings ==
  \/ Tick /\ UNCHANGED panelVars
  \/ Operator /\ UNCHANGED serverVars

=============================================================================
