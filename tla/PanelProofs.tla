---------------------------- MODULE PanelProofs -----------------------------
(***************************************************************************)
(* Facts about the panel that the proofs of its users share.               *)
(***************************************************************************)
EXTENDS RemnaPanel, TLAPS

\* A panel that starts with operators' accounts has the types.
LEMMA PanelInitType == PanelInit => PanelTypeOK
  BY PanelAssumption DEF PanelInit, PanelTypeOK, Exists, Account

\* The surroundings keep the panel's types and the server's.
LEMMA SurroundingsType ==
  ASSUME ServerTypeOK, PanelTypeOK, Surroundings
  PROVE  ServerTypeOK' /\ PanelTypeOK'
<1>1. CASE Tick /\ UNCHANGED panelVars
  BY <1>1, ServerAssumption DEF Tick, panelVars, ServerTypeOK, PanelTypeOK
<1>2. ASSUME NEW a \in Accounts, AdminUpdateUser(a), UNCHANGED serverVars
      PROVE  ServerTypeOK' /\ PanelTypeOK'
  <2>1. panel[a] \in Account
    BY <1>2 DEF AdminUpdateUser, Exists, PanelTypeOK
  <2>0. PICK body \in OperatorAccounts :
          \E record \in Patched(panel[a], body) :
            /\ panel' = [panel EXCEPT ![a] = record]
            /\ ceiling' = IF record.expire = panel[a].expire
                            THEN ceiling
                            ELSE [ceiling EXCEPT ![a] = Later(@, record.expire)]
    BY <1>2 DEF AdminUpdateUser
  <2>2. PICK record \in Patched(panel[a], body) :
          /\ panel' = [panel EXCEPT ![a] = record]
          /\ ceiling' = IF record.expire = panel[a].expire
                          THEN ceiling
                          ELSE [ceiling EXCEPT ![a] = Later(@, record.expire)]
    BY <2>0
  <2>3. record \in Account
    BY <2>1, PanelAssumption DEF Patched, Account
  <2>4. record.expire \in Nat
    BY <2>3 DEF Account
  <2>. QED
    BY <1>2, <2>2, <2>3, <2>4
    DEF AdminUpdateUser, PanelTypeOK, ServerTypeOK, serverVars, Later
<1>3. ASSUME NEW a \in Accounts, AdminCreateUser(a), UNCHANGED serverVars
      PROVE  ServerTypeOK' /\ PanelTypeOK'
  BY <1>3, PanelAssumption
  DEF AdminCreateUser, PanelTypeOK, ServerTypeOK, serverVars, Later, Account
<1>. QED
  BY <1>1, <1>2, <1>3 DEF Surroundings, Operator

\* An account that was created under a free UUID.
LEMMA CreatedType ==
  ASSUME PanelTypeOK, NEW a \in Accounts, NEW record \in Account, NEW days \in Nat,
         CreateAccount(a, record, days)
  PROVE  PanelTypeOK'
  BY DEF CreateAccount, PanelTypeOK

\* An account that was given a new date.
LEMMA ExtendedType ==
  ASSUME PanelTypeOK, NEW a \in Accounts, NEW expire \in Nat, NEW days \in Nat,
         ExtendAccount(a, expire, days)
  PROVE  PanelTypeOK'
<1>1. panel[a] \in Account
  BY DEF ExtendAccount, Exists, PanelTypeOK
<1>2. [panel[a] EXCEPT !.expire = expire] \in Account
  BY <1>1 DEF Account
<1>. QED
  BY <1>2 DEF ExtendAccount, PanelTypeOK

\* What was granted, and what operators gave, is not taken back.
Grows == \A a \in Accounts : granted[a] <= granted'[a] /\ ceiling[a] <= ceiling'[a]

\* The panel's writers take no grant back.
LEMMA CreateGrows ==
  ASSUME PanelTypeOK, NEW a \in Accounts, NEW record, NEW days \in Nat,
         CreateAccount(a, record, days)
  PROVE  Grows
  BY DEF CreateAccount, PanelTypeOK, Grows

LEMMA ExtendGrows ==
  ASSUME PanelTypeOK, NEW a \in Accounts, NEW expire, NEW days \in Nat,
         ExtendAccount(a, expire, days)
  PROVE  Grows
  BY DEF ExtendAccount, PanelTypeOK, Grows

LEMMA OperatorGrows ==
  ASSUME PanelTypeOK, Operator
  PROVE  Grows
<1>1. ASSUME NEW a \in Accounts, NEW e \in Nat, UNCHANGED granted,
             ceiling' = ceiling \/ ceiling' = [ceiling EXCEPT ![a] = Later(@, e)]
      PROVE  Grows
  BY <1>1 DEF PanelTypeOK, Grows, Later
<1>2. ASSUME NEW a \in Accounts, AdminUpdateUser(a) PROVE Grows
  <2>1. PICK body \in OperatorAccounts :
          \E record \in Patched(panel[a], body) :
            ceiling' = IF record.expire = panel[a].expire
                         THEN ceiling
                         ELSE [ceiling EXCEPT ![a] = Later(@, record.expire)]
    BY <1>2 DEF AdminUpdateUser
  <2>2. PICK record \in Patched(panel[a], body) :
          ceiling' = IF record.expire = panel[a].expire
                       THEN ceiling
                       ELSE [ceiling EXCEPT ![a] = Later(@, record.expire)]
    BY <2>1
  <2>3. record.expire \in Nat /\ UNCHANGED granted
    BY <1>2, PanelAssumption DEF AdminUpdateUser, Exists, Patched, PanelTypeOK, Account
  <2>. QED BY <1>1, <2>2, <2>3
<1>3. ASSUME NEW a \in Accounts, AdminCreateUser(a) PROVE Grows
  BY <1>1, <1>3, PanelAssumption DEF AdminCreateUser, Account
<1>. QED BY <1>2, <1>3 DEF Operator

=============================================================================
