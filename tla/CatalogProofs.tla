---------------------------- MODULE CatalogProofs ----------------------------
(***************************************************************************)
(* Proofs about PlanCatalog, for any plans, rows, requests and number of   *)
(* administrators.                                                         *)
(***************************************************************************)
EXTENDS PlanCatalog, TLAPS

(***************************************************************************)
(* Rows and requests.                                                      *)
(***************************************************************************)
Holding == Editing \cup Reordering \cup {Idle}

SameButPlace(r, s) ==
  /\ r = None <=> s = None
  /\ r # None => r.details = s.details /\ r.active = s.active

\* An edit sets the fields it names, and leaves the others.
LEMMA EditFields ==
  ASSUME NEW patch \in Patches, NEW row \in Row
  PROVE  /\ Over(patch, row) \in Row
         /\ Over(patch, row).active = IF "active" \in DOMAIN patch THEN patch["active"] ELSE row.active
         /\ Over(patch, row).details = IF "details" \in DOMAIN patch THEN patch["details"] ELSE row.details
<1>1. Over(patch, row) \in Row
  BY CatalogAssumption
<1>2. row.active = row["active"] /\ row.details = row["details"]
  OBVIOUS
<1>3. "active" \in Fields /\ "details" \in Fields
  BY DEF Fields
<1>. QED
  BY <1>1, <1>2, <1>3 DEF Over

\* The same edit of two rows that differ in their place.
LEMMA EditAlike ==
  ASSUME NEW patch \in Patches, NEW r \in Row, NEW s \in Row, SameButPlace(r, s)
  PROVE  SameButPlace(Over(patch, r), Over(patch, s))
<1>1. r # None /\ s # None /\ Over(patch, r) # None /\ Over(patch, s) # None
  BY EditFields, CatalogAssumption
<1>. QED BY <1>1, EditFields DEF SameButPlace

\* A move of a request that is put into the table.
LEMMA MoveType ==
  ASSUME NEW x \in Reordering, NEW i \in 1 .. Len(x.body)
  PROVE  x.body[i][1] \in PlanIds /\ x.body[i][2] \in Places
<1>1. x.body \in Seq(PlanIds \X Places)
  BY CatalogAssumption DEF Reordering
<1>2. x.body[i] \in PlanIds \X Places
  BY <1>1
<1>. QED BY <1>2

\* What it means for a request to be crossed.
LEMMA CrossedRequest ==
  ASSUME NEW x \in Editing \cup Reordering
  PROVE  LET y == [x EXCEPT !.crossed = TRUE] IN
         /\ y \in Holding /\ y.pc = x.pc /\ y.crossed = TRUE /\ Holds(y) = Holds(x)
         /\ x.pc = "save" => y.plan = x.plan
         /\ x.pc = "reorder" => y.body = x.body /\ y.done = x.done
<1>1. CASE x \in Editing
  BY <1>1 DEF Editing, Holding, Holds
<1>2. CASE x \in Reordering
  BY <1>2 DEF Reordering, Holding, Holds
<1>. QED BY <1>1, <1>2

(***************************************************************************)
(* The invariant.  What a request that nobody crossed has read, or has     *)
(* written, is still in the table.  The table differs from what was        *)
(* acknowledged in places only, and only of plans that are being moved.    *)
(***************************************************************************)
Fresh(x) ==
  ~ x.crossed =>
    /\ x.pc = "save" => plans[x.plan] = x.seen
    /\ x.pc = "reorder" => \A id \in PlanIds, i \in 1 .. x.done :
         LastMove(x, id, i) => plans[id] = None \/ plans[id].place = x.body[i][2]

Sound(x) ==
  x # Idle =>
    /\ x.pc = "save" => x.plan \in issued
    /\ x.pc = "reorder" =>
         x.done <= Len(x.body) /\ \A id \in Holds(x) : \E i \in 1 .. x.done : LastMove(x, id, i)
    /\ Fresh(x)

Agrees(id) ==
  /\ SameButPlace(plans[id], said[id])
  /\ BeingMoved(id) \/ plans[id] = said[id]

CatalogInv ==
  /\ TypeOK
  /\ \A e \in Editors : Sound(editor[e])
  /\ \A id \in PlanIds : Agrees(id)

\* What a request at work is.
LEMMA AtWork ==
  ASSUME CatalogInv, NEW e \in Editors
  PROVE  /\ editor[e].pc = "save" => editor[e] \in Editing
         /\ editor[e].pc = "reorder" => editor[e] \in Reordering
         /\ editor[e].pc \in {"save", "reorder"} => editor[e] # Idle
         /\ editor[e] \in Holding
         /\ Holds(editor[e]) \subseteq PlanIds
<1>1. editor[e] \in Holding
  BY DEF CatalogInv, TypeOK, Holding
<1>2. CASE editor[e] \in Editing
  BY <1>2 DEF Editing, Holding, Holds, Idle
<1>3. CASE editor[e] \in Reordering
  <2>1. editor[e].pc = "reorder" /\ editor[e] # Idle
    BY <1>3 DEF Reordering, Idle
  <2>2. editor[e].done <= Len(editor[e].body)
    BY <2>1 DEF CatalogInv, Sound
  <2>3. Holds(editor[e]) = {editor[e].body[i][1] : i \in 1 .. editor[e].done}
    BY <2>1 DEF Holds
  <2>4. \A i \in 1 .. editor[e].done : i \in 1 .. Len(editor[e].body)
    <3>1. editor[e].body \in Seq(PlanIds \X Places) /\ editor[e].done \in Nat
      BY <1>3, CatalogAssumption DEF Reordering
    <3>. QED BY <2>2, <3>1
  <2>5. Holds(editor[e]) \subseteq PlanIds
    BY <1>3, <2>3, <2>4, MoveType
  <2>. QED BY <1>1, <1>3, <2>1, <2>5
<1>4. CASE editor[e] = Idle
  BY <1>1, <1>4 DEF Idle, Holds
<1>. QED BY <1>1, <1>2, <1>3, <1>4 DEF Holding

\* A plan that is the last moved by some move of a request is one it holds.
LEMMA LastIsHeld ==
  ASSUME NEW x, x.pc = "reorder", NEW id, NEW i \in 1 .. x.done, LastMove(x, id, i)
  PROVE  id \in Holds(x)
BY DEF LastMove, Holds

\* A request that is left alone, and whose plans are.
LEMMA Undisturbed ==
  ASSUME CatalogInv, NEW f \in Editors, editor'[f] = editor[f], issued \subseteq issued',
         \A o \in Holds(editor[f]) : plans'[o] = plans[o]
  PROVE  /\ Sound(editor[f])'
         /\ editor'[f] \in Holding /\ editor'[f].pc = editor[f].pc
         /\ Holds(editor[f])' = Holds(editor[f])
<1> DEFINE x == editor[f]
<1>1. Sound(x)
  BY DEF CatalogInv
<1>2. x \in Holding
  BY AtWork
<1>3. Holds(x)' = Holds(x)
  BY DEF Holds
<1>4. x.pc = "save" => x.plan \in Holds(x)
  BY DEF Holds
<1>5. Fresh(x) => Fresh(x)'
  <2> SUFFICES ASSUME Fresh(x), ~ x.crossed PROVE Fresh(x)'
    BY DEF Fresh
  <2>1. x.pc = "save" => plans'[x.plan] = x.seen
    BY <1>4 DEF Fresh
  <2>2. ASSUME x.pc = "reorder", NEW id \in PlanIds, NEW i \in 1 .. x.done, LastMove(x, id, i)
        PROVE  plans'[id] = None \/ plans'[id].place = x.body[i][2]
    <3>1. id \in Holds(x)
      BY <2>2, LastIsHeld
    <3>. QED BY <2>2, <3>1 DEF Fresh
  <2>. QED BY <2>1, <2>2 DEF Fresh, LastMove
<1>6. Sound(x)'
  BY <1>1, <1>3, <1>5 DEF Sound, LastMove
<1>. QED BY <1>2, <1>3, <1>6

\* Somebody else writes one plan.
LEMMA Crossing ==
  ASSUME CatalogInv, NEW id \in PlanIds, NEW e, NEW f \in Editors, f # e,
         editor'[f] = Cross(id, e)[f], issued \subseteq issued',
         \A o \in PlanIds \ {id} : plans'[o] = plans[o]
  PROVE  /\ Sound(editor[f])'
         /\ editor'[f] \in Holding /\ editor'[f].pc = editor[f].pc
         /\ Holds(editor[f])' = Holds(editor[f])
<1>1. CASE id \in Holds(editor[f])
  <2> DEFINE x == editor[f]
             y == [x EXCEPT !.crossed = TRUE]
  <2>1. editor'[f] = y
    BY <1>1 DEF Cross
  <2>2. x \in Editing \cup Reordering
    BY <1>1, AtWork DEF Holding, Holds, Idle
  <2>3. /\ y \in Holding /\ y.pc = x.pc /\ y.crossed = TRUE /\ Holds(y) = Holds(x)
        /\ x.pc = "save" => y.plan = x.plan
        /\ x.pc = "reorder" => y.body = x.body /\ y.done = x.done
    BY <2>2, CrossedRequest
  <2>4. Sound(x) /\ x # Idle
    BY <2>2 DEF CatalogInv, Editing, Reordering, Idle
  <2>5. Holds(x)' = Holds(x)
    BY <2>1, <2>3 DEF Holds
  <2>6. Sound(x)'
    <3> HIDE DEF y
    <3>. QED BY <2>1, <2>3, <2>4, <2>5 DEF Sound, Fresh, LastMove
  <2>. QED BY <2>1, <2>3, <2>5, <2>6
<1>2. CASE id \notin Holds(editor[f])
  <2>1. editor'[f] = editor[f]
    BY <1>2 DEF Cross
  <2>2. \A o \in Holds(editor[f]) : plans'[o] = plans[o]
    BY <1>2, AtWork
  <2>. QED BY <2>1, <2>2, Undisturbed
<1>. QED BY <1>1, <1>2

\* Some rows agree at once.
LEMMA AgreesAtOnce ==
  ASSUME NEW id, plans'[id] = said'[id]
  PROVE  Agrees(id)'
BY DEF Agrees, SameButPlace

\* A plan that nobody wrote, and that is moved as it was.
LEMMA AgreesStill ==
  ASSUME NEW id, Agrees(id), plans'[id] = plans[id], said'[id] = said[id],
         BeingMoved(id) => BeingMoved(id)'
  PROVE  Agrees(id)'
BY DEF Agrees

\* Requests that moved a plan, and that only others may have crossed.
LEMMA MovedStill ==
  ASSUME NEW id, NEW e, editor[e].pc # "reorder",
         \A f \in Editors \ {e} :
           editor'[f].pc = editor[f].pc /\ Holds(editor[f])' = Holds(editor[f])
  PROVE  BeingMoved(id) => BeingMoved(id)'
BY DEF BeingMoved

\* A request that takes up its work, or ends, and writes nothing.
LEMMA OneMoves ==
  ASSUME CatalogInv, NEW e \in Editors, NEW x \in Holding,
         editor' = [editor EXCEPT ![e] = x], UNCHANGED <<plans, issued>>
  PROVE  /\ editor' \in [Editors -> Holding] /\ editor'[e] = x
         /\ \A f \in Editors \ {e} :
              /\ Sound(editor[f])'
              /\ editor'[f].pc = editor[f].pc /\ Holds(editor[f])' = Holds(editor[f])
<1>1. /\ editor' \in [Editors -> Holding] /\ editor'[e] = x
      /\ \A f \in Editors \ {e} : editor'[f] = editor[f]
  BY DEF CatalogInv, TypeOK, Holding
<1>. QED BY <1>1, Undisturbed

\* A request that writes one plan while others are at work.
LEMMA OneWrites ==
  ASSUME CatalogInv, NEW e \in Editors, NEW id \in PlanIds, NEW x \in Holding,
         editor' = [Cross(id, e) EXCEPT ![e] = x], UNCHANGED issued,
         \A o \in PlanIds \ {id} : plans'[o] = plans[o]
  PROVE  /\ editor' \in [Editors -> Holding] /\ editor'[e] = x
         /\ \A f \in Editors \ {e} :
              /\ Sound(editor[f])'
              /\ editor'[f].pc = editor[f].pc /\ Holds(editor[f])' = Holds(editor[f])
<1>1. /\ editor'[e] = x /\ \A f \in Editors \ {e} : editor'[f] = Cross(id, e)[f]
      /\ editor' = [f \in Editors |-> editor'[f]]
  BY DEF Cross
<1>2. \A f \in Editors \ {e} :
        /\ Sound(editor[f])' /\ editor'[f] \in Holding
        /\ editor'[f].pc = editor[f].pc /\ Holds(editor[f])' = Holds(editor[f])
  BY <1>1, Crossing
<1>3. editor' \in [Editors -> Holding]
  BY <1>1, <1>2
<1>. QED BY <1>1, <1>2, <1>3

\* A request of one statement writes one plan.
LEMMA Writes ==
  ASSUME CatalogInv, NEW id \in PlanIds, editor' = Cross(id, None), issued \subseteq issued',
         \A o \in PlanIds \ {id} : plans'[o] = plans[o]
  PROVE  /\ editor' \in [Editors -> Holding]
         /\ \A f \in Editors :
              /\ Sound(editor[f])'
              /\ editor'[f].pc = editor[f].pc /\ Holds(editor[f])' = Holds(editor[f])
<1>1. \A f \in Editors : f # None /\ editor'[f] = Cross(id, None)[f]
  BY CatalogAssumption
<1>2. \A f \in Editors :
        /\ Sound(editor[f])' /\ editor'[f] \in Holding
        /\ editor'[f].pc = editor[f].pc /\ Holds(editor[f])' = Holds(editor[f])
  BY <1>1, Crossing
<1>3. editor' \in [Editors -> Holding]
  BY <1>2 DEF Cross
<1>. QED BY <1>2, <1>3

(***************************************************************************)
(* The steps.                                                              *)
(***************************************************************************)

\* The table starts as it was acknowledged, and nobody is at work.
LEMMA CatalogInit == Init => CatalogInv
<1> SUFFICES ASSUME Init PROVE CatalogInv
  OBVIOUS
<1>1. ServerTypeOK
  BY ServerAssumption DEF Init, ServerInit, ServerTypeOK
<1>2. plans \in [PlanIds -> Row \cup {None}]
  BY CatalogAssumption DEF Init
<1>3. TypeOK
  BY <1>1, <1>2 DEF Init, TypeOK
<1>4. \A e \in Editors : Sound(editor[e])
  BY DEF Init, Sound
<1>5. \A id \in PlanIds : Agrees(id)
  BY DEF Init, Agrees, SameButPlace
<1>. QED BY <1>3, <1>4, <1>5 DEF CatalogInv

\* A request of one statement, answered with what it wrote.
LEMMA OneStatement ==
  ASSUME CatalogInv, NEW id \in PlanIds, NEW row \in Row \cup {None}, UNCHANGED serverVars,
         Write(id, row), Answer(id, row), editor' = Cross(id, None),
         issued \subseteq issued', issued' \subseteq PlanIds, row # None => id \in issued'
  PROVE  CatalogInv'
<1>t. /\ plans \in [PlanIds -> Row \cup {None}] /\ said \in [PlanIds -> Row \cup {None}]
      /\ \A o \in PlanIds : plans[o] # None => o \in issued
  BY DEF CatalogInv, TypeOK
<1>1. /\ plans'[id] = row /\ said'[id] = row
      /\ \A o \in PlanIds \ {id} : plans'[o] = plans[o] /\ said'[o] = said[o]
      /\ plans' \in [PlanIds -> Row \cup {None}] /\ said' \in [PlanIds -> Row \cup {None}]
  BY <1>t DEF Write, Answer
<1>2. /\ editor' \in [Editors -> Holding]
      /\ \A f \in Editors :
           /\ Sound(editor[f])'
           /\ editor'[f].pc = editor[f].pc /\ Holds(editor[f])' = Holds(editor[f])
  BY <1>1, Writes
<1>3. TypeOK'
  BY <1>t, <1>1, <1>2 DEF CatalogInv, TypeOK, Holding, serverVars, ServerTypeOK
<1>4. ASSUME NEW o \in PlanIds PROVE Agrees(o)'
  <2>1. CASE o = id
    BY <1>1, <2>1, AgreesAtOnce
  <2>2. CASE o # id
    BY <1>1, <1>2, <2>2, AgreesStill DEF CatalogInv, BeingMoved
  <2>. QED BY <2>1, <2>2
<1>. QED BY <1>2, <1>3, <1>4 DEF CatalogInv

\* A request takes up its work.
LEMMA OneStarts ==
  ASSUME CatalogInv, NEW e \in Editors, NEW x \in Holding, editor[e] = Idle,
         x.pc = "reorder" => x.done = 0 /\ x.body \in Arrangements,
         x.pc = "save" => plans[x.plan] = x.seen /\ x.plan \in issued,
         editor' = [editor EXCEPT ![e] = x], UNCHANGED <<serverVars, plans, issued, said>>
  PROVE  CatalogInv'
<1>1. /\ editor' \in [Editors -> Holding] /\ editor'[e] = x
      /\ \A f \in Editors \ {e} :
           /\ Sound(editor[f])'
           /\ editor'[f].pc = editor[f].pc /\ Holds(editor[f])' = Holds(editor[f])
  BY OneMoves
<1>2. TypeOK'
  BY <1>1 DEF CatalogInv, TypeOK, Holding, serverVars, ServerTypeOK
<1>3. Sound(editor[e])'
  <2>1. x.pc = "reorder" => Holds(x) = {}
    BY DEF Holds
  <2>2. x.pc = "reorder" => x.done <= Len(x.body)
    BY CatalogAssumption
  <2>3. Holds(editor[e])' = Holds(x)
    BY <1>1 DEF Holds
  <2>. QED BY <1>1, <2>1, <2>2, <2>3 DEF Sound, Fresh
<1>4. \A id \in PlanIds : Agrees(id)'
  <2>1. editor[e].pc # "reorder"
    BY DEF Idle
  <2>. QED BY <1>1, <2>1, MovedStill, AgreesStill DEF CatalogInv
<1>. QED BY <1>1, <1>2, <1>3, <1>4 DEF CatalogInv

\* A request ends and writes nothing more.  What it moved, if it moved plans, is
\* acknowledged as it is.
LEMMA OneEnds ==
  ASSUME CatalogInv, NEW e \in Editors, Return(e, editor), UNCHANGED <<serverVars, plans, issued>>,
         said' \in [PlanIds -> Row \cup {None}],
         \A id \in PlanIds : said'[id] = said[id] \/ said'[id] = plans[id],
         editor[e].pc = "reorder" => \A id \in Holds(editor[e]) : said'[id] = plans[id]
  PROVE  CatalogInv'
<1>0. Idle \in Holding
  BY DEF Holding
<1>1. /\ editor' \in [Editors -> Holding] /\ editor'[e] = Idle
      /\ \A f \in Editors \ {e} :
           /\ Sound(editor[f])'
           /\ editor'[f].pc = editor[f].pc /\ Holds(editor[f])' = Holds(editor[f])
  BY <1>0, OneMoves DEF Return
<1>2. TypeOK'
  BY <1>1 DEF CatalogInv, TypeOK, Holding, serverVars, ServerTypeOK
<1>3. Sound(editor[e])'
  BY <1>1 DEF Sound
<1>4. ASSUME NEW id \in PlanIds PROVE Agrees(id)'
  <2>1. CASE said'[id] = plans[id]
    BY <2>1, AgreesAtOnce
  <2>2. CASE said'[id] # plans[id]
    <3>1. said'[id] = said[id] /\ ~ (editor[e].pc = "reorder" /\ id \in Holds(editor[e]))
      BY <2>2
    <3>2. BeingMoved(id) => BeingMoved(id)'
      BY <1>1, <3>1 DEF BeingMoved
    <3>. QED BY <3>1, <3>2, AgreesStill DEF CatalogInv
  <2>. QED BY <2>1, <2>2
<1>. QED BY <1>1, <1>2, <1>3, <1>4 DEF CatalogInv

\* A request ends as it writes one plan.
LEMMA OneWritesAndEnds ==
  ASSUME CatalogInv, NEW e \in Editors, NEW id \in PlanIds, Return(e, Cross(id, e)),
         UNCHANGED <<serverVars, issued>>, plans'[id] # None => id \in issued,
         plans' \in [PlanIds -> Row \cup {None}], said' \in [PlanIds -> Row \cup {None}],
         \A o \in PlanIds \ {id} : plans'[o] = plans[o] /\ (said'[o] = said[o] \/ said'[o] = plans[o]),
         \/ plans'[id] = said'[id]
         \/ SameButPlace(plans'[id], said'[id]) /\ BeingMoved(id) /\ editor[e].pc = "save",
         editor[e].pc = "reorder" => \A o \in Holds(editor[e]) : said'[o] = plans'[o]
  PROVE  CatalogInv'
<1>0. Idle \in Holding
  BY DEF Holding
<1>1. /\ editor' \in [Editors -> Holding] /\ editor'[e] = Idle
      /\ \A f \in Editors \ {e} :
           /\ Sound(editor[f])'
           /\ editor'[f].pc = editor[f].pc /\ Holds(editor[f])' = Holds(editor[f])
  BY <1>0, OneWrites DEF Return
<1>2. TypeOK'
  BY <1>1 DEF CatalogInv, TypeOK, Holding, serverVars, ServerTypeOK
<1>3. Sound(editor[e])'
  BY <1>1 DEF Sound
<1>4. ASSUME NEW o \in PlanIds PROVE Agrees(o)'
  <2>1. CASE said'[o] = plans'[o]
    BY <2>1, AgreesAtOnce
  <2>2. CASE said'[o] # plans'[o] /\ o # id
    <3>1. said'[o] = said[o] /\ ~ (editor[e].pc = "reorder" /\ o \in Holds(editor[e]))
      BY <2>2
    <3>2. BeingMoved(o) => BeingMoved(o)'
      BY <1>1, <3>1 DEF BeingMoved
    <3>. QED BY <2>2, <3>1, <3>2, AgreesStill DEF CatalogInv
  <2>3. CASE said'[o] # plans'[o] /\ o = id
    BY <1>1, <2>3, MovedStill DEF Agrees
  <2>. QED BY <2>1, <2>2, <2>3
<1>. QED BY <1>1, <1>2, <1>3, <1>4 DEF CatalogInv

\* An edit that nobody crossed sets its fields over the row it has read.
LEMMA Saves ==
  ASSUME CatalogInv, NEW e \in Editors, SavePlan(e), UNCHANGED serverVars
  PROVE  CatalogInv'
<1> DEFINE x   == editor[e]
           new == Changed(x.seen, x.patch)
<1>t. /\ plans \in [PlanIds -> Row \cup {None}] /\ said \in [PlanIds -> Row \cup {None}]
      /\ x \in Editing /\ x.pc = "save" /\ Sound(x) /\ x # Idle
  BY AtWork DEF CatalogInv, TypeOK, SavePlan
<1> PICK id \in PlanIds : id = x.plan
  BY <1>t DEF Editing
<1>1. id \in issued /\ x.seen \in Row /\ x.patch \in Patches
  BY <1>t DEF Sound, Editing
<1>2. new \in Row /\ Inserted(new) \in Row
  BY <1>1, EditFields DEF Changed, Inserted, Row
<1>3. CASE Return(e, editor) /\ UNCHANGED <<plans, said>>
  BY <1>t, <1>3, OneEnds DEF SavePlan
<1>4. CASE /\ Write(id, IF plans[id] = None THEN Inserted(new) ELSE new)
           /\ Return(e, Cross(id, e))
           /\ IF x.crossed THEN AsDone({id}) ELSE Answer(id, Over(x.patch, said[id]))
  <2>1. /\ plans'[id] = IF plans[id] = None THEN Inserted(new) ELSE new
        /\ plans' \in [PlanIds -> Row \cup {None}]
        /\ \A o \in PlanIds \ {id} : plans'[o] = plans[o]
    BY <1>t, <1>2, <1>4 DEF Write
  <2>2. UNCHANGED issued
    BY DEF SavePlan
  <2>3. CASE x.crossed
    <3>1. AsDone({id})
      BY <1>4, <2>3
    <3>2. /\ said' \in [PlanIds -> Row \cup {None}] /\ said'[id] = plans'[id]
          /\ \A o \in PlanIds \ {id} : said'[o] = said[o]
      BY <1>t, <2>1, <3>1 DEF AsDone
    <3>. QED BY <1>t, <1>1, <1>4, <2>1, <2>2, <3>2, OneWritesAndEnds
  <2>4. CASE ~ x.crossed
    <3>1. plans[id] = x.seen /\ x.seen # None
      BY <1>t, <1>1, <2>4, CatalogAssumption DEF Sound, Fresh
    <3>2. plans'[id] = Over(x.patch, plans[id])
      BY <2>1, <3>1 DEF Changed
    <3>3. /\ said[id] \in Row /\ SameButPlace(plans[id], said[id])
          /\ BeingMoved(id) \/ plans[id] = said[id]
      BY <1>t, <3>1 DEF CatalogInv, Agrees, SameButPlace
    <3>4. Over(x.patch, said[id]) \in Row
      BY <1>1, <3>3, EditFields
    <3>5. /\ said' \in [PlanIds -> Row \cup {None}] /\ said'[id] = Over(x.patch, said[id])
          /\ \A o \in PlanIds \ {id} : said'[o] = said[o]
      BY <1>t, <1>4, <2>4, <3>4 DEF Answer
    <3>6. SameButPlace(plans'[id], said'[id])
      BY <1>1, <3>1, <3>2, <3>3, <3>5, EditAlike
    <3>7. plans'[id] = said'[id] \/ BeingMoved(id)
      BY <3>2, <3>3, <3>5
    <3>. QED BY <1>t, <1>1, <1>4, <2>1, <2>2, <3>5, <3>6, <3>7, OneWritesAndEnds
  <2>. QED BY <2>3, <2>4
<1>. QED BY <1>3, <1>4 DEF SavePlan

\* What a move does to the table.
LEMMA TableMoves ==
  ASSUME CatalogInv, NEW id \in PlanIds, NEW place \in Places, plans' = Moved(id, place)
  PROVE  /\ plans' \in [PlanIds -> Row \cup {None}]
         /\ \A o \in PlanIds \ {id} : plans'[o] = plans[o]
         /\ SameButPlace(plans'[id], plans[id])
         /\ plans'[id] = None \/ plans'[id].place = place
         /\ plans'[id] # None => id \in issued
<1>1. plans \in [PlanIds -> Row \cup {None}] /\ (plans[id] # None => id \in issued)
  BY DEF CatalogInv, TypeOK
<1>2. CASE plans[id] = None
  BY <1>1, <1>2 DEF Moved, SameButPlace
<1>3. CASE plans[id] # None
  <2>1. plans[id] \in Row
    BY <1>1, <1>3
  <2>2. [plans[id] EXCEPT !.place = place] \in Row
    BY <2>1 DEF Row
  <2>3. /\ plans'[id] = [plans[id] EXCEPT !.place = place]
        /\ \A o \in PlanIds \ {id} : plans'[o] = plans[o]
        /\ plans' \in [PlanIds -> Row \cup {None}]
    BY <1>1, <1>3, <2>2 DEF Moved
  <2>4. plans'[id].place = place /\ SameButPlace(plans'[id], plans[id])
    BY <1>3, <2>1, <2>2, <2>3, CatalogAssumption DEF Row, SameButPlace
  <2>. QED BY <1>1, <1>3, <2>3, <2>4
<1>. QED BY <1>2, <1>3

\* The request whose turn of the loop it is, and its move.
LEMMA NextMove ==
  ASSUME CatalogInv, NEW e \in Editors, editor[e].pc = "reorder",
         editor[e].done < Len(editor[e].body)
  PROVE  LET x == editor[e]
             y == [x EXCEPT !.done = x.done + 1]
             id == x.body[x.done + 1][1]
         IN
         /\ x \in Reordering /\ y \in Reordering /\ id \in PlanIds
         /\ x.body[x.done + 1][2] \in Places
         /\ y.pc = "reorder" /\ y.body = x.body /\ y.done = x.done + 1 /\ y.crossed = x.crossed
         /\ y.done <= Len(y.body) /\ x.done \in Nat /\ y # Idle
         /\ Holds(y) = Holds(x) \cup {id}
<1> DEFINE x == editor[e]
           y == [x EXCEPT !.done = x.done + 1]
           id == x.body[x.done + 1][1]
<1>1. x \in Reordering
  BY AtWork
<1>2. /\ y \in Reordering /\ y.pc = "reorder" /\ y.body = x.body
      /\ y.done = x.done + 1 /\ y.crossed = x.crossed /\ x.done \in Nat /\ y # Idle
  BY <1>1 DEF Reordering, Idle
<1>3. x.body \in Seq(PlanIds \X Places) /\ Len(x.body) \in Nat
  BY <1>1, CatalogAssumption DEF Reordering
<1>4. x.done + 1 \in 1 .. Len(x.body) /\ y.done <= Len(y.body)
  BY <1>2, <1>3
<1>5. id \in PlanIds /\ x.body[x.done + 1][2] \in Places
  BY <1>1, <1>4, MoveType
<1>6. Holds(y) = Holds(x) \cup {id}
  <2>1. Holds(x) = {x.body[i][1] : i \in 1 .. x.done} /\ Holds(y) = {x.body[i][1] : i \in 1 .. x.done + 1}
    BY <1>2 DEF Holds
  <2>2. 1 .. x.done + 1 = (1 .. x.done) \cup {x.done + 1}
    BY <1>2
  <2>. QED BY <2>1, <2>2
<1>. QED BY <1>1, <1>2, <1>4, <1>5, <1>6

\* The move whose turn it is.
IsNext(x, id, place) ==
  /\ x.pc = "reorder" /\ x.done < Len(x.body)
  /\ x.body[x.done + 1][1] = id /\ x.body[x.done + 1][2] = place

AfterMove(x) == [x EXCEPT !.done = x.done + 1]

\* One turn of the loop: the plan has its place, and its last move is this one.
LEMMA TurnsOnce ==
  ASSUME CatalogInv, NEW e \in Editors, NEW x \in Reordering, x = editor[e],
         NEW id \in PlanIds, NEW place \in Places, IsNext(x, id, place),
         plans' = Moved(id, place), editor' = [Cross(id, e) EXCEPT ![e] = AfterMove(x)],
         UNCHANGED <<serverVars, issued, said>>
  PROVE  CatalogInv'
<1>0. AfterMove(x) \in Reordering
  BY NextMove DEF IsNext, AfterMove
<1> PICK y \in Reordering : y = AfterMove(x)
  BY <1>0
<1>t. /\ plans \in [PlanIds -> Row \cup {None}] /\ said \in [PlanIds -> Row \cup {None}]
      /\ Sound(x) /\ x # Idle /\ x.pc = "reorder"
  BY AtWork DEF CatalogInv, TypeOK, IsNext
<1>1. /\ y \in Reordering /\ y.pc = "reorder" /\ y.body = x.body /\ y.done = x.done + 1
      /\ y.crossed = x.crossed /\ y.done <= Len(y.body) /\ x.done \in Nat /\ y # Idle
      /\ Holds(y) = Holds(x) \cup {id}
  BY NextMove DEF IsNext, AfterMove
<1>m. y \in Holding /\ editor' = [Cross(id, e) EXCEPT ![e] = y]
  BY <1>1 DEF Holding
<1>2. /\ plans' \in [PlanIds -> Row \cup {None}]
      /\ \A o \in PlanIds \ {id} : plans'[o] = plans[o]
      /\ SameButPlace(plans'[id], plans[id])
      /\ plans'[id] = None \/ plans'[id].place = place
  BY TableMoves
<1>3. /\ editor' \in [Editors -> Holding] /\ editor'[e] = y
      /\ \A f \in Editors \ {e} :
           /\ Sound(editor[f])'
           /\ editor'[f].pc = editor[f].pc /\ Holds(editor[f])' = Holds(editor[f])
  <2>1. UNCHANGED issued /\ \A o \in PlanIds \ {id} : plans'[o] = plans[o]
    BY <1>2
  <2>. QED BY <1>m, <2>1, OneWrites, Zenon
<1>4. TypeOK'
  <2>1. \A o \in PlanIds : plans'[o] # None => o \in issued
    BY <1>2 DEF CatalogInv, TypeOK, SameButPlace
  <2>. QED BY <1>t, <1>2, <1>3, <2>1 DEF CatalogInv, TypeOK, Holding, serverVars, ServerTypeOK
<1>5. ASSUME NEW o \in PlanIds, NEW i \in 1 .. y.done, LastMove(y, o, i)
      PROVE  \/ o = id /\ i = y.done
             \/ o # id /\ i \in 1 .. x.done /\ LastMove(x, o, i)
  <2>1. x.body[i][1] = o /\ \A k \in i + 1 .. y.done : x.body[k][1] # o
    BY <1>1, <1>5 DEF LastMove
  <2>2. x.body[y.done][1] = id
    BY <1>1 DEF IsNext
  <2>3. CASE i = y.done
    BY <2>1, <2>2, <2>3
  <2>4. CASE i # y.done
    <3>1. i \in 1 .. x.done /\ y.done \in i + 1 .. y.done /\ x.done \in Nat
      BY <1>1, <2>4
    <3>2. o # id
      BY <2>1, <2>2, <3>1
    <3>3. \A k \in i + 1 .. x.done : k \in i + 1 .. y.done
      BY <1>1, <3>1
    <3>4. LastMove(x, o, i)
      BY <2>1, <3>3 DEF LastMove
    <3>. QED BY <3>1, <3>2, <3>4
  <2>. QED BY <2>3, <2>4
<1>6. \A o \in Holds(y) : \E i \in 1 .. y.done : LastMove(y, o, i)
  <2>1. LastMove(y, id, y.done) /\ y.done \in 1 .. y.done
    BY <1>1 DEF LastMove, IsNext
  <2>2. \A o \in Holds(x) \ {id}, i \in 1 .. x.done :
          LastMove(x, o, i) => i \in 1 .. y.done /\ LastMove(y, o, i)
    BY <1>1 DEF LastMove, IsNext
  <2>3. \A o \in Holds(x) : \E i \in 1 .. x.done : LastMove(x, o, i)
    BY <1>t DEF Sound
  <2>. QED BY <1>1, <2>1, <2>2, <2>3
<1>h. Holds(editor[e])' = Holds(y)
  BY <1>3 DEF Holds
<1>7. Sound(editor[e])'
  <2>0. ASSUME NEW o, NEW i PROVE LastMove(editor[e], o, i)' <=> LastMove(y, o, i)
    BY <1>3 DEF LastMove
  <2>1. ASSUME ~ y.crossed, NEW o \in PlanIds, NEW i \in 1 .. y.done, LastMove(y, o, i)
        PROVE  plans'[o] = None \/ plans'[o].place = y.body[i][2]
    <3>1. CASE o = id /\ i = y.done
      BY <1>1, <1>2, <3>1 DEF IsNext
    <3>2. CASE o # id /\ i \in 1 .. x.done /\ LastMove(x, o, i)
      BY <1>t, <1>1, <1>2, <2>1, <3>2 DEF Sound, Fresh
    <3>. QED BY <1>5, <2>1, <3>1, <3>2
  <2>2. editor'[e].pc = "reorder" /\ \A o \in Holds(y) : \E i \in 1 .. y.done : LastMove(editor[e], o, i)'
    BY <1>1, <1>3, <1>6, <2>0
  <2>3. Fresh(editor[e])'
    BY <1>1, <1>3, <2>0, <2>1 DEF Fresh
  <2>. QED BY <1>1, <1>3, <1>h, <2>2, <2>3 DEF Sound
<1>8. \A o \in PlanIds : (BeingMoved(o) => BeingMoved(o)') /\ BeingMoved(id)'
  <2>1. editor'[e].pc = "reorder" /\ Holds(editor[e])' = Holds(x) \cup {id}
    BY <1>1, <1>3, <1>h
  <2>. QED BY <1>3, <2>1 DEF BeingMoved
<1>9. ASSUME NEW o \in PlanIds PROVE Agrees(o)'
  <2>1. CASE o # id
    BY <1>2, <1>8, <2>1, AgreesStill DEF CatalogInv
  <2>2. CASE o = id
    BY <1>2, <1>8, <2>2 DEF CatalogInv, Agrees, SameButPlace
  <2>. QED BY <2>1, <2>2
<1>. QED BY <1>3, <1>4, <1>7, <1>9 DEF CatalogInv

\* A turn of the loop, and the two ways in which it ends the request.
LEMMA Turns ==
  ASSUME CatalogInv, NEW e \in Editors, MovePlan(e), UNCHANGED serverVars
  PROVE  CatalogInv'
<1> DEFINE x == editor[e]
<1>t. /\ plans \in [PlanIds -> Row \cup {None}] /\ said \in [PlanIds -> Row \cup {None}]
      /\ x \in Reordering /\ x.pc = "reorder" /\ x.done < Len(x.body) /\ Holds(x) \subseteq PlanIds
  BY AtWork DEF CatalogInv, TypeOK, MovePlan
<1>n. x.body[x.done + 1][1] \in PlanIds /\ x.body[x.done + 1][2] \in Places
  BY <1>t, NextMove
<1> PICK id \in PlanIds, place \in Places : IsNext(x, id, place)
  BY <1>t, <1>n DEF IsNext
<1>u. UNCHANGED issued
  BY DEF MovePlan
<1>1. CASE /\ plans' = Moved(id, place)
           /\ editor' = [Cross(id, e) EXCEPT ![e].done = @ + 1]
           /\ UNCHANGED said
  <2>1. editor' = [Cross(id, e) EXCEPT ![e] = AfterMove(x)]
    BY <1>t, <1>1 DEF Cross, AfterMove
  <2>. QED BY <1>t, <1>u, <1>1, <2>1, TurnsOnce
<1>2. CASE plans' = Moved(id, place) /\ Return(e, Cross(id, e)) /\ AsDone(Holds(x) \cup {id})
  <2>1. /\ plans' \in [PlanIds -> Row \cup {None}]
        /\ \A o \in PlanIds \ {id} : plans'[o] = plans[o]
        /\ plans'[id] # None => id \in issued
    BY <1>2, TableMoves
  <2>2. /\ said' \in [PlanIds -> Row \cup {None}] /\ said'[id] = plans'[id]
        /\ \A o \in PlanIds : said'[o] = said[o] \/ said'[o] = plans'[o]
        /\ \A o \in Holds(x) : said'[o] = plans'[o]
    BY <1>t, <1>2, <2>1 DEF AsDone
  <2>. QED BY <1>2, <1>u, <2>1, <2>2, OneWritesAndEnds
<1>3. CASE plans' = plans /\ Return(e, editor) /\ AsDone(Holds(x))
  <2>1. /\ said' \in [PlanIds -> Row \cup {None}]
        /\ \A o \in PlanIds : said'[o] = said[o] \/ said'[o] = plans[o]
        /\ \A o \in Holds(x) : said'[o] = plans[o]
    BY <1>t, <1>3 DEF AsDone
  <2>. QED BY <1>3, <1>u, <2>1, OneEnds
<1>. QED BY <1>1, <1>2, <1>3 DEF MovePlan, IsNext

\* A reorder that nobody crossed is answered with the places it has given.
LEMMA Finishes ==
  ASSUME CatalogInv, NEW e \in Editors, EndReorder(e), UNCHANGED serverVars
  PROVE  CatalogInv'
<1> DEFINE x == editor[e]
<1>t. /\ plans \in [PlanIds -> Row \cup {None}] /\ said \in [PlanIds -> Row \cup {None}]
      /\ x \in Reordering /\ x.pc = "reorder" /\ Holds(x) \subseteq PlanIds
      /\ Sound(x) /\ x # Idle
      /\ Return(e, editor) /\ UNCHANGED <<plans, issued>>
  BY AtWork DEF CatalogInv, TypeOK, EndReorder
<1>1. CASE x.crossed
  <2>1. AsDone(Holds(x))
    BY <1>1 DEF EndReorder
  <2>2. /\ said' \in [PlanIds -> Row \cup {None}]
        /\ \A o \in PlanIds : said'[o] = said[o] \/ said'[o] = plans[o]
        /\ \A o \in Holds(x) : said'[o] = plans[o]
    BY <1>t, <2>1 DEF AsDone
  <2>. QED BY <1>t, <2>2, OneEnds
<1>2. CASE ~ x.crossed
  <2>1. said' = [id \in PlanIds |->
          IF id \in Holds(x) /\ said[id] # None
            THEN [said[id] EXCEPT !.place = PlaceOf(x, id)] ELSE said[id]]
    BY <1>2 DEF EndReorder
  <2>2. ASSUME NEW id \in Holds(x) PROVE said'[id] = plans[id]
    <3>1. id \in PlanIds /\ SameButPlace(plans[id], said[id])
      BY <1>t DEF CatalogInv, Agrees
    <3>2. CASE said[id] = None
      BY <2>1, <3>1, <3>2 DEF SameButPlace
    <3>3. CASE said[id] # None
      <4>1. plans[id] \in Row /\ said[id] \in Row /\ plans[id] # None
        BY <1>t, <3>1, <3>3 DEF SameButPlace
      <4>2. \E i \in 1 .. x.done : LastMove(x, id, i)
        BY <1>t DEF Sound
      <4>3. PlaceOf(x, id) = plans[id].place
        BY <1>t, <1>2, <3>1, <4>1, <4>2 DEF PlaceOf, Sound, Fresh
      <4>4. said'[id] = [said[id] EXCEPT !.place = plans[id].place]
        BY <2>1, <3>1, <3>3, <4>3
      <4>. QED BY <3>1, <4>1, <4>4 DEF SameButPlace, Row
    <3>. QED BY <3>2, <3>3
  <2>3. /\ said' \in [PlanIds -> Row \cup {None}]
        /\ \A o \in PlanIds : said'[o] = said[o] \/ said'[o] = plans[o]
    <3>1. ASSUME NEW o \in PlanIds PROVE said'[o] = said[o] \/ said'[o] = plans[o]
      BY <2>1, <2>2
    <3>2. \A o \in PlanIds : said'[o] \in Row \cup {None}
      BY <1>t, <3>1
    <3>. QED BY <2>1, <3>1, <3>2
  <2>. QED BY <1>t, <2>2, <2>3, OneEnds
<1>. QED BY <1>1, <1>2

\* Requests that are killed are taken at what they have done.
LEMMA KilledWhole == ASSUME CatalogInv, Killed PROVE CatalogInv'
<1>1. /\ editor' = [e \in Editors |-> Idle] /\ UNCHANGED <<plans, issued>>
      /\ AsDone(UNION {Holds(editor[e]) : e \in Editors})
      /\ ServerTypeOK'
  BY ServerAssumption DEF Killed, Restart, CatalogInv, TypeOK, ServerTypeOK
<1>2. said' \in [PlanIds -> Row \cup {None}]
  BY <1>1 DEF CatalogInv, TypeOK, AsDone
<1>3. TypeOK'
  BY <1>1, <1>2 DEF CatalogInv, TypeOK
<1>4. \A e \in Editors : Sound(editor[e])'
  BY <1>1 DEF Sound
<1>5. ASSUME NEW id \in PlanIds PROVE Agrees(id)'
  <2>1. CASE \E e \in Editors : id \in Holds(editor[e])
    BY <1>1, <2>1, AgreesAtOnce DEF AsDone
  <2>2. CASE \A e \in Editors : id \notin Holds(editor[e])
    BY <1>1, <2>2, AgreesStill DEF AsDone, BeingMoved, CatalogInv
  <2>. QED BY <2>1, <2>2
<1>. QED BY <1>3, <1>4, <1>5 DEF CatalogInv

LEMMA CatalogStep == CatalogInv /\ [Next]_vars => CatalogInv'
<1> SUFFICES ASSUME CatalogInv, [Next]_vars PROVE CatalogInv'
  OBVIOUS
<1>1. ASSUME NEW id \in PlanIds, NEW row \in NewPlans, AddPlan(id, row), UNCHANGED serverVars
      PROVE  CatalogInv'
  <2>1. row \in Row
    BY CatalogAssumption
  <2>2. Inserted(row) \in Row
    BY <2>1 DEF Inserted, Row
  <2>3. issued' \subseteq PlanIds /\ id \in issued'
    BY <1>1 DEF AddPlan, CatalogInv, TypeOK
  <2>. QED BY <1>1, <2>2, <2>3, OneStatement DEF AddPlan
<1>2. ASSUME NEW id \in PlanIds, DeletePlanWithID(id), UNCHANGED serverVars PROVE CatalogInv'
  <2>1. issued' \subseteq PlanIds
    BY <1>2 DEF DeletePlanWithID, CatalogInv, TypeOK
  <2>. QED BY <1>2, <2>1, OneStatement DEF DeletePlanWithID
<1>3. ASSUME NEW e \in Editors, NEW id \in PlanIds, UpdatePlan(e, id), UNCHANGED serverVars
      PROVE  CatalogInv'
  <2>1. plans[id] \in Row /\ id \in issued
    BY <1>3 DEF CatalogInv, TypeOK, UpdatePlan
  <2>2. PICK patch \in Patches :
          editor' = [editor EXCEPT ![e] =
            [pc |-> "save", plan |-> id, patch |-> patch, crossed |-> FALSE, seen |-> plans[id]]]
    BY <1>3 DEF UpdatePlan
  <2> DEFINE x == [pc |-> "save", plan |-> id, patch |-> patch, crossed |-> FALSE, seen |-> plans[id]]
  <2>3. x \in Holding /\ x.pc = "save" /\ x.plan = id /\ x.seen = plans[id]
    BY <2>1 DEF Editing, Holding
  <2> HIDE DEF x
  <2>. QED BY <1>3, <2>1, <2>2, <2>3, OneStarts DEF UpdatePlan, x
<1>4. ASSUME NEW e \in Editors, AdminReorderPlans(e), UNCHANGED serverVars PROVE CatalogInv'
  <2>1. PICK body \in Arrangements :
          editor' = [editor EXCEPT ![e] =
            [pc |-> "reorder", body |-> body, done |-> 0, crossed |-> FALSE]]
    BY <1>4 DEF AdminReorderPlans
  <2> DEFINE x == [pc |-> "reorder", body |-> body, done |-> 0, crossed |-> FALSE]
  <2>2. x \in Holding /\ x.pc = "reorder" /\ x.done = 0 /\ x.body \in Arrangements
    BY DEF Reordering, Holding
  <2>. QED BY <1>4, <2>1, <2>2, OneStarts DEF AdminReorderPlans
<1>5. ASSUME NEW e \in Editors, SavePlan(e), UNCHANGED serverVars PROVE CatalogInv'
  BY <1>5, Saves
<1>6. ASSUME NEW e \in Editors, MovePlan(e), UNCHANGED serverVars PROVE CatalogInv'
  BY <1>6, Turns
<1>7. ASSUME NEW e \in Editors, EndReorder(e), UNCHANGED serverVars PROVE CatalogInv'
  BY <1>7, Finishes
<1>8. CASE Killed
  BY <1>8, KilledWhole
<1>9. CASE UNCHANGED vars
  <2>1. TypeOK'
    BY <1>9 DEF vars, catalogVars, serverVars, CatalogInv, TypeOK, ServerTypeOK
  <2>2. \A e \in Editors : Sound(editor[e])'
    BY <1>9, Undisturbed DEF vars, catalogVars
  <2>3. \A id \in PlanIds : Agrees(id)'
    BY <1>9 DEF vars, catalogVars, CatalogInv, Agrees, BeingMoved, Holds
  <2>. QED BY <2>1, <2>2, <2>3 DEF CatalogInv
<1>. QED BY <1>1, <1>2, <1>3, <1>4, <1>5, <1>6, <1>7, <1>8, <1>9 DEF Next, Request

LEMMA CatalogInvariant == Spec => []CatalogInv
BY CatalogInit, CatalogStep, PTL DEF Spec

(***************************************************************************)
(* The theorems.                                                           *)
(***************************************************************************)

\* In every reachable state rows are whole, however their requests overlap.
THEOREM TypeCorrect == Spec => []TypeOK
<1>1. CatalogInv => TypeOK
  BY DEF CatalogInv
<1>. QED BY <1>1, CatalogInvariant, PTL

\* However many administrators work at one time and wherever the process is
\* killed, the table, and what the public is offered, is what the acknowledged
\* requests leave.
THEOREM TableIsAcknowledged == Spec => []AsAcknowledged
<1>1. CatalogInv => AsAcknowledged
  <2> SUFFICES ASSUME CatalogInv PROVE AsAcknowledged
    OBVIOUS
  <2>1. \A id \in PlanIds : BeingMoved(id) \/ plans[id] = said[id]
    BY DEF CatalogInv, Agrees
  <2>2. \A id \in PlanIds :
          (plans[id] # None /\ plans[id].active) <=> (said[id] # None /\ said[id].active)
    BY DEF CatalogInv, Agrees, SameButPlace
  <2>. QED BY <2>1, <2>2 DEF AsAcknowledged, Listed
<1>. QED BY <1>1, CatalogInvariant, PTL

\* Only an edit that had read the plan, and was crossed since, can bring back a
\* plan that was deleted.
THEOREM DeletedPlansStay == Spec => DeletedStaysDeleted
<1> DEFINE Back ==
      \A id \in issued : plans[id] = None /\ plans'[id] # None =>
        \E e \in Editors :
          /\ editor[e].pc = "save" /\ editor[e].plan = id
          /\ editor[e].crossed
<1>1. CatalogInv /\ [Next]_vars => [Back]_vars
  <2> SUFFICES ASSUME CatalogInv, Next,
                      NEW id \in issued, plans[id] = None, plans'[id] # None
               PROVE  \E e \in Editors :
                        editor[e].pc = "save" /\ editor[e].plan = id /\ editor[e].crossed
    OBVIOUS
  <2>t. plans \in [PlanIds -> Row \cup {None}] /\ id \in PlanIds
    BY DEF CatalogInv, TypeOK
  <2>1. ASSUME NEW o \in PlanIds, NEW row \in NewPlans, AddPlan(o, row) PROVE FALSE
    BY <2>t, <2>1 DEF AddPlan, Write
  <2>2. ASSUME NEW o \in PlanIds, DeletePlanWithID(o) PROVE FALSE
    BY <2>t, <2>2 DEF DeletePlanWithID, Write
  <2>3. ASSUME NEW e \in Editors, MovePlan(e) PROVE FALSE
    <3>1. PICK o, place : plans' = plans \/ plans' = Moved(o, place)
      BY <2>3 DEF MovePlan
    <3>. QED BY <2>t, <3>1 DEF Moved
  <2>4. ASSUME NEW e \in Editors, SavePlan(e)
        PROVE  editor[e].pc = "save" /\ editor[e].plan = id /\ editor[e].crossed
    <3>0. PICK o, row : o = editor[e].plan /\ (UNCHANGED plans \/ Write(o, row))
      BY <2>4 DEF SavePlan
    <3>1. editor[e].pc = "save" /\ editor[e].plan = id
      BY <2>t, <2>4, <3>0 DEF SavePlan, Write
    <3>2. Sound(editor[e]) /\ editor[e] \in Editing /\ editor[e] # Idle
      BY <3>1, AtWork DEF CatalogInv
    <3>3. editor[e].seen # None /\ editor[e].crossed \in BOOLEAN
      BY <3>2, CatalogAssumption DEF Editing
    <3>. QED BY <3>1, <3>2, <3>3 DEF Sound, Fresh
  <2>. QED BY <2>1, <2>2, <2>3, <2>4
       DEF Next, Request, Killed, UpdatePlan, AdminReorderPlans, EndReorder
<1>. QED BY <1>1, CatalogInvariant, PTL DEF Spec, DeletedStaysDeleted

=============================================================================
