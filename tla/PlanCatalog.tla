----------------------------- MODULE PlanCatalog -----------------------------
(***************************************************************************)
(* The catalogue of plans as administrators write it: internal/handlers/   *)
(* plans.go.  Adding and deleting a plan are one statement each.  Changing *)
(* a plan is two: the row is read, the fields the request names are set in *)
(* memory, and the whole row is saved.  Reordering is one statement per    *)
(* plan, outside a transaction.  Requests run concurrently, any statement  *)
(* may fail or be carried out without an answer, and the process may be    *)
(* killed in between.                                                      *)
(*                                                                         *)
(* What gorm does with a statement is external: a Save that finds no row   *)
(* inserts it, and an insert replaces a zero value by the default of its   *)
(* column (models/plan.go:15: active is TRUE by default).                  *)
(***************************************************************************)
EXTENDS Server, Sequences

CONSTANTS
  PlanIds,       \* ids the table hands out; no id is given twice
  Details,       \* everything in a row but its place and whether it is active
  Places,        \* values of sort_order
  NewPlans,      \* bodies of POST /admin/plans
  Patches,       \* bodies of PATCH /admin/plans/:id: fields with new values
  Arrangements,  \* bodies of PATCH /admin/plans/reorder: <<id, place>> in order
  Editors,       \* goroutines that may serve an edit or a reorder at one time
  None           \* no row

Row == [details : Details, place : Places, active : BOOLEAN]

Fields == {"details", "place", "active"}

\* The fields that a request names, over those of a row.
Over(patch, row) == [f \in Fields |-> IF f \in DOMAIN patch THEN patch[f] ELSE row[f]]

ASSUME CatalogAssumption ==
  /\ None \notin Row \cup Editors
  /\ NewPlans \subseteq Row
  /\ \A patch \in Patches, row \in Row :
       DOMAIN patch \subseteq Fields /\ Over(patch, row) \in Row
  /\ Arrangements \subseteq Seq(PlanIds \X Places)

VARIABLES
  plans,    \* the table: a row under each id, or None
  issued,   \* ids the table has handed out
  editor,   \* what each goroutine holds
  said      \* history: the rows as the acknowledged requests leave them, taken
            \* one at a time and each at its word; a request that goes wrong is
            \* taken at what it has done

catalogVars == <<plans, issued, editor, said>>

vars == <<serverVars, catalogVars>>

Idle == [pc |-> "idle"]

\* UpdatePlan between its two statements, AdminReorderPlans between two of its.
\* `crossed' is history: another request has written a plan this one relies on.
Editing == [pc : {"save"}, plan : PlanIds, seen : Row, patch : Patches, crossed : BOOLEAN]

Reordering == [pc : {"reorder"}, body : Arrangements, done : Nat, crossed : BOOLEAN]

\* Rows are whole and goroutines hold what their handler has read.
TypeOK ==
  /\ ServerTypeOK
  /\ plans \in [PlanIds -> Row \cup {None}]
  /\ issued \subseteq PlanIds
  /\ \A id \in PlanIds : plans[id] # None => id \in issued
  /\ editor \in [Editors -> Editing \cup Reordering \cup {Idle}]
  /\ said \in [PlanIds -> Row \cup {None}]

Init ==
  /\ ServerInit
  /\ plans \in [PlanIds -> NewPlans \cup {None}]
  /\ issued = {id \in PlanIds : plans[id] # None}
  /\ editor = [e \in Editors |-> Idle]
  /\ said = plans

-----------------------------------------------------------------------------
(* What the handlers share. *)

\* The plans a goroutine has read or written, and means to answer for.
Holds(x) ==
  CASE x.pc = "save"    -> {x.plan}
    [] x.pc = "reorder" -> {x.body[i][1] : i \in 1 .. x.done}
    [] OTHER            -> {}

\* Whoever else holds this plan, another request has now written it.
Cross(id, e) ==
  [f \in Editors |->
    IF f # e /\ id \in Holds(editor[f]) THEN [editor[f] EXCEPT !.crossed = TRUE]
                                         ELSE editor[f]]

Write(id, row) == plans' = [plans EXCEPT ![id] = row]

\* A request on one plan is answered with what it says of the plan.
Answer(id, row) == said' = [said EXCEPT ![id] = row]

\* A request that ends in a 500, is killed, or was crossed by another has done
\* whatever it has done.
AsDone(ids) ==
  said' = [id \in PlanIds |-> IF id \in ids THEN plans'[id] ELSE said[id]]

\* The row gorm inserts: `active' cannot be FALSE.
Inserted(row) == [row EXCEPT !.active = TRUE]

-----------------------------------------------------------------------------
(* The handlers.  A statement that fails before it is carried out changes    *)
(* nothing and ends the request; for a handler of one statement, and for the *)
(* reading half of UpdatePlan, that is no step at all.                       *)

\* Answered or not: the 201 carries the row as it was inserted, active.
AddPlan(id, row) ==
  /\ id \notin issued
  /\ issued' = issued \cup {id}
  /\ Write(id, Inserted(row))
  /\ editor' = Cross(id, None)
  /\ Answer(id, Inserted(row))

\* A plan that is not there is answered with 404.
DeletePlanWithID(id) ==
  /\ plans[id] # None
  /\ Write(id, None)
  /\ editor' = Cross(id, None)
  /\ Answer(id, None)
  /\ UNCHANGED issued

\* First reads the row; a plan that is not there is answered with 404.
UpdatePlan(e, id) ==
  /\ editor[e] = Idle
  /\ plans[id] # None
  /\ \E patch \in Patches :
       editor' = [editor EXCEPT ![e] =
         [pc |-> "save", plan |-> id, patch |-> patch, crossed |-> FALSE,
          seen |-> plans[id]]]
  /\ UNCHANGED <<plans, issued, said>>

\* Mutant: the row is built from the request alone.
ChangedOnly(row, patch) == patch

\* Mutant: the flag has no pointer, and a request that leaves it out clears it.
ChangedZero(row, patch) == Over(patch, [row EXCEPT !.active = FALSE])

\* The fields the request names, over the row as it was read.
Changed(row, patch) == Over(patch, row)

Return(e, others) == editor' = [others EXCEPT ![e] = Idle]

\* Save writes every column, and inserts the row if it is gone.
SavePlan(e) ==
  LET x   == editor[e]
      id  == x.plan
      new == Changed(x.seen, x.patch)
  IN
  /\ x.pc = "save"
  /\ \/ /\ Write(id, IF plans[id] = None THEN Inserted(new) ELSE new)
        /\ Return(e, Cross(id, e))
        /\ IF x.crossed THEN AsDone({id}) ELSE Answer(id, Over(x.patch, said[id]))
     \/ Return(e, editor) /\ UNCHANGED <<plans, said>>
  /\ UNCHANGED issued

AdminReorderPlans(e) ==
  /\ editor[e] = Idle
  /\ \E body \in Arrangements :
       editor' = [editor EXCEPT ![e] =
         [pc |-> "reorder", body |-> body, done |-> 0, crossed |-> FALSE]]
  /\ UNCHANGED <<plans, issued, said>>

\* Mutant: the row is saved instead of its column updated.
MovedSaved(id, place) ==
  IF id \in issued
    THEN [plans EXCEPT ![id] = [(CHOOSE row \in NewPlans : row.active)
                                 EXCEPT !.place = place]]
    ELSE plans

\* An id that is not in the table matches no row, which is no error.
Moved(id, place) ==
  IF plans[id] = None THEN plans ELSE [plans EXCEPT ![id].place = place]

\* One turn of the loop.  An error ends it, whether or not the row was written,
\* and leaves the places written before.
MovePlan(e) ==
  LET x     == editor[e]
      id    == x.body[x.done + 1][1]
      place == x.body[x.done + 1][2]
      moved == Moved(id, place)
  IN
  /\ x.pc = "reorder" /\ x.done < Len(x.body)
  /\ \/ /\ plans' = moved
        /\ editor' = [Cross(id, e) EXCEPT ![e].done = @ + 1]
        /\ UNCHANGED said
     \/ plans' = moved /\ Return(e, Cross(id, e)) /\ AsDone(Holds(x) \cup {id})
     \/ plans' = plans /\ Return(e, editor) /\ AsDone(Holds(x))
  /\ UNCHANGED issued

\* The i-th move of a request is the last, so far, of this plan.
LastMove(x, id, i) ==
  x.body[i][1] = id /\ \A j \in i + 1 .. x.done : x.body[j][1] # id

PlaceOf(x, id) == x.body[CHOOSE i \in 1 .. x.done : LastMove(x, id, i)][2]

\* Every plan of the request has its place, and the answer is 200.
EndReorder(e) ==
  LET x == editor[e] IN
  /\ x.pc = "reorder" /\ x.done = Len(x.body)
  /\ Return(e, editor)
  /\ UNCHANGED <<plans, issued>>
  /\ IF x.crossed
       THEN AsDone(Holds(x))
       ELSE said' = [id \in PlanIds |->
              IF id \in Holds(x) /\ said[id] # None
                THEN [said[id] EXCEPT !.place = PlaceOf(x, id)] ELSE said[id]]

\* The process is killed; a reorder keeps the places it has written.
Killed ==
  /\ Restart
  /\ editor' = [e \in Editors |-> Idle]
  /\ UNCHANGED <<plans, issued>>
  /\ AsDone(UNION {Holds(editor[e]) : e \in Editors})

-----------------------------------------------------------------------------
(* The specification. *)

Request ==
  \/ \E id \in PlanIds :
       \/ \E row \in NewPlans : AddPlan(id, row)
       \/ DeletePlanWithID(id)
       \/ \E e \in Editors : UpdatePlan(e, id)
  \/ \E e \in Editors :
       \/ SavePlan(e)
       \/ AdminReorderPlans(e)
       \/ MovePlan(e)
       \/ EndReorder(e)

Next ==
  \/ Request /\ UNCHANGED serverVars
  \/ Killed

Spec == Init /\ [][Next]_vars

-----------------------------------------------------------------------------
(* Properties. *)

\* GetPlans without ?all=1; for the other plans GetPlan answers 404.
Listed == {id \in PlanIds : plans[id] # None /\ plans[id].active}

BeingMoved(id) ==
  \E e \in Editors : editor[e].pc = "reorder" /\ id \in Holds(editor[e])

\* The table is what the acknowledged requests leave, taken one at a time: an
\* edit that no other request crossed keeps every field it does not name, and
\* an uncrossed reorder that was answered has placed every plan.  What the
\* public is offered agrees with that even in the middle of a reorder.
AsAcknowledged ==
  /\ \A id \in PlanIds : BeingMoved(id) \/ plans[id] = said[id]
  /\ Listed = {id \in PlanIds : said[id] # None /\ said[id].active}

\* A plan that was deleted comes back only by an edit that had read it before.
DeletedStaysDeleted ==
  [][\A id \in issued :
       plans[id] = None /\ plans'[id] # None =>
         \E e \in Editors :
           /\ editor[e].pc = "save" /\ editor[e].plan = id
           /\ editor[e].crossed]_vars

=============================================================================
