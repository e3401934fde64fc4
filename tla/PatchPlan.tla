------------------------------- MODULE PatchPlan -------------------------------
(***************************************************************************)
(* A write of the Mongo projection store in patch mode: an RFC 6902 patch   *)
(* and the document it leads to are compiled into one update of the stored  *)
(* document and the guards of its filter, or fall back to a full write.     *)
(*                                                                         *)
(* A document is flat: an array, a scalar under a name Mongo can address,   *)
(* and one under a name it cannot (with a dot or a dollar).  What a nested  *)
(* path adds to that are type guards on the objects it goes through.        *)
(***************************************************************************)
EXTENDS Integers, Sequences, SequencesExt, FiniteSets

CONSTANTS
  Absent,
  FreshDocument,      \* what an operation on the root puts
  PatchedDocuments,   \* documents the writer may have read
  Patches             \* sequences of operations [op, path, from, value]

Fields == {"lines", "note", "dotted"}
Whole == -2   \* index of a path to the field itself
Dash == -1    \* index of "/lines/-"
Root == [at |-> "root", i |-> Whole]
Indexed(p) == p.i # Whole
Numeric(p) == p.i >= 0
ParentOf(p) == [p EXCEPT !.i = Whole]
Unsafe(p) == p.at = "dotted"
IsArrayIn(d, p) == p.at = "lines" /\ d[p.at] # Absent

VARIABLES
  document,   \* the stored document
  request,    \* [patch, full]: what the writer asks for, full = the patch on
              \* what it has read
  outcome     \* "none", "written" or "refused"

patchVars == <<document, request, outcome>>

-----------------------------------------------------------------------------
\* The operations of RFC 6902, in order.

ReadAt(d, p) ==
  IF p = Root THEN d
  ELSE IF ~Indexed(p) THEN d[p.at]
  ELSE IF IsArrayIn(d, p) /\ p.i \in 0..Len(d[p.at]) - 1 THEN d[p.at][p.i + 1] ELSE Absent

CanAdd(d, p) == Indexed(p) => IsArrayIn(d, p) /\ p.i <= Len(d[p.at])
Removed(d, p) == IF Indexed(p) THEN [d EXCEPT ![p.at] = RemoveAt(@, p.i + 1)] ELSE [d EXCEPT ![p.at] = Absent]
Added(d, p, v) ==
  CASE p = Root -> FreshDocument
    [] p.i = Dash -> [d EXCEPT ![p.at] = Append(@, v)]
    [] Numeric(p) -> [d EXCEPT ![p.at] = InsertAt(@, p.i + 1, v)]
    [] OTHER -> [d EXCEPT ![p.at] = v]

NoResult == [ok |-> FALSE]
Apply(acc, o) ==
  LET d == acc.doc
      Then(can, after) == IF can THEN [ok |-> TRUE, doc |-> after] ELSE NoResult
  IN IF ~acc.ok THEN NoResult
     ELSE CASE o.op = "test" -> Then(ReadAt(d, o.path) = o.value, d)
            [] o.op = "add" -> Then(CanAdd(d, o.path), Added(d, o.path, o.value))
            [] o.op = "remove" -> Then(ReadAt(d, o.path) # Absent, Removed(d, o.path))
            [] o.op = "replace" ->
                 Then(ReadAt(d, o.path) # Absent,
                      IF Numeric(o.path) THEN [d EXCEPT ![o.path.at][o.path.i + 1] = o.value]
                      ELSE Added(d, o.path, o.value))
            [] o.op = "copy" ->
                 Then(ReadAt(d, o.from) # Absent /\ CanAdd(d, o.path), Added(d, o.path, ReadAt(d, o.from)))
            [] o.op = "move" ->
                 IF ReadAt(d, o.from) = Absent THEN NoResult
                 ELSE LET left == Removed(d, o.from)
                      IN Then(CanAdd(left, o.path), Added(left, o.path, ReadAt(d, o.from)))

Patched(d, patch) == FoldLeft(Apply, [ok |-> TRUE, doc |-> d], patch)

-----------------------------------------------------------------------------
\* The plan that is being compiled: a full write, an update by edits, or by a
\* pipeline of one stage; and the guards of its filter.

NoStage == [how |-> "none"]
EmptyPlan == [full |-> FALSE, edits |-> {}, stage |-> NoStage, guards |-> {}]
Fallback == [EmptyPlan EXCEPT !.full = TRUE]

Edit(how, p, v) == [how |-> how, path |-> p, value |-> v]
Guard(plan, kind, p, v) == [plan EXCEPT !.guards = @ \cup {[kind |-> kind, path |-> p, value |-> v]}]
Present(plan, p) == Guard(plan, "present", p, Absent)
IsArrayAt(plan, p) == Guard(plan, "array", p, Absent)

\* $set, $push and $pop hold one entry for a path, the last.
DropEdits(plan, hows, p) == [plan EXCEPT !.edits = {e \in @ : ~(e.how \in hows /\ e.path = p)}]
PutEdit(plan, how, p, v) == [DropEdits(plan, {how}, p) EXCEPT !.edits = @ \cup {Edit(how, p, v)}]
Pops == {"popFirst", "popLast"}
PushesOrPops(plan) == \E e \in plan.edits : e.how \in Pops \cup {"push"}

\* The value is what the path holds after the whole patch.
SetFromFull(plan, full, p) ==
  IF ReadAt(full, p) = Absent THEN Fallback
  ELSE DropEdits(PutEdit(plan, "set", p, ReadAt(full, p)), {"unset"}, p)

Middle(plan, how, p, v) ==
  IF plan.stage # NoStage \/ PushesOrPops(plan) THEN Fallback
  ELSE [plan EXCEPT !.stage = [how |-> how, path |-> p, value |-> v]]

ArrayAdd(plan, full, p) ==
  LET parent == ParentOf(p)
      size == Len(full[p.at])
      guarded == IsArrayAt(plan, parent)
      Push(v) == PutEdit(guarded, "push", parent, v)
  IN CASE ~IsArrayIn(full, p) \/ size = 0 -> Fallback
       [] p.i = Dash -> Push(full[p.at][size])
       [] p.i = size - 1 -> Push(full[p.at][size])
       [] p.i < size - 1 -> Middle(guarded, "insert", p, full[p.at][p.i + 1])
       [] OTHER -> Fallback

\* Mutant of ArrayRemove: the length is taken for the one before the removal.
ArrayRemoveBefore(plan, full, p) ==
  LET guarded == IsArrayAt(plan, ParentOf(p))
      Pop(how) == PutEdit(DropEdits(guarded, Pops \cup {"set", "unset"}, ParentOf(p)), how, ParentOf(p), Absent)
  IN CASE p.i = Dash \/ ~IsArrayIn(full, p) -> Fallback
       [] p.i = 0 -> Pop("popFirst")
       [] p.i = Len(full[p.at]) - 1 -> Pop("popLast")
       [] p.i < Len(full[p.at]) - 1 -> Middle(guarded, "remove", p, Absent)
       [] OTHER -> Fallback

ArrayRemove(plan, full, p) ==
  LET guarded == IsArrayAt(plan, ParentOf(p))
      Pop(how) == PutEdit(DropEdits(guarded, Pops \cup {"set", "unset"}, ParentOf(p)), how, ParentOf(p), Absent)
  IN CASE p.i = Dash \/ ~IsArrayIn(full, p) -> Fallback
       [] p.i = 0 -> Pop("popFirst")
       [] p.i = Len(full[p.at]) -> Pop("popLast")
       [] p.i \in 1..Len(full[p.at]) - 1 -> Middle(guarded, "remove", p, Absent)
       [] OTHER -> Fallback

RemovePath(plan, full, p) ==
  IF Indexed(p) THEN ArrayRemove(plan, full, p)
  ELSE DropEdits(PutEdit(Present(plan, p), "unset", p, Absent), {"set"}, p)

AddOrReplace(plan, full, o) ==
  LET p == o.path
  IN CASE Indexed(p) /\ o.op = "add" -> ArrayAdd(plan, full, p)
       [] Indexed(p) /\ o.op = "replace" -> SetFromFull(IsArrayAt(plan, ParentOf(p)), full, p)
       [] ~Indexed(p) -> SetFromFull(IF o.op = "replace" THEN Present(plan, p) ELSE plan, full, p)

MovePath(plan, full, o) ==
  LET parent == ParentOf(o.path)
      removed == RemovePath(plan, full, o.from)
  IN IF Numeric(o.from) /\ Numeric(o.path) /\ o.from.at = o.path.at /\ IsArrayIn(full, parent)
     THEN PutEdit(plan, "set", parent, full[parent.at])
     ELSE IF removed.full THEN Fallback ELSE SetFromFull(removed, full, o.path)

\* One operation at a time; after a stage only tests may follow.
SafePath(full, patch) ==
  LET Compile(plan, o) ==
        IF plan.full \/ (plan.stage # NoStage /\ o.op # "test") THEN Fallback
        ELSE CASE o.op = "test" -> Guard(plan, "equals", o.path, o.value)
               [] o.op = "remove" -> RemovePath(plan, full, o.path)
               [] o.op \in {"add", "replace"} -> AddOrReplace(plan, full, o)
               [] o.op = "copy" -> SetFromFull(Present(plan, o.from), full, o.path)
               [] o.op = "move" -> MovePath(plan, full, o)
  IN FoldLeft(Compile, EmptyPlan, patch)

-----------------------------------------------------------------------------
\* Reorderings, and additions and removals in one array only, set the array.
ReordersArray(patch) ==
  /\ Len(patch) = 2 /\ patch[1].op = "remove" /\ patch[2].op = "add"
  /\ Numeric(patch[1].path) /\ Numeric(patch[2].path) /\ patch[1].path.at = patch[2].path.at
EditsOneArray(patch) ==
  /\ Len(patch) > 1
  /\ \A k \in DOMAIN patch : patch[k].op \in {"add", "remove"} /\ Indexed(patch[k].path)
                             /\ patch[k].path.at = patch[1].path.at
FastPath(full, patch) ==
  /\ ReordersArray(patch) \/ EditsOneArray(patch)
  /\ IsArrayIn(full, patch[1].path)
SetArray(full, patch) ==
  LET parent == ParentOf(patch[1].path)
      plan == PutEdit(EmptyPlan, "set", parent, full[parent.at])
  IN IF ReordersArray(patch) THEN plan ELSE IsArrayAt(plan, parent)

\* Patches of the root, with names Mongo cannot address, and long ones that
\* change both an array and a field become one expression.
Mutates(o) == o.op # "test"
Sources(o) == IF o.op \in {"copy", "move"} THEN {o.from} ELSE {}
IsOrdered(patch) ==
  \/ \E k \in DOMAIN patch : Mutates(patch[k]) /\ patch[k].path = Root
  \/ \E k \in DOMAIN patch : \E p \in {patch[k].path} \cup Sources(patch[k]) : Unsafe(p)
  \/ /\ Len(patch) >= 4
     /\ \E k \in DOMAIN patch : Mutates(patch[k]) /\ Indexed(patch[k].path)
     /\ \E k \in DOMAIN patch : Mutates(patch[k]) /\ ~Indexed(patch[k].path)

ReplacesAll(o) ==
  Mutates(o) /\ (o.op \in {"copy", "move"} \/ o.path = Root \/ Indexed(o.path))

\* Each operation's guards are stated of the document before the patch.
OrderedGuards(patch) ==
  LET Add(plan, o) ==
        CASE o.op = "test" -> Guard(plan, "equals", o.path, o.value)
          [] o.op \in {"remove", "replace"} /\ o.path # Root -> Guard(plan, "field", o.path, Absent)
          [] o.op \in {"copy", "move"} -> Present(plan, o.from)
          [] OTHER -> plan
  IN FoldLeft(Add, EmptyPlan, patch).guards

OrderedPath(full, patch) ==
  LET whole == {k \in DOMAIN patch : ReplacesAll(patch[k])}
      until == {k \in DOMAIN patch : Mutates(patch[k]) /\ \A w \in whole : k < w}
      lost == \E k \in until : patch[k].op # "remove" /\ ReadAt(full, patch[k].path) = Absent
  IN IF lost THEN Fallback
     ELSE [EmptyPlan EXCEPT !.guards = OrderedGuards(patch),
             !.stage = [how |-> IF whole # {} THEN "replace" ELSE "fields",
                        path |-> Root, value |-> SelectSeq(patch, Mutates)]]

Plan(full, patch) ==
  CASE FastPath(full, patch) -> SetArray(full, patch)
    [] ~FastPath(full, patch) /\ IsOrdered(patch) -> OrderedPath(full, patch)
    [] OTHER -> SafePath(full, patch)

-----------------------------------------------------------------------------
\* The update at the server.  A filter that does not match inserts, which the
\* document's id refuses, as the server refuses edits that overlap.
Holds(d, g) ==
  CASE g.kind = "equals" -> ReadAt(d, g.path) = g.value
    [] g.kind = "present" -> ~Unsafe(g.path) /\ ReadAt(d, g.path) # Absent  \* a field path ends at the dot
    [] g.kind = "array" -> IsArrayIn(d, g.path)
    [] g.kind = "field" -> ~Indexed(g.path) /\ ReadAt(d, g.path) # Absent  \* $getField reads no array
Overlap(e, f) == e # f /\ e.path.at = f.path.at /\ (e.path = f.path \/ ~Indexed(e.path) \/ ~Indexed(f.path))

\* An array is padded up to the index that is set; popping it when it is empty
\* changes nothing.
SetIndex(array, k, v) ==
  [n \in 1..(IF k > Len(array) THEN k ELSE Len(array)) |->
     IF n = k THEN v ELSE IF n <= Len(array) THEN array[n] ELSE Absent]
Popped(array, end) == IF array = <<>> THEN array ELSE IF end = "popFirst" THEN Tail(array) ELSE Front(array)

ByEdit(d, e) ==
  [d EXCEPT ![e.path.at] = CASE e.how = "set" /\ Indexed(e.path) -> SetIndex(@, e.path.i + 1, e.value)
                             [] e.how = "push" -> Append(@, e.value)
                             [] e.how \in Pops -> Popped(@, e.how)
                             [] OTHER -> e.value]

ByStage(d, full, s) ==
  LET Field(acc, o) == [acc EXCEPT ![o.path.at] = IF o.op = "remove" THEN Absent ELSE full[o.path.at]]
  IN CASE s.how = "insert" -> Added(d, s.path, s.value)
       [] s.how = "remove" -> Removed(d, s.path)
       [] s.how = "replace" -> full
       [] s.how = "fields" -> FoldLeft(Field, d, s.value)

Updated(d, full, plan) ==
  CASE plan.full -> full
    [] ~plan.full /\ plan.stage # NoStage -> ByStage(d, full, plan.stage)
    [] OTHER -> FoldLeft(ByEdit, d, SetToSeq(plan.edits))

\* $slice takes a part that is not empty.
CanSlice(d, s) ==
  /\ s.how = "insert" => s.path.i < Len(d[s.path.at])
  /\ s.how = "remove" => s.path.i + 1 < Len(d[s.path.at])

Accepted(d, plan) ==
  \/ plan.full
  \/ /\ \A g \in plan.guards : Holds(d, g)
     /\ CanSlice(d, plan.stage)
     /\ plan.stage = NoStage => \A e, f \in plan.edits : ~Overlap(e, f)

-----------------------------------------------------------------------------
PatchInit ==
  \E d \in PatchedDocuments, patch \in Patches :
    /\ Patched(d, patch).ok
    /\ document = d
    /\ request = [patch |-> patch, full |-> Patched(d, patch).doc]
    /\ outcome = "none"

WritePatch ==
  LET plan == Plan(request.full, request.patch)
  IN /\ outcome = "none"
     /\ IF Accepted(document, plan)
        THEN document' = Updated(document, request.full, plan) /\ outcome' = "written"
        ELSE outcome' = "refused" /\ UNCHANGED document
     /\ UNCHANGED request

PatchNext == WritePatch

-----------------------------------------------------------------------------
Mutations(patch) == SelectSeq(patch, Mutates)
MovesByIndex(o) == o.op \in {"copy", "move"} /\ (Indexed(o.path) \/ Indexed(o.from))

(* The patches whose plan is right: one change, to which a copy or a move by *)
(* index does not belong, changes of one array only, and what is compiled    *)
(* into an expression.  Of these a plan that is written leaves the document  *)
(* the writer asked for, whole; and one change is never refused.             *)
PatchesLandWhole ==
  LET patch == request.patch
      single == Len(Mutations(patch)) = 1 /\ ~MovesByIndex(Mutations(patch)[1])
  IN outcome # "none" =>
     /\ (single \/ FastPath(request.full, patch) \/ IsOrdered(patch)) /\ outcome = "written" =>
          document = request.full
     /\ single /\ ~IsOrdered(patch) => outcome = "written"

(* "Caller-provided full document state after patch application" and         *)
(* "RFC6902 JSON Patch operations applied in-order" (contracts/store.ts:73,  *)
(* 80): a patch write leaves the document that a full write would leave.     *)
FullAndPatchParity == outcome = "written" => document = request.full
=============================================================================
