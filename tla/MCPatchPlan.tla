------------------------------ MODULE MCPatchPlan ------------------------------
(* Patches of one and two operations, with and without a test in front, and  *)
(* of four, on small documents.                                              *)
EXTENDS PatchPlan

CONSTANTS e1, e2, e3, new

Arrays == {<<>>, <<e1>>, <<e1, e2>>, <<e1, e2, e3>>}
MCDocuments == [lines : Arrays, note : {e1, Absent}, dotted : {e1, Absent}]

MCFreshDocument == [lines |-> <<new>>, note |-> Absent, dotted |-> Absent]

At(f, i) == [at |-> f, i |-> i]
Field(f) == At(f, Whole)
Line(i) == At("lines", i)
Op(op, p, from, v) == [op |-> op, path |-> p, from |-> from, value |-> v]
Scalars == {Field("note"), Field("dotted")}
Lines == {Line(i) : i \in 0..2}

Tests == {Op("test", Field("note"), Root, e1)}
Changes ==
  {Op("add", p, Root, new) : p \in Scalars \cup Lines \cup {Line(Dash)}}
    \cup {Op("replace", p, Root, new) : p \in Scalars \cup Lines}
    \cup {Op("remove", p, Root, Absent) : p \in Scalars \cup Lines \cup {Field("lines")}}
    \cup {Op("replace", Field("lines"), Root, <<new, e1>>),
          Op("replace", Root, Root, Absent)}
    \cup {Op(op, p, from, Absent) : op \in {"copy", "move"}, p \in Scalars \cup {Line(0), Line(2)},
                                    from \in Scalars \cup {Line(0), Line(1)}}

Pairs == {<<o, p>> : o, p \in Changes}
Long == {<<a, b, c, d>> : a \in {Op("replace", Field("note"), Root, new), Op("remove", Field("note"), Root, Absent)},
                          b \in {Op("remove", Line(1), Root, Absent), Op("add", Line(0), Root, new)},
                          c \in {Op("add", Field("note"), Root, e1), Op("add", Line(Dash), Root, new)},
                          d \in {Op("add", Line(0), Root, e1)} \cup Tests}
MCPatches == {<<o>> : o \in Changes} \cup Pairs \cup Long
               \cup {<<t, o>> : t \in Tests, o \in Changes} \cup {<<t>> \o pair : t \in Tests, pair \in Pairs}

PatchSpec == PatchInit /\ [][PatchNext]_patchVars
=============================================================================
