------------------------------- MODULE MCWalk -------------------------------
(***************************************************************************)
(* Six pages of two addresses each: three page tables of two pages, a pud  *)
(* entry of four.  Ranges begin and end inside pages too.                  *)
(***************************************************************************)
EXTENDS WalkRange

Spans == <<2, 4, 8, 16, 16>>
SpanOf == [l \in 0 .. 4 |-> Spans[l + 1]]

M(s, e, plain) == [start |-> s, end |-> e, plain |-> plain]
TwoLayouts == {<<M(0, 12, TRUE)>>, <<M(0, 2, TRUE), M(2, 6, FALSE), M(8, 12, TRUE)>>}

SomeRanges == {[start |-> s, end |-> e] : s \in {0, 2, 3, 4, 5, 8}, e \in {4, 6, 7, 8, 10, 12}}
OrderedRanges == {r \in SomeRanges : r.start <= r.end}
TwoRanges == {[start |-> 2, end |-> 4], [start |-> 4, end |-> 6]}
SomeTables == {{0, 4, 8}, {4, 8}, {0, 8}}
=============================================================================
