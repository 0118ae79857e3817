------------------------------ MODULE ZonePath ------------------------------
(***************************************************************************)
(* The path of a zone in the tree of a company (zone-path.ts): a sequence  *)
(* of labels, one for each zone from the root to it.                       *)
(***************************************************************************)
EXTENDS Naturals, Sequences

\* isWithinScope, and the operator <@ of ltree: path is scope, or below it.
Within(path, scope) ==
  Len(scope) <= Len(path) /\ SubSeq(path, 1, Len(scope)) = scope
=============================================================================
