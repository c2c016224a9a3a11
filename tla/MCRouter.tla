------------------------------ MODULE MCRouter ------------------------------
(* A small instance of Router for TLC: one static path and patterns that   *)
(* overlap with it, and a list two routers may share.                      *)
EXTENDS Router, TLC

CONSTANTS x1, x2, seven, id, anything, other

Symmetry == Permutations(Router)

MCMethodSets == {{"GET"}, {"GET", "POST"}}

\* "/7", "/<id:int>" and "/<all:path>", of which there are two.
MCUri == {"/7", "/a"}
MCRegexp == {"int", "path"}
MCMatches == "int" :> {"/7"} @@ "path" :> {"/7", "/a"}
MCPatternOf == seven :> "/7" @@ id :> "int" @@ anything :> "path" @@ other :> "path"

Lists == "list" :> <<[key |-> 0, route |-> anything]>>
=============================================================================
