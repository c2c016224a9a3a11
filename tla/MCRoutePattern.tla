--------------------------- MODULE MCRoutePattern ---------------------------
(* A small instance of RoutePattern for TLC.                               *)
EXTENDS RoutePattern

CONSTANT MaxPath

Chars == {"<", ">", ":", "x", "y", "int", "float", "path", "re"}
\* Every short path over the characters that steer the loop.
ShortPaths == BoundedSeq(Chars \ {"y", "float"}, MaxPath)
\* Longer ones, put together from placeholders and what may stand between them.
Words == {<<"x">>, <<"<", "x", ">">>, <<"<", "y", ">">>, <<"<", ">">>, <<">">>, <<"<">>}
         \union {<<"<", n, ":", f, ">">> : n \in {"x", "y"}, f \in Filter}
         \union {<<"<", "x", ":", "y", ">">>, <<"<", "x", ":", "re", ">">>,
                <<"<", "x", ":", "re", ":", "y", ":", ">">>, <<"<", "x", ":", "int", ":", ">">>,
                <<"<", "re", ":", "int", ">">>, <<"<", "re", ":", ">">>}
LongPaths == {<<"x">> \o FlattenSeq(ws) : ws \in BoundedSeq(Words, 3)}
Paths == ShortPaths \union LongPaths
=============================================================================
