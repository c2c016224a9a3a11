----------------------------- MODULE MCMultipart -----------------------------
(* A small instance of Multipart for TLC.                                  *)
EXTENDS Multipart, TLC

CONSTANTS a, b, o, r, t1, t2, t3

NameOf(n) == [key |-> "name", value |-> n]
FileOf(n) == [key |-> "filename", value |-> n]

\* o is a path with directories, of which b is stored; r has nothing before its
\* only '/' and is stored whole.
Bases == [n \in Name |-> IF n = o THEN b ELSE n]

\* A field, a field given twice in one header, an upload with and without a
\* name, a part with neither; text that says name=b behind some of them; uploads
\* named like the files of others; headers that say filename=b or name=b before
\* Content-Disposition.
Parts ==
    {[disposition |-> FALSE, before |-> << >>, own |-> << >>, other |-> << >>, bytes |-> 3]}
    \union [disposition : {TRUE}, before : {<< >>},
            own : {<< >>, <<NameOf(a)>>, <<NameOf(a), NameOf(b)>>, <<FileOf(a)>>,
                   <<NameOf(a), FileOf(b)>>},
            other : {<< >>, <<NameOf(b)>>},
            bytes : {Absent, 2, 3}]
    \union [disposition : {TRUE}, before : {<< >>},
            own : {<<NameOf(o), FileOf(o)>>, <<NameOf(b), FileOf(r)>>},
            other : {<< >>}, bytes : {3}]
    \union [disposition : {TRUE}, before : {<<FileOf(b)>>, <<NameOf(b)>>},
            own : {<<NameOf(a)>>}, other : {<< >>}, bytes : {3}]

TempSymmetry == Permutations(Temp)
Limits == {0, 1}
=============================================================================
