---------------------------- MODULE RoutePattern ----------------------------
(***************************************************************************)
(* How a route's path becomes a regular expression (Route.c, __construct), *)
(* over the string utilities it is written with (Can.c): the loop looks at *)
(* a character at a time and jumps from a '<' to the next '>'.             *)
(*                                                                         *)
(* A string is a sequence of characters from Char, of which some words     *)
(* without a '<', '>' or ':' in them ("int", "re", ...) count as one.  A C *)
(* string ends with a byte that is not in the sequence: it has Len(s) + 1  *)
(* bytes.                                                                  *)
(***************************************************************************)
EXTENDS Integers, SequencesExt

CONSTANTS
    Char,       \* characters
    Path,       \* the paths given to routes
    MaxPieces   \* bound: pieces of a pattern

Filter == {"int", "float", "path"}      \* those with a cast

ASSUME PathAssumption ==
    /\ Filter \union {"<", ">", ":", "re"} \subseteq Char
    /\ Path \subseteq Seq(Char)
    /\ MaxPieces \in Nat

VARIABLES
    uri,        \* the path
    i,          \* the position of the loop, from 0
    regexp,     \* the pieces of the pattern
    casts,      \* parameter -> filter
    phase       \* "parsing", "pattern" or "static"

vars == <<uri, i, regexp, casts, phase>>

-----------------------------------------------------------------------------
(* Can.c                                                                   *)

FAILURE == -1
Null == <<"(null)">>    \* the NULL pointer, as it is printed

\* php_can_strpos, for needles of one character.
Strpos(haystack, c, offset) ==
    LET found == {p \in offset..(Len(haystack) - 1) : haystack[p + 1] = c}
    IN IF haystack = Null \/ found = {} THEN FAILURE ELSE Min(found)

\* The C string at l bytes from f on.
Bytes(str, f, l) == SubSeq(str, f + 1, IF f + l > Len(str) THEN Len(str) ELSE f + l)

\* php_can_substr: the terminating byte counts as one of the string.
Substr(str, f, l) ==
    LET str_len == Len(str) + 1
        from == CASE f >= 0 -> f
                  [] f < 0 /\ -f <= str_len -> str_len + f
                  [] OTHER -> 0
        rest == str_len - from + l
        length == IF l >= 0 THEN l ELSE IF rest < 0 THEN 0 ELSE rest
    IN IF \/ l < 0 /\ -l > str_len
          \/ l < 0 /\ l + str_len - f < 0
          \/ from >= str_len
       THEN Null ELSE Bytes(str, from, length)

-----------------------------------------------------------------------------
(* The pieces of a pattern.                                                *)

Literal(c) == [kind |-> "literal", name |-> <<c>>]
Group(name, kind) == [kind |-> kind, name |-> name]
NullPiece == [kind |-> "literal", name |-> Null]

\* The text of a placeholder: its name up to the ':', and what it matches.  A
\* filter that is not known makes no group.
Placeholder(text) ==
    LET pos == Strpos(text, ":", 0)
        filter == Substr(text, pos + 1, Len(text) - (pos + 1))
        kind == CASE pos = FAILURE -> "segment"
                  [] pos # FAILURE /\ Len(filter) = 1 /\ filter[1] \in Filter -> filter[1]
                  [] pos # FAILURE /\ IsPrefix(<<"re", ":">>, filter) -> "re"
                  [] OTHER -> "unknown"
    IN Group(IF pos = FAILURE THEN text ELSE Substr(text, 0, pos), kind)

\* What is printed of a pattern that has no piece yet.
Printed(pieces) == IF pieces = << >> THEN <<NullPiece>> ELSE pieces

Has(c) == \E p \in DOMAIN uri : uri[p] = c

Init ==
    /\ uri \in Path
    /\ i = 0
    /\ regexp = << >>
    /\ casts = << >>
    /\ phase = IF Has("<") /\ Has(">") THEN "parsing" ELSE "static"

Iterating ==
    /\ phase = "parsing"
    /\ i < Len(uri)
    /\ Len(regexp) < MaxPieces
    /\ UNCHANGED <<uri, phase>>

ParseChar ==
    /\ Iterating
    /\ uri[i + 1] # "<"
    /\ regexp' = Append(regexp, Literal(uri[i + 1]))
    /\ i' = i + 1
    /\ UNCHANGED casts

\* Mutant: what a filter casts to is not written down for paths.
CastsBut(g) ==
    IF g.kind \in Filter \ {"path"}
    THEN [v \in DOMAIN casts \union {g.name} |-> IF v = g.name THEN g.kind ELSE casts[v]]
    ELSE casts

CastsWith(g) ==
    IF g.kind \in Filter
    THEN [v \in DOMAIN casts \union {g.name} |-> IF v = g.name THEN g.kind ELSE casts[v]]
    ELSE casts

\* Mutant: the search starts over at the beginning of the path.
CloseFirst == Strpos(uri, ">", 0)

\* Where the placeholder at i ends.
Close == Strpos(uri, ">", i)

\* Mutant: the loop goes on at the '>'.
ResumeOn == IF Close = FAILURE THEN 0 ELSE Close

\* Without a '>' behind it Close is FAILURE, and the loop starts over at 0.
Resume == Close + 1

ParsePlaceholder ==
    /\ Iterating
    /\ uri[i + 1] = "<"
    /\ \E text \in {Substr(uri, i + 1, Close - (i + 1))} : \E g \in {Placeholder(text)} :
        /\ regexp' = IF g.kind = "unknown" THEN regexp ELSE Append(Printed(regexp), g)
        /\ casts' = CastsWith(g)
    /\ i' = Resume

ParseEnds ==
    /\ phase = "parsing"
    /\ i >= Len(uri)
    /\ phase' = "pattern"
    /\ regexp' = Printed(regexp)
    /\ UNCHANGED <<uri, i, casts>>

Next == ParseChar \/ ParsePlaceholder \/ ParseEnds

\* The loop is one call of the constructor: it goes on as long as it can.
Spec == Init /\ [][Next]_vars /\ WF_vars(Next)

-----------------------------------------------------------------------------
(* Properties.                                                             *)

\* A '<' that opens a placeholder: none before it is still open.
Opens(s, p) ==
    /\ s[p] = "<"
    /\ \A q \in 1..(p - 1) : s[q] = "<" => \E r \in q..p : s[r] = ">"
Closed(s) == \A p \in DOMAIN s : s[p] = "<" => \E r \in p..Len(s) : s[r] = ">"

\* The constructor comes back for every path whose placeholders are closed.
ConstructorReturns == Closed(uri) => <>(phase # "parsing")

\* The text of a placeholder read as "name" or "name:filter": the first ':' parts
\* them, wherever it stands, and a filter that begins with "re:" is an expression.
FirstColon(text) ==
    CHOOSE p \in DOMAIN text : text[p] = ":" /\ \A q \in 1..(p - 1) : text[q] # ":"
KindOf(filter) ==
    IF \E f \in Filter : filter = <<f>> THEN filter[1]
    ELSE IF IsPrefix(<<"re", ":">>, filter) THEN "re" ELSE "unknown"
GroupOf(text) ==
    IF \A p \in DOMAIN text : text[p] # ":" THEN Group(text, "segment")
    ELSE Group(SubSeq(text, 1, FirstColon(text) - 1),
               KindOf(SubSeq(text, FirstColon(text) + 1, Len(text))))

\* A path read as a whole: its characters outside placeholders, and a group for
\* each placeholder, in their order.
End(s, p) == CHOOSE r \in p..Len(s) : s[r] = ">" /\ \A q \in p..(r - 1) : s[q] # ">"
Outside(s, p) == ~\E q \in 1..p : Opens(s, q) /\ p <= End(s, q)
Text(s, p) == SubSeq(s, p + 1, End(s, p) - 1)
PieceAt(s, p) == IF Opens(s, p) THEN GroupOf(Text(s, p)) ELSE Literal(s[p])
PathAsPieces(s) ==
    LET upto[p \in 0..Len(s)] ==
          IF p = 0 THEN << >>
          ELSE IF (Opens(s, p) \/ Outside(s, p)) /\ PieceAt(s, p).kind # "unknown"
               THEN Append(upto[p - 1], PieceAt(s, p)) ELSE upto[p - 1]
    IN upto[Len(s)]

\* The pattern of a path whose placeholders are closed and that begins with a
\* character is the path with groups for its placeholders; those with unknown
\* filters are left out of it.
PatternIsPath ==
    phase = "pattern" /\ Closed(uri) /\ uri[1] # "<" => regexp = PathAsPieces(uri)

\* A parameter is cast to what its own group matches, and to nothing else, when
\* no name is given twice.
CastsFitGroups ==
    LET groups == {k \in DOMAIN regexp : regexp[k].kind # "literal"}
    IN phase = "pattern" /\ IsInjective([k \in groups |-> regexp[k].name]) =>
        casts = [v \in {regexp[k].name : k \in {g \in groups : regexp[g].kind \in Filter}} |->
                    regexp[CHOOSE k \in groups : regexp[k].name = v].kind]
=============================================================================
