-------------------------- MODULE RoutePatternProofs --------------------------
(* Theorems about RoutePattern for every path over every alphabet.         *)
EXTENDS RoutePattern, ExtremaLemmas, SequenceTheorems

-----------------------------------------------------------------------------
(* Types.                                                                  *)

Texts == Seq(Char \union {"(null)"})
Kind == Filter \union {"segment", "re", "unknown", "literal"}
Piece == [kind : Kind, name : Texts]

\* What is cut out of a string is one, or the null pointer.
LEMMA SubstrTyped ==
    ASSUME NEW str \in Texts, NEW f \in Int, NEW l \in Int
    PROVE  Substr(str, f, l) \in Texts
<1> DEFINE C == Char \union {"(null)"}
<1>0. str \in Seq(C) /\ Texts = Seq(C) /\ Len(str) \in Nat
  BY DEF Texts
<1>1. Null \in Seq(C)
  BY DEF Null
<1>2. ASSUME NEW from \in Nat, NEW length \in Nat
      PROVE  Bytes(str, from, length) \in Seq(C)
  <2> DEFINE last == IF from + length > Len(str) THEN Len(str) ELSE from + length
  <2>1. last \in Int /\ from + 1 \in Int /\ last <= Len(str) /\ from + 1 >= 1
    BY <1>0
  <2>2. \A j \in (from + 1)..last : str[j] \in C
    <3> HIDE DEF C, last
    <3> QED
      BY <1>0, <2>1
  <2>3. SubSeq(str, from + 1, last) \in Seq(C)
    <3> HIDE DEF C, last
    <3> QED
      BY <2>1, <2>2, SubSeqProperties
  <2> QED
    BY <2>3 DEF Bytes
<1> DEFINE str_len == Len(str) + 1
           from == CASE f >= 0 -> f
                     [] f < 0 /\ -f <= str_len -> str_len + f
                     [] OTHER -> 0
           rest == str_len - from + l
           length == IF l >= 0 THEN l ELSE IF rest < 0 THEN 0 ELSE rest
<1>3. from \in Nat
  <2>1. CASE f >= 0
    <3>0. ~(f < 0)
      BY <2>1
    <3>1. from = f
      BY <2>1, <3>0, Zenon
    <3> QED
      BY <2>1, <3>1
  <2>2. CASE f < 0 /\ -f <= str_len
    <3>1. ~(f >= 0)
      BY <2>2
    <3>2. from = str_len + f
      BY <2>2, <3>1, Zenon
    <3> QED
      BY <1>0, <2>2, <3>2
  <2>3. CASE ~(f >= 0) /\ ~(f < 0 /\ -f <= str_len)
    <3>1. from = 0
      BY <2>3, Zenon
    <3> QED
      BY <3>1
  <2> QED
    BY <2>1, <2>2, <2>3
<1>4. length \in Nat
  <2> HIDE DEF from
  <2>1. rest \in Int
    BY <1>0, <1>3
  <2> HIDE DEF rest
  <2> QED
    BY <2>1
<1>5. Substr(str, f, l) = Null \/ Substr(str, f, l) = Bytes(str, from, length)
  BY Zenon DEF Substr
<1> HIDE DEF from, length
<1> QED
  BY <1>0, <1>1, <1>2, <1>3, <1>4, <1>5

\* php_can_strpos returns a position or -1.
LEMMA StrposTyped ==
    ASSUME NEW str \in Texts, NEW c, NEW o \in Nat
    PROVE  Strpos(str, c, o) \in Int /\ Strpos(str, c, o) >= FAILURE
<1> DEFINE found == {p \in o..(Len(str) - 1) : str[p + 1] = c}
<1>1. found \in SUBSET Nat
  BY DEF Texts
<1>2. CASE found = {}
  BY <1>2 DEF Strpos, FAILURE
<1>3. CASE found # {}
  <2> HIDE DEF found
  <2>1. Min(found) \in found
    BY <1>1, <1>3, LeastExists DEF Min
  <2>2. Strpos(str, c, o) = FAILURE \/ Strpos(str, c, o) = Min(found)
    BY DEF Strpos, found
  <2>3. Min(found) \in Int /\ Min(found) >= 0
    <3>1. \A p \in found : p \in Int /\ p >= 0
      BY <1>1
    <3> QED
      BY <2>1, <3>1, Zenon
  <2> QED
    BY <2>2, <2>3 DEF FAILURE
<1> QED
  BY <1>2, <1>3

\* A placeholder is a group, and no literal.
LEMMA PlaceholderTyped ==
    ASSUME NEW text \in Texts
    PROVE  Placeholder(text) \in Piece /\ Placeholder(text).kind # "literal"
<1> DEFINE pos == Strpos(text, ":", 0)
           filter == Substr(text, pos + 1, Len(text) - (pos + 1))
           kind == CASE pos = FAILURE -> "segment"
                     [] pos # FAILURE /\ Len(filter) = 1 /\ filter[1] \in Filter -> filter[1]
                     [] pos # FAILURE /\ IsPrefix(<<"re", ":">>, filter) -> "re"
                     [] OTHER -> "unknown"
           name == IF pos = FAILURE THEN text ELSE Substr(text, 0, pos)
<1>1. pos \in Int /\ Len(text) \in Nat
  <2>1. Len(text) \in Nat
    BY DEF Texts
  <2> QED
    BY <2>1, StrposTyped
<1>2. Placeholder(text) = [kind |-> kind, name |-> name]
  BY Zenon DEF Placeholder, Group
<1>3. kind \in Filter \union {"segment", "re", "unknown"}
  <2> HIDE DEF pos, filter
  <2>1. CASE pos = FAILURE
    BY <2>1, Zenon
  <2>2. CASE pos # FAILURE /\ Len(filter) = 1 /\ filter[1] \in Filter
    BY <2>2
  <2>3. CASE ~(pos = FAILURE) /\ ~(pos # FAILURE /\ Len(filter) = 1 /\ filter[1] \in Filter)
    BY <2>3
  <2> QED
    BY <2>1, <2>2, <2>3
<1>4. name \in Texts
  <2> HIDE DEF pos
  <2> QED
    BY <1>1, SubstrTyped
<1> HIDE DEF kind, name
<1> QED
  BY <1>2, <1>3, <1>4 DEF Piece, Kind, Filter

-----------------------------------------------------------------------------
(* The casts.                                                              *)

\* At every turn of the loop the pieces are pieces; every cast is that of a group
\* written so far, and every such group has one.
Pieced ==
    /\ uri \in Path
    /\ i \in Nat
    /\ regexp \in Seq(Piece)
CastsInv ==
    /\ casts = [v \in DOMAIN casts |-> casts[v]]
    /\ \A v \in DOMAIN casts : \E k \in DOMAIN regexp :
           /\ regexp[k].name = v
           /\ regexp[k].kind = casts[v]
           /\ regexp[k].kind \in Filter
    /\ \A k \in DOMAIN regexp : regexp[k].kind \in Filter => regexp[k].name \in DOMAIN casts
RouteInv == Pieced /\ CastsInv

\* A path is a text, and so is a placeholder in it.
LEMMA PathTyped ==
    ASSUME NEW s \in Path
    PROVE  s \in Texts /\ Len(s) \in Nat /\ DOMAIN s = 1..Len(s)
<1> DEFINE D == Char \union {"(null)"}
<1>1. s \in Seq(Char) /\ Char \subseteq D
  BY PathAssumption
<1> HIDE DEF D
<1>2. s \in Seq(D)
  BY <1>1
<1> QED
  BY <1>1, <1>2 DEF D, Texts

\* So does the search for the '>' of a placeholder.
LEMMA CloseTyped ==
    ASSUME Pieced
    PROVE  Close \in Int /\ Close >= FAILURE
<1>1. uri \in Texts /\ i \in Nat
  BY PathTyped DEF Pieced
<1> QED
  BY <1>1, StrposTyped DEF Close

\* A piece behind others.
LEMMA AppendPiece ==
    ASSUME NEW ps \in Seq(Piece), NEW g \in Piece
    PROVE  /\ Append(ps, g) \in Seq(Piece)
           /\ DOMAIN ps = 1..Len(ps) /\ Len(ps) \in Nat
           /\ DOMAIN Append(ps, g) = 1..(Len(ps) + 1)
           /\ \A k \in 1..Len(ps) : Append(ps, g)[k] = ps[k]
           /\ Append(ps, g)[Len(ps) + 1] = g
<1> DEFINE P == Piece
<1>1. ps \in Seq(P) /\ g \in P
  OBVIOUS
<1> HIDE DEF P
<1>2. /\ Append(ps, g) \in Seq(P)
      /\ DOMAIN ps = 1..Len(ps) /\ Len(ps) \in Nat
      /\ DOMAIN Append(ps, g) = 1..(Len(ps) + 1)
      /\ \A k \in 1..Len(ps) : Append(ps, g)[k] = ps[k]
      /\ Append(ps, g)[Len(ps) + 1] = g
  BY <1>1
<1> QED
  BY <1>2 DEF P

\* Printing an empty pattern gives the text of a null pointer, which is no group.
LEMMA PrintedPieces ==
    ASSUME NEW ps \in Seq(Piece)
    PROVE  /\ Printed(ps) \in Seq(Piece)
           /\ \/ Printed(ps) = ps
              \/ ps = << >> /\ Printed(ps) = <<NullPiece>> /\ DOMAIN ps = {}
           /\ NullPiece.kind = "literal"
<1>1. NullPiece \in Piece /\ NullPiece.kind = "literal"
  BY DEF NullPiece, Null, Piece, Kind, Texts
<1>2. <<NullPiece>> \in Seq(Piece)
  <2> DEFINE n == NullPiece
  <2>1. n \in Piece
    BY <1>1
  <2> HIDE DEF n
  <2>2. <<n>> \in Seq(Piece)
    BY <2>1
  <2> QED
    BY <2>2 DEF n
<1> QED
  BY <1>1, <1>2 DEF Printed

\* One more piece, and its cast if its filter has one.
LEMMA CastsExtended ==
    ASSUME NEW ps \in Seq(Piece), NEW g \in Piece,
           RouteInv, ps \in {regexp, Printed(regexp)},
           regexp' = Append(ps, g), casts' = CastsWith(g)
    PROVE  CastsInv'
<1>1. /\ regexp' \in Seq(Piece) /\ DOMAIN ps = 1..Len(ps) /\ Len(ps) \in Nat
      /\ DOMAIN regexp' = 1..(Len(ps) + 1)
      /\ \A k \in 1..Len(ps) : regexp'[k] = ps[k]
      /\ regexp'[Len(ps) + 1] = g
  BY AppendPiece
<1>2. /\ \A v \in DOMAIN casts : \E k \in DOMAIN ps :
             ps[k].name = v /\ ps[k].kind = casts[v] /\ ps[k].kind \in Filter
      /\ \A k \in DOMAIN ps : ps[k].kind \in Filter => ps[k].name \in DOMAIN casts
  <2>1. CASE ps = regexp
    BY <2>1 DEF RouteInv, CastsInv
  <2>2. CASE DOMAIN regexp = {} /\ ps = <<NullPiece>> /\ NullPiece.kind = "literal"
    <3>1. DOMAIN casts = {}
      BY <2>2 DEF RouteInv, CastsInv
    <3>2. "literal" \notin Filter
      BY DEF Filter
    <3>3. \A k \in DOMAIN ps : ps[k] = NullPiece
      BY <2>2
    <3> QED
      BY <2>2, <3>1, <3>2, <3>3
  <2> QED
    BY <2>1, <2>2, PrintedPieces DEF RouteInv, Pieced
<1>3. \A k \in DOMAIN ps : k \in DOMAIN regexp' /\ regexp'[k] = ps[k]
  BY <1>1
<1>4. \A k \in DOMAIN regexp' : k \in DOMAIN ps \/ k = Len(ps) + 1
  BY <1>1
<1>5. Len(ps) + 1 \in DOMAIN regexp'
  BY <1>1
<1>6. CASE g.kind \in Filter
  <2>1. casts' = [v \in DOMAIN casts \union {g.name} |-> IF v = g.name THEN g.kind ELSE casts[v]]
    BY <1>6 DEF CastsWith
  <2>2. DOMAIN casts' = DOMAIN casts \union {g.name} /\ casts' = [v \in DOMAIN casts' |-> casts'[v]]
    BY <2>1
  <2>3. ASSUME NEW v \in DOMAIN casts'
        PROVE  \E k \in DOMAIN regexp' :
                  /\ regexp'[k].name = v /\ regexp'[k].kind = casts'[v]
                  /\ regexp'[k].kind \in Filter
    <3>1. CASE v = g.name
      <4>1. casts'[v] = g.kind
        BY <2>1, <3>1
      <4> QED
        BY <1>1, <1>5, <1>6, <3>1, <4>1
    <3>2. CASE v # g.name
      <4>1. v \in DOMAIN casts /\ casts'[v] = casts[v]
        BY <2>1, <2>2, <3>2
      <4> QED
        BY <1>2, <1>3, <4>1
    <3> QED
      BY <3>1, <3>2
  <2>4. \A k \in DOMAIN regexp' :
            regexp'[k].kind \in Filter => regexp'[k].name \in DOMAIN casts'
    BY <1>1, <1>2, <1>3, <1>4, <2>2
  <2> QED
    BY <2>2, <2>3, <2>4 DEF CastsInv
<1>7. CASE g.kind \notin Filter
  <2>1. casts' = casts
    BY <1>7 DEF CastsWith
  <2>2. casts = [v \in DOMAIN casts |-> casts[v]]
    BY DEF RouteInv, CastsInv
  <2>3. \A k \in DOMAIN regexp' :
            regexp'[k].kind \in Filter => regexp'[k].name \in DOMAIN casts
    BY <1>1, <1>2, <1>3, <1>4, <1>7
  <2>4. \A v \in DOMAIN casts : \E k \in DOMAIN regexp' :
            /\ regexp'[k].name = v /\ regexp'[k].kind = casts[v]
            /\ regexp'[k].kind \in Filter
    BY <1>2, <1>3
  <2> QED
    BY <2>1, <2>2, <2>3, <2>4 DEF CastsInv
<1> QED
  BY <1>6, <1>7

\* The constructor starts with no pieces and no casts.
LEMMA RouteStart == Init => RouteInv
<1> SUFFICES ASSUME Init PROVE RouteInv
  OBVIOUS
<1>1. uri \in Path /\ i \in Nat /\ regexp \in Seq(Piece)
  BY DEF Init
<1>2. DOMAIN casts = {} /\ DOMAIN regexp = {} /\ casts = [v \in DOMAIN casts |-> casts[v]]
  BY DEF Init
<1> QED
  BY <1>1, <1>2 DEF RouteInv, Pieced, CastsInv

\* Every turn of the loop keeps the pieces and the casts together.
LEMMA RouteStep == RouteInv /\ [Next]_vars => RouteInv'
<1> SUFFICES ASSUME RouteInv, [Next]_vars PROVE RouteInv'
  OBVIOUS
<1>0. /\ uri \in Path /\ uri \in Texts /\ Len(uri) \in Nat /\ i \in Nat
      /\ regexp \in Seq(Piece)
  BY PathTyped DEF RouteInv, Pieced
<1>1. CASE UNCHANGED vars
  BY <1>1 DEF vars, RouteInv, Pieced, CastsInv
<1>2. CASE ParseChar
  <2> DEFINE g == Literal(uri[i + 1])
  <2>1. /\ uri' = uri /\ i' = i + 1 /\ casts' = casts /\ i < Len(uri)
        /\ regexp' = Append(regexp, g)
    BY <1>2 DEF ParseChar, Iterating
  <2>2. uri[i + 1] \in Char
    <3>1. uri \in Seq(Char) /\ i + 1 \in 1..Len(uri)
      BY <1>0, <2>1, PathAssumption
    <3> QED
      BY <3>1
  <2>3. g \in Piece /\ g.kind = "literal"
    BY <2>2 DEF Literal, Piece, Kind, Texts
  <2> HIDE DEF g
  <2>4. CastsWith(g) = casts
    BY <2>3 DEF CastsWith, Filter
  <2>5. CastsInv'
    BY <1>0, <2>1, <2>3, <2>4, CastsExtended
  <2>6. Pieced'
    BY <1>0, <2>1, <2>3, AppendPiece DEF Pieced
  <2> QED
    BY <2>5, <2>6 DEF RouteInv
<1>3. CASE ParsePlaceholder
  <2> DEFINE text == Substr(uri, i + 1, Close - (i + 1))
             g == Placeholder(text)
  <2>1. /\ uri' = uri /\ i' = Close + 1 /\ casts' = CastsWith(g)
        /\ regexp' = IF g.kind = "unknown" THEN regexp ELSE Append(Printed(regexp), g)
    BY <1>3 DEF ParsePlaceholder, Iterating, Resume
  <2>2. Close \in Int /\ Close + 1 \in Nat
    BY CloseTyped DEF RouteInv, FAILURE
  <2>3. text \in Texts
    BY <1>0, <2>2, SubstrTyped
  <2>4. g \in Piece
    <3> HIDE DEF text
    <3> QED
      BY <2>3, PlaceholderTyped
  <2> HIDE DEF g, text
  <2>5. CASE g.kind = "unknown"
    <3>1. casts' = casts /\ regexp' = regexp
      BY <2>1, <2>5 DEF CastsWith, Filter
    <3>2. CastsInv'
      BY <3>1, Zenon DEF RouteInv, CastsInv
    <3>3. Pieced'
      BY <1>0, <2>1, <2>2, <3>1 DEF Pieced
    <3> QED
      BY <3>2, <3>3 DEF RouteInv
  <2>6. CASE g.kind # "unknown"
    <3>1. regexp' = Append(Printed(regexp), g) /\ Printed(regexp) \in Seq(Piece)
      BY <1>0, <2>1, <2>6, PrintedPieces
    <3>2. CastsInv'
      BY <2>1, <2>4, <3>1, CastsExtended
    <3>3. Pieced'
      BY <1>0, <2>1, <2>2, <2>4, <3>1, AppendPiece DEF Pieced
    <3> QED
      BY <3>2, <3>3 DEF RouteInv
  <2> QED
    BY <2>5, <2>6
<1>4. CASE ParseEnds
  <2>1. uri' = uri /\ i' = i /\ casts' = casts /\ regexp' = Printed(regexp)
    BY <1>4 DEF ParseEnds
  <2>2. CASE regexp' = regexp
    BY <1>0, <2>1, <2>2 DEF RouteInv, Pieced, CastsInv
  <2>3. CASE regexp' = <<NullPiece>> /\ DOMAIN regexp = {} /\ NullPiece.kind = "literal"
    <3>1. DOMAIN casts = {} /\ casts = [v \in DOMAIN casts |-> casts[v]]
      BY <2>3 DEF RouteInv, CastsInv
    <3>2. \A k \in DOMAIN regexp' : regexp'[k].kind \notin Filter
      BY <2>3 DEF Filter
    <3>3. regexp' \in Seq(Piece)
      BY <1>0, <2>1, PrintedPieces
    <3> QED
      BY <1>0, <2>1, <3>1, <3>2, <3>3 DEF RouteInv, Pieced, CastsInv
  <2> QED
    BY <1>0, <2>1, <2>2, <2>3, PrintedPieces
<1> QED
  BY <1>1, <1>2, <1>3, <1>4 DEF Next

\* The pieces are pieces, and the casts those of the groups written so far, at every
\* turn of the loop and whatever the path is.
THEOREM RouteInvariant == Spec => []RouteInv
<1>1. Init => RouteInv
  BY RouteStart
<1>2. RouteInv /\ [Next]_vars => RouteInv'
  BY RouteStep
<1> QED
  BY <1>1, <1>2, PTL DEF Spec

\* A parameter is cast to what its own group matches, and to nothing else, when no
\* name is given twice: CastsFitGroups, for every path.
THEOREM CastsFit == Spec => []CastsFitGroups
<1>1. RouteInv => CastsFitGroups
  <2> DEFINE groups == {k \in DOMAIN regexp : regexp[k].kind # "literal"}
             named == {regexp[k].name : k \in {g \in groups : regexp[g].kind \in Filter}}
  <2> SUFFICES ASSUME RouteInv, IsInjective([k \in groups |-> regexp[k].name])
               PROVE  casts = [v \in named |->
                                  regexp[CHOOSE k \in groups : regexp[k].name = v].kind]
    BY DEF CastsFitGroups
  <2>1. "literal" \notin Filter
    BY DEF Filter
  <2>2. \A k, l \in groups : regexp[k].name = regexp[l].name => k = l
    BY DEF IsInjective
  <2>3. ASSUME NEW v \in DOMAIN casts
        PROVE  v \in named /\ casts[v] = regexp[CHOOSE k \in groups : regexp[k].name = v].kind
    <3>1. PICK k \in groups : /\ regexp[k].name = v /\ regexp[k].kind = casts[v]
                              /\ regexp[k].kind \in Filter
      BY <2>1 DEF RouteInv, CastsInv
    <3>2. (CHOOSE l \in groups : regexp[l].name = v) = k
      BY <2>2, <3>1
    <3> QED
      BY <3>1, <3>2
  <2>4. named \subseteq DOMAIN casts
    BY DEF RouteInv, CastsInv
  <2>5. casts = [v \in DOMAIN casts |-> casts[v]]
    BY DEF RouteInv, CastsInv
  <2> HIDE DEF groups, named
  <2>6. DOMAIN casts = named
    BY <2>3, <2>4
  <2> QED
    BY <2>3, <2>5, <2>6
<1> QED
  BY <1>1, RouteInvariant, PTL

-----------------------------------------------------------------------------
(* The path read as a whole, up to a place in it.                          *)

\* The piece a character of the path is the beginning of, if any.
Begins(s, p) == (Opens(s, p) \/ Outside(s, p)) /\ PieceAt(s, p).kind # "unknown"

UptoIs(f, s) ==
    f = [p \in 0..Len(s) |->
            IF p = 0 THEN << >>
            ELSE IF Begins(s, p) THEN Append(f[p - 1], PieceAt(s, p)) ELSE f[p - 1]]

PiecesUpTo(s) == CHOOSE f : UptoIs(f, s)

\* There is a function that computes the pieces of a path position by position.
LEMMA UptoExists ==
    ASSUME NEW s, Len(s) \in Nat
    PROVE  \E f : UptoIs(f, s)
<1> DEFINE Upto(f, n) ==
               /\ f = [p \in 0..n |-> f[p]]
               /\ \A p \in 0..n : f[p] = IF p = 0 THEN << >>
                                         ELSE IF Begins(s, p) THEN Append(f[p - 1], PieceAt(s, p))
                                         ELSE f[p - 1]
           S == {n \in 0..Len(s) : \E f : Upto(f, n)}
<1>1. S = 0..Len(s)
  <2>1. 0 \in S
    <3>1. Upto([p \in 0..0 |-> << >>], 0) /\ 0 \in 0..Len(s)
      OBVIOUS
    <3> HIDE DEF Upto
    <3> QED
      BY <3>1
  <2>2. ASSUME NEW n \in 1..Len(s), n - 1 \in S PROVE n \in S
    <3>1. PICK g : Upto(g, n - 1)
      <4> HIDE DEF Upto
      <4> QED
        BY <2>2
    <3> DEFINE x == IF Begins(s, n) THEN Append(g[n - 1], PieceAt(s, n)) ELSE g[n - 1]
               f == [p \in 0..n |-> IF p = n THEN x ELSE g[p]]
    <3>2. n \in Nat /\ n > 0 /\ n - 1 \in Nat /\ n \in 0..Len(s)
      OBVIOUS
    <3>3. f = [p \in 0..n |-> f[p]]
      OBVIOUS
    <3>4. \A p \in 0..n : p # n => p \in 0..(n - 1) /\ f[p] = g[p]
      BY <3>2
    <3>5. f[n] = x /\ f[n - 1] = g[n - 1]
      BY <3>2
    <3> HIDE DEF f
    <3>6. ASSUME NEW p \in 0..n
          PROVE  f[p] = IF p = 0 THEN << >>
                        ELSE IF Begins(s, p) THEN Append(f[p - 1], PieceAt(s, p)) ELSE f[p - 1]
      <4>1. CASE p = n
        BY <3>2, <3>5, <4>1
      <4>2. CASE p # n
        <5>1. p = 0 \/ (p - 1 \in 0..n /\ p - 1 # n)
          BY <3>2
        <5> QED
          BY <3>1, <3>4, <4>2, <5>1
      <4> QED
        BY <4>1, <4>2
    <3>7. Upto(f, n)
      BY <3>3, <3>6
    <3> HIDE DEF Upto
    <3> QED
      BY <3>2, <3>7
  <2>3. S \in SUBSET (0..Len(s))
    OBVIOUS
  <2> HIDE DEF S
  <2> QED
    BY <2>1, <2>2, <2>3, InductionUpTo
<1>2. PICK f : Upto(f, Len(s))
  <2>1. Len(s) \in S
    <3> HIDE DEF S
    <3> QED
      BY <1>1
  <2> HIDE DEF Upto
  <2> QED
    BY <2>1
<1>3. [p \in 0..Len(s) |-> f[p]] =
          [p \in 0..Len(s) |-> IF p = 0 THEN << >>
                               ELSE IF Begins(s, p) THEN Append(f[p - 1], PieceAt(s, p))
                               ELSE f[p - 1]]
  BY <1>2
<1> QED
  BY <1>2, <1>3 DEF UptoIs

\* PathAsPieces is the last value of that function, each of which follows from the one before.
LEMMA PiecesAre ==
    ASSUME NEW s, Len(s) \in Nat
    PROVE  /\ PathAsPieces(s) = PiecesUpTo(s)[Len(s)]
           /\ PiecesUpTo(s)[0] = << >>
           /\ \A p \in 1..Len(s) :
                 PiecesUpTo(s)[p] = IF Begins(s, p)
                                    THEN Append(PiecesUpTo(s)[p - 1], PieceAt(s, p))
                                    ELSE PiecesUpTo(s)[p - 1]
<1> DEFINE f == PiecesUpTo(s)
<1>1. UptoIs(f, s)
  BY UptoExists DEF PiecesUpTo
<1>2. PathAsPieces(s) = f[Len(s)]
  BY DEF PathAsPieces, PiecesUpTo, UptoIs, Begins
<1> HIDE DEF f
<1>3. \A p \in 0..Len(s) : f[p] = IF p = 0 THEN << >>
                                  ELSE IF Begins(s, p) THEN Append(f[p - 1], PieceAt(s, p))
                                  ELSE f[p - 1]
  BY <1>1 DEF UptoIs
<1>4. 0 \in 0..Len(s) /\ \A p \in 1..Len(s) : p \in 0..Len(s) /\ p # 0
  OBVIOUS
<1>5. f[0] = << >>
  BY <1>3, <1>4
<1>6. \A p \in 1..Len(s) : f[p] = IF Begins(s, p) THEN Append(f[p - 1], PieceAt(s, p))
                                  ELSE f[p - 1]
  BY <1>3, <1>4
<1> QED
  BY <1>2, <1>5, <1>6 DEF f

\* Where a closed placeholder ends.
LEMMA EndIs ==
    ASSUME NEW s, Len(s) \in Nat, NEW p \in 1..Len(s), s[p] = "<",
           \E r \in p..Len(s) : s[r] = ">"
    PROVE  /\ End(s, p) \in (p + 1)..Len(s)
           /\ s[End(s, p)] = ">"
           /\ \A q \in p..(End(s, p) - 1) : s[q] # ">"
<1> DEFINE R == {r \in p..Len(s) : s[r] = ">"}
<1>1. R \in SUBSET Nat /\ R # {}
  OBVIOUS
<1>2. PICK r \in R : \A q \in R : r <= q
  <2> HIDE DEF R
  <2> QED
    BY <1>1, LeastExists
<1>3. r \in p..Len(s) /\ s[r] = ">" /\ \A q \in p..(r - 1) : s[q] # ">"
  BY <1>2
<1>4. /\ End(s, p) \in p..Len(s) /\ s[End(s, p)] = ">"
      /\ \A q \in p..(End(s, p) - 1) : s[q] # ">"
  BY <1>3, Zenon DEF End
<1>5. End(s, p) # p
  BY <1>4
<1> QED
  BY <1>4, <1>5

\* Within the string php_can_substr cuts out what it is asked for.
LEMMA SubstrWithin ==
    ASSUME NEW str, Len(str) \in Nat, NEW f \in Nat, NEW l \in Nat, f + l <= Len(str)
    PROVE  Substr(str, f, l) = SubSeq(str, f + 1, f + l)
<1> DEFINE str_len == Len(str) + 1
           from == CASE f >= 0 -> f
                     [] f < 0 /\ -f <= str_len -> str_len + f
                     [] OTHER -> 0
           rest == str_len - from + l
           length == IF l >= 0 THEN l ELSE IF rest < 0 THEN 0 ELSE rest
<1>1. l >= 0 /\ ~(l < 0) /\ f >= 0 /\ ~(f < 0) /\ ~(f >= str_len) /\ ~(f + l > Len(str))
  OBVIOUS
<1>2. from = f
  BY <1>1, Zenon
<1>3. length = l
  BY <1>1
<1>4. Substr(str, f, l) = IF \/ l < 0 /\ -l > str_len
                             \/ l < 0 /\ l + str_len - f < 0
                             \/ from >= str_len
                          THEN Null ELSE Bytes(str, from, length)
  BY Zenon DEF Substr
<1>5. Substr(str, f, l) = Bytes(str, f, l)
  <2> HIDE DEF from, length, str_len
  <2> QED
    BY <1>1, <1>2, <1>3, <1>4
<1> QED
  BY <1>1, <1>5 DEF Bytes

\* A placeholder is read as the group its text says: the name up to the first ':',
\* the filter behind it.
LEMMA PlaceholderIs ==
    ASSUME NEW text \in Texts
    PROVE  Placeholder(text) = GroupOf(text)
<1>0. Len(text) \in Nat /\ DOMAIN text = 1..Len(text)
  BY DEF Texts
<1> DEFINE pos == Strpos(text, ":", 0)
           found == {p \in 0..(Len(text) - 1) : text[p + 1] = ":"}
           filter == Substr(text, pos + 1, Len(text) - (pos + 1))
           kind == CASE pos = FAILURE -> "segment"
                     [] pos # FAILURE /\ Len(filter) = 1 /\ filter[1] \in Filter -> filter[1]
                     [] pos # FAILURE /\ IsPrefix(<<"re", ":">>, filter) -> "re"
                     [] OTHER -> "unknown"
           name == IF pos = FAILURE THEN text ELSE Substr(text, 0, pos)
<1>1. Placeholder(text) = [kind |-> kind, name |-> name]
  BY Zenon DEF Placeholder, Group
<1>2. pos = IF text = Null \/ found = {} THEN FAILURE ELSE Min(found)
  BY DEF Strpos
<1>3. CASE \A p \in DOMAIN text : text[p] # ":"
  <2>1. found = {}
    BY <1>0, <1>3
  <2>2. pos = FAILURE
    BY <1>2, <2>1
  <2>3. kind = "segment" /\ name = text
    <3> HIDE DEF pos, filter
    <3> QED
      BY <2>2, Zenon
  <2>4. GroupOf(text) = [kind |-> "segment", name |-> text]
    BY <1>3 DEF GroupOf, Group
  <2> QED
    BY <1>1, <2>3, <2>4
<1>4. CASE ~\A p \in DOMAIN text : text[p] # ":"
  <2> DEFINE n == Min(found)
             c == FirstColon(text)
  <2>1. PICK p \in 1..Len(text) : text[p] = ":"
    BY <1>0, <1>4
  <2>2. p - 1 \in found
    BY <1>0, <2>1
  <2>3. text # Null
    <3>1. text = Null => Len(text) = 1 /\ text[1] = "(null)"
      BY DEF Null
    <3> QED
      BY <2>1, <3>1
  <2>4. pos = n
    BY <1>2, <2>2, <2>3
  <2>5. n \in found /\ \A q \in found : n <= q
    <3>1. found \in SUBSET Nat
      OBVIOUS
    <3> HIDE DEF found
    <3> QED
      BY <2>2, <3>1, LeastExists DEF Min
  <2> HIDE DEF pos, n
  <2>6. n \in 0..(Len(text) - 1) /\ text[n + 1] = ":"
    BY <1>0, <2>5
  <2>7. \A q \in 1..n : text[q] # ":"
    <3> SUFFICES ASSUME NEW q \in 1..n, text[q] = ":" PROVE FALSE
      OBVIOUS
    <3>1. q - 1 \in found
      BY <1>0, <2>6
    <3> HIDE DEF found
    <3>2. n <= q - 1
      BY <2>5, <3>1
    <3> QED
      BY <1>0, <2>6, <3>2
  <2>8. c = n + 1
    <3>1. n + 1 \in DOMAIN text /\ \A q \in 1..((n + 1) - 1) : text[q] # ":"
      BY <1>0, <2>6, <2>7
    <3>2. c \in DOMAIN text /\ text[c] = ":" /\ \A q \in 1..(c - 1) : text[q] # ":"
      BY <2>6, <3>1, Zenon DEF FirstColon
    <3> HIDE DEF c
    <3>3. c \in 1..Len(text)
      BY <1>0, <3>2
    <3>4. ~(c <= n)
      BY <1>0, <2>6, <2>7, <3>2, <3>3
    <3>5. ~(n + 1 <= c - 1)
      BY <1>0, <2>6, <3>2, <3>3
    <3> QED
      BY <2>6, <3>3, <3>4, <3>5
  <2> HIDE DEF c
  <2>9. filter = SubSeq(text, c + 1, Len(text))
    <3> DEFINE f == n + 1
               l == Len(text) - (n + 1)
    <3>1. f \in Nat /\ l \in Nat /\ f + l = Len(text) /\ f + l <= Len(text)
      BY <1>0, <2>6
    <3> HIDE DEF f, l
    <3>2. Substr(text, f, l) = SubSeq(text, f + 1, f + l)
      BY <1>0, <3>1, SubstrWithin
    <3> QED
      BY <2>4, <2>8, <3>1, <3>2 DEF f, l
  <2>10. name = SubSeq(text, 1, c - 1)
    <3>1. pos # FAILURE /\ n \in Nat /\ 0 + n <= Len(text) /\ c - 1 = n
      BY <1>0, <2>4, <2>6, <2>8 DEF FAILURE
    <3>2. Substr(text, 0, n) = SubSeq(text, 0 + 1, 0 + n)
      BY <1>0, <3>1, SubstrWithin
    <3> QED
      BY <2>4, <3>1, <3>2
  <2>11. pos # FAILURE
    BY <1>0, <2>4, <2>6 DEF FAILURE
  <2>12. kind = KindOf(filter)
    <3>1. Len(filter) = 1 /\ filter[1] \in Filter <=> \E f \in Filter : filter = <<f>>
      <4>1. filter \in Texts
        <5>1. pos \in Int /\ pos + 1 \in Int /\ Len(text) - (pos + 1) \in Int
          BY <1>0, <2>4, <2>6
        <5> QED
          BY <5>1, SubstrTyped
      <4> DEFINE S == Char \union {"(null)"}
      <4>2. filter \in Seq(S)
        BY <4>1 DEF Texts
      <4> HIDE DEF filter, S
      <4>3. /\ Len(filter) = 1 => filter = <<filter[1]>>
            /\ \A f : filter = <<f>> => Len(filter) = 1 /\ filter[1] = f
        BY <4>2
      <4> QED
        BY <4>3, Zenon
    <3> HIDE DEF filter
    <3>2. CASE Len(filter) = 1 /\ filter[1] \in Filter
      <4>1. filter[1] # "re"
        BY <3>2 DEF Filter
      <4>2. ~IsPrefix(<<"re", ":">>, filter)
        BY <3>2, <4>1 DEF IsPrefix
      <4>3. KindOf(filter) = filter[1]
        BY <3>1, <3>2, Zenon DEF KindOf
      <4>4. kind = filter[1]
        BY <2>11, <3>2, <4>2, Zenon
      <4> QED
        BY <4>3, <4>4
    <3>3. CASE ~(Len(filter) = 1 /\ filter[1] \in Filter) /\ IsPrefix(<<"re", ":">>, filter)
      BY <2>11, <3>1, <3>3, Zenon DEF KindOf
    <3>4. CASE ~(Len(filter) = 1 /\ filter[1] \in Filter) /\ ~IsPrefix(<<"re", ":">>, filter)
      BY <2>11, <3>1, <3>4, Zenon DEF KindOf
    <3> QED
      BY <3>2, <3>3, <3>4
  <2> HIDE DEF kind, name
  <2>13. GroupOf(text) = [kind |-> KindOf(filter), name |-> SubSeq(text, 1, c - 1)]
    <3> HIDE DEF filter
    <3> QED
      BY <1>4, <2>9 DEF GroupOf, Group, c
  <2> QED
    BY <1>1, <2>10, <2>12, <2>13
<1> QED
  BY <1>3, <1>4

\* The search of the loop finds it, and cuts the text out of it.
LEMMA CloseIs ==
    ASSUME Len(uri) \in Nat, i \in Nat, i < Len(uri), uri[i + 1] = "<",
           \E r \in (i + 1)..Len(uri) : uri[r] = ">"
    PROVE  /\ Close = End(uri, i + 1) - 1
           /\ Substr(uri, i + 1, Close - (i + 1)) = Text(uri, i + 1)
<1> DEFINE p == i + 1
           e == End(uri, p)
           found == {q \in i..(Len(uri) - 1) : uri[q + 1] = ">"}
<1>1. p \in 1..Len(uri)
  OBVIOUS
<1>2. e \in (p + 1)..Len(uri) /\ uri[e] = ">" /\ \A q \in p..(e - 1) : uri[q] # ">"
  BY <1>1, EndIs
<1> HIDE DEF e
<1>3. uri # Null
  <2>1. uri = Null => Len(uri) = 1 /\ uri[1] = "(null)"
    BY DEF Null
  <2> QED
    BY <2>1
<1>4. e - 1 \in found
  BY <1>2
<1>5. Close = e - 1
  <2>1. Close = Min(found)
    BY <1>3, <1>4 DEF Close, Strpos
  <2>2. found \in SUBSET Nat
    OBVIOUS
  <2> HIDE DEF found
  <2>3. Min(found) \in found /\ \A q \in found : Min(found) <= q
    BY <1>4, <2>2, LeastExists DEF Min
  <2>4. Min(found) <= e - 1 /\ Min(found) \in Nat
    BY <1>4, <2>2, <2>3
  <2>5. Min(found) + 1 \in p..Len(uri) /\ uri[Min(found) + 1] = ">"
    BY <2>3, <2>4 DEF found
  <2>6. ~(Min(found) + 1 <= e - 1)
    BY <1>1, <1>2, <2>4, <2>5
  <2> QED
    BY <1>2, <2>1, <2>4, <2>6
<1>6. Substr(uri, p, Close - p) = SubSeq(uri, p + 1, e - 1)
  <2>1. p \in Nat /\ Close - p \in Nat /\ p + (Close - p) = e - 1 /\ p + (Close - p) <= Len(uri)
    BY <1>1, <1>2, <1>5
  <2> QED
    BY <2>1, SubstrWithin
<1> QED
  BY <1>5, <1>6 DEF Text, e

\* No placeholder is open at a place.
NoneOpen(s, n) == \A q \in 1..n : s[q] = "<" => \E r \in q..n : s[r] = ">"

\* Where none is open, a character stands for itself and a '<' opens one.
LEMMA NextBegins ==
    ASSUME NEW s, Len(s) \in Nat, NEW n \in Nat, n < Len(s), NoneOpen(s, n)
    PROVE  /\ s[n + 1] # "<" => Begins(s, n + 1) /\ PieceAt(s, n + 1) = Literal(s[n + 1])
           /\ s[n + 1] = "<" => Opens(s, n + 1)
<1>1. n + 1 \in 1..Len(s) /\ n + 1 \in Nat
  OBVIOUS
<1>2. ASSUME s[n + 1] # "<"
      PROVE  Begins(s, n + 1) /\ PieceAt(s, n + 1) = Literal(s[n + 1])
  <2>1. ~Opens(s, n + 1)
    BY <1>2 DEF Opens
  <2>2. PieceAt(s, n + 1) = Literal(s[n + 1])
    BY <2>1 DEF PieceAt
  <2>3. Outside(s, n + 1)
    <3>1. ASSUME NEW q \in 1..(n + 1), Opens(s, q), n + 1 <= End(s, q) PROVE FALSE
      <4>1. q \in 1..n /\ q \in 1..Len(s) /\ s[q] = "<"
        BY <1>1, <2>1, <3>1 DEF Opens
      <4>2. PICK r \in q..n : s[r] = ">"
        BY <4>1 DEF NoneOpen
      <4>3. r \in q..Len(s)
        BY <4>1, <4>2
      <4>4. \A t \in q..(End(s, q) - 1) : s[t] # ">"
        BY <4>1, <4>2, <4>3, EndIs
      <4>5. End(s, q) \in Nat
        BY <4>1, <4>2, <4>3, EndIs
      <4>6. r \in q..(End(s, q) - 1)
        BY <3>1, <4>1, <4>2, <4>5
      <4> QED
        BY <4>2, <4>4, <4>6
    <3> QED
      BY <3>1 DEF Outside
  <2> QED
    BY <2>2, <2>3 DEF Begins, Literal
<1>3. ASSUME s[n + 1] = "<" PROVE Opens(s, n + 1)
  <2>1. ASSUME NEW q \in 1..n, s[q] = "<" PROVE \E r \in q..(n + 1) : s[r] = ">"
    <3>1. PICK r \in q..n : s[r] = ">"
      BY <2>1 DEF NoneOpen
    <3>2. r \in q..(n + 1)
      BY <3>1
    <3> QED
      BY <3>1, <3>2
  <2>2. (n + 1) - 1 = n
    OBVIOUS
  <2> QED
    BY <1>3, <2>1, <2>2 DEF Opens
<1> QED
  BY <1>2, <1>3

\* A placeholder is one piece: nothing begins behind its '<'.
LEMMA PlaceholderIsOne ==
    ASSUME NEW s, Len(s) \in Nat, NEW p \in 1..Len(s), Opens(s, p),
           \E r \in p..Len(s) : s[r] = ">"
    PROVE  PiecesUpTo(s)[End(s, p)] = PiecesUpTo(s)[p]
<1> DEFINE e == End(s, p)
           T == PiecesUpTo(s)
<1>1. e \in (p + 1)..Len(s) /\ s[e] = ">" /\ \A q \in p..(e - 1) : s[q] # ">"
  BY EndIs DEF Opens
<1>2. ASSUME NEW m \in (p + 1)..e PROVE ~Begins(s, m)
  <2>1. ~Opens(s, m)
    <3>1. CASE m = e
      BY <1>1, <3>1 DEF Opens
    <3>2. CASE m # e
      <4>1. p \in 1..(m - 1) /\ s[p] = "<" /\ \A r \in p..m : r \in p..(e - 1)
        BY <1>1, <3>2 DEF Opens
      <4> HIDE DEF e
      <4> QED
        BY <1>1, <4>1 DEF Opens
    <3> QED
      BY <3>1, <3>2
  <2>2. ~Outside(s, m)
    <3>1. p \in 1..m /\ m <= e
      BY <1>1
    <3> QED
      BY <3>1 DEF Outside
  <2> QED
    BY <2>1, <2>2 DEF Begins
<1> HIDE DEF e
<1>3. ASSUME NEW m \in (p + 1)..e PROVE T[m] = T[m - 1]
  <2>1. m \in 1..Len(s)
    BY <1>1
  <2> QED
    BY <1>2, <2>1, PiecesAre
<1> HIDE DEF T
<1> DEFINE S == {k \in 0..(e - p) : T[p + k] = T[p]}
<1>4. 0 \in S /\ e - p \in Nat
  BY <1>1
<1>5. ASSUME NEW k \in 1..(e - p), k - 1 \in S PROVE k \in S
  <2>1. p + k \in (p + 1)..e /\ (p + k) - 1 = p + (k - 1) /\ k \in 0..(e - p)
    BY <1>1
  <2>2. T[p + k] = T[p + (k - 1)]
    BY <1>3, <2>1
  <2> QED
    BY <1>5, <2>1, <2>2
<1>6. S \in SUBSET (0..(e - p))
  OBVIOUS
<1> HIDE DEF S
<1>7. S = 0..(e - p)
  BY <1>4, <1>5, <1>6, InductionUpTo
<1>8. e - p \in S
  BY <1>4, <1>7
<1>9. T[p + (e - p)] = T[p] /\ p + (e - p) = e
  BY <1>1, <1>8 DEF S
<1> QED
  BY <1>9 DEF T, e

-----------------------------------------------------------------------------
(* The loop.                                                               *)

Regular(s) == Closed(s) /\ s[1] # "<"

\* Of a regular path the loop has written the pieces up to where it is, at which no
\* placeholder is open; and it has written one before it comes to a placeholder.
PathInv ==
    phase # "static" /\ Regular(uri) =>
        /\ Len(uri) > 0 /\ i <= Len(uri)
        /\ regexp = PiecesUpTo(uri)[i]
        /\ i > 0 => regexp # << >>
        /\ NoneOpen(uri, i)
        /\ phase = "pattern" => i = Len(uri)

\* Before the first turn nothing is written and no placeholder is open.
LEMMA PathStart == Init => PathInv
<1> SUFFICES ASSUME Init, phase # "static" PROVE PathInv
  BY DEF PathInv
<1>1. uri \in Path /\ i = 0 /\ regexp = << >> /\ phase = "parsing" /\ Has("<")
  BY DEF Init
<1>2. Len(uri) \in Nat /\ DOMAIN uri = 1..Len(uri)
  BY <1>1, PathTyped
<1>3. Len(uri) > 0
  BY <1>1, <1>2 DEF Has
<1>4. PiecesUpTo(uri)[0] = << >>
  BY <1>2, PiecesAre
<1> QED
  BY <1>1, <1>2, <1>3, <1>4 DEF PathInv, NoneOpen

\* A piece behind others is not none.
LEMMA AppendSome ==
    ASSUME NEW ps \in Seq(Piece), NEW g \in Piece
    PROVE  Append(ps, g) # << >>
<1>1. Len(ps) + 1 \in DOMAIN Append(ps, g)
  BY AppendPiece
<1> QED
  BY <1>1

\* A turn over a character writes it; one over a placeholder writes its group and goes to
\* the position behind it.
LEMMA PathStep == RouteInv /\ PathInv /\ [Next]_vars => PathInv'
<1> SUFFICES ASSUME RouteInv, PathInv, [Next]_vars, phase' # "static", Regular(uri)'
             PROVE  PathInv'
  BY DEF PathInv
<1>0. /\ uri \in Path /\ Len(uri) \in Nat /\ DOMAIN uri = 1..Len(uri) /\ i \in Nat
      /\ uri \in Texts /\ regexp \in Seq(Piece)
  BY PathTyped DEF RouteInv, Pieced
<1>1. uri' = uri /\ phase # "static" /\ Regular(uri)
  <2>1. uri' = uri /\ phase # "static"
    BY DEF Next, ParseChar, ParsePlaceholder, ParseEnds, Iterating, vars
  <2> QED
    BY <2>1 DEF Regular, Closed
<1> DEFINE T == PiecesUpTo(uri)
<1>2. /\ Len(uri) > 0 /\ i <= Len(uri) /\ regexp = T[i] /\ (i > 0 => regexp # << >>)
      /\ NoneOpen(uri, i) /\ (phase = "pattern" => i = Len(uri))
  BY <1>1 DEF PathInv
<1>3. T' = T
  BY <1>1
<1>4. \A p \in 1..Len(uri) : T[p] = IF Begins(uri, p) THEN Append(T[p - 1], PieceAt(uri, p))
                                    ELSE T[p - 1]
  BY <1>0, PiecesAre
<1> HIDE DEF T
<1>5. CASE UNCHANGED vars
  <2>1. UNCHANGED <<uri, i, regexp, phase>>
    BY <1>5 DEF vars
  <2> QED
    BY <2>1, <1>2, <1>3 DEF PathInv, NoneOpen, T
<1>6. CASE ParseChar
  <2> DEFINE n == i + 1
             g == Literal(uri[n])
  <2>1. /\ i < Len(uri) /\ uri[n] # "<" /\ regexp' = Append(regexp, g) /\ i' = n
        /\ phase' = phase /\ phase = "parsing"
    BY <1>6 DEF ParseChar, Iterating
  <2>2. Begins(uri, n) /\ PieceAt(uri, n) = g
    BY <1>0, <1>2, <2>1, NextBegins
  <2>3. n \in 1..Len(uri) /\ n - 1 = i
    BY <1>0, <2>1
  <2>4. regexp' = T[n]
    <3> HIDE DEF n, g
    <3> QED
      BY <1>2, <1>4, <2>1, <2>2, <2>3
  <2>5. regexp' # << >>
    <3>1. uri[n] \in Char
      <4>1. uri \in Seq(Char)
        BY <1>0, PathAssumption
      <4> QED
        BY <2>3, <4>1
    <3>2. g \in Piece
      BY <3>1 DEF Literal, Piece, Kind, Texts
    <3> HIDE DEF g
    <3> QED
      BY <1>0, <2>1, <3>2, AppendSome
  <2>6. NoneOpen(uri, n)
    <3> SUFFICES ASSUME NEW q \in 1..n, uri[q] = "<" PROVE \E r \in q..n : uri[r] = ">"
      BY DEF NoneOpen
    <3>1. q \in 1..i
      BY <1>0, <2>1
    <3>2. PICK r \in q..i : uri[r] = ">"
      BY <1>2, <3>1 DEF NoneOpen
    <3>3. r \in q..n
      BY <1>0, <3>2
    <3> QED
      BY <3>2, <3>3
  <2>7. n > 0 /\ n <= Len(uri) /\ phase' = "parsing"
    BY <1>0, <2>1
  <2> HIDE DEF n
  <2> QED
    BY <1>1, <1>2, <1>3, <2>1, <2>4, <2>5, <2>6, <2>7 DEF PathInv, T
<1>7. CASE ParsePlaceholder
  <2> DEFINE n == i + 1
             e == End(uri, n)
             g == GroupOf(Text(uri, n))
  <2>1. /\ i < Len(uri) /\ uri[n] = "<" /\ phase' = phase /\ phase = "parsing"
        /\ i' = Close + 1
        /\ LET h == Placeholder(Substr(uri, n, Close - n))
           IN regexp' = IF h.kind = "unknown" THEN regexp ELSE Append(Printed(regexp), h)
    BY <1>7 DEF ParsePlaceholder, Iterating, Resume
  <2>2. n \in 1..Len(uri) /\ n - 1 = i
    BY <1>0, <2>1
  <2>3. \E r \in n..Len(uri) : uri[r] = ">"
    BY <1>0, <1>1, <2>1, <2>2 DEF Regular, Closed
  <2>4. Close = e - 1 /\ Substr(uri, n, Close - n) = Text(uri, n)
    BY <1>0, <2>1, <2>3, CloseIs
  <2>15. Placeholder(Text(uri, n)) = g
    <3>1. Text(uri, n) \in Texts
      <4>1. Substr(uri, n, Close - n) \in Texts
        BY <1>0, <2>2, <2>3, <2>4, EndIs, SubstrTyped
      <4> QED
        BY <2>4, <4>1
    <3> QED
      BY <3>1, PlaceholderIs
  <2>5. e \in (n + 1)..Len(uri) /\ uri[e] = ">"
    BY <1>0, <2>1, <2>2, <2>3, EndIs
  <2>6. Opens(uri, n)
    BY <1>0, <1>2, <2>1, NextBegins
  <2>7. PieceAt(uri, n) = g /\ (Begins(uri, n) <=> g.kind # "unknown")
    BY <2>6 DEF PieceAt, Begins
  <2>8. T[e] = T[n]
    BY <1>0, <2>2, <2>3, <2>6, PlaceholderIsOne DEF T
  <2>9. i > 0 /\ regexp # << >>
    <3>1. uri[1] # "<"
      BY <1>1 DEF Regular
    <3> QED
      BY <1>0, <1>2, <2>1, <3>1
  <2>10. regexp' = IF g.kind = "unknown" THEN regexp ELSE Append(regexp, g)
    BY <2>1, <2>4, <2>9, <2>15 DEF Printed
  <2>11. regexp' = T[e] /\ i' = e
    <3>1. T[n] = IF Begins(uri, n) THEN Append(T[n - 1], PieceAt(uri, n)) ELSE T[n - 1]
      BY <1>4, <2>2
    <3>2. i' = e
      BY <2>1, <2>4, <2>5
    <3> HIDE DEF n, e, g
    <3> QED
      BY <1>2, <2>2, <2>7, <2>8, <2>10, <3>1, <3>2
  <2>12. regexp' # << >>
    <3>1. CASE g.kind = "unknown"
      BY <2>9, <2>10, <3>1
    <3>2. CASE g.kind # "unknown"
      <4>1. g \in Piece
        <5>1. Substr(uri, n, Close - n) \in Texts
          BY <1>0, <2>2, <2>4, <2>5, SubstrTyped
        <5> QED
          BY <2>4, <2>15, <5>1, PlaceholderTyped
      <4> HIDE DEF g
      <4> QED
        BY <1>0, <2>10, <3>2, <4>1, AppendSome
    <3> QED
      BY <3>1, <3>2
  <2>13. NoneOpen(uri, e)
    <3> SUFFICES ASSUME NEW q \in 1..e, uri[q] = "<" PROVE \E r \in q..e : uri[r] = ">"
      BY DEF NoneOpen
    <3>1. e \in q..e
      BY <2>5
    <3> HIDE DEF e
    <3> QED
      BY <2>5, <3>1
  <2>14. e > 0 /\ e <= Len(uri) /\ phase' = "parsing"
    BY <1>0, <2>1, <2>5
  <2> HIDE DEF n, e, g
  <2> QED
    BY <1>1, <1>2, <1>3, <2>11, <2>12, <2>13, <2>14 DEF PathInv, T
<1>8. CASE ParseEnds
  <2>1. i >= Len(uri) /\ i' = i /\ regexp' = Printed(regexp)
    BY <1>8 DEF ParseEnds
  <2>2. i = Len(uri) /\ regexp' = regexp
    BY <1>0, <1>2, <2>1 DEF Printed
  <2> QED
    BY <1>1, <1>2, <1>3, <2>1, <2>2 DEF PathInv, T
<1> QED
  BY <1>5, <1>6, <1>7, <1>8 DEF Next

\* The pattern of a path whose placeholders are closed and that begins with a
\* character is the path with groups for its placeholders: PatternIsPath, for paths
\* of any length over any characters.
THEOREM PatternRight == Spec => []PatternIsPath
<1>1. Init => PathInv
  BY PathStart
<1>2. RouteInv /\ PathInv /\ [Next]_vars => PathInv'
  BY PathStep
<1>3. RouteInv /\ PathInv => PatternIsPath
  <2> SUFFICES ASSUME RouteInv, PathInv, phase = "pattern", Closed(uri), uri[1] # "<"
               PROVE  regexp = PathAsPieces(uri)
    BY DEF PatternIsPath
  <2>1. Len(uri) \in Nat
    BY PathTyped DEF RouteInv, Pieced
  <2>2. regexp = PiecesUpTo(uri)[Len(uri)]
    BY DEF PathInv, Regular
  <2> QED
    BY <2>1, <2>2, PiecesAre
<1> QED
  BY <1>1, <1>2, <1>3, RouteInvariant, PTL DEF Spec
=============================================================================
