------------------------ MODULE ForwardMessageProofs ------------------------
(* Theorems about ForwardMessage for every set of messages, every number   *)
(* of calls and every header user code adds or removes.                    *)
EXTENDS ForwardMessage, ExtremaLemmas, SequenceTheorems

-----------------------------------------------------------------------------
(* Header lists.                                                           *)

AnyValue == Value \union {Empty, Deleted} \union Nat
Headers == Seq([key : Key, value : AnyValue])
Message == [headers : Headers, body : Nat]

\* Appending a header adds its value to those of its name.
LEMMA AddHeaderValues ==
    ASSUME NEW hs \in Headers, NEW k \in Key, NEW v \in AnyValue
    PROVE  /\ AddHeader(hs, k, v) \in Headers
           /\ Values(AddHeader(hs, k, v), k) = Values(hs, k) \union {v}
           /\ \A n : n # k => Values(AddHeader(hs, k, v), n) = Values(hs, n)
<1> DEFINE h == [key |-> k, value |-> v]
           s == AddHeader(hs, k, v)
<1>1. /\ s \in Headers /\ DOMAIN s = 1..(Len(hs) + 1) /\ DOMAIN hs = 1..Len(hs)
      /\ Len(hs) \in Nat
      /\ \A i \in 1..Len(hs) : s[i] = hs[i]
      /\ s[Len(hs) + 1].key = k /\ s[Len(hs) + 1].value = v
  BY DEF Headers, AddHeader
<1> HIDE DEF s
<1>2. \A n : Values(s, n) = Values(hs, n) \union (IF n = k THEN {v} ELSE {})
  BY <1>1 DEF Values
<1> QED
  BY <1>1, <1>2 DEF s

\* A list after another has the values of both.
LEMMA CopiedValues ==
    ASSUME NEW a \in Headers, NEW b \in Headers
    PROVE  /\ CopiedTo(a, b) \in Headers
           /\ \A n : Values(CopiedTo(a, b), n) = Values(a, n) \union Values(b, n)
<1> DEFINE s == CopiedTo(a, b)
<1>1. /\ s \in Headers /\ DOMAIN s = 1..(Len(a) + Len(b))
      /\ DOMAIN a = 1..Len(a) /\ DOMAIN b = 1..Len(b)
      /\ Len(a) \in Nat /\ Len(b) \in Nat
      /\ \A i \in 1..Len(a) : s[i] = a[i]
      /\ \A i \in 1..Len(b) : s[Len(a) + i] = b[i]
  BY DEF Headers, CopiedTo
<1> HIDE DEF s
<1>2. ASSUME NEW n PROVE Values(s, n) = Values(a, n) \union Values(b, n)
  <2>1. Values(a, n) \subseteq Values(s, n)
    BY <1>1 DEF Values
  <2>2. Values(b, n) \subseteq Values(s, n)
    BY <1>1 DEF Values
  <2>3. ASSUME NEW i \in DOMAIN s, s[i].key = n
        PROVE  s[i].value \in Values(a, n) \union Values(b, n)
    <3>1. CASE i <= Len(a)
      BY <1>1, <2>3, <3>1 DEF Values
    <3>2. CASE i > Len(a)
      <4>1. i - Len(a) \in 1..Len(b) /\ s[i] = b[i - Len(a)]
        BY <1>1, <3>2
      <4> QED
        BY <1>1, <2>3, <4>1 DEF Values
    <3> QED
      BY <1>1, <3>1, <3>2
  <2> QED
    BY <2>1, <2>2, <2>3 DEF Values
<1> QED
  BY <1>1, <1>2 DEF s

\* Removing a header leaves the list as it is or takes one of that name out of it.
LEMMA RemoveHeaderIs ==
    ASSUME NEW hs \in Headers, NEW k
    PROVE  \/ /\ RemoveHeader(hs, k) = hs
              /\ \A i \in DOMAIN hs : hs[i].key # k
           \/ \E i \in DOMAIN hs :
                 /\ hs[i].key = k
                 /\ RemoveHeader(hs, k) = SubSeq(hs, 1, i - 1) \o SubSeq(hs, i + 1, Len(hs))
<1> DEFINE I == {i \in 1..Len(hs) : hs[i].key = k}
<1>1. DOMAIN hs = 1..Len(hs)
  BY DEF Headers
<1>2. CASE I = {}
  BY <1>1, <1>2 DEF RemoveHeader, RemoveFirstMatch
<1>3. CASE I # {}
  <2>1. RemoveHeader(hs, k) = RemoveAt(hs, Min(I))
    BY <1>3 DEF RemoveHeader, RemoveFirstMatch, SelectInSeq
  <2>2. Min(I) \in I
    <3> HIDE DEF I
    <3>1. I \subseteq Nat
      BY DEF I
    <3> QED
      BY <1>3, <3>1, LeastExists DEF Min
  <2> QED
    BY <1>1, <2>1, <2>2 DEF RemoveAt
<1> QED
  BY <1>2, <1>3

\* What stands before an element of a sequence, and what behind.
LEMMA WithoutOneParts ==
    ASSUME NEW S, NEW hs \in Seq(S), NEW i \in 1..Len(hs)
    PROVE  LET a == SubSeq(hs, 1, i - 1)
               b == SubSeq(hs, i + 1, Len(hs))
           IN /\ a \in Seq(S) /\ Len(a) = i - 1 /\ \A j \in 1..(i - 1) : a[j] = hs[j]
              /\ b \in Seq(S) /\ Len(b) = Len(hs) - i
              /\ \A j \in 1..(Len(hs) - i) : b[j] = hs[i + j]
<1> DEFINE a == SubSeq(hs, 1, i - 1)
           b == SubSeq(hs, i + 1, Len(hs))
<1>1. Len(hs) \in Nat /\ i \in Nat /\ 1 <= i /\ i <= Len(hs) /\ \A j \in 1..Len(hs) : hs[j] \in S
  OBVIOUS
<1>2. a \in Seq(S) /\ Len(a) = i - 1 /\ \A j \in 1..(i - 1) : a[j] = hs[j]
  <2>1. \A j \in 1..(i - 1) : hs[j] \in S
    BY <1>1
  <2>2. i - 1 \in Int /\ 1 \in Int
    BY <1>1
  <2>3. /\ a \in Seq(S) /\ Len(a) = IF 1 <= i - 1 THEN (i - 1) - 1 + 1 ELSE 0
        /\ \A j \in 1..((i - 1) - 1 + 1) : a[j] = hs[1 + j - 1]
    BY <2>1, <2>2, SubSeqProperties
  <2> HIDE DEF a
  <2> QED
    BY <1>1, <2>3
<1>3. b \in Seq(S) /\ Len(b) = Len(hs) - i /\ \A j \in 1..(Len(hs) - i) : b[j] = hs[i + j]
  <2>1. \A j \in (i + 1)..Len(hs) : hs[j] \in S
    BY <1>1
  <2>2. i + 1 \in Int /\ Len(hs) \in Int
    BY <1>1
  <2>3. /\ b \in Seq(S) /\ Len(b) = IF i + 1 <= Len(hs) THEN Len(hs) - (i + 1) + 1 ELSE 0
        /\ \A j \in 1..(Len(hs) - (i + 1) + 1) : b[j] = hs[(i + 1) + j - 1]
    BY <2>1, <2>2, SubSeqProperties
  <2> HIDE DEF b
  <2>4. Len(b) = Len(hs) - i
    BY <1>1, <2>3
  <2>5. ASSUME NEW j \in 1..(Len(hs) - i) PROVE b[j] = hs[i + j]
    <3>1. j \in 1..(Len(hs) - (i + 1) + 1) /\ (i + 1) + j - 1 = i + j
      BY <1>1
    <3> QED
      BY <2>3, <3>1
  <2> QED
    BY <2>3, <2>4, <2>5
<1> QED
  BY <1>2, <1>3

\* A sequence without its element i.
LEMMA WithoutOne ==
    ASSUME NEW S, NEW hs \in Seq(S), NEW i \in 1..Len(hs)
    PROVE  LET s == SubSeq(hs, 1, i - 1) \o SubSeq(hs, i + 1, Len(hs))
           IN /\ s \in Seq(S) /\ Len(s) = Len(hs) - 1
              /\ \A j \in 1..(Len(hs) - 1) : s[j] = IF j < i THEN hs[j] ELSE hs[j + 1]
<1> DEFINE a == SubSeq(hs, 1, i - 1)
           b == SubSeq(hs, i + 1, Len(hs))
<1>1. Len(hs) \in Nat /\ i \in Nat /\ 1 <= i /\ i <= Len(hs)
  OBVIOUS
<1>2. a \in Seq(S) /\ Len(a) = i - 1 /\ \A j \in 1..(i - 1) : a[j] = hs[j]
  BY WithoutOneParts
<1>3. b \in Seq(S) /\ Len(b) = Len(hs) - i /\ \A j \in 1..(Len(hs) - i) : b[j] = hs[i + j]
  BY WithoutOneParts
<1> HIDE DEF a, b
<1>4. /\ a \o b \in Seq(S) /\ Len(a \o b) = Len(a) + Len(b)
      /\ \A j \in 1..(Len(a) + Len(b)) : (a \o b)[j] = IF j <= Len(a) THEN a[j] ELSE b[j - Len(a)]
  BY <1>2, <1>3, ConcatProperties
<1>5. ASSUME NEW j \in 1..(Len(hs) - 1)
      PROVE  (a \o b)[j] = IF j < i THEN hs[j] ELSE hs[j + 1]
  <2>1. CASE j < i
    <3>1. j \in 1..(Len(a) + Len(b)) /\ j <= Len(a) /\ j \in 1..(i - 1)
      BY <1>1, <1>2, <1>3, <2>1
    <3> QED
      BY <1>2, <1>4, <2>1, <3>1
  <2>2. CASE ~(j < i)
    <3>1. /\ j \in 1..(Len(a) + Len(b)) /\ ~(j <= Len(a))
          /\ j - Len(a) \in 1..(Len(hs) - i) /\ i + (j - Len(a)) = j + 1
      BY <1>1, <1>2, <1>3, <2>2
    <3> QED
      BY <1>3, <1>4, <2>2, <3>1
  <2> QED
    BY <2>1, <2>2
<1>6. Len(a \o b) = Len(hs) - 1
  BY <1>1, <1>2, <1>3, <1>4
<1> QED
  BY <1>4, <1>5, <1>6 DEF a, b

\* A sequence is what stands before an element, the element, and what stands behind.
LEMMA SplitAtOne ==
    ASSUME NEW S, NEW hs \in Seq(S), NEW i \in 1..Len(hs)
    PROVE  LET a == SubSeq(hs, 1, i - 1)
               c == SubSeq(hs, i + 1, Len(hs))
           IN /\ a \in Seq(S) /\ c \in Seq(S) /\ hs[i] \in S
              /\ hs = (a \o <<hs[i]>>) \o c
<1> DEFINE a == SubSeq(hs, 1, i - 1)
           c == SubSeq(hs, i + 1, Len(hs))
           h == hs[i]
<1>1. Len(hs) \in Nat /\ i \in Nat /\ 1 <= i /\ i <= Len(hs) /\ \A j \in 1..Len(hs) : hs[j] \in S
  OBVIOUS
<1>2. a \in Seq(S) /\ Len(a) = i - 1 /\ \A j \in 1..(i - 1) : a[j] = hs[j]
  BY WithoutOneParts
<1>3. c \in Seq(S) /\ Len(c) = Len(hs) - i /\ \A j \in 1..(Len(hs) - i) : c[j] = hs[i + j]
  BY WithoutOneParts
<1>4. h \in S
  BY <1>1
<1>5. hs = (a \o <<h>>) \o c
  <2> HIDE DEF a, c
  <2> DEFINE b == a \o <<h>>
  <2>1. /\ b \in Seq(S) /\ Len(b) = i
        /\ \A j \in 1..i : b[j] = IF j < i THEN hs[j] ELSE h
    BY <1>1, <1>2, <1>4
  <2> HIDE DEF b
  <2>2. /\ b \o c \in Seq(S) /\ Len(b \o c) = Len(hs)
        /\ \A j \in 1..Len(hs) : (b \o c)[j] = IF j <= i THEN b[j] ELSE c[j - i]
    <3>1. /\ b \o c \in Seq(S) /\ Len(b \o c) = Len(b) + Len(c)
          /\ \A j \in 1..(Len(b) + Len(c)) :
                (b \o c)[j] = IF j <= Len(b) THEN b[j] ELSE c[j - Len(b)]
      BY <1>3, <2>1, ConcatProperties
    <3>2. Len(b) + Len(c) = Len(hs)
      BY <1>1, <1>3, <2>1
    <3> QED
      BY <2>1, <3>1, <3>2
  <2>3. ASSUME NEW j \in 1..Len(hs) PROVE (b \o c)[j] = hs[j]
    <3>1. CASE j < i
      BY <1>1, <2>1, <2>2, <3>1
    <3>2. CASE j = i
      BY <1>1, <2>1, <2>2, <3>2
    <3>3. CASE j > i
      <4>1. j - i \in 1..(Len(hs) - i) /\ i + (j - i) = j /\ ~(j <= i)
        BY <1>1, <3>3
      <4> QED
        BY <1>3, <2>2, <4>1
    <3>4. j < i \/ j = i \/ j > i
      BY <1>1
    <3> QED
      BY <3>1, <3>2, <3>3, <3>4
  <2>4. b \o c = hs
    <3> DEFINE d == b \o c
    <3>1. d \in Seq(S) /\ Len(d) = Len(hs) /\ \A j \in 1..Len(hs) : d[j] = hs[j]
      BY <2>2, <2>3
    <3> HIDE DEF d
    <3>2. d = hs
      BY <3>1
    <3> QED
      BY <3>2 DEF d
  <2> QED
    BY <2>4 DEF b
<1> QED
  BY <1>2, <1>3, <1>4, <1>5

\* Removing a header leaves the values of the others, and takes the only length
\* away.
LEMMA RemoveHeaderValues ==
    ASSUME NEW hs \in Headers, NEW k
    PROVE  /\ RemoveHeader(hs, k) \in Headers
           /\ \A n : n # k => Values(RemoveHeader(hs, k), n) = Values(hs, n)
           /\ OneLength(hs) => OneLength(RemoveHeader(hs, k))
           /\ OneLength(hs) /\ k = ContentLength => Values(RemoveHeader(hs, k), k) = {}
<1> DEFINE s == RemoveHeader(hs, k)
<1>1. CASE s = hs /\ \A i \in DOMAIN hs : hs[i].key # k
  BY <1>1 DEF Values
<1>2. ASSUME NEW i \in DOMAIN hs, hs[i].key = k,
             s = SubSeq(hs, 1, i - 1) \o SubSeq(hs, i + 1, Len(hs))
      PROVE  /\ s \in Headers
             /\ \A n : n # k => Values(s, n) = Values(hs, n)
             /\ OneLength(hs) => OneLength(s)
             /\ OneLength(hs) /\ k = ContentLength => Values(s, k) = {}
  <2>1. /\ s \in Headers /\ Len(s) = Len(hs) - 1
        /\ \A j \in 1..(Len(hs) - 1) : s[j] = IF j < i THEN hs[j] ELSE hs[j + 1]
    <3> DEFINE H == [key : Key, value : AnyValue]
    <3>1. hs \in Seq(H) /\ i \in 1..Len(hs) /\ Headers = Seq(H)
      BY DEF Headers
    <3> HIDE DEF s, H
    <3> QED
      BY <1>2, <3>1, WithoutOne
  <2>2. DOMAIN hs = 1..Len(hs) /\ Len(hs) \in Nat /\ DOMAIN s = 1..(Len(hs) - 1)
    <3> HIDE DEF s
    <3> QED
      BY <2>1 DEF Headers
  <2> HIDE DEF s
  <2>3. ASSUME NEW n, n # k PROVE Values(s, n) = Values(hs, n)
    <3>1. Values(s, n) \subseteq Values(hs, n)
      <4>1. ASSUME NEW j \in DOMAIN s, s[j].key = n PROVE s[j].value \in Values(hs, n)
        <5>1. \E l \in DOMAIN hs : s[j] = hs[l]
          BY <2>1, <2>2
        <5> QED
          BY <4>1, <5>1 DEF Values
      <4> QED
        BY <4>1 DEF Values
    <3>2. Values(hs, n) \subseteq Values(s, n)
      <4>1. ASSUME NEW l \in DOMAIN hs, hs[l].key = n PROVE hs[l].value \in Values(s, n)
        <5>1. l # i
          BY <1>2, <2>3, <4>1
        <5>2. \E j \in DOMAIN s : s[j] = hs[l]
          <6>1. CASE l < i
            BY <2>1, <2>2, <6>1
          <6>2. CASE l > i
            <7>1. l - 1 \in DOMAIN s /\ ~(l - 1 < i) /\ (l - 1) + 1 = l
              BY <2>2, <6>2
            <7> QED
              BY <2>1, <2>2, <7>1
          <6> QED
            BY <2>2, <5>1, <6>1, <6>2
        <5> QED
          BY <4>1, <5>2 DEF Values
      <4> QED
        BY <4>1 DEF Values
    <3> QED
      BY <3>1, <3>2
  <2>4. ASSUME OneLength(hs) PROVE OneLength(s)
    <3> SUFFICES ASSUME NEW j \in DOMAIN s, NEW l \in DOMAIN s,
                        s[j].key = ContentLength, s[l].key = ContentLength
                 PROVE  j = l
      BY DEF OneLength
    <3> DEFINE at(m) == IF m < i THEN m ELSE m + 1
    <3>1. /\ at(j) \in DOMAIN hs /\ s[j] = hs[at(j)]
          /\ at(l) \in DOMAIN hs /\ s[l] = hs[at(l)]
      BY <2>1, <2>2
    <3>2. at(j) = at(l)
      <4> HIDE DEF at
      <4> QED
        BY <2>4, <3>1 DEF OneLength
    <3> QED
      BY <2>2, <3>2
  <2>5. ASSUME OneLength(hs), k = ContentLength, NEW j \in DOMAIN s PROVE s[j].key # k
    <3> DEFINE at(m) == IF m < i THEN m ELSE m + 1
    <3>1. at(j) \in DOMAIN hs /\ s[j] = hs[at(j)] /\ at(j) # i
      BY <2>1, <2>2
    <3> HIDE DEF at
    <3> QED
      BY <1>2, <2>5, <3>1 DEF OneLength
  <2> QED
    BY <2>1, <2>3, <2>4, <2>5 DEF Values
<1> QED
  BY <1>1, <1>2, RemoveHeaderIs

\* A header of another name, and a list without any, keep the length said once.
LEMMA OneLengthKept ==
    /\ \A hs \in Headers, k \in Key, v \in AnyValue :
          OneLength(hs) /\ k # ContentLength => OneLength(AddHeader(hs, k, v))
    /\ \A a, b \in Headers :
          Values(a, ContentLength) = {} /\ OneLength(b) => OneLength(CopiedTo(a, b))
    /\ \A hs \in Headers : Values(hs, ContentLength) = {} => OneLength(hs)
<1>1. ASSUME NEW hs \in Headers, NEW k \in Key, NEW v \in AnyValue,
             OneLength(hs), k # ContentLength
      PROVE  OneLength(AddHeader(hs, k, v))
  <2> DEFINE s == AddHeader(hs, k, v)
  <2>1. /\ DOMAIN s = 1..(Len(hs) + 1) /\ DOMAIN hs = 1..Len(hs) /\ Len(hs) \in Nat
        /\ \A i \in 1..Len(hs) : s[i] = hs[i]
        /\ s[Len(hs) + 1].key = k
    BY DEF Headers, AddHeader
  <2> HIDE DEF s
  <2>2. \A i \in DOMAIN s : s[i].key = ContentLength => i \in DOMAIN hs /\ s[i] = hs[i]
    BY <1>1, <2>1
  <2>3. OneLength(s)
    BY <1>1, <2>2 DEF OneLength
  <2> QED
    BY <2>3 DEF s
<1>2. ASSUME NEW a \in Headers, NEW b \in Headers,
             Values(a, ContentLength) = {}, OneLength(b)
      PROVE  OneLength(CopiedTo(a, b))
  <2> DEFINE s == CopiedTo(a, b)
  <2>1. /\ DOMAIN s = 1..(Len(a) + Len(b))
        /\ DOMAIN a = 1..Len(a) /\ DOMAIN b = 1..Len(b)
        /\ Len(a) \in Nat /\ Len(b) \in Nat
        /\ \A i \in 1..Len(a) : s[i] = a[i]
        /\ \A i \in 1..Len(b) : s[Len(a) + i] = b[i]
    BY DEF Headers, CopiedTo
  <2> HIDE DEF s
  <2>2. \A i \in DOMAIN a : a[i].key # ContentLength
    BY <1>2 DEF Values
  <2>3. ASSUME NEW i \in DOMAIN s, s[i].key = ContentLength
        PROVE  i - Len(a) \in DOMAIN b /\ b[i - Len(a)].key = ContentLength
    <3>1. i > Len(a)
      BY <2>1, <2>2, <2>3
    <3>2. i - Len(a) \in 1..Len(b) /\ s[i] = b[i - Len(a)]
      BY <2>1, <3>1
    <3> QED
      BY <2>1, <2>3, <3>2
  <2>4. ASSUME NEW i \in DOMAIN s, NEW j \in DOMAIN s,
               s[i].key = ContentLength, s[j].key = ContentLength
        PROVE  i = j
    <3>1. i - Len(a) = j - Len(a)
      BY <1>2, <2>3, <2>4 DEF OneLength
    <3> QED
      BY <2>1, <3>1
  <2>5. OneLength(s)
    BY <2>4 DEF OneLength
  <2> QED
    BY <2>5 DEF s
<1>3. ASSUME NEW hs \in Headers, Values(hs, ContentLength) = {} PROVE OneLength(hs)
  BY <1>3 DEF Values, OneLength
<1> QED
  BY <1>1, <1>2, <1>3

-----------------------------------------------------------------------------
(* Messages.                                                               *)

\* The messages that arrive are lists of headers with a body.
LEMMA Arriving ==
    ASSUME NEW m \in ClientMessage \union UpstreamMessage
    PROVE  m \in Message
<1>1. m \in [headers : Seq(Header), body : 0..MaxBody]
  BY MessageAssumption
<1>2. Header \subseteq [key : Key, value : AnyValue]
  BY MessageAssumption DEF Header, AnyValue
<1>3. m.headers \in Headers
  <2> DEFINE S == Header
             T == [key : Key, value : AnyValue]
  <2>1. m.headers \in Seq(S) /\ S \subseteq T
    BY <1>1, <1>2
  <2> HIDE DEF S, T
  <2>2. m.headers \in Seq(T)
    BY <2>1
  <2> QED
    BY <2>2 DEF T, Headers
<1>4. m.body \in Nat
  BY <1>1, MessageAssumption
<1>5. m = [headers |-> m.headers, body |-> m.body]
  BY <1>1
<1> QED
  BY <1>1, <1>3, <1>4, <1>5 DEF Message

\* A message whose headers tell of no chunks and no other length is sent with the
\* length of its body.
LEMMA FramedValues ==
    ASSUME NEW m \in Message
    PROVE  /\ Framed(m) \in Message
           /\ Framed(m).body = m.body
           /\ Values(m.headers, TransferEncoding) = {}
              /\ Values(m.headers, ContentLength) \subseteq {m.body}
              => /\ Values(Framed(m).headers, TransferEncoding) = {}
                 /\ Values(Framed(m).headers, ContentLength) = {m.body}
<1> DEFINE hs == AddHeader(m.headers, ContentLength, m.body)
<1>1. m.headers \in Headers /\ m.body \in Nat /\ m.body \in AnyValue
  BY DEF Message, AnyValue
<1>2. ContentLength \in Key /\ TransferEncoding # ContentLength
  BY MessageAssumption DEF ContentLength, TransferEncoding
<1>3. /\ hs \in Headers
      /\ Values(hs, ContentLength) = Values(m.headers, ContentLength) \union {m.body}
      /\ Values(hs, TransferEncoding) = Values(m.headers, TransferEncoding)
  BY <1>1, <1>2, AddHeaderValues
<1> HIDE DEF hs
<1>4. Framed(m) = IF HasHeader(m.headers, TransferEncoding) \/ HasHeader(m.headers, ContentLength)
                  THEN m ELSE [m EXCEPT !.headers = hs]
  BY DEF Framed, hs
<1>5. CASE HasHeader(m.headers, TransferEncoding) \/ HasHeader(m.headers, ContentLength)
  BY <1>4, <1>5 DEF HasHeader
<1>6. CASE ~(HasHeader(m.headers, TransferEncoding) \/ HasHeader(m.headers, ContentLength))
  <2>1. Framed(m) = [headers |-> hs, body |-> m.body]
    BY <1>4, <1>6 DEF Message
  <2> QED
    BY <1>1, <1>3, <1>6, <2>1 DEF HasHeader, Message
<1> QED
  BY <1>5, <1>6

-----------------------------------------------------------------------------
(* The inductive invariant.                                                *)

Framing == {ContentLength, TransferEncoding}

Typed ==
    /\ phase \in {"handler", "upstream", "callback", "done"}
    /\ output \in Message
    /\ answer \in Message
    /\ logged \in Int

\* Nothing was logged and no way taken before the request is done.
Unfinished == phase # "done" => logged = NotLogged /\ path = "open"

\* Until the answer comes the response has the handler's body, if it set one, and
\* the framing headers that user code wrote.
Prepared ==
    phase \in {"handler", "upstream"} =>
        /\ bodySet \subseteq {"handler"}
        /\ bodySet = {} => output.body = 0
        /\ touched \intersect Framing = {} =>
               \A k \in Framing : Values(output.headers, k) = {}

\* The callback finds the answer's body and framing headers, until it changes them.
Answered ==
    phase = "callback" =>
        /\ bodySet = {} => output.body = answer.body
        /\ touched \intersect Framing = {} =>
               \A k \in Framing : Values(output.headers, k) = Values(answer.headers, k)

ForwardInv == Typed /\ Unfinished /\ Prepared /\ Answered /\ LogCountsBody

\* What a response method does to the output: it sets the body or leaves it, and
\* it leaves the framing headers that it does not name.
ResponseStep ==
    /\ phase \in {"handler", "callback"}
    /\ UNCHANGED <<phase, answer, logged, path>>
    /\ output' \in Message
    /\ touched \subseteq touched'
    /\ \/ output'.body = output.body /\ bodySet' = bodySet
       \/ bodySet' = bodySet \union {phase}
    /\ \A k \in Framing : k \notin touched' =>
          Values(output'.headers, k) = Values(output.headers, k)
    /\ ContentLength \notin touched' /\ OneLength(output.headers) =>
          OneLength(output'.headers)

\* Every response method is such a step.
LEMMA CallStep ==
    ASSUME UserCall, output \in Message
    PROVE  ResponseStep
<1>1. output.headers \in Headers /\ output.body \in Nat
  BY DEF Message
<1>2. ASSUME NEW k \in Key, NEW v \in AnyValue, k \in touched' \/ k \notin Framing,
             output' = [output EXCEPT !.headers = AddHeader(@, k, v)]
      PROVE  /\ output' \in Message /\ output'.body = output.body
             /\ \A n \in Framing : n \notin touched' =>
                   Values(output'.headers, n) = Values(output.headers, n)
             /\ ContentLength \notin touched' /\ OneLength(output.headers) =>
                   OneLength(output'.headers)
  <2> DEFINE hs == AddHeader(output.headers, k, v)
  <2>1. hs \in Headers /\ \A n : n # k => Values(hs, n) = Values(output.headers, n)
    BY <1>1, AddHeaderValues
  <2>2. OneLength(output.headers) /\ k # ContentLength => OneLength(hs)
    BY <1>1, OneLengthKept
  <2> HIDE DEF hs
  <2>3. output' = [headers |-> hs, body |-> output.body]
    BY <1>2 DEF Message, hs
  <2> QED
    BY <1>1, <1>2, <2>1, <2>2, <2>3 DEF Message, Framing
<1>3. ASSUME NEW k \in touched',
             output' = [output EXCEPT !.headers = RemoveHeader(@, k)]
      PROVE  /\ output' \in Message /\ output'.body = output.body
             /\ \A n \in Framing : n \notin touched' =>
                   Values(output'.headers, n) = Values(output.headers, n)
             /\ ContentLength \notin touched' /\ OneLength(output.headers) =>
                   OneLength(output'.headers)
  <2> DEFINE hs == RemoveHeader(output.headers, k)
  <2>1. /\ hs \in Headers /\ \A n : n # k => Values(hs, n) = Values(output.headers, n)
        /\ OneLength(output.headers) => OneLength(hs)
    BY <1>1, RemoveHeaderValues
  <2> HIDE DEF hs
  <2>2. output' = [headers |-> hs, body |-> output.body]
    BY <1>3 DEF Message, hs
  <2> QED
    BY <1>1, <1>3, <2>1, <2>2 DEF Message
<1>4. ASSUME NEW h \in Header, AddResponseHeader(h) PROVE ResponseStep
  <2>1. h.key \in Key /\ h.value \in AnyValue
    BY MessageAssumption DEF Header, AnyValue
  <2>2. /\ phase \in {"handler", "callback"} /\ touched' = touched \union {h.key}
        /\ UNCHANGED <<phase, answer, logged, path>> /\ bodySet' = bodySet
        /\ output' = [output EXCEPT !.headers = AddHeader(@, h.key, h.value)]
    BY <1>4 DEF AddResponseHeader, Called
  <2> QED
    BY <1>2, <2>1, <2>2 DEF ResponseStep
<1>5. ASSUME NEW k \in Key, RemoveResponseHeader(k) PROVE ResponseStep
  <2>1. /\ phase \in {"handler", "callback"} /\ touched' = touched \union {k}
        /\ UNCHANGED <<phase, answer, logged, path>> /\ bodySet' = bodySet
        /\ output' = [output EXCEPT !.headers = RemoveHeader(@, k)]
    BY <1>5 DEF RemoveResponseHeader, Called
  <2> QED
    BY <1>3, <2>1 DEF ResponseStep
<1>6. ASSUME NEW h \in Header, RemoveResponseHeaderValue(h) PROVE ResponseStep
  <2>1. /\ phase \in {"handler", "callback"} /\ touched' = touched \union {h.key}
        /\ UNCHANGED <<phase, answer, logged, path>> /\ bodySet' = bodySet
        /\ \/ output' = [output EXCEPT !.headers = RemoveHeader(@, h.key)]
           \/ output' = output
    BY <1>6 DEF RemoveResponseHeaderValue, Called
  <2>2. CASE output' = [output EXCEPT !.headers = RemoveHeader(@, h.key)]
    BY <1>3, <2>1, <2>2 DEF ResponseStep
  <2>3. CASE output' = output
    BY <2>1, <2>3 DEF ResponseStep
  <2> QED
    BY <2>1, <2>2, <2>3
<1>7. ASSUME NEW n \in 0..MaxBody, SetResponseBody(n) PROVE ResponseStep
  <2>1. n \in Nat
    BY MessageAssumption
  <2>2. /\ phase \in {"handler", "callback"} /\ touched' = touched \union {}
        /\ UNCHANGED <<phase, answer, logged, path>> /\ bodySet' = bodySet \union {phase}
        /\ output' = [headers |-> output.headers, body |-> n]
    BY <1>7 DEF SetResponseBody, Called, Message
  <2> QED
    BY <1>1, <2>1, <2>2 DEF ResponseStep, Message
<1>8. ASSUME NEW c \in Cookie, SetCookie(c) PROVE ResponseStep
  <2>1. SetCookieKey \in Key /\ SetCookieKey \notin Framing
    BY MessageAssumption DEF SetCookieKey, Framing, ContentLength, TransferEncoding
  <2>2. CookieText(c) \in AnyValue
    BY MessageAssumption DEF CookieText, AnyValue
  <2>3. /\ phase \in {"handler", "callback"} /\ touched' = touched \union {}
        /\ UNCHANGED <<phase, answer, logged, path>> /\ bodySet' = bodySet
        /\ output' = [output EXCEPT !.headers = AddHeader(@, SetCookieKey, CookieText(c))]
    BY <1>8 DEF SetCookie, Called
  <2> QED
    BY <1>2, <2>1, <2>2, <2>3 DEF ResponseStep
<1> QED
  BY <1>4, <1>5, <1>6, <1>7, <1>8 DEF UserCall

\* A request starts with an empty response and no body set.
LEMMA ForwardStart == Init => ForwardInv
<1> SUFFICES ASSUME Init PROVE ForwardInv
  OBVIOUS
<1>1. << >> \in Headers /\ \A k : Values(<< >>, k) = {}
  BY DEF Headers, Values
<1>2. NoMessage \in Message /\ NoMessage.headers = << >> /\ NoMessage.body = 0
  BY <1>1 DEF NoMessage, Message
<1> QED
  BY <1>1, <1>2
  DEF Init, ForwardInv, Typed, Unfinished, Prepared, Answered, LogCountsBody, NotLogged

\* The answer behind what the handler prepared.
LEMMA CopiedMessage ==
    ASSUME ForwardInv, NEW m \in UpstreamMessage,
           NEW c, c = [headers |-> CopiedTo(output.headers, m.headers),
                       body |-> output.body + m.body]
    PROVE  /\ m \in Message
           /\ c \in Message /\ c.body = output.body + m.body
           /\ \A k : Values(c.headers, k) = Values(output.headers, k) \union Values(m.headers, k)
<1>1. m \in Message /\ output \in Message
  BY Arriving DEF ForwardInv, Typed
<1>2. m.headers \in Headers /\ output.headers \in Headers /\ m.body \in Nat /\ output.body \in Nat
  BY <1>1 DEF Message
<1> QED
  BY <1>1, <1>2, CopiedValues DEF Message

\* The length put in place of the first there is.
LEMMA RecalculatedMessage ==
    ASSUME NEW m \in Message
    PROVE  /\ Recalculated(m) \in Message /\ Recalculated(m).body = m.body
           /\ Values(Recalculated(m).headers, TransferEncoding) = Values(m.headers, TransferEncoding)
           /\ m.body # 0 /\ OneLength(m.headers) =>
                 Values(Recalculated(m).headers, ContentLength) = {m.body}
           /\ m.body = 0 => Recalculated(m) = m
<1>1. m.headers \in Headers /\ m.body \in Nat /\ m.body \in AnyValue
  BY DEF Message, AnyValue
<1>2. ContentLength \in Key /\ TransferEncoding # ContentLength
  BY MessageAssumption DEF ContentLength, TransferEncoding
<1> DEFINE rs == RemoveHeader(m.headers, ContentLength)
           hs == AddHeader(rs, ContentLength, m.body)
<1>3. /\ rs \in Headers
      /\ Values(rs, TransferEncoding) = Values(m.headers, TransferEncoding)
      /\ OneLength(m.headers) => Values(rs, ContentLength) = {}
  BY <1>1, <1>2, RemoveHeaderValues
<1>4. /\ hs \in Headers
      /\ Values(hs, TransferEncoding) = Values(rs, TransferEncoding)
      /\ Values(hs, ContentLength) = Values(rs, ContentLength) \union {m.body}
  <2> HIDE DEF rs
  <2> QED
    BY <1>1, <1>2, <1>3, AddHeaderValues
<1>5. CASE m.body # 0
  <2>1. Recalculated(m) = [headers |-> hs, body |-> m.body]
    BY <1>5 DEF Recalculated, Message
  <2> HIDE DEF rs, hs
  <2> QED
    BY <1>1, <1>3, <1>4, <1>5, <2>1 DEF Message
<1>6. CASE m.body = 0
  BY <1>6 DEF Recalculated
<1> QED
  BY <1>5, <1>6

\* Each action of the handler, the upstream and the callback keeps the invariant.
LEMMA ForwardStep == ForwardInv /\ [Next]_vars => ForwardInv'
<1> SUFFICES ASSUME ForwardInv, [Next]_vars PROVE ForwardInv'
  OBVIOUS
<1>1. CASE UNCHANGED vars
  BY <1>1 DEF vars, ForwardInv, Typed, Unfinished, Prepared, Answered, LogCountsBody
<1>2. CASE UserCall
  <2>1. ResponseStep
    BY <1>2, CallStep DEF ForwardInv, Typed
  <2>2. Typed' /\ Unfinished'
    BY <2>1 DEF ResponseStep, ForwardInv, Typed, Unfinished
  <2>3. Prepared'
    BY <2>1 DEF ResponseStep, ForwardInv, Prepared
  <2>4. Answered'
    BY <2>1 DEF ResponseStep, ForwardInv, Answered
  <2>5. LogCountsBody'
    BY <2>1 DEF ResponseStep, ForwardInv, Unfinished, LogCountsBody
  <2> QED
    BY <2>2, <2>3, <2>4, <2>5 DEF ForwardInv
<1>3. ASSUME NEW n \in 0..MaxBody, Reply(n) PROVE ForwardInv'
  <2> DEFINE m == [output EXCEPT !.body = @ + n]
  <2>1. n \in Nat /\ output.body \in Nat /\ m = [headers |-> output.headers, body |-> output.body + n]
    BY MessageAssumption DEF ForwardInv, Typed, Message
  <2>2. m \in Message /\ m.body = output.body + n
    BY <2>1 DEF ForwardInv, Typed, Message
  <2>3. /\ phase = "handler" /\ phase' = "done" /\ path' = "replied" /\ logged' = n
        /\ output' = Framed(m) /\ UNCHANGED <<answer, bodySet, touched>>
    BY <1>3 DEF Reply
  <2> HIDE DEF m
  <2>4. output' \in Message /\ output'.body = output.body + n
    BY <2>2, <2>3, FramedValues
  <2>5. bodySet = {} => output.body = 0
    BY <2>3 DEF ForwardInv, Prepared
  <2> QED
    BY <2>1, <2>3, <2>4, <2>5
    DEF ForwardInv, Typed, Unfinished, Prepared, Answered, LogCountsBody
<1>4. ASSUME NEW os \in Override, Forward(os) PROVE ForwardInv'
  BY <1>4 DEF Forward, ForwardInv, Typed, Unfinished, Prepared, Answered, LogCountsBody
<1>5. CASE UpstreamFails
  <2> DEFINE m == [headers |-> << >>, body |-> output.body + 1]
  <2>1. m \in Message
    BY DEF ForwardInv, Typed, Message, Headers
  <2>2. /\ phase = "upstream" /\ phase' = "done" /\ path' = "failed"
        /\ output' = Framed(m) /\ UNCHANGED <<answer, logged, bodySet, touched>>
    BY <1>5 DEF UpstreamFails
  <2> HIDE DEF m
  <2>3. output' \in Message
    BY <2>1, <2>2, FramedValues
  <2> QED
    BY <2>2, <2>3 DEF ForwardInv, Typed, Unfinished, Prepared, Answered, LogCountsBody
<1>6. ASSUME NEW m \in UpstreamMessage, UpstreamAnswers(m) PROVE ForwardInv'
  <2> DEFINE c == [headers |-> CopiedTo(output.headers, m.headers),
                   body |-> output.body + m.body]
  <2>1. /\ m \in Message /\ c \in Message
        /\ c.body = output.body + m.body
        /\ \A k : Values(c.headers, k) = Values(output.headers, k) \union Values(m.headers, k)
    BY CopiedMessage
  <2>2. /\ phase = "upstream" /\ answer' = m /\ UNCHANGED <<bodySet, touched>>
        /\ \/ Relay(c, "relayed")
           \/ phase' = "callback" /\ output' = c /\ UNCHANGED <<logged, path>>
    BY <1>6 DEF UpstreamAnswers
  <2> HIDE DEF c
  <2>3. m.body \in Nat /\ output.body \in Nat /\ c.body \in Nat
    BY <2>1 DEF ForwardInv, Typed, Message
  <2>4. CASE Relay(c, "relayed")
    <3>1. /\ phase' = "done" /\ path' = "relayed" /\ logged' = c.body
          /\ output' \in Message /\ output'.body = c.body
      BY <2>1, <2>4, FramedValues DEF Relay, LengthLogged
    <3> QED
      BY <2>1, <2>2, <2>3, <3>1
      DEF ForwardInv, Typed, Unfinished, Prepared, Answered, LogCountsBody
  <2>5. CASE phase' = "callback" /\ output' = c /\ UNCHANGED <<logged, path>>
    <3>1. bodySet = {} => output'.body = answer'.body
      BY <2>1, <2>2, <2>3, <2>5 DEF ForwardInv, Prepared
    <3>2. touched \intersect Framing = {} =>
              \A k \in Framing : Values(output'.headers, k) = Values(answer'.headers, k)
      BY <2>1, <2>2, <2>5 DEF ForwardInv, Prepared
    <3> QED
      BY <2>1, <2>2, <2>5, <3>1, <3>2
      DEF ForwardInv, Typed, Unfinished, Prepared, Answered, LogCountsBody
  <2> QED
    BY <2>2, <2>4, <2>5
<1>7. CASE CallbackReturns
  <2>1. /\ phase = "callback" /\ UNCHANGED <<answer, bodySet, touched>>
        /\ Relay(Recalculated(output), "rewritten")
    BY <1>7 DEF CallbackReturns
  <2> DEFINE r == Recalculated(output)
  <2>2. r \in Message
    BY RecalculatedMessage DEF ForwardInv, Typed
  <2>3. /\ phase' = "done" /\ path' = "rewritten" /\ logged' = r.body
        /\ output' = Framed(r)
    BY <2>1 DEF Relay, LengthLogged
  <2> HIDE DEF r
  <2>4. output' \in Message /\ output'.body = r.body /\ r.body \in Nat
    BY <2>2, <2>3, FramedValues DEF Message
  <2> QED
    BY <2>1, <2>3, <2>4
    DEF ForwardInv, Typed, Unfinished, Prepared, Answered, LogCountsBody
<1> QED
  BY <1>1, <1>2, <1>3, <1>4, <1>5, <1>6, <1>7 DEF Next

\* The invariant behind the theorems: before the answer comes the output has what
\* user code put there, and after it the answer's body and framing headers, as long
\* as user code did not change them.
THEOREM ForwardInvariant == Spec => []ForwardInv
<1>1. Init => ForwardInv
  BY ForwardStart
<1>2. ForwardInv /\ [Next]_vars => ForwardInv'
  BY ForwardStep
<1> QED
  BY <1>1, <1>2, PTL DEF Spec

-----------------------------------------------------------------------------
(* The bytes of the log entry.                                             *)

\* The log entry counts the bytes of the body that the client was sent, unless
\* setResponseBody added to what the handler returned: LogCountsBody, whatever
\* the messages are.
THEOREM BytesOfLog == Spec => []LogCountsBody
<1>1. ForwardInv => LogCountsBody
  BY DEF ForwardInv
<1> QED
  BY <1>1, ForwardInvariant, PTL

-----------------------------------------------------------------------------
(* The length the client is told.                                          *)

\* The length is put in place of the first there is, so the callback has to find one
\* at most: the answer's.
LengthInv ==
    /\ phase = "callback" /\ touched \intersect Framing = {} /\ OneLength(answer.headers) =>
          OneLength(output.headers)
    /\ ClientCanReadTheBody

\* A framed message whose headers say its length and tell of no chunks.
LEMMA FramedIsTold ==
    ASSUME NEW m \in Message, output' = Framed(m),
           Values(m.headers, TransferEncoding) = {},
           Values(m.headers, ContentLength) \subseteq {m.body}
    PROVE  ClientCanReadTheBody'
BY FramedValues DEF ClientCanReadTheBody, HasHeader

\* The callback finds one length at most, and the one calculated after it takes its place.
LEMMA LengthStep == ForwardInv /\ ForwardInv' /\ LengthInv /\ [Next]_vars => LengthInv'
<1> SUFFICES ASSUME ForwardInv, ForwardInv', LengthInv, [Next]_vars PROVE LengthInv'
  OBVIOUS
<1>0. output \in Message /\ answer \in Message /\ output.headers \in Headers
  BY DEF ForwardInv, Typed, Message
<1>1. CASE UNCHANGED vars
  BY <1>1 DEF vars, LengthInv, ClientCanReadTheBody
<1>2. CASE UserCall
  <2>1. ResponseStep
    BY <1>0, <1>2, CallStep
  <2> QED
    BY <2>1 DEF ResponseStep, LengthInv, ClientCanReadTheBody, Framing
<1>3. ASSUME NEW n \in 0..MaxBody, Reply(n) PROVE LengthInv'
  <2> DEFINE m == [output EXCEPT !.body = @ + n]
  <2>1. n \in Nat /\ output.body \in Nat /\ m = [headers |-> output.headers, body |-> output.body + n]
    BY <1>0, MessageAssumption DEF Message
  <2>2. m \in Message /\ m.headers = output.headers
    BY <1>0, <2>1 DEF Message
  <2>3. /\ phase = "handler" /\ phase' = "done" /\ output' = Framed(m) /\ touched' = touched
    BY <1>3 DEF Reply
  <2> HIDE DEF m
  <2>4. CASE touched \intersect Framing = {}
    <3>1. \A k \in Framing : Values(m.headers, k) = {}
      BY <2>2, <2>3, <2>4 DEF ForwardInv, Prepared
    <3> QED
      BY <2>2, <2>3, <3>1, FramedIsTold DEF LengthInv, Framing
  <2>5. CASE touched \intersect Framing # {}
    BY <2>3, <2>5 DEF LengthInv, ClientCanReadTheBody, Framing
  <2> QED
    BY <2>4, <2>5
<1>4. ASSUME NEW os \in Override, Forward(os) PROVE LengthInv'
  BY <1>4 DEF Forward, LengthInv, ClientCanReadTheBody
<1>5. CASE UpstreamFails
  <2> DEFINE m == [headers |-> << >>, body |-> output.body + 1]
  <2>1. m \in Message /\ \A k : Values(m.headers, k) = {}
    BY <1>0 DEF Message, Headers, Values
  <2>2. phase' = "done" /\ output' = Framed(m)
    BY <1>5 DEF UpstreamFails
  <2> HIDE DEF m
  <2> QED
    BY <2>1, <2>2, FramedIsTold DEF LengthInv
<1>6. ASSUME NEW m \in UpstreamMessage, UpstreamAnswers(m) PROVE LengthInv'
  <2> DEFINE c == [headers |-> CopiedTo(output.headers, m.headers),
                   body |-> output.body + m.body]
  <2>1. /\ m \in Message /\ c \in Message
        /\ c.body = output.body + m.body
        /\ \A k : Values(c.headers, k) = Values(output.headers, k) \union Values(m.headers, k)
    BY CopiedMessage
  <2>2. /\ phase = "upstream" /\ answer' = m /\ UNCHANGED <<bodySet, touched>>
        /\ \/ Relay(c, "relayed")
           \/ phase' = "callback" /\ output' = c /\ UNCHANGED <<logged, path>>
    BY <1>6 DEF UpstreamAnswers
  <2>3. m.headers \in Headers /\ c.headers = CopiedTo(output.headers, m.headers)
    BY <2>1 DEF Message
  <2> HIDE DEF c
  <2>4. m.body \in Nat /\ output.body \in Nat /\ c.body \in Nat
    BY <1>0, <2>1 DEF Message
  <2>5. CASE touched \intersect Framing # {}
    <3>1. phase' = "callback" \/ phase' = "done"
      BY <2>2 DEF Relay
    <3> QED
      BY <2>2, <2>5 DEF LengthInv, ClientCanReadTheBody, Framing
  <2>6. CASE touched \intersect Framing = {}
    <3>1. \A k \in Framing : Values(c.headers, k) = Values(m.headers, k)
      BY <2>1, <2>2, <2>6 DEF ForwardInv, Prepared
    <3>2. CASE phase' = "callback" /\ output' = c
      <4>1. Values(output.headers, ContentLength) = {}
        BY <2>2, <2>6 DEF ForwardInv, Prepared, Framing
      <4>2. OneLength(m.headers) => OneLength(c.headers)
        BY <1>0, <2>3, <4>1, OneLengthKept
      <4> QED
        BY <2>2, <3>2, <4>2 DEF LengthInv, ClientCanReadTheBody
    <3>3. CASE Relay(c, "relayed")
      <4>1. phase' = "done" /\ path' = "relayed" /\ output' = Framed(c)
        BY <3>3 DEF Relay
      <4>2. CASE Chunked(m) \/ "handler" \in bodySet \/ ~LengthsRight(m)
        BY <2>2, <4>1, <4>2 DEF LengthInv, ClientCanReadTheBody
      <4>3. CASE ~Chunked(m) /\ "handler" \notin bodySet /\ LengthsRight(m)
        <5>1. Values(m.headers, TransferEncoding) = {}
          BY <4>3 DEF Chunked, Values
        <5>2. bodySet = {} /\ output.body = 0 /\ c.body = m.body
          BY <2>1, <2>2, <2>4, <4>3 DEF ForwardInv, Prepared
        <5>3. Values(m.headers, ContentLength) \subseteq {m.body}
          BY <4>3 DEF LengthsRight
        <5>4. ClientCanReadTheBody'
          BY <2>1, <3>1, <4>1, <5>1, <5>2, <5>3, FramedIsTold DEF Framing
        <5> QED
          BY <4>1, <5>4 DEF LengthInv
      <4> QED
        BY <4>2, <4>3
    <3> QED
      BY <2>2, <3>2, <3>3
  <2> QED
    BY <2>5, <2>6
<1>7. CASE CallbackReturns
  <2>1. /\ phase = "callback" /\ UNCHANGED <<answer, bodySet, touched>>
        /\ phase' = "done" /\ path' = "rewritten" /\ output' = Framed(Recalculated(output))
    BY <1>7 DEF CallbackReturns, Relay
  <2>2. CASE touched \intersect Framing # {} \/ Chunked(answer) \/ ~OneLength(answer.headers)
    BY <2>1, <2>2 DEF LengthInv, ClientCanReadTheBody, Framing
  <2>3. CASE touched \intersect Framing = {} /\ ~Chunked(answer) /\ OneLength(answer.headers)
    <3> DEFINE r == Recalculated(output)
    <3>1. /\ r \in Message /\ r.body = output.body
          /\ Values(r.headers, TransferEncoding) = Values(output.headers, TransferEncoding)
          /\ output.body # 0 /\ OneLength(output.headers) =>
                Values(r.headers, ContentLength) = {output.body}
          /\ output.body = 0 => r = output
      BY <1>0, RecalculatedMessage
    <3> HIDE DEF r
    <3>2. \A k \in Framing : Values(output.headers, k) = Values(answer.headers, k)
      BY <2>1, <2>3 DEF ForwardInv, Answered
    <3>3. Values(r.headers, TransferEncoding) = {}
      <4>1. Values(answer.headers, TransferEncoding) = {}
        BY <2>3 DEF Chunked, Values
      <4> QED
        BY <3>1, <3>2, <4>1 DEF Framing
    <3>4. CASE output.body # 0
      <4>1. OneLength(output.headers)
        BY <2>1, <2>3 DEF LengthInv
      <4>2. Values(r.headers, ContentLength) \subseteq {r.body}
        BY <3>1, <3>4, <4>1
      <4>3. ClientCanReadTheBody'
        BY <2>1, <3>1, <3>3, <4>2, FramedIsTold DEF r
      <4> QED
        BY <2>1, <4>3 DEF LengthInv
    <3>5. CASE output.body = 0 /\ bodySet = {} /\ LengthsRight(answer)
      <4>1. answer.body = 0 /\ Values(answer.headers, ContentLength) \subseteq {answer.body}
        BY <2>1, <2>3, <3>5 DEF ForwardInv, Answered, Typed, LengthsRight
      <4>2. Values(r.headers, ContentLength) \subseteq {r.body}
        BY <3>1, <3>2, <3>5, <4>1 DEF Framing
      <4>3. ClientCanReadTheBody'
        BY <2>1, <3>1, <3>3, <4>2, FramedIsTold DEF r
      <4> QED
        BY <2>1, <4>3 DEF LengthInv
    <3>6. CASE output.body = 0 /\ (bodySet # {} \/ ~LengthsRight(answer))
      <4>1. output'.body = 0
        BY <1>0, <2>1, <3>1, <3>6, FramedValues DEF r
      <4> QED
        BY <2>1, <3>6, <4>1 DEF LengthInv, ClientCanReadTheBody
    <3> QED
      BY <3>4, <3>5, <3>6
  <2> QED
    BY <2>2, <2>3
<1> QED
  BY <1>1, <1>2, <1>3, <1>4, <1>5, <1>6, <1>7 DEF Next

\* The lengths the client is told are those of the body it is sent, whatever the
\* messages are, but for what ClientCanReadTheBody names: forward_response_callback
\* relays the framing of the answer and calculates the length anew after a callback.
THEOREM LengthTold == Spec => []ClientCanReadTheBody
<1>1. Init => LengthInv
  BY DEF Init, LengthInv, ClientCanReadTheBody
<1>2. ForwardInv /\ ForwardInv' /\ LengthInv /\ [Next]_vars => LengthInv'
  BY LengthStep
<1>3. LengthInv => ClientCanReadTheBody
  BY DEF LengthInv
<1> QED
  BY <1>1, <1>2, <1>3, ForwardInvariant, PTL DEF Spec

-----------------------------------------------------------------------------
(* The headers of a name, whose function is defined along the list.        *)

\* The recursive function of Of, and that there is one.
OfIs(f, hs, k) ==
    f = [i \in 0..Len(hs) |->
            IF i = 0 THEN << >>
            ELSE IF hs[i].key = k THEN Append(f[i - 1], hs[i]) ELSE f[i - 1]]

\* There is a function that computes Of step by step.
LEMMA OfExists ==
    ASSUME NEW hs \in Headers, NEW k
    PROVE  \E f : OfIs(f, hs, k)
<1> DEFINE Upto(f, n) ==
               /\ f = [i \in 0..n |-> f[i]]
               /\ \A i \in 0..n : f[i] = IF i = 0 THEN << >>
                                         ELSE IF hs[i].key = k THEN Append(f[i - 1], hs[i])
                                                               ELSE f[i - 1]
           S == {n \in 0..Len(hs) : \E f : Upto(f, n)}
<1>1. S = 0..Len(hs)
  <2>1. 0 \in S
    <3>1. Upto([i \in 0..0 |-> << >>], 0) /\ 0 \in 0..Len(hs)
      BY DEF Headers
    <3> HIDE DEF Upto
    <3> QED
      BY <3>1
  <2>2. ASSUME NEW n \in 1..Len(hs), n - 1 \in S PROVE n \in S
    <3>1. PICK g : Upto(g, n - 1)
      <4> HIDE DEF Upto
      <4> QED
        BY <2>2
    <3> DEFINE x == IF hs[n].key = k THEN Append(g[n - 1], hs[n]) ELSE g[n - 1]
               f == [i \in 0..n |-> IF i = n THEN x ELSE g[i]]
    <3>2. n \in Nat /\ n > 0 /\ n - 1 \in Nat
      BY DEF Headers
    <3>3. f = [i \in 0..n |-> f[i]]
      OBVIOUS
    <3>4. \A i \in 0..n : i # n => i \in 0..(n - 1) /\ f[i] = g[i]
      BY <3>2
    <3>5. f[n] = x /\ f[n - 1] = g[n - 1]
      BY <3>2
    <3> HIDE DEF f
    <3>6. ASSUME NEW i \in 0..n
          PROVE  f[i] = IF i = 0 THEN << >>
                        ELSE IF hs[i].key = k THEN Append(f[i - 1], hs[i]) ELSE f[i - 1]
      <4>1. CASE i = n
        BY <3>2, <3>5, <4>1
      <4>2. CASE i # n
        <5>1. i = 0 \/ (i - 1 \in 0..n /\ i - 1 # n)
          BY <3>2
        <5> QED
          BY <3>1, <3>4, <4>2, <5>1
      <4> QED
        BY <4>1, <4>2
    <3>7. Upto(f, n)
      BY <3>3, <3>6
    <3>8. n \in 0..Len(hs)
      BY DEF Headers
    <3> HIDE DEF Upto
    <3> QED
      BY <3>7, <3>8
  <2>3. Len(hs) \in Nat /\ S \in SUBSET (0..Len(hs))
    BY DEF Headers
  <2> HIDE DEF S
  <2> QED
    BY <2>1, <2>2, <2>3, InductionUpTo
<1>2. Len(hs) \in Nat
  BY DEF Headers
<1>3. PICK f : Upto(f, Len(hs))
  <2> HIDE DEF Upto
  <2> QED
    BY <1>1, <1>2
<1>4. [i \in 0..Len(hs) |-> f[i]] =
          [i \in 0..Len(hs) |-> IF i = 0 THEN << >>
                                ELSE IF hs[i].key = k THEN Append(f[i - 1], hs[i]) ELSE f[i - 1]]
  BY <1>3
<1> QED
  BY <1>3, <1>4 DEF OfIs

\* Of is the last value of that function.
LEMMA OfUnfolds ==
    ASSUME NEW hs \in Headers, NEW k
    PROVE  \E f : OfIs(f, hs, k) /\ Of(hs, k) = f[Len(hs)]
<1> DEFINE f == CHOOSE g : OfIs(g, hs, k)
<1>1. OfIs(f, hs, k)
  BY OfExists
<1>2. Of(hs, k) = f[Len(hs)]
  BY DEF Of, OfIs
<1> QED
  BY <1>1, <1>2

\* And each value of it follows from the one before.
LEMMA OfAt ==
    ASSUME NEW hs \in Headers, NEW k, NEW f, OfIs(f, hs, k)
    PROVE  /\ f[0] = << >>
           /\ \A i \in 1..Len(hs) :
                 f[i] = IF hs[i].key = k THEN Append(f[i - 1], hs[i]) ELSE f[i - 1]
<1>1. \A i \in 0..Len(hs) :
          f[i] = IF i = 0 THEN << >>
                 ELSE IF hs[i].key = k THEN Append(f[i - 1], hs[i]) ELSE f[i - 1]
  BY DEF OfIs
<1>2. Len(hs) \in Nat
  BY DEF Headers
<1>3. 0 \in 0..Len(hs)
  BY <1>2
<1>4. \A i \in 1..Len(hs) : i \in 0..Len(hs) /\ i # 0
  BY <1>2
<1> QED
  BY <1>1, <1>3, <1>4

\* Along a list, the function holds lists; its last is that of a header that is
\* appended, and after another list it goes on from that list's.
LEMMA OfTyped ==
    ASSUME NEW hs \in Headers, NEW k, NEW f, OfIs(f, hs, k)
    PROVE  \A i \in 0..Len(hs) : f[i] \in Headers
<1> DEFINE S == {i \in 0..Len(hs) : f[i] \in Headers}
<1>1. 0 \in S
  <2>1. f[0] = << >>
    BY OfAt
  <2>2. << >> \in Headers /\ Len(hs) \in Nat
    BY DEF Headers
  <2> QED
    BY <2>1, <2>2
<1>2. ASSUME NEW i \in 1..Len(hs), i - 1 \in S PROVE i \in S
  <2>1. f[i - 1] \in Headers /\ hs[i] \in [key : Key, value : AnyValue]
    <3> HIDE DEF S
    <3>1. hs[i] \in [key : Key, value : AnyValue]
      <4> DEFINE H == [key : Key, value : AnyValue]
      <4>1. hs \in Seq(H)
        BY DEF Headers
      <4> HIDE DEF H
      <4>2. hs[i] \in H
        BY <4>1
      <4> QED
        BY <4>2 DEF H
    <3>2. f[i - 1] \in Headers
      BY <1>2 DEF S
    <3> QED
      BY <3>1, <3>2
  <2>2. f[i] = IF hs[i].key = k THEN Append(f[i - 1], hs[i]) ELSE f[i - 1]
    BY OfAt
  <2>3. Append(f[i - 1], hs[i]) \in Headers
    BY <2>1 DEF Headers
  <2>4. i \in 0..Len(hs)
    BY DEF Headers
  <2> QED
    BY <2>1, <2>2, <2>3, <2>4
<1>3. Len(hs) \in Nat /\ S \in SUBSET (0..Len(hs))
  <2>1. Len(hs) \in Nat
    BY DEF Headers
  <2> QED
    BY <2>1
<1> HIDE DEF S
<1>4. S = 0..Len(hs)
  BY <1>1, <1>2, <1>3, InductionUpTo
<1> QED
  BY <1>4 DEF S

\* Copying a list behind another keeps the headers of each name in their order.
LEMMA OfCopied ==
    ASSUME NEW a \in Headers, NEW b \in Headers, NEW k
    PROVE  Of(a \o b, k) = Of(a, k) \o Of(b, k)
<1> DEFINE c == a \o b
<1>1. /\ c \in Headers /\ Len(c) = Len(a) + Len(b) /\ Len(a) \in Nat /\ Len(b) \in Nat
      /\ \A i \in 1..Len(a) : c[i] = a[i]
      /\ \A i \in 1..Len(b) : c[Len(a) + i] = b[i] /\ b[i] \in [key : Key, value : AnyValue]
  <2> DEFINE H == [key : Key, value : AnyValue]
  <2>1. a \in Seq(H) /\ b \in Seq(H)
    BY DEF Headers
  <2> HIDE DEF H
  <2>2. /\ c \in Seq(H) /\ Len(c) = Len(a) + Len(b) /\ Len(a) \in Nat /\ Len(b) \in Nat
        /\ \A i \in 1..Len(a) : c[i] = a[i]
        /\ \A i \in 1..Len(b) : c[Len(a) + i] = b[i] /\ b[i] \in H
    BY <2>1
  <2> HIDE DEF c
  <2> QED
    BY <2>2 DEF H, Headers
<1> HIDE DEF c
<1>2. PICK f : OfIs(f, a, k) /\ Of(a, k) = f[Len(a)]
  BY OfUnfolds
<1>3. PICK g : OfIs(g, b, k) /\ Of(b, k) = g[Len(b)]
  BY OfUnfolds
<1>4. PICK h : OfIs(h, c, k) /\ Of(c, k) = h[Len(c)]
  BY <1>1, OfUnfolds
<1>5. /\ \A i \in 0..Len(a) : f[i] \in Headers
      /\ \A i \in 0..Len(b) : g[i] \in Headers
  BY <1>2, <1>3, OfTyped
<1>6. \A i \in 0..Len(a) : h[i] = f[i]
  <2> DEFINE S == {i \in 0..Len(a) : h[i] = f[i]}
  <2>1. 0 \in S
    BY <1>1, <1>2, <1>4, OfAt
  <2>2. ASSUME NEW i \in 1..Len(a), i - 1 \in S PROVE i \in S
    <3>1. i \in 0..Len(a) /\ i \in 0..Len(c) /\ i # 0 /\ c[i] = a[i] /\ h[i - 1] = f[i - 1]
      BY <1>1, <2>2
    <3>2. h[i] = f[i]
      <4>1. f[i] = IF a[i].key = k THEN Append(f[i - 1], a[i]) ELSE f[i - 1]
        BY <1>2, OfAt
      <4>2. h[i] = IF c[i].key = k THEN Append(h[i - 1], c[i]) ELSE h[i - 1]
        <5>1. i \in 1..Len(c)
          BY <1>1
        <5> QED
          BY <1>1, <1>4, <5>1, OfAt
      <4> QED
        BY <3>1, <4>1, <4>2
    <3> QED
      BY <3>1, <3>2
  <2>3. S \in SUBSET (0..Len(a))
    OBVIOUS
  <2> HIDE DEF S
  <2>4. S = 0..Len(a)
    BY <1>1, <2>1, <2>2, <2>3, InductionUpTo
  <2> QED
    BY <2>4 DEF S
<1>7. \A i \in 0..Len(b) : h[Len(a) + i] = f[Len(a)] \o g[i]
  <2> DEFINE S == {i \in 0..Len(b) : h[Len(a) + i] = f[Len(a)] \o g[i]}
  <2>1. 0 \in S
    <3>1. g[0] = << >> /\ h[Len(a) + 0] = f[Len(a)] /\ f[Len(a)] \in Headers
      BY <1>1, <1>3, <1>5, <1>6, OfAt
    <3>2. f[Len(a)] \o << >> = f[Len(a)]
      BY <3>1 DEF Headers
    <3>3. 0 \in 0..Len(b)
      BY <1>1
    <3>4. h[Len(a) + 0] = f[Len(a)] \o g[0]
      BY <3>1, <3>2
    <3> QED
      BY <3>3, <3>4
  <2>2. ASSUME NEW i \in 1..Len(b), i - 1 \in S PROVE i \in S
    <3> DEFINE x == f[Len(a)]
               y == g[i - 1]
               e == b[i]
    <3>1. /\ i \in 0..Len(b) /\ i # 0 /\ Len(a) + i \in 0..Len(c) /\ Len(a) + i # 0
          /\ (Len(a) + i) - 1 = Len(a) + (i - 1) /\ i - 1 \in 0..Len(b) /\ Len(a) \in 0..Len(a)
      BY <1>1, <2>2
    <3>2. c[Len(a) + i] = e /\ h[Len(a) + (i - 1)] = x \o y
      BY <1>1, <2>2
    <3>3. x \in Headers /\ y \in Headers /\ e \in [key : Key, value : AnyValue]
      BY <1>1, <1>5, <3>1
    <3>4. g[i] = IF e.key = k THEN Append(y, e) ELSE y
      BY <1>3, OfAt
    <3>5. h[Len(a) + i] = IF e.key = k THEN Append(x \o y, e) ELSE x \o y
      <4>1. Len(a) + i \in 1..Len(c)
        BY <1>1
      <4>2. h[Len(a) + i] = IF c[Len(a) + i].key = k
                            THEN Append(h[(Len(a) + i) - 1], c[Len(a) + i])
                            ELSE h[(Len(a) + i) - 1]
        BY <1>1, <1>4, <4>1, OfAt
      <4> QED
        BY <3>1, <3>2, <4>2
    <3> HIDE DEF x, y, e
    <3>6. Append(x \o y, e) = x \o Append(y, e)
      <4> DEFINE H == [key : Key, value : AnyValue]
      <4>1. x \in Seq(H) /\ y \in Seq(H) /\ e \in H
        BY <3>3 DEF Headers
      <4> HIDE DEF H
      <4> QED
        BY <4>1
    <3>7. h[Len(a) + i] = x \o g[i]
      BY <3>4, <3>5, <3>6
    <3> QED
      BY <3>1, <3>7 DEF x
  <2>3. S \in SUBSET (0..Len(b))
    OBVIOUS
  <2> HIDE DEF S
  <2>4. S = 0..Len(b)
    BY <1>1, <2>1, <2>2, <2>3, InductionUpTo
  <2> QED
    BY <2>4 DEF S
<1>8. Len(b) \in 0..Len(b)
  BY <1>1
<1> QED
  BY <1>1, <1>2, <1>3, <1>4, <1>7, <1>8 DEF c

\* The headers of a name are a list; a list of one header; a list without any.
LEMMA OfList ==
    ASSUME NEW hs \in Headers, NEW k
    PROVE  Of(hs, k) \in Headers
<1>1. Len(hs) \in 0..Len(hs)
  BY DEF Headers
<1> QED
  BY <1>1, OfUnfolds, OfTyped

\* A list of one header has that header under its own name only.
LEMMA OfOne ==
    ASSUME NEW h \in [key : Key, value : AnyValue], NEW k
    PROVE  Of(<<h>>, k) = IF h.key = k THEN <<h>> ELSE << >>
<1>1. /\ <<h>> \in Headers /\ Len(<<h>>) = 1 /\ 1 \in 1..Len(<<h>>) /\ <<h>>[1] = h
      /\ Append(<< >>, h) = <<h>>
  BY DEF Headers
<1>2. PICK f : OfIs(f, <<h>>, k) /\ Of(<<h>>, k) = f[1]
  BY <1>1, OfUnfolds
<1>3. f[0] = << >> /\ f[1] = IF h.key = k THEN Append(f[1 - 1], h) ELSE f[1 - 1]
  BY <1>1, <1>2, OfAt
<1> QED
  BY <1>1, <1>2, <1>3

\* A name that is not in a list has no headers there.
LEMMA OfNone ==
    ASSUME NEW hs \in Headers, NEW k, \A i \in DOMAIN hs : hs[i].key # k
    PROVE  Of(hs, k) = << >>
<1>1. PICK f : OfIs(f, hs, k) /\ Of(hs, k) = f[Len(hs)]
  BY OfUnfolds
<1>2. /\ f[0] = << >>
      /\ \A i \in 1..Len(hs) : f[i] = IF hs[i].key = k THEN Append(f[i - 1], hs[i]) ELSE f[i - 1]
  BY <1>1, OfAt
<1>3. Len(hs) \in Nat /\ \A i \in 1..Len(hs) : hs[i].key # k
  BY DEF Headers
<1> DEFINE S == {i \in 0..Len(hs) : f[i] = << >>}
<1>4. 0 \in S
  BY <1>2, <1>3
<1>5. \A i \in 1..Len(hs) : i - 1 \in S => i \in S
  BY <1>2, <1>3
<1>6. S \in SUBSET (0..Len(hs))
  OBVIOUS
<1> HIDE DEF S
<1>7. S = 0..Len(hs)
  BY <1>3, <1>4, <1>5, <1>6, InductionUpTo
<1>8. Len(hs) \in S
  BY <1>3, <1>7
<1> QED
  BY <1>1, <1>8 DEF S

\* Adding a header appends to those of its name.
LEMMA OfAdded ==
    ASSUME NEW hs \in Headers, NEW k \in Key, NEW v \in AnyValue, NEW n
    PROVE  Of(AddHeader(hs, k, v), n) =
               IF n = k THEN Of(hs, n) \o <<[key |-> k, value |-> v]>> ELSE Of(hs, n)
<1> DEFINE h == [key |-> k, value |-> v]
<1>1. h \in [key : Key, value : AnyValue] /\ h.key = k
  OBVIOUS
<1>2. AddHeader(hs, k, v) = hs \o <<h>> /\ <<h>> \in Headers
  <2> DEFINE H == [key : Key, value : AnyValue]
  <2>1. hs \in Seq(H) /\ h \in H
    BY DEF Headers
  <2> HIDE DEF H, h
  <2>2. Append(hs, h) = hs \o <<h>> /\ <<h>> \in Seq(H)
    BY <2>1
  <2> QED
    BY <2>2 DEF H, h, AddHeader, Headers
<1> HIDE DEF h
<1>3. Of(hs \o <<h>>, n) = Of(hs, n) \o (IF n = k THEN <<h>> ELSE << >>)
  <2>1. Of(hs \o <<h>>, n) = Of(hs, n) \o Of(<<h>>, n)
    BY <1>2, OfCopied
  <2>2. Of(<<h>>, n) = IF h.key = n THEN <<h>> ELSE << >>
    BY <1>1, OfOne
  <2> QED
    BY <1>1, <2>1, <2>2
<1>4. Of(hs, n) \o << >> = Of(hs, n)
  BY OfList DEF Headers
<1> QED
  BY <1>2, <1>3, <1>4 DEF h

\* Removing one leaves those of the other names, and none of its own if there was
\* one at most.
LEMMA OfRemoved ==
    ASSUME NEW hs \in Headers, NEW k, NEW n
    PROVE  /\ n # k => Of(RemoveHeader(hs, k), n) = Of(hs, n)
           /\ n = k /\ Len(Of(hs, k)) <= 1 => Of(RemoveHeader(hs, k), n) = << >>
<1>1. CASE RemoveHeader(hs, k) = hs /\ \A i \in DOMAIN hs : hs[i].key # k
  BY <1>1, OfNone
<1>2. ASSUME NEW i \in DOMAIN hs, hs[i].key = k,
             RemoveHeader(hs, k) = SubSeq(hs, 1, i - 1) \o SubSeq(hs, i + 1, Len(hs))
      PROVE  /\ n # k => Of(RemoveHeader(hs, k), n) = Of(hs, n)
             /\ n = k /\ Len(Of(hs, k)) <= 1 => Of(RemoveHeader(hs, k), n) = << >>
  <2> DEFINE a == SubSeq(hs, 1, i - 1)
             c == SubSeq(hs, i + 1, Len(hs))
             h == hs[i]
  <2>1. /\ a \in Headers /\ c \in Headers /\ h \in [key : Key, value : AnyValue]
        /\ <<h>> \in Headers /\ a \o <<h>> \in Headers /\ hs = (a \o <<h>>) \o c
    <3> DEFINE H == [key : Key, value : AnyValue]
    <3>1. hs \in Seq(H) /\ i \in 1..Len(hs)
      BY DEF Headers
    <3> HIDE DEF H, a, c, h
    <3>2. /\ a \in Seq(H) /\ c \in Seq(H) /\ h \in H
          /\ hs = (a \o <<h>>) \o c
      BY <3>1, SplitAtOne DEF a, c, h
    <3>3. <<h>> \in Seq(H) /\ a \o <<h>> \in Seq(H)
      BY <3>2
    <3> QED
      BY <3>2, <3>3 DEF H, Headers
  <2>2. RemoveHeader(hs, k) = a \o c /\ h.key = k
    BY <1>2
  <2> HIDE DEF a, c, h
  <2>0. a \in Headers /\ c \in Headers /\ <<h>> \in Headers /\ a \o <<h>> \in Headers
    BY <2>1
  <2> DEFINE A == Of(a, n)
             C == Of(c, n)
  <2>3. Of(RemoveHeader(hs, k), n) = A \o C
    <3>1. Of(a \o c, n) = A \o C
      BY <2>0, OfCopied
    <3> QED
      BY <2>2, <3>1
  <2>4. Of(hs, n) = (A \o (IF n = k THEN <<h>> ELSE << >>)) \o C
    <3>1. Of((a \o <<h>>) \o c, n) = Of(a \o <<h>>, n) \o C
      BY <2>0, OfCopied
    <3>2. Of(a \o <<h>>, n) = A \o Of(<<h>>, n)
      <4> DEFINE one == <<h>>
      <4>1. one \in Headers
        BY <2>0
      <4> HIDE DEF one
      <4>2. a \in Headers
        BY <2>0
      <4>3. Of(a \o one, n) = A \o Of(one, n)
        BY <4>1, <4>2, OfCopied, Zenon
      <4> QED
        BY <4>3 DEF one
    <3>3. Of(<<h>>, n) = IF h.key = n THEN <<h>> ELSE << >>
      BY <2>1, OfOne
    <3> QED
      BY <2>1, <2>2, <3>1, <3>2, <3>3
  <2>5. A \in Headers /\ C \in Headers
    BY <2>1, OfList
  <2> HIDE DEF A, C
  <2>6. A \o << >> = A
    BY <2>5 DEF Headers
  <2>7. Len((A \o <<h>>) \o C) <= 1 => A \o C = << >>
    <3> DEFINE H == [key : Key, value : AnyValue]
    <3>1. A \in Seq(H) /\ C \in Seq(H) /\ h \in H
      BY <2>1, <2>5 DEF Headers
    <3> HIDE DEF H
    <3>2. /\ Len(A) \in Nat /\ Len(C) \in Nat /\ Len((A \o <<h>>) \o C) = Len(A) + 1 + Len(C)
      BY <3>1
    <3>3. Len(A) = 0 /\ Len(C) = 0 => A = << >> /\ C = << >>
      BY <3>1
    <3> QED
      BY <3>2, <3>3
  <2> QED
    BY <2>3, <2>4, <2>6, <2>7
<1> QED
  BY <1>1, <1>2, RemoveHeaderIs

-----------------------------------------------------------------------------
(* The overrides, applied one after the other.                              *)

Overrides == [key : Key, value : Value \union {Empty}]

\* One override: the others' headers stay, its own is the one given or none.
LEMMA OverriddenIs ==
    ASSUME NEW hs \in Headers, NEW o \in Overrides
    PROVE  /\ Overridden(hs, o) \in Headers
           /\ \A n : n # o.key => /\ Of(Overridden(hs, o), n) = Of(hs, n)
                                  /\ Values(Overridden(hs, o), n) = Values(hs, n)
           /\ Len(Of(hs, o.key)) <= 1 =>
                 Of(Overridden(hs, o), o.key) = IF o.value = Empty THEN << >> ELSE <<o>>
<1> DEFINE r == RemoveHeader(hs, o.key)
<1>1. o.key \in Key /\ o.value \in AnyValue /\ o = [key |-> o.key, value |-> o.value]
  BY DEF Overrides, AnyValue
<1>2. /\ r \in Headers
      /\ \A n : n # o.key => Of(r, n) = Of(hs, n) /\ Values(r, n) = Values(hs, n)
      /\ Len(Of(hs, o.key)) <= 1 => Of(r, o.key) = << >>
  BY RemoveHeaderValues, OfRemoved
<1> HIDE DEF r
<1>3. CASE o.value = Empty
  BY <1>2, <1>3 DEF Overridden, r
<1>4. CASE o.value # Empty
  <2> DEFINE s == AddHeader(r, o.key, o.value)
  <2>1. Overridden(hs, o) = s
    BY <1>4 DEF Overridden, r
  <2>2. s \in Headers /\ \A n : n # o.key => Values(s, n) = Values(r, n)
    BY <1>1, <1>2, AddHeaderValues
  <2>3. \A n : Of(s, n) = IF n = o.key THEN Of(r, n) \o <<o>> ELSE Of(r, n)
    BY <1>1, <1>2, OfAdded
  <2> HIDE DEF s
  <2>4. << >> \o <<o>> = <<o>>
    OBVIOUS
  <2> QED
    BY <1>2, <1>4, <2>1, <2>2, <2>3, <2>4
<1> QED
  BY <1>3, <1>4

\* The recursive function of AllOverridden, and that there is one.
AfterIs(f, hs, os) ==
    f = [i \in 0..Len(os) |-> IF i = 0 THEN hs ELSE Overridden(f[i - 1], os[i])]

\* There is a function that applies the overrides of forward_request one by one.
LEMMA AfterExists ==
    ASSUME NEW hs, NEW os, Len(os) \in Nat
    PROVE  \E f : AfterIs(f, hs, os)
<1> DEFINE Upto(f, n) ==
               /\ f = [i \in 0..n |-> f[i]]
               /\ \A i \in 0..n : f[i] = IF i = 0 THEN hs ELSE Overridden(f[i - 1], os[i])
           S == {n \in 0..Len(os) : \E f : Upto(f, n)}
<1>1. S = 0..Len(os)
  <2>1. 0 \in S
    <3>1. Upto([i \in 0..0 |-> hs], 0) /\ 0 \in 0..Len(os)
      OBVIOUS
    <3> HIDE DEF Upto
    <3> QED
      BY <3>1
  <2>2. ASSUME NEW n \in 1..Len(os), n - 1 \in S PROVE n \in S
    <3>1. PICK g : Upto(g, n - 1)
      <4> HIDE DEF Upto
      <4> QED
        BY <2>2
    <3> DEFINE x == Overridden(g[n - 1], os[n])
               f == [i \in 0..n |-> IF i = n THEN x ELSE g[i]]
    <3>2. n \in Nat /\ n > 0 /\ n - 1 \in Nat /\ n \in 0..Len(os)
      OBVIOUS
    <3>3. f = [i \in 0..n |-> f[i]]
      OBVIOUS
    <3>4. \A i \in 0..n : i # n => i \in 0..(n - 1) /\ f[i] = g[i]
      BY <3>2
    <3>5. f[n] = x /\ f[n - 1] = g[n - 1]
      BY <3>2
    <3> HIDE DEF f
    <3>6. ASSUME NEW i \in 0..n
          PROVE  f[i] = IF i = 0 THEN hs ELSE Overridden(f[i - 1], os[i])
      <4>1. CASE i = n
        BY <3>2, <3>5, <4>1
      <4>2. CASE i # n
        <5>1. i = 0 \/ (i - 1 \in 0..n /\ i - 1 # n)
          BY <3>2
        <5> QED
          BY <3>1, <3>4, <4>2, <5>1
      <4> QED
        BY <4>1, <4>2
    <3>7. Upto(f, n)
      BY <3>3, <3>6
    <3> HIDE DEF Upto
    <3> QED
      BY <3>2, <3>7
  <2>3. S \in SUBSET (0..Len(os))
    OBVIOUS
  <2> HIDE DEF S
  <2> QED
    BY <2>1, <2>2, <2>3, InductionUpTo
<1>2. PICK f : Upto(f, Len(os))
  <2>1. Len(os) \in S
    <3> HIDE DEF S
    <3> QED
      BY <1>1
  <2> HIDE DEF Upto
  <2> QED
    BY <2>1
<1>3. [i \in 0..Len(os) |-> f[i]] =
          [i \in 0..Len(os) |-> IF i = 0 THEN hs ELSE Overridden(f[i - 1], os[i])]
  BY <1>2
<1> QED
  BY <1>2, <1>3 DEF AfterIs

\* AllOverridden is the last value of that function.
LEMMA AfterUnfolds ==
    ASSUME NEW hs, NEW os, Len(os) \in Nat
    PROVE  \E f : /\ AllOverridden(hs, os) = f[Len(os)]
                  /\ f[0] = hs
                  /\ \A i \in 1..Len(os) : f[i] = Overridden(f[i - 1], os[i])
<1> DEFINE f == CHOOSE g : AfterIs(g, hs, os)
<1>1. AfterIs(f, hs, os)
  BY AfterExists
<1>2. AllOverridden(hs, os) = f[Len(os)]
  BY DEF AllOverridden, AfterIs
<1> HIDE DEF f
<1>3. \A i \in 0..Len(os) : f[i] = IF i = 0 THEN hs ELSE Overridden(f[i - 1], os[i])
  BY <1>1 DEF AfterIs
<1>4. 0 \in 0..Len(os) /\ \A i \in 1..Len(os) : i \in 0..Len(os) /\ i # 0
  OBVIOUS
<1> QED
  BY <1>2, <1>3, <1>4

\* All of them: a header that none names is as it was, one that is named is the
\* one given, if there was one at most.
LEMMA AllOverriddenIs ==
    ASSUME NEW hs \in Headers, NEW os \in Override
    PROVE  /\ AllOverridden(hs, os) \in Headers
           /\ \A n : (\A i \in DOMAIN os : os[i].key # n) =>
                 /\ Of(AllOverridden(hs, os), n) = Of(hs, n)
                 /\ Values(AllOverridden(hs, os), n) = Values(hs, n)
           /\ \A i \in DOMAIN os : Len(Of(hs, os[i].key)) <= 1 =>
                 Of(AllOverridden(hs, os), os[i].key) =
                     IF os[i].value = Empty THEN << >> ELSE <<os[i]>>
<1>1. /\ Len(os) \in Nat /\ DOMAIN os = 1..Len(os)
      /\ \A i \in 1..Len(os) : os[i] \in Overrides
      /\ \A i, j \in 1..Len(os) : os[i].key = os[j].key => i = j
  <2>1. os \in Seq([key : Key, value : Value \union {Empty}])
    BY MessageAssumption
  <2>2. IsInjective([i \in DOMAIN os |-> os[i].key])
    BY MessageAssumption
  <2>3. Len(os) \in Nat /\ DOMAIN os = 1..Len(os) /\ \A i \in 1..Len(os) : os[i] \in Overrides
    <3> DEFINE H == [key : Key, value : Value \union {Empty}]
    <3>1. os \in Seq(H)
      BY <2>1
    <3> HIDE DEF H
    <3>2. Len(os) \in Nat /\ DOMAIN os = 1..Len(os) /\ \A i \in 1..Len(os) : os[i] \in H
      BY <3>1
    <3> QED
      BY <3>2 DEF H, Overrides
  <2>4. \A i, j \in DOMAIN os : os[i].key = os[j].key => i = j
    BY <2>2 DEF IsInjective
  <2> QED
    BY <2>3, <2>4
<1>2. PICK f : /\ AllOverridden(hs, os) = f[Len(os)]
               /\ f[0] = hs
               /\ \A i \in 1..Len(os) : f[i] = Overridden(f[i - 1], os[i])
  BY <1>1, AfterUnfolds
<1> DEFINE Upto(i) ==
               /\ f[i] \in Headers
               /\ \A n : (\A j \in 1..i : os[j].key # n) =>
                     Of(f[i], n) = Of(hs, n) /\ Values(f[i], n) = Values(hs, n)
               /\ \A j \in 1..i : Len(Of(hs, os[j].key)) <= 1 =>
                     Of(f[i], os[j].key) = IF os[j].value = Empty THEN << >> ELSE <<os[j]>>
           S == {i \in 0..Len(os) : Upto(i)}
<1>3. 0 \in S
  BY <1>1, <1>2
<1>4. ASSUME NEW i \in 1..Len(os), i - 1 \in S PROVE i \in S
  <2> DEFINE x == f[i - 1]
             o == os[i]
  <2>1. Upto(i - 1) /\ o \in Overrides /\ f[i] = Overridden(x, o)
    BY <1>1, <1>2, <1>4
  <2>2. /\ f[i] \in Headers
        /\ \A n : n # o.key => Of(f[i], n) = Of(x, n) /\ Values(f[i], n) = Values(x, n)
        /\ Len(Of(x, o.key)) <= 1 => Of(f[i], o.key) = IF o.value = Empty THEN << >> ELSE <<o>>
    BY <2>1, OverriddenIs
  <2>3. i \in 0..Len(os) /\ \A j \in 1..i : j = i \/ (j \in 1..(i - 1) /\ os[j].key # o.key)
    BY <1>1
  <2>4. \A j \in 1..(i - 1) : j \in 1..i
    BY <1>1
  <2>5. i \in 1..i
    BY <1>1
  <2>6. ASSUME NEW n, \A j \in 1..i : os[j].key # n
        PROVE  Of(f[i], n) = Of(hs, n) /\ Values(f[i], n) = Values(hs, n)
    BY <2>1, <2>2, <2>4, <2>5, <2>6
  <2>7. ASSUME NEW j \in 1..i, Len(Of(hs, os[j].key)) <= 1
        PROVE  Of(f[i], os[j].key) = IF os[j].value = Empty THEN << >> ELSE <<os[j]>>
    <3>1. CASE j = i
      <4>1. Of(x, o.key) = Of(hs, o.key)
        BY <2>1, <2>3, <2>4, <2>5
      <4> QED
        BY <2>2, <2>7, <3>1, <4>1
    <3>2. CASE j # i
      BY <2>1, <2>2, <2>3, <2>7, <3>2
    <3> QED
      BY <3>1, <3>2
  <2>8. Upto(i)
    BY <2>2, <2>6, <2>7
  <2> HIDE DEF Upto
  <2> QED
    BY <2>3, <2>8
<1>5. S \in SUBSET (0..Len(os))
  OBVIOUS
<1> HIDE DEF S
<1>6. S = 0..Len(os)
  BY <1>1, <1>3, <1>4, <1>5, InductionUpTo
<1>7. Upto(Len(os))
  <2>1. Len(os) \in S
    BY <1>1, <1>6
  <2> HIDE DEF Upto
  <2> QED
    BY <2>1 DEF S
<1> QED
  BY <1>1, <1>2, <1>7

-----------------------------------------------------------------------------
(* What the upstream was sent.                                             *)

\* From the forward on, the upstream has the client's headers as the overrides
\* make them, and the client's body.
HandedOn ==
    /\ received \in ClientMessage
    /\ phase = "handler" => request = received
    /\ phase # "handler" /\ path # "replied" =>
           override \in Override /\ upstream = Forwarded(received, override)

\* forward_request hands on what the client sent, with the overrides, and nothing later
\* changes what the upstream was sent.
THEOREM HandedOnAlways == Spec => []HandedOn
<1>1. Init => HandedOn
  BY DEF Init, HandedOn
<1>2. ForwardInv /\ HandedOn /\ [Next]_vars => HandedOn'
  <2> SUFFICES ASSUME ForwardInv, HandedOn, [Next]_vars PROVE HandedOn'
    OBVIOUS
  <2>1. phase # "done" => path = "open"
    BY DEF ForwardInv, Unfinished
  <2>2. CASE UNCHANGED vars
    BY <2>2 DEF vars, HandedOn
  <2>3. CASE UserCall
    <3>1. UNCHANGED <<phase, path, request, received, override, upstream>>
      BY <2>3 DEF UserCall, AddResponseHeader, RemoveResponseHeader, RemoveResponseHeaderValue,
                  SetResponseBody, SetCookie, Called
    <3> QED
      BY <3>1 DEF HandedOn
  <2>4. ASSUME NEW n \in 0..MaxBody, Reply(n) PROVE HandedOn'
    BY <2>4 DEF Reply, HandedOn
  <2>5. ASSUME NEW os \in Override, Forward(os) PROVE HandedOn'
    BY <2>5 DEF Forward, HandedOn
  <2>6. CASE UpstreamFails
    BY <2>1, <2>6 DEF UpstreamFails, HandedOn
  <2>7. ASSUME NEW m \in UpstreamMessage, UpstreamAnswers(m) PROVE HandedOn'
    <3>1. /\ phase = "upstream" /\ phase' \in {"callback", "done"}
          /\ UNCHANGED <<request, received, override, upstream>>
      BY <2>7 DEF UpstreamAnswers, Relay
    <3> QED
      BY <2>1, <3>1 DEF HandedOn
  <2>8. CASE CallbackReturns
    <3>1. /\ phase = "callback" /\ phase' = "done"
          /\ UNCHANGED <<request, received, override, upstream>>
      BY <2>8 DEF CallbackReturns, Relay
    <3> QED
      BY <2>1, <3>1 DEF HandedOn
  <2> QED
    BY <2>2, <2>3, <2>4, <2>5, <2>6, <2>7, <2>8 DEF Next
<1> QED
  BY <1>1, <1>2, ForwardInvariant, PTL DEF Spec

\* HTTPForward's headers replace the client's and touch no other, for lists of any
\* length on both sides: OverridesReplace.
THEOREM OverridesRight == Spec => []OverridesReplace
<1>1. HandedOn => OverridesReplace
  <2> SUFFICES ASSUME HandedOn, phase \notin {"handler"}, path # "replied"
               PROVE  OverridesReplace
    BY DEF OverridesReplace
  <2>1. /\ received.headers \in Headers /\ override \in Override
        /\ upstream.headers = AllOverridden(received.headers, override)
    BY Arriving DEF HandedOn, Forwarded, Message
  <2>2. \A n : (\A i \in DOMAIN override : override[i].key # n) =>
            Of(upstream.headers, n) = Of(received.headers, n)
    BY <2>1, AllOverriddenIs
  <2>3. \A i \in DOMAIN override : Len(Of(received.headers, override[i].key)) <= 1 =>
            Of(upstream.headers, override[i].key) =
                IF override[i].value = Empty THEN << >> ELSE <<override[i]>>
    BY <2>1, AllOverriddenIs
  <2> QED
    BY <2>2, <2>3 DEF OverridesReplace
<1> QED
  BY <1>1, HandedOnAlways, PTL

\* The upstream can read what forward_request sends it if and only if the client's
\* request had the body it told of, whatever the requests are, unless HTTPForward
\* overrides the framing or the client's chunks were put together:
\* UpstreamCanReadTheBody.
THEOREM UpstreamReads == Spec => []UpstreamCanReadTheBody
<1>1. HandedOn => UpstreamCanReadTheBody
  <2> SUFFICES ASSUME HandedOn, phase \notin {"handler"}, path # "replied", ~Chunked(received),
                      \A i \in DOMAIN override :
                          override[i].key \notin {ContentLength, TransferEncoding}
               PROVE  Readable(upstream) <=> Readable(received)
    BY DEF UpstreamCanReadTheBody
  <2>1. /\ received.headers \in Headers /\ override \in Override
        /\ upstream.headers = AllOverridden(received.headers, override)
        /\ upstream.body = received.body
    BY Arriving DEF HandedOn, Forwarded, Message
  <2>2. \A k \in {ContentLength, TransferEncoding} :
            Values(upstream.headers, k) = Values(received.headers, k)
    BY <2>1, AllOverriddenIs
  <2>3. \A m : Chunked(m) <=> Values(m.headers, TransferEncoding) # {}
    BY DEF Chunked, Values
  <2>4. ~Chunked(upstream)
    BY <2>2, <2>3, Zenon
  <2> QED
    BY <2>1, <2>2, <2>4 DEF Readable, LengthsRight, HasHeader
<1> QED
  BY <1>1, HandedOnAlways, PTL

-----------------------------------------------------------------------------
(* The cookies.                                                            *)

\* A header that is added is the last cookie or none, and a list behind another has
\* its cookies behind.
LEMMA CookiesAdded ==
    ASSUME NEW hs \in Headers, NEW k \in Key, NEW v \in AnyValue
    PROVE  CookiesOf(AddHeader(hs, k, v)) =
               IF k = SetCookieKey THEN Append(CookiesOf(hs), v) ELSE CookiesOf(hs)
<1> DEFINE h == [key |-> k, value |-> v]
           H == [key : Key, value : AnyValue]
           o == Of(hs, SetCookieKey)
<1>1. o \in Seq(H) /\ h \in H /\ h.value = v
  BY OfList DEF Headers
<1>2. Of(AddHeader(hs, k, v), SetCookieKey) = IF k = SetCookieKey THEN o \o <<h>> ELSE o
  BY OfAdded
<1>3. CookiesOf(hs) = [j \in 1..Len(o) |-> o[j].value] /\ Len(o) \in Nat
  BY <1>1 DEF CookiesOf
<1>4. CASE k = SetCookieKey
  <2> HIDE DEF H, o, h
  <2> DEFINE p == o \o <<h>>
  <2>1. /\ p \in Seq(H) /\ Len(p) = Len(o) + 1 /\ p[Len(o) + 1] = h
        /\ \A j \in 1..Len(o) : p[j] = o[j]
    BY <1>1
  <2> HIDE DEF p
  <2>2. CookiesOf(AddHeader(hs, k, v)) = [j \in 1..(Len(o) + 1) |-> p[j].value]
    BY <1>2, <1>4, <2>1 DEF CookiesOf, p
  <2> DEFINE c == [j \in 1..Len(o) |-> o[j].value]
  <2>3. c \in Seq({o[j].value : j \in 1..Len(o)}) /\ Len(c) = Len(o)
    BY <1>3
  <2>4. Append(c, v) = [j \in 1..(Len(o) + 1) |-> IF j = Len(o) + 1 THEN v ELSE c[j]]
    BY <1>3, <2>3
  <2>5. [j \in 1..(Len(o) + 1) |-> IF j = Len(o) + 1 THEN v ELSE c[j]]
            = [j \in 1..(Len(o) + 1) |-> p[j].value]
    BY <1>1, <1>3, <2>1
  <2> QED
    BY <1>3, <1>4, <2>2, <2>4, <2>5
<1>5. CASE k # SetCookieKey
  BY <1>2, <1>5 DEF CookiesOf
<1> QED
  BY <1>4, <1>5

\* The cookies of a copied list come behind those there were.
LEMMA CookiesCopied ==
    ASSUME NEW a \in Headers, NEW b \in Headers
    PROVE  CookiesOf(CopiedTo(a, b)) = CookiesOf(a) \o CookiesOf(b)
<1> DEFINE H == [key : Key, value : AnyValue]
           x == Of(a, SetCookieKey)
           y == Of(b, SetCookieKey)
           z == x \o y
<1>1. x \in Seq(H) /\ y \in Seq(H)
  BY OfList DEF Headers
<1>2. Of(CopiedTo(a, b), SetCookieKey) = z
  BY OfCopied DEF CopiedTo
<1>3. /\ CookiesOf(a) = [j \in DOMAIN x |-> x[j].value]
      /\ CookiesOf(b) = [j \in DOMAIN y |-> y[j].value]
      /\ CookiesOf(CopiedTo(a, b)) = [j \in DOMAIN z |-> z[j].value]
  <2> HIDE DEF z
  <2> QED
    BY <1>2 DEF CookiesOf
<1> HIDE DEF H, x, y
<1>4. /\ Len(x) \in Nat /\ Len(y) \in Nat /\ DOMAIN x = 1..Len(x) /\ DOMAIN y = 1..Len(y)
      /\ DOMAIN z = 1..(Len(x) + Len(y))
      /\ \A j \in 1..(Len(x) + Len(y)) : z[j] = IF j <= Len(x) THEN x[j] ELSE y[j - Len(x)]
  BY <1>1
<1> HIDE DEF z
<1> DEFINE c == [j \in 1..Len(x) |-> x[j].value]
           d == [j \in 1..Len(y) |-> y[j].value]
<1>5. c \o d = [j \in 1..(Len(x) + Len(y)) |-> IF j <= Len(x) THEN c[j] ELSE d[j - Len(x)]]
  <2>1. Len(c) = Len(x) /\ Len(d) = Len(y)
    BY <1>4
  <2> QED
    BY <1>4, <2>1
<1>6. [j \in 1..(Len(x) + Len(y)) |-> IF j <= Len(x) THEN c[j] ELSE d[j - Len(x)]]
          = [j \in 1..(Len(x) + Len(y)) |-> z[j].value]
  BY <1>4
<1> QED
  BY <1>3, <1>4, <1>5, <1>6

\* Removing a header of another name takes no cookie away.
LEMMA CookiesRemoved ==
    ASSUME NEW hs \in Headers, NEW k, k # SetCookieKey
    PROVE  CookiesOf(RemoveHeader(hs, k)) = CookiesOf(hs)
BY OfRemoved DEF CookiesOf

\* The length that is added to a message is no cookie, nor is the one removed.
LEMMA CookiesFramed ==
    ASSUME NEW m \in Message
    PROVE  /\ CookiesOf(Framed(m).headers) = CookiesOf(m.headers)
           /\ CookiesOf(Recalculated(m).headers) = CookiesOf(m.headers)
<1>1. m.headers \in Headers /\ m.body \in AnyValue
  BY DEF Message, AnyValue
<1>2. ContentLength \in Key /\ ContentLength # SetCookieKey
  BY MessageAssumption DEF ContentLength, SetCookieKey
<1> DEFINE a == AddHeader(m.headers, ContentLength, m.body)
           r == RemoveHeader(m.headers, ContentLength)
           b == AddHeader(r, ContentLength, m.body)
<1>3. CookiesOf(a) = CookiesOf(m.headers)
  BY <1>1, <1>2, CookiesAdded
<1>4. r \in Headers /\ CookiesOf(r) = CookiesOf(m.headers)
  BY <1>1, <1>2, RemoveHeaderValues, CookiesRemoved
<1>5. CookiesOf(b) = CookiesOf(r)
  <2> HIDE DEF r
  <2> QED
    BY <1>1, <1>2, <1>4, CookiesAdded
<1>6. Framed(m).headers \in {m.headers, a}
  BY DEF Framed, Message
<1>7. Recalculated(m).headers \in {m.headers, b}
  BY DEF Recalculated, Message
<1> HIDE DEF a, r, b
<1> QED
  BY <1>3, <1>4, <1>5, <1>6, <1>7

\* The response has the cookies that were set, until an error page clears it.
CookiesKept ==
    path # "failed" /\ SetCookieKey \notin touched => CookiesOf(output.headers) = cookies

\* So does each response method, and setCookie adds one to both.
LEMMA CookiesCall ==
    ASSUME UserCall, output \in Message, CookiesKept
    PROVE  CookiesKept'
<1>1. output.headers \in Headers
  BY DEF Message
<1>2. ASSUME NEW h \in Header, AddResponseHeader(h) PROVE CookiesKept'
  <2>1. h.key \in Key /\ h.value \in AnyValue
    BY MessageAssumption DEF Header, AnyValue
  <2>2. /\ touched' = touched \union {h.key} /\ cookies' = cookies /\ path' = path
        /\ output'.headers = AddHeader(output.headers, h.key, h.value)
    BY <1>2 DEF AddResponseHeader, Called, Message
  <2> QED
    BY <1>1, <2>1, <2>2, CookiesAdded DEF CookiesKept
<1>3. ASSUME NEW k \in Key, RemoveResponseHeader(k) PROVE CookiesKept'
  <2>1. /\ touched' = touched \union {k} /\ cookies' = cookies /\ path' = path
        /\ output'.headers = RemoveHeader(output.headers, k)
    BY <1>3 DEF RemoveResponseHeader, Called, Message
  <2> QED
    BY <1>1, <2>1, CookiesRemoved DEF CookiesKept
<1>4. ASSUME NEW h \in Header, RemoveResponseHeaderValue(h) PROVE CookiesKept'
  <2>1. /\ touched' = touched \union {h.key} /\ cookies' = cookies /\ path' = path
        /\ \/ output'.headers = RemoveHeader(output.headers, h.key)
           \/ output' = output
    BY <1>4 DEF RemoveResponseHeaderValue, Called, Message
  <2> QED
    BY <1>1, <2>1, CookiesRemoved DEF CookiesKept
<1>5. ASSUME NEW n \in 0..MaxBody, SetResponseBody(n) PROVE CookiesKept'
  <2>1. /\ touched' = touched \union {} /\ cookies' = cookies /\ path' = path
        /\ output'.headers = output.headers
    BY <1>5 DEF SetResponseBody, Called, Message
  <2> QED
    BY <2>1 DEF CookiesKept
<1>6. ASSUME NEW c \in Cookie, SetCookie(c) PROVE CookiesKept'
  <2>1. SetCookieKey \in Key /\ CookieText(c) \in AnyValue
    BY MessageAssumption DEF CookieText, AnyValue
  <2>2. /\ touched' = touched \union {} /\ cookies' = Append(cookies, CookieText(c))
        /\ path' = path
        /\ output'.headers = AddHeader(output.headers, SetCookieKey, CookieText(c))
    BY <1>6 DEF SetCookie, Called, Message
  <2>3. CookiesOf(output'.headers) = Append(CookiesOf(output.headers), CookieText(c))
    BY <1>1, <2>1, <2>2, CookiesAdded
  <2> QED
    BY <2>2, <2>3 DEF CookiesKept
<1> QED
  BY <1>2, <1>3, <1>4, <1>5, <1>6 DEF UserCall

\* Each action keeps the cookies in the order they were set.
LEMMA CookiesStep == ForwardInv /\ CookiesKept /\ [Next]_vars => CookiesKept'
<1> SUFFICES ASSUME ForwardInv, CookiesKept, [Next]_vars PROVE CookiesKept'
  OBVIOUS
<1>0. /\ output \in Message /\ output.headers \in Headers
      /\ phase # "done" => path = "open"
  BY DEF ForwardInv, Typed, Unfinished, Message
<1>1. CASE UNCHANGED vars
  BY <1>1 DEF vars, CookiesKept
<1>2. CASE UserCall
  BY <1>0, <1>2, CookiesCall
<1>3. ASSUME NEW n \in 0..MaxBody, Reply(n) PROVE CookiesKept'
  <2> DEFINE m == [output EXCEPT !.body = @ + n]
  <2>1. m \in Message /\ m.headers = output.headers
    <3>1. n \in Nat /\ output.body \in Nat
      BY <1>0, MessageAssumption DEF Message
    <3>2. m = [headers |-> output.headers, body |-> output.body + n]
      BY <1>0 DEF Message
    <3> QED
      BY <1>0, <3>1, <3>2 DEF Message
  <2>2. phase = "handler" /\ output' = Framed(m) /\ UNCHANGED <<touched, cookies>>
    BY <1>3 DEF Reply
  <2> HIDE DEF m
  <2>3. CookiesOf(output'.headers) = CookiesOf(output.headers)
    BY <2>1, <2>2, CookiesFramed
  <2> QED
    BY <1>0, <2>2, <2>3 DEF CookiesKept
<1>4. ASSUME NEW os \in Override, Forward(os) PROVE CookiesKept'
  BY <1>4 DEF Forward, CookiesKept
<1>5. CASE UpstreamFails
  BY <1>5 DEF UpstreamFails, CookiesKept
<1>6. ASSUME NEW m \in UpstreamMessage, UpstreamAnswers(m) PROVE CookiesKept'
  <2> DEFINE c == [headers |-> CopiedTo(output.headers, m.headers),
                   body |-> output.body + m.body]
  <2>1. /\ m \in Message /\ c \in Message
        /\ c.headers = CopiedTo(output.headers, m.headers)
    BY CopiedMessage
  <2>2. /\ phase = "upstream" /\ touched' = touched
        /\ cookies' = cookies \o CookiesOf(m.headers)
        /\ output' = Framed(c) \/ output' = c
    BY <1>6 DEF UpstreamAnswers, Relay
  <2> HIDE DEF c
  <2>3. CookiesOf(c.headers) = CookiesOf(output.headers) \o CookiesOf(m.headers)
    <3>1. m.headers \in Headers
      BY <2>1 DEF Message
    <3> QED
      BY <1>0, <2>1, <3>1, CookiesCopied
  <2>4. CookiesOf(output'.headers) = CookiesOf(c.headers)
    BY <2>1, <2>2, CookiesFramed
  <2> QED
    BY <1>0, <2>2, <2>3, <2>4 DEF CookiesKept
<1>7. CASE CallbackReturns
  <2>1. /\ phase = "callback" /\ UNCHANGED <<touched, cookies>>
        /\ output' = Framed(Recalculated(output))
    BY <1>7 DEF CallbackReturns, Relay
  <2>2. /\ Recalculated(output) \in Message
        /\ CookiesOf(Recalculated(output).headers) = CookiesOf(output.headers)
    BY <1>0, RecalculatedMessage, CookiesFramed
  <2>3. CookiesOf(output'.headers) = CookiesOf(output.headers)
    BY <2>1, <2>2, CookiesFramed
  <2> QED
    BY <1>0, <2>1, <2>3 DEF CookiesKept
<1> QED
  BY <1>1, <1>2, <1>3, <1>4, <1>5, <1>6, <1>7 DEF Next

\* Every cookie reaches the client in the order they were set, whoever set it, on
\* every path but that of the error page: CookiesReachClient, for any number of them.
THEOREM CookiesArrive == Spec => []CookiesReachClient
<1>1. Init => CookiesKept
  <2>1. << >> \in Headers /\ DOMAIN << >> = {}
    BY DEF Headers
  <2>2. Of(<< >>, SetCookieKey) = << >>
    BY <2>1, OfNone
  <2> QED
    BY <2>1, <2>2 DEF Init, NoMessage, CookiesKept, CookiesOf
<1>2. ForwardInv /\ CookiesKept /\ [Next]_vars => CookiesKept'
  BY CookiesStep
<1>3. CookiesKept => CookiesReachClient
  BY DEF CookiesKept, CookiesReachClient
<1> QED
  BY <1>1, <1>2, <1>3, ForwardInvariant, PTL DEF Spec
=============================================================================
