-------------------------- MODULE FileResponseProofs --------------------------
(* Theorems about FileResponse for every file, every sequence of changes,  *)
(* every request and every word size: what a Range header selects, and     *)
(* what is said of the copies clients keep.                                *)
EXTENDS FileResponse, TLAPS

-----------------------------------------------------------------------------
(* Ranges.  The arithmetic is that of one header; no state is needed.      *)

\* An operation on longs gives a number, and the right one within a long.
LEMMA LongIs ==
    ASSUME NEW n \in Int
    PROVE  /\ Long(n) \subseteq Int
           /\ LongMin <= n /\ n <= LongMax => Long(n) = {n}
<1>1. LongMin \in Int /\ 2 * (LongMax + 1) \in Nat /\ 2 * (LongMax + 1) > 0
  BY LongAssumption DEF LongMin
<1>2. n - LongMin \in Int
  BY <1>1
<1> DEFINE m == n - LongMin
           w == 2 * (LongMax + 1)
<1> HIDE DEF m, w
<1>3. m % w \in Int
  BY <1>1, <1>2 DEF m, w
<1>4. (m % w) + LongMin \in Int
  BY <1>1, <1>3
<1>5. Long(n) = IF LongMin <= n /\ n <= LongMax THEN {n} ELSE {n, (m % w) + LongMin}
  BY DEF Long, m, w
<1> QED
  BY <1>4, <1>5

\* What the text of a number counts as.
LEMMA AtolIs ==
    ASSUME NEW f \in Field
    PROVE  /\ f = Absent \/ f \in Nat
           /\ Atol(f) \in Nat /\ Atol(f) <= LongMax
           /\ f = Absent => Atol(f) = 0
           /\ f # Absent /\ f < LongMax => Atol(f) = f
           /\ f # Absent /\ f >= LongMax => Atol(f) = LongMax
BY LongAssumption DEF Field, Atol, MIN, Absent

\* The interval begins at a number that is no text's, or the text's, and never
\* leaves the file at its end.
LEMMA IntervalWithinFile ==
    ASSUME NEW h \in Header, NEW size \in 0..MaxSize, NEW iv \in Intervals(h, size)
    PROVE  /\ iv[1] \in Nat /\ iv[1] <= LongMax
           /\ iv[2] \in Int /\ iv[2] <= size
           /\ ~Overflows(h) => iv[2] >= 0
<1>0. size \in Nat /\ size < LongMax /\ LongMax \in Nat
  BY LongAssumption, FileBoundsAssumption
<1>1. CASE h = Whole
  <2>1. iv = <<0, size>>
    BY <1>1, Zenon DEF Intervals, Whole
  <2> QED
    BY <1>0, <2>1
<1>2. CASE h.form = "undashed"
  <2>1. PICK n \in Number : iv = <<Atol(n), size>>
    BY <1>2, Zenon DEF Intervals
  <2>2. Atol(n) \in Nat /\ Atol(n) <= LongMax
    <3>1. n \in Field
      BY DEF Field
    <3> QED
      BY <3>1, AtolIs
  <2> QED
    BY <1>0, <2>1, <2>2
<1>3. CASE h \in [form : {"dashed"}, first : Field, last : Field]
  <2>1. h.first \in Field /\ h.last \in Field
    BY <1>3
  <2>2. /\ Atol(h.first) \in Nat /\ Atol(h.first) <= LongMax
        /\ Atol(h.last) \in Nat /\ Atol(h.last) <= LongMax
        /\ h.first # Absent /\ h.last # Absent /\ ~Overflows(h) => Atol(h.last) < LongMax
    <3>1. /\ h.last # Absent => h.last \in Nat
          /\ Atol(h.last) \in Nat /\ Atol(h.last) <= LongMax
          /\ h.last # Absent /\ h.last < LongMax => Atol(h.last) = h.last
      BY <2>1, AtolIs
    <3>2. Atol(h.first) \in Nat /\ Atol(h.first) <= LongMax
      BY <2>1, AtolIs
    <3>3. h.first # Absent /\ h.last # Absent /\ ~Overflows(h) => h.last < LongMax
      BY <3>1, LongAssumption DEF Overflows
    <3> HIDE DEF Atol
    <3> QED
      BY <3>1, <3>2, <3>3
  <2>3. iv \in Dashed(h, size)
    BY <1>3, Zenon DEF Intervals
  <2>4. CASE h.first = Absent
    <3>1. iv = <<MAX(0, size - Atol(h.last)), size>>
      BY <2>3, <2>4, Zenon DEF Dashed
    <3> QED
      BY <1>0, <2>2, <3>1 DEF MAX
  <2>5. CASE h.first # Absent /\ h.last = Absent
    <3>1. iv = <<Atol(h.first), size>>
      BY <2>3, <2>5, Zenon DEF Dashed
    <3> QED
      BY <1>0, <2>2, <3>1
  <2>6. CASE h.first # Absent /\ h.last # Absent
    <3>1. PICK n \in Long(Atol(h.last) + 1) : iv = <<Atol(h.first), MIN(n, size)>>
      BY <2>3, <2>6, Zenon DEF Dashed
    <3>2. n \in Int
      <4>1. Atol(h.last) + 1 \in Int
        BY <2>2
      <4> QED
        BY <4>1, LongIs
    <3>3. ~Overflows(h) => n >= 0
      <4>1. ~Overflows(h) => LongMin <= Atol(h.last) + 1 /\ Atol(h.last) + 1 <= LongMax
        BY <2>2, <2>6, LongAssumption DEF LongMin
      <4>2. Atol(h.last) + 1 \in Int
        BY <2>2
      <4>3. ~Overflows(h) => Long(Atol(h.last) + 1) = {Atol(h.last) + 1}
        BY <4>1, <4>2, LongIs
      <4> QED
        BY <2>2, <4>3
    <3> QED
      BY <1>0, <2>2, <3>1, <3>2, <3>3 DEF MIN
  <2> QED
    BY <2>4, <2>5, <2>6
<1> QED
  BY <1>1, <1>2, <1>3 DEF Header

\* A range has numbers at its ends, and its length if the last one asked for has a
\* successor.
LEMMA RangeIs ==
    ASSUME NEW h \in Header, NEW size \in 0..MaxSize, NEW r \in Ranges(h, size)
    PROVE  /\ <<r[1], r[2]>> \in Intervals(h, size)
           /\ r[1] \in Nat /\ r[2] \in Int /\ r[2] <= size /\ r[3] \in Int
           /\ ~Overflows(h) => r[3] = r[2] - r[1]
<1>1. PICK iv \in Intervals(h, size) : \E len \in Long(iv[2] - iv[1]) : r = <<iv[1], iv[2], len>>
  BY Zenon DEF Ranges
<1>2. PICK len \in Long(iv[2] - iv[1]) : r = <<iv[1], iv[2], len>>
  BY <1>1
<1>3. /\ iv[1] \in Nat /\ iv[1] <= LongMax
      /\ iv[2] \in Int /\ iv[2] <= size
      /\ ~Overflows(h) => iv[2] >= 0
  BY IntervalWithinFile
<1>4. r[1] = iv[1] /\ r[2] = iv[2] /\ r[3] = len
  BY <1>2
<1>5. iv[2] - iv[1] \in Int
  BY <1>3
<1>6. len \in Int
  BY <1>5, LongIs
<1>7. ~Overflows(h) => len = iv[2] - iv[1]
  <2>1. ~Overflows(h) => LongMin <= iv[2] - iv[1] /\ iv[2] - iv[1] <= LongMax
    BY <1>3, LongAssumption, FileBoundsAssumption DEF LongMin
  <2>2. ~Overflows(h) => Long(iv[2] - iv[1]) = {iv[2] - iv[1]}
    BY <1>5, <2>1, LongIs
  <2> QED
    BY <2>2
<1>8. iv = <<iv[1], iv[2]>>
  <2>1. CASE h.form = "none"
    <3>1. iv = <<0, size>>
      BY <2>1, Zenon DEF Intervals
    <3> QED
      BY <3>1
  <2>2. CASE h.form = "undashed"
    <3>1. PICK n \in Number : iv = <<Atol(n), size>>
      BY <2>2, Zenon DEF Intervals
    <3> QED
      BY <3>1
  <2>3. CASE h.form = "dashed"
    <3>1. iv \in Dashed(h, size)
      BY <2>3, Zenon DEF Intervals
    <3>2. \/ iv = <<MAX(0, size - Atol(h.last)), size>>
          \/ iv = <<Atol(h.first), size>>
          \/ \E n \in Long(Atol(h.last) + 1) : iv = <<Atol(h.first), MIN(n, size)>>
      <4>1. CASE h.first = Absent
        BY <3>1, <4>1, Zenon DEF Dashed
      <4>2. CASE h.first # Absent /\ h.last = Absent
        BY <3>1, <4>2, Zenon DEF Dashed
      <4>3. CASE h.first # Absent /\ h.last # Absent
        BY <3>1, <4>3, Zenon DEF Dashed
      <4> QED
        BY <4>1, <4>2, <4>3
    <3> QED
      BY <3>2
  <2> QED
    BY <2>1, <2>2, <2>3 DEF Header, Whole
<1> QED
  BY <1>3, <1>4, <1>6, <1>7, <1>8

\* A range of both ends or of one: sendFile turns it into the bytes its comments
\* say, whatever the size of the file.
LEMMA DashedSelects ==
    ASSUME NEW h \in [form : {"dashed"}, first : Field, last : Field], NEW size \in 0..MaxSize,
           NEW iv \in Dashed(h, size), ~Overflows(h), NEW i \in 0..(size - 1)
    PROVE  iv[1] <= i /\ i < iv[2] <=> i \in Selected(h, size)
<1>0. size \in Nat /\ size < LongMax /\ LongMax \in Nat
  BY LongAssumption, FileBoundsAssumption
<1>1. h.form = "dashed" /\ h.first \in Field /\ h.last \in Field
  OBVIOUS
<1>2. CASE h.first = Absent
  <2>1. iv = <<MAX(0, size - Atol(h.last)), size>>
    BY <1>2, Zenon DEF Dashed
  <2>2. i \in Selected(h, size) <=> h.last # Absent /\ i >= size - h.last
    BY <1>1, <1>2, Zenon DEF Selected
  <2>3. /\ h.last = Absent \/ h.last \in Nat
        /\ h.last = Absent => Atol(h.last) = 0
        /\ h.last # Absent /\ h.last < LongMax => Atol(h.last) = h.last
        /\ h.last # Absent /\ h.last >= LongMax => Atol(h.last) = LongMax
    BY <1>1, AtolIs
  <2> QED
    BY <1>0, <2>1, <2>2, <2>3 DEF MAX
<1>3. CASE h.first # Absent /\ h.last = Absent
  <2>1. iv = <<Atol(h.first), size>>
    BY <1>3, Zenon DEF Dashed
  <2>2. i \in Selected(h, size) <=> i >= h.first
    BY <1>1, <1>3, Zenon DEF Selected
  <2>3. /\ h.first \in Nat
        /\ h.first < LongMax => Atol(h.first) = h.first
        /\ h.first >= LongMax => Atol(h.first) = LongMax
    BY <1>1, <1>3, AtolIs
  <2> QED
    BY <1>0, <2>1, <2>2, <2>3
<1>4. CASE h.first # Absent /\ h.last # Absent
  <2>1. PICK n \in Long(Atol(h.last) + 1) : iv = <<Atol(h.first), MIN(n, size)>>
    BY <1>4, Zenon DEF Dashed
  <2>2. i \in Selected(h, size) <=> i >= h.first /\ i <= h.last
    BY <1>1, <1>4, Zenon DEF Selected
  <2>3. /\ h.first \in Nat /\ h.last \in Nat
        /\ h.first < LongMax => Atol(h.first) = h.first
        /\ h.first >= LongMax => Atol(h.first) = LongMax
        /\ h.last < LongMax => Atol(h.last) = h.last
    BY <1>1, <1>4, AtolIs
  <2>4. h.last < LongMax
    BY <1>0, <1>4, <2>3 DEF Overflows
  <2>5. n = h.last + 1
    <3>1. /\ Atol(h.last) + 1 = h.last + 1 /\ Atol(h.last) + 1 \in Int
          /\ LongMin <= Atol(h.last) + 1 /\ Atol(h.last) + 1 <= LongMax
      BY <1>0, <2>3, <2>4 DEF LongMin
    <3>2. Long(Atol(h.last) + 1) = {Atol(h.last) + 1}
      BY <3>1, LongIs
    <3> QED
      BY <2>1, <3>1, <3>2
  <2> QED
    BY <1>0, <2>1, <2>2, <2>3, <2>5 DEF MIN
<1> QED
  BY <1>2, <1>3, <1>4

\* The three statuses, by the length of the range.
LEMMA StatusByLength ==
    ASSUME NEW r, r[3] \in Int, NEW size \in Nat
    PROVE  /\ r[3] <= 0 => RangeStatus(r, size) = 416
           /\ r[3] > 0 /\ r[3] = size => RangeStatus(r, size) = 200
           /\ r[3] > 0 /\ r[3] # size => RangeStatus(r, size) = 206
<1> DEFINE len == r[3]
<1>1. len \in Int
  OBVIOUS
<1>2. RangeStatus(r, size) =
        CASE len <= 0 -> 416 [] len > 0 /\ len = size -> 200 [] OTHER -> 206
  BY DEF RangeStatus
<1> HIDE DEF len
<1>3. ~(len <= 0 /\ len > 0)
  BY <1>1
<1>4. /\ len <= 0 => RangeStatus(r, size) = 416
      /\ len > 0 /\ len = size => RangeStatus(r, size) = 200
      /\ ~(len <= 0) /\ ~(len > 0 /\ len = size) => RangeStatus(r, size) = 206
  BY <1>2, <1>3, Zenon
<1> QED
  BY <1>1, <1>4 DEF len

\* Status and bytes fit the header for every header and every size.
LEMMA RangesFit ==
    ASSUME NEW h \in Header, NEW size \in 0..MaxSize
    PROVE  RangeServed(h, size)
<1> SUFFICES ASSUME ~Overflows(h), NEW r \in Ranges(h, size)
             PROVE  LET status == RangeStatus(r, size)
                    IN /\ h.form # "undashed" => Sent(r, size) = Selected(h, size)
                       /\ status = 416 <=> Sent(r, size) = {}
                       /\ status = 200 => Sent(r, size) = 0..(size - 1)
                       /\ status = 206 => r[1] >= 0 /\ r[2] <= size /\ r[3] = r[2] - r[1]
  BY Zenon DEF RangeServed
<1> DEFINE sent == Sent(r, size)
<1>0. size \in Nat
  BY FileBoundsAssumption
<1>1. /\ <<r[1], r[2]>> \in Intervals(h, size)
      /\ r[1] \in Nat /\ r[2] \in Int /\ r[2] <= size
      /\ r[3] \in Int /\ r[3] = r[2] - r[1]
  BY RangeIs
<1>2. /\ r[3] <= 0 => RangeStatus(r, size) = 416
      /\ r[3] > 0 /\ r[3] = size => RangeStatus(r, size) = 200
      /\ r[3] > 0 /\ r[3] # size => RangeStatus(r, size) = 206
  BY <1>0, <1>1, StatusByLength
<1>3. RangeStatus(r, size) = 416 <=> sent = {}
  <2>1. CASE r[2] - r[1] <= 0
    BY <1>1, <1>2, <2>1 DEF Sent
  <2>2. CASE r[2] - r[1] > 0
    <3>1. r[1] \in sent
      BY <1>0, <1>1, <2>2 DEF Sent
    <3> HIDE DEF sent
    <3> QED
      BY <1>0, <1>1, <1>2, <2>2, <3>1
  <2> QED
    BY <1>1, <2>1, <2>2
<1>4. RangeStatus(r, size) = 200 => sent = 0..(size - 1)
  BY <1>0, <1>1, <1>2 DEF Sent
<1>5. h.form # "undashed" => sent = Selected(h, size)
  <2>1. CASE h = Whole
    <3>1. <<r[1], r[2]>> = <<0, size>> /\ h.form # "dashed"
      BY <1>1, <2>1, Zenon DEF Intervals, Whole
    <3>2. Selected(h, size) = 0..(size - 1)
      BY <3>1, Zenon DEF Selected
    <3>3. r[1] = 0 /\ r[2] = size
      BY <3>1
    <3> QED
      BY <1>0, <3>2, <3>3 DEF Sent
  <2>2. CASE h \in [form : {"dashed"}, first : Field, last : Field]
    <3> DEFINE iv == <<r[1], r[2]>>
    <3>1. iv \in Dashed(h, size) /\ iv[1] = r[1] /\ iv[2] = r[2]
      BY <1>1, <2>2, Zenon DEF Intervals
    <3>2. Selected(h, size) \subseteq 0..(size - 1)
      BY Zenon DEF Selected
    <3> HIDE DEF iv
    <3>3. \A i \in 0..(size - 1) : iv[1] <= i /\ i < iv[2] <=> i \in Selected(h, size)
      BY <2>2, <3>1, DashedSelects
    <3> QED
      BY <3>1, <3>2, <3>3, Zenon DEF Sent
  <2> QED
    BY <2>1, <2>2 DEF Header
<1> QED
  BY <1>1, <1>2, <1>3, <1>4, <1>5

-----------------------------------------------------------------------------
(* Copies and types.  Conversions to int keep the times the model has, so  *)
(* an ETag has the time of its version in it.                              *)

Time == 0..MaxClock
ETags == Inode \X Int \X Int
FileTypes ==
    /\ clock \in Time /\ file.mtime \in Time /\ file.mtime <= clock
    /\ file.version \in Nat \ {0} /\ file.size \in 0..MaxSize
    /\ copy = [c \in Client |-> copy[c]]

\* What a client keeps: nothing, or a version with the time that was its own; an
\* earlier version has an earlier time, and the present one the present time.
CopyFits(k) ==
    \/ k = NoCopy
    \/ /\ k.version <= file.version /\ k.mtime \in Time /\ k.etag[2] = k.mtime
       /\ k.version = file.version => k.mtime = file.mtime
       /\ k.version < file.version => k.mtime < file.mtime

\* No entry of the table is under an ETag of a later time, and the one under the
\* file's own is its type or broken.
EntryFits(etag) ==
    /\ etag[2] <= file.mtime
    /\ etag = ETag(file) => types[etag] \in {file.version, Broken}

FInv ==
    /\ FileTypes
    /\ ~blurred => /\ \A c \in Client : copy[c].version \in Nat /\ CopyFits(copy[c])
                   /\ \A etag \in DOMAIN types : etag[2] \in Int /\ EntryFits(etag)

\* A time fits into an int and into %x.
LEMMA TimeConverts ==
    ASSUME NEW n \in Time
    PROVE  ToHex(n) = n /\ ToInt(n) = n
<1>1. /\ Word \in Nat \ {0} /\ MaxClock \in Nat
      /\ n \in Nat /\ n < Word \div 2
  BY WordAssumption, FileBoundsAssumption DEF Time
<1>2. Word \div 2 \in Nat /\ 2 * (Word \div 2) <= Word
  BY <1>1
<1> DEFINE half == Word \div 2
<1> HIDE DEF half
<1>3. half \in Nat /\ 2 * half <= Word /\ n < half
  BY <1>1, <1>2 DEF half
<1>4. n % Word = n /\ (n + half) % Word = n + half
  BY <1>1, <1>3
<1>5. ToInt(n) = ((n + half) % Word) - half
  BY DEF ToInt, half
<1> QED
  BY <1>1, <1>3, <1>4, <1>5 DEF ToHex

\* So the time in an ETag is that of its version.
LEMMA ETagHasTime ==
    ASSUME file.mtime \in Time
    PROVE  ETag(file)[2] = file.mtime
BY TimeConverts DEF ETag

\* What the type sendFile finds can be, and what its answers make of it.
LEMMA TypeFound ==
    ASSUME NEW q \in Query, NEW t \in FoundTypes(q)
    PROVE  \/ t.new = TRUE /\ t.type \in {file.version, Broken}
           \/ t.new = FALSE /\ t.type = file.version
           \/ /\ t.new = FALSE /\ t.type = types[ETag(file)]
              /\ ETag(file) \in DOMAIN types
<1>1. CASE q.mimetype
  <2>1. t \in {[type |-> file.version, new |-> FALSE]}
    BY <1>1, Zenon DEF FoundTypes
  <2> QED
    BY <2>1
<1>2. CASE ~q.mimetype /\ TypeKey(file) \in DOMAIN types
  <2>1. t \in {[type |-> types[TypeKey(file)], new |-> FALSE]}
    BY <1>2, Zenon DEF FoundTypes
  <2> QED
    BY <1>2, <2>1 DEF TypeKey
<1>3. CASE ~q.mimetype /\ TypeKey(file) \notin DOMAIN types
  <2>1. t \in {[type |-> u, new |-> TRUE] : u \in {file.version, Broken}}
    BY <1>3, Zenon DEF FoundTypes
  <2> QED
    BY <2>1
<1> QED
  BY <1>1, <1>2, <1>3

\* An answer with content has the type that was found, and is 304 only if a validator says so.
LEMMA ContentOf ==
    ASSUME FileTypes, NEW c \in Client, NEW q \in Query, NEW t, NEW a \in Content(c, q, t)
    PROVE  /\ a.type = t.type /\ a.new = t.new
           /\ a.status = 304 => NotModified(c, q)
<1>1. CASE NotModified(c, q)
  <2>1. a = Typed(304, <<0, 0>>, t, TRUE)
    BY <1>1, Zenon DEF Content
  <2> QED
    BY <1>1, <2>1 DEF Typed
<1>2. CASE ~NotModified(c, q) /\ q.head
  <2>1. a = Typed(200, <<0, 0>>, t, TRUE)
    BY <1>2, Zenon DEF Content
  <2> QED
    BY <2>1 DEF Typed
<1>3. CASE ~NotModified(c, q) /\ ~q.head
  <2>1. PICK r \in Ranges(q.range, file.size) : a \in Ranged(r, t)
    BY <1>3, Zenon DEF Content
  <2>2. q.range \in Header /\ file.size \in Nat /\ file.size \in 0..MaxSize
    BY FileBoundsAssumption DEF Query, FileTypes
  <2>3. r[3] \in Int
    BY <2>2, RangeIs
  <2>4. RangeStatus(r, file.size) \in {416, 200, 206}
    BY <2>2, <2>3, StatusByLength
  <2>5. CASE a = Typed(416, <<0, 0>>, t, TRUE)
    BY <2>5 DEF Typed
  <2>6. CASE \E lost \in {FALSE, r[3] > file.size} :
               a = Typed(RangeStatus(r, file.size), <<r[1], r[2]>>, t, lost)
    BY <2>4, <2>6 DEF Typed
  <2>7. \/ Ranged(r, t) = {Typed(416, <<0, 0>>, t, TRUE)}
        \/ Ranged(r, t) = {Typed(RangeStatus(r, file.size), <<r[1], r[2]>>, t, lost)
                               : lost \in {FALSE, r[3] > file.size}}
    BY Zenon DEF Ranged
  <2> DEFINE given(lost) == Typed(RangeStatus(r, file.size), <<r[1], r[2]>>, t, lost)
             none == Typed(416, <<0, 0>>, t, TRUE)
  <2> HIDE DEF given, none
  <2>8. a = none \/ \E lost \in {FALSE, r[3] > file.size} : a = given(lost)
    <3>1. Ranged(r, t) = {none} \/ Ranged(r, t) = {given(lost) : lost \in {FALSE, r[3] > file.size}}
      BY <2>7, Zenon DEF given, none
    <3> QED
      BY <2>1, <3>1
  <2> QED
    BY <2>5, <2>6, <2>8, Zenon DEF given, none
<1> QED
  BY <1>1, <1>2, <1>3

\* So has every answer of sendFile, but for those whose type is broken.
LEMMA AnswerOf ==
    ASSUME FileTypes, NEW c \in Client, NEW q \in Query, NEW a \in Answers(c, q)
    PROVE  /\ \/ a.type = Broken /\ a.new = FALSE
              \/ \E t \in FoundTypes(q) : a.type = t.type /\ a.new = t.new
           /\ a.status = 304 => NotModified(c, q)
<1>1. CASE descriptors = MaxDescriptors
  <2>1. a = Plain(500, FALSE)
    BY <1>1 DEF Answers
  <2> QED
    BY <2>1 DEF Plain
<1>2. CASE descriptors # MaxDescriptors
  <2>1. PICK t \in FoundTypes(q) :
          a \in IF t.new /\ t.type = Broken THEN {Typed(500, <<0, 0>>, t, TRUE)}
                                           ELSE Content(c, q, t)
    BY <1>2, Zenon DEF Answers
  <2>2. CASE a = Typed(500, <<0, 0>>, t, TRUE)
    BY <2>2 DEF Typed
  <2>3. CASE a \in Content(c, q, t)
    BY <2>3, ContentOf
  <2> QED
    BY <2>1, <2>2, <2>3
<1> QED
  BY <1>1, <1>2

-----------------------------------------------------------------------------
(* The invariant.                                                          *)

\* An answer's new entry, and the copy the client keeps of it.
LEMMA SendFileInv ==
    ASSUME FInv, NEW c \in Client, NEW q \in Query, SendFile(c, q)
    PROVE  FInv'
<1>1. PICK a \in Answers(c, q) :
        /\ types' = IF a.new
                    THEN [k \in DOMAIN types \union {TypeKey(file)} |->
                            IF k = TypeKey(file) THEN a.type ELSE types[k]]
                    ELSE types
        /\ copy' = IF a.status = 200 /\ a.body # <<0, 0>>
                   THEN [copy EXCEPT ![c] = [version |-> file.version, etag |-> ETag(file),
                                             mtime |-> file.mtime]]
                   ELSE copy
  BY Zenon DEF SendFile
<1>2. FileTypes /\ clock' = clock /\ file' = file /\ blurred' = blurred
  BY Zenon DEF SendFile, FInv
<1>3. FileTypes'
  <2> DEFINE new == [version |-> file.version, etag |-> ETag(file), mtime |-> file.mtime]
  <2> HIDE DEF new
  <2>1. copy' = copy \/ copy' = [copy EXCEPT ![c] = new]
    BY <1>1, Zenon DEF new
  <2> QED
    BY <1>2, <2>1 DEF FileTypes
<1>4. ETag(file)[2] = file.mtime /\ ETag(file)' = ETag(file) /\ TypeKey(file) = ETag(file)
  BY <1>2, ETagHasTime DEF FileTypes, ETag, ToHex, TypeKey
<1>5. \A d \in Client :
        \/ copy'[d] = copy[d]
        \/ copy'[d] = [version |-> file.version, etag |-> ETag(file), mtime |-> file.mtime]
  <2> DEFINE new == [version |-> file.version, etag |-> ETag(file), mtime |-> file.mtime]
  <2> HIDE DEF new
  <2>1. copy' = copy \/ copy' = [copy EXCEPT ![c] = new]
    BY <1>1, Zenon DEF new
  <2>2. \A d \in Client : copy'[d] = copy[d] \/ copy'[d] = new
    BY <1>2, <2>1 DEF FileTypes
  <2> QED
    BY <2>2 DEF new
<1>6. ASSUME ~blurred
      PROVE  \A d \in Client : copy'[d].version \in Nat /\ CopyFits(copy[d])'
  <2> SUFFICES ASSUME NEW d \in Client
               PROVE  copy'[d].version \in Nat /\ CopyFits(copy[d])'
    OBVIOUS
  <2>1. copy[d].version \in Nat /\ CopyFits(copy[d])
    BY <1>6 DEF FInv
  <2>2. CASE copy'[d] = copy[d]
    BY <1>2, <2>1, <2>2 DEF CopyFits
  <2>3. CASE copy'[d] = [version |-> file.version, etag |-> ETag(file), mtime |-> file.mtime]
    BY <1>2, <1>4, <2>3 DEF CopyFits, FileTypes
  <2> QED
    BY <1>5, <2>2, <2>3
<1>7. ASSUME ~blurred
      PROVE  \A etag \in DOMAIN types' : etag[2] \in Int /\ EntryFits(etag)'
  <2>1. \A etag \in DOMAIN types : etag[2] \in Int /\ EntryFits(etag)
    BY <1>7 DEF FInv
  <2>2. CASE types' = types
    BY <1>2, <1>4, <2>1, <2>2 DEF EntryFits
  <2>3. CASE /\ a.new
             /\ types' = [k \in DOMAIN types \union {ETag(file)} |->
                            IF k = ETag(file) THEN a.type ELSE types[k]]
    <3>1. a.type \in {file.version, Broken}
      <4>1. CASE a.type = Broken
        BY <4>1
      <4>2. CASE \E t \in FoundTypes(q) : a.type = t.type /\ a.new = t.new
        <5>1. PICK t \in FoundTypes(q) : a.type = t.type /\ a.new = t.new
          BY <4>2
        <5> QED
          BY <2>3, <5>1, TypeFound
      <4> QED
        BY <1>2, <4>1, <4>2, AnswerOf
    <3>2. DOMAIN types' = DOMAIN types \union {ETag(file)} /\ types'[ETag(file)] = a.type
      BY <2>3
    <3> QED
      BY <1>2, <1>4, <2>1, <3>1, <3>2 DEF EntryFits, FileTypes, Time
  <2> QED
    BY <1>1, <1>4, <2>2, <2>3, Zenon
<1> QED
  BY <1>2, <1>3, <1>6, <1>7 DEF FInv

\* A change that advances the mtime leaves every copy and every entry behind it.
LEMMA ChangeInv ==
    ASSUME FInv, NEW size \in 0..MaxSize, NEW mtime \in 0..MaxClock, NEW inode \in Inode,
           Change(size, mtime, inode)
    PROVE  FInv'
<1>1. /\ FileTypes /\ clock' = clock /\ types' = types /\ copy' = copy
      /\ file' = [version |-> file.version + 1, size |-> size, mtime |-> mtime,
                  inode |-> inode]
      /\ mtime <= clock
      /\ blurred' = (blurred \/ mtime <= file.mtime)
  BY FileBoundsAssumption DEF Change, FInv, FileTypes, Time
<1>2. FileTypes'
  BY <1>1 DEF FileTypes, Time
<1>3. ASSUME ~blurred'
      PROVE  ~blurred /\ file.mtime < mtime
  <2>1. ~blurred /\ ~(mtime <= file.mtime)
    BY <1>1, <1>3, Zenon
  <2> QED
    BY <1>1, <2>1, FileBoundsAssumption DEF FileTypes, Time
<1>4. ETag(file)'[2] = mtime
  <2>1. file'.mtime = mtime /\ mtime \in Time
    BY <1>1 DEF Time
  <2>2. ETag(file)' = ETag(file')
    BY DEF ETag, ToHex
  <2>3. ETag(file')[2] = ToHex(file'.mtime)
    BY DEF ETag
  <2> QED
    BY <2>1, <2>2, <2>3, TimeConverts
<1>5. ASSUME ~blurred'
      PROVE  \A d \in Client : copy'[d].version \in Nat /\ CopyFits(copy[d])'
  <2> SUFFICES ASSUME NEW d \in Client
               PROVE  copy'[d].version \in Nat /\ CopyFits(copy[d])'
    OBVIOUS
  <2>1. copy[d].version \in Nat /\ CopyFits(copy[d])
    BY <1>3, <1>5 DEF FInv
  <2>2. file'.version = file.version + 1 /\ file'.mtime = mtime
    BY <1>1
  <2>3. CASE copy[d] = NoCopy
    BY <1>1, <2>1, <2>3 DEF CopyFits, NoCopy
  <2>4. CASE copy[d] # NoCopy
    BY <1>1, <1>3, <1>5, <2>1, <2>2, <2>4 DEF CopyFits, FileTypes, Time
  <2> QED
    BY <2>3, <2>4
<1>6. ASSUME ~blurred'
      PROVE  \A etag \in DOMAIN types' : etag[2] \in Int /\ EntryFits(etag)'
  <2>1. \A etag \in DOMAIN types : etag[2] \in Int /\ etag[2] <= file.mtime
    BY <1>3, <1>6 DEF FInv, EntryFits
  <2>2. \A etag \in DOMAIN types : etag[2] < mtime
    BY <1>1, <1>3, <1>6, <2>1 DEF FileTypes, Time
  <2>3. \A etag \in DOMAIN types : etag # ETag(file)'
    BY <1>4, <2>1, <2>2
  <2>4. file'.mtime = mtime
    BY <1>1
  <2> QED
    BY <1>1, <2>1, <2>2, <2>3, <2>4 DEF EntryFits
<1> QED
  BY <1>2, <1>5, <1>6 DEF FInv

\* As long as every change advances the file's mtime, a copy or an entry of the
\* table that has the present time is of the present version, and all others have
\* earlier times.
THEOREM FInvariant == Spec => []FInv
<1>1. Init => FInv
  <2> SUFFICES ASSUME Init
               PROVE  FInv
    OBVIOUS
  <2>1. FileTypes
    <3>1. /\ clock = 1 /\ file.version = 1 /\ file.size \in 0..MaxSize /\ file.mtime \in 0..1
      BY DEF Init
    <3>2. copy = [c \in Client |-> copy[c]]
      BY DEF Init
    <3> QED
      BY <3>1, <3>2, FileBoundsAssumption DEF FileTypes, Time
  <2>2. \A c \in Client : copy[c] = NoCopy
    BY DEF Init
  <2>3. DOMAIN types = {}
    BY DEF Init
  <2> QED
    BY <2>1, <2>2, <2>3 DEF FInv, CopyFits, NoCopy
<1>2. FInv /\ [Next]_vars => FInv'
  <2> SUFFICES ASSUME FInv, [Next]_vars
               PROVE  FInv'
    OBVIOUS
  <2>1. ASSUME NEW c \in Client, NEW q \in Query, SendFile(c, q)
        PROVE  FInv'
    BY <2>1, SendFileInv
  <2>2. ASSUME NEW size \in 0..MaxSize, NEW mtime \in 0..MaxClock, NEW inode \in Inode,
               Change(size, mtime, inode)
        PROVE  FInv'
    BY <2>2, ChangeInv
  <2>3. ASSUME FileTypes', UNCHANGED <<file, types, copy, blurred>>
        PROVE  FInv'
    BY <2>3 DEF FInv, CopyFits, EntryFits, ETag, ToHex
  <2>4. ASSUME NEW path \in DOMAIN Refusal, Refuse(path)
        PROVE  FInv'
    <3>1. UNCHANGED <<clock, file, types, copy, blurred>>
      BY <2>4, Zenon DEF Refuse
    <3> QED
      BY <2>3, <3>1 DEF FInv, FileTypes
  <2>5. CASE Tick
    BY <2>3, <2>5, FileBoundsAssumption DEF Tick, FInv, FileTypes, Time
  <2>6. CASE UNCHANGED vars
    BY <2>3, <2>6 DEF vars, FInv, FileTypes
  <2> QED
    BY <2>1, <2>2, <2>4, <2>5, <2>6 DEF Next
<1> QED
  BY <1>1, <1>2, PTL DEF Spec

\* "Not modified" is true of the version the client keeps: neither validator takes
\* one version for another (NotModifiedIsTrue), for every word size, as long as
\* the clock fits into an int.
THEOREM NotModifiedTrue == Spec => []NotModifiedIsTrue
<1>1. FInv => NotModifiedIsTrue
  <2> SUFFICES ASSUME FInv, NEW c \in Client, NEW q \in WholeQuery, Sensible(c, q),
                      NEW a \in Answers(c, q), a.status = 304,
                      ~blurred, file.mtime # 0
               PROVE  copy[c].version = file.version
    BY DEF NotModifiedIsTrue
  <2>1. FileTypes /\ CopyFits(copy[c]) /\ copy[c].version \in Nat
    BY DEF FInv
  <2>2. NotModified(c, q)
    <3>1. FileTypes /\ q \in Query
      BY <2>1 DEF WholeQuery
    <3> QED
      BY ONLY <3>1, c \in Client, a \in Answers(c, q), a.status = 304, AnswerOf
  <2>3. ~("date" \in q.validators) => ~(0 >= file.mtime)
    BY <2>1, FileBoundsAssumption DEF FileTypes, Time
  <2>4. q.validators # {}
    BY <2>2, <2>3, Zenon DEF NotModified
  <2>5. /\ copy[c].version <= file.version /\ copy[c].mtime \in Time
        /\ copy[c].etag[2] = copy[c].mtime
        /\ copy[c].version < file.version => copy[c].mtime < file.mtime
    BY <2>1, <2>4, Zenon DEF CopyFits, Sensible
  <2>6. CASE copy[c].etag = ETag(file)
    <3>1. copy[c].mtime = file.mtime
      BY <2>1, <2>5, <2>6, ETagHasTime DEF FileTypes
    <3> QED
      BY <2>1, <2>5, <3>1, FileBoundsAssumption DEF FileTypes, Time
  <2>7. CASE ToInt(copy[c].mtime) >= file.mtime
    <3>1. copy[c].mtime >= file.mtime
      BY <2>5, <2>7, TimeConverts
    <3> QED
      BY <2>1, <2>5, <3>1, FileBoundsAssumption DEF FileTypes, Time
  <2> QED
    BY <2>2, <2>3, <2>6, <2>7, Zenon DEF NotModified
<1> QED
  BY <1>1, FInvariant, PTL

\* The table of content types never gives the type of an earlier version
\* (TypeIsOfVersion), however often the file is replaced.
THEOREM TypeRight == Spec => []TypeIsOfVersion
<1>1. FInv => TypeIsOfVersion
  <2> SUFFICES ASSUME FInv, NEW c \in Client, NEW q \in WholeQuery,
                      NEW a \in Answers(c, q), ~blurred
               PROVE  a.type \in {file.version, Broken}
    BY DEF TypeIsOfVersion
  <2>1. FileTypes /\ q \in Query
    BY DEF FInv, WholeQuery
  <2>2. CASE \E t \in FoundTypes(q) : a.type = t.type /\ a.new = t.new
    <3>1. PICK t \in FoundTypes(q) : a.type = t.type
      BY <2>2
    <3>2. ETag(file) \in DOMAIN types => types[ETag(file)] \in {file.version, Broken}
      BY DEF FInv, EntryFits
    <3> QED
      BY <2>1, <3>1, <3>2, TypeFound
  <2> QED
    BY <2>1, <2>2, AnswerOf
<1> QED
  BY <1>1, FInvariant, PTL

\* The bytes and the status are those the Range header asks for
\* (BytesAreThoseAskedFor), for files of every size and every number in the header
\* that is followed by one in a long.
THEOREM BytesRight == Spec => []BytesAreThoseAskedFor
<1>1. FInv => BytesAreThoseAskedFor
  <2>1. FInv => file.size \in 0..MaxSize
    BY DEF FInv, FileTypes
  <2> QED
    BY <2>1, RangesFit DEF BytesAreThoseAskedFor
<1> QED
  BY <1>1, FInvariant, PTL
=============================================================================
