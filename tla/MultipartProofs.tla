--------------------------- MODULE MultipartProofs ---------------------------
(* Theorems about Multipart for every set of names, parts and temporary    *)
(* files, every setting and every number of parts.                         *)
EXTENDS Multipart, ExtremaLemmas, FiniteSetTheorems, SequenceTheorems, TLAPS

-----------------------------------------------------------------------------
(* What the parser finds for a key.                                        *)

\* A key is found with the value of a pair that has it, or not at all.
LEMMA LastIs ==
    ASSUME NEW pairs \in Seq(Pair), NEW key
    PROVE  /\ Last(pairs, key) \in Name \union {NoName}
           /\ ~Has(pairs, key) => Last(pairs, key) = NoName
           /\ Last(pairs, key) # NoName =>
                \E i \in DOMAIN pairs : pairs[i].key = key /\ pairs[i].value = Last(pairs, key)
<1> DEFINE found == {i \in DOMAIN pairs : pairs[i].key = key}
<1>1. CASE found = {}
  BY <1>1 DEF Last
<1>2. CASE found # {}
  <2>1. found \in SUBSET Nat /\ Len(pairs) \in Nat /\ \A i \in found : i <= Len(pairs)
    OBVIOUS
  <2>2. Max(found) \in found
    <3> HIDE DEF found
    <3> QED
      BY <1>2, <2>1, MaxIsGreatest
  <2>4. pairs[Max(found)] \in Pair
    BY <2>2
  <2>5. Last(pairs, key) = pairs[Max(found)].value
    BY <1>2 DEF Last
  <2>6. Has(pairs, key)
    BY <2>2 DEF Has
  <2> QED
    BY <2>2, <2>4, <2>5, <2>6 DEF Pair
<1> QED
  BY <1>1, <1>2

\* The places of two lists in the one behind the other.
LEMMA PlacesOfTwo ==
    ASSUME NEW s \in Seq(Pair), NEW u \in Seq(Pair)
    PROVE  /\ s \o u \in Seq(Pair)
           /\ \A i \in DOMAIN s : i \in DOMAIN (s \o u) /\ (s \o u)[i] = s[i]
           /\ \A i \in DOMAIN u : /\ Len(s) + i \in DOMAIN (s \o u)
                                 /\ (s \o u)[Len(s) + i] = u[i]
OBVIOUS

\* In one list behind another a key is found as in the second, or if that does not
\* have it as in the first.
LEMMA LastOfTwo ==
    ASSUME NEW s \in Seq(Pair), NEW u \in Seq(Pair), NEW key
    PROVE  /\ s \o u \in Seq(Pair)
           /\ ~Has(u, key) => Last(s \o u, key) = Last(s, key)
           /\ ~Has(s, key) => Last(s \o u, key) = Last(u, key)
           /\ Has(u, key) => Last(s \o u, key) = Last(u, key)
<1> DEFINE both == s \o u
           m == Len(s)
           n == Len(u)
           fs == {i \in DOMAIN s : s[i].key = key}
           fu == {i \in DOMAIN u : u[i].key = key}
           fb == {i \in DOMAIN both : both[i].key = key}
<1>1. /\ both \in Seq(Pair) /\ m \in Nat /\ n \in Nat
      /\ DOMAIN both = 1..(m + n) /\ DOMAIN s = 1..m /\ DOMAIN u = 1..n
      /\ \A i \in 1..m : both[i] = s[i]
      /\ \A i \in 1..n : both[m + i] = u[i]
  OBVIOUS
<1> HIDE DEF both, m, n
<1>2. ASSUME ~Has(u, key) PROVE Last(both, key) = Last(s, key)
  <2>1. \A i \in (m + 1)..(m + n) : both[i].key # key
    <3> SUFFICES ASSUME NEW i \in (m + 1)..(m + n) PROVE both[i].key # key
      OBVIOUS
    <3>1. i - m \in 1..n /\ m + (i - m) = i
      BY <1>1
    <3>2. both[i] = u[i - m]
      BY <1>1, <3>1
    <3> QED
      BY <1>1, <1>2, <3>1, <3>2 DEF Has
  <2>2. fb = fs
    BY <1>1, <2>1
  <2>3. CASE fs = {}
    BY <2>2, <2>3 DEF Last
  <2>4. CASE fs # {}
    <3>1. fs \in SUBSET Nat /\ \A i \in fs : i <= m
      BY <1>1
    <3>2. Max(fs) \in fs
      <4> HIDE DEF fs
      <4> QED
        BY <1>1, <2>4, <3>1, MaxIsGreatest
    <3>3. both[Max(fs)] = s[Max(fs)]
      BY <1>1, <3>2
    <3>4. Last(both, key) = both[Max(fb)].value /\ Last(s, key) = s[Max(fs)].value
      BY <2>2, <2>4 DEF Last
    <3> QED
      BY <2>2, <3>3, <3>4
  <2> QED
    BY <2>3, <2>4
<1>3. ASSUME Has(u, key) PROVE Last(both, key) = Last(u, key)
  <2>1. fu # {} /\ fu \in SUBSET Nat /\ \A i \in fu : i <= n
    BY <1>1, <1>3 DEF Has
  <2>2. Max(fu) \in fu /\ \A i \in fu : Max(fu) >= i
    <3> HIDE DEF fu
    <3> QED
      BY <1>1, <2>1, MaxIsGreatest
  <2> DEFINE top == Max(fu)
  <2> HIDE DEF top
  <2>3. top \in 1..n /\ u[top].key = key /\ \A i \in fu : top >= i
    BY <1>1, <2>2 DEF top
  <2>4. both[m + top] = u[top] /\ m + top \in 1..(m + n)
    BY <1>1, <2>3
  <2>5. m + top \in fb
    BY <1>1, <2>3, <2>4
  <2>6. ASSUME NEW i \in fb PROVE m + top >= i
    <3>1. i \in 1..(m + n) /\ both[i].key = key
      BY <1>1, <2>6
    <3>2. CASE i <= m
      BY <1>1, <2>3, <3>1, <3>2
    <3>3. CASE i > m
      <4>1. i - m \in 1..n /\ m + (i - m) = i
        BY <1>1, <3>1, <3>3
      <4>2. u[i - m].key = key
        BY <1>1, <3>1, <4>1
      <4>3. i - m \in fu
        BY <1>1, <4>1, <4>2
      <4> QED
        BY <1>1, <2>3, <3>1, <4>3
    <3> QED
      BY <1>1, <3>1, <3>2, <3>3
  <2>7. Max(fb) = m + top
    <3>1. fb \in SUBSET Int /\ m + top \in Int
      BY <1>1, <2>3
    <3> HIDE DEF fb
    <3> DEFINE there == m + top
    <3>2. there \in fb /\ \A i \in fb : there >= i
      BY <2>5, <2>6
    <3> HIDE DEF there
    <3>3. Max(fb) = there
      BY <3>1, <3>2, GreatestIsMax
    <3> QED
      BY <3>3 DEF there
  <2>8. fb # {}
    BY <2>5
  <2>9. Last(both, key) = both[Max(fb)].value /\ Last(u, key) = u[top].value
    BY <2>1, <2>8 DEF Last, top
  <2> QED
    BY <2>4, <2>7, <2>9
<1>4. ~Has(s, key) /\ ~Has(u, key) => Last(both, key) = Last(u, key)
  BY <1>2, LastIs
<1> QED
  BY <1>1, <1>2, <1>3, <1>4 DEF both

\* The lists of a part are pairs, and its name and file name are names or none.
LEMMA PartFields ==
    ASSUME NEW part \in Part
    PROVE  /\ part.before \in Seq(Pair) /\ part.own \in Seq(Pair) /\ part.other \in Seq(Pair)
           /\ Pairs(part) \in Seq(Pair)
           /\ part.bytes = Absent \/ part.bytes \in Nat
           /\ Param(part) \in Name \union {NoName}
           /\ Filename(part) \in Name \union {NoName}
<1>1. part.before \in Seq(Pair) /\ part.own \in Seq(Pair) /\ part.other \in Seq(Pair)
  BY PartAssumption
<1>2. Pairs(part) \in Seq(Pair)
  BY <1>1 DEF Pairs
<1>3. part.bytes = Absent \/ part.bytes \in Nat
  BY PartAssumption
<1> QED
  BY <1>1, <1>2, <1>3, LastIs DEF Param, Filename

\* Where nothing passes for a parameter the parser finds those of the header.
LEMMA NotMisread ==
    ASSUME NEW part \in Part, part.disposition, ~Misread(part)
    PROVE  /\ Param(part) = Last(part.own, "name")
           /\ Filename(part) = Last(part.own, "filename")
<1>1. part.before \in Seq(Pair) /\ part.own \in Seq(Pair) /\ part.other \in Seq(Pair)
  BY PartFields
<1>2. ASSUME NEW key \in {"name", "filename"}
      PROVE  Last(Pairs(part), key) = Last(part.own, key)
  <2>1. ~Has(part.other, key) /\ (Has(part.own, key) \/ ~Has(part.before, key))
    BY <1>2 DEF Misread
  <2> DEFINE head == part.before \o part.own
  <2>2. head \in Seq(Pair) /\ Last(head, key) = Last(part.own, key)
    BY <1>1, <2>1, LastOfTwo
  <2> HIDE DEF head
  <2>3. Last(head \o part.other, key) = Last(head, key)
    BY <1>1, <2>1, <2>2, LastOfTwo
  <2> QED
    BY <2>2, <2>3 DEF Pairs, head
<1> QED
  BY <1>2 DEF Param, Filename

\* The name a part is given, by the parser or by its own header, is one in it.
LEMMA NameIsIn ==
    ASSUME NEW part \in Part, NEW n \in Name, n = Param(part) \/ n = Last(part.own, "name")
    PROVE  n \in NamesIn(part)
<1>1. /\ part.before \in Seq(Pair) /\ part.own \in Seq(Pair) /\ part.other \in Seq(Pair)
      /\ Pairs(part) \in Seq(Pair) /\ n # NoName
  BY PartFields, PartAssumption
<1>2. CASE n = Param(part)
  BY <1>1, <1>2, LastIs DEF Param, NamesIn
<1>3. CASE n = Last(part.own, "name")
  <2>1. PICK i \in DOMAIN part.own : part.own[i].key = "name" /\ part.own[i].value = n
    BY <1>1, <1>3, LastIs
  <2> DEFINE k == Len(part.before) + i
             head == part.before \o part.own
  <2>2. k \in DOMAIN Pairs(part) /\ Pairs(part)[k] = part.own[i]
    <3>1. head \in Seq(Pair) /\ k \in DOMAIN head /\ head[k] = part.own[i]
      BY <1>1, PlacesOfTwo
    <3> HIDE DEF head, k
    <3>2. k \in DOMAIN (head \o part.other) /\ (head \o part.other)[k] = head[k]
      BY <1>1, <3>1, PlacesOfTwo
    <3> QED
      BY <3>1, <3>2 DEF Pairs, head
  <2> HIDE DEF k
  <2> QED
    BY <2>1, <2>2 DEF NamesIn
<1> QED
  BY <1>2, <1>3

-----------------------------------------------------------------------------
(* The invariants.                                                         *)

File == [name : Name \union {Anonymous(n) : n \in Nat}, filename : Name,
         tmp_name : Temp, part : Nat]
Types ==
    /\ phase \in {"parsing", "handling", "released"} /\ upload_cnt \in Int
    /\ parts \in Seq(Part) /\ files \in Seq(File) /\ anonindex \in Nat

\* The temporary files that uploads name.
Listed == {files[i].tmp_name : i \in DOMAIN files}
\* The names and file names of the uploads.
Given == {files[i].name : i \in DOMAIN files} \union {files[i].filename : i \in DOMAIN files}

\* A file on disk is listed and not moved, or a stray; a name the application has
\* moved away is one it was listed under; uploads that are off leave none.
FilesInv ==
    /\ disk = IF phase = "released" THEN (strays \union Other) \ Given
              ELSE (Listed \ moved) \union strays \union Other
    /\ Listed \intersect strays = {} /\ moved \subseteq Listed
    /\ Listed \subseteq Temp /\ strays \subseteq Temp
    /\ IsFiniteSet(Listed) /\ Cardinality(Listed) = Len(files)
    /\ Skip => files = << >> /\ strays = {}

\* An upload is of a part already read, whose names it has; a number given to one
\* without a name is below the next.
UploadInv(i) ==
    LET part == parts[files[i].part] IN
    /\ files[i].part \in DOMAIN parts /\ part.disposition
    /\ files[i].filename = Base[Filename(part)] /\ Filename(part) # NoName
    /\ Param(part) # NoName => files[i].name = Param(part)
    /\ Param(part) = NoName => \E n \in 0..(anonindex - 1) : files[i].name = Anonymous(n)
UploadsInv ==
    /\ \A i \in DOMAIN files : UploadInv(i)
    /\ \A i, j \in DOMAIN files : i < j =>
         /\ files[i].part < files[j].part
         /\ files[i].name \notin Name => files[i].name # files[j].name

MInv == Types /\ FilesInv /\ UploadsInv

\* Numbers below one bound are below a greater one.
LEMMA RangeGrows ==
    ASSUME NEW m \in Nat, NEW n \in Nat, n >= m
    PROVE  0..(m - 1) \subseteq 0..(n - 1)
OBVIOUS

\* Steps that leave the uploads and the names of temporary files alone; parts read
\* are not read again, and numbers given not given again.
LEMMA SameUploads ==
    ASSUME MInv, UNCHANGED <<settings, files>>, anonindex' \in {anonindex, anonindex + 1},
           parts' \in Seq(Part), DOMAIN parts \subseteq DOMAIN parts',
           \A k \in DOMAIN parts : parts'[k] = parts[k]
    PROVE  UploadsInv' /\ Listed' = Listed /\ Given' = Given
<1>1. ASSUME NEW i \in DOMAIN files PROVE UploadInv(i)'
  <2>1. UploadInv(i)
    BY <1>1 DEF MInv, UploadsInv
  <2>2. files[i].part \in DOMAIN parts /\ parts'[files[i].part] = parts[files[i].part]
    BY <2>1 DEF UploadInv
  <2>3. anonindex \in Nat /\ anonindex' \in Nat /\ anonindex' >= anonindex
    BY DEF MInv, Types
  <2>4. 0..(anonindex - 1) \subseteq 0..(anonindex' - 1)
    BY <2>3, RangeGrows
  <2> QED
    BY <2>1, <2>2, <2>4 DEF UploadInv, Param, Filename, Pairs
<1> QED
  BY <1>1 DEF MInv, UploadsInv, Listed, Given

\* The next part is read behind the others.
LEMMA ReadsAppends ==
    ASSUME Types, NEW part \in Part, Reads(part)
    PROVE  /\ parts' \in Seq(Part) /\ Len(parts') = Len(parts) + 1
           /\ DOMAIN parts \subseteq DOMAIN parts' /\ Len(parts) + 1 \in DOMAIN parts'
           /\ \A k \in DOMAIN parts : parts'[k] = parts[k]
           /\ parts'[Len(parts) + 1] = part
           /\ phase = "parsing" /\ UNCHANGED <<settings, moved>>
BY DEF Types, Reads

\* An upload that is stored: under a name of its own on disk, behind the others.
LEMMA StoreInv ==
    ASSUME MInv, NEW part \in Part, part.disposition, ~Skip, Filename(part) # NoName,
           Reads(part), UNCHANGED phase, Store(part),
           anonindex' = IF Param(part) = NoName THEN anonindex + 1 ELSE anonindex
    PROVE  MInv'
<1>1. /\ parts' \in Seq(Part) /\ Len(parts') = Len(parts) + 1
      /\ DOMAIN parts \subseteq DOMAIN parts' /\ Len(parts) + 1 \in DOMAIN parts'
      /\ \A k \in DOMAIN parts : parts'[k] = parts[k]
      /\ parts'[Len(parts) + 1] = part
      /\ phase = "parsing" /\ UNCHANGED <<settings, moved>>
  BY ReadsAppends DEF MInv
<1>2. Param(part) \in Name \union {NoName} /\ Filename(part) \in Name
  BY PartFields
<1>3. anonindex \in Nat /\ anonindex' \in Nat /\ anonindex' >= anonindex
      /\ files \in Seq(File) /\ Len(parts) \in Nat
  BY DEF MInv, Types
<1>4. PICK t \in Temp \ (disk \union moved), written \in BOOLEAN :
        /\ disk' = disk \union {t}
        /\ strays' = IF written THEN strays ELSE strays \union {t}
        /\ files' = IF written THEN Append(files, Upload(part, t)) ELSE files
  BY DEF Store
<1>5. t \notin Listed /\ t \notin strays
  BY <1>1, <1>4 DEF MInv, FilesInv
<1>6. CASE ~written
  <2>1. files' = files /\ strays' = strays \union {t} /\ disk' = disk \union {t}
    BY <1>4, <1>6
  <2>2. UploadsInv' /\ Listed' = Listed /\ Given' = Given
    BY <1>1, <1>3, <2>1, SameUploads
  <2>3. FilesInv'
    BY <1>1, <1>4, <1>5, <2>1, <2>2, PartAssumption DEF MInv, FilesInv, Skip, settings
  <2> QED
    BY <1>1, <1>3, <2>1, <2>2, <2>3 DEF MInv, Types, settings
<1>7. CASE written
  <2> DEFINE u == Upload(part, t)
  <2>1. files' = Append(files, u) /\ strays' = strays /\ disk' = disk \union {t}
    BY <1>4, <1>7
  <2>2. u \in File
    BY <1>2, <1>3, <1>4, PartAssumption DEF Upload, UploadName, File
  <2>3. u.tmp_name = t /\ u.part = Len(parts) + 1 /\ u.filename = Base[Filename(part)]
        /\ u.name = UploadName(part)
    BY DEF Upload
  <2> HIDE DEF u
  <2>4. /\ files' \in Seq(File) /\ Len(files') = Len(files) + 1
        /\ DOMAIN files' = DOMAIN files \union {Len(files) + 1}
        /\ \A i \in DOMAIN files : files'[i] = files[i] /\ i < Len(files) + 1
        /\ files'[Len(files) + 1] = u
    BY <1>3, <2>1, <2>2
  <2>5. Listed' = Listed \union {t}
    BY <2>3, <2>4 DEF Listed
  <2>6. IsFiniteSet(Listed') /\ Cardinality(Listed') = Len(files')
    BY <1>5, <2>4, <2>5, FS_AddElement DEF MInv, FilesInv
  <2>7. FilesInv'
    BY <1>1, <1>4, <1>5, <2>1, <2>5, <2>6 DEF MInv, FilesInv, Skip, settings
  <2>8. ASSUME NEW i \in DOMAIN files PROVE UploadInv(i)'
    <3>1. UploadInv(i) /\ files'[i] = files[i]
      BY <2>4, <2>8 DEF MInv, UploadsInv
    <3>2. parts'[files[i].part] = parts[files[i].part]
      BY <1>1, <3>1 DEF UploadInv
    <3>3. 0..(anonindex - 1) \subseteq 0..(anonindex' - 1)
      BY <1>3, RangeGrows
    <3> QED
      BY <1>1, <3>1, <3>2, <3>3 DEF UploadInv, Param, Filename, Pairs
  <2>9. ASSUME NEW k, k = Len(files) + 1 PROVE UploadInv(k)'
    <3>1. Param(part) = NoName => u.name = Anonymous(anonindex) /\ anonindex \in 0..(anonindex' - 1)
      BY <1>3, <2>3 DEF UploadName
    <3>2. Param(part) # NoName => u.name = Param(part)
      BY <2>3 DEF UploadName
    <3> QED
      BY <1>1, <1>2, <1>3, <2>3, <2>4, <2>9, <3>1, <3>2 DEF UploadInv, Param, Filename, Pairs
  <2>10. ASSUME NEW i \in DOMAIN files
         PROVE  /\ files[i].part < u.part
                /\ files[i].name \notin Name => files[i].name # u.name
    <3>1. UploadInv(i)
      BY <2>10 DEF MInv, UploadsInv
    <3>2. files[i].part < u.part
      BY <1>3, <2>3, <3>1 DEF UploadInv, MInv, Types
    <3>3. files[i].part \in DOMAIN parts /\ parts[files[i].part] \in Part
      BY <3>1 DEF UploadInv, MInv, Types
    <3>4. CASE files[i].name \notin Name
      <4>1. PICK n \in 0..(anonindex - 1) : files[i].name = Anonymous(n)
        BY <3>1, <3>3, <3>4, PartFields DEF UploadInv
      <4>2. CASE Param(part) = NoName
        <5>1. u.name = Anonymous(anonindex) /\ n # anonindex
          BY <1>3, <2>3, <4>1, <4>2 DEF UploadName
        <5> QED
          BY <3>2, <4>1, <5>1 DEF Anonymous
      <4>3. CASE Param(part) # NoName
        BY <1>2, <2>3, <3>2, <3>4, <4>3 DEF UploadName
      <4> QED
        BY <4>2, <4>3
    <3> QED
      BY <3>2, <3>4
  <2>11. UploadsInv'
    <3>1. \A i \in DOMAIN files' : UploadInv(i)'
      BY <2>4, <2>8, <2>9
    <3>2. ASSUME NEW i \in DOMAIN files', NEW j \in DOMAIN files', i < j
          PROVE  /\ files'[i].part < files'[j].part
                 /\ files'[i].name \notin Name => files'[i].name # files'[j].name
      <4>1. i \in DOMAIN files
        BY <1>3, <2>4, <3>2
      <4>2. CASE j \in DOMAIN files
        BY <2>4, <3>2, <4>1, <4>2 DEF MInv, UploadsInv
      <4>3. CASE j = Len(files) + 1
        BY <2>4, <2>10, <4>1, <4>3
      <4> QED
        BY <2>4, <4>2, <4>3
    <3> QED
      BY <3>1, <3>2 DEF UploadsInv
  <2> QED
    BY <1>1, <1>3, <2>4, <2>7, <2>11 DEF MInv, Types, settings
<1> QED
  BY <1>4, <1>6, <1>7

\* A part that is no upload leaves the uploads as they are.
LEMMA IgnoreInv ==
    ASSUME MInv, NEW part \in Part, IgnorePart(part) \/ GarbledPart(part) \/ FieldPart(part)
    PROVE  MInv'
<1>1. /\ Reads(part) /\ UNCHANGED <<files, anonindex, disk, strays>>
      /\ phase' \in {phase, "handling"}
  BY DEF IgnorePart, GarbledPart, FieldPart
<1>2. /\ parts' \in Seq(Part) /\ DOMAIN parts \subseteq DOMAIN parts'
      /\ \A k \in DOMAIN parts : parts'[k] = parts[k]
      /\ phase = "parsing" /\ UNCHANGED <<settings, moved>>
  BY <1>1, ReadsAppends DEF MInv
<1>3. UploadsInv' /\ Listed' = Listed /\ Given' = Given
  BY <1>1, <1>2, SameUploads
<1>4. FilesInv'
  BY <1>1, <1>2, <1>3 DEF MInv, FilesInv, Skip, settings
<1>5. Types'
  BY <1>1, <1>2 DEF MInv, Types, settings
<1> QED
  BY <1>3, <1>4, <1>5 DEF MInv

\* A part that is an upload adds its file, or a stray, and keeps the places of the others.
LEMMA FilePartInv ==
    ASSUME MInv, NEW part \in Part, FilePart(part)
    PROVE  MInv'
<1>1. /\ part.disposition /\ ~Skip /\ Filename(part) # NoName
      /\ Reads(part) /\ UNCHANGED phase
      /\ anonindex' = IF Param(part) = NoName THEN anonindex + 1 ELSE anonindex
  BY DEF FilePart
<1>2. CASE Store(part)
  BY <1>1, <1>2, StoreInv
<1>3. CASE UNCHANGED <<files, disk, strays>>
  <2>1. /\ parts' \in Seq(Part) /\ DOMAIN parts \subseteq DOMAIN parts'
        /\ \A k \in DOMAIN parts : parts'[k] = parts[k]
        /\ phase = "parsing" /\ UNCHANGED <<settings, moved>>
    BY <1>1, ReadsAppends DEF MInv
  <2>2. UploadsInv' /\ Listed' = Listed /\ Given' = Given
    BY <1>1, <1>3, <2>1, SameUploads
  <2>3. FilesInv'
    BY <1>1, <1>3, <2>1, <2>2 DEF MInv, FilesInv, Skip, settings
  <2>4. Types'
    BY <1>1, <1>3, <2>1 DEF MInv, Types, settings
  <2> QED
    BY <2>2, <2>3, <2>4 DEF MInv
<1> QED
  BY <1>2, <1>3 DEF FilePart

\* What does not read the body leaves the list of the uploads as it is.
LEMMA AfterwardsInv ==
    ASSUME MInv,
           PartsEnd \/ (\E i \in DOMAIN files : MoveUpload(i)) \/ FreeFiles \/ UNCHANGED vars
    PROVE  MInv'
<1>1. UNCHANGED <<settings, parts, files, anonindex, strays>>
  BY DEF PartsEnd, MoveUpload, FreeFiles, vars
<1>2. UploadsInv' /\ Listed' = Listed /\ Given' = Given
  BY <1>1, SameUploads DEF MInv, Types
<1>3. Types'
  BY <1>1 DEF MInv, Types, PartsEnd, MoveUpload, FreeFiles, vars, settings
<1>4. ASSUME PartsEnd PROVE FilesInv'
  BY <1>1, <1>2, <1>4 DEF MInv, FilesInv, PartsEnd, Skip, settings
<1>5. ASSUME NEW i \in DOMAIN files, MoveUpload(i) PROVE FilesInv'
  <2>1. files[i].tmp_name \in Listed /\ phase' = phase /\ phase = "handling"
    BY <1>5 DEF Listed, MoveUpload
  <2> QED
    BY <1>1, <1>2, <1>5, <2>1, PartAssumption DEF MInv, FilesInv, MoveUpload, Skip, settings
<1>6. ASSUME FreeFiles PROVE FilesInv'
  <2>1. UNION {Named(files[i]) : i \in DOMAIN files} = Listed \union Given
    BY DEF Named, Listed, Given
  <2>2. /\ phase = "handling" /\ phase' = "released" /\ moved' = moved
        /\ disk' = disk \ (Listed \union Given)
    BY <1>6, <2>1 DEF FreeFiles
  <2>3. Listed \intersect (strays \union Other) = {}
    BY PartAssumption DEF MInv, FilesInv
  <2>4. disk' = (strays \union Other) \ Given
    BY <2>2, <2>3 DEF MInv, FilesInv
  <2> QED
    BY <1>1, <1>2, <2>2, <2>4 DEF MInv, FilesInv, Skip, settings
<1>7. ASSUME UNCHANGED vars PROVE FilesInv'
  BY <1>1, <1>2, <1>7 DEF MInv, FilesInv, vars, Skip, settings
<1> QED
  BY <1>2, <1>3, <1>4, <1>5, <1>6, <1>7 DEF MInv

\* php_can_parse_multipart, the application and the release of the request keep the
\* invariant on uploads and files.
THEOREM MInvariant == Spec => []MInv
<1>1. Init => MInv
  <2> SUFFICES ASSUME Init PROVE MInv
    OBVIOUS
  <2>1. files = << >> /\ parts = << >> /\ anonindex = 0 /\ phase = "parsing"
        /\ disk = Other /\ strays = {} /\ moved = {} /\ upload_cnt \in Int
    BY PartAssumption DEF Init
  <2>2. Types /\ UploadsInv /\ Listed = {} /\ Given = {}
    BY <2>1 DEF Types, UploadsInv, Listed, Given
  <2>3. FilesInv
    BY <2>1, <2>2, FS_EmptySet DEF FilesInv
  <2> QED
    BY <2>2, <2>3 DEF MInv
<1>2. MInv /\ [Next]_vars => MInv'
  <2> SUFFICES ASSUME MInv, [Next]_vars PROVE MInv'
    OBVIOUS
  <2>1. ASSUME NEW part \in Part, ParsePart(part) PROVE MInv'
    BY <2>1, IgnoreInv, FilePartInv DEF ParsePart
  <2> QED
    BY <2>1, AfterwardsInv DEF Next
<1> QED
  BY <1>1, <1>2, PTL DEF Spec

-----------------------------------------------------------------------------
(* The files.                                                              *)

\* Every temporary file on disk is an upload's that is listed, once, or one that
\* could not be written; when the request is freed, the files that are left are the
\* latter and those of others, but for what uploads give as a name or a file name;
\* with uploads off the disk is as it was: php_can_parse_multipart and the destructor
\* of the uploads (unlink_filename), for every body and every order of moves.
THEOREM FilesRight == Spec => []FilesAreOnDisk
<1>1. MInv => FilesAreOnDisk
  <2> SUFFICES ASSUME MInv PROVE FilesAreOnDisk
    OBVIOUS
  <2>1. files = << >> => Listed = {} /\ Given = {}
    BY DEF Listed, Given
  <2>2. Skip => disk = Other /\ moved = {}
    BY <2>1 DEF MInv, FilesInv
  <2> QED
    BY <2>2 DEF MInv, FilesInv, FilesAreOnDisk, Listed, Given, Skip
<1> QED
  BY <1>1, MInvariant, PTL

\* The uploads are in the order of their parts, each under the name of its part,
\* those without one under numbers of their own.
THEOREM PlacesKept == Spec => []UploadsKeepTheirPlace
<1>1. ASSUME MInv PROVE UploadsKeepTheirPlace
  <2>1. ASSUME NEW i \in DOMAIN files
        PROVE  LET part == parts[files[i].part]
               IN  /\ files[i].filename # NoName
                   /\ Last(part.own, "name") # NoName /\ ~Misread(part) =>
                        files[i].name = Last(part.own, "name")
    <3>1. UploadInv(i)
      BY <1>1, <2>1 DEF MInv, UploadsInv
    <3> DEFINE part == parts[files[i].part]
    <3>2. part \in Part /\ part.disposition
      BY <1>1, <3>1 DEF MInv, Types, UploadInv
    <3>3. ~Misread(part) => Param(part) = Last(part.own, "name")
      BY <3>2, NotMisread
    <3>4. files[i].filename # NoName /\ (Param(part) # NoName => files[i].name = Param(part))
      <4>1. Base[Filename(part)] \in Name
        BY <3>1, <3>2, PartFields, PartAssumption DEF UploadInv
      <4> QED
        BY <3>1, <4>1, PartAssumption DEF UploadInv
    <3> QED
      BY <3>3, <3>4
  <2>2. \A i, j \in DOMAIN files : i < j =>
          /\ files[i].part < files[j].part
          /\ files[i].name \notin Name => files[i].name # files[j].name
    BY <1>1 DEF MInv, UploadsInv
  <2> QED
    BY <2>1, <2>2 DEF UploadsKeepTheirPlace
<1> QED
  BY <1>1, MInvariant, PTL

-----------------------------------------------------------------------------
(* The fields.                                                             *)

\* The parts that give a field by a name, whether a name is in no part that is
\* misread, and what then is under it.
Giving(n) == {i \in DOMAIN parts : OwnField(parts[i], n)}
Certain(n) == \A i \in DOMAIN parts : Misread(parts[i]) => n \notin NamesIn(parts[i])
PostAt(n) ==
    /\ n \in DOMAIN post <=> Giving(n) # {}
    /\ n \in DOMAIN post => post[n] = Max(Giving(n))

Allowed == file_uploads /\ upload_cnt > 0
PostInv == Allowed => \A n \in Name : Certain(n) => PostAt(n)

\* A name that no misread part has in it is given by a part as the parser reads it.
LEMMA OwnIs ==
    ASSUME NEW part \in Part, NEW n \in Name, Misread(part) => n \notin NamesIn(part)
    PROVE  OwnField(part, n) <=>
             /\ part.disposition /\ part.bytes # Absent
             /\ Param(part) = n /\ Filename(part) = NoName
<1>1. CASE part.disposition /\ ~Misread(part)
  BY <1>1, NotMisread DEF OwnField
<1>2. CASE Misread(part)
  BY <1>2, NameIsIn DEF OwnField
<1>3. CASE ~part.disposition
  BY <1>3 DEF OwnField
<1> QED
  BY <1>1, <1>2, <1>3

\* A part read gives the field it is of, if it is of one.
LEMMA ReadsGiving ==
    ASSUME Types, NEW part \in Part, Reads(part), Allowed', NEW n \in Name, Certain(n)'
    PROVE  /\ Allowed /\ Certain(n) /\ ~Skip /\ (Misread(part) => n \notin NamesIn(part))
           /\ Giving(n)' = IF OwnField(part, n) THEN Giving(n) \union {Len(parts) + 1}
                           ELSE Giving(n)
<1>1. /\ parts' \in Seq(Part) /\ Len(parts') = Len(parts) + 1
      /\ DOMAIN parts \subseteq DOMAIN parts' /\ Len(parts) + 1 \in DOMAIN parts'
      /\ \A k \in DOMAIN parts : parts'[k] = parts[k]
      /\ parts'[Len(parts) + 1] = part
      /\ UNCHANGED <<settings, moved>>
  BY ReadsAppends
<1>2. DOMAIN parts' = DOMAIN parts \union {Len(parts) + 1}
  BY <1>1 DEF Types
<1>3. Allowed /\ ~Skip
  BY <1>1 DEF settings, Types, Allowed, Skip
<1>4. Certain(n) /\ (Misread(part) => n \notin NamesIn(part))
  <2>1. \A i \in DOMAIN parts' : Misread(parts'[i]) => n \notin NamesIn(parts'[i])
    BY DEF Certain
  <2> QED
    BY <1>1, <2>1 DEF Certain
<1>5. Giving(n)' = IF OwnField(part, n) THEN Giving(n) \union {Len(parts) + 1} ELSE Giving(n)
  <2>1. Giving(n)' = {i \in DOMAIN parts' : OwnField(parts'[i], n)}
    BY DEF Giving
  <2>2. \A i \in DOMAIN parts : OwnField(parts'[i], n) <=> OwnField(parts[i], n)
    BY <1>1
  <2>3. OwnField(parts'[Len(parts) + 1], n) <=> OwnField(part, n)
    BY <1>1
  <2> QED
    BY <1>2, <2>1, <2>2, <2>3 DEF Giving
<1> QED
  BY <1>3, <1>4, <1>5

\* Parts that give no field, because they have no name or are uploads.
LEMMA NoFieldPost ==
    ASSUME Types, PostInv, NEW part \in Part, Reads(part), UNCHANGED post,
           ~part.disposition \/ Skip \/ part.bytes = Absent
             \/ Param(part) = NoName \/ Filename(part) # NoName
    PROVE  PostInv'
<1> SUFFICES ASSUME Allowed', NEW n \in Name, Certain(n)' PROVE PostAt(n)'
  BY DEF PostInv
<1>1. Allowed /\ Certain(n) /\ ~Skip /\ (Misread(part) => n \notin NamesIn(part))
  BY ReadsGiving
<1>2. ~OwnField(part, n)
  BY <1>1, OwnIs, PartAssumption
<1>3. Giving(n)' = Giving(n)
  BY <1>2, ReadsGiving
<1> QED
  BY <1>1, <1>3 DEF PostInv, PostAt

\* A part that gives one: under its name the content is now the part's.
LEMMA FieldPost ==
    ASSUME Types, PostInv, NEW part \in Part, FieldPart(part)
    PROVE  PostInv'
<1>1. /\ part.disposition /\ ~Skip /\ Reads(part)
      /\ Param(part) \in Name /\ Filename(part) = NoName
  BY PartFields DEF FieldPart
<1>2. CASE part.bytes = Absent
  BY <1>1, <1>2, NoFieldPost DEF FieldPart
<1>3. CASE part.bytes # Absent
  <2> SUFFICES ASSUME Allowed', NEW n \in Name, Certain(n)' PROVE PostAt(n)'
    BY DEF PostInv
  <2> DEFINE name == Param(part)
             here == Len(parts) + 1
  <2>1. Allowed /\ Certain(n) /\ (Misread(part) => n \notin NamesIn(part))
    BY <1>1, ReadsGiving
  <2>2. OwnField(part, n) <=> n = name
    BY <1>1, <1>3, <2>1, OwnIs
  <2>3. PostAt(n)
    BY <2>1 DEF PostInv
  <2>4. post' = [m \in DOMAIN post \union {name} |-> IF m = name THEN here ELSE post[m]]
    BY <1>3 DEF FieldPart
  <2> HIDE DEF name
  <2>5. CASE n = name
    <3>1. Giving(n)' = Giving(n) \union {here}
      BY <1>1, <2>2, <2>5, ReadsGiving
    <3>2. Max(Giving(n)') = here
      <4>1. here \in Int /\ Giving(n) \in SUBSET Int /\ \A i \in Giving(n) : here >= i
        BY DEF Giving, Types
      <4> HIDE DEF here
      <4> QED
        BY <3>1, <4>1, GreatestIsMax
    <3>3. n \in DOMAIN post' /\ post'[n] = here
      BY <2>4, <2>5
    <3>4. Giving(n)' # {}
      BY <3>1
    <3> QED
      BY <3>2, <3>3, <3>4 DEF PostAt
  <2>6. CASE n # name
    <3>1. Giving(n)' = Giving(n)
      BY <1>1, <2>2, <2>6, ReadsGiving
    <3>2. (n \in DOMAIN post' <=> n \in DOMAIN post) /\ (n \in DOMAIN post => post'[n] = post[n])
      BY <2>4, <2>6
    <3> QED
      BY <2>3, <3>1, <3>2 DEF PostAt
  <2> QED
    BY <2>5, <2>6
<1> QED
  BY <1>2, <1>3

\* With uploads allowed, the fields are those of the body, each with the content it
\* is given last: the loop of php_can_parse_multipart, over every body.  A part that
\* is misread, for a header before its own or text behind, leaves every name that is
\* not in it alone.
THEOREM FieldsRight == Spec => []PostIsWhatWasSent
<1>1. Init => PostInv
  <2> SUFFICES ASSUME Init PROVE PostInv
    OBVIOUS
  <2>1. post = [n \in {} |-> 0] /\ parts = << >>
    BY DEF Init
  <2>2. \A n : Giving(n) = {}
    BY <2>1 DEF Giving
  <2> QED
    BY <2>1, <2>2 DEF PostInv, PostAt
<1>2. MInv /\ PostInv /\ [Next]_vars => PostInv'
  <2> SUFFICES ASSUME Types, PostInv, [Next]_vars PROVE PostInv'
    BY DEF MInv
  <2>1. ASSUME NEW part \in Part, IgnorePart(part) PROVE PostInv'
    BY <2>1, NoFieldPost DEF IgnorePart
  <2>2. ASSUME NEW part \in Part, GarbledPart(part) PROVE PostInv'
    BY <2>2, NoFieldPost DEF GarbledPart
  <2>3. ASSUME NEW part \in Part, FieldPart(part) PROVE PostInv'
    BY <2>3, FieldPost
  <2>4. ASSUME NEW part \in Part, FilePart(part) PROVE PostInv'
    BY <2>4, NoFieldPost DEF FilePart
  <2>5. CASE PartsEnd \/ (\E i \in DOMAIN files : MoveUpload(i)) \/ FreeFiles \/ UNCHANGED vars
    <3>1. UNCHANGED <<settings, parts, post>>
      BY <2>5 DEF PartsEnd, MoveUpload, FreeFiles, vars
    <3> QED
      BY <3>1 DEF PostInv, PostAt, Allowed, Certain, Giving, settings
  <2> QED
    BY <2>1, <2>2, <2>3, <2>4, <2>5 DEF Next, ParsePart
<1>3. PostInv => PostIsWhatWasSent
  BY DEF PostInv, PostAt, Allowed, Certain, Giving, PostIsWhatWasSent
<1> QED
  BY <1>1, <1>2, <1>3, MInvariant, PTL DEF Spec
=============================================================================
