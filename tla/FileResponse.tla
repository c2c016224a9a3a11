---------------------------- MODULE FileResponse ----------------------------
(***************************************************************************)
(* Can\Server\Request::sendFile (Request.c): one file that others write    *)
(* and replace, served whole, in ranges or as "not modified" to clients    *)
(* that keep a copy with the validators it came with, and the cache of     *)
(* content types the server keeps between requests.                        *)
(*                                                                         *)
(* A version of the file stands for its bytes: byte i of version v is      *)
(* <<v, i>>, and the content type of version v is v.  sendFile runs no     *)
(* user code and is one step; what it answers is a function of the request *)
(* and the state, up to the choices named in Answers.                      *)
(***************************************************************************)
EXTENDS Integers

CONSTANTS
    Client,         \* those that ask for the file
    Inode,          \* inode numbers the file system gives and reuses
    Word,           \* 2^32: an int has this many values
    LongMax,        \* 2^63 - 1: the greatest long
    Number,         \* the numbers Range headers have in them
    MaxSize,        \* bound: bytes of a file
    MaxClock,       \* bound: seconds
    MaxVersion,     \* bound: versions of the file
    MaxDescriptors  \* file descriptors the process may open

ASSUME WordAssumption == Word \in Nat \ {0} /\ Word % 2 = 0
ASSUME LongAssumption == LongMax \in Nat /\ MaxSize < LongMax /\ Number \subseteq Nat
ASSUME FileBoundsAssumption ==
    /\ MaxSize \in Nat /\ MaxDescriptors \in Nat
    /\ MaxVersion \in Nat \ {0} /\ MaxClock \in Nat \ {0}
    /\ MaxClock < Word \div 2           \* not before 2038

VARIABLES
    clock,      \* seconds since the epoch
    file,       \* what the path leads to: version, size, mtime, inode
    types,      \* the mimetypes table: the content type found for an ETag
    descriptors,\* descriptors sendFile opened and nobody will close
    copy,       \* copy[c]: the version client c keeps, with its validators
    blurred     \* history: the file changed and its mtime did not advance

vars == <<clock, file, types, descriptors, copy, blurred>>

\* The paths that lead to no file, with the status of the answer.
Refusal == [bogus |-> 400, missing |-> 404, outside |-> 404, unreadable |-> 403,
            directory |-> 403]

NoCopy == [version |-> 0, etag |-> <<0, 0, 0>>, mtime |-> 0]
Broken == 0     \* an entry of the types table that is not a value

Init ==
    /\ clock = 1
    /\ file \in [version : {1}, size : 0..MaxSize, mtime : 0..1, inode : Inode]
    /\ types = << >>
    /\ descriptors = 0
    /\ copy = [c \in Client |-> NoCopy]
    /\ blurred = FALSE

-----------------------------------------------------------------------------
(* Conversions.                                                            *)

\* A long assigned to an int.
ToInt(n) == ((n + Word \div 2) % Word) - Word \div 2
\* An int printed with %x.
ToHex(n) == n % Word

\* Mutant: the time of the last change is not part of it.
ETagUndated(f) == <<f.inode, 0, ToHex(f.size)>>

ETag(f) == <<f.inode, ToHex(f.mtime), ToHex(f.size)>>

-----------------------------------------------------------------------------
(* The Range header: "first-last" of which either may be absent, and the   *)
(* bytes [from, to) sendFile makes of it.  Text that is no number counts   *)
(* as 0.  Without a '-' the array start is read up to a byte nobody wrote. *)

Absent == -1
Field == {Absent} \union Number
Whole == [form |-> "none", first |-> Absent, last |-> Absent]
Header == {Whole, [form |-> "undashed", first |-> Absent, last |-> Absent]}
          \union [form : {"dashed"}, first : Field, last : Field]

MAX(m, n) == IF m > n THEN m ELSE n
MIN(m, n) == IF m < n THEN m ELSE n
\* A number too great for a long counts as the greatest.
Atol(field) == IF field = Absent THEN 0 ELSE MIN(field, LongMax)

LongMin == -LongMax - 1
\* What compiled code may have of a sum or difference n of longs: n, and beyond a
\* long, where it is undefined, n wrapped or, where it is only compared, n still.
Long(n) ==
    IF LongMin <= n /\ n <= LongMax THEN {n}
    ELSE {n, ((n - LongMin) % (2 * (LongMax + 1))) + LongMin}

\* Mutant: the last byte asked for is left out.
DashedShort(h, size) ==
    CASE h.first = Absent -> {<<MAX(0, size - Atol(h.last)), size>>}
      [] h.first # Absent /\ h.last = Absent -> {<<Atol(h.first), size>>}
      [] OTHER -> {<<Atol(h.first), MIN(Atol(h.last), size)>>}

Dashed(h, size) ==
    CASE h.first = Absent -> {<<MAX(0, size - Atol(h.last)), size>>}
      [] h.first # Absent /\ h.last = Absent -> {<<Atol(h.first), size>>}
      [] OTHER -> {<<Atol(h.first), MIN(n, size)>> : n \in Long(Atol(h.last) + 1)}

\* The possible <<range_from, range_to>>, and with range_len.
Intervals(h, size) ==
    CASE h.form = "none"     -> {<<0, size>>}
      [] h.form = "dashed"   -> Dashed(h, size)
      [] h.form = "undashed" -> {<<Atol(n), size>> : n \in Number}
Ranges(h, size) ==
    UNION {{<<iv[1], iv[2], len>> : len \in Long(iv[2] - iv[1])} : iv \in Intervals(h, size)}

\* range_len <= 0 is answered 416, the whole file 200 and a part of it 206.
RangeStatus(r, size) ==
    CASE r[3] <= 0                -> 416
      [] r[3] > 0 /\ r[3] = size -> 200
      [] OTHER                    -> 206

ContentRange(r, size) == <<r[1], r[2], size>>

-----------------------------------------------------------------------------
(* The request and its answer.                                             *)

\* The validators are those of the client's copy; mimetype is whether the
\* application gave the content type.
Query == [head : BOOLEAN, validators : SUBSET {"etag", "date"},
          range : Header, mimetype : BOOLEAN]
\* Those that tell apart what does not depend on the range.
WholeQuery == {q \in Query : q.range = Whole}

Sensible(c, q) == copy[c] = NoCopy => q.validators = {}

\* If-None-Match, and If-Modified-Since when the ETag did not match.
NotModified(c, q) ==
    \/ "etag" \in q.validators /\ copy[c].etag = ETag(file)
    \/ (IF "date" \in q.validators THEN ToInt(copy[c].mtime) ELSE 0) >= file.mtime

\* Mutant: the type is kept under the inode.
TypeKeyInode(f) == <<f.inode, 0, 0>>
TypeKey(f) == ETag(f)

\* The content types sendFile may find: the one given, the one in the table,
\* or what finfo says, which may be nothing: it then throws, after it has put
\* a broken entry into the table.
FoundTypes(q) ==
    CASE q.mimetype                             -> {[type |-> file.version, new |-> FALSE]}
      [] ~q.mimetype /\ TypeKey(file) \in DOMAIN types
                                                -> {[type |-> types[TypeKey(file)], new |-> FALSE]}
      [] OTHER -> {[type |-> t, new |-> TRUE] : t \in {file.version, Broken}}

\* lost is whether the descriptor of the open file is left open: only
\* evbuffer_add_file takes it over.
Plain(status, lost) ==
    [status |-> status, body |-> <<0, 0>>, type |-> Broken, new |-> FALSE, lost |-> lost]
Typed(status, body, t, lost) ==
    [status |-> status, body |-> body, type |-> t.type, new |-> t.new, lost |-> lost]

\* A range is sent, and the descriptor with it; not so for sure when it is longer
\* than the file is.
Ranged(r, t) ==
    IF RangeStatus(r, file.size) = 416
    THEN {Typed(416, <<0, 0>>, t, TRUE)}
    ELSE {Typed(RangeStatus(r, file.size), <<r[1], r[2]>>, t, lost)
             : lost \in {FALSE, r[3] > file.size}}

\* What sendFile gets to once the file is open and its type known.
Content(c, q, t) ==
    CASE NotModified(c, q)             -> {Typed(304, <<0, 0>>, t, TRUE)}
      [] ~NotModified(c, q) /\ q.head  -> {Typed(200, <<0, 0>>, t, TRUE)}
      [] OTHER -> UNION {Ranged(r, t) : r \in Ranges(q.range, file.size)}

Answers(c, q) ==
    IF descriptors = MaxDescriptors
    THEN {Plain(500, FALSE)}
    ELSE UNION {IF t.new /\ t.type = Broken
                THEN {Typed(500, <<0, 0>>, t, TRUE)}
                ELSE Content(c, q, t) : t \in FoundTypes(q)}

-----------------------------------------------------------------------------
\* A client asks for the file, and keeps a whole one it was sent with its
\* validators.
SendFile(c, q) ==
    /\ Sensible(c, q)
    /\ \E a \in Answers(c, q) :
        /\ types' = IF a.new
                    THEN [k \in DOMAIN types \union {TypeKey(file)} |->
                            IF k = TypeKey(file) THEN a.type ELSE types[k]]
                    ELSE types
        /\ descriptors' = descriptors + (IF a.lost THEN 1 ELSE 0)
        /\ copy' = IF a.status = 200 /\ a.body # <<0, 0>>
                   THEN [copy EXCEPT ![c] = [version |-> file.version, etag |-> ETag(file),
                                             mtime |-> file.mtime]]
                   ELSE copy
    /\ UNCHANGED <<clock, file, blurred>>

\* A path that leads to no file: sendFile throws HTTPError, after it has opened
\* a directory.
Refuse(path) ==
    /\ \E a \in {IF path = "directory" /\ descriptors = MaxDescriptors THEN Plain(500, FALSE)
                 ELSE Plain(Refusal[path], path = "directory")} :
            descriptors' = descriptors + (IF a.lost THEN 1 ELSE 0)
    /\ UNCHANGED <<clock, file, types, copy, blurred>>

Tick ==
    /\ clock < MaxClock
    /\ clock' = clock + 1
    /\ UNCHANGED <<file, types, descriptors, copy, blurred>>

\* Another version is at the path: written in place, or moved there with the
\* inode and the time it already has.
Change(size, mtime, inode) ==
    /\ file.version < MaxVersion
    /\ mtime = clock \/ (inode # file.inode /\ mtime <= clock)
    /\ file' = [version |-> file.version + 1, size |-> size, mtime |-> mtime,
                inode |-> inode]
    /\ blurred' = (blurred \/ mtime <= file.mtime)
    /\ UNCHANGED <<clock, types, descriptors, copy>>

Next ==
    \/ \E c \in Client, q \in Query : SendFile(c, q)
    \/ \E path \in DOMAIN Refusal : Refuse(path)
    \/ Tick
    \/ \E size \in 0..MaxSize, mtime \in 0..MaxClock, inode \in Inode :
          Change(size, mtime, inode)

Spec == Init /\ [][Next]_vars

-----------------------------------------------------------------------------
(* Properties.                                                             *)

\* Whatever the client asks for now, it is told "not modified" only of the
\* version it keeps, as long as every change of the file advanced its mtime:
\* neither the ETag nor the date mistakes one version for another.  (To a file
\* dated at the epoch sendFile answers so to everybody: a client that sends no
\* date counts as one that sent 0.)
NotModifiedIsTrue ==
    \A c \in Client, q \in WholeQuery : Sensible(c, q) =>
        \A a \in Answers(c, q) : a.status = 304 =>
            copy[c].version = file.version \/ blurred \/ file.mtime = 0

\* The table of content types, which outlives the versions it was made from,
\* never gives a file the type of another version, except after an entry whose
\* look-up failed or a change that did not advance the mtime.
TypeIsOfVersion ==
    \A c \in Client, q \in WholeQuery : Sensible(c, q) =>
        \A a \in Answers(c, q) : a.status \in {200, 206, 304, 416} =>
            a.type \in {file.version, Broken} \/ blurred

\* The bytes of a file the comments in sendFile say a header asks for: the last
\* n, all from the first on, or first to last inclusive.
Selected(h, size) ==
    {i \in 0..(size - 1) :
        CASE h.form # "dashed"  -> TRUE
          [] h.form = "dashed" /\ h.first = Absent -> h.last # Absent /\ i >= size - h.last
          [] OTHER -> i >= h.first /\ (h.last # Absent => i <= h.last)}
Sent(r, size) == {i \in 0..(size - 1) : r[1] <= i /\ i < r[2]}

\* A last byte that has no successor in a long.
Overflows(h) == h.first # Absent /\ h.last >= LongMax

\* The status and the bytes agree with the header for every size: exactly the
\* bytes asked for, 206 when they are part of the file, 416 when there are none
\* (of an empty file there never are); for every number but a last one at the end
\* of a long, where adding one is undefined and usually ends in 416.
RangeServed(h, size) ==
    ~Overflows(h) => \A r \in Ranges(h, size) :
        LET status == RangeStatus(r, size)
        IN /\ h.form # "undashed" => Sent(r, size) = Selected(h, size)
           /\ status = 416 <=> Sent(r, size) = {}
           /\ status = 200 => Sent(r, size) = 0..(size - 1)
           /\ status = 206 => r[1] >= 0 /\ r[2] <= size /\ r[3] = r[2] - r[1]
BytesAreThoseAskedFor == \A h \in Header : RangeServed(h, file.size)

\* "bytes=100-200 -> bytes 100-200 (inclusive)": a range names its last byte,
\* so Content-Range does, too.
ContentRangeIsInclusive ==
    \A h \in Header : ~Overflows(h) => \A r \in Ranges(h, file.size) :
        RangeStatus(r, file.size) = 206 =>
            ContentRange(r, file.size) = <<r[1], r[2] - 1, file.size>>
=============================================================================
