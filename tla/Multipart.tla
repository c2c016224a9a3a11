------------------------------ MODULE Multipart ------------------------------
(***************************************************************************)
(* php_can_parse_multipart (multipart.c): the parts of a multipart body    *)
(* become the POST fields and the uploaded files of a request, with a      *)
(* temporary file for each upload that lives until the request object does *)
(* or the application moves it away.                                       *)
(*                                                                         *)
(* A part is what its text says to the parser: whether it names            *)
(* Content-Disposition, the key=value pairs between semicolons -- those of *)
(* the headers before that one, its own, and those of the text behind it,  *)
(* which the parser reads alike -- and how many bytes follow the blank     *)
(* line.  The content of a part is its position in the body.  Bodies whose *)
(* parts do not end in CRLF, which count too many bytes, are left out.     *)
(* A name may be a path; the disk is the files with "/phpcan" in theirs.   *)
(***************************************************************************)
EXTENDS Integers, Sequences, FiniteSetsExt

CONSTANTS
    Name,       \* names of fields and of files, the paths of files among them
    Base,       \* Base[n]: what is stored of a file name n that has directories
    Part,       \* the parts a body may have
    Temp,       \* names the system gives temporary files
    Other,      \* files of others on disk
    Limit,      \* values of the setting max_file_uploads
    MaxParts    \* bound: parts of a body

Absent == -1
NoName == "none"
Pair == [key : {"name", "filename"}, value : Name]

ASSUME PartAssumption ==
    /\ Part \subseteq [disposition : BOOLEAN,
                       before : Seq(Pair), own : Seq(Pair), other : Seq(Pair),
                       bytes : {Absent} \union {n \in Nat : n >= 2}]
    /\ Base \in [Name -> Name] /\ Temp \intersect Other = {}
    /\ Limit \subseteq Int
    /\ NoName \notin Name
    /\ MaxParts \in Nat

VARIABLES
    file_uploads,   \* the setting of that name
    upload_cnt,     \* the setting max_file_uploads, which nobody counts down
    phase,          \* "parsing", "handling" or "released"
    parts,          \* history: the parts parsed so far
    post,           \* the fields: name -> position of the part it is from
    files,          \* the uploads: sequence of [name, filename, tmp_name, part]
    anonindex,      \* number of the next upload without a name
    disk,           \* the files there are
    strays,         \* history: those whose writing failed
    moved           \* history: those the application took away

settings == <<file_uploads, upload_cnt>>
vars == <<settings, phase, parts, post, files, anonindex, disk, strays, moved>>

Init ==
    /\ file_uploads \in BOOLEAN
    /\ upload_cnt \in Limit
    /\ phase = "parsing"
    /\ parts = << >>
    /\ post = [n \in {} |-> 0]
    /\ files = << >>
    /\ anonindex = 0
    /\ disk = Other
    /\ strays = {}
    /\ moved = {}

-----------------------------------------------------------------------------
\* What getword and getword_conf find for a key: the last of the part.
Last(pairs, key) ==
    LET found == {i \in DOMAIN pairs : pairs[i].key = key}
    IN IF found = {} THEN NoName ELSE pairs[Max(found)].value

\* Mutant: a key that was found is not looked for again.
ParamFirst(part) ==
    LET pairs == part.before \o part.own \o part.other
        found == {i \in DOMAIN pairs : pairs[i].key = "name"}
    IN IF found = {} THEN NoName ELSE pairs[Min(found)].value

\* The parser begins behind the first ':' of the part, whatever header it is of.
Pairs(part) == part.before \o part.own \o part.other
Param(part) == Last(Pairs(part), "name")
Filename(part) == Last(Pairs(part), "filename")

\* A part is skipped when uploads are off, whatever it holds.
Skip == ~file_uploads \/ upload_cnt <= 0

ValueLen(part) == part.bytes - 2    \* the CRLF before the delimiter

Anonymous(n) == <<"anonymous", n>>
\* Mutant: the number is not advanced.
UploadNameAgain(part) == IF Param(part) = NoName THEN Anonymous(0) ELSE Param(part)

UploadName(part) == IF Param(part) = NoName THEN Anonymous(anonindex) ELSE Param(part)

\* The next part of the body; who holds what afterwards is each action's.
Reads(part) ==
    /\ phase = "parsing"
    /\ Len(parts) < MaxParts
    /\ parts' = Append(parts, part)
    /\ UNCHANGED <<settings, moved>>

-----------------------------------------------------------------------------
IgnorePart(part) ==
    /\ ~part.disposition \/ Skip
    /\ Reads(part)
    /\ UNCHANGED <<phase, post, files, anonindex, disk, strays>>

\* Neither name nor filename: what was parsed is kept, the rest of the body is not.
GarbledPart(part) ==
    /\ part.disposition /\ ~Skip
    /\ Param(part) = NoName /\ Filename(part) = NoName
    /\ Reads(part)
    /\ phase' = "handling"
    /\ UNCHANGED <<post, files, anonindex, disk, strays>>

FieldPart(part) ==
    /\ part.disposition /\ ~Skip
    /\ Param(part) # NoName /\ Filename(part) = NoName
    /\ Reads(part)
    /\ post' = IF part.bytes = Absent THEN post
               ELSE [n \in DOMAIN post \union {Param(part)} |->
                       IF n = Param(part) THEN Len(parts) + 1 ELSE post[n]]
    /\ UNCHANGED <<phase, files, anonindex, disk, strays>>

Upload(part, t) ==
    [name |-> UploadName(part), filename |-> Base[Filename(part)], tmp_name |-> t,
     part |-> Len(parts) + 1]

\* Mutant: the value of write is not looked at.
StoreUnchecked(part) ==
    \E t \in Temp \ (disk \union moved), written \in BOOLEAN :
        /\ disk' = disk \union {t}
        /\ strays' = IF written THEN strays ELSE strays \union {t}
        /\ files' = Append(files, Upload(part, t))

\* A temporary file, which is left behind when it cannot be written.
Store(part) ==
    \E t \in Temp \ (disk \union moved), written \in BOOLEAN :
        /\ disk' = disk \union {t}
        /\ strays' = IF written THEN strays ELSE strays \union {t}
        /\ files' = IF written THEN Append(files, Upload(part, t)) ELSE files

FilePart(part) ==
    /\ part.disposition /\ ~Skip
    /\ Filename(part) # NoName
    /\ Reads(part)
    /\ anonindex' = IF Param(part) = NoName THEN anonindex + 1 ELSE anonindex
    /\ \/ /\ part.bytes # Absent /\ ValueLen(part) > 0
          /\ Store(part)
       \/ UNCHANGED <<files, disk, strays>>     \* nothing in it, or no file for it
    /\ UNCHANGED <<phase, post>>

ParsePart(part) ==
    \/ IgnorePart(part)
    \/ GarbledPart(part)
    \/ FieldPart(part)
    \/ FilePart(part)

PartsEnd ==
    /\ phase = "parsing"
    /\ phase' = "handling"
    /\ UNCHANGED <<settings, parts, post, files, anonindex, disk, strays, moved>>

\* The application keeps an upload: it renames the temporary file.
MoveUpload(i) ==
    /\ phase = "handling"
    /\ files[i].tmp_name \in disk
    /\ disk' = disk \ {files[i].tmp_name}
    /\ moved' = moved \union {files[i].tmp_name}
    /\ UNCHANGED <<settings, phase, parts, post, files, anonindex, strays>>

\* The strings of an upload, which are names of files to unlink_filename.
Named(upload) == {upload.name, upload.filename, upload.tmp_name}

\* The request object is freed, its uploads with it and what they name: there is
\* nothing under the name of a file that was moved.
FreeFiles ==
    /\ phase = "handling"
    /\ phase' = "released"
    /\ disk' = disk \ UNION {Named(files[i]) : i \in DOMAIN files}
    /\ UNCHANGED <<settings, parts, post, files, anonindex, strays, moved>>

Next ==
    \/ \E part \in Part : ParsePart(part)
    \/ PartsEnd
    \/ \E i \in DOMAIN files : MoveUpload(i)
    \/ FreeFiles

Spec == Init /\ [][Next]_vars

-----------------------------------------------------------------------------
(* Properties.                                                             *)

\* Every temporary file on disk is one upload's that the application can find,
\* or one whose writing failed: none is listed twice, none is listed that is not
\* there unless the application moved it, and once the request is freed only
\* those that could not be written are left.  The files of others are there until
\* then; after it, all are but those a stored upload gives as its name or as its
\* file name, which go with it.  With uploads switched off, or a limit of none,
\* nothing changes on disk at all.
FilesAreOnDisk ==
    LET listed == {files[i].tmp_name : i \in DOMAIN files}
        given == {files[i].name : i \in DOMAIN files}
                   \union {files[i].filename : i \in DOMAIN files}
    IN /\ disk = IF phase = "released" THEN (strays \union Other) \ given
                 ELSE (listed \ moved) \union strays \union Other
       /\ listed \intersect strays = {}
       /\ Cardinality(listed) = Len(files)
       /\ ~file_uploads \/ upload_cnt <= 0 => disk = Other /\ moved = {}

\* A reader of the body, who takes the parameters from Content-Disposition and
\* nowhere else.
OwnField(part, n) ==
    /\ part.disposition /\ part.bytes # Absent
    /\ Last(part.own, "name") = n /\ Last(part.own, "filename") = NoName

\* What is no parameter of that header passes for one: text behind it that looks
\* like one, or one of an earlier header that it does not have itself.
Has(pairs, key) == \E i \in DOMAIN pairs : pairs[i].key = key
Misread(part) ==
    /\ part.disposition
    /\ \E key \in {"name", "filename"} :
          Has(part.other, key) \/ (Has(part.before, key) /\ ~Has(part.own, key))
NamesIn(part) ==
    {Pairs(part)[i].value : i \in {k \in DOMAIN Pairs(part) : Pairs(part)[k].key = "name"}}

\* With uploads allowed the fields are those of the body: each under the name
\* its part gives, a name given twice with the last content, up to a part the
\* parser gives up at.  A part whose text is misread can add, hide and overwrite
\* fields of the names that are in it, and no other.
PostIsWhatWasSent ==
    file_uploads /\ upload_cnt > 0 =>
        \A n \in Name :
            (\A i \in DOMAIN parts : Misread(parts[i]) => n \notin NamesIn(parts[i])) =>
                LET giving == {i \in DOMAIN parts : OwnField(parts[i], n)}
                IN /\ n \in DOMAIN post <=> giving # {}
                   /\ n \in DOMAIN post => post[n] = Max(giving)

\* The uploads are listed in the order of their parts, each under the name of
\* its part, and uploads without a name under numbers no other of them has.
UploadsKeepTheirPlace ==
    \A i \in DOMAIN files :
        LET part == parts[files[i].part]
        IN /\ files[i].filename # NoName
           /\ Last(part.own, "name") # NoName /\ ~Misread(part) =>
                files[i].name = Last(part.own, "name")
           /\ \A j \in DOMAIN files : i < j =>
                /\ files[i].part < files[j].part
                /\ files[i].name \notin Name => files[i].name # files[j].name
=============================================================================
