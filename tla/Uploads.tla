------------------------------ MODULE Uploads ------------------------------
(***************************************************************************)
(* The abuse controls of CourseService in front of an upload: uploads per  *)
(* hour, bytes per user, no file twice.  Each is a look at rows that the   *)
(* upload itself, and any other that is under way, writes only later.      *)
(*                                                                         *)
(* One owner.  An action is one statement of a request; what becomes of a  *)
(* course once it is enqueued is in CourseLifecycle.  A request that dies, *)
(* or whose statement throws outside a handler, is one that ends.          *)
(***************************************************************************)
EXTENDS Naturals, FiniteSets, Functions

CONSTANTS
    Courses,                \* ids of course rows
    Files,                  \* contents, told apart by their hash
    Bytes,                  \* size of each file
    Requests,               \* bound: uploads of the owner at one time
    MaxUploadsPerHour,      \* MAX_UPLOADS_PER_HOUR
    MaxUserBytes,           \* MAX_USER_STORAGE_BYTES
    MaxFileBytes,           \* UPLOAD_MAX_BYTES
    NoFile, NoCourse

ASSUME UploadsAssumption ==
    /\ IsFiniteSet(Courses) /\ IsFiniteSet(Requests) /\ Requests # {}
    /\ MaxUploadsPerHour \in Nat /\ MaxUserBytes \in Nat /\ MaxFileBytes \in Nat
    /\ Bytes \in [Files -> 1..MaxFileBytes]
    /\ NoFile \notin Files /\ NoCourse \notin Courses

VARIABLES
    row,            \* each course: no row, created within the hour, or before
    doc,            \* its source document, if it has a size: size and hash,
                    \* and whether the size is the one the quota has seen
    req             \* the uploads under way

vars == <<row, doc, req>>

-----------------------------------------------------------------------------
Doc == [size : 0..MaxFileBytes, file : Files \cup {NoFile}, seen : BOOLEAN]
NoDoc == [size |-> 0, file |-> NoFile, seen |-> TRUE]

Controls == {"rate", "quota", "hash"}
Upload == [pc : {"idle", "check", "document", "enqueue", "undoDocument", "undoCourse"},
           todo : SUBSET Controls, size : 0..MaxFileBytes, file : Files \cup {NoFile},
           course : Courses \cup {NoCourse}]
Idle == [pc |-> "idle", todo |-> {}, size |-> 0, file |-> NoFile, course |-> NoCourse]

TypeOK ==
    /\ row \in [Courses -> {"none", "recent", "old"}]
    /\ doc \in [Courses -> Doc]
    /\ req \in [Requests -> Upload]

Init ==
    /\ row = [c \in Courses |-> "none"]
    /\ doc = [c \in Courses |-> NoDoc]
    /\ req = [r \in Requests |-> Idle]

-----------------------------------------------------------------------------
At(r, pc) == req[r].pc = pc
Become(r, next) == req' = [req EXCEPT ![r] = next]
Goto(r, pc) == Become(r, [req[r] EXCEPT !.pc = pc])
Pass(r, control) == Become(r, [req[r] EXCEPT !.todo = @ \ {control}])

Recent == {c \in Courses : row[c] = "recent"}
Copies(f) == {c \in Courses : doc[c].file = f}
Size == [c \in Courses |-> doc[c].size]
UsedBytes == SumFunctionOnSet(Size, Courses)

\* A multipart upload, with its bytes.
CreateUpload(r) ==
    /\ At(r, "idle")
    /\ \E f \in Files :
          Become(r, [Idle EXCEPT !.pc = "check", !.todo = Controls,
                                 !.size = Bytes[f], !.file = f])
    /\ UNCHANGED <<row, doc>>

\* A presigned upload declares a size, and has no bytes to hash.
PresignUpload(r) ==
    /\ At(r, "idle")
    /\ \E n \in 1..MaxFileBytes :
          Become(r, [Idle EXCEPT !.pc = "check", !.todo = {"rate", "quota"}, !.size = n])
    /\ UNCHANGED <<row, doc>>

\* Mutant: one upload more.
CountUploadsOneMore(r) ==
    /\ At(r, "check") /\ "rate" \in req[r].todo
    /\ IF Cardinality(Recent) > MaxUploadsPerHour THEN Become(r, Idle) ELSE Pass(r, "rate")
    /\ UNCHANGED <<row, doc>>

\* assertUploadAllowed: two statements at once, so in any order.
CountUploads(r) ==
    /\ At(r, "check") /\ "rate" \in req[r].todo
    /\ IF Cardinality(Recent) >= MaxUploadsPerHour THEN Become(r, Idle) ELSE Pass(r, "rate")
    /\ UNCHANGED <<row, doc>>

\* Mutant: the incoming bytes are not counted.
SumUsageBefore(r) ==
    /\ At(r, "check") /\ "quota" \in req[r].todo
    /\ IF UsedBytes > MaxUserBytes THEN Become(r, Idle) ELSE Pass(r, "quota")
    /\ UNCHANGED <<row, doc>>

SumUsage(r) ==
    /\ At(r, "check") /\ "quota" \in req[r].todo
    /\ IF UsedBytes + req[r].size > MaxUserBytes THEN Become(r, Idle) ELSE Pass(r, "quota")
    /\ UNCHANGED <<row, doc>>

\* Mutant: only a course of the last hour is a duplicate.
FindDuplicateRecent(r) ==
    /\ At(r, "check") /\ req[r].todo = {"hash"}
    /\ IF Copies(req[r].file) \cap Recent # {} THEN Become(r, Idle) ELSE Pass(r, "hash")
    /\ UNCHANGED <<row, doc>>

\* The hash of a multipart upload is looked up once both are answered.
FindDuplicate(r) ==
    /\ At(r, "check") /\ req[r].todo = {"hash"}
    /\ IF Copies(req[r].file) # {} THEN Become(r, Idle) ELSE Pass(r, "hash")
    /\ UNCHANGED <<row, doc>>

\* Ids are never used again; here, not while a request holds them.
CreateCourse(r) ==
    /\ At(r, "check") /\ req[r].todo = {}
    /\ \E c \in Courses :
          /\ row[c] = "none" /\ \A q \in Requests : req[q].course # c
          /\ row' = [row EXCEPT ![c] = "recent"]
          /\ Become(r, [req[r] EXCEPT !.pc = "document", !.course = c])
    /\ UNCHANGED doc

\* The document of a course that is still there; else, or when the file
\* cannot be moved, the course is taken back.
CreateDocument(r) == LET c == req[r].course IN
    /\ At(r, "document")
    /\ \/ /\ row[c] # "none"
          /\ doc' = [doc EXCEPT ![c] = [size |-> req[r].size, file |-> req[r].file, seen |-> TRUE]]
          /\ Goto(r, "enqueue")
       \/ Goto(r, "undoCourse") /\ UNCHANGED doc
    /\ UNCHANGED row

\* The ingestion job is added, or the url for the bytes signed; or neither,
\* and document and course are taken back.
Enqueue(r) ==
    /\ At(r, "enqueue")
    /\ Become(r, Idle) \/ Goto(r, "undoDocument")
    /\ UNCHANGED <<row, doc>>

\* Each deletion may fail, and nobody looks.
UndoDocument(r) == LET c == req[r].course IN
    /\ At(r, "undoDocument")
    /\ doc' = [doc EXCEPT ![c] = NoDoc] \/ UNCHANGED doc
    /\ Goto(r, "undoCourse")
    /\ UNCHANGED row

\* A course with a document is refused by the foreign key.
UndoCourse(r) == LET c == req[r].course IN
    /\ At(r, "undoCourse")
    /\ \/ doc[c] = NoDoc /\ row' = [row EXCEPT ![c] = "none"]
       \/ UNCHANGED row
    /\ Become(r, Idle)
    /\ UNCHANGED doc

\* A confirmation stores the size found under the key, which is within the
\* limit of a file; the quota is not asked again.
ConfirmUpload(c) ==
    /\ doc[c] # NoDoc /\ doc[c].file = NoFile
    /\ \E n \in 1..MaxFileBytes :
          doc' = [doc EXCEPT ![c].size = n, ![c].seen = FALSE]
    /\ UNCHANGED <<row, req>>

\* deleteCourse, or the sweep of failed courses.
DestroyCourse(c) ==
    /\ row[c] # "none"
    /\ row' = [row EXCEPT ![c] = "none"]
    /\ doc' = [doc EXCEPT ![c] = NoDoc]
    /\ UNCHANGED req

\* The hour of a course is over.
Age(c) ==
    /\ row[c] = "recent"
    /\ row' = [row EXCEPT ![c] = "old"]
    /\ UNCHANGED <<doc, req>>

Die(r) ==
    /\ req[r] # Idle
    /\ Become(r, Idle)
    /\ UNCHANGED <<row, doc>>

Next ==
    \/ \E r \in Requests :
          \/ CreateUpload(r) \/ PresignUpload(r)
          \/ CountUploads(r) \/ SumUsage(r) \/ FindDuplicate(r)
          \/ CreateCourse(r) \/ CreateDocument(r) \/ Enqueue(r)
          \/ UndoDocument(r) \/ UndoCourse(r) \/ Die(r)
    \/ \E c \in Courses : ConfirmUpload(c) \/ DestroyCourse(c) \/ Age(c)

Spec == Init /\ [][Next]_vars

-----------------------------------------------------------------------------
(* Properties: an upload that overlaps others may pass a control that is   *)
(* used up, but each of them only once.                                    *)

Others == Cardinality(Requests) - 1

\* MAX_UPLOADS_PER_HOUR (assertUploadAllowed): the courses of an hour exceed
\* the limit by the uploads that overlap another one, at most.
HourlyUploadsBounded == Cardinality(Recent) <= MaxUploadsPerHour + Others

\* MAX_USER_STORAGE_BYTES (assertUploadAllowed): documents whose size is the
\* one that was checked exceed the quota by a file for each overlapping upload,
\* at most.  Confirmed ones count with whatever size they turned out to have.
StorageBounded ==
    SumFunctionOnSet(Size, {c \in Courses : doc[c].seen})
        <= MaxUserBytes + MaxFileBytes * Others

\* "Same content hash under this user = same ingestion cost paid twice": a file
\* is stored once, and once more for each upload that overlaps, at most; what
\* is presigned has no hash.
DuplicatesBounded == \A f \in Files : Cardinality(Copies(f)) <= 1 + Others
=============================================================================
