--------------------------- MODULE CourseLifecycle ---------------------------
(***************************************************************************)
(* The life of a course in the StudyStack API: the request handlers of     *)
(* CourseService, the recovery sweeps of CourseMaintenanceService, and the *)
(* ingestion and structuring workers, sharing one PostgreSQL database and  *)
(* the two BullMQ queues.  One action is one database statement,           *)
(* transaction or queue call; handlers interleave at every await.          *)
(*                                                                         *)
(* Documents are of the pageless kinds (.docx, .txt, .md); the page        *)
(* windows of a PDF are the subject of module IngestionRun.                *)
(***************************************************************************)
EXTENDS Naturals, FiniteSets

CONSTANTS
    Courses,            \* course ids; each id is created at most once
    Requests,           \* slots for the HTTP requests in flight
    MaxRec,             \* bound: live reconcile jobs of a course in one queue
    MaxFaults,          \* bound: crashes, outages, transient errors, and
                        \* repeated uploads and confirmations
    Uploads,            \* the kinds of contents that learners upload
    Ops,                \* bound: the client operations that take part
    NullStatusPending,  \* does `extractionStatus NOT IN (...)` match NULL?
    NoJob               \* the worker holds no job

ASSUME ConstantsAssumption ==
    /\ MaxRec \in Nat
    /\ Uploads \subseteq {"good", "thin", "corrupt", "oversize", "alien"}
    /\ Ops \subseteq {"upload", "presign", "topic", "confirm", "intake", "half",
                      "study", "delete"}
    /\ MaxFaults \in Nat
    /\ NullStatusPending \in BOOLEAN

VARIABLES
    (* the course row *)
    status, stage,      \* Course.status and Course.ingestionStage
    intake,             \* goal and level: none, one half, or both recorded
    (* what belongs to the course *)
    doc,                \* extractionStatus of its source document
    bytes,              \* what storage holds under the document's key
    presigned,          \* does the browser hold a presigned PUT url?
    chunks,             \* the source chunks extracted so far
    struct,             \* its modules, subtopics and concept links
    used,               \* do learner rows reference its subtopics?
    (* Redis *)
    ingestQ, structQ,   \* jobs waiting (or delayed) in the two queues
    spent,              \* base job ids that linger as completed or failed
    redisUp,
    (* the ingestion worker and the structuring worker *)
    ipc, ijob, imem,
    spc, sjob,
    (* the API process *)
    req,                \* the requests in flight
    sweep,              \* per course, what an admin sweep has decided to do
    faults              \* faults still allowed

rowVars    == <<status, stage, intake>>
outVars    == <<doc, bytes, presigned, chunks, struct, used>>
queueVars  == <<ingestQ, structQ, spent>>
ingestVars == <<ipc, ijob, imem>>
buildVars  == <<spc, sjob>>
apiVars    == <<req, sweep>>
envVars    == <<redisUp, faults>>
vars == <<status, stage, intake, doc, bytes, presigned,
          chunks, struct, used,
          ingestQ, structQ, spent, redisUp, ipc, ijob, imem, spc, sjob,
          req, sweep, faults>>

-----------------------------------------------------------------------------
(* Types.                                                                  *)

Statuses == {"unborn", "ingesting", "intake_pending", "structuring",
             "ready", "failed", "deleted"}
\* "other" stands for NULL, "embedding" and "structuring".
Stages   == {"awaiting-upload", "queued", "other"}
\* "none": no document row; "null": the row's status is NULL.
DocStatuses == {"none", "null", "awaiting_upload", "ready", "failed"}
\* good: parses into usable text; thin: parses into headings without bodies
\* only; corrupt: recognised by its magic bytes, refused by the parser;
\* oversize: over the size cap or an archive bomb; alien: not recognised.
Contents == {"good", "thin", "corrupt", "oversize", "alien"}

\* id 0 is the base id `ingest:<course>` or `structure:<course>`; the others
\* stand for the fresh `<base>:rec-<now>` ids of the reconcile sweep.
Job == [c : Courses, id : 0..MaxRec, made : 0..1]

IngestPcs == {"idle", "scan", "load", "commit", "finalize", "count", "embed",
              "converge", "enqueue", "tally", "fail", "throw", "finish"}
StructPcs == {"idle", "read", "wipe", "build", "link", "ready", "error",
              "throw", "finish"}
UploadPcs == {"upload-doc", "upload-add", "presign-doc", "topic-add",
              "undo-doc", "undo-course"}
RequestPcs == UploadPcs \cup
              {"idle", "confirm-check", "confirm-fail", "confirm-reset",
               "confirm-course", "confirm-add",
               "intake-flip", "intake-note", "intake-add", "intake-revert"}
Request == [pc : RequestPcs, c : Courses]

RowsOK ==
    /\ status \in [Courses -> Statuses]
    /\ stage \in [Courses -> Stages]
    /\ intake \in [Courses -> {"none", "half", "full"}]
OutOK ==
    /\ doc \in [Courses -> DocStatuses]
    /\ bytes \in [Courses -> Contents \cup {"absent"}]
    /\ presigned \in [Courses -> BOOLEAN]
    /\ chunks \in [Courses -> {"none", "thin", "usable"}]
    /\ struct \in [Courses -> {"none", "partial", "complete"}]
    /\ used \in [Courses -> BOOLEAN]
QueuesOK ==
    /\ ingestQ \in SUBSET Job
    /\ structQ \in SUBSET Job
    /\ spent \in SUBSET ({"ingest", "structure"} \X Courses)
WorkersOK ==
    /\ ipc \in IngestPcs
    /\ ijob \in Job \cup {NoJob}
    /\ ipc # "idle" => ijob \in Job
    /\ imem \in {"none", "good", "thin", "corrupt", "intake"}
    /\ spc \in StructPcs
    /\ sjob \in Job \cup {NoJob}
    /\ spc # "idle" => sjob \in Job
ApiOK ==
    /\ req \in [Requests -> Request]
    /\ sweep \in [Courses -> {"none", "ingest", "structure", "destroy"}]
    /\ redisUp \in BOOLEAN
    /\ faults \in 0..MaxFaults

TypeOK == RowsOK /\ OutOK /\ QueuesOK /\ WorkersOK /\ ApiOK

Init ==
    /\ status = [c \in Courses |-> "unborn"]
    /\ stage = [c \in Courses |-> "other"]
    /\ intake = [c \in Courses |-> "none"]
    /\ doc = [c \in Courses |-> "none"]
    /\ bytes = [c \in Courses |-> "absent"]
    /\ presigned = [c \in Courses |-> FALSE]
    /\ chunks = [c \in Courses |-> "none"]
    /\ struct = [c \in Courses |-> "none"]
    /\ used = [c \in Courses |-> FALSE]
    /\ ingestQ = {} /\ structQ = {} /\ spent = {} /\ redisUp = TRUE
    /\ ipc = "idle" /\ ijob = NoJob /\ imem = "none"
    /\ spc = "idle" /\ sjob = NoJob
    /\ \E c \in Courses :
          req = [r \in Requests |-> [pc |-> "idle", c |-> c]]
    /\ sweep = [c \in Courses |-> "none"]
    /\ faults = MaxFaults

-----------------------------------------------------------------------------
(* Database rows and queue calls.                                          *)

Exists(c) == status[c] \notin {"unborn", "deleted"}

\* An UPDATE of the course row's status and stage.
SetCourse(c, newStatus, newStage) ==
    /\ status' = [status EXCEPT ![c] = newStatus]
    /\ stage' = [stage EXCEPT ![c] = newStage]
    /\ UNCHANGED intake

\* setStage of both workers: an UPDATE that swallows "row not found".
SetStage(c, newStage) ==
    IF Exists(c) THEN SetCourse(c, status[c], newStage) ELSE UNCHANGED rowVars

\* Mutant: the chunks are forgotten.
EraseCourseKeepsChunks(c) ==
    /\ status' = [status EXCEPT ![c] = "deleted"]
    /\ stage' = [stage EXCEPT ![c] = "other"]
    /\ intake' = [intake EXCEPT ![c] = "none"]
    /\ doc' = [doc EXCEPT ![c] = "none"]
    /\ bytes' = [bytes EXCEPT ![c] = "absent"]
    /\ presigned' = [presigned EXCEPT ![c] = FALSE]
    /\ struct' = [struct EXCEPT ![c] = "none"]
    /\ used' = [used EXCEPT ![c] = FALSE]
    /\ UNCHANGED chunks

\* Every row of the course goes, in one transaction; its files follow.
EraseCourse(c) ==
    /\ status' = [status EXCEPT ![c] = "deleted"]
    /\ stage' = [stage EXCEPT ![c] = "other"]
    /\ intake' = [intake EXCEPT ![c] = "none"]
    /\ doc' = [doc EXCEPT ![c] = "none"]
    /\ bytes' = [bytes EXCEPT ![c] = "absent"]
    /\ presigned' = [presigned EXCEPT ![c] = FALSE]
    /\ chunks' = [chunks EXCEPT ![c] = "none"]
    /\ struct' = [struct EXCEPT ![c] = "none"]
    /\ used' = [used EXCEPT ![c] = FALSE]

IntakeRecorded(c) == intake[c] = "full"

NewJob(c, i) == [c |-> c, id |-> i, made |-> 0]
\* Mutant: the reconcile sweep asks for one attempt too many.
AttemptsOneMore(kind, job) == IF kind = "ingest" /\ job.id = 0 THEN 1 ELSE 3
Attempts(kind, job) == IF kind = "ingest" /\ job.id = 0 THEN 1 ELSE 2

IngestJobs == ingestQ \cup (IF ipc = "idle" THEN {} ELSE {ijob})
StructJobs == structQ \cup (IF spc = "idle" THEN {} ELSE {sjob})
BaseLive(jobs, c) == \E job \in jobs : job.c = c /\ job.id = 0

\* Queue.add under the base id: BullMQ ignores an id it still knows.
AddIngest(c) ==
    ingestQ' = IF BaseLive(IngestJobs, c) \/ <<"ingest", c>> \in spent
               THEN ingestQ ELSE ingestQ \cup {NewJob(c, 0)}
AddStruct(c) ==
    structQ' = IF BaseLive(StructJobs, c) \/ <<"structure", c>> \in spent
               THEN structQ ELSE structQ \cup {NewJob(c, 0)}

\* A job that completed or failed for good leaves its id behind.
Spend(kind, job) ==
    spent' = IF job.id = 0 THEN spent \cup {<<kind, job.c>>} ELSE spent

\* Documents a job would work on (`notIn: ["ready", "failed"]`).
Pending(c) == \/ doc[c] = "awaiting_upload"
              \/ doc[c] = "null" /\ NullStatusPending

-----------------------------------------------------------------------------
(* Requests.  Goto leaves a handler at its next await, Answer ends it.     *)

Goto(r, pc) == req' = [req EXCEPT ![r].pc = pc]
Answer(r) == req' = [req EXCEPT ![r].pc = "idle"]
At(r, pc) == req[r].pc = pc

\* A handler starts on course c; pc keeps what its first read found.
Open(r, c, pc) ==
    /\ At(r, "idle")
    /\ req' = [req EXCEPT ![r] = [pc |-> pc, c |-> c]]

(* createUploadCourse: course row, document row, queue.add, or roll back.  *)
UploadCourse(r, c) ==
    /\ status[c] = "unborn"
    /\ Open(r, c, "upload-doc")
    /\ SetCourse(c, "ingesting", "queued")
    /\ UNCHANGED <<outVars, queueVars, ingestVars, buildVars, sweep, envVars>>

UploadDocument(r) == LET c == req[r].c IN
    /\ At(r, "upload-doc")
    /\ IF Exists(c)
       THEN /\ doc' = [doc EXCEPT ![c] = "null"]
            /\ \E b \in Uploads \cap {"good", "thin", "corrupt"} :
                  bytes' = [bytes EXCEPT ![c] = b]
            /\ Goto(r, "upload-add")
            /\ UNCHANGED <<presigned, chunks, struct, used>>
       ELSE Goto(r, "undo-course") /\ UNCHANGED outVars
    /\ UNCHANGED <<rowVars, queueVars, ingestVars, buildVars, sweep, envVars>>

UploadEnqueue(r) == LET c == req[r].c IN
    /\ At(r, "upload-add")
    /\ \/ redisUp /\ AddIngest(c) /\ Answer(r)
       \/ ~redisUp /\ Goto(r, "undo-doc") /\ UNCHANGED ingestQ
    /\ UNCHANGED <<rowVars, outVars, structQ, spent, ingestVars, buildVars,
                   sweep, envVars>>

\* The two best-effort deletes of the roll-back.
UndoDocument(r) == LET c == req[r].c IN
    /\ At(r, "undo-doc")
    /\ doc' = [doc EXCEPT ![c] = "none"]
    /\ bytes' = [bytes EXCEPT ![c] = "absent"]
    /\ Goto(r, "undo-course")
    /\ UNCHANGED <<rowVars, presigned, chunks, struct, used, queueVars,
                   ingestVars, buildVars, sweep, envVars>>

UndoCourse(r) == LET c == req[r].c IN
    /\ At(r, "undo-course")
    /\ IF Exists(c) THEN EraseCourse(c) ELSE UNCHANGED <<rowVars, outVars>>
    /\ Answer(r)
    /\ UNCHANGED <<queueVars, ingestVars, buildVars, sweep, envVars>>

(* presignUpload: the rows are reserved before any byte moves.             *)
PresignCourse(r, c) ==
    /\ status[c] = "unborn"
    /\ Open(r, c, "presign-doc")
    /\ SetCourse(c, "ingesting", "awaiting-upload")
    /\ UNCHANGED <<outVars, queueVars, ingestVars, buildVars, sweep, envVars>>

PresignDocument(r) == LET c == req[r].c IN
    /\ At(r, "presign-doc")
    /\ IF Exists(c)
       THEN /\ doc' = [doc EXCEPT ![c] = "awaiting_upload"]
            /\ presigned' = [presigned EXCEPT ![c] = TRUE]
            /\ Answer(r)
            /\ UNCHANGED <<bytes, chunks, struct, used>>
       ELSE Goto(r, "undo-doc") /\ UNCHANGED outVars
    /\ UNCHANGED <<rowVars, queueVars, ingestVars, buildVars, sweep, envVars>>

\* The browser PUTs to storage, out of band.  Replacing what is there, which
\* the url allows until it expires, is paid from the budget of faults.
PutBytes(c) ==
    /\ presigned[c]
    /\ IF bytes[c] = "absent" THEN UNCHANGED faults
       ELSE faults > 0 /\ faults' = faults - 1
    /\ \E b \in Uploads : bytes' = [bytes EXCEPT ![c] = b]
    /\ UNCHANGED <<rowVars, doc, presigned, chunks, struct, used, queueVars,
                   ingestVars, buildVars, apiVars, redisUp>>

(* confirmUpload.  On a course that is ingesting and past the upload it     *)
(* returns at once and changes nothing; on one in any other status it starts *)
(* over (a repetition, paid from the budget of faults).                    *)
ConfirmUpload(r, c) ==
    /\ Exists(c)
    /\ \/ stage[c] = "awaiting-upload" /\ UNCHANGED faults
       \/ /\ stage[c] # "awaiting-upload" /\ status[c] # "ingesting"
          /\ faults > 0 /\ faults' = faults - 1
    /\ Open(r, c, "confirm-check")
    /\ UNCHANGED <<rowVars, outVars, queueVars, ingestVars, buildVars, sweep, redisUp>>

\* confirmUploadInner up to its first write: a missing or mislabelled object
\* answers 400.
ConfirmCheck(r) == LET c == req[r].c IN
    /\ At(r, "confirm-check")
    /\ \/ /\ doc[c] = "none" \/ bytes[c] \in {"absent", "alien"}
          /\ Answer(r)
       \/ /\ doc[c] # "none" /\ bytes[c] = "oversize"
          /\ Goto(r, "confirm-fail")
       \/ /\ doc[c] # "none" /\ bytes[c] \in {"good", "thin", "corrupt"}
          /\ Goto(r, "confirm-reset")
    /\ UNCHANGED <<rowVars, outVars, queueVars, ingestVars, buildVars, sweep, envVars>>

\* An oversize object fails document and course, in one transaction.
ConfirmFail(r) == LET c == req[r].c IN
    /\ At(r, "confirm-fail")
    /\ IF Exists(c)
       THEN /\ doc' = [doc EXCEPT ![c] = IF @ = "none" THEN @ ELSE "failed"]
            /\ SetCourse(c, "failed", stage[c])
       ELSE UNCHANGED <<rowVars, doc>>
    /\ Answer(r)
    /\ UNCHANGED <<bytes, presigned, chunks, struct, used, queueVars, ingestVars,
                   buildVars, sweep, envVars>>

\* One that passes resets the document; updateMany is content to find none.
ConfirmReset(r) == LET c == req[r].c IN
    /\ At(r, "confirm-reset")
    /\ doc' = [doc EXCEPT ![c] = IF @ = "none" THEN @ ELSE "null"]
    /\ Goto(r, "confirm-course")
    /\ UNCHANGED <<rowVars, bytes, presigned, chunks, struct, used, queueVars, ingestVars,
                   buildVars, sweep, envVars>>

\* Mutant: an upsert instead of an update.
ConfirmCourseUpsert(r) == LET c == req[r].c IN
    /\ At(r, "confirm-course")
    /\ SetCourse(c, "ingesting", "queued") /\ Goto(r, "confirm-add")
    /\ UNCHANGED <<outVars, queueVars, ingestVars, buildVars, sweep, envVars>>

ConfirmCourse(r) == LET c == req[r].c IN
    /\ At(r, "confirm-course")
    /\ IF Exists(c)
       THEN SetCourse(c, "ingesting", "queued") /\ Goto(r, "confirm-add")
       ELSE Answer(r) /\ UNCHANGED rowVars
    /\ UNCHANGED <<outVars, queueVars, ingestVars, buildVars, sweep, envVars>>

ConfirmEnqueue(r) == LET c == req[r].c IN
    /\ At(r, "confirm-add")
    /\ IF redisUp THEN AddIngest(c)
       ELSE UNCHANGED ingestQ              \* 503 "retry confirmation shortly"
    /\ Answer(r)
    /\ UNCHANGED <<rowVars, outVars, structQ, spent, ingestVars, buildVars,
                   sweep, envVars>>

(* createTopicCourse.  The research job it queues is a stub that touches   *)
(* nothing, so only the add's success matters.                             *)
TopicCourse(r, c) ==
    /\ status[c] = "unborn"
    /\ Open(r, c, "topic-add")
    /\ SetCourse(c, "ingesting", "other")
    /\ UNCHANGED <<outVars, queueVars, ingestVars, buildVars, sweep, envVars>>

TopicEnqueue(r) ==
    /\ At(r, "topic-add")
    /\ IF redisUp THEN Answer(r) ELSE Goto(r, "undo-course")
    /\ UNCHANGED <<rowVars, outVars, queueVars, ingestVars, buildVars, sweep,
                   envVars>>

(* updateIntake: whether to start structuring is decided on the row read   *)
(* first, and acted upon in the write that follows.                        *)
UpdateIntake(r, c) ==
    /\ Exists(c)
    /\ Open(r, c, IF status[c] = "intake_pending" THEN "intake-flip" ELSE "intake-note")
    /\ UNCHANGED <<rowVars, outVars, queueVars, ingestVars, buildVars, sweep, envVars>>

IntakeWrite(r) == LET c == req[r].c  flip == At(r, "intake-flip") IN
    /\ flip \/ At(r, "intake-note")
    /\ IF Exists(c)
       THEN /\ intake' = [intake EXCEPT ![c] = "full"]
            /\ status' = [status EXCEPT ![c] = IF flip THEN "structuring" ELSE @]
            /\ stage' = [stage EXCEPT ![c] = IF flip THEN "other" ELSE @]
            /\ IF flip THEN Goto(r, "intake-add") ELSE Answer(r)
       ELSE Answer(r) /\ UNCHANGED rowVars
    /\ UNCHANGED <<outVars, queueVars, ingestVars, buildVars, sweep, envVars>>

IntakeEnqueue(r) ==
    /\ At(r, "intake-add")
    /\ \/ redisUp /\ AddStruct(req[r].c) /\ Answer(r)
       \/ ~redisUp /\ Goto(r, "intake-revert") /\ UNCHANGED structQ
    /\ UNCHANGED <<rowVars, outVars, ingestQ, spent, ingestVars, buildVars,
                   sweep, envVars>>

IntakeRevert(r) == LET c == req[r].c IN
    /\ At(r, "intake-revert")
    /\ IF Exists(c) THEN SetCourse(c, "intake_pending", "other")
       ELSE UNCHANGED rowVars
    /\ Answer(r)
    /\ UNCHANGED <<outVars, queueVars, ingestVars, buildVars, sweep, envVars>>

\* updateGoal and updateLevel record one half of the intake (a half already
\* there is overwritten, or found equal) and do no more.
UpdateHalf(c) ==
    /\ Exists(c) /\ intake[c] # "full"
    /\ intake' = [intake EXCEPT ![c] = IF @ = "none" THEN "half" ELSE "full"]
    /\ UNCHANGED <<status, stage, outVars, queueVars, ingestVars, buildVars,
                   apiVars, envVars>>

\* A learner's first tutorial, completion or quiz row in a structured course:
\* from then on the foreign keys of its subtopics are RESTRICT.
Study(c) ==
    /\ struct[c] # "none" /\ ~used[c]
    /\ used' = [used EXCEPT ![c] = TRUE]
    /\ UNCHANGED <<rowVars, doc, bytes, presigned, chunks, struct, queueVars,
                   ingestVars, buildVars, apiVars, envVars>>

\* deleteCourse -> destroyCourse.  Its counts and id lists are read before the
\* transaction, but a row inserted in between makes the transaction abort on
\* the foreign keys, so it erases everything at once or nothing at all; a
\* refusal (409, or the abort) changes nothing.
DeleteCourse(c) ==
    /\ Exists(c)
    /\ EraseCourse(c)
    /\ UNCHANGED <<queueVars, ingestVars, buildVars, apiVars, envVars>>

-----------------------------------------------------------------------------
(* The admin sweeps: a list is read, then each course is acted upon.       *)

\* The list takes courses whose row has not been updated for 30 minutes, which
\* may be so at any time except while an upload request is creating the rows:
\* that much faster is an upload request.
Uploading(c) == \E r \in Requests : req[r].c = c /\ req[r].pc \in UploadPcs

\* Mutant: only courses in structuring count as stuck.
ReconcileListNotIngesting(c) ==
    /\ sweep[c] = "none" /\ MaxRec > 0 /\ ~Uploading(c)
    /\ \/ status[c] = "structuring"
       \/ status[c] = "intake_pending" /\ IntakeRecorded(c)
    /\ sweep' = [sweep EXCEPT ![c] = "structure"]
    /\ UNCHANGED <<rowVars, outVars, queueVars, ingestVars, buildVars, req,
                   envVars>>

\* Mutant: the parked courses are left out.
ReconcileListNotParked(c) ==
    /\ sweep[c] = "none" /\ MaxRec > 0 /\ ~Uploading(c)
    /\ \/ status[c] = "ingesting" /\ sweep' = [sweep EXCEPT ![c] = "ingest"]
       \/ status[c] = "structuring" /\ sweep' = [sweep EXCEPT ![c] = "structure"]
    /\ UNCHANGED <<rowVars, outVars, queueVars, ingestVars, buildVars, req,
                   envVars>>

ReconcileList(c) ==
    /\ sweep[c] = "none" /\ MaxRec > 0 /\ ~Uploading(c)
    /\ \/ status[c] = "ingesting" /\ sweep' = [sweep EXCEPT ![c] = "ingest"]
       \/ /\ \/ status[c] = "structuring"
             \/ status[c] = "intake_pending" /\ IntakeRecorded(c)
          /\ sweep' = [sweep EXCEPT ![c] = "structure"]
    /\ UNCHANGED <<rowVars, outVars, queueVars, ingestVars, buildVars, req,
                   envVars>>

FreeIds(jobs, c) == (1..MaxRec) \ {job.id : job \in {j \in jobs : j.c = c}}

\* Skipped when Redis is down or the job of the *base* id is live.
ReconcileEnqueue(c) ==
    /\ sweep[c] \in {"ingest", "structure"}
    /\ sweep' = [sweep EXCEPT ![c] = "none"]
    /\ \/ /\ sweep[c] = "ingest"
          /\ IF redisUp /\ ~BaseLive(IngestJobs, c)
             THEN \E i \in FreeIds(IngestJobs, c) :
                     ingestQ' = ingestQ \cup {NewJob(c, i)}
             ELSE UNCHANGED ingestQ
          /\ UNCHANGED structQ
       \/ /\ sweep[c] = "structure"
          /\ IF redisUp /\ ~BaseLive(StructJobs, c)
             THEN \E i \in FreeIds(StructJobs, c) :
                     structQ' = structQ \cup {NewJob(c, i)}
             ELSE UNCHANGED structQ
          /\ UNCHANGED ingestQ
    /\ UNCHANGED <<rowVars, outVars, spent, ingestVars, buildVars, req, envVars>>

\* Failed for 14 days.
CleanupList(c) ==
    /\ sweep[c] = "none" /\ status[c] = "failed"
    /\ sweep' = [sweep EXCEPT ![c] = "destroy"]
    /\ UNCHANGED <<rowVars, outVars, queueVars, ingestVars, buildVars, req,
                   envVars>>

\* A refusal (forks, purchases, classrooms, certificates) or a failed
\* transaction leaves the course to a later sweep.
CleanupDestroy(c) ==
    /\ sweep[c] = "destroy"
    /\ \/ Exists(c) /\ EraseCourse(c)
       \/ UNCHANGED <<rowVars, outVars>>
    /\ sweep' = [sweep EXCEPT ![c] = "none"]
    /\ UNCHANGED <<queueVars, ingestVars, buildVars, req, envVars>>

-----------------------------------------------------------------------------
(* The ingestion worker: one job at a time.                                *)

IngestKeep == UNCHANGED <<queueVars, buildVars, apiVars, envVars>>
IngestTo(pc) == ipc' = pc /\ imem' = "none" /\ UNCHANGED ijob

\* setDocumentStatus: an UPDATE that swallows a missing row, and any failure.
SetDocument(c, newStatus) ==
    \/ doc' = [doc EXCEPT ![c] = IF @ = "none" THEN @ ELSE newStatus] /\ UNCHANGED faults
    \/ faults > 0 /\ faults' = faults - 1 /\ UNCHANGED doc
DocumentOnly == UNCHANGED <<rowVars, bytes, presigned, struct, used, queueVars, buildVars,
                            apiVars, redisUp>>

\* The worker takes a job and looks its course up; a job whose course has been
\* deleted has nothing to do.  A look-up that fails fails the job.
IngestTake(job) ==
    /\ ipc = "idle" /\ redisUp /\ job \in ingestQ
    /\ ingestQ' = ingestQ \ {job}
    /\ \/ ipc' = (IF Exists(job.c) THEN "scan" ELSE "finish") /\ UNCHANGED faults
       \/ faults > 0 /\ faults' = faults - 1 /\ ipc' = "throw"
    /\ ijob' = job /\ imem' = "none"
    /\ UNCHANGED <<rowVars, outVars, structQ, spent, buildVars, apiVars, redisUp>>

IngestScan ==
    /\ ipc = "scan"
    /\ IngestTo(IF Pending(ijob.c) THEN "load" ELSE "count")
    /\ UNCHANGED <<rowVars, outVars>> /\ IngestKeep

\* loadVerified, the run row and the wipe of the previous output.  A file that
\* is missing, unrecognised or oversize fails the document before the wipe.
IngestLoad == LET c == ijob.c IN
    /\ ipc = "load"
    /\ \/ /\ bytes[c] \in {"absent", "alien", "oversize"}
          /\ SetDocument(c, "failed")
          /\ IngestTo("scan")
          /\ UNCHANGED chunks
       \/ /\ bytes[c] \in {"good", "thin", "corrupt"}
          /\ chunks' = [chunks EXCEPT ![c] = "none"]
          /\ ipc' = "commit" /\ imem' = bytes[c] /\ UNCHANGED <<ijob, doc, faults>>
    /\ DocumentOnly

\* Parsing, then the chunks.  A course deleted meanwhile makes the inserts
\* fail, which is classified as retryable.
IngestCommit == LET c == ijob.c IN
    /\ ipc = "commit"
    /\ \/ /\ imem = "corrupt"
          /\ SetDocument(c, "failed")
          /\ IngestTo("scan") /\ UNCHANGED chunks
       \/ /\ imem # "corrupt" /\ ~Exists(c)
          /\ IngestTo("throw") /\ UNCHANGED <<doc, chunks, faults>>
       \/ /\ imem # "corrupt" /\ Exists(c)
          /\ chunks' = [chunks EXCEPT ![c] = IF imem = "good" THEN "usable" ELSE "thin"]
          /\ IngestTo("finalize") /\ UNCHANGED <<doc, faults>>
    /\ DocumentOnly

\* The document's terminal status; the count and the progress report that follow
\* it may still fail the job.
IngestFinalize == LET c == ijob.c IN
    /\ ipc = "finalize"
    /\ \/ SetDocument(c, "ready") /\ IngestTo("scan")
       \/ /\ faults > 0 /\ faults' = faults - 1
          /\ doc' = [doc EXCEPT ![c] = IF @ = "none" THEN @ ELSE "ready"]
          /\ IngestTo("throw")
    /\ UNCHANGED chunks /\ DocumentOnly

\* A statement fails.  In the work on a document that is an unclassified error,
\* "let BullMQ retry"; around it, failCourse; in failCourse, it is left to
\* BullMQ as well.
IngestTransient ==
    /\ faults > 0 /\ faults' = faults - 1
    /\ \/ ipc \in {"load", "commit", "fail"} /\ IngestTo("throw")
       \/ ipc \in {"scan", "count", "converge", "tally"} /\ IngestTo("fail")
    /\ UNCHANGED <<rowVars, outVars, queueVars, buildVars, apiVars, redisUp>>

\* Mutant: a course without an extracted document goes on.
IngestCountUnchecked ==
    /\ ipc = "count"
    /\ IngestTo("embed")
    /\ UNCHANGED <<rowVars, outVars>> /\ IngestKeep

IngestCount ==
    /\ ipc = "count"
    /\ IngestTo(IF doc[ijob.c] = "ready" THEN "embed" ELSE "fail")
    /\ UNCHANGED <<rowVars, outVars>> /\ IngestKeep

\* Mutant: goal || level instead of goal && level.
IngestEmbedEither ==
    /\ ipc = "embed"
    /\ SetStage(ijob.c, "other")
    /\ ipc' = "converge" /\ UNCHANGED ijob
    /\ imem' = IF intake[ijob.c] # "none" THEN "intake" ELSE "none"
    /\ UNCHANGED outVars /\ IngestKeep

\* The embedding stage (whose failure is tolerated), then a fresh read of goal
\* and level.
IngestEmbed ==
    /\ ipc = "embed"
    /\ SetStage(ijob.c, "other")
    /\ ipc' = "converge" /\ UNCHANGED ijob
    /\ imem' = IF IntakeRecorded(ijob.c) THEN "intake" ELSE "none"
    /\ UNCHANGED outVars /\ IngestKeep

IngestConverge == LET c == ijob.c IN
    /\ ipc = "converge"
    /\ \/ ~Exists(c) /\ IngestTo("fail") /\ UNCHANGED rowVars
       \/ /\ Exists(c) /\ imem = "intake"
          /\ SetCourse(c, "structuring", "other") /\ IngestTo("enqueue")
       \/ /\ Exists(c) /\ imem # "intake"
          /\ SetCourse(c, "intake_pending", "other") /\ IngestTo("tally")
    /\ UNCHANGED outVars /\ IngestKeep

IngestEnqueue ==
    /\ ipc = "enqueue"
    /\ \/ redisUp /\ AddStruct(ijob.c) /\ IngestTo("tally")
       \/ ~redisUp /\ IngestTo("fail") /\ UNCHANGED structQ
    /\ UNCHANGED <<rowVars, outVars, ingestQ, spent, buildVars, apiVars, envVars>>

\* The chunks are counted for the log, after the course has been moved on.
IngestTally ==
    /\ ipc = "tally"
    /\ IngestTo("finish")
    /\ UNCHANGED <<rowVars, outVars>> /\ IngestKeep

\* Mutant: only the documents are stamped.
IngestFailDocumentOnly == LET c == ijob.c IN
    /\ ipc = "fail"
    /\ doc' = [doc EXCEPT ![c] = IF @ \in {"none", "ready"} THEN @ ELSE "failed"]
    /\ IngestTo("finish")
    /\ UNCHANGED <<rowVars, bytes, presigned, chunks, struct, used>> /\ IngestKeep

\* failCourse, one transaction.  `not: "ready"` skips a NULL status exactly
\* when `notIn` does.  On a deleted course it throws, and so does the job.
IngestFail == LET c == ijob.c IN
    /\ ipc = "fail"
    /\ IF Exists(c)
       THEN /\ SetCourse(c, "failed", stage[c])
            /\ doc' = [doc EXCEPT ![c] =
                  IF @ \in {"none", "ready"} \/ (@ = "null" /\ ~NullStatusPending)
                  THEN @ ELSE "failed"]
            /\ IngestTo("finish")
       ELSE IngestTo("throw") /\ UNCHANGED <<rowVars, doc>>
    /\ UNCHANGED <<bytes, presigned, chunks, struct, used>> /\ IngestKeep

\* The job is over: it failed and is retried or not, or it completed.
IngestThrow ==
    /\ ipc = "throw" /\ redisUp
    /\ IF ijob.made + 1 < Attempts("ingest", ijob)
       THEN /\ ingestQ' = ingestQ \cup {[ijob EXCEPT !.made = @ + 1]}
            /\ UNCHANGED spent
       ELSE Spend("ingest", ijob) /\ UNCHANGED ingestQ
    /\ ipc' = "idle" /\ ijob' = NoJob /\ imem' = "none"
    /\ UNCHANGED <<rowVars, outVars, structQ, buildVars, apiVars, envVars>>

IngestFinish ==
    /\ ipc = "finish" /\ redisUp
    /\ Spend("ingest", ijob)
    /\ ipc' = "idle" /\ ijob' = NoJob /\ imem' = "none"
    /\ UNCHANGED <<rowVars, outVars, ingestQ, structQ, buildVars, apiVars, envVars>>

-----------------------------------------------------------------------------
(* The structuring worker: one job at a time.                              *)

StructKeep == UNCHANGED <<queueVars, ingestVars, apiVars, envVars>>
StructTo(pc) == spc' = pc /\ UNCHANGED sjob

\* Mutant: without the early return on a ready course.
StructTakeReady(job) ==
    /\ spc = "idle" /\ redisUp /\ job \in structQ
    /\ structQ' = structQ \ {job}
    /\ spc' = (IF Exists(job.c) THEN "read" ELSE "finish")
    /\ sjob' = job
    /\ UNCHANGED <<rowVars, outVars, ingestQ, spent, ingestVars, apiVars, envVars>>

StructTake(job) ==
    /\ spc = "idle" /\ redisUp /\ job \in structQ
    /\ structQ' = structQ \ {job}
    /\ spc' = (IF Exists(job.c) /\ status[job.c] # "ready" THEN "read" ELSE "finish")
    /\ sjob' = job
    /\ UNCHANGED <<rowVars, outVars, ingestQ, spent, ingestVars, apiVars, envVars>>

\* setStage and the chunks with a body.  Without any, or when the frontier
\* model fails, the attempt does.
StructRead == LET c == sjob.c IN
    /\ spc = "read"
    /\ SetStage(c, "other")
    /\ \/ chunks[c] = "usable" /\ StructTo("wipe") /\ UNCHANGED faults
       \/ chunks[c] # "usable" /\ StructTo("error") /\ UNCHANGED faults
       \/ faults > 0 /\ faults' = faults - 1 /\ StructTo("error")
    /\ UNCHANGED <<outVars, queueVars, ingestVars, apiVars, redisUp>>

\* "Retry safety - wipe this course's previous structure": concept links,
\* subtopics, modules.  With learner rows on a subtopic the second delete is
\* refused, after the links have gone.
StructWipe == LET c == sjob.c IN
    /\ spc = "wipe"
    /\ IF used[c]
       THEN struct' = [struct EXCEPT ![c] = "partial"] /\ StructTo("error")
       ELSE struct' = [struct EXCEPT ![c] = "none"] /\ StructTo("build")
    /\ UNCHANGED <<rowVars, doc, bytes, presigned, chunks, used>> /\ StructKeep

\* Modules, subtopics and links go in row by row.
StructBuild == LET c == sjob.c IN
    /\ spc \in {"build", "link"}
    /\ IF Exists(c)
       THEN /\ struct' = [struct EXCEPT ![c] =
                  IF spc = "build" THEN "partial" ELSE "complete"]
            /\ StructTo(IF spc = "build" THEN "link" ELSE "ready")
       ELSE StructTo("error") /\ UNCHANGED struct
    /\ UNCHANGED <<rowVars, doc, bytes, presigned, chunks, used>> /\ StructKeep

\* The flip to ready; the back-fill it then enqueues cannot fail the job.
StructReady == LET c == sjob.c IN
    /\ spc = "ready"
    /\ IF Exists(c)
       THEN SetCourse(c, "ready", "other") /\ StructTo("finish")
       ELSE StructTo("error") /\ UNCHANGED rowVars
    /\ UNCHANGED outVars /\ StructKeep

\* Rethrow while an attempt is left, else fail the course (which throws in
\* turn when the course is gone).
StructError == LET c == sjob.c IN
    /\ spc = "error"
    /\ IF sjob.made + 1 < Attempts("structure", sjob) \/ ~Exists(c)
       THEN StructTo("throw") /\ UNCHANGED rowVars
       ELSE SetCourse(c, "failed", stage[c]) /\ StructTo("finish")
    /\ UNCHANGED outVars /\ StructKeep

StructThrow ==
    /\ spc = "throw" /\ redisUp
    /\ IF sjob.made + 1 < Attempts("structure", sjob)
       THEN /\ structQ' = structQ \cup {[sjob EXCEPT !.made = @ + 1]}
            /\ UNCHANGED spent
       ELSE Spend("structure", sjob) /\ UNCHANGED structQ
    /\ spc' = "idle" /\ sjob' = NoJob
    /\ UNCHANGED <<rowVars, outVars, ingestQ, ingestVars, apiVars, envVars>>

StructFinish ==
    /\ spc = "finish" /\ redisUp
    /\ Spend("structure", sjob)
    /\ spc' = "idle" /\ sjob' = NoJob
    /\ UNCHANGED <<rowVars, outVars, ingestQ, structQ, ingestVars, apiVars, envVars>>

-----------------------------------------------------------------------------
(* Faults, each one paid from the budget.                                  *)

RedisDown ==
    /\ redisUp /\ faults > 0
    /\ redisUp' = FALSE /\ faults' = faults - 1
    /\ UNCHANGED <<rowVars, outVars, queueVars, ingestVars, buildVars, apiVars>>

RedisUp ==
    /\ ~redisUp /\ redisUp' = TRUE
    /\ UNCHANGED <<rowVars, outVars, queueVars, ingestVars, buildVars, apiVars, faults>>

\* API and workers are one process; BullMQ puts a job that stalled back in its
\* queue.
Crash ==
    /\ faults > 0 /\ faults' = faults - 1
    /\ ingestQ' = IngestJobs /\ structQ' = StructJobs
    /\ ipc' = "idle" /\ ijob' = NoJob /\ imem' = "none"
    /\ spc' = "idle" /\ sjob' = NoJob
    /\ req' = [r \in Requests |-> [req[r] EXCEPT !.pc = "idle"]]
    /\ sweep' = [c \in Courses |-> "none"]
    /\ UNCHANGED <<rowVars, outVars, spent, redisUp>>

-----------------------------------------------------------------------------
Client ==
    \/ \E r \in Requests, c \in Courses :
          \/ "upload" \in Ops /\ UploadCourse(r, c)
          \/ "presign" \in Ops /\ PresignCourse(r, c)
          \/ "topic" \in Ops /\ TopicCourse(r, c)
          \/ "confirm" \in Ops /\ ConfirmUpload(r, c)
          \/ "intake" \in Ops /\ UpdateIntake(r, c)
    \/ \E c \in Courses :
          \/ PutBytes(c)
          \/ "half" \in Ops /\ UpdateHalf(c)
          \/ "study" \in Ops /\ Study(c)
          \/ "delete" \in Ops /\ DeleteCourse(c)

Handler(r) ==
    \/ UploadDocument(r) \/ UploadEnqueue(r) \/ UndoDocument(r) \/ UndoCourse(r)
    \/ PresignDocument(r) \/ TopicEnqueue(r)
    \/ ConfirmCheck(r) \/ ConfirmFail(r) \/ ConfirmReset(r)
    \/ ConfirmCourse(r) \/ ConfirmEnqueue(r)
    \/ IntakeWrite(r) \/ IntakeEnqueue(r) \/ IntakeRevert(r)

Reconcile(c) == ReconcileList(c) \/ ReconcileEnqueue(c)
Cleanup(c) == CleanupList(c) \/ CleanupDestroy(c)

IngestWorker ==
    \/ \E job \in ingestQ : IngestTake(job)
    \/ IngestScan \/ IngestLoad \/ IngestCommit \/ IngestFinalize \/ IngestCount
    \/ IngestEmbed \/ IngestConverge \/ IngestEnqueue \/ IngestTally
    \/ IngestFail \/ IngestThrow \/ IngestFinish

StructWorker ==
    \/ \E job \in structQ : StructTake(job)
    \/ StructRead \/ StructWipe \/ StructBuild
    \/ StructReady \/ StructError \/ StructThrow \/ StructFinish

Next ==
    \/ Client
    \/ \E r \in Requests : Handler(r)
    \/ \E c \in Courses : Reconcile(c) \/ Cleanup(c)
    \/ IngestWorker \/ IngestTransient
    \/ StructWorker
    \/ RedisDown \/ RedisUp \/ Crash

Spec == Init /\ [][Next]_vars

\* The event loop runs every started handler, both workers and a sweep that
\* has read its list; and Redis comes back.
SchedulingFairness ==
    /\ \A r \in Requests : WF_vars(Handler(r))
    /\ \A c \in Courses : WF_vars(ReconcileEnqueue(c) \/ CleanupDestroy(c))
    /\ WF_vars(IngestWorker) /\ WF_vars(StructWorker)
    /\ WF_vars(RedisUp)

\* "Wire them to a cron": somebody keeps calling the reconcile endpoint.
FairSpec ==
    Spec /\ SchedulingFairness /\ \A c \in Courses : WF_vars(ReconcileList(c))

-----------------------------------------------------------------------------
(* Safety.                                                                 *)

\* Nothing is generated before goal and level are both recorded (F3): neither
\* the status nor a row of the structure gets ahead of the intake, whichever
\* of the intake endpoint, the ingestion worker and the sweep enqueued the job.
IntakeBeforeStructuring ==
    \A c \in Courses :
        (status[c] \in {"structuring", "ready"} \/ struct[c] # "none")
            => IntakeRecorded(c)

\* A course that is ready has its whole structure: no reader of a ready course
\* meets the rows of an interrupted or repeated structuring job.
ReadyMeansStructured ==
    \A c \in Courses : status[c] = "ready" => struct[c] = "complete"

\* Once a course row is gone, by a roll-back, a delete or a sweep, no handler
\* or worker that was in flight leaves a row of it behind.
DeletedLeavesNothing ==
    \A c \in Courses : ~Exists(c) =>
        doc[c] = "none" /\ chunks[c] = "none" /\ struct[c] = "none"

\* A course without a source document is never taken for ingested: it can
\* only wait or fail.
NothingFromNothing ==
    \A c \in Courses : Exists(c) /\ doc[c] = "none" =>
        status[c] \in {"ingesting", "failed"} /\ struct[c] = "none"

\* A document is awaiting work until it is ready or failed, so an upload whose
\* file parses into text does not end up failed when nothing else went wrong.
GoodUploadSucceeds ==
    \A c \in Courses : bytes[c] = "good" /\ faults = MaxFaults => status[c] # "failed"

-----------------------------------------------------------------------------
(* Liveness.                                                               *)

Busy(c) == status[c] \in {"ingesting", "structuring"}

\* No course is ingesting or structuring for good: whatever crashed, it ends
\* up parked for the intake, ready, failed or gone.
Converges == \A c \in Courses : Busy(c) ~> ~Busy(c)

\* A course parked with goal and level both recorded does not stay parked.
ParkedRescued ==
    \A c \in Courses :
        (status[c] = "intake_pending" /\ IntakeRecorded(c))
            ~> (status[c] # "intake_pending")

-----------------------------------------------------------------------------
(* What all this amounts to for those who only look at a course.           *)

View == [c \in Courses |->
    CASE status[c] = "unborn" -> "none"
      [] status[c] = "deleted" -> "gone"
      [] status[c] = "ready" -> "readable"
      [] OTHER -> "waiting"]

Promise == INSTANCE CoursePromise WITH
    view <- View, known <- [c \in Courses |-> IntakeRecorded(c)],
    content <- struct, used <- used

\* Handlers, workers and sweeps, in every interleaving, implement the promise:
\* a structure changes only out of sight and after the intake, only a complete
\* one is shown, learners keep what they use, and deletion is whole and final.
KeepsPromise == Promise!Spec
=============================================================================
