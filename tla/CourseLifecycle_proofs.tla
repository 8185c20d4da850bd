---------------------- MODULE CourseLifecycle_proofs ----------------------
(***************************************************************************)
(* Theorems about CourseLifecycle, for every set of courses and requests   *)
(* and every value of the bounds.                                          *)
(*                                                                         *)
(* IInv is inductive.  Its parts are proved to be preserved one after the  *)
(* other, each from the parts before it: the types; learner work keeps the *)
(* structure; a deleted course leaves nothing; no job gets ahead of the    *)
(* intake; ready means structured; nothing is made from nothing; one       *)
(* job per id.                                                             *)
(***************************************************************************)
EXTENDS CourseLifecycle, TLAPS

\* Rows a learner produced keep the subtopics they refer to, whatever job
\* structures the course again.
LearnerWorkKeepsStructure ==
    \A c \in Courses : used[c] => struct[c] # "none"

\* Why no job gets ahead of the intake: whatever is on its way to structure a
\* course (a job queued or active, a handler or worker about to enqueue one, a
\* sweep that has decided to) is for a course with goal and level recorded, or
\* one deleted since; the decision never has to be taken again.
OnlyAfterIntake(c) == IntakeRecorded(c) \/ status[c] = "deleted"
IntakeGuards ==
    /\ \A job \in structQ : OnlyAfterIntake(job.c)
    /\ spc # "idle" => OnlyAfterIntake(sjob.c)
    /\ ipc = "enqueue" \/ (ipc = "converge" /\ imem = "intake") =>
          OnlyAfterIntake(ijob.c)
    /\ \A r \in Requests : At(r, "intake-add") => OnlyAfterIntake(req[r].c)
    /\ \A c \in Courses : sweep[c] = "structure" => OnlyAfterIntake(c)

\* Why ready means structured although the worker reads the status once and
\* acts on it for minutes: nobody else makes a course ready, so the course it
\* wipes or builds is not, and the one it is about to make ready is complete
\* unless it was deleted meanwhile.
BuildGuards ==
    /\ spc \in {"read", "wipe", "build", "link", "ready"} =>
          status[sjob.c] \notin {"unborn", "ready"}
    /\ spc = "ready" => struct[sjob.c] = "complete" \/ status[sjob.c] = "deleted"

\* Why nothing is made from nothing.  A course may lose its document row again,
\* when the enqueue of its upload fails, so before that nothing may have
\* started for it; and while it has none, nothing may be under way that ends
\* in a status or a row that belongs to an ingested course.
NoJobs(jobs, c) == \A job \in jobs : job.c # c

\* An upload between its course row and its answer or the end of its roll-back.
LandingPcs == {"upload-doc", "upload-add", "undo-doc"}
\* Requests that have found a document, or a course past its ingestion.
LatePcs    == {"confirm-fail", "confirm-reset", "confirm-course", "confirm-add",
               "intake-flip", "intake-add", "intake-revert"}
\* The ingestion worker at work on a document, or past it.
WorkPcs    == {"load", "commit", "finalize", "embed", "converge", "enqueue"}

\* Nobody knows a course before it is created.
Unknown(c) ==
    /\ NoJobs(IngestJobs, c) /\ NoJobs(StructJobs, c)
    /\ sweep[c] = "none"
    /\ \A r \in Requests : req[r].c = c => At(r, "idle")

\* The request that uploads a course is the only one that can do anything about
\* it: confirmations and intakes are turned away by status and stage, the sweep
\* by the age of the row, the workers by the lack of a job.
Alone(r, c) ==
    /\ status[c] = "ingesting" /\ stage[c] = "queued" /\ struct[c] = "none"
    /\ At(r, "upload-doc") => doc[c] = "none"
    /\ NoJobs(IngestJobs, c) /\ NoJobs(StructJobs, c)
    /\ sweep[c] = "none"
    /\ \A q \in Requests \ {r} :
          req[q].c = c => req[q].pc \in {"idle", "intake-note"}

\* A course at a standstill: it waits or fails, and all that is under way for
\* it are ingestion jobs that find no document.
Still(c) ==
    /\ status[c] \in {"ingesting", "failed"} /\ struct[c] = "none"
    /\ NoJobs(StructJobs, c)
    /\ sweep[c] # "structure"
    /\ \A r \in Requests : req[r].c = c => req[r].pc \notin LatePcs
    /\ ipc \in WorkPcs => ijob.c # c

UnbornUnknown == \A c \in Courses : status[c] = "unborn" => Unknown(c)
UploadAlone ==
    \A r \in Requests :
        Exists(req[r].c) /\ req[r].pc \in LandingPcs => Alone(r, req[r].c)
NothingUnderWay ==
    \A c \in Courses : Exists(c) /\ doc[c] = "none" => Still(c)

NothingInv == UnbornUnknown /\ UploadAlone /\ NothingUnderWay

\* One job per id in each queue, active or waiting: a base id stands for the
\* only job of its course that a request or the ingestion worker enqueued, also
\* after the job has ended, and the sweep's ids are fresh.
OneJobPerId(kind, jobs) ==
    /\ \A j, k \in jobs : j.c = k.c /\ j.id = k.id => j = k
    /\ \A j \in jobs : <<kind, j.c>> \in spent => j.id # 0
JobIdsOnce ==
    /\ OneJobPerId("ingest", IngestJobs)
    /\ OneJobPerId("structure", StructJobs)

\* A job that a worker holds is out of its queue.
JobsHeld ==
    /\ ipc # "idle" => ijob \notin ingestQ
    /\ spc # "idle" => sjob \notin structQ

JobsInv == JobIdsOnce /\ JobsHeld

IntakeInv == IntakeBeforeStructuring /\ IntakeGuards
ReadyInv  == ReadyMeansStructured /\ BuildGuards

\* The inductive invariant.
IInv == /\ TypeOK
        /\ LearnerWorkKeepsStructure
        /\ DeletedLeavesNothing
        /\ IntakeInv
        /\ ReadyInv
        /\ NothingInv
        /\ JobsInv

-----------------------------------------------------------------------------
(* Types.                                                                  *)

\* The course a request is about is a course.
LEMMA RequestCourse ==
    ASSUME TypeOK, NEW r \in Requests PROVE req[r].c \in Courses
BY DEF TypeOK, ApiOK, Request

\* A handler that moves on or answers keeps its request well formed.
LEMMA GotoType ==
    ASSUME TypeOK, NEW r \in Requests, NEW pc \in RequestPcs, Goto(r, pc)
    PROVE  req' \in [Requests -> Request]
BY DEF TypeOK, ApiOK, Request, Goto

LEMMA AnswerType ==
    ASSUME TypeOK, NEW r \in Requests, Answer(r)
    PROVE  req' \in [Requests -> Request]
BY DEF TypeOK, ApiOK, Request, Answer, RequestPcs

\* Writing or erasing a course row keeps the rows well formed.
LEMMA SetCourseType ==
    ASSUME TypeOK, NEW c \in Courses, NEW s \in Statuses, NEW g \in Stages,
           SetCourse(c, s, g)
    PROVE  RowsOK'
BY DEF TypeOK, RowsOK, SetCourse

LEMMA EraseCourseType ==
    ASSUME TypeOK, NEW c \in Courses, EraseCourse(c)
    PROVE  RowsOK' /\ OutOK'
BY DEF TypeOK, RowsOK, OutOK, EraseCourse, Statuses, Stages, DocStatuses

\* Every step keeps every variable in its type.
LEMMA TypeStep ==
    ASSUME TypeOK, [Next]_vars PROVE TypeOK'
<1> USE ConstantsAssumption DEF ConstantsAssumption, Job, Statuses, Stages,
      DocStatuses, Contents, IngestPcs, StructPcs, UploadPcs, RequestPcs
<1>1. ASSUME NEW r \in Requests, NEW c \in Courses, UploadCourse(r, c) PROVE TypeOK'
  BY <1>1 DEF UploadCourse, SetCourse, Open, outVars, queueVars, ingestVars,
     buildVars, envVars, At, TypeOK, RowsOK, OutOK, QueuesOK, WorkersOK,
     ApiOK, Request
<1>2. ASSUME NEW r \in Requests, NEW c \in Courses, PresignCourse(r, c) PROVE TypeOK'
  BY <1>2 DEF PresignCourse, SetCourse, Open, outVars, queueVars, ingestVars,
     buildVars, envVars, At, TypeOK, RowsOK, OutOK, QueuesOK, WorkersOK,
     ApiOK, Request
<1>3. ASSUME NEW r \in Requests, NEW c \in Courses, TopicCourse(r, c) PROVE TypeOK'
  BY <1>3 DEF TopicCourse, SetCourse, Open, outVars, queueVars, ingestVars,
     buildVars, envVars, At, TypeOK, RowsOK, OutOK, QueuesOK, WorkersOK,
     ApiOK, Request
<1>4. ASSUME NEW r \in Requests, NEW c \in Courses, ConfirmUpload(r, c) PROVE TypeOK'
  BY <1>4 DEF ConfirmUpload, Open, Exists, rowVars, outVars, queueVars,
     ingestVars, buildVars, At, TypeOK, RowsOK, OutOK, QueuesOK, WorkersOK,
     ApiOK, Request
<1>5. ASSUME NEW r \in Requests, NEW c \in Courses, UpdateIntake(r, c) PROVE TypeOK'
  BY <1>5 DEF UpdateIntake, Open, Exists, rowVars, outVars, queueVars,
     ingestVars, buildVars, envVars, At, TypeOK, RowsOK, OutOK, QueuesOK,
     WorkersOK, ApiOK, Request
<1>6. ASSUME NEW c \in Courses, PutBytes(c) PROVE TypeOK'
  BY <1>6 DEF PutBytes, rowVars, queueVars, ingestVars, buildVars, apiVars,
     TypeOK, RowsOK, OutOK, QueuesOK, WorkersOK, ApiOK, Request
<1>7. ASSUME NEW c \in Courses, UpdateHalf(c) PROVE TypeOK'
  BY <1>7 DEF UpdateHalf, Exists, outVars, queueVars, ingestVars, buildVars,
     apiVars, envVars, TypeOK, RowsOK, OutOK, QueuesOK, WorkersOK, ApiOK,
     Request
<1>8. ASSUME NEW c \in Courses, Study(c) PROVE TypeOK'
  BY <1>8 DEF Study, rowVars, queueVars, ingestVars, buildVars, apiVars,
     envVars, TypeOK, RowsOK, OutOK, QueuesOK, WorkersOK, ApiOK, Request
<1>9. ASSUME NEW c \in Courses, DeleteCourse(c) PROVE TypeOK'
  BY <1>9 DEF DeleteCourse, EraseCourse, Exists, queueVars, ingestVars,
     buildVars, apiVars, envVars, TypeOK, RowsOK, OutOK, QueuesOK, WorkersOK,
     ApiOK, Request
<1>10. ASSUME NEW r \in Requests, UploadDocument(r) PROVE TypeOK'
  <2>1. RowsOK'
    BY <1>10, RequestCourse DEF UploadDocument, At, Exists, rowVars, outVars,
       queueVars, ingestVars, buildVars, envVars, TypeOK, RowsOK
  <2>2. OutOK'
    BY <1>10, RequestCourse DEF UploadDocument, rowVars, outVars, queueVars,
       ingestVars, buildVars, envVars, TypeOK, OutOK
  <2>3. QueuesOK' /\ WorkersOK'
    BY <1>10, RequestCourse DEF UploadDocument, rowVars, outVars, queueVars,
       ingestVars, buildVars, envVars, TypeOK, QueuesOK, WorkersOK
  <2>4. req' \in [Requests -> Request]
    BY <1>10, RequestCourse, GotoType DEF UploadDocument, rowVars, outVars,
       queueVars, ingestVars, buildVars, envVars, TypeOK, ApiOK
  <2>5. ApiOK'
    BY <1>10, RequestCourse, <2>4 DEF UploadDocument, rowVars, outVars,
       queueVars, ingestVars, buildVars, envVars, TypeOK, ApiOK
  <2> QED
    BY <2>1, <2>2, <2>3, <2>5 DEF TypeOK
<1>11. ASSUME NEW r \in Requests, UploadEnqueue(r) PROVE TypeOK'
  BY <1>11, RequestCourse DEF UploadEnqueue, AddIngest, Goto, Answer, At,
     rowVars, outVars, ingestVars, buildVars, envVars, BaseLive, IngestJobs,
     NewJob, TypeOK, RowsOK, OutOK, QueuesOK, WorkersOK, ApiOK, Request
<1>12. ASSUME NEW r \in Requests, UndoDocument(r) PROVE TypeOK'
  BY <1>12, RequestCourse DEF UndoDocument, Goto, At, rowVars, queueVars,
     ingestVars, buildVars, envVars, TypeOK, RowsOK, OutOK, QueuesOK,
     WorkersOK, ApiOK, Request
<1>13. ASSUME NEW r \in Requests, UndoCourse(r) PROVE TypeOK'
  <2>1. RowsOK'
    BY <1>13, RequestCourse, EraseCourseType DEF UndoCourse, At, Exists,
       rowVars, outVars, queueVars, ingestVars, buildVars, envVars, TypeOK,
       RowsOK
  <2>2. OutOK'
    BY <1>13, RequestCourse, EraseCourseType DEF UndoCourse, rowVars, outVars,
       queueVars, ingestVars, buildVars, envVars, TypeOK, OutOK
  <2>3. QueuesOK' /\ WorkersOK'
    BY <1>13, RequestCourse DEF UndoCourse, rowVars, outVars, queueVars,
       ingestVars, buildVars, envVars, TypeOK, QueuesOK, WorkersOK
  <2>4. req' \in [Requests -> Request]
    BY <1>13, RequestCourse, AnswerType DEF UndoCourse, rowVars, outVars,
       queueVars, ingestVars, buildVars, envVars, TypeOK, ApiOK
  <2>5. ApiOK'
    BY <1>13, RequestCourse, <2>4 DEF UndoCourse, rowVars, outVars, queueVars,
       ingestVars, buildVars, envVars, TypeOK, ApiOK
  <2> QED
    BY <2>1, <2>2, <2>3, <2>5 DEF TypeOK
<1>14. ASSUME NEW r \in Requests, PresignDocument(r) PROVE TypeOK'
  <2>1. RowsOK'
    BY <1>14, RequestCourse DEF PresignDocument, At, Exists, rowVars, outVars,
       queueVars, ingestVars, buildVars, envVars, TypeOK, RowsOK
  <2>2. OutOK'
    BY <1>14, RequestCourse, ZenonT(60) DEF PresignDocument, rowVars, outVars, queueVars,
       ingestVars, buildVars, envVars, TypeOK, OutOK
  <2>3. QueuesOK' /\ WorkersOK'
    BY <1>14, RequestCourse DEF PresignDocument, rowVars, outVars, queueVars,
       ingestVars, buildVars, envVars, TypeOK, QueuesOK, WorkersOK
  <2>4. req' \in [Requests -> Request]
    BY <1>14, RequestCourse, GotoType, AnswerType DEF PresignDocument,
       rowVars, outVars, queueVars, ingestVars, buildVars, envVars, TypeOK,
       ApiOK
  <2>5. ApiOK'
    BY <1>14, RequestCourse, <2>4 DEF PresignDocument, rowVars, outVars,
       queueVars, ingestVars, buildVars, envVars, TypeOK, ApiOK
  <2> QED
    BY <2>1, <2>2, <2>3, <2>5 DEF TypeOK
<1>15. ASSUME NEW r \in Requests, TopicEnqueue(r) PROVE TypeOK'
  BY <1>15, RequestCourse DEF TopicEnqueue, Goto, Answer, At, rowVars,
     outVars, queueVars, ingestVars, buildVars, envVars, TypeOK, RowsOK,
     OutOK, QueuesOK, WorkersOK, ApiOK, Request
<1>16. ASSUME NEW r \in Requests, ConfirmCheck(r) PROVE TypeOK'
  <2>1. RowsOK'
    BY <1>16, RequestCourse DEF ConfirmCheck, At, rowVars, outVars, queueVars,
       ingestVars, buildVars, envVars, TypeOK, RowsOK
  <2>2. OutOK'
    BY <1>16, RequestCourse DEF ConfirmCheck, rowVars, outVars, queueVars, ingestVars,
       buildVars, envVars, TypeOK, OutOK
  <2>3. QueuesOK' /\ WorkersOK'
    BY <1>16, RequestCourse DEF ConfirmCheck, rowVars, outVars, queueVars, ingestVars,
       buildVars, envVars, TypeOK, QueuesOK, WorkersOK
  <2>4. req' \in [Requests -> Request]
    BY <1>16, RequestCourse, GotoType, AnswerType DEF ConfirmCheck, rowVars, outVars, queueVars,
       ingestVars, buildVars, envVars, TypeOK, ApiOK
  <2>5. ApiOK'
    BY <1>16, RequestCourse, <2>4 DEF ConfirmCheck, rowVars, outVars, queueVars,
       ingestVars, buildVars, envVars, TypeOK, ApiOK
  <2> QED
    BY <2>1, <2>2, <2>3, <2>5 DEF TypeOK
<1>16a. ASSUME NEW r \in Requests, ConfirmFail(r) PROVE TypeOK'
  <2>1. RowsOK'
    BY <1>16a, RequestCourse, SetCourseType DEF ConfirmFail, At, Exists, rowVars, outVars, queueVars,
       ingestVars, buildVars, envVars, TypeOK, RowsOK
  <2>2. OutOK'
    BY <1>16a, RequestCourse DEF ConfirmFail, Exists, rowVars, outVars, queueVars, ingestVars,
       buildVars, envVars, TypeOK, OutOK
  <2>3. QueuesOK' /\ WorkersOK'
    BY <1>16a, RequestCourse DEF ConfirmFail, Exists, rowVars, outVars, queueVars, ingestVars,
       buildVars, envVars, TypeOK, QueuesOK, WorkersOK
  <2>4. req' \in [Requests -> Request]
    BY <1>16a, RequestCourse, AnswerType DEF ConfirmFail, Exists, rowVars, outVars, queueVars,
       ingestVars, buildVars, envVars, TypeOK, ApiOK
  <2>5. ApiOK'
    BY <1>16a, RequestCourse, <2>4 DEF ConfirmFail, Exists, rowVars, outVars, queueVars,
       ingestVars, buildVars, envVars, TypeOK, ApiOK
  <2> QED
    BY <2>1, <2>2, <2>3, <2>5 DEF TypeOK
<1>16b. ASSUME NEW r \in Requests, ConfirmReset(r) PROVE TypeOK'
  <2>1. RowsOK'
    BY <1>16b, RequestCourse DEF ConfirmReset, At, rowVars, outVars, queueVars,
       ingestVars, buildVars, envVars, TypeOK, RowsOK
  <2>2. OutOK'
    BY <1>16b, RequestCourse DEF ConfirmReset, rowVars, outVars, queueVars, ingestVars,
       buildVars, envVars, TypeOK, OutOK
  <2>3. QueuesOK' /\ WorkersOK'
    BY <1>16b, RequestCourse DEF ConfirmReset, rowVars, outVars, queueVars, ingestVars,
       buildVars, envVars, TypeOK, QueuesOK, WorkersOK
  <2>4. req' \in [Requests -> Request]
    BY <1>16b, RequestCourse, GotoType DEF ConfirmReset, rowVars, outVars, queueVars,
       ingestVars, buildVars, envVars, TypeOK, ApiOK
  <2>5. ApiOK'
    BY <1>16b, RequestCourse, <2>4 DEF ConfirmReset, rowVars, outVars, queueVars,
       ingestVars, buildVars, envVars, TypeOK, ApiOK
  <2> QED
    BY <2>1, <2>2, <2>3, <2>5 DEF TypeOK
<1>17. ASSUME NEW r \in Requests, ConfirmCourse(r) PROVE TypeOK'
  <2>1. RowsOK'
    BY <1>17, RequestCourse, SetCourseType DEF ConfirmCourse, At, Exists,
       rowVars, outVars, queueVars, ingestVars, buildVars, envVars, TypeOK,
       RowsOK
  <2>2. OutOK'
    BY <1>17, RequestCourse DEF ConfirmCourse, rowVars, outVars, queueVars,
       ingestVars, buildVars, envVars, TypeOK, OutOK
  <2>3. QueuesOK' /\ WorkersOK'
    BY <1>17, RequestCourse DEF ConfirmCourse, rowVars, outVars, queueVars,
       ingestVars, buildVars, envVars, TypeOK, QueuesOK, WorkersOK
  <2>4. req' \in [Requests -> Request]
    BY <1>17, RequestCourse, GotoType, AnswerType DEF ConfirmCourse, rowVars,
       outVars, queueVars, ingestVars, buildVars, envVars, TypeOK, ApiOK
  <2>5. ApiOK'
    BY <1>17, RequestCourse, <2>4 DEF ConfirmCourse, rowVars, outVars,
       queueVars, ingestVars, buildVars, envVars, TypeOK, ApiOK
  <2> QED
    BY <2>1, <2>2, <2>3, <2>5 DEF TypeOK
<1>18. ASSUME NEW r \in Requests, ConfirmEnqueue(r) PROVE TypeOK'
  BY <1>18, RequestCourse DEF ConfirmEnqueue, AddIngest, Answer, At, rowVars,
     outVars, ingestVars, buildVars, envVars, BaseLive, IngestJobs, NewJob,
     TypeOK, RowsOK, OutOK, QueuesOK, WorkersOK, ApiOK, Request
<1>19. ASSUME NEW r \in Requests, IntakeWrite(r) PROVE TypeOK'
  <2>1. RowsOK'
    BY <1>19, RequestCourse DEF IntakeWrite, At, Exists, rowVars, outVars,
       queueVars, ingestVars, buildVars, envVars, TypeOK, RowsOK
  <2>2. OutOK'
    BY <1>19, RequestCourse DEF IntakeWrite, rowVars, outVars, queueVars,
       ingestVars, buildVars, envVars, TypeOK, OutOK
  <2>3. QueuesOK' /\ WorkersOK'
    BY <1>19, RequestCourse DEF IntakeWrite, rowVars, outVars, queueVars,
       ingestVars, buildVars, envVars, TypeOK, QueuesOK, WorkersOK
  <2>4. req' \in [Requests -> Request]
    BY <1>19, RequestCourse, GotoType, AnswerType DEF IntakeWrite, rowVars,
       outVars, queueVars, ingestVars, buildVars, envVars, TypeOK, ApiOK
  <2>5. ApiOK'
    BY <1>19, RequestCourse, <2>4 DEF IntakeWrite, rowVars, outVars,
       queueVars, ingestVars, buildVars, envVars, TypeOK, ApiOK
  <2> QED
    BY <2>1, <2>2, <2>3, <2>5 DEF TypeOK
<1>20. ASSUME NEW r \in Requests, IntakeEnqueue(r) PROVE TypeOK'
  BY <1>20, RequestCourse DEF IntakeEnqueue, AddStruct, Goto, Answer, At,
     rowVars, outVars, ingestVars, buildVars, envVars, BaseLive, StructJobs,
     NewJob, TypeOK, RowsOK, OutOK, QueuesOK, WorkersOK, ApiOK, Request
<1>21. ASSUME NEW r \in Requests, IntakeRevert(r) PROVE TypeOK'
  <2>1. RowsOK'
    BY <1>21, RequestCourse, SetCourseType DEF IntakeRevert, At, Exists,
       rowVars, outVars, queueVars, ingestVars, buildVars, envVars, TypeOK,
       RowsOK
  <2>2. OutOK'
    BY <1>21, RequestCourse DEF IntakeRevert, rowVars, outVars, queueVars,
       ingestVars, buildVars, envVars, TypeOK, OutOK
  <2>3. QueuesOK' /\ WorkersOK'
    BY <1>21, RequestCourse DEF IntakeRevert, rowVars, outVars, queueVars,
       ingestVars, buildVars, envVars, TypeOK, QueuesOK, WorkersOK
  <2>4. req' \in [Requests -> Request]
    BY <1>21, RequestCourse, AnswerType DEF IntakeRevert, rowVars, outVars,
       queueVars, ingestVars, buildVars, envVars, TypeOK, ApiOK
  <2>5. ApiOK'
    BY <1>21, RequestCourse, <2>4 DEF IntakeRevert, rowVars, outVars,
       queueVars, ingestVars, buildVars, envVars, TypeOK, ApiOK
  <2> QED
    BY <2>1, <2>2, <2>3, <2>5 DEF TypeOK
<1>22. ASSUME NEW c \in Courses, ReconcileList(c) PROVE TypeOK'
  BY <1>22 DEF ReconcileList, IntakeRecorded, rowVars, outVars, queueVars,
     ingestVars, buildVars, envVars, TypeOK, RowsOK, OutOK, QueuesOK,
     WorkersOK, ApiOK, Request
<1>23. ASSUME NEW c \in Courses, ReconcileEnqueue(c) PROVE TypeOK'
  BY <1>23 DEF ReconcileEnqueue, BaseLive, IngestJobs, StructJobs, NewJob,
     FreeIds, rowVars, outVars, ingestVars, buildVars, envVars, TypeOK,
     RowsOK, OutOK, QueuesOK, WorkersOK, ApiOK, Request
<1>24. ASSUME NEW c \in Courses, CleanupList(c) PROVE TypeOK'
  BY <1>24 DEF CleanupList, rowVars, outVars, queueVars, ingestVars,
     buildVars, envVars, TypeOK, RowsOK, OutOK, QueuesOK, WorkersOK, ApiOK,
     Request
<1>25. ASSUME NEW c \in Courses, CleanupDestroy(c) PROVE TypeOK'
  <2>1. RowsOK'
    BY <1>25, EraseCourseType DEF CleanupDestroy, Exists, rowVars, outVars,
       queueVars, ingestVars, buildVars, envVars, TypeOK, RowsOK
  <2>2. OutOK'
    BY <1>25, EraseCourseType DEF CleanupDestroy, rowVars, outVars, queueVars,
       ingestVars, buildVars, envVars, TypeOK, OutOK
  <2>3. QueuesOK' /\ WorkersOK'
    BY <1>25 DEF CleanupDestroy, rowVars, outVars, queueVars, ingestVars,
       buildVars, envVars, TypeOK, QueuesOK, WorkersOK
  <2>4. req' \in [Requests -> Request]
    BY <1>25 DEF CleanupDestroy, rowVars, outVars, queueVars, ingestVars,
       buildVars, envVars, TypeOK, ApiOK
  <2>5. ApiOK'
    BY <1>25, <2>4 DEF CleanupDestroy, rowVars, outVars, queueVars,
       ingestVars, buildVars, envVars, TypeOK, ApiOK
  <2> QED
    BY <2>1, <2>2, <2>3, <2>5 DEF TypeOK
<1>26. CASE IngestWorker \/ IngestTransient
  BY <1>26 DEF IngestWorker, IngestTake, IngestScan, IngestLoad, IngestCommit,
     IngestFinalize, IngestCount, IngestEmbed, IngestConverge, IngestEnqueue,
     IngestTally, SetDocument, DocumentOnly, IngestFail, IngestThrow,
     IngestFinish, IngestTransient, Exists, rowVars, outVars, buildVars,
     apiVars, envVars, IngestKeep, IngestTo, queueVars, SetStage,
     IntakeRecorded, SetCourse, AddStruct, BaseLive, StructJobs, NewJob,
     Spend, Attempts, TypeOK, RowsOK, OutOK, QueuesOK, WorkersOK, ApiOK
<1>27. CASE StructWorker
  BY <1>27 DEF StructWorker, StructTake, StructRead, StructWipe, StructBuild,
     StructReady, StructError, StructThrow, StructFinish, Exists, rowVars,
     outVars, ingestVars, apiVars, envVars, SetStage, StructTo, queueVars,
     SetCourse, StructKeep, Attempts, Spend, TypeOK, RowsOK, OutOK, QueuesOK,
     WorkersOK, ApiOK
<1>28. ASSUME RedisDown PROVE TypeOK'
  <2>1. faults' \in 0..MaxFaults
    BY <1>28, ConstantsAssumption DEF RedisDown, TypeOK, ApiOK
  <2>2. redisUp' \in BOOLEAN
    BY <1>28 DEF RedisDown
  <2> QED
    BY <1>28, <2>1, <2>2 DEF RedisDown, rowVars, outVars, queueVars,
       ingestVars, buildVars, apiVars, TypeOK, RowsOK, OutOK, QueuesOK,
       WorkersOK, ApiOK
<1>29. ASSUME RedisUp PROVE TypeOK'
  BY <1>29 DEF RedisUp, rowVars, outVars, queueVars, ingestVars, buildVars,
     apiVars, TypeOK, RowsOK, OutOK, QueuesOK, WorkersOK, ApiOK, Request
<1>30. ASSUME Crash PROVE TypeOK'
  BY <1>30 DEF Crash, IngestJobs, StructJobs, rowVars, outVars, TypeOK,
     RowsOK, OutOK, QueuesOK, WorkersOK, ApiOK, Request
<1>31. CASE UNCHANGED vars
  BY <1>31 DEF vars, rowVars, outVars, queueVars, ingestVars, buildVars,
     apiVars, envVars, TypeOK, RowsOK, OutOK, QueuesOK, WorkersOK, ApiOK
<1> QED
  BY <1>1, <1>2, <1>3, <1>4, <1>5, <1>6, <1>7, <1>8, <1>9, <1>10, <1>11,
     <1>12, <1>13, <1>14, <1>15, <1>16, <1>17, <1>18, <1>19, <1>20, <1>21,
     <1>22, <1>23, <1>24, <1>25, <1>26, <1>27, <1>28, <1>29, <1>30, <1>31,
     <1>16a, <1>16b DEF
     Next, Client, Handler, Reconcile, Cleanup

-----------------------------------------------------------------------------
(* Learner work keeps the structure.                                       *)

\* What touches the structure or the learner rows.
LEMMA StructureFrame ==
    ASSUME TypeOK, [Next]_vars
    PROVE  \/ UNCHANGED <<struct, used>>
           \/ \E c \in Courses : Study(c) \/ EraseCourse(c)
           \/ StructWipe \/ StructBuild
<1>1. CASE Client
  BY <1>1 DEF Client, UploadCourse, PresignCourse, TopicCourse, ConfirmUpload,
     UpdateIntake, PutBytes, UpdateHalf, DeleteCourse, outVars
<1>2. CASE \E r \in Requests : Handler(r)
  BY <1>2, RequestCourse DEF Handler, UploadDocument, UploadEnqueue,
     UndoDocument, UndoCourse, PresignDocument, TopicEnqueue, ConfirmCheck,
     ConfirmFail, ConfirmReset, ConfirmCourse, ConfirmEnqueue, IntakeWrite,
     IntakeEnqueue, IntakeRevert, outVars
<1>3. CASE \E c \in Courses : Reconcile(c) \/ Cleanup(c)
  BY <1>3 DEF Reconcile, Cleanup, ReconcileList, ReconcileEnqueue,
     CleanupList, CleanupDestroy, outVars
<1>4. CASE IngestWorker \/ IngestTransient
  BY <1>4 DEF IngestWorker, IngestTake, IngestScan, IngestLoad, IngestCommit,
     IngestFinalize, IngestTransient, IngestCount, IngestEmbed,
     IngestConverge, IngestEnqueue, IngestTally, SetDocument, DocumentOnly,
     IngestFail, IngestThrow, IngestFinish, outVars
<1>5. CASE StructWorker
  BY <1>5 DEF StructWorker, StructTake, StructRead, StructReady, StructError,
     StructThrow, StructFinish, outVars
<1>6. CASE RedisDown \/ RedisUp \/ Crash \/ UNCHANGED vars
  BY <1>6 DEF RedisDown, RedisUp, Crash, vars, outVars
<1> QED
  BY <1>1, <1>2, <1>3, <1>4, <1>5, <1>6 DEF Next

\* Only the wipe could take subtopics away from learner rows, and it is refused.
LEMMA LearnerStep ==
    ASSUME TypeOK, LearnerWorkKeepsStructure, [Next]_vars
    PROVE  LearnerWorkKeepsStructure'
<1>1. CASE UNCHANGED <<struct, used>>
  BY <1>1 DEF LearnerWorkKeepsStructure
<1>2. ASSUME NEW c \in Courses, Study(c) PROVE LearnerWorkKeepsStructure'
  BY <1>2 DEF LearnerWorkKeepsStructure, Study, TypeOK, OutOK
<1>3. ASSUME NEW c \in Courses, EraseCourse(c) PROVE LearnerWorkKeepsStructure'
  BY <1>3 DEF LearnerWorkKeepsStructure, EraseCourse, TypeOK, OutOK
<1>4. CASE StructWipe
  BY <1>4 DEF LearnerWorkKeepsStructure, StructWipe, TypeOK, OutOK
<1>5. CASE StructBuild
  BY <1>5 DEF LearnerWorkKeepsStructure, StructBuild, TypeOK, OutOK
<1> QED
  BY <1>1, <1>2, <1>3, <1>4, <1>5, StructureFrame

-----------------------------------------------------------------------------
(* A deleted course leaves nothing.                                        *)

\* A statement on a course that is gone writes nothing.
LEMMA DeletedStep ==
    ASSUME TypeOK, DeletedLeavesNothing, LearnerWorkKeepsStructure, [Next]_vars
    PROVE  DeletedLeavesNothing'
<1> USE DEF SetCourse, TypeOK, RowsOK, OutOK, rowVars, outVars, Exists,
         EraseCourse, SetStage, DeletedLeavesNothing, LearnerWorkKeepsStructure
<1>1. CASE Client
  BY <1>1 DEF Client, UploadCourse, PresignCourse, TopicCourse, ConfirmUpload,
     UpdateIntake, PutBytes, UpdateHalf, Study, DeleteCourse
<1>2. CASE \E r \in Requests : Handler(r)
  <2> SUFFICES ASSUME NEW r \in Requests, Handler(r) PROVE DeletedLeavesNothing'
    BY <1>2
  <2>1. CASE UploadDocument(r) \/ UploadEnqueue(r)
    BY <2>1, RequestCourse DEF UploadDocument, UploadEnqueue
  <2>2. CASE UndoDocument(r)
    BY <2>2, RequestCourse DEF UndoDocument
  <2>3. CASE UndoCourse(r)
    BY <2>3, RequestCourse DEF UndoCourse
  <2>4. CASE PresignDocument(r) \/ TopicEnqueue(r)
    BY <2>4, RequestCourse DEF PresignDocument, TopicEnqueue
  <2>5. CASE \/ ConfirmCheck(r) \/ ConfirmFail(r) \/ ConfirmReset(r)
             \/ ConfirmCourse(r) \/ ConfirmEnqueue(r)
    BY <2>5, RequestCourse DEF ConfirmCheck, ConfirmFail, ConfirmReset,
       ConfirmCourse, ConfirmEnqueue
  <2>6. CASE IntakeWrite(r) \/ IntakeEnqueue(r) \/ IntakeRevert(r)
    BY <2>6, RequestCourse DEF IntakeWrite, IntakeEnqueue, IntakeRevert
  <2> QED
    BY <2>1, <2>2, <2>3, <2>4, <2>5, <2>6 DEF Handler
<1>3. CASE \E k \in Courses : Reconcile(k) \/ Cleanup(k)
  BY <1>3 DEF Reconcile, Cleanup, ReconcileList, ReconcileEnqueue,
     CleanupList, CleanupDestroy
<1>4. CASE IngestWorker \/ IngestTransient
  BY <1>4 DEF IngestWorker, IngestTake, IngestScan, IngestLoad, IngestCommit,
     IngestFinalize, IngestTransient, IngestCount, IngestEmbed,
     IngestConverge, IngestEnqueue, IngestTally, SetDocument, DocumentOnly,
     IngestFail, IngestThrow, IngestFinish, WorkersOK, Job
<1>5. CASE StructWorker
  BY <1>5 DEF StructWorker, StructTake, StructRead, StructWipe, StructBuild,
     StructReady, StructError, StructThrow, StructFinish, WorkersOK, Job
<1>6. CASE RedisDown \/ RedisUp \/ Crash \/ UNCHANGED vars
  BY <1>6 DEF RedisDown, RedisUp, Crash, vars
<1> QED
  BY <1>1, <1>2, <1>3, <1>4, <1>5, <1>6 DEF Next

-----------------------------------------------------------------------------
(* No job gets ahead of the intake.                                        *)

\* Recorded stays recorded until the course is deleted, and what enqueues or
\* starts a structuring job has seen it recorded.
LEMMA IntakeStep ==
    ASSUME TypeOK, LearnerWorkKeepsStructure, DeletedLeavesNothing, IntakeInv,
           [Next]_vars
    PROVE  IntakeInv'
<1> USE DEF IntakeInv, IntakeBeforeStructuring, IntakeGuards, OnlyAfterIntake,
      IntakeRecorded, At, Goto, Answer, Open, Job, Request, SetCourse, SetStage,
      EraseCourse, Exists, TypeOK, RowsOK, OutOK, WorkersOK, QueuesOK, ApiOK,
      rowVars, outVars, queueVars, ingestVars, buildVars, apiVars, envVars
<1>1. CASE Client
  <2>1. ASSUME NEW r \in Requests, NEW c \in Courses,
               UploadCourse(r, c) \/ PresignCourse(r, c) \/ TopicCourse(r, c)
        PROVE  IntakeInv'
    BY <2>1 DEF UploadCourse, PresignCourse, TopicCourse
  <2>2. ASSUME NEW r \in Requests, NEW c \in Courses,
               ConfirmUpload(r, c) \/ UpdateIntake(r, c)
        PROVE  IntakeInv'
    BY <2>2, SMTT(30) DEF ConfirmUpload, UpdateIntake
  <2>3. ASSUME NEW c \in Courses, PutBytes(c) \/ Study(c) PROVE IntakeInv'
    BY <2>3 DEF PutBytes, Study
  <2>4. ASSUME NEW c \in Courses, UpdateHalf(c) PROVE IntakeInv'
    BY <2>4 DEF UpdateHalf
  <2>5. ASSUME NEW c \in Courses, DeleteCourse(c) PROVE IntakeInv'
    BY <2>5 DEF DeleteCourse
  <2> QED
    BY <1>1, <2>1, <2>2, <2>3, <2>4, <2>5 DEF Client
<1>2. ASSUME NEW r \in Requests, Handler(r) PROVE IntakeInv'
  <2>1. CASE UploadDocument(r) \/ UploadEnqueue(r) \/ UndoDocument(r)
    BY <2>1, RequestCourse DEF UploadDocument, UploadEnqueue, UndoDocument
  <2>2. CASE UndoCourse(r)
    <3>1. CASE EraseCourse(req[r].c)
      <4>1. PICK c \in Courses : c = req[r].c
        BY RequestCourse
      <4>2. \A k \in Courses : OnlyAfterIntake(k) => OnlyAfterIntake(k)'
        BY <3>1, <4>1
      <4>3. IntakeBeforeStructuring'
        BY <3>1, <4>1
      <4> QED
        BY <2>2, <4>2, <4>3 DEF UndoCourse
    <3>2. CASE UNCHANGED <<rowVars, outVars>>
      BY <2>2, <3>2 DEF UndoCourse
    <3> QED
      BY <2>2, <3>1, <3>2 DEF UndoCourse
  <2>3. CASE PresignDocument(r) \/ TopicEnqueue(r)
    BY <2>3, RequestCourse DEF PresignDocument, TopicEnqueue
  <2>4. CASE ConfirmCheck(r) \/ ConfirmFail(r) \/ ConfirmReset(r)
    BY <2>4, RequestCourse DEF ConfirmCheck, ConfirmFail, ConfirmReset
  <2>5. CASE ConfirmCourse(r) \/ ConfirmEnqueue(r)
    BY <2>5, RequestCourse DEF ConfirmCourse, ConfirmEnqueue
  <2>6. CASE IntakeWrite(r)
    <3>1. IntakeBeforeStructuring'
      BY <2>6, RequestCourse DEF IntakeWrite
    <3>2. IntakeGuards'
      BY <2>6, RequestCourse, SMTT(30) DEF IntakeWrite
    <3> QED
      BY <3>1, <3>2
  <2>8. CASE IntakeRevert(r)
    BY <2>8, RequestCourse DEF IntakeRevert
  <2>7. CASE IntakeEnqueue(r)
    BY <2>7, RequestCourse DEF IntakeEnqueue, AddStruct, NewJob
  <2> QED
    BY <1>2, <2>1, <2>2, <2>3, <2>4, <2>5, <2>6, <2>7, <2>8 DEF Handler
<1>3. CASE \E k \in Courses : Reconcile(k) \/ Cleanup(k)
  BY <1>3, SMTT(30) DEF Reconcile, Cleanup, ReconcileList, ReconcileEnqueue,
     CleanupList, CleanupDestroy, NewJob
<1>4. CASE IngestWorker \/ IngestTransient
  BY <1>4 DEF IngestWorker, IngestTake, IngestScan, IngestLoad, IngestCommit,
     IngestFinalize, IngestTransient, IngestCount, IngestEmbed,
     IngestConverge, IngestEnqueue, IngestTally, SetDocument, DocumentOnly,
     IngestFail, IngestThrow, IngestFinish, IngestKeep, IngestTo, AddStruct,
     NewJob
<1>5. CASE StructWorker
  BY <1>5 DEF StructWorker, StructTake, StructRead, StructWipe, StructBuild,
     StructReady, StructError, StructThrow, StructFinish, StructKeep,
     StructTo, LearnerWorkKeepsStructure
<1>6. CASE RedisDown \/ RedisUp \/ Crash \/ UNCHANGED vars
  BY <1>6 DEF RedisDown, RedisUp, Crash, vars, StructJobs
<1> QED
  BY <1>1, <1>2, <1>3, <1>4, <1>5, <1>6 DEF Next

-----------------------------------------------------------------------------
(* Ready means structured.                                                 *)

\* Only the structuring worker makes a course ready; a course is born and
\* deleted once.
LEMMA StatusFrame ==
    ASSUME TypeOK, DeletedLeavesNothing, [Next]_vars, NEW c \in Courses
    PROVE  /\ status'[c] = "ready" => status[c] = "ready" \/ (StructReady /\ c = sjob.c)
           /\ status'[c] = "unborn" => status[c] = "unborn"
           /\ status[c] = "deleted" => status'[c] = "deleted"
           /\ status[c] = "unborn" => status'[c] \in {"unborn", "ingesting"}
<1> USE DEF SetCourse, TypeOK, RowsOK, rowVars, Exists, EraseCourse, SetStage
<1>1. CASE Client
  BY <1>1 DEF Client, UploadCourse, PresignCourse, TopicCourse, ConfirmUpload,
     UpdateIntake, PutBytes, UpdateHalf, Study, DeleteCourse
<1>2. ASSUME NEW r \in Requests, Handler(r) PROVE
           /\ status'[c] = "ready" => status[c] = "ready" \/ (StructReady /\ c = sjob.c)
           /\ status'[c] = "unborn" => status[c] = "unborn"
           /\ status[c] = "deleted" => status'[c] = "deleted"
           /\ status[c] = "unborn" => status'[c] \in {"unborn", "ingesting"}
  <2>1. CASE UndoCourse(r)
    BY <2>1, RequestCourse DEF UndoCourse
  <2>2. CASE ConfirmFail(r)
    BY <2>2, RequestCourse DEF ConfirmFail
  <2>5. CASE ConfirmCourse(r)
    BY <2>5, RequestCourse DEF ConfirmCourse
  <2>3. CASE IntakeWrite(r) \/ IntakeRevert(r)
    BY <2>3, RequestCourse DEF IntakeWrite, IntakeRevert
  <2>4. CASE \/ UploadDocument(r) \/ UploadEnqueue(r) \/ UndoDocument(r)
             \/ PresignDocument(r) \/ TopicEnqueue(r) \/ ConfirmCheck(r)
             \/ ConfirmReset(r) \/ ConfirmEnqueue(r) \/ IntakeEnqueue(r)
    BY <2>4 DEF UploadDocument, UploadEnqueue, UndoDocument, PresignDocument,
       TopicEnqueue, ConfirmCheck, ConfirmReset, ConfirmEnqueue, IntakeEnqueue
  <2> QED
    BY <1>2, <2>1, <2>2, <2>3, <2>4, <2>5 DEF Handler
<1>3. CASE \E k \in Courses : Reconcile(k) \/ Cleanup(k)
  BY <1>3 DEF Reconcile, Cleanup, ReconcileList, ReconcileEnqueue,
     CleanupList, CleanupDestroy
<1>4. CASE IngestWorker \/ IngestTransient
  BY <1>4 DEF IngestWorker, IngestTake, IngestScan, IngestLoad, IngestCommit,
     IngestFinalize, IngestTransient, IngestCount, IngestEmbed,
     IngestConverge, IngestEnqueue, IngestTally, SetDocument, DocumentOnly,
     IngestFail, IngestThrow, IngestFinish
<1>5. CASE StructWorker
  BY <1>5 DEF StructWorker, StructTake, StructRead, StructWipe, StructBuild,
     StructReady, StructError, StructThrow, StructFinish
<1>6. CASE RedisDown \/ RedisUp \/ Crash \/ UNCHANGED vars
  BY <1>6 DEF RedisDown, RedisUp, Crash, vars
<1> QED
  BY <1>1, <1>2, <1>3, <1>4, <1>5, <1>6 DEF Next

\* Only the structuring worker moves its own variables forward.
LEMMA BuildFrame ==
    ASSUME TypeOK, [Next]_vars
    PROVE  \/ StructWorker
           \/ /\ spc' = "idle" \/ UNCHANGED <<spc, sjob>>
              /\ UNCHANGED struct \/ \E c \in Courses : EraseCourse(c)
<1>1. CASE Client
  BY <1>1 DEF Client, UploadCourse, PresignCourse, TopicCourse, ConfirmUpload,
     UpdateIntake, PutBytes, UpdateHalf, Study, DeleteCourse, outVars,
     buildVars
<1>2. CASE \E r \in Requests : Handler(r)
  BY <1>2, RequestCourse DEF Handler, UploadDocument, UploadEnqueue,
     UndoDocument, UndoCourse, PresignDocument, TopicEnqueue, ConfirmCheck,
     ConfirmFail, ConfirmReset, ConfirmCourse, ConfirmEnqueue, IntakeWrite,
     IntakeEnqueue, IntakeRevert, outVars, buildVars
<1>3. CASE \E c \in Courses : Reconcile(c) \/ Cleanup(c)
  BY <1>3 DEF Reconcile, Cleanup, ReconcileList, ReconcileEnqueue,
     CleanupList, CleanupDestroy, outVars, buildVars
<1>4. CASE IngestWorker \/ IngestTransient
  BY <1>4 DEF IngestWorker, IngestTake, IngestScan, IngestLoad, IngestCommit,
     IngestFinalize, IngestTransient, IngestCount, IngestEmbed,
     IngestConverge, IngestEnqueue, IngestTally, SetDocument, DocumentOnly,
     IngestFail, IngestThrow, IngestFinish, IngestKeep, outVars, buildVars
<1>6. CASE RedisDown \/ RedisUp \/ Crash \/ UNCHANGED vars
  BY <1>6 DEF RedisDown, RedisUp, Crash, vars, outVars, buildVars
<1> QED
  BY <1>1, <1>2, <1>3, <1>4, <1>6 DEF Next

\* The worker makes a course ready after completing its structure, and wipes
\* or builds only courses that are not.
LEMMA ReadyStep ==
    ASSUME TypeOK, DeletedLeavesNothing, ReadyInv, [Next]_vars PROVE ReadyInv'
<1> USE DEF ReadyInv, ReadyMeansStructured, BuildGuards
<1>1. ASSUME NEW job \in structQ, StructTake(job) PROVE ReadyInv'
  BY <1>1 DEF StructTake, Exists, rowVars, outVars
<1>2. CASE StructRead
  BY <1>2 DEF StructRead, SetStage, SetCourse, StructTo, rowVars, outVars,
     TypeOK, RowsOK
<1>3. CASE StructWipe
  BY <1>3 DEF StructWipe, StructTo, rowVars, TypeOK, OutOK
<1>4. CASE StructBuild
  BY <1>4 DEF StructBuild, StructTo, rowVars, Exists, TypeOK, OutOK,
     WorkersOK, Job
<1>5. CASE StructReady
  BY <1>5 DEF StructReady, SetCourse, StructTo, rowVars, outVars, Exists,
     TypeOK, RowsOK
<1>6. CASE StructError
  BY <1>6 DEF StructError, SetCourse, StructTo, rowVars, outVars, TypeOK,
     RowsOK
<1>7. CASE StructThrow \/ StructFinish
  BY <1>7 DEF StructThrow, StructFinish, rowVars, outVars
<1>8. CASE /\ spc' = "idle" \/ UNCHANGED <<spc, sjob>>
           /\ UNCHANGED struct \/ \E c \in Courses : EraseCourse(c)
  <2>1. ASSUME NEW c \in Courses, status'[c] = "ready" PROVE struct'[c] = "complete"
    BY <1>8, <2>1, StatusFrame DEF EraseCourse, StructReady, TypeOK, RowsOK,
       OutOK
  <2>2. BuildGuards'
    BY <1>8, StatusFrame DEF EraseCourse, StructReady, StructTo, TypeOK,
       RowsOK, OutOK, WorkersOK, Job
  <2> QED
    BY <2>1, <2>2
<1> QED
  BY <1>1, <1>2, <1>3, <1>4, <1>5, <1>6, <1>7, <1>8, BuildFrame DEF
     StructWorker

-----------------------------------------------------------------------------
(* Nothing is made from nothing.                                           *)

\* A job of a course reaches the ingestion worker only through an upload, a
\* confirmation or a sweep.
LEMMA IngestJobsFrame ==
    ASSUME TypeOK, [Next]_vars, NEW c \in Courses, NoJobs(IngestJobs, c)
    PROVE  \/ NoJobs(IngestJobs', c)
           \/ sweep[c] = "ingest"
           \/ \E r \in Requests :
                 /\ req[r].c = c /\ req[r].pc \in {"upload-add", "confirm-add"}
                 /\ At(r, "idle")'
<1> USE DEF NoJobs, IngestJobs, rowVars, outVars, queueVars, ingestVars,
      buildVars, apiVars, envVars, At, TypeOK, QueuesOK, WorkersOK, IngestKeep,
      IngestTo
<1>1. CASE Client
  BY <1>1 DEF Client, UploadCourse, PresignCourse, TopicCourse, ConfirmUpload,
     UpdateIntake, PutBytes, UpdateHalf, Study, DeleteCourse
<1>2. CASE \E r \in Requests : Handler(r)
  BY <1>2, RequestCourse DEF Handler, UploadDocument, UploadEnqueue,
     UndoDocument, UndoCourse, PresignDocument, TopicEnqueue, ConfirmCheck,
     ConfirmFail, ConfirmReset, ConfirmCourse, ConfirmEnqueue, IntakeWrite,
     IntakeEnqueue, IntakeRevert, AddIngest, NewJob, Answer, Goto, Open,
     ApiOK, Request
<1>3. CASE \E k \in Courses : Reconcile(k) \/ Cleanup(k)
  BY <1>3 DEF Reconcile, Cleanup, ReconcileList, ReconcileEnqueue, CleanupList,
     CleanupDestroy, NewJob
<1>4. CASE IngestWorker \/ IngestTransient
  BY <1>4 DEF IngestWorker, IngestTake, IngestScan, IngestLoad, IngestCommit,
     IngestFinalize, IngestTransient, IngestCount, IngestEmbed,
     IngestConverge, IngestEnqueue, IngestTally, SetDocument, DocumentOnly,
     IngestFail, IngestThrow, IngestFinish, Job
<1>5. CASE StructWorker
  BY <1>5 DEF StructWorker, StructTake, StructRead, StructWipe, StructBuild,
     StructReady, StructError, StructThrow, StructFinish, StructKeep
<1>6. CASE RedisDown \/ RedisUp \/ Crash \/ UNCHANGED vars
  BY <1>6 DEF RedisDown, RedisUp, Crash, vars
<1> QED
  BY <1>1, <1>2, <1>3, <1>4, <1>5, <1>6 DEF Next

\* A job of a course reaches the structuring worker only through the intake
\* endpoint, the ingestion worker or a sweep.
LEMMA StructJobsFrame ==
    ASSUME TypeOK, [Next]_vars, NEW c \in Courses, NoJobs(StructJobs, c)
    PROVE  \/ NoJobs(StructJobs', c)
           \/ sweep[c] = "structure"
           \/ ipc = "enqueue" /\ ijob.c = c
           \/ \E r \in Requests : req[r].c = c /\ At(r, "intake-add")
<1> USE DEF NoJobs, StructJobs, rowVars, outVars, queueVars, ingestVars,
      buildVars, apiVars, envVars, At, TypeOK, QueuesOK, WorkersOK, IngestKeep,
      IngestTo
<1>1. CASE Client
  BY <1>1 DEF Client, UploadCourse, PresignCourse, TopicCourse, ConfirmUpload,
     UpdateIntake, PutBytes, UpdateHalf, Study, DeleteCourse
<1>2. CASE \E r \in Requests : Handler(r)
  BY <1>2, RequestCourse DEF Handler, UploadDocument, UploadEnqueue,
     UndoDocument, UndoCourse, PresignDocument, TopicEnqueue, ConfirmCheck,
     ConfirmFail, ConfirmReset, ConfirmCourse, ConfirmEnqueue, IntakeWrite,
     IntakeEnqueue, IntakeRevert, AddStruct, NewJob
<1>3. CASE \E k \in Courses : Reconcile(k) \/ Cleanup(k)
  BY <1>3 DEF Reconcile, Cleanup, ReconcileList, ReconcileEnqueue, CleanupList,
     CleanupDestroy, NewJob
<1>4. CASE IngestWorker \/ IngestTransient
  BY <1>4 DEF IngestWorker, IngestTake, IngestScan, IngestLoad, IngestCommit,
     IngestFinalize, IngestTransient, IngestCount, IngestEmbed,
     IngestConverge, IngestEnqueue, IngestTally, SetDocument, DocumentOnly,
     IngestFail, IngestThrow, IngestFinish, Job, AddStruct, NewJob
<1>5. CASE StructWorker
  BY <1>5 DEF StructWorker, StructTake, StructRead, StructWipe, StructBuild,
     StructReady, StructError, StructThrow, StructFinish, StructKeep, StructTo,
     Job
<1>6. CASE RedisDown \/ RedisUp \/ Crash \/ UNCHANGED vars
  BY <1>6 DEF RedisDown, RedisUp, Crash, vars
<1> QED
  BY <1>1, <1>2, <1>3, <1>4, <1>5, <1>6 DEF Next

\* What a sweep decides, it decides on the status it read; no course is listed
\* for ingestion while its document is being created.
LEMMA SweepFrame ==
    ASSUME TypeOK, [Next]_vars, NEW c \in Courses
    PROVE  \/ sweep'[c] \in {"none", sweep[c]}
           \/ /\ sweep'[c] = "ingest" /\ status[c] = "ingesting"
              /\ \A r \in Requests :
                    req[r].c = c => req[r].pc \notin LandingPcs
           \/ /\ sweep'[c] = "structure"
              /\ status[c] \in {"structuring", "intake_pending"}
           \/ sweep'[c] = "destroy" /\ status[c] = "failed"
<1> USE DEF apiVars, TypeOK, ApiOK
<1>1. CASE Client
  BY <1>1 DEF Client, UploadCourse, PresignCourse, TopicCourse, ConfirmUpload,
     UpdateIntake, PutBytes, UpdateHalf, Study, DeleteCourse
<1>2. CASE \E r \in Requests : Handler(r)
  BY <1>2 DEF Handler, UploadDocument, UploadEnqueue, UndoDocument,
     UndoCourse, PresignDocument, TopicEnqueue, ConfirmCheck, ConfirmFail,
     ConfirmReset, ConfirmCourse, ConfirmEnqueue, IntakeWrite, IntakeEnqueue,
     IntakeRevert
<1>3. CASE \E k \in Courses : Reconcile(k) \/ Cleanup(k)
  BY <1>3 DEF Reconcile, Cleanup, ReconcileList, ReconcileEnqueue, CleanupList,
     CleanupDestroy, Uploading, UploadPcs, LandingPcs
<1>4. CASE IngestWorker \/ IngestTransient
  BY <1>4 DEF IngestWorker, IngestTake, IngestScan, IngestLoad, IngestCommit,
     IngestFinalize, IngestTransient, IngestCount, IngestEmbed,
     IngestConverge, IngestEnqueue, IngestTally, SetDocument, DocumentOnly,
     IngestFail, IngestThrow, IngestFinish, IngestKeep
<1>5. CASE StructWorker
  BY <1>5 DEF StructWorker, StructTake, StructRead, StructWipe, StructBuild,
     StructReady, StructError, StructThrow, StructFinish, StructKeep
<1>6. CASE RedisDown \/ RedisUp \/ Crash \/ UNCHANGED vars
  BY <1>6 DEF RedisDown, RedisUp, Crash, vars
<1> QED
  BY <1>1, <1>2, <1>3, <1>4, <1>5, <1>6 DEF Next

\* Who changes the status of a course.
LEMMA RowFrame ==
    ASSUME TypeOK, [Next]_vars, NEW c \in Courses, Exists(c), Exists(c)'
    PROVE  \/ status'[c] = status[c] /\ stage'[c] = stage[c]
           \/ spc # "idle" /\ sjob.c = c
           \/ ipc \in {"embed", "converge"} /\ ijob.c = c
           \/ ipc = "fail" /\ ijob.c = c /\ status'[c] = "failed"
           \/ \E r \in Requests :
                 /\ req[r].c = c
                 /\ req[r].pc \in {"confirm-fail", "confirm-course",
                                  "intake-flip", "intake-revert"}
<1> USE DEF rowVars, outVars, queueVars, ingestVars, buildVars, apiVars,
      envVars, At, Exists, SetCourse, SetStage, EraseCourse, Goto, Answer,
      Open, TypeOK, RowsOK, OutOK, QueuesOK, WorkersOK, ApiOK, Request, Job
<1>1. CASE Client
  BY <1>1 DEF Client, UploadCourse, PresignCourse, TopicCourse, ConfirmUpload,
     UpdateIntake, PutBytes, UpdateHalf, Study, DeleteCourse
<1>2. CASE \E r \in Requests : Handler(r)
  BY <1>2, RequestCourse DEF Handler, UploadDocument, UploadEnqueue,
     UndoDocument, UndoCourse, PresignDocument, TopicEnqueue, ConfirmCheck,
     ConfirmFail, ConfirmReset, ConfirmCourse, ConfirmEnqueue, IntakeWrite,
     IntakeEnqueue, IntakeRevert
<1>3. CASE \E k \in Courses : Reconcile(k) \/ Cleanup(k)
  BY <1>3 DEF Reconcile, Cleanup, ReconcileList, ReconcileEnqueue, CleanupList,
     CleanupDestroy
<1>4. CASE IngestWorker \/ IngestTransient
  BY <1>4 DEF IngestWorker, IngestTake, IngestScan, IngestLoad, IngestCommit,
     IngestFinalize, IngestTransient, IngestCount, IngestEmbed,
     IngestConverge, IngestEnqueue, IngestTally, SetDocument, DocumentOnly,
     IngestFail, IngestThrow, IngestFinish, IngestKeep, IngestTo
<1>5. CASE StructWorker
  BY <1>5 DEF StructWorker, StructTake, StructRead, StructWipe, StructBuild,
     StructReady, StructError, StructThrow, StructFinish, StructKeep
<1>6. CASE RedisDown \/ RedisUp \/ Crash \/ UNCHANGED vars
  BY <1>6 DEF RedisDown, RedisUp, Crash, vars
<1> QED
  BY <1>1, <1>2, <1>3, <1>4, <1>5, <1>6 DEF Next

\* Who creates the document row, and who takes it away.
LEMMA DocFrame ==
    ASSUME TypeOK, [Next]_vars, NEW c \in Courses, Exists(c), Exists(c)'
    PROVE  /\ doc'[c] = "none" => doc[c] = "none" \/
                  \E r \in Requests : At(r, "undo-doc") /\ req[r].c = c
           /\ doc[c] = "none" =>
                 \/ doc'[c] = "none"
                 \/ \E r \in Requests :
                      /\ req[r].c = c
                      /\ req[r].pc \in {"upload-doc", "presign-doc"}
                      /\ req'[r].pc # "upload-doc"
<1> USE DEF rowVars, outVars, queueVars, ingestVars, buildVars, apiVars,
      envVars, At, Exists, SetCourse, SetStage, EraseCourse, Goto, Answer,
      Open, TypeOK, RowsOK, OutOK, QueuesOK, WorkersOK, ApiOK, Request, Job
<1>1. CASE Client
  BY <1>1 DEF Client, UploadCourse, PresignCourse, TopicCourse, ConfirmUpload,
     UpdateIntake, PutBytes, UpdateHalf, Study, DeleteCourse
<1>2. CASE \E r \in Requests : Handler(r)
  BY <1>2, RequestCourse DEF Handler, UploadDocument, UploadEnqueue,
     UndoDocument, UndoCourse, PresignDocument, TopicEnqueue, ConfirmCheck,
     ConfirmFail, ConfirmReset, ConfirmCourse, ConfirmEnqueue, IntakeWrite,
     IntakeEnqueue, IntakeRevert
<1>3. CASE \E k \in Courses : Reconcile(k) \/ Cleanup(k)
  BY <1>3 DEF Reconcile, Cleanup, ReconcileList, ReconcileEnqueue, CleanupList,
     CleanupDestroy
<1>4. CASE IngestWorker \/ IngestTransient
  BY <1>4 DEF IngestWorker, IngestTake, IngestScan, IngestLoad, IngestCommit,
     IngestFinalize, IngestTransient, IngestCount, IngestEmbed,
     IngestConverge, IngestEnqueue, IngestTally, SetDocument, DocumentOnly,
     IngestFail, IngestThrow, IngestFinish, IngestKeep, IngestTo
<1>5. CASE StructWorker
  BY <1>5 DEF StructWorker, StructTake, StructRead, StructWipe, StructBuild,
     StructReady, StructError, StructThrow, StructFinish, StructKeep
<1>6. CASE RedisDown \/ RedisUp \/ Crash \/ UNCHANGED vars
  BY <1>6 DEF RedisDown, RedisUp, Crash, vars
<1> QED
  BY <1>1, <1>2, <1>3, <1>4, <1>5, <1>6 DEF Next

\* Only the structuring worker makes a structure.
LEMMA StructFrame ==
    ASSUME TypeOK, [Next]_vars, NEW c \in Courses, struct[c] = "none"
    PROVE  struct'[c] = "none" \/ (spc # "idle" /\ sjob.c = c)
<1> USE DEF rowVars, outVars, queueVars, ingestVars, buildVars, apiVars,
      envVars, At, Exists, SetCourse, SetStage, EraseCourse, Goto, Answer,
      Open, TypeOK, RowsOK, OutOK, QueuesOK, WorkersOK, ApiOK, Request, Job
<1>1. CASE Client
  BY <1>1 DEF Client, UploadCourse, PresignCourse, TopicCourse, ConfirmUpload,
     UpdateIntake, PutBytes, UpdateHalf, Study, DeleteCourse
<1>2. CASE \E r \in Requests : Handler(r)
  BY <1>2, RequestCourse DEF Handler, UploadDocument, UploadEnqueue,
     UndoDocument, UndoCourse, PresignDocument, TopicEnqueue, ConfirmCheck,
     ConfirmFail, ConfirmReset, ConfirmCourse, ConfirmEnqueue, IntakeWrite,
     IntakeEnqueue, IntakeRevert
<1>3. CASE \E k \in Courses : Reconcile(k) \/ Cleanup(k)
  BY <1>3 DEF Reconcile, Cleanup, ReconcileList, ReconcileEnqueue, CleanupList,
     CleanupDestroy
<1>4. CASE IngestWorker \/ IngestTransient
  BY <1>4 DEF IngestWorker, IngestTake, IngestScan, IngestLoad, IngestCommit,
     IngestFinalize, IngestTransient, IngestCount, IngestEmbed,
     IngestConverge, IngestEnqueue, IngestTally, SetDocument, DocumentOnly,
     IngestFail, IngestThrow, IngestFinish, IngestKeep, IngestTo
<1>5. CASE StructWorker
  BY <1>5 DEF StructWorker, StructTake, StructRead, StructWipe, StructBuild,
     StructReady, StructError, StructThrow, StructFinish, StructKeep
<1>6. CASE RedisDown \/ RedisUp \/ Crash \/ UNCHANGED vars
  BY <1>6 DEF RedisDown, RedisUp, Crash, vars
<1> QED
  BY <1>1, <1>2, <1>3, <1>4, <1>5, <1>6 DEF Next

\* The ingestion worker gets to work on a course only if it has a document.
LEMMA WorkerFrame ==
    ASSUME TypeOK, [Next]_vars, NEW c \in Courses,
           ipc' \in WorkPcs, ijob'.c = c
    PROVE  /\ ipc # "idle" /\ ijob.c = c
           /\ \/ ipc \in WorkPcs
              \/ doc[c] # "none"
<1> USE DEF WorkPcs, rowVars, outVars, queueVars, ingestVars, buildVars,
      apiVars, envVars, At, Exists, SetCourse, SetStage, EraseCourse, Goto,
      Answer, Open, TypeOK, RowsOK, OutOK, QueuesOK, WorkersOK, ApiOK, Request,
      Job
<1>1. CASE Client
  BY <1>1 DEF Client, UploadCourse, PresignCourse, TopicCourse, ConfirmUpload,
     UpdateIntake, PutBytes, UpdateHalf, Study, DeleteCourse
<1>2. CASE \E r \in Requests : Handler(r)
  BY <1>2, RequestCourse DEF Handler, UploadDocument, UploadEnqueue,
     UndoDocument, UndoCourse, PresignDocument, TopicEnqueue, ConfirmCheck,
     ConfirmFail, ConfirmReset, ConfirmCourse, ConfirmEnqueue, IntakeWrite,
     IntakeEnqueue, IntakeRevert
<1>3. CASE \E k \in Courses : Reconcile(k) \/ Cleanup(k)
  BY <1>3 DEF Reconcile, Cleanup, ReconcileList, ReconcileEnqueue, CleanupList,
     CleanupDestroy
<1>4. CASE IngestWorker \/ IngestTransient
  BY <1>4 DEF IngestWorker, IngestTake, IngestScan, IngestLoad, IngestCommit,
     IngestFinalize, IngestTransient, IngestCount, IngestEmbed,
     IngestConverge, IngestEnqueue, IngestTally, SetDocument, DocumentOnly,
     IngestFail, IngestThrow, IngestFinish, IngestKeep, IngestTo, Pending
<1>5. CASE StructWorker
  BY <1>5 DEF StructWorker, StructTake, StructRead, StructWipe, StructBuild,
     StructReady, StructError, StructThrow, StructFinish, StructKeep
<1>6. CASE RedisDown \/ RedisUp \/ Crash \/ UNCHANGED vars
  BY <1>6 DEF RedisDown, RedisUp, Crash, vars
<1> QED
  BY <1>1, <1>2, <1>3, <1>4, <1>5, <1>6 DEF Next

\* How a request about course c moves, as far as NothingInv needs to know.
RequestMoves(r, c) ==
    /\ ~At(r, "idle")' =>
          (req[r].c = c /\ ~At(r, "idle")) \/ status'[c] # "unborn"
    /\ (req[r].pc \notin {"idle", "intake-note"})' =>
          \/ req[r].c = c /\ req[r].pc \notin {"idle", "intake-note"}
          \/ stage[c] # "queued" \/ status[c] # "ingesting"
    /\ (req[r].pc \in LandingPcs)' =>
          \/ /\ req[r].c = c /\ req[r].pc \in LandingPcs
             /\ At(r, "upload-doc")' => At(r, "upload-doc")
          \/ UploadCourse(r, c)
          \/ At(r, "presign-doc") /\ req[r].c = c /\ ~Exists(c)
    /\ (req[r].pc \in LatePcs)' =>
          \/ status[c] = "intake_pending"
          \/ /\ req[r].c = c
             /\ \/ req[r].pc \in LatePcs
                \/ At(r, "confirm-check") /\ doc[c] # "none"

\* Every step moves every request so.
LEMMA RequestFrame ==
    ASSUME TypeOK, [Next]_vars, NEW c \in Courses, NEW r \in Requests,
           req'[r].c = c
    PROVE  RequestMoves(r, c)
<1> USE DEF RequestMoves, LatePcs, LandingPcs, rowVars, outVars, queueVars,
      ingestVars, buildVars, apiVars, envVars, At, Exists, SetCourse, SetStage,
      EraseCourse, Goto, Answer, Open, TypeOK, RowsOK, OutOK, QueuesOK,
      WorkersOK, ApiOK, Request, Job
<1>0. CASE req'[r] = req[r] \/ req'[r].pc = "idle"
  BY <1>0
<1>1. CASE Client
  <2>1. ASSUME NEW q \in Requests, NEW k \in Courses, UploadCourse(q, k)
        PROVE  RequestMoves(r, c)
    BY <1>0, <2>1 DEF UploadCourse
  <2>2. ASSUME NEW q \in Requests, NEW k \in Courses,
               PresignCourse(q, k) \/ TopicCourse(q, k)
        PROVE  RequestMoves(r, c)
    BY <1>0, <2>2 DEF PresignCourse, TopicCourse
  <2>3. ASSUME NEW q \in Requests, NEW k \in Courses, ConfirmUpload(q, k)
        PROVE  RequestMoves(r, c)
    BY <1>0, <2>3 DEF ConfirmUpload
  <2>4. ASSUME NEW q \in Requests, NEW k \in Courses, UpdateIntake(q, k)
        PROVE  RequestMoves(r, c)
    BY <1>0, <2>4 DEF UpdateIntake
  <2>5. CASE UNCHANGED req
    BY <1>0, <2>5
  <2> QED
    BY <1>1, <2>1, <2>2, <2>3, <2>4, <2>5 DEF Client, PutBytes, UpdateHalf,
       Study, DeleteCourse
<1>2. ASSUME NEW q \in Requests, Handler(q) PROVE RequestMoves(r, c)
  <2>1. CASE \/ UploadDocument(q) \/ UploadEnqueue(q)
             \/ UndoDocument(q) \/ UndoCourse(q)
    BY <1>0, <2>1 DEF UploadDocument, UploadEnqueue, UndoDocument, UndoCourse
  <2>2. CASE PresignDocument(q) \/ TopicEnqueue(q)
    BY <1>0, <2>2 DEF PresignDocument, TopicEnqueue
  <2>3. CASE \/ ConfirmCheck(q) \/ ConfirmFail(q) \/ ConfirmReset(q)
             \/ ConfirmCourse(q) \/ ConfirmEnqueue(q)
    BY <1>0, <2>3 DEF ConfirmCheck, ConfirmFail, ConfirmReset, ConfirmCourse,
       ConfirmEnqueue
  <2>4. CASE IntakeWrite(q) \/ IntakeEnqueue(q) \/ IntakeRevert(q)
    BY <1>0, <2>4 DEF IntakeWrite, IntakeEnqueue, IntakeRevert
  <2> QED
    BY <1>2, <2>1, <2>2, <2>3, <2>4 DEF Handler
<1>3. CASE \E k \in Courses : Reconcile(k) \/ Cleanup(k)
  BY <1>0, <1>3 DEF Reconcile, Cleanup, ReconcileList, ReconcileEnqueue,
     CleanupList, CleanupDestroy
<1>4. CASE IngestWorker \/ IngestTransient
  BY <1>0, <1>4 DEF IngestWorker, IngestTake, IngestScan, IngestLoad,
     IngestCommit, IngestFinalize, IngestTransient, IngestCount, IngestEmbed,
     IngestConverge, IngestEnqueue, IngestTally, SetDocument, DocumentOnly,
     IngestFail, IngestThrow, IngestFinish, IngestKeep
<1>5. CASE StructWorker
  BY <1>0, <1>5 DEF StructWorker, StructTake, StructRead, StructWipe,
     StructBuild, StructReady, StructError, StructThrow, StructFinish,
     StructKeep
<1>6. CASE RedisDown \/ RedisUp \/ UNCHANGED vars
  BY <1>0, <1>6 DEF RedisDown, RedisUp, vars
<1>7. CASE Crash
  <2>1. req'[r] = [req[r] EXCEPT !.pc = "idle"] /\ req[r] \in Request
    BY <1>7 DEF Crash
  <2>2. req'[r].pc = "idle"
    BY <2>1, Zenon
  <2> QED
    BY <1>0, <2>2
<1> QED
  BY <1>1, <1>2, <1>3, <1>4, <1>5, <1>6, <1>7 DEF Next

\* Whatever names a course names one that has been created.
LEMMA UnknownStep ==
    ASSUME TypeOK, DeletedLeavesNothing, UnbornUnknown, [Next]_vars
    PROVE  UnbornUnknown'
<1> SUFFICES ASSUME NEW c \in Courses, status'[c] = "unborn"
             PROVE  Unknown(c)'
  BY DEF UnbornUnknown
<1>1. Unknown(c)
  BY StatusFrame DEF UnbornUnknown
<1>2. NoJobs(IngestJobs, c)'
  BY <1>1, IngestJobsFrame DEF Unknown, At, NoJobs
<1>3. NoJobs(StructJobs, c)'
  BY <1>1, StructJobsFrame DEF Unknown, At, NoJobs, IngestJobs
<1>4. sweep'[c] = "none"
  BY <1>1, StatusFrame, SweepFrame DEF Unknown
<1>5. \A r \in Requests : req'[r].c = c => At(r, "idle")'
  BY <1>1, RequestFrame DEF Unknown, RequestMoves
<1> QED
  BY <1>2, <1>3, <1>4, <1>5 DEF Unknown

\* An upload stays the only one to act on its course until it has queued the
\* job or taken the document away again.
LEMMA AloneStep ==
    ASSUME TypeOK, DeletedLeavesNothing, UnbornUnknown, UploadAlone, [Next]_vars
    PROVE  UploadAlone'
<1> SUFFICES ASSUME NEW r \in Requests, NEW c \in Courses, req'[r].c = c,
                    Exists(c)', req'[r].pc \in LandingPcs
             PROVE  Alone(r, c)'
  <2>1. TypeOK'
    BY TypeStep
  <2>2. \A q \in Requests : req'[q].c \in Courses
    BY <2>1 DEF TypeOK, ApiOK, Request
  <2> QED
    BY <2>2 DEF UploadAlone
<1>1. CASE UploadCourse(r, c)
  <2>1. status[c] = "unborn" /\ doc[c] = "none" /\ struct[c] = "none"
    BY <1>1 DEF UploadCourse, DeletedLeavesNothing, Exists
  <2>2. Unknown(c)
    BY <2>1 DEF UnbornUnknown
  <2>3. /\ status'[c] = "ingesting" /\ stage'[c] = "queued"
        /\ struct'[c] = "none" /\ doc'[c] = "none" /\ sweep'[c] = sweep[c]
        /\ \A q \in Requests \ {r} : req'[q] = req[q]
    BY <1>1, <2>1 DEF UploadCourse, SetCourse, outVars, Open, TypeOK, RowsOK,
       ApiOK
  <2>4. NoJobs(IngestJobs, c)' /\ NoJobs(StructJobs, c)'
    BY <1>1, <2>2 DEF UploadCourse, Unknown, NoJobs, IngestJobs, StructJobs,
       queueVars, ingestVars, buildVars
  <2> QED
    BY <2>2, <2>3, <2>4 DEF Unknown, Alone, At
<1>2. CASE ~UploadCourse(r, c)
  <2>1. status[c] # "unborn"
    BY <1>2, RequestFrame DEF RequestMoves, UnbornUnknown, Unknown, At,
       LandingPcs
  <2>2. Exists(c)
    BY <2>1, StatusFrame DEF Exists
  <2>3. /\ req[r].c = c /\ req[r].pc \in LandingPcs
        /\ At(r, "upload-doc")' => At(r, "upload-doc")
    BY <1>2, <2>2, RequestFrame DEF RequestMoves
  <2>4. Alone(r, c)
    BY <2>2, <2>3 DEF UploadAlone
  <2>5. (ipc # "idle" => ijob.c # c) /\ (spc # "idle" => sjob.c # c)
    BY <2>4 DEF Alone, NoJobs, IngestJobs, StructJobs
  <2>6. \A q \in Requests :
           req[q].c = c => req[q].pc \in LandingPcs \cup {"idle", "intake-note"}
    BY <2>3, <2>4 DEF Alone
  <2>7. status'[c] = "ingesting" /\ stage'[c] = "queued" /\ struct'[c] = "none"
    BY <2>2, <2>4, <2>5, <2>6, RowFrame, StructFrame DEF Alone, LandingPcs, At
  <2>8. ASSUME At(r, "upload-doc")' PROVE doc'[c] = "none"
    <3>1. doc[c] = "none"
      BY <2>3, <2>4, <2>8 DEF Alone
    <3>2. \A q \in Requests :
             req[q].c = c /\ req[q].pc \in {"upload-doc", "presign-doc"} => q = r
      BY <2>4 DEF Alone
    <3> QED
      BY <2>2, <2>5, <2>8, <3>1, <3>2, DocFrame DEF At
  <2>9. sweep'[c] = "none"
    BY <2>3, <2>4, SweepFrame DEF Alone
  <2>10. NoJobs(StructJobs, c)'
    <3>1. \A q \in Requests : req[q].c = c => ~At(q, "intake-add")
      BY <2>6 DEF LandingPcs, At
    <3> QED
      BY <2>4, <2>5, <3>1, StructJobsFrame DEF Alone, NoJobs
  <2>11. NoJobs(IngestJobs, c)'
    BY <2>3, <2>4, IngestJobsFrame DEF Alone, At, LandingPcs, NoJobs
  <2>12. ASSUME NEW q \in Requests \ {r}, req'[q].c = c
         PROVE  req'[q].pc \in {"idle", "intake-note"}
    BY <2>4, <2>12, RequestFrame DEF Alone, RequestMoves
  <2> QED
    BY <2>7, <2>8, <2>9, <2>10, <2>11, <2>12 DEF Alone
<1> QED
  BY <1>1, <1>2

\* A course stands still from its creation to its document, and from the
\* roll-back of that on.
LEMMA StillStep ==
    ASSUME TypeOK, DeletedLeavesNothing, NothingInv, [Next]_vars
    PROVE  NothingUnderWay'
<1> USE DEF NothingInv
<1> SUFFICES ASSUME NEW c \in Courses, Exists(c)', doc'[c] = "none"
             PROVE  Still(c)'
  BY DEF NothingUnderWay
<1>1. ASSUME status[c] = "unborn" PROVE Still(c)'
  <2>1. Unknown(c) /\ struct[c] = "none"
    BY <1>1 DEF UnbornUnknown, DeletedLeavesNothing, Exists
  <2>2. (spc # "idle" => sjob.c # c) /\ (ipc # "idle" => ijob.c # c)
    BY <2>1 DEF Unknown, NoJobs, IngestJobs, StructJobs
  <2>3. status'[c] \in {"ingesting", "failed"} /\ struct'[c] = "none"
    BY <1>1, <2>1, <2>2, StatusFrame, StructFrame DEF Exists
  <2>4. NoJobs(StructJobs, c)'
    BY <2>1, <2>2, StructJobsFrame DEF Unknown, At, NoJobs
  <2>5. sweep'[c] # "structure"
    BY <1>1, <2>1, SweepFrame DEF Unknown
  <2>6. ASSUME NEW r \in Requests, req'[r].c = c PROVE req'[r].pc \notin LatePcs
    BY <1>1, <2>1, <2>6, RequestFrame DEF Unknown, RequestMoves, At, LatePcs
  <2>7. ipc' \in WorkPcs => ijob'.c # c
    BY <2>2, WorkerFrame
  <2> QED
    BY <2>3, <2>4, <2>5, <2>6, <2>7 DEF Still
<1>2. ASSUME Exists(c) PROVE Still(c)'
  <2>1. /\ Still(c)
        /\ doc[c] # "none" => (ipc # "idle" => ijob.c # c)
        /\ doc[c] # "none" =>
              \A r \in Requests : req[r].c = c => ~At(r, "confirm-check")
    <3>1. CASE doc[c] = "none"
      BY <1>2, <3>1 DEF NothingUnderWay
    <3>2. CASE doc[c] # "none"
      <4>1. PICK r \in Requests : At(r, "undo-doc") /\ req[r].c = c
        BY <1>2, <3>2, DocFrame
      <4>2. Alone(r, c)
        BY <1>2, <4>1 DEF UploadAlone, LandingPcs, At
      <4> QED
        BY <4>1, <4>2 DEF Alone, Still, At, NoJobs, IngestJobs, LatePcs, WorkPcs
    <3> QED
      BY <3>1, <3>2
  <2>2. spc # "idle" => sjob.c # c
    BY <2>1 DEF Still, NoJobs, StructJobs
  <2>3. status'[c] \in {"ingesting", "failed"} /\ struct'[c] = "none"
    BY <1>2, <2>1, <2>2, RowFrame, StructFrame DEF Still, At, LatePcs, WorkPcs
  <2>4. NoJobs(StructJobs, c)'
    BY <2>1, StructJobsFrame DEF Still, At, LatePcs, WorkPcs, NoJobs
  <2>5. sweep'[c] # "structure"
    BY <2>1, SweepFrame DEF Still
  <2>6. ASSUME NEW r \in Requests, req'[r].c = c PROVE req'[r].pc \notin LatePcs
    BY <2>1, <2>6, RequestFrame DEF Still, RequestMoves
  <2>7. ipc' \in WorkPcs => ijob'.c # c
    BY <2>1, WorkerFrame DEF Still
  <2> QED
    BY <2>3, <2>4, <2>5, <2>6, <2>7 DEF Still
<1> QED
  BY <1>1, <1>2, StatusFrame DEF Exists

LEMMA NothingStep ==
    ASSUME TypeOK, DeletedLeavesNothing, NothingInv, [Next]_vars
    PROVE  NothingInv'
BY UnknownStep, AloneStep, StillStep DEF NothingInv

-----------------------------------------------------------------------------
(* One job per id.                                                         *)

\* An id is queued when no job of the queue has it, and leaves with its job or
\* comes back with the next attempt.
LEMMA JobsStep ==
    ASSUME TypeOK, JobsInv, [Next]_vars PROVE JobsInv'
<1> USE DEF JobsInv, JobIdsOnce, OneJobPerId, JobsHeld, IngestJobs, StructJobs,
      rowVars, outVars, queueVars, ingestVars, buildVars, apiVars, envVars,
      TypeOK, QueuesOK, WorkersOK
<1>1. CASE UNCHANGED <<queueVars, ingestVars, buildVars>>
  BY <1>1
<1>2. CASE Client
  BY <1>1, <1>2 DEF Client, UploadCourse, PresignCourse, TopicCourse,
     ConfirmUpload, UpdateIntake, PutBytes, UpdateHalf, Study, DeleteCourse
<1>3. ASSUME NEW r \in Requests, Handler(r) PROVE JobsInv'
  <2>1. ASSUME NEW c \in Courses, AddIngest(c),
               UNCHANGED <<structQ, spent, ingestVars, buildVars>>
        PROVE  JobsInv'
    BY <2>1, ConstantsAssumption DEF AddIngest, BaseLive, NewJob, Job
  <2>2. ASSUME NEW c \in Courses, AddStruct(c),
               UNCHANGED <<ingestQ, spent, ingestVars, buildVars>>
        PROVE  JobsInv'
    BY <2>2, ConstantsAssumption DEF AddStruct, BaseLive, NewJob, Job
  <2> QED
    BY <1>1, <1>3, <2>1, <2>2, RequestCourse DEF Handler, UploadDocument,
       UploadEnqueue, UndoDocument, UndoCourse, PresignDocument, TopicEnqueue,
       ConfirmCheck, ConfirmFail, ConfirmReset, ConfirmCourse, ConfirmEnqueue,
       IntakeWrite, IntakeEnqueue, IntakeRevert
<1>4. ASSUME NEW c \in Courses, Reconcile(c) \/ Cleanup(c) PROVE JobsInv'
  <2>1. ASSUME NEW i \in FreeIds(IngestJobs, c),
               ingestQ' = ingestQ \cup {NewJob(c, i)},
               UNCHANGED <<structQ, spent, ingestVars, buildVars>>
        PROVE  JobsInv'
    BY <2>1, ConstantsAssumption DEF FreeIds, NewJob, Job
  <2>2. ASSUME NEW i \in FreeIds(StructJobs, c),
               structQ' = structQ \cup {NewJob(c, i)},
               UNCHANGED <<ingestQ, spent, ingestVars, buildVars>>
        PROVE  JobsInv'
    BY <2>2, ConstantsAssumption DEF FreeIds, NewJob, Job
  <2> HIDE DEF IngestJobs, StructJobs, JobsInv
  <2> QED
    BY <1>1, <1>4, <2>1, <2>2 DEF Reconcile, Cleanup, ReconcileList,
       ReconcileEnqueue, CleanupList, CleanupDestroy
<1>5. CASE IngestWorker \/ IngestTransient
  <2>1. ASSUME NEW job \in ingestQ, IngestTake(job) PROVE JobsInv'
    BY <2>1 DEF IngestTake
  <2>2. CASE IngestEnqueue
    BY <2>2, ConstantsAssumption DEF IngestEnqueue, IngestTo, AddStruct,
       BaseLive, NewJob, Job
  <2>3. CASE IngestThrow
    BY <2>3 DEF IngestThrow, Spend, Job
  <2>4. CASE IngestFinish
    BY <2>4 DEF IngestFinish, Spend, Job
  <2>5. CASE \/ IngestScan \/ IngestLoad \/ IngestCommit \/ IngestFinalize
             \/ IngestCount \/ IngestEmbed \/ IngestConverge \/ IngestTally
             \/ IngestFail \/ IngestTransient
    BY <2>5 DEF IngestScan, IngestLoad, IngestCommit, IngestFinalize,
       IngestCount, IngestEmbed, IngestConverge, IngestTally, IngestFail,
       IngestTransient, DocumentOnly, IngestTo, IngestKeep
  <2> QED
    BY <1>5, <2>1, <2>2, <2>3, <2>4, <2>5 DEF IngestWorker
<1>6. CASE StructWorker
  <2>1. ASSUME NEW job \in structQ, StructTake(job) PROVE JobsInv'
    BY <2>1 DEF StructTake
  <2>2. CASE StructThrow
    BY <2>2 DEF StructThrow, Spend, Job
  <2>3. CASE StructFinish
    BY <2>3 DEF StructFinish, Spend, Job
  <2>4. CASE \/ StructRead \/ StructWipe \/ StructBuild \/ StructReady
             \/ StructError
    BY <2>4 DEF StructRead, StructWipe, StructBuild, StructReady, StructError,
       StructTo, StructKeep
  <2> QED
    BY <1>6, <2>1, <2>2, <2>3, <2>4 DEF StructWorker
<1>7. CASE RedisDown \/ RedisUp \/ Crash \/ UNCHANGED vars
  BY <1>7 DEF RedisDown, RedisUp, Crash, vars
<1> QED
  BY <1>2, <1>3, <1>4, <1>5, <1>6, <1>7 DEF Next
\* An id that is spent stays spent.
LEMMA SpentStays ==
    ASSUME TypeOK, [Next]_vars PROVE spent \subseteq spent'
<1> USE DEF queueVars
<1>1. CASE Client
  BY <1>1 DEF Client, UploadCourse, PresignCourse, TopicCourse, ConfirmUpload,
     UpdateIntake, PutBytes, UpdateHalf, Study, DeleteCourse
<1>2. CASE \E r \in Requests : Handler(r)
  BY <1>2 DEF Handler, UploadDocument, UploadEnqueue, UndoDocument,
     UndoCourse, PresignDocument, TopicEnqueue, ConfirmCheck, ConfirmFail,
     ConfirmReset, ConfirmCourse, ConfirmEnqueue, IntakeWrite, IntakeEnqueue,
     IntakeRevert
<1>3. CASE \E k \in Courses : Reconcile(k) \/ Cleanup(k)
  BY <1>3 DEF Reconcile, Cleanup, ReconcileList, ReconcileEnqueue, CleanupList,
     CleanupDestroy
<1>4. CASE IngestWorker \/ IngestTransient
  BY <1>4 DEF IngestWorker, IngestTake, IngestScan, IngestLoad, IngestCommit,
     IngestFinalize, IngestTransient, IngestCount, IngestEmbed,
     IngestConverge, IngestEnqueue, IngestTally, SetDocument, DocumentOnly,
     IngestFail, IngestThrow, IngestFinish, IngestKeep, Spend
<1>5. CASE StructWorker
  BY <1>5 DEF StructWorker, StructTake, StructRead, StructWipe, StructBuild,
     StructReady, StructError, StructThrow, StructFinish, StructKeep, Spend
<1>6. CASE RedisDown \/ RedisUp \/ Crash \/ UNCHANGED vars
  BY <1>6 DEF RedisDown, RedisUp, Crash, vars
<1> QED
  BY <1>1, <1>2, <1>3, <1>4, <1>5, <1>6 DEF Next

-----------------------------------------------------------------------------
(* The theorems.                                                           *)

LEMMA IInvInit == Init => IInv
BY ConstantsAssumption DEF ConstantsAssumption, Init, IInv, TypeOK, RowsOK,
   OutOK, QueuesOK, WorkersOK, ApiOK, Statuses, Stages, DocStatuses, Contents,
   IngestPcs, StructPcs, RequestPcs, Request, LearnerWorkKeepsStructure,
   DeletedLeavesNothing, IntakeInv, IntakeBeforeStructuring, IntakeGuards, At,
   ReadyInv, ReadyMeansStructured, BuildGuards, Exists, NothingInv,
   UnbornUnknown, Unknown, UploadAlone, NothingUnderWay, NoJobs, IngestJobs,
   StructJobs, LandingPcs, JobsInv, JobIdsOnce, OneJobPerId, JobsHeld

LEMMA IInvStep == IInv /\ [Next]_vars => IInv'
BY TypeStep, LearnerStep, DeletedStep, IntakeStep, ReadyStep, NothingStep,
   JobsStep DEF IInv

\* IInv is an invariant of the specification.
THEOREM Invariance == Spec => []IInv
BY IInvInit, IInvStep, PTL DEF Spec

\* Every variable keeps its type, whatever the handlers, the sweeps, the two
\* workers and the faults do.
THEOREM TypeCorrect == Spec => []TypeOK
<1>1. IInv => TypeOK
  BY DEF IInv
<1> QED
  BY <1>1, Invariance, PTL

\* Nothing of a course is generated before its goal and level are recorded,
\* although three parties enqueue structuring jobs and all act on stale reads.
THEOREM IntakeFirst == Spec => []IntakeBeforeStructuring
<1>1. IInv => IntakeBeforeStructuring
  BY DEF IInv, IntakeInv
<1> QED
  BY <1>1, Invariance, PTL

\* Whatever is on its way to structure a course is for one whose intake is
\* recorded, or which is deleted.
THEOREM JobsAfterIntake == Spec => []IntakeGuards
<1>1. IInv => IntakeGuards
  BY DEF IInv, IntakeInv
<1> QED
  BY <1>1, Invariance, PTL

\* A ready course has its complete structure, also while other jobs for it are
\* queued, retried or interrupted.
THEOREM ReadyIsStructured == Spec => []ReadyMeansStructured
<1>1. IInv => ReadyMeansStructured
  BY DEF IInv, ReadyInv
<1> QED
  BY <1>1, Invariance, PTL

\* A course under construction is neither ready nor unborn.
THEOREM BuildsUnready == Spec => []BuildGuards
<1>1. IInv => BuildGuards
  BY DEF IInv, ReadyInv
<1> QED
  BY <1>1, Invariance, PTL

\* Nothing in flight leaves a row behind for a course that is gone.
THEOREM NoOrphans == Spec => []DeletedLeavesNothing
<1>1. IInv => DeletedLeavesNothing
  BY DEF IInv
<1> QED
  BY <1>1, Invariance, PTL

\* A course without a document is never taken for ingested, although its upload
\* may be rolled back after the document row was there.
THEOREM NothingSpontaneous == Spec => []NothingFromNothing
<1>1. IInv => NothingFromNothing
  BY DEF IInv, NothingInv, NothingUnderWay, Still, NothingFromNothing
<1> QED
  BY <1>1, Invariance, PTL

\* Until an upload has queued its job or rolled its document back, its course
\* has no job, sweep or other request, but a note of goal or level, or is gone.
THEOREM UploadsAlone == Spec => []UploadAlone
<1>1. IInv => UploadAlone
  BY DEF IInv, NothingInv
<1> QED
  BY <1>1, Invariance, PTL

\* No two jobs of a queue share an id, whichever of the endpoints, the worker,
\* the sweep, a retry or a restart queued them; none has a base id that is spent.
THEOREM JobsDistinct == Spec => []JobIdsOnce
<1>1. IInv => JobIdsOnce
  BY DEF IInv, JobsInv
<1> QED
  BY <1>1, Invariance, PTL

\* The base job of a course runs to its end at most once per queue: from then
\* on a repeated confirmation or hand-over enqueues nothing, and the course
\* depends on the sweep.
BaseJobEndsOnce ==
    [][\A c \in Courses :
         /\ <<"ingest", c>> \in spent =>
               <<"ingest", c>> \in spent' /\ ~BaseLive(IngestJobs, c)'
         /\ <<"structure", c>> \in spent =>
               <<"structure", c>> \in spent' /\ ~BaseLive(StructJobs, c)']_vars

\* No step queues the base job of a course again once it has ended.
THEOREM BaseJobsEndOnce == Spec => BaseJobEndsOnce
<1> DEFINE Ends == \A c \in Courses :
         /\ <<"ingest", c>> \in spent =>
               <<"ingest", c>> \in spent' /\ ~BaseLive(IngestJobs, c)'
         /\ <<"structure", c>> \in spent =>
               <<"structure", c>> \in spent' /\ ~BaseLive(StructJobs, c)'
<1>1. IInv /\ IInv' /\ [Next]_vars => [Ends]_vars
  BY SpentStays DEF IInv, JobsInv, JobIdsOnce, OneJobPerId, BaseLive
<1> QED
  BY <1>1, Invariance, PTL DEF Spec, BaseJobEndsOnce

\* A deleted course never comes back: no update of a handler, worker or sweep
\* that read the row before the delete recreates it.
NoResurrection ==
    [][\A c \in Courses : status[c] = "deleted" => status'[c] = "deleted"]_vars

\* A row that was deleted stays deleted, whatever was read before.
THEOREM DeletedIsFinal == Spec => NoResurrection
<1>1. IInv /\ [Next]_vars =>
        [\A c \in Courses : status[c] = "deleted" => status'[c] = "deleted"]_vars
  BY StatusFrame DEF IInv
<1> QED
  BY <1>1, Invariance, PTL DEF Spec, NoResurrection

\* No job takes away the structure that learner rows refer to.
THEOREM LearnerWorkSafe == Spec => []LearnerWorkKeepsStructure
<1>1. IInv => LearnerWorkKeepsStructure
  BY DEF IInv
<1> QED
  BY <1>1, Invariance, PTL
-----------------------------------------------------------------------------
(* CourseLifecycle implements CoursePromise.                               *)

\* A step of the promise, or none.
Promised == [Promise!Next]_(Promise!pvars)

\* Promised looks at no more than this.
seen == <<status, intake, struct, used>>

LEMMA UnseenMaps == ASSUME UNCHANGED seen PROVE Promised
BY DEF Promised, seen, Promise!pvars, View, IntakeRecorded

\* The creation of a course.
LEMMA CreateMaps ==
    ASSUME IInv, NEW c \in Courses, status[c] = "unborn",
           status' = [status EXCEPT ![c] = "ingesting"],
           UNCHANGED <<intake, struct, used>>
    PROVE  Promised
<1>1. View[c] = "none" /\ View' = [View EXCEPT ![c] = "waiting"]
  BY DEF View, IInv, TypeOK, RowsOK
<1>2. UNCHANGED <<[k \in Courses |-> IntakeRecorded(k)], struct, used>>
  BY DEF IntakeRecorded
<1>3. Promise!Create(c)
  BY <1>1, <1>2 DEF Promise!Create
<1> QED
  BY <1>3 DEF Promised, Promise!Next

\* A new status of a course: it is published, withdrawn, or looks the same.
LEMMA StatusMaps ==
    ASSUME IInv, IInv', NEW c \in Courses, Exists(c),
           NEW s \in Statuses \ {"unborn", "deleted"},
           status' = [status EXCEPT ![c] = s],
           UNCHANGED <<intake, struct, used>>
    PROVE  Promised
<1>1. UNCHANGED <<[k \in Courses |-> IntakeRecorded(k)], struct, used>>
  BY DEF IntakeRecorded
<1>2. /\ View' = [View EXCEPT ![c] = IF s = "ready" THEN "readable" ELSE "waiting"]
      /\ View[c] = (IF status[c] = "ready" THEN "readable" ELSE "waiting")
      /\ View \in [Courses -> {"none", "gone", "readable", "waiting"}]
  BY DEF View, IInv, TypeOK, RowsOK, Exists
<1>3. CASE (s = "ready") = (status[c] = "ready")
  <2>1. UNCHANGED View
    BY <1>2, <1>3
  <2> QED
    BY <1>1, <2>1 DEF Promised, Promise!pvars
<1>4. CASE s = "ready" /\ status[c] # "ready"
  <2>1. IntakeRecorded(c)' /\ struct'[c] = "complete"
    BY <1>4 DEF IInv, IntakeInv, ReadyInv, IntakeBeforeStructuring,
       ReadyMeansStructured, TypeOK, RowsOK
  <2>2. IntakeRecorded(c) /\ struct[c] = "complete"
    BY <2>1 DEF IntakeRecorded
  <2>3. Promise!Publish(c)
    BY <1>1, <1>2, <1>4, <2>2 DEF Promise!Publish
  <2> QED
    BY <2>3 DEF Promised, Promise!Next
<1>5. CASE s # "ready" /\ status[c] = "ready"
  <2>1. Promise!Withdraw(c)
    BY <1>1, <1>2, <1>5 DEF Promise!Withdraw
  <2> QED
    BY <2>1 DEF Promised, Promise!Next
<1> QED
  BY <1>3, <1>4, <1>5

\* Goal or level recorded, with the status changed or not: a course whose
\* intake was incomplete is not ready, so it looks the same apart from that.
LEMMA IntakeMaps ==
    ASSUME IInv, IInv', NEW c \in Courses, Exists(c),
           NEW s \in Statuses \ {"unborn", "deleted", "ready"},
           NEW i \in {"half", "full"}, ~IntakeRecorded(c),
           intake' = [intake EXCEPT ![c] = i],
           status' = [status EXCEPT ![c] = s],
           UNCHANGED <<struct, used>>
    PROVE  Promised
<1> DEFINE Known == [k \in Courses |-> IntakeRecorded(k)]
<1>1. status[c] # "ready"
  BY DEF IInv, IntakeInv, IntakeBeforeStructuring
<1>2. View[c] = "waiting" /\ UNCHANGED View
  BY <1>1 DEF View, IInv, TypeOK, RowsOK, Exists
<1>3. ~Known[c] /\ Known' = [Known EXCEPT ![c] = (i = "full")]
  BY DEF IntakeRecorded, IInv, TypeOK, RowsOK
<1>4. CASE i = "full"
  <2>1. Known' = [Known EXCEPT ![c] = TRUE]
    BY <1>3, <1>4
  <2>2. Promise!Tell(c)
    BY <1>2, <1>3, <2>1 DEF Promise!Tell
  <2> QED
    BY <2>2 DEF Promised, Promise!Next
<1>5. CASE i # "full"
  <2>1. UNCHANGED Known
    BY <1>5 DEF IntakeRecorded, IInv, TypeOK, RowsOK
  <2> QED
    BY <1>2, <2>1 DEF Promised, Promise!pvars
<1> QED
  BY <1>4, <1>5

\* The erasure of a course.
LEMMA EraseMaps ==
    ASSUME IInv, NEW c \in Courses, Exists(c), EraseCourse(c) PROVE Promised
<1> DEFINE Known == [k \in Courses |-> IntakeRecorded(k)]
<1>1. View[c] \in {"waiting", "readable"} /\ View' = [View EXCEPT ![c] = "gone"]
  BY DEF View, EraseCourse, Exists, IInv, TypeOK, RowsOK
<1>2. Known' = [Known EXCEPT ![c] = FALSE]
  BY DEF IntakeRecorded, EraseCourse, IInv, TypeOK, RowsOK
<1>3. Promise!Remove(c)
  BY <1>1, <1>2 DEF Promise!Remove, EraseCourse
<1> QED
  BY <1>3 DEF Promised, Promise!Next

\* A new value of the structure, by the worker: out of sight.
LEMMA BuildMaps ==
    ASSUME IInv, IInv', NEW c \in Courses, Exists(c), c = sjob.c,
           spc \in {"wipe", "build", "link"},
           NEW v \in {"none", "partial", "complete"},
           struct' = [struct EXCEPT ![c] = v],
           UNCHANGED <<status, intake, used>>
    PROVE  Promised
<1> DEFINE Known == [k \in Courses |-> IntakeRecorded(k)]
<1>1. UNCHANGED <<View, Known, used>>
  BY DEF View, IntakeRecorded
<1>2. View[c] = "waiting"
  BY DEF View, Exists, IInv, ReadyInv, BuildGuards
<1>3. Known[c]
  BY DEF IInv, IntakeInv, IntakeGuards, OnlyAfterIntake, Exists
<1>4. used[c] => v # "none"
  BY DEF IInv, LearnerWorkKeepsStructure, TypeOK, OutOK
<1>5. Promise!Build(c)
  BY <1>1, <1>2, <1>3, <1>4 DEF Promise!Build
<1> QED
  BY <1>5 DEF Promised, Promise!Next

LEMMA StudyMaps ==
    ASSUME IInv, NEW c \in Courses, Study(c) PROVE Promised
<1>1. UNCHANGED <<View, [k \in Courses |-> IntakeRecorded(k)]>>
  BY DEF Study, rowVars, View, IntakeRecorded
<1>2. Promise!Study(c)
  BY <1>1 DEF Study, Promise!Study
<1> QED
  BY <1>2 DEF Promised, Promise!Next

\* SetStage leaves the status as it is.
LEMMA StageMaps ==
    ASSUME IInv, NEW c \in Courses, NEW g, SetStage(c, g),
           UNCHANGED <<struct, used>>
    PROVE  Promised
BY UnseenMaps DEF SetStage, SetCourse, rowVars, seen, IInv, TypeOK, RowsOK

\* An UPDATE of status and stage of a course that exists.
LEMMA SetMaps ==
    ASSUME IInv, IInv', NEW c \in Courses, Exists(c),
           NEW s \in Statuses \ {"unborn", "deleted"}, NEW g,
           SetCourse(c, s, g), UNCHANGED <<struct, used>>
    PROVE  Promised
BY StatusMaps DEF SetCourse

\* Every step of the code is a step of the promise, or none.
LEMMA PromiseStep ==
    ASSUME IInv, IInv', [Next]_vars PROVE Promised
<1> USE DEF rowVars, outVars
<1>0. TypeOK
  BY DEF IInv
<1>1. CASE Client
  <2>1. ASSUME NEW r \in Requests, NEW c \in Courses,
               UploadCourse(r, c) \/ PresignCourse(r, c) \/ TopicCourse(r, c)
        PROVE  Promised
    BY <2>1, CreateMaps DEF UploadCourse, PresignCourse, TopicCourse, SetCourse
  <2>2. ASSUME NEW r \in Requests, NEW c \in Courses,
               ConfirmUpload(r, c) \/ UpdateIntake(r, c)
        PROVE  Promised
    BY <2>2, UnseenMaps DEF ConfirmUpload, UpdateIntake, seen
  <2>3. ASSUME NEW c \in Courses, PutBytes(c) PROVE Promised
    BY <2>3, UnseenMaps DEF PutBytes, seen
  <2>4. ASSUME NEW c \in Courses, UpdateHalf(c) PROVE Promised
    <3>1. status' = [status EXCEPT ![c] = status[c]]
      BY <2>4 DEF UpdateHalf, IInv, TypeOK, RowsOK
    <3>2. status[c] \in Statuses \ {"unborn", "deleted", "ready"}
      BY <2>4 DEF UpdateHalf, Exists, IInv, TypeOK, RowsOK, IntakeInv,
         IntakeBeforeStructuring, IntakeRecorded
    <3>3. PICK i \in {"half", "full"} : intake' = [intake EXCEPT ![c] = i]
      BY <2>4 DEF UpdateHalf
    <3> QED
      BY <2>4, <3>1, <3>2, <3>3, IntakeMaps DEF UpdateHalf, IntakeRecorded
  <2>5. ASSUME NEW c \in Courses, Study(c) PROVE Promised
    BY <2>5, StudyMaps
  <2>6. ASSUME NEW c \in Courses, DeleteCourse(c) PROVE Promised
    BY <2>6, EraseMaps DEF DeleteCourse
  <2> QED
    BY <1>1, <2>1, <2>2, <2>3, <2>4, <2>5, <2>6 DEF Client
<1>2. ASSUME NEW r \in Requests, Handler(r) PROVE Promised
  <2>0. req[r].c \in Courses
    BY <1>0, RequestCourse
  <2>1. CASE \/ UploadDocument(r) \/ UploadEnqueue(r) \/ UndoDocument(r)
             \/ PresignDocument(r) \/ TopicEnqueue(r) \/ ConfirmCheck(r)
             \/ ConfirmReset(r) \/ ConfirmEnqueue(r) \/ IntakeEnqueue(r)
    BY <2>1, UnseenMaps DEF UploadDocument, UploadEnqueue, UndoDocument,
       PresignDocument, TopicEnqueue, ConfirmCheck, ConfirmReset,
       ConfirmEnqueue, IntakeEnqueue, seen
  <2>2. CASE UndoCourse(r)
    BY <2>0, <2>2, EraseMaps, UnseenMaps DEF UndoCourse, seen
  <2>3. CASE ConfirmFail(r)
    BY <2>0, <2>3, SetMaps, UnseenMaps DEF ConfirmFail, Statuses, seen
  <2>4. CASE ConfirmCourse(r)
    BY <2>0, <2>4, SetMaps, UnseenMaps DEF ConfirmCourse, Statuses, seen
  <2>5. CASE IntakeRevert(r)
    BY <2>0, <2>5, SetMaps, UnseenMaps DEF IntakeRevert, Statuses, seen
  <2>6. CASE IntakeWrite(r)
    <3>1. CASE ~Exists(req[r].c)
      BY <2>6, <3>1, UnseenMaps DEF IntakeWrite, seen
    <3>2. CASE Exists(req[r].c)
      <4>1. PICK c \in Courses : c = req[r].c
        BY <2>0
      <4>2. PICK s \in {"structuring", status[c]} :
               status' = [status EXCEPT ![c] = s]
        BY <2>6, <3>2, <4>1 DEF IntakeWrite, IInv, TypeOK, RowsOK
      <4>3. s \in Statuses \ {"unborn", "deleted"}
        BY <3>2, <4>1, <4>2 DEF Exists, Statuses, IInv, TypeOK, RowsOK
      <4>4. intake' = [intake EXCEPT ![c] = "full"] /\ UNCHANGED <<struct, used>>
        BY <2>6, <3>2, <4>1 DEF IntakeWrite
      <4>5. CASE IntakeRecorded(c)
        <5>1. UNCHANGED intake
          BY <4>4, <4>5 DEF IntakeRecorded, IInv, TypeOK, RowsOK
        <5> QED
          BY <3>2, <4>1, <4>2, <4>3, <4>4, <5>1, StatusMaps
      <4>6. CASE ~IntakeRecorded(c)
        <5>1. s # "ready"
          BY <4>2, <4>6 DEF IInv, IntakeInv, IntakeBeforeStructuring
        <5> QED
          BY <3>2, <4>1, <4>2, <4>3, <4>4, <4>6, <5>1, IntakeMaps
      <4> QED
        BY <4>5, <4>6
    <3> QED
      BY <3>1, <3>2
  <2> QED
    BY <1>2, <2>1, <2>2, <2>3, <2>4, <2>5, <2>6 DEF Handler
<1>3. ASSUME NEW c \in Courses, Reconcile(c) \/ Cleanup(c) PROVE Promised
  <2>1. CASE ReconcileList(c) \/ ReconcileEnqueue(c) \/ CleanupList(c)
    BY <2>1, UnseenMaps DEF ReconcileList, ReconcileEnqueue, CleanupList, seen
  <2>2. CASE CleanupDestroy(c)
    BY <2>2, EraseMaps, UnseenMaps DEF CleanupDestroy, seen
  <2> QED
    BY <1>3, <2>1, <2>2 DEF Reconcile, Cleanup
<1>4. CASE IngestWorker \/ IngestTransient
  <2>1. CASE \/ \E job \in ingestQ : IngestTake(job)
             \/ IngestScan \/ IngestLoad \/ IngestCommit \/ IngestFinalize
             \/ IngestCount \/ IngestEnqueue \/ IngestTally
             \/ IngestThrow \/ IngestFinish \/ IngestTransient
    BY <2>1, UnseenMaps DEF IngestTake, IngestScan, IngestLoad, IngestCommit,
       IngestFinalize, IngestCount, IngestEnqueue, IngestTally, IngestThrow,
       IngestFinish, IngestTransient, DocumentOnly, seen
  <2>2. ijob.c \in Courses \/ ipc = "idle"
    BY DEF IInv, TypeOK, WorkersOK, Job
  <2>3. CASE IngestEmbed
    BY <2>2, <2>3, StageMaps DEF IngestEmbed
  <2>4. CASE IngestConverge
    BY <2>2, <2>4, SetMaps, UnseenMaps DEF IngestConverge, Statuses, seen
  <2>5. CASE IngestFail
    BY <2>2, <2>5, SetMaps, UnseenMaps DEF IngestFail, Statuses, seen
  <2> QED
    BY <1>4, <2>1, <2>3, <2>4, <2>5 DEF IngestWorker
<1>5. CASE StructWorker
  <2>1. CASE \/ \E job \in structQ : StructTake(job)
             \/ StructThrow \/ StructFinish
    BY <2>1, UnseenMaps DEF StructTake, StructThrow, StructFinish, seen
  <2>2. sjob.c \in Courses \/ spc = "idle"
    BY DEF IInv, TypeOK, WorkersOK, Job
  <2>3. CASE StructRead
    BY <2>2, <2>3, StageMaps DEF StructRead
  <2>4. CASE StructWipe
    <3>1. CASE Exists(sjob.c)
      BY <2>2, <2>4, <3>1, BuildMaps DEF StructWipe
    <3>2. CASE ~Exists(sjob.c)
      <4>1. struct[sjob.c] = "none" /\ ~used[sjob.c]
        BY <2>2, <2>4, <3>2 DEF StructWipe, IInv, DeletedLeavesNothing,
           LearnerWorkKeepsStructure
      <4>2. UNCHANGED seen
        BY <2>4, <4>1 DEF StructWipe, seen, IInv, TypeOK, OutOK
      <4> QED
        BY <4>2, UnseenMaps
    <3> QED
      BY <3>1, <3>2
  <2>5. CASE StructBuild
    <3>1. CASE Exists(sjob.c)
      BY <2>2, <2>5, <3>1, BuildMaps DEF StructBuild
    <3>2. CASE ~Exists(sjob.c)
      BY <2>5, <3>2, UnseenMaps DEF StructBuild, seen
    <3> QED
      BY <3>1, <3>2
  <2>6. CASE StructReady
    BY <2>2, <2>6, SetMaps, UnseenMaps DEF StructReady, Statuses, seen
  <2>7. CASE StructError
    BY <2>2, <2>7, SetMaps, UnseenMaps DEF StructError, Statuses, seen
  <2> QED
    BY <1>5, <2>1, <2>3, <2>4, <2>5, <2>6, <2>7 DEF StructWorker
<1>6. CASE RedisDown \/ RedisUp \/ Crash \/ UNCHANGED vars
  BY <1>6, UnseenMaps DEF RedisDown, RedisUp, Crash, vars, seen
<1> QED
  BY <1>1, <1>2, <1>3, <1>4, <1>5, <1>6 DEF Next

LEMMA PromiseInit == Init => Promise!Init
<1> SUFFICES ASSUME Init PROVE Promise!Init
  OBVIOUS
<1>1. View = [c \in Courses |-> "none"]
  BY DEF View, Init
<1>2. \A c \in Courses : IntakeRecorded(c) = FALSE
  BY DEF Init, IntakeRecorded
<1>3. [c \in Courses |-> IntakeRecorded(c)] = [c \in Courses |-> FALSE]
  BY <1>2, Zenon
<1> QED
  BY <1>1, <1>3 DEF Init, Promise!Init

\* Whatever the handlers, workers, sweeps and faults do in whatever order, one
\* who looks at a course sees only the steps of CoursePromise.
THEOREM Implements == Spec => KeepsPromise
<1>1. IInv /\ IInv' /\ [Next]_vars => [Promise!Next]_(Promise!pvars)
  BY PromiseStep DEF Promised
<1> QED
  BY <1>1, PromiseInit, Invariance, PTL DEF Spec, KeepsPromise, Promise!Spec
=============================================================================
