# StudyStack: specifications and proofs

StudyStack turns a learner's own documents (or a topic) into a course: it
extracts text, waits for the learner's goal and level, has a model build modules
and subtopics, and then serves tutorials, quizzes, a mastery map, classrooms, a
marketplace and certificates.  The API is a NestJS process with PostgreSQL
(through Prisma) behind it and four BullMQ queues in Redis; its workers run in
the same process.  The repository has no tests, so what follows is the only
executable statement of how these parts are meant to work together.

All paths are relative to `studystack/apps/api/src` unless they start with
`docs/`, which is `studystack/docs`.

1. [The system](#1-the-system): parts, state, operations, what is hard
2. [Plan](#2-plan): modules in their order, what composes or refines what
3. [CourseLifecycle and CoursePromise](#3-courselifecycle-and-coursepromise)
4. [IngestionRun and Extraction](#4-ingestionrun-and-extraction)
5. [Uploads](#5-uploads)
6. [Sharing](#6-sharing)
7. [Concepts](#7-concepts)
8. [AuthTokens](#8-authtokens)
9. [Assessment and GenerateOnce](#9-assessment-and-generateonce)
10. [Runs](#10-runs): questions, bounds, results
11. [Proofs](#11-proofs)
12. [Disagreements between code and documentation](#12-disagreements-between-code-and-documentation)
13. [What is assumed and what is left out](#13-what-is-assumed-and-what-is-left-out)

## 1. The system

| part | state it owns | operations | talks to |
|---|---|---|---|
| Course service (`course/course.service.ts`) | `Course.status`, `ingestionStage`, goal, level; one `SourceDocument` per uploaded course; stored bytes | multipart upload, presigned upload, confirmation, topic course, intake, goal, level, exam date, attestation | storage, ingestion, structuring and research queues |
| Course maintenance (`course/course-maintenance.service.ts`) | none of its own | delete a course, reconcile sweep, failed-course sweep | every table below a course, both queues |
| Ingestion worker (`jobs/ingestion.processor.ts`) | `IngestionRun`, `SourceChunk`, `SourceAsset`, `SourceDocument.extractionStatus`; within a job its page budget | take pending documents, extract in windows, checkpoint, hand off, finalize, converge with the intake, fail | storage, OCR, embedder, structuring queue |
| Structuring worker (`jobs/structuring.processor.ts`) | `Module`, `Subtopic`, `Concept` links | wipe, rebuild, flip to `ready` | model, concept registry, back-fill queue |
| Back-fill (`jobs/backfill.*`) | `TutorialContent` rows it creates | enqueue after a course is ready, write a tutorial for flagged subtopics; its worker consumes the research queue | research model |
| Research, mastery-decay workers | none (the first is registered nowhere, the second logs) | none | |
| Auth (`auth/`) | `User`, `RefreshToken`, `PasswordResetToken` | register, login, refresh with rotation, logout, change, forgot and reset password | mail |
| Tutorials (`tutorial/`) | `TutorialContent`, `SubtopicCompletion` | generate once, mark complete | model |
| Assessment (`assessment/`) | `ModuleQuiz`, `QuizAttempt`, practice problems, final projects | generate, submit, grade | model, mastery |
| Mastery (`mastery/`) | `MasteryScore`, review content | record an answer, decay, map, review | assessment |
| Certificates (`certificate/`) | `Certificate` | eligibility, issue once, verify | assessment, mastery |
| Classrooms (`classroom/`) | `Classroom`, `ClassroomStudent`, `CourseFork`, `User.ageBracket` | create, refresh the code, join with fork and bracket, roster | courses |
| Sharing (`sharing/`) | `Course.visibility`, `CourseFork`, `CourseReport` | publish behind the provenance gate, fork, report | courses |
| Marketplace (`marketplace/`) | `MarketplaceReviewQueue`, `Purchase` | submit, approve, reject; a new purchase always ends in "not implemented" | sharing, courses |
| Concept registry (`concepts/`) | `Concept`, aliases, merge queue | find or create, merge, dismiss | structuring, mastery |
| Q&A, exports | messages, export rows | append, create | model |
| Extraction pipeline, upload validation, storage, telemetry, mail | none that is read back, or bytes by key | parse, OCR, chunk, check, get, put | |

### What is hard here, part by part

**Course, ingestion, structuring.**  Nothing in the course's life is a
transaction: an HTTP handler is a series of statements with awaits between them,
and so is a worker that runs for minutes.  Six actors change `Course.status`: the upload
handlers, the confirmation, the intake, the two workers, and the sweeps; and a
delete may remove the row under any of them.  Redis is the second store: a job is added
after the row is written, the addition may fail, and a job id once used is
remembered and swallows later additions.  What has to hold: nothing is generated
before goal *and* level are known; `ready` means fully structured; a deleted
course is gone with everything that belongs to it; structure that learners have
worked with is not thrown away; and no sequence of failures leaves a course
`ingesting` or `structuring` for ever.

**The extraction of a PDF.**  A document may take many jobs.  The only memory
from one to the next is `IngestionRun.pagesProcessed`, written after the chunks of
a window, in a statement of its own.  Crashes, retries, stalled deliveries,
sweep jobs and continuation jobs all start at "look for a running run".  What has
to hold: no page lost, no page inserted behind the checkpoint, an OCR budget that
survives all of that, and a document that comes to its end.

**Sharing, classrooms, marketplace.**  Each checks a condition (the account, the
gate, the invite code, the state of a queue entry) in one statement and acts on it
statements later; joining a classroom writes three tables one after the other; and
the owner may delete the course in the middle of all that.  What has to hold: nothing
refers to a course that is gone, a roster and the forks agree, a course is offered by
adults only, one open queue entry per course.

**Uploads.**  Three controls stand before an upload (courses per hour, bytes per user, no
file twice), and each looks at rows that are written statements later.  What has to
hold: what overlapping uploads can overrun is bounded by how many overlap.

**Concepts.**  Find-or-create by lower-cased name without a unique key on it, also
among concepts that were merged away; merges that move the rows of five tables in one
read-committed transaction while jobs, quizzes and readers insert more; chains of merges
followed in loops.  What has to hold: a subtopic goes on teaching what it names, no row is
lost to a merge, a name has one concept unless two jobs raced for it, and all readers of one
explanation read the same text.  The code does not keep all of it
when pairs are merged in opposite directions: those that cross lose rows, those that go in a circle
leave readers without an end; the properties name both (section 7).

**Auth.**  Refresh is claim (`updateMany ... revokedAt: null`), then issue; logout,
a password change or a reset may revoke the rows in between, and what is issued
afterwards stays.  What has to hold: a claim succeeds once, and what a revocation
promises holds but for requests in flight, which have to be named.

**Assessment, mastery, certificates.**  Generation checks `submittedAt`, waits for a model
and then writes the questions; submission checks, waits for grading, and sets
`submittedAt` only after the attempts; a score is read, decayed and written back in
separate statements; project and certificate are looked up and then created.
What has to hold: a submission counts once and on the questions it answers, a score
misses no answer, and everybody is told of the same project and certificate, unless
requests overlapped in the one window where the code cannot know.  In this build every method
of `ai/ai.service.ts` throws "not implemented"; the model lets a generator answer or refuse.

`PROJECT.json` lists these hazards at their lines, with the properties
that watch over each of them.

## 2. Plan

| order | module | models | composes / refines | status |
|---|---|---|---|---|
| 1 | `CourseLifecycle` | course service, maintenance, both workers, both queues, on pageless documents | the whole core on one database | checked, safety proved |
| 2 | `CoursePromise` | what a course is to those who only look at it | abstract specification that 1 implements | checked, implementation proved |
| 3 | `IngestionRun` | windows, checkpoints, budget, continuation of one PDF | details the ingestion worker of 1 | checked, safety proved |
| 4 | `Extraction` | which pages have text and how far the extraction can be relied upon | abstract specification that 3 implements | checked, implementation proved |
| 5 | `Sharing` | publish, fork, report, classrooms, marketplace queue, age bracket, deletion | beside 1: status changes of 1 are two small actions | checked, safety proved |
| 6 | `AuthTokens` | sessions, rotation, logout, password change and reset | alone | checked, safety proved |
| 7 | `Concepts` | find-or-create by structuring jobs, merge and dismissal, quiz rows, review readers | the resolution that 1 leaves out of its rebuild | checked, safety proved |
| 8 | `GenerateOnce` | a thing made once behind a gate | abstract specification that 9 implements twice | checked, implementation proved |
| 9 | `Assessment` | quiz, practice, scores, final project, certificate of one student | after `ready` of 1 | checked, safety proved |
| 10 | `Uploads` | rate, quota and duplicate check of overlapping uploads | in front of 1 | checked, safety proved |
| 11 | `Backfill` | the research queue, tutorial rows, the flag on thin chunks | after `ready` of 1 | left |
| 12 | `Chunks`, `PageWindows`, `Archives` | pure algorithms: the chunker, the page window of a PDF, the size limits of an archive | checked against reference definitions over bounded inputs | left |

Where it can be done the modules keep to the same form: a row is a function from
ids to a value, a handler is a program counter and one action per awaited
statement, and faults are paid for from a common budget `MaxFaults`.  No module
declares a `RECURSIVE` operator; sums are folds of the community modules.

Left of the plan are 11 and 12.  What a back-fill can do to a course is there already: the
tutorial row that it writes refers to a subtopic like a learner's row, and that is `Study`
of `CourseLifecycle` (section 3).  Of the pure algorithms, the page window is there as
`WindowRead`.

## 3. CourseLifecycle and CoursePromise

One or more courses, a few request slots, two workers, the two queues, the two
sweeps.  Documents are `.docx`, `.txt`, `.md`: one pass, no windows.

### State

| variables | code |
|---|---|
| `status`, `stage`, `intake` | the row `Course`: `status`, `ingestionStage`, and which of `goal` and `level` are set.  `"unborn"` and `"deleted"` are the absence of the row before and after its life |
| `doc`, `bytes`, `presigned` | the `SourceDocument` row (its `extractionStatus`; `"null"` is SQL NULL), the object under its key, whether a browser still holds a PUT url |
| `chunks`, `struct`, `used` | chunks (none, only thin ones, usable ones), modules with subtopics and links (none, part, all), learner rows that refer to subtopics |
| `ingestQ`, `structQ`, `spent`, `redisUp` | waiting and delayed jobs (course, id, attempts made); the base ids that remain known after completion or failure |
| `ipc ijob imem`, `spc sjob` | the workers: next statement, job, what was read |
| `req`, `sweep` | each request in flight and its next statement; what a sweep has decided about a course from the list it read |
| `faults` | crashes, outages, transient errors, replaced bytes and repeated confirmations still allowed |

### Actions

A handler's name is followed by the statement it stands at.

- `UploadCourse`, `UploadDocument`, `UploadEnqueue`, `UndoDocument`, `UndoCourse`:
  `createUploadCourseInner`, the row, the document, `queue.add`, and the roll-back of
  each, the deletions of which may be lost.
- `PresignCourse`, `PresignDocument`, `PutBytes`, `ConfirmUpload`, `ConfirmCheck`,
  `ConfirmFail`, `ConfirmReset`, `ConfirmCourse`, `ConfirmEnqueue`: the presigned path.  The
  bytes may come before, between and after, or be replaced once checked; what has been found out
  about them is written in statements of their own.
- `TopicCourse`, `TopicEnqueue`: a course from a topic; the research worker is a stub, so
  it stays in `ingesting` until a sweep takes it up.
- `UpdateIntake`, `IntakeWrite`, `IntakeEnqueue`, `IntakeRevert`: the intake, which
  decides on the status it *read*.  `UpdateHalf`: goal or level alone.
- `Study`: a learner completes a subtopic, or a back-fill job writes its tutorial
  (`jobs/backfill.processor.ts:85`); from then on foreign keys protect it.
- `DeleteCourse`, `ReconcileList` / `ReconcileEnqueue`, `CleanupList` /
  `CleanupDestroy`: maintenance.  The list is read first and acted on course by course; the
  deletion of an abandoned course may be refused or fail, and is then left to a later sweep.
- `IngestTake` ... `IngestFinish`, `StructTake` ... `StructFinish`: the workers, with
  `IngestTransient`, `IngestFail`, `StructError` for the failure contract, and
  `IngestThrow`, `StructThrow` for what BullMQ does with a processor that throws.  A statement of
  the ingestion worker may fail wherever it stands: in the work on a document BullMQ retries the job,
  around it (`scan`, `count`, `converge`, `tally`) the course is failed, and in `failCourse`
  it is BullMQ again.  Chunks (`IngestCommit`) and the document's status (`IngestFinalize`) are two
  statements, and a status that cannot be written is logged and forgotten (`SetDocument`).
- `RedisDown`, `RedisUp`, `Crash`: a crash ends every request and puts both active
  jobs back into their queues.

### Properties

*Safety.* `IntakeBeforeStructuring`, `ReadyMeansStructured`, `DeletedLeavesNothing`,
`NothingFromNothing`.

*Refinement.* `KeepsPromise`: with a course seen as none, waiting, readable or gone, every step
of every handler, worker and sweep is a step of `CoursePromise` or changes nothing that is seen.
That module has seven actions (`Create`, `Tell`, `Build`, `Publish`, `Withdraw`,
`Study`, `Remove`), and their guards are the promise: a structure changes only out of sight,
after the intake and under no learner; only a complete one is shown; goal and level
are told once and for good; removal is of everything at once and final.  `Withdraw` is there because
the code does it: a repeated confirmation takes a ready course back to
`ingesting` (section 12).

*Liveness.* `Converges`: no course stays `ingesting` or `structuring`.  `ParkedRescued`:
a course parked with goal and level recorded does not stay parked.

*Fairness.* `SchedulingFairness` is weak fairness of every started handler, of both workers
and of a sweep that has its list (the Node event loop and BullMQ's polling), and of the
return of Redis.  Clients, deletes, faults and the start of a sweep have
none.  `FairSpec` adds weak fairness of the reconcile sweep: the code says of it "wire
them to a cron" (`course/admin-course-maintenance.controller.ts:12`).  Without it nothing would
free a course whose job is lost.

## 4. IngestionRun and Extraction

One PDF, one worker with concurrency 1 (`@Processor` with its default), the
ingestion queue.

| variables | code |
|---|---|
| `docStatus`, `pageCount` | `SourceDocument.extractionStatus` and `.pageCount` (0 for NULL) |
| `copies` | per page, how many times its text is among the `SourceChunk` rows |
| `run`, `done`, `runs` | the `IngestionRun` with status `running`, its `pagesProcessed`, how many runs there were |
| `settled` | the course has left `ingesting` (what comes then is CourseLifecycle's subject) |
| `file` | readable; encrypted or too long (`"locked"`, refused after the run was opened); missing, empty or unrecognised (`"refused"`, before) |
| `queue`, `known` | waiting jobs, ids that BullMQ remembers |
| `pc job held win budget` | the worker: next statement, job, its copy of `pagesProcessed`, the window in hand, pages this job has used |

The actions follow `process` and `processDocument` from statement to statement:
`Take`, `Scan` (`pendingDocuments`), `Open` (`currentRun`, else `startRun`), `Refuse`
(`loadVerified`), `Wipe`, `WindowCovered` / `WindowLocked` / `WindowRead` (`batchWindow`
with `extractPdfPageWindow`), `Commit`, `Checkpoint`, `Finalize`, `CloseRun`,
`FailDocument`, `After`, `Handoff`, `Finish`, `Throw`.  Around it: `Transient` errors,
`Sweep`, `Reconfirm` (the course is confirmed once more after it has settled),
`Crash`, and `Stall` (the job is delivered again although its worker goes on).

`Open` stands for two statements, a find and a create: with one worker nothing
comes between them.  `Checkpoint` increments `pagesProcessed`; the
writes of progress that follow are not read by anybody.

Properties: `ReadyIsComplete`, `OcrCapped`, `StoredOnce`, `KeepsPromise`,
`FinishesUnattended`, `RecoversUnlessCovered`; `FairSpec` is weak fairness of the
worker, and the property on recovery brings its own assumption, weak
fairness of the sweep.

`KeepsPromise` is the refinement of `Extraction`, which knows neither jobs nor windows, budgets
and faults: text is stored past the checkpoint only, the checkpoint passes no digital
page without text, a run clears what is stored only at page one and never under a
ready document, and a document is ready with all its pages or not at all.  That a
resumed job inserts nothing behind the checkpoint (`ResumesPast`, section 11) is part of it.

Two things to know when reading them:

- **`Unstamped`** is what a missing page count compares as.  The code writes
  `document.pageCount ?? 0`, so `Unstamped = 0`, and then *no* PDF is ever
  read (run `fresh_pdf`, section 12).  Everything behind that line would be unreachable.
  The passing run therefore takes the evident intention, a missing page count covers
  nothing (`Unstamped = Pages`), and the proofs hold for every value, 0 included.
- **`FullyCovered`**: if the process dies after the last checkpoint and before the
  document is ready, the resumed job finds a run with every page done,
  `batchWindow` answers null, `processDocument` breaks ("run completed by an earlier
  pass"), and nobody sets the document's status: the loop takes it up again,
  for ever.  The same happens if it dies between the status and `completeRun` and the
  upload is confirmed again.  Recovery is stated up to that state,
  by name, so that the reader sees the exception.

## 5. Uploads

The controls of `createUploadCourse` and `presignUpload` for one owner: each course is recent
(within the hour), old or absent (`row`), each document has a size and a hash (`doc`), and each
upload in flight has its next statement and the controls it has still to pass (`req`).

`CreateUpload` and `PresignUpload` begin; `CountUploads` and `SumUsage` are the two statements
of `assertUploadAllowed`, sent at once and so in any order; `FindDuplicate` looks up the hash, which
a presigned upload does not have; `CreateCourse`, `CreateDocument`, `Enqueue` write, and
`UndoDocument`, `UndoCourse` take back, each possibly in vain.  `ConfirmUpload` stores the size that was
found under the key; `DestroyCourse`, `Age` and `Die` are deletion, the passing of the hour, and a
request that ends between two statements.  A confirmation of a multipart course finds the size that is
stored already.

The controls are checks before a write and cannot be exact, so the properties say how
inexact: `HourlyUploadsBounded`, `StorageBounded` and `DuplicatesBounded` let each limit be exceeded
once for every upload that overlaps another.  `StorageBounded` counts the documents whose size was
the one checked: a confirmation overwrites it and does not ask again (section 12).

## 6. Sharing

One or more finished courses of one owner, other users, classrooms with their invite
codes, queue entries, and requests in flight.  The owner is the courses' author, the
classrooms' teacher and the creator on the marketplace.

| variables | code |
|---|---|
| `status`, `visibility` | the row `Course`: ready or not, or gone; private or public |
| `bracket` | `User.ageBracket` |
| `forks`, `members` | `CourseFork` and `ClassroomStudent`, as sets: both have a key over the pair |
| `room` | `Classroom`: its course and its invite code, no two the same |
| `entry` | `MarketplaceReviewQueue`: course and status; no key but the id |
| `reported` | courses with `CourseReport` rows |
| `req` | each request in flight: next statement, user, subject |
| `invited`, `wasAdult`, `excused` | history, read by properties only |

The actions are the statements of `publishCourse` (`PublishCourse`, `PublishCheck`,
the gate, `PublishWrite`), `forkCourse` (`ForkCourse`, `ForkFind`, `ForkCreate`),
`reportCourse`, `createClassroom` and `generateInviteCode` (`RoomCreate`, `CodeWrite`:
two tries at a free code), `joinClassroom` (`JoinClassroom`, `JoinFork`, `JoinMember`,
`JoinBracket`), `updateProfile` (one statement), `destroyCourse` (`DeleteCourse`,
`DeleteCount`, `DeleteRows`), `submitForReview` (`SubmitForReview`, `SubmitCheck`, the
gate, `SubmitFind`, `SubmitCreate`), `approveSubmission` and `rejectSubmission`
(`Decide`, `DecideWrite`).  `Reopen` and `Restructured` are what CourseLifecycle does to
a ready course; `Crash` ends any requests between two statements.

The provenance gate reads tutorial rows and licences that are not part of the model;
its verdict is a choice.  `DeleteRows` is one transaction: it deletes what hangs on
the course and the course, or nothing when a foreign key refuses.  Nothing in the code
takes a course back from the public, nor deletes a classroom, a membership or a fork.

Properties: `NothingDangles`, `EnrolledThroughFork`, `ForkHasADoor`, `OfferedByAdults`,
`BracketedUnlessExcused`.  (That no step makes a minor of an adult account is proved,
`AdultsRemain`.)  Two of them need a word:

- `OfferedByAdults` says that the account *was* an adult's.  The profile may say
  otherwise by the time of the write and ever after; the code does not look again.
- `BracketedUnlessExcused` names two exceptions in the code: a profile with a birth date
  under 18 sets the bracket back to `unknown`, whatever classroom gave it; and a join that
  is cut off between membership and bracket is not made up for, because the next join
  returns early ("Already enrolled").

There is no fairness here: nothing waits for anything.

## 7. Concepts

The registry is global, so this module has what crosses courses: one structuring job for each
subtopic (`Wipe`, `Find`, `Create`, `Link`, `Ready`), administrators who merge (`Merge`,
`Reassign` table by table in the code's order, `Commit`, `Abort`) or dismiss (`Dismiss`,
`DismissWrite`) a pair of duplicates, quiz rows (`Attempt`), and readers of review
explanations (`Open`, `Walk` along the merges, `Count`, `Look`, `Write`, `Winner`, `Refuse`).

| variables | code |
|---|---|
| `name`, `merged` | `Concept.canonicalName`, `mergedIntoId`; concepts are numbered as they are created |
| `refs` | the rows that refer to a concept: links, attempts, scores, explanations, each with the rest of its unique key |
| `text` | `ConceptReviewContent.explanation`, told apart by who generated it |
| `cand` | `ConceptReviewCandidate`: a pair and its status |
| `job`, `admin`, `reader` | each job and request: next statement, what it has read, rows its transaction has locked |
| `ever`, `told`, `raced`, `texts`, `events` | history, and the budget of what comes from outside |

A merge is one transaction at the default isolation level: it sees what is committed at each of its
statements, locks the rows it writes and the keys they move to, and shows its writes when it
commits.  A statement that runs into such a lock waits (`Insert` is not enabled), and a loop
that finds its row or its key gone aborts.

No code of the repository creates candidates, so `Propose` is external: it pairs any two concepts,
with either of them as the survivor.  All that `mergeCandidate` refuses is a candidate that is
resolved and a concept paired with itself, so merges may form chains, run against each other, or go
in a circle.

Properties: `SubtopicsTeachWhatTheyNamed` and the action property `NothingLost` relate links and
rows to the merges there have been: the `Heirs` of a concept are what the merges of `ever` lead to
from it, itself included (`Reach`, a closure, defined whether or not they go in a circle).
`TwinsOnlyFromARace` says exactly when the missing unique key shows; `OneTextPerVariant` is
"serve the winner's row".  Two things the code does not keep:

- *Merges that cross.*  When A is being merged into B and B into A, each look-up ("does the subtopic
  already link the survivor?") may find the row that the other transaction is about to drop, since
  a look-up locks nothing; both drop theirs, and the row is gone.  `Crossed` are the
  concepts on which that can have happened (each of two merges leads on to the concept that the other
  one takes away, and one committed while the other was on its way), and the two properties above except
  what leads there; run `concepts` reaches it.
- *Merges in a circle.*  The readers' loop follows `mergedIntoId` to a concept that is
  not merged away.  After A into B and B into A, one after the other, there is none, and the loop
  does not end.  `ChainsKeepAnEnd` says when that can come about: chains of merges go on to
  end, whatever is merged by whom at once, until a merge commits into a concept that was itself
  merged away by then.  That is what the code would have to look at, inside its transaction.

## 8. AuthTokens

One account.  `token` and `reset` are the rows of `RefreshToken` and `PasswordResetToken`,
`password` counts the passwords stored, `req` are the requests in flight.  Each handler of
`AuthService` is split at its awaits: `Register`, `RegisterCreate`; `Login`, `Issue`; `Refresh`,
`RefreshClaim`, `Replay`; `Logout`; `Change`, `ChangeStore`, `ChangeRevoke`; `Forgot`, `ForgotCreate`;
`Reset`, `ResetClaim`, `ResetStore`, `ResetRevoke`, `ResetClean`; and `Die` for a request that ends between
two statements.  Expiry only refuses what the model lets go on.

Properties: `RotatedOnce` ("succeeds exactly once per token"), `ResetOnce` (a link sets one
password), and `SessionsFollowPassword`: a live session goes back to the stored password, unless
its revocation is still due, the request died before it could revoke, or the session was issued by a
request that a revocation had overtaken.  The last is real: `revokeAllUserTokens` revokes
what is stored, and a refresh that has claimed its token issues the next one
afterwards.  The property names it, and says that nothing else escapes.

## 9. Assessment and GenerateOnce

One student in a ready course of one module.  `quiz` is the `ModuleQuiz` row (whose
questions, locked or not), `graded`, `problems`, `practised` and `score` the rows of attempts, practice
problems and mastery, `project`, `handedIn` and `certificate` the awards; a request is known by its number,
which is also the name of what it makes.  The actions are the statements of `getQuiz`, `submitQuiz`,
`recordQuizResult`, `getProblems`, `recordAttempt`, `getFinalProject`, `submitFinalProject` and
`issueCertificate`.  `Fail` ends any request that is under way, between any two of its statements:
the language model refuses, a statement throws, the process dies.  From then on it is in no
window any more; one that has written its attempts and not locked the quiz is remembered as `"cut"`.

`met` records which requests were in the same window, between a check and the write that
relies on it, at once and alive.  The properties say that only those can disturb one another:
`LockedIsGraded` (a locked quiz holds the questions that were graded), `GradedOnceUnlessCutOrRaced`,
`ProblemsOnceUnlessRaced`, `ScoresCountAnswers` (a score misses an answer).  The second has another
exception, which needs no race: attempts and lock are two writes, so that a submission that fails
between them leaves an open quiz, and the next one is graded on top of it.  The code's comments claim more (section 12).

`GenerateOnce` is the promise of what the code does get right: one row behind a gate, made by the first
and told to all.  `KeepsPromise` is its implementation by the final project (gate: the course is
complete) and by the certificate (gate: the project is handed in), both through a unique key whose loser
reads the winner's row.

## 10. Runs

| run | question | bounds | distinct states | result |
|---|---|---|---|---|
| `lifecycle_safety` | the safety properties of section 3 and the implementation of `CoursePromise` | 1 course, 2 requests, 1 fault, 1 sweep job, no presign; 4 of the requests, workers and the sweep between statements at a time | 1 401 538 | hold |
| `lifecycle_live` | `Converges`, `ParkedRescued` with crash, outage, transient error, corrupt file or lost roll-back | 1 course, 1 request, 1 fault, 1 sweep job | 130 819 | hold |
| `lifecycle_presign` | `Converges` up to the intake for all uploads, with confirmations; bytes absent, oversize, corrupt or not what they claim | 1 course, 1 request, 2 faults, 2 sweep jobs | 221 624 | hold |
| `null_status` | does a good upload succeed when NOT IN excludes NULL? | 1 course, no fault | | no |
| `ingestion_run` | the properties of section 4 and the implementation of `Extraction` | 9 pages, windows of 2, jobs of 3, OCR budget 2, 2 faults, 1 sweep job | 33 326 | hold |
| `fresh_pdf` | is a new PDF read at all, with `?? 0` as written? | 2 pages | | no |
| `uploads` | the properties of section 5 | 2 uploads at a time, 4 courses, 2 files of 1 and 2 bytes, 2 uploads an hour, 3 bytes | 646 094 | hold |
| `sharing` | the properties of section 6 | 1 course, owner and student, 1 classroom, 2 codes, 1 entry, 2 requests, 1 fault | 1 034 635 | hold |
| `two_submissions` | is there at most one open queue entry per course? | 2 entries, no fault | | no |
| `concepts` | the properties of section 7 | 2 subtopics that share one of 2 names, 2 concepts, 2 pairs in any direction, 2 administrators, 2 readers, 3 events; 2 of the jobs, administrators and readers between statements at a time | 1 283 070 | hold |
| `auth` | the properties of section 8 | 2 requests at a time, 3 tokens, 3 passwords, 1 link, 1 fault | 1 798 855 | hold |
| `assessment` | the properties of section 9 | 2 subtopics, 2 concepts, 4 requests, each of which may fail | 476 994 | hold |

Why the bounds suffice for what is asked:

- *One course.*  The lifecycle's interactions are per course: jobs, ids, rows and sweeps of
  different courses share only the workers, which hold no state across jobs.  Another course
  adds waiting.  The theorems hold for any set of courses.
- *Two requests* is where a handler meets another one between its statements; two
  workers and a sweep are there besides, and any four of these five meet (`FourAtATime`, a state constraint).  One fault (two in `ingestion_run`) reaches a
  crash at every statement and, in `ingestion_run`, a crash during the recovery from another.
- *Pages.*  Windows end at 2, 4, 6, 8, 9 and jobs at 4, 8 and 9, so that a job ends in the middle
  of its budget, on it and past it; the scanned pages 2, 3, 6 and 9 (3 is blank) lie on both sides
  of windows and hand-offs and exceed the OCR budget of 2.  The code has windows of 25, jobs of 100,
  a budget of 25.
- *Sharing.*  Two requests at a time make every pair of handlers meet at every pair of
  statements, and a third comes after.  Two codes let a code be refreshed under a student
  who has shown the old one.  Requests and codes are interchangeable, hence the symmetry.
- `Ops` names the client operations that take part.  `lifecycle_safety` leaves out the
  presigned path, `lifecycle_presign` takes it; the proofs cover all of it
  together.  A client that confirms again and again keeps a course busy, so
  repetitions are paid for like faults.
- *Uploads.*  Four courses exceed the limit of two an hour, eight bytes the quota of three and two
  copies the one of a file by more than the one overlapping upload may add, so each
  bound could be broken; courses and requests are interchangeable.
- *Concepts.*  Two jobs are enough for a race over a name, two readers for one over a variant, two
  administrators and pairs for merges that cross or go in a circle.  `TwoAtATime`, a state constraint, lets any
  two of them meet at any two statements, and others come before and after.  Two concepts may be twins
  or of two names; chains of more are left to the theorems, which hold for any number of concepts,
  pairs and administrators and any of them at once.
- *Auth.*  Three tokens are a session and two rotations or rivals; the third password is one
  that overtakes the second while its request is in flight.
- *Assessment.*  Four requests make two grade, generate or issue at once, with a third that unlocks
  or marks complete before and a fourth after, any of them cut short.
- `CHECK_DEADLOCK FALSE` wherever requests and events are bounded: a course that is ready, with no client, has nothing to do, and a
  course that is gone for good has nothing left to do.

Every property is paired with a plausible bug in the code (`mutants`; the operators named
`...AlwaysWipes`, `...Unchecked` and so on next to the action they change), and TLC finds
the property violated under the run's own configuration.

## 11. Proofs

Each of `CourseLifecycle`, `IngestionRun`, `Sharing`, `AuthTokens`, `Concepts`, `Assessment` and
`Uploads` has a module `..._proofs`.  The theorems hold for any number of courses, users, requests,
pages, names, tokens, files, sizes of window and budget, limits and faults; the only assumptions are the
`ASSUME`s of these modules, all evaluated by the runs.

`SumTheorems` has what two of them, `IngestionRun` and `Uploads`, share.  The library's induction theorems take a predicate as
a parameter, which the provers cannot instantiate; here induction over a finite set and over the
naturals is stated with a *set* of arguments in the predicate's place, proved from the
well-foundedness of the strict subsets of a finite set and of `<`.  The lemmas on sums (monotone, additive,
changed at one argument, bounded by a bound for each element) follow.

**CourseLifecycle.**  The invariant is
`TypeOK /\ LearnerWorkKeepsStructure /\ DeletedLeavesNothing /\ IntakeInv /\ ReadyInv /\ NothingInv
/\ JobsInv`, preserved in that order, each part from those before it.  `IntakeInv` is
`IntakeBeforeStructuring` with `IntakeGuards`: alone the first is not inductive, since a
job in the queue could be for a course without an intake; nothing ever takes an
intake back but a delete, so it is enough that whoever *enqueues* has looked.
`ReadyInv` is `ReadyMeansStructured` with `BuildGuards`: only `StructReady` makes a course
ready, and the confirmation that throws a ready course back to `ingesting`
does not touch its structure.  Learner rows come first because the wipe
depends on them.

`NothingInv` carries `NothingFromNothing`.  A course has no document before its
upload has written one, and again after an upload whose job could not be queued has
taken it back; the second makes the property hard, since anything started in between
would go on.  `UploadAlone` says that nothing is: until the upload has answered,
confirmations and intakes are turned away by status and stage, the sweep by the age of the row,
the workers by the lack of a job.  `NothingUnderWay` says what may be under way for a
course without a document (jobs that find none), `UnbornUnknown` that nobody has the id of a course that is
not yet there.  `JobsInv` is about the ids: no two jobs of a queue share one, and a job that a worker holds is
not in the queue too; `BaseJobEndsOnce` follows.  It is the other side of idempotent job ids: after a
base job has ended, failed or not, confirming again and handing over again queue nothing, which is why
the liveness properties need the sweep.  TLC looked for counterexamples to the parts of both on some
twenty million states before they were proved.

`Implements` is the refinement of `CoursePromise`: under the invariant each action maps to one of
its seven or to a stutter.  A rebuild is a `Build` because whoever wipes has learner rows
refuse it; the worker that flips to ready is a `Publish` because its structure is complete
and nobody takes the intake back.

Theorems: `TypeCorrect`, `IntakeFirst`, `JobsAfterIntake`, `ReadyIsStructured`,
`BuildsUnready`, `NoOrphans`, `NothingSpontaneous`, `UploadsAlone`, `JobsDistinct`, `BaseJobsEndOnce`,
`LearnerWorkSafe`, `DeletedIsFinal`, `Implements`, and `Invariance` from which they follow.

**IngestionRun.**  Eight parts.  `PlaceInv` ties the worker's place to the rows (its run
is the running one, its copy of the checkpoint is current, the document is pending):
true because there is one worker, and because a document is reset only when its course has
settled.  `WindowInv`: the window in hand starts at the checkpoint and misses no digital page.
`BudgetInv`: a job that has used pages has a run past its first page, which is why a continuation's slot
names a page and why no wipe follows a checkpoint within a job.  `RunsInv`: each further
run was paid for by a fault.  `StoreInv`: beyond the checkpoint only faults have left
chunks.  `OcrInv`: the rows from OCR and those of the window in hand are within the budget
together; the window was read when its allowance was what the rows leave, and nobody else inserts
meanwhile.  With `TypeOK` and `ReadyIsComplete` they are inductive; TLC checked the conjunction
as an invariant before it was proved.

Theorems: `TypeCorrect` (so no job exceeds its budget by more than a window),
`NothingMissing`, `OcrBudget`, `NoDuplicatesWithoutFaults`, `ResumesPast` (an action property), `Implements`
(the refinement of `Extraction`), and `Invariance`.

**Sharing.**  The invariant is the properties with `TypeOK` and three more parts.
`RequestInv` says what a request knows from the statements it has done: the course it forks
is still public or gone, its student has shown a code, the fork of its join is there, the
account that publishes was an adult's.  It is preserved because what it speaks of lasts
(`Lasting`: nothing takes back a fork, a code shown, a classroom's course, or a course's
publicity but its deletion).  `EntryInv` extends two of the properties to queue entries that
are decided: a late decision opens a rejected entry again, so "open entries only" is not
inductive.  `OwnerInv` ties the owner's bracket to its history.  `NothingDangles` rests on
the foreign keys alone (`DeleteRows` looks at the holders again), not on the counts.

Theorems: `TypeCorrect`, `NothingLeftDangling`, `RosterHasForks`, `ForksHaveDoors`,
`AdultsOffer`, `StudentsAreBracketed`, `AdultsRemain` (an action property), and `Invariance`.

**AuthTokens.**  `RotationInv` follows a token from the claim to its successor: a claimed
token is not live, one request at most holds it, and while one does it has no successor; that is why
`updateMany` with `revokedAt: null` is enough.  `ResetInv` is the same of links and passwords.
`SessionInv` puts a request that is about to issue in the position of a live session.
`NoRevival` is an action property: whatever a request had read of a token or link before it was spent, no
statement makes it good again, and a stored token keeps the authority it was issued on.
Theorems: `TypeCorrect`, `Rotation`, `Redemption`, `Sessions`, `SpentForGood`, `Invariance`.

**Concepts.**  `NameInv`: of the jobs creating a name one is alone or the name is marked, and marks stay.
`MergeInv`: a merge is about a proposed pair, and the pair stays what it was.  `LockInv`: what a merge
has read and locked is there until it commits, no other merge's, and the keys it moves to are nobody's;
this is what the database's locks give and what the loops of `mergeCandidate` rely on.  `TextInv`: what was told
of a concept that is not merged away is what its row holds; it needs `LockInv`, since a commit moves rows
onto the survivor.  `LostInv`: a row that a merge has decided to drop has its counterpart at an heir of the
survivor, which is more than the merge has looked at: another merge may have moved the
counterpart on meanwhile.  If not, the survivor leads into merges that crossed, or a merge has committed meanwhile
that this one will have crossed by the time it commits itself (`Blocked`).  `FoundInv`: what a job has found has the name it looked for, also
after merges; with it `SubtopicsTeachWhatTheyNamed` is inductive.  What these need of `Heirs`
(a concept is its own heir; heirs of heirs are heirs; a merge adds heirs and takes none) follows from
its definition as a closure and needs no induction, so a circle of merges does no harm to it; `ChainsKept` uses
the same: what is reached from a concept after a merge is closed under the chain before it, or has the survivor.
Theorems: `TypeCorrect`, `Twins`, `Teaching`, `Moved` and `ChainsKept` (action properties), `OneText`, `Invariance`.

**Assessment.**  `QuizInv`, `ProblemInv`, `ScoreInv` say of requests still in their window what the
properties say of those that are through, and `ScoreInv` that the score a request has read
differs from the stored one by answers that met another, only.  `OrderInv`: requests come in the order of
their numbers, so that "cut short, and then another" is about the earlier of two.  `AwardInv`: who is past a gate finds
it open.  Theorems: `TypeCorrect`, `Locking`, `GradedOnce`, `ProblemsOnce`, `Counting`, `Implements` (both
refinements of `GenerateOnce`), `Invariance`.

**Uploads.**  A request that has passed a control and not written yet holds a permit.
`RateInv` bounds recent courses and permits together, `CopyInv` copies and permits of a file: at the
moment a permit is given the rows are within the limit, and the permits of the others are
`Cardinality(Requests) - 1` at most; afterwards a permit is traded for a row.  `SizeInv` is the same in bytes, with sums for cardinalities: a permit is
worth the size of its file, and a sum over permits at most the largest size for each.  Theorems: `TypeCorrect`,
`Rate`, `Storage`, `Duplicates`, `Invariance`.

**Model-checked only**: liveness, that is `Converges`, `ParkedRescued`, `FinishesUnattended` and
`RecoversUnlessCovered`; the provers have no fairness and no ENABLED.  Every safety invariant, action
property and refinement that a run checks is a theorem.  Two type invariants, those of
`AuthTokens` and `Uploads`, are theorems that no run repeats.

## 12. Disagreements between code and documentation

Three are runs that expect a violation.

1. `fresh_pdf`: `batchWindow` compares with `pageCount ?? 0` before the first window
   "stamps the document's page count" (`jobs/ingestion.processor.ts:513`, `:532`).  A new PDF is
   never read, and its job never ends.
2. `null_status`: `extractionStatus NOT IN ('ready','failed')` is not true of NULL, and
   multipart and confirmed uploads have NULL (`:316`).  Which reading the database takes is the
   constant `NullStatusPending`; the passing runs take the intended one, the
   proofs hold for both.
3. `two_submissions`: a comment says that of two concurrent submissions the loser is caught
   by a unique key (`marketplace/marketplace.service.ts:80`), but the queue has none
   (`apps/api/prisma/schema.prisma:727`): a course gets two pending entries, and both can be approved.

The others show in the form of a property or an action instead.

- *The last side to arrive.*  "Whichever side arrives last triggers" the structuring
  (`docs/application-overview.md:376`), but the worker reads the intake before it writes
  `intake_pending` (`jobs/ingestion.processor.ts:245-270`): an intake in between is left
  for the sweep.  `ParkedRescued` needs the sweep's fairness for this reason.
- *A confirmation that could not enqueue.*  The 503 says "retry confirmation shortly"
  (`course/course.service.ts:443`); the retry returns early (`:327`).  Again only the sweep helps,
  as `lifecycle_presign` shows with Redis down.
- *Repeated confirmations.*  "Repeated finalize calls must not create duplicate ingestion work"
  (`docs/studystack-part1-upload-path-system-design-tesseractjs.md:465`), but a confirmation of a course
  past ingestion restarts it (`course/course.service.ts:327`): `Withdraw` of `CoursePromise`.
- *The sweep.*  "Jobs still live in their queue are skipped"
  (`course/course-maintenance.service.ts:171`), but it looks for the base id only and adds others
  (`:202`, `:211`): hence the bound `MaxRec`.
- *Practice problems.*  "Only one writes; the loser returns the winner's rows"
  (`assessment/practice-problem.service.ts:90`), but at the default isolation level both
  re-checks may see nothing, and there is no unique key: the exception in `ProblemsOnceUnlessRaced`.
- *The locked quiz.*  "Submit rejects re-submission" (`assessment/quiz.service.ts:31`), "prevents
  double-submit" (`:189`).  The attempts are committed at `:187` and the mark follows in a statement of its own:
  when that fails, or the process dies before it, the same quiz is graded once more, by a submission that races
  with nobody.  Submissions that overlap are both graded, and a generation that was under way replaces the
  questions: the exceptions in `GradedOnceUnlessCutOrRaced` and `LockedIsGraded`.
- *Merge chains.*  Readers "follow merge chain to the surviving concept"
  (`mastery/review-content.service.ts:45`) in a loop without a limit, but a merge refuses only a concept paired
  with itself (`concepts/concept-review.service.ts:44`): after A into B and B into A there is no
  such concept, and the request never ends; the exception in `ChainsKeepAnEnd`.
- *Merges that cross.*  A link is dropped because "the subtopic already knows the concept under its
  canonical id" (`concepts/concept-review.service.ts:54`), but the look-up locks nothing: of two
  merges that cross, each may drop the link that the other one has seen; the exception in
  `SubtopicsTeachWhatTheyNamed` and `NothingLost`.
- *The quota of presigned uploads.*  The course is reserved first "so quota/dedupe still run before
  any bytes move" (`course/course.service.ts:223`), with a 500 MB quota in total
  (`docs/application-overview.md:187`); but a presigned upload has no hash, and its confirmation stores
  whatever size the object has, up to that of one file, without asking again (`:426`): the exception
  in `StorageBounded`.

## 13. What is assumed and what is left out

*External, modelled from their use.*  BullMQ ignores an id it remembers, completed and failed
ones included; `add` throws while Redis is down; a stalled job is put back; a job that throws is
retried while attempts are left.  PostgreSQL: a statement or a transaction is atomic, foreign keys
refuse the deletion of subtopics in use, an update of a row that is gone fails, an insert below
a course that is gone fails, and at the default isolation level two transactions may both miss
the row the other is about to insert.

*Abstracted.*  Text, names and prompts; a file is the outcome of reading it.  Extraction,
OCR and chunking are pure: in `IngestionRun` a page yields one chunk (a longer page yields several, and
`ocrPagesSoFar` counts chunks, so the code's OCR budget is spent sooner), and scanned
pages that turn out blank are not counted, as in the code.  Times become
nondeterminism: a sweep may find any course old enough; its ids
`<base>:rec-<now>` are always fresh, and at most `MaxRec` of them live.

*Left out.*  Several documents of one course (the API creates one); figures and their files; errors of single
database statements in handlers outside `Assessment`, and those that are swallowed (in `IngestionRun` the
write of a document's status, which `CourseLifecycle` has, of a page count, of a run's completion; in
`Assessment` that of a mastery score but for the race to create it, which leaves an answer uncounted); the deletion of a course in the middle of a PDF (in
`CourseLifecycle`, for pageless documents, it is there); bytes replaced by another PDF
between two jobs; the exam date and a late attestation.  In `Sharing`:
certificates and purchases, the second of which this build cannot create; roles and prices, which no code
sets; consent documents; several owners.  In `AuthTokens`: access tokens, which are stateless, and hashing.  In
`Assessment`: several students (they share the practice problems and the project, whose makers
may be requests of anybody), several modules, and the administrator's override of practice problems.

*The size of the whole.*  Five sixths of the TypeScript is the generated Prisma client
(`generated/prisma`), which has no logic of the program's own and is modelled as a database whose
statements are atomic; what is counted here is the hand-written rest.

*Not modelled yet*: the back-fill's producer and worker but for their effect on a course, and the pure
algorithms, as planned in section 2.
*Not to be modelled*: Q&A and exports (append-only), mail, telemetry, storage, the parsers, the
two stub workers.
