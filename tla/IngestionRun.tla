---------------------------- MODULE IngestionRun ----------------------------
(***************************************************************************)
(* The extraction of one PDF by IngestionProcessor: page windows under a   *)
(* page budget per job, a durable checkpoint (IngestionRun.pagesProcessed) *)
(* per window, continuation jobs, and the resumption after crashes,        *)
(* retries, stalled deliveries and repeated confirmations.                 *)
(*                                                                         *)
(* What happens to the course before and after is in CourseLifecycle.      *)
(* There is one worker with concurrency 1, as in the code.                 *)
(***************************************************************************)
EXTENDS Naturals, FiniteSets, Functions

CONSTANTS
    Pages,          \* pages of the document
    Batch,          \* PAGE_BATCH_SIZE
    JobPages,       \* MAX_PAGES_PER_JOB
    MaxOcr,         \* MAX_OCR_PAGES
    Scanned,        \* the pages without a text layer
    Blank,          \* the scanned pages in which OCR finds no text
    Unstamped,      \* what a missing page count compares as: 0 in the code
    MaxRec,         \* bound: live jobs of the reconcile sweep
    MaxFaults       \* bound: crashes, errors, lost adds, stalls, repetitions

ASSUME SizesAssumption ==
    /\ Pages \in Nat \ {0} /\ Batch \in Nat \ {0} /\ JobPages \in Nat \ {0}
    /\ MaxOcr \in Nat /\ Unstamped \in Nat
    /\ MaxRec \in Nat /\ MaxFaults \in Nat
    /\ Scanned \subseteq 1..Pages /\ Blank \subseteq Scanned

VARIABLES
    (* the rows of the document *)
    docStatus,      \* SourceDocument.extractionStatus
    pageCount,      \* SourceDocument.pageCount; 0 stands for NULL
    copies,         \* how often the text of each page is among the chunks
    run, done,      \* the running IngestionRun (0: none), its pagesProcessed
    runs,           \* how many runs there have been
    settled,        \* the course has left `ingesting`
    file,           \* what the stored bytes are
    (* Redis *)
    queue,          \* ingestion jobs waiting
    known,          \* the job ids BullMQ remembers
    (* the worker *)
    pc, job,
    held,           \* pagesProcessed as the worker last read it
    win,            \* the window in hand: its last page and the pages with text
    budget,         \* pages this job has used
    faults          \* faults still allowed

rowVars == <<docStatus, pageCount, copies, run, done, runs, settled, file>>
queueVars == <<queue, known>>
workVars == <<pc, job, held, win, budget>>
vars == <<docStatus, pageCount, copies, run, done, runs, settled, file,
          queue, known, pc, job, held, win, budget, faults>>

-----------------------------------------------------------------------------
Page == 1..Pages
Digital == Page \ Scanned

Base == <<"base", 0, 0>>                    \* ingest:<course>
Sweeps == {"sweep"} \X (1..MaxRec) \X {0}   \* ingest:<course>:rec-<now>
Slot(r, d) == <<"next", r, d>>              \* ingest:<course>:<run>:<pages>
Now == <<"now", 0, 0>>                      \* ingest:<course>:<now>
JobIds == {Base, Now} \cup Sweeps \cup ({"next"} \X (1..(1 + MaxFaults)) \X Page)
Job == [id : JobIds, left : 1..2]
NewJob(i) == [id |-> i, left |-> IF i \in Sweeps THEN 2 ELSE 1]

Pcs == {"idle", "scan", "open", "wipe", "window", "commit", "checkpoint",
        "finalize", "complete", "fail", "fail-run", "after", "handoff",
        "throw", "finish"}

TypeOK ==
    /\ docStatus \in {"pending", "ready", "failed"}
    /\ pageCount \in {0, Pages}
    /\ copies \in [Page -> Nat]
    /\ run \in 0..runs /\ done \in 0..Pages /\ runs \in 0..(1 + MaxFaults)
    /\ settled \in BOOLEAN
    /\ file \in {"good", "locked", "refused"}
    /\ queue \in SUBSET Job /\ known \in SUBSET JobIds
    /\ pc \in Pcs
    /\ job \in Job
    /\ held \in 0..Pages
    /\ win \in [to : 0..Pages, text : SUBSET Page]
    /\ budget \in 0..(JobPages + Batch - 1)
    /\ faults \in 0..MaxFaults

\* The upload was confirmed and its job queued.
Init ==
    /\ docStatus = "pending" /\ pageCount = 0
    /\ copies = [p \in Page |-> 0]
    /\ run = 0 /\ done = 0 /\ runs = 0
    /\ settled = FALSE
    /\ file \in {"good", "locked", "refused"}
    /\ queue = {NewJob(Base)} /\ known = {Base}
    /\ pc = "idle" /\ job = NewJob(Base)
    /\ held = 0 /\ win = [to |-> 0, text |-> {}] /\ budget = 0
    /\ faults = MaxFaults

-----------------------------------------------------------------------------
Goto(next) == pc' = next /\ UNCHANGED <<job, held, win, budget>>
PayFault == faults > 0 /\ faults' = faults - 1

\* Queue.add: BullMQ ignores an id it remembers.
Add(i) ==
    /\ queue' = IF i \in known THEN queue ELSE queue \cup {NewJob(i)}
    /\ known' = IF i = Now THEN known ELSE known \cup {i}

Take(j) ==
    /\ pc = "idle" /\ j \in queue
    /\ queue' = queue \ {j}
    /\ pc' = "scan" /\ job' = j /\ budget' = 0
    /\ UNCHANGED <<rowVars, known, held, win, faults>>

\* pendingDocuments; with none left the job finalizes the course.
Scan ==
    /\ pc = "scan"
    /\ settled' = (settled \/ docStatus # "pending")
    /\ Goto(IF docStatus = "pending" THEN "open" ELSE "finish")
    /\ UNCHANGED <<docStatus, pageCount, copies, run, done, runs, file,
                   queueVars, faults>>

\* Mutant: a resumed run wipes too.
OpenAlwaysWipes ==
    /\ pc = "open" /\ file # "refused"
    /\ run' = IF run = 0 THEN runs + 1 ELSE run
    /\ runs' = IF run = 0 THEN runs + 1 ELSE runs
    /\ done' = IF run = 0 THEN 0 ELSE done
    /\ held' = done'
    /\ pc' = "wipe"
    /\ UNCHANGED <<docStatus, pageCount, copies, settled, file, queueVars, job,
                   win, budget, faults>>

\* currentRun, else startRun.
Open ==
    /\ pc = "open" /\ file # "refused"
    /\ run' = IF run = 0 THEN runs + 1 ELSE run
    /\ runs' = IF run = 0 THEN runs + 1 ELSE runs
    /\ done' = IF run = 0 THEN 0 ELSE done
    /\ held' = done'
    /\ pc' = (IF done' = 0 THEN "wipe" ELSE "window")
    /\ UNCHANGED <<docStatus, pageCount, copies, settled, file, queueVars, job,
                   win, budget, faults>>

\* loadVerified throws before there is a run.
Refuse ==
    /\ pc = "open" /\ file = "refused"
    /\ Goto("fail")
    /\ UNCHANGED <<rowVars, queueVars, faults>>

\* wipeDocumentOutput.
Wipe ==
    /\ pc = "wipe"
    /\ copies' = [p \in Page |-> 0]
    /\ Goto("window")
    /\ UNCHANGED <<docStatus, pageCount, run, done, runs, settled, file,
                   queueVars, faults>>

-----------------------------------------------------------------------------
(* One window.                                                             *)

\* batchWindow returns null: startPage > (document.pageCount ?? 0).
Covered == held + 1 > IF pageCount = 0 THEN Unstamped ELSE pageCount

WindowCovered ==
    /\ pc = "window" /\ Covered
    /\ Goto("after")
    /\ UNCHANGED <<rowVars, queueVars, faults>>

\* A password, or too many pages: the run fails, and then the document.
WindowLocked ==
    /\ pc = "window" /\ ~Covered /\ file = "locked"
    /\ run' = 0 /\ done' = 0
    /\ Goto("fail")
    /\ UNCHANGED <<docStatus, pageCount, copies, runs, settled, file, queueVars,
                   faults>>

\* ocrPagesSoFar counts the chunks that came out of OCR.
OcrRows == SumFunctionOnSet(copies, Scanned)
\* Mutant: the budget starts over with each window.
OcrLeftPerWindow == MaxOcr
OcrLeft == IF OcrRows < MaxOcr THEN MaxOcr - OcrRows ELSE 0

\* The pages of a window that yield text: the digital ones, and the scanned
\* ones that are read before the budget of OCR is spent, unless blank.
OcrRead(from, to) ==
    {p \in Scanned \cap (from..to) :
        Cardinality(Scanned \cap (from..(p - 1))) < OcrLeft}
TextOf(from, to) == (Digital \cap (from..to)) \cup (OcrRead(from, to) \ Blank)

WindowRead ==
    LET from == held + 1
        to == IF held + Batch < Pages THEN held + Batch ELSE Pages
    IN
    /\ pc = "window" /\ ~Covered /\ file # "locked"
    /\ pageCount' = Pages
    /\ win' = [to |-> to, text |-> TextOf(from, to)]
    /\ pc' = "commit"
    /\ UNCHANGED <<docStatus, copies, run, done, runs, settled, file, queueVars,
                   job, held, budget, faults>>

\* commitBatch and appendChunks: one transaction.
Commit ==
    /\ pc = "commit"
    /\ copies' = [p \in Page |->
                     IF p \in win.text THEN copies[p] + 1 ELSE copies[p]]
    /\ Goto("checkpoint")
    /\ UNCHANGED <<docStatus, pageCount, run, done, runs, settled, file,
                   queueVars, faults>>

\* Mutant: one page short.
CheckpointOneShort ==
    LET n == win.to - held IN
    /\ pc = "checkpoint"
    /\ done' = IF win.to >= Pages THEN done + n ELSE done + n - 1
    /\ held' = done'
    /\ budget' = budget + n
    /\ pc' = IF win.to >= Pages THEN "finalize"
             ELSE IF budget' >= JobPages THEN "after" ELSE "window"
    /\ UNCHANGED <<docStatus, pageCount, copies, run, runs, settled, file,
                   queueVars, job, win, faults>>

\* Mutant: the budget is not looked at within a document.
CheckpointUnbudgeted ==
    LET n == win.to - held IN
    /\ pc = "checkpoint"
    /\ done' = done + n
    /\ held' = done'
    /\ budget' = budget + n
    /\ pc' = IF win.to >= Pages THEN "finalize" ELSE "window"
    /\ UNCHANGED <<docStatus, pageCount, copies, run, runs, settled, file,
                   queueVars, job, win, faults>>

\* pagesProcessed is incremented, the job charged.
Checkpoint ==
    LET n == win.to - held IN
    /\ pc = "checkpoint"
    /\ done' = done + n
    /\ held' = done'
    /\ budget' = budget + n
    /\ pc' = IF win.to >= Pages THEN "finalize"
             ELSE IF budget' >= JobPages THEN "after" ELSE "window"
    /\ UNCHANGED <<docStatus, pageCount, copies, run, runs, settled, file,
                   queueVars, job, win, faults>>

-----------------------------------------------------------------------------
(* The end of a document and of a job.                                     *)

Finalize ==
    /\ pc = "finalize"
    /\ docStatus' = "ready"
    /\ Goto("complete")
    /\ UNCHANGED <<pageCount, copies, run, done, runs, settled, file, queueVars,
                   faults>>

\* completeRun; after a failure, the updateMany of failDocument.
CloseRun ==
    /\ pc \in {"complete", "fail-run"}
    /\ run' = 0 /\ done' = 0
    /\ Goto("after")
    /\ UNCHANGED <<docStatus, pageCount, copies, runs, settled, file, queueVars,
                   faults>>

FailDocument ==
    /\ pc = "fail"
    /\ docStatus' = "failed"
    /\ Goto("fail-run")
    /\ UNCHANGED <<pageCount, copies, run, done, runs, settled, file, queueVars,
                   faults>>

After ==
    /\ pc = "after"
    /\ Goto(IF budget >= JobPages THEN "handoff" ELSE "scan")
    /\ UNCHANGED <<rowVars, queueVars, faults>>

\* Mutant: one slot per run, whatever page it has reached.
HandoffPerRun ==
    /\ pc = "handoff"
    /\ \/ Add(IF run = 0 THEN Now ELSE Slot(run, 1)) /\ UNCHANGED faults
       \/ PayFault /\ UNCHANGED queueVars
    /\ Goto("finish")
    /\ UNCHANGED rowVars

\* handoffContinuation; a failing add is swallowed.
Handoff ==
    /\ pc = "handoff"
    /\ \/ Add(IF run = 0 THEN Now ELSE Slot(run, done)) /\ UNCHANGED faults
       \/ PayFault /\ UNCHANGED queueVars
    /\ Goto("finish")
    /\ UNCHANGED rowVars

Finish ==
    /\ pc = "finish"
    /\ Goto("idle")
    /\ UNCHANGED <<rowVars, queueVars, faults>>

\* Unclassified errors of the window, the insert or the checkpoint.
Transient ==
    /\ pc \in {"window", "commit", "checkpoint"} /\ PayFault
    /\ Goto("throw")
    /\ UNCHANGED <<rowVars, queueVars>>

\* An attempt less, unless the job has stalled and been put back already.
Throw ==
    /\ pc = "throw"
    /\ queue' = IF job.left = 1 \/ job \in queue THEN queue
                ELSE queue \cup {[job EXCEPT !.left = 1]}
    /\ Goto("idle")
    /\ UNCHANGED <<rowVars, known, faults>>

-----------------------------------------------------------------------------
(* Around the worker.                                                      *)

Live == queue \cup (IF pc = "idle" THEN {} ELSE {job})

\* Mutant: the sweep re-uses the base id.
SweepBaseId ==
    /\ ~settled /\ MaxRec > 0
    /\ \A j \in Live : j.id # Base
    /\ Add(Base)
    /\ UNCHANGED <<rowVars, workVars, faults>>

\* reconcileStuckCourses, on a course still ingesting.
Sweep ==
    /\ ~settled
    /\ \A j \in Live : j.id # Base
    /\ \E i \in Sweeps \ {j.id : j \in Live} :
          queue' = queue \cup {NewJob(i)}
    /\ UNCHANGED <<rowVars, known, workVars, faults>>

\* confirmUpload on a course that has left `ingesting`: the document is reset,
\* and the add is one of an id that BullMQ remembers.
Reconfirm ==
    /\ settled /\ file # "refused" /\ PayFault
    /\ docStatus' = "pending" /\ settled' = FALSE
    /\ Add(Base)
    /\ UNCHANGED <<pageCount, copies, run, done, runs, file, workVars>>

\* The process dies; or the job loses its lock while the worker goes on.
Crash ==
    /\ pc # "idle" /\ PayFault
    /\ queue' = queue \cup {job}
    /\ Goto("idle")
    /\ UNCHANGED <<rowVars, known>>

Stall ==
    /\ pc # "idle" /\ job \notin queue /\ PayFault
    /\ queue' = queue \cup {job}
    /\ UNCHANGED <<rowVars, known, workVars>>

-----------------------------------------------------------------------------
Window == WindowCovered \/ WindowLocked \/ WindowRead
Worker ==
    \/ \E j \in queue : Take(j)
    \/ Scan \/ Open \/ Refuse \/ Wipe \/ Window \/ Commit \/ Checkpoint
    \/ Finalize \/ CloseRun \/ FailDocument \/ After \/ Handoff
    \/ Finish \/ Throw

Next == Worker \/ Transient \/ Sweep \/ Reconfirm \/ Crash \/ Stall

Spec == Init /\ [][Next]_vars

\* The event loop runs the worker; somebody may or may not call the sweep.
FairSpec == Spec /\ WF_vars(Worker)
-----------------------------------------------------------------------------
(* Safety.                                                                 *)

\* No page is lost on the way to `ready`: whatever crashed, was retried or was
\* delivered twice, every page with a text layer is among the chunks, and a
\* resumed run can rely on all the pages its checkpoint passes over.
ReadyIsComplete ==
    /\ docStatus = "ready" => \A p \in Digital : copies[p] > 0
    /\ run # 0 => \A p \in Digital \cap (1..done) : copies[p] > 0

\* "The MAX_OCR_PAGES budget must survive batch boundaries and run resumes":
\* over all windows, jobs and resumptions no more text comes out of OCR than
\* that of so many pages (the text of a page being one chunk).
OcrCapped == OcrRows <= MaxOcr

\* The text of a page is stored once; a crash or error between the chunks and
\* the checkpoint may store it again, but each fault does so once at most.
StoredOnce == \A p \in Page : copies[p] <= 1 + (MaxFaults - faults)

-----------------------------------------------------------------------------
(* Liveness.                                                               *)

Pending == docStatus = "pending"

\* The continuation jobs carry a document of any length to its end: as long
\* as nothing fails, it needs no job of the sweep.
FinishesUnattended ==
    [](faults = MaxFaults /\ \A j \in Live : j.id \notin Sweeps)
        => (Pending ~> ~Pending)

\* A run whose checkpoint has reached the last page although the document is
\* not ready: its process died before the status was written, or before the
\* run was completed and the upload was confirmed again.
FullyCovered == run # 0 /\ done >= Pages

\* Whatever else fails, a sweep that is called now and then brings the document
\* to its end.
RecoversUnlessCovered ==
    WF_vars(Sweep) => (Pending ~> (~Pending \/ FullyCovered))

\* A PDF whose bytes can be read is read: nothing but the upload needs to
\* happen before.
FreshPdfIsRead == Pending ~> ~Pending
-----------------------------------------------------------------------------
(* What all this amounts to for those who read the chunks.                 *)

Promise == INSTANCE Extraction WITH
    Digital <- Digital, phase <- docStatus, upTo <- done,
    have <- {p \in Page : copies[p] > 0}

\* Windows, hand-offs, retries and stalled jobs implement the extraction: the
\* checkpoint passes only stored pages, a document is ready only with all of
\* them, and nothing is cleared behind a checkpoint or under a reader.
KeepsPromise == Promise!Spec
=============================================================================
