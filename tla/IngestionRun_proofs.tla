------------------------ MODULE IngestionRun_proofs ------------------------
(***************************************************************************)
(* IngestionRun for every length of document, window, budget and number of *)
(* faults, and for every value of Unstamped, 0 included.                   *)
(*                                                                         *)
(* The inductive invariant says what the worker's place in the code tells  *)
(* about the rows it works on: there is one worker, so nobody else touches *)
(* them, but its job may be any job, on whatever the jobs before it left.  *)
(***************************************************************************)
EXTENDS IngestionRun, SumTheorems, FiniteSetTheorems, TLAPS

Spent == MaxFaults - faults

\* The document that is worked upon is pending, its run is the running one,
\* and the worker's copy of the checkpoint is current.
PlaceInv ==
    /\ pc \in {"open", "wipe", "window", "commit", "checkpoint", "finalize", "fail"}
          => docStatus = "pending"
    /\ pc \in {"wipe", "window", "commit", "checkpoint", "finalize", "complete"}
          => run # 0 /\ held = done
    /\ pc = "wipe" => done = 0
    /\ pc \in {"finalize", "complete"} => done = Pages
    /\ pc = "complete" => docStatus = "ready"
    /\ pc = "fail-run" => docStatus = "failed"
    /\ pc \in {"wipe", "window"} => file # "refused"
    /\ pc \in {"commit", "checkpoint"} => file = "good" /\ pageCount = Pages
    /\ pageCount = 0 => done = 0

\* The window in hand starts at the checkpoint and misses no digital page.
WindowInv ==
    pc \in {"commit", "checkpoint"} =>
        /\ held < win.to /\ win.to <= held + Batch
        /\ win.text \subseteq (held + 1)..win.to
        /\ Digital \cap ((held + 1)..win.to) \subseteq win.text
        /\ pc = "checkpoint" => \A p \in win.text : copies[p] > 0

\* A job that has used pages has work in hand, on a course still ingesting.
BudgetInv ==
    /\ pc \in {"scan", "open", "wipe", "window", "commit", "checkpoint"}
          => budget < JobPages
    /\ budget > 0 /\ pc \notin {"idle", "finish", "throw"} =>
          /\ file = "good" /\ ~settled
          /\ run # 0 => done > 0
          /\ docStatus = "pending" => run # 0
    /\ pc = "handoff" => budget > 0
    /\ settled => docStatus # "pending" /\ pc \notin {"complete", "fail-run"}

\* A fault is paid for each run beyond the first.
RunsInv ==
    /\ runs <= 1 + Spent
    /\ run = 0 /\ docStatus = "pending" /\ pc # "fail" => runs <= Spent

\* Past the checkpoint only faults have left anything behind.
StoreInv ==
    /\ StoredOnce
    /\ run # 0 /\ (done > 0 \/ pc \in {"window", "commit", "checkpoint"}) =>
          \A p \in Page :
              p > done /\ ~(pc = "checkpoint" /\ p \in win.text) => copies[p] <= Spent

\* What a window has read and not inserted yet is within the budget of OCR,
\* together with what is there.
OcrInv ==
    /\ OcrCapped
    /\ pc = "commit" => OcrRows + Cardinality(win.text \cap Scanned) <= MaxOcr

IInv ==
    /\ TypeOK /\ PlaceInv /\ WindowInv /\ BudgetInv /\ RunsInv
    /\ ReadyIsComplete /\ StoreInv /\ OcrInv

-----------------------------------------------------------------------------
(* Windows and job ids.                                                    *)

\* A window that is read starts at the checkpoint, is not empty, and holds the
\* text of every digital page in it, whatever OCR makes of the others.
LEMMA WindowBounds ==
    ASSUME IInv, WindowRead
    PROVE  /\ held < win'.to /\ win'.to <= held + Batch /\ win'.to \in 0..Pages
           /\ win'.text \subseteq (held + 1)..win'.to
           /\ Digital \cap ((held + 1)..win'.to) \subseteq win'.text
           /\ win' = [to |-> win'.to, text |-> win'.text]
<1> USE SizesAssumption
<1> DEFINE from == held + 1
           to == IF held + Batch < Pages THEN held + Batch ELSE Pages
<1>1. held \in Nat /\ held < Pages
  BY DEF IInv, TypeOK, PlaceInv, WindowRead, Covered
<1>2. held < to /\ to <= held + Batch /\ to \in 0..Pages
  BY <1>1
<1>3. OcrRead(from, to) \subseteq from..to
  BY DEF OcrRead
<1>4. /\ TextOf(from, to) \subseteq from..to
      /\ Digital \cap (from..to) \subseteq TextOf(from, to)
  BY <1>3 DEF TextOf
<1>5. win' = [to |-> to, text |-> TextOf(from, to)]
  BY DEF WindowRead
<1> QED
  BY <1>2, <1>4, <1>5

\* The scanned pages are finite, and so are the sums over them.
LEMMA ScannedFinite ==
    /\ Scanned \in SUBSET Page /\ IsFiniteSet(Scanned)
    /\ TypeOK => OcrRows \in Nat
<1> USE SizesAssumption
<1>1. IsFiniteSet(1..Pages)
  BY FS_Interval
<1>2. Scanned \in SUBSET Page /\ IsFiniteSet(Scanned)
  BY <1>1, FS_Subset DEF Page
<1>3. TypeOK => \A p \in Scanned : copies[p] \in Nat
  BY <1>2 DEF TypeOK
<1> QED
  BY <1>2, <1>3, SumType DEF OcrRows

\* OCR reads no more pages of a window than the budget has left: each of them
\* has fewer scanned pages before it in the window.
LEMMA OcrReadBound ==
    ASSUME TypeOK, NEW from \in Nat \ {0}, NEW to \in Nat
    PROVE  /\ IsFiniteSet(OcrRead(from, to))
           /\ Cardinality(OcrRead(from, to)) <= OcrLeft
<1> USE SizesAssumption
<1> DEFINE S == Scanned \cap (from..to)
<1>1. S \in SUBSET Int /\ IsFiniteSet(S)
  BY ScannedFinite, FS_Subset
<1>2. OcrLeft \in Nat
  BY ScannedFinite DEF OcrLeft
<1>3. OcrRead(from, to) \in SUBSET S
  BY DEF OcrRead
<1>4. ASSUME NEW p \in OcrRead(from, to)
      PROVE  Cardinality({q \in S : q < p}) < OcrLeft
  <2>1. p \in Nat /\ p <= to /\ Cardinality(Scanned \cap (from..(p - 1))) < OcrLeft
    BY ScannedFinite DEF OcrRead, Page
  <2>2. {q \in S : q < p} = Scanned \cap (from..(p - 1))
    BY <2>1
  <2> QED
    BY <2>1, <2>2
<1> HIDE DEF S
<1> QED
  BY <1>1, <1>2, <1>3, <1>4, FirstOnes

\* What is added to the queue are jobs.
LEMMA NewJobType ==
    ASSUME NEW i \in JobIds PROVE NewJob(i) \in Job
BY DEF NewJob, Job

LEMMA AddType ==
    ASSUME TypeOK, NEW i \in JobIds, Add(i)
    PROVE  queue' \in SUBSET Job /\ known' \in SUBSET JobIds
BY NewJobType DEF TypeOK, Add

\* A continuation job is named after pages that have been processed.
LEMMA SlotType ==
    ASSUME IInv, pc = "handoff", run # 0 PROVE Slot(run, done) \in JobIds
<1> USE SizesAssumption
<1>1. done \in Page
  BY DEF IInv, TypeOK, BudgetInv, Page
<1>2. run \in 1..(1 + MaxFaults)
  BY DEF IInv, TypeOK
<1> QED
  BY <1>1, <1>2 DEF Slot, JobIds

-----------------------------------------------------------------------------
(* The invariant is inductive.                                             *)

LEMMA IInvInit == Init => IInv
<1> USE SizesAssumption
<1> SUFFICES ASSUME Init PROVE IInv
  OBVIOUS
<1>1. TypeOK
  <2>1. Base \in JobIds /\ NewJob(Base) \in Job
    BY NewJobType DEF JobIds
  <2>2. queue \in SUBSET Job /\ known \in SUBSET JobIds /\ job \in Job
    BY <2>1 DEF Init
  <2>3. /\ copies \in [Page -> Nat] /\ win \in [to : 0..Pages, text : SUBSET Page]
        /\ pageCount \in {0, Pages} /\ held \in 0..Pages /\ done \in 0..Pages
    BY DEF Init
  <2>4. /\ run \in 0..runs /\ runs \in 0..(1 + MaxFaults) /\ faults \in 0..MaxFaults
        /\ budget \in 0..(JobPages + Batch - 1)
    BY DEF Init
  <2>5. /\ docStatus \in {"pending", "ready", "failed"} /\ settled \in BOOLEAN
        /\ file \in {"good", "locked", "refused"} /\ pc \in Pcs
    BY DEF Init, Pcs
  <2> QED
    BY <2>2, <2>3, <2>4, <2>5 DEF TypeOK
<1>2. PlaceInv /\ WindowInv /\ BudgetInv
  BY DEF Init, PlaceInv, WindowInv, BudgetInv
<1>3. RunsInv /\ ReadyIsComplete /\ StoreInv
  BY DEF Init, RunsInv, ReadyIsComplete, StoreInv, StoredOnce, Spent, Digital
<1>4. OcrInv
  <2>1. \A p \in Scanned : copies[p] = 0
    BY ScannedFinite DEF Init
  <2>2. OcrRows = 0
    BY <2>1, ScannedFinite, SumZero DEF OcrRows
  <2> QED
    BY <2>2 DEF Init, OcrInv, OcrCapped
<1> QED
  BY <1>1, <1>2, <1>3, <1>4 DEF IInv

\* The worker's place keeps telling the truth: nobody else opens, closes or
\* resets a run, and a document is reset only once its course has settled.
LEMMA PlaceStep ==
    ASSUME IInv, [Next]_vars PROVE PlaceInv'
<1> USE SizesAssumption DEF IInv, TypeOK, PlaceInv, WindowInv, BudgetInv,
         rowVars, queueVars, workVars
<1>1. ASSUME NEW j \in queue, Take(j) PROVE PlaceInv'
  BY <1>1 DEF Take
<1>2. ASSUME Scan PROVE PlaceInv'
  BY <1>2 DEF Scan, Goto
<1>3. ASSUME Open PROVE PlaceInv'
  BY <1>3 DEF Open
<1>4. ASSUME Refuse PROVE PlaceInv'
  BY <1>4 DEF Refuse, Goto
<1>5. ASSUME Wipe PROVE PlaceInv'
  BY <1>5 DEF Wipe, Goto
<1>6. ASSUME WindowCovered PROVE PlaceInv'
  BY <1>6 DEF WindowCovered, Goto
<1>7. ASSUME WindowLocked PROVE PlaceInv'
  BY <1>7 DEF WindowLocked, Goto
<1>8. ASSUME WindowRead PROVE PlaceInv'
  BY <1>8 DEF WindowRead, Covered
<1>9. ASSUME Commit PROVE PlaceInv'
  BY <1>9 DEF Commit, Goto
<1>10. ASSUME Checkpoint PROVE PlaceInv'
  BY <1>10 DEF Checkpoint
<1>11. ASSUME Finalize PROVE PlaceInv'
  BY <1>11 DEF Finalize, Goto
<1>12. ASSUME CloseRun PROVE PlaceInv'
  BY <1>12 DEF CloseRun, Goto
<1>13. ASSUME FailDocument PROVE PlaceInv'
  BY <1>13 DEF FailDocument, Goto
<1>14. ASSUME After PROVE PlaceInv'
  BY <1>14 DEF After, Goto
<1>15. ASSUME Handoff PROVE PlaceInv'
  BY <1>15 DEF Handoff, Goto, PayFault, Add
<1>16. ASSUME Finish PROVE PlaceInv'
  BY <1>16 DEF Finish, Goto
<1>17. ASSUME Throw PROVE PlaceInv'
  BY <1>17 DEF Throw, Goto
<1>18. ASSUME Transient PROVE PlaceInv'
  BY <1>18 DEF Transient, Goto, PayFault
<1>19. ASSUME Sweep PROVE PlaceInv'
  BY <1>19 DEF Sweep
<1>20. ASSUME Reconfirm PROVE PlaceInv'
  BY <1>20 DEF Reconfirm, PayFault, Add
<1>21. ASSUME Crash PROVE PlaceInv'
  BY <1>21 DEF Crash, Goto, PayFault
<1>22. ASSUME Stall PROVE PlaceInv'
  BY <1>22 DEF Stall, PayFault
<1>23. CASE UNCHANGED vars
  BY <1>23 DEF vars
<1> QED
  BY <1>1, <1>2, <1>3, <1>4, <1>5, <1>6, <1>7, <1>8, <1>9, <1>10, <1>11,
     <1>12, <1>13, <1>14, <1>15, <1>16, <1>17, <1>18, <1>19, <1>20, <1>21,
     <1>22, <1>23
     DEF Next, Worker, Window

\* A window stays as it was read until it has been checkpointed.
LEMMA WindowStep ==
    ASSUME IInv, [Next]_vars PROVE WindowInv'
<1> USE SizesAssumption DEF IInv, TypeOK, PlaceInv, WindowInv,
         rowVars, queueVars, workVars
<1>1. ASSUME NEW j \in queue, Take(j) PROVE WindowInv'
  BY <1>1 DEF Take
<1>2. ASSUME Scan PROVE WindowInv'
  BY <1>2 DEF Scan, Goto
<1>3. ASSUME Open PROVE WindowInv'
  BY <1>3 DEF Open
<1>4. ASSUME Refuse PROVE WindowInv'
  BY <1>4 DEF Refuse, Goto
<1>5. ASSUME Wipe PROVE WindowInv'
  BY <1>5 DEF Wipe, Goto
<1>6. ASSUME WindowCovered PROVE WindowInv'
  BY <1>6 DEF WindowCovered, Goto
<1>7. ASSUME WindowLocked PROVE WindowInv'
  BY <1>7 DEF WindowLocked, Goto
<1>8. ASSUME WindowRead PROVE WindowInv'
  BY <1>8, WindowBounds DEF WindowRead
<1>9. ASSUME Commit PROVE WindowInv'
  BY <1>9 DEF Commit, Goto
<1>10. ASSUME Checkpoint PROVE WindowInv'
  BY <1>10 DEF Checkpoint
<1>11. ASSUME Finalize PROVE WindowInv'
  BY <1>11 DEF Finalize, Goto
<1>12. ASSUME CloseRun PROVE WindowInv'
  BY <1>12 DEF CloseRun, Goto
<1>13. ASSUME FailDocument PROVE WindowInv'
  BY <1>13 DEF FailDocument, Goto
<1>14. ASSUME After PROVE WindowInv'
  BY <1>14 DEF After, Goto
<1>15. ASSUME Handoff PROVE WindowInv'
  BY <1>15 DEF Handoff, Goto, PayFault, Add
<1>16. ASSUME Finish PROVE WindowInv'
  BY <1>16 DEF Finish, Goto
<1>17. ASSUME Throw PROVE WindowInv'
  BY <1>17 DEF Throw, Goto
<1>18. ASSUME Transient PROVE WindowInv'
  BY <1>18 DEF Transient, Goto, PayFault
<1>19. ASSUME Sweep PROVE WindowInv'
  BY <1>19 DEF Sweep
<1>20. ASSUME Reconfirm PROVE WindowInv'
  BY <1>20 DEF Reconfirm, PayFault, Add
<1>21. ASSUME Crash PROVE WindowInv'
  BY <1>21 DEF Crash, Goto, PayFault
<1>22. ASSUME Stall PROVE WindowInv'
  BY <1>22 DEF Stall, PayFault
<1>23. CASE UNCHANGED vars
  BY <1>23 DEF vars
<1> QED
  BY <1>1, <1>2, <1>3, <1>4, <1>5, <1>6, <1>7, <1>8, <1>9, <1>10, <1>11,
     <1>12, <1>13, <1>14, <1>15, <1>16, <1>17, <1>18, <1>19, <1>20, <1>21,
     <1>22, <1>23
     DEF Next, Worker, Window

\* Pages are charged to a job only while its course is ingesting.
LEMMA BudgetStep ==
    ASSUME IInv, [Next]_vars PROVE BudgetInv'
<1> USE SizesAssumption DEF IInv, TypeOK, PlaceInv, WindowInv,
         BudgetInv, rowVars, queueVars, workVars
<1>1. ASSUME NEW j \in queue, Take(j) PROVE BudgetInv'
  BY <1>1 DEF Take
<1>2. ASSUME Scan PROVE BudgetInv'
  BY <1>2 DEF Scan, Goto
<1>3. ASSUME Open PROVE BudgetInv'
  BY <1>3 DEF Open
<1>4. ASSUME Refuse PROVE BudgetInv'
  BY <1>4 DEF Refuse, Goto
<1>5. ASSUME Wipe PROVE BudgetInv'
  BY <1>5 DEF Wipe, Goto
<1>6. ASSUME WindowCovered PROVE BudgetInv'
  BY <1>6 DEF WindowCovered, Goto
<1>7. ASSUME WindowLocked PROVE BudgetInv'
  BY <1>7 DEF WindowLocked, Goto
<1>8. ASSUME WindowRead PROVE BudgetInv'
  BY <1>8 DEF WindowRead, Covered
<1>9. ASSUME Commit PROVE BudgetInv'
  BY <1>9 DEF Commit, Goto
<1>10. ASSUME Checkpoint PROVE BudgetInv'
  BY <1>10 DEF Checkpoint
<1>11. ASSUME Finalize PROVE BudgetInv'
  BY <1>11 DEF Finalize, Goto
<1>12. ASSUME CloseRun PROVE BudgetInv'
  BY <1>12 DEF CloseRun, Goto
<1>13. ASSUME FailDocument PROVE BudgetInv'
  BY <1>13 DEF FailDocument, Goto
<1>14. ASSUME After PROVE BudgetInv'
  BY <1>14 DEF After, Goto
<1>15. ASSUME Handoff PROVE BudgetInv'
  BY <1>15 DEF Handoff, Goto, PayFault, Add
<1>16. ASSUME Finish PROVE BudgetInv'
  BY <1>16 DEF Finish, Goto
<1>17. ASSUME Throw PROVE BudgetInv'
  BY <1>17 DEF Throw, Goto
<1>18. ASSUME Transient PROVE BudgetInv'
  BY <1>18 DEF Transient, Goto, PayFault
<1>19. ASSUME Sweep PROVE BudgetInv'
  BY <1>19 DEF Sweep
<1>20. ASSUME Reconfirm PROVE BudgetInv'
  BY <1>20 DEF Reconfirm, PayFault, Add
<1>21. ASSUME Crash PROVE BudgetInv'
  BY <1>21 DEF Crash, Goto, PayFault
<1>22. ASSUME Stall PROVE BudgetInv'
  BY <1>22 DEF Stall, PayFault
<1>23. CASE UNCHANGED vars
  BY <1>23 DEF vars
<1> QED
  BY <1>1, <1>2, <1>3, <1>4, <1>5, <1>6, <1>7, <1>8, <1>9, <1>10, <1>11,
     <1>12, <1>13, <1>14, <1>15, <1>16, <1>17, <1>18, <1>19, <1>20, <1>21,
     <1>22, <1>23
     DEF Next, Worker, Window

\* A run is left behind unfinished, or a document reset, by a fault only.
LEMMA RunsStep ==
    ASSUME IInv, [Next]_vars PROVE RunsInv'
<1> USE SizesAssumption DEF IInv, TypeOK, PlaceInv, BudgetInv,
         RunsInv, Spent, rowVars, queueVars, workVars
<1>1. ASSUME NEW j \in queue, Take(j) PROVE RunsInv'
  BY <1>1 DEF Take
<1>2. ASSUME Scan PROVE RunsInv'
  BY <1>2 DEF Scan, Goto
<1>3. ASSUME Open PROVE RunsInv'
  BY <1>3 DEF Open
<1>4. ASSUME Refuse PROVE RunsInv'
  BY <1>4 DEF Refuse, Goto
<1>5. ASSUME Wipe PROVE RunsInv'
  BY <1>5 DEF Wipe, Goto
<1>6. ASSUME WindowCovered PROVE RunsInv'
  BY <1>6 DEF WindowCovered, Goto
<1>7. ASSUME WindowLocked PROVE RunsInv'
  BY <1>7 DEF WindowLocked, Goto
<1>8. ASSUME WindowRead PROVE RunsInv'
  BY <1>8 DEF WindowRead, Covered
<1>9. ASSUME Commit PROVE RunsInv'
  BY <1>9 DEF Commit, Goto
<1>10. ASSUME Checkpoint PROVE RunsInv'
  BY <1>10 DEF Checkpoint
<1>11. ASSUME Finalize PROVE RunsInv'
  BY <1>11 DEF Finalize, Goto
<1>12. ASSUME CloseRun PROVE RunsInv'
  BY <1>12 DEF CloseRun, Goto
<1>13. ASSUME FailDocument PROVE RunsInv'
  BY <1>13 DEF FailDocument, Goto
<1>14. ASSUME After PROVE RunsInv'
  BY <1>14 DEF After, Goto
<1>15. ASSUME Handoff PROVE RunsInv'
  BY <1>15 DEF Handoff, Goto, PayFault, Add
<1>16. ASSUME Finish PROVE RunsInv'
  BY <1>16 DEF Finish, Goto
<1>17. ASSUME Throw PROVE RunsInv'
  BY <1>17 DEF Throw, Goto
<1>18. ASSUME Transient PROVE RunsInv'
  BY <1>18 DEF Transient, Goto, PayFault
<1>19. ASSUME Sweep PROVE RunsInv'
  BY <1>19 DEF Sweep
<1>20. ASSUME Reconfirm PROVE RunsInv'
  BY <1>20 DEF Reconfirm, PayFault, Add
<1>21. ASSUME Crash PROVE RunsInv'
  BY <1>21 DEF Crash, Goto, PayFault
<1>22. ASSUME Stall PROVE RunsInv'
  BY <1>22 DEF Stall, PayFault
<1>23. CASE UNCHANGED vars
  BY <1>23 DEF vars
<1> QED
  BY <1>1, <1>2, <1>3, <1>4, <1>5, <1>6, <1>7, <1>8, <1>9, <1>10, <1>11,
     <1>12, <1>13, <1>14, <1>15, <1>16, <1>17, <1>18, <1>19, <1>20, <1>21,
     <1>22, <1>23
     DEF Next, Worker, Window

\* Every variable keeps its type.
LEMMA TypeStep ==
    ASSUME IInv, [Next]_vars PROVE TypeOK'
<1> USE SizesAssumption DEF IInv, TypeOK, PlaceInv, WindowInv, BudgetInv,
         RunsInv, Spent, Pcs, rowVars, queueVars, workVars
<1>1. ASSUME NEW j \in queue, Take(j) PROVE TypeOK'
  BY <1>1 DEF Take
<1>2. ASSUME Scan PROVE TypeOK'
  BY <1>2 DEF Scan, Goto
<1>3. ASSUME Open PROVE TypeOK'
  BY <1>3 DEF Open
<1>4. ASSUME Refuse PROVE TypeOK'
  BY <1>4 DEF Refuse, Goto
<1>5. ASSUME Wipe PROVE TypeOK'
  BY <1>5 DEF Wipe, Goto
<1>6. ASSUME WindowCovered PROVE TypeOK'
  BY <1>6 DEF WindowCovered, Goto
<1>7. ASSUME WindowLocked PROVE TypeOK'
  BY <1>7 DEF WindowLocked, Goto
<1>8. ASSUME WindowRead PROVE TypeOK'
  <2>1. held \in Nat
    OBVIOUS
  <2>2. win'.to \in 0..Pages /\ win'.text \subseteq (held + 1)..win'.to
    BY <1>8, WindowBounds
  <2>3. (held + 1)..win'.to \subseteq Page
    BY <2>1, <2>2 DEF Page
  <2>4. win' \in [to : 0..Pages, text : SUBSET Page]
    BY <2>2, <2>3, <1>8, WindowBounds
  <2> QED
    BY <2>4, <1>8 DEF WindowRead
<1>9. ASSUME Commit PROVE TypeOK'
  BY <1>9 DEF Commit, Goto
<1>10. ASSUME Checkpoint PROVE TypeOK'
  BY <1>10 DEF Checkpoint
<1>11. ASSUME Finalize PROVE TypeOK'
  BY <1>11 DEF Finalize, Goto
<1>12. ASSUME CloseRun PROVE TypeOK'
  BY <1>12 DEF CloseRun, Goto
<1>13. ASSUME FailDocument PROVE TypeOK'
  BY <1>13 DEF FailDocument, Goto
<1>14. ASSUME After PROVE TypeOK'
  BY <1>14 DEF After, Goto
<1>15. ASSUME Handoff PROVE TypeOK'
  <2>1. queue' \in SUBSET Job /\ known' \in SUBSET JobIds
    <3>1. Now \in JobIds
      BY DEF JobIds
    <3>2. CASE PayFault /\ UNCHANGED queueVars
      BY <3>2
    <3>3. CASE Add(IF run = 0 THEN Now ELSE Slot(run, done))
      BY <3>1, <3>3, <1>15, SlotType, AddType DEF Handoff
    <3> QED
      BY <3>2, <3>3, <1>15 DEF Handoff
  <2> QED
    BY <2>1, <1>15 DEF Handoff, Goto, PayFault
<1>16. ASSUME Finish PROVE TypeOK'
  BY <1>16 DEF Finish, Goto
<1>17. ASSUME Throw PROVE TypeOK'
  <2>1. [job EXCEPT !.left = 1] \in Job
    BY DEF Job
  <2> QED
    BY <2>1, <1>17 DEF Throw, Goto
<1>18. ASSUME Transient PROVE TypeOK'
  BY <1>18 DEF Transient, Goto, PayFault
<1>19. ASSUME Sweep PROVE TypeOK'
  <2>1. \A i \in Sweeps : NewJob(i) \in Job
    BY NewJobType DEF JobIds
  <2> QED
    BY <2>1, <1>19 DEF Sweep
<1>20. ASSUME Reconfirm PROVE TypeOK'
  <2>1. Base \in JobIds
    BY DEF JobIds
  <2>2. queue' \in SUBSET Job /\ known' \in SUBSET JobIds
    BY <2>1, <1>20, AddType DEF Reconfirm
  <2>3. /\ docStatus' = "pending" /\ settled' = FALSE /\ faults' \in 0..MaxFaults
        /\ UNCHANGED <<pageCount, copies, run, done, runs, file, workVars>>
    BY <1>20 DEF Reconfirm, PayFault
  <2> QED
    BY <2>2, <2>3
<1>21. ASSUME Crash PROVE TypeOK'
  BY <1>21 DEF Crash, Goto, PayFault
<1>22. ASSUME Stall PROVE TypeOK'
  BY <1>22 DEF Stall, PayFault
<1>23. CASE UNCHANGED vars
  BY <1>23 DEF vars
<1> QED
  BY <1>1, <1>2, <1>3, <1>4, <1>5, <1>6, <1>7, <1>8, <1>9, <1>10, <1>11,
     <1>12, <1>13, <1>14, <1>15, <1>16, <1>17, <1>18, <1>19, <1>20, <1>21,
     <1>22, <1>23
     DEF Next, Worker, Window

\* The checkpoint moves only over pages whose text has been inserted, a wipe
\* happens only before it has moved, and only a full checkpoint makes ready.
LEMMA ReadyStep ==
    ASSUME IInv, [Next]_vars PROVE ReadyIsComplete'
<1> USE SizesAssumption DEF IInv, TypeOK, PlaceInv, WindowInv,
         ReadyIsComplete, Digital, rowVars, queueVars, workVars
<1>1. ASSUME NEW j \in queue, Take(j) PROVE ReadyIsComplete'
  BY <1>1 DEF Take
<1>2. ASSUME Scan PROVE ReadyIsComplete'
  BY <1>2 DEF Scan, Goto
<1>3. ASSUME Open PROVE ReadyIsComplete'
  BY <1>3 DEF Open
<1>4. ASSUME Refuse PROVE ReadyIsComplete'
  BY <1>4 DEF Refuse, Goto
<1>5. ASSUME Wipe PROVE ReadyIsComplete'
  BY <1>5 DEF Wipe, Goto
<1>6. ASSUME WindowCovered PROVE ReadyIsComplete'
  BY <1>6 DEF WindowCovered, Goto
<1>7. ASSUME WindowLocked PROVE ReadyIsComplete'
  BY <1>7 DEF WindowLocked, Goto
<1>8. ASSUME WindowRead PROVE ReadyIsComplete'
  BY <1>8 DEF WindowRead, Covered
<1>9. ASSUME Commit PROVE ReadyIsComplete'
  BY <1>9 DEF Commit, Goto
<1>10. ASSUME Checkpoint PROVE ReadyIsComplete'
  BY <1>10 DEF Checkpoint
<1>11. ASSUME Finalize PROVE ReadyIsComplete'
  <2>1. Digital \subseteq 1..done
    BY <1>11 DEF Finalize, Page
  <2> QED
    BY <2>1, <1>11 DEF Finalize, Goto
<1>12. ASSUME CloseRun PROVE ReadyIsComplete'
  BY <1>12 DEF CloseRun, Goto
<1>13. ASSUME FailDocument PROVE ReadyIsComplete'
  BY <1>13 DEF FailDocument, Goto
<1>14. ASSUME After PROVE ReadyIsComplete'
  BY <1>14 DEF After, Goto
<1>15. ASSUME Handoff PROVE ReadyIsComplete'
  BY <1>15 DEF Handoff, Goto, PayFault, Add
<1>16. ASSUME Finish PROVE ReadyIsComplete'
  BY <1>16 DEF Finish, Goto
<1>17. ASSUME Throw PROVE ReadyIsComplete'
  BY <1>17 DEF Throw, Goto
<1>18. ASSUME Transient PROVE ReadyIsComplete'
  BY <1>18 DEF Transient, Goto, PayFault
<1>19. ASSUME Sweep PROVE ReadyIsComplete'
  BY <1>19 DEF Sweep
<1>20. ASSUME Reconfirm PROVE ReadyIsComplete'
  BY <1>20 DEF Reconfirm, PayFault, Add
<1>21. ASSUME Crash PROVE ReadyIsComplete'
  BY <1>21 DEF Crash, Goto, PayFault
<1>22. ASSUME Stall PROVE ReadyIsComplete'
  BY <1>22 DEF Stall, PayFault
<1>23. CASE UNCHANGED vars
  BY <1>23 DEF vars
<1> QED
  BY <1>1, <1>2, <1>3, <1>4, <1>5, <1>6, <1>7, <1>8, <1>9, <1>10, <1>11,
     <1>12, <1>13, <1>14, <1>15, <1>16, <1>17, <1>18, <1>19, <1>20, <1>21,
     <1>22, <1>23
     DEF Next, Worker, Window

\* What is inserted again is beyond the checkpoint, where nothing is left but
\* what an earlier fault interrupted.
LEMMA StoreStep ==
    ASSUME IInv, [Next]_vars PROVE StoreInv'
<1> USE SizesAssumption DEF IInv, TypeOK, PlaceInv, WindowInv, StoreInv,
         StoredOnce, Spent, rowVars, queueVars, workVars
<1>1. ASSUME NEW j \in queue, Take(j) PROVE StoreInv'
  BY <1>1 DEF Take
<1>2. ASSUME Scan PROVE StoreInv'
  BY <1>2 DEF Scan, Goto
<1>3. ASSUME Open PROVE StoreInv'
  BY <1>3 DEF Open
<1>4. ASSUME Refuse PROVE StoreInv'
  BY <1>4 DEF Refuse, Goto
<1>5. ASSUME Wipe PROVE StoreInv'
  BY <1>5 DEF Wipe, Goto
<1>6. ASSUME WindowCovered PROVE StoreInv'
  BY <1>6 DEF WindowCovered, Goto
<1>7. ASSUME WindowLocked PROVE StoreInv'
  BY <1>7 DEF WindowLocked, Goto
<1>8. ASSUME WindowRead PROVE StoreInv'
  BY <1>8 DEF WindowRead, Covered
<1>9. ASSUME Commit PROVE StoreInv'
  BY <1>9 DEF Commit, Goto
<1>10. ASSUME Checkpoint PROVE StoreInv'
  <2>1. done' = win.to /\ done' \in Nat /\ run' # 0
    BY <1>10 DEF Checkpoint
  <2>2. \A p \in Page : p > win.to => copies[p] <= Spent
    BY <1>10 DEF Checkpoint, Page
  <2>3. StoredOnce'
    BY <1>10 DEF Checkpoint
  <2>4. \A p \in Page : p > done' => copies'[p] <= Spent'
    BY <2>1, <2>2, <1>10 DEF Checkpoint
  <2> QED
    BY <2>3, <2>4
<1>11. ASSUME Finalize PROVE StoreInv'
  BY <1>11 DEF Finalize, Goto
<1>12. ASSUME CloseRun PROVE StoreInv'
  BY <1>12 DEF CloseRun, Goto
<1>13. ASSUME FailDocument PROVE StoreInv'
  BY <1>13 DEF FailDocument, Goto
<1>14. ASSUME After PROVE StoreInv'
  BY <1>14 DEF After, Goto
<1>15. ASSUME Handoff PROVE StoreInv'
  BY <1>15 DEF Handoff, Goto, PayFault, Add
<1>16. ASSUME Finish PROVE StoreInv'
  BY <1>16 DEF Finish, Goto
<1>17. ASSUME Throw PROVE StoreInv'
  BY <1>17 DEF Throw, Goto
<1>18. ASSUME Transient PROVE StoreInv'
  BY <1>18 DEF Transient, Goto, PayFault
<1>19. ASSUME Sweep PROVE StoreInv'
  BY <1>19 DEF Sweep
<1>20. ASSUME Reconfirm PROVE StoreInv'
  BY <1>20 DEF Reconfirm, PayFault, Add
<1>21. ASSUME Crash PROVE StoreInv'
  BY <1>21 DEF Crash, Goto, PayFault
<1>22. ASSUME Stall PROVE StoreInv'
  BY <1>22 DEF Stall, PayFault
<1>23. CASE UNCHANGED vars
  BY <1>23 DEF vars
<1> QED
  BY <1>1, <1>2, <1>3, <1>4, <1>5, <1>6, <1>7, <1>8, <1>9, <1>10, <1>11,
     <1>12, <1>13, <1>14, <1>15, <1>16, <1>17, <1>18, <1>19, <1>20, <1>21,
     <1>22, <1>23
     DEF Next, Worker, Window

\* What is read is within what the budget has left, counted when the window is
\* read; only the insertion of that window adds to the count before the next.
LEMMA OcrStep ==
    ASSUME IInv, [Next]_vars PROVE OcrInv'
<1> USE SizesAssumption DEF IInv, rowVars, queueVars, workVars
<1>1. OcrRows \in Nat /\ OcrRows <= MaxOcr
  BY ScannedFinite DEF OcrInv, OcrCapped
<1>2. ASSUME copies' = copies, pc' # "commit" PROVE OcrInv'
  BY <1>1, <1>2 DEF OcrInv, OcrCapped, OcrRows
<1>3. ASSUME UNCHANGED <<copies, pc, win>> PROVE OcrInv'
  BY <1>3 DEF OcrInv, OcrCapped, OcrRows
<1>4. CASE \/ \E j \in queue : Take(j)
           \/ Scan \/ Open \/ Refuse \/ WindowCovered \/ WindowLocked \/ Checkpoint
           \/ Finalize \/ CloseRun \/ FailDocument \/ After \/ Handoff \/ Finish
           \/ Throw \/ Transient \/ Crash
  BY <1>2, <1>4 DEF Take, Scan, Open, Refuse, WindowCovered, WindowLocked,
     Checkpoint, Finalize, CloseRun, FailDocument, After, Handoff, Finish,
     Throw, Transient, Crash, Goto
<1>5. CASE Sweep \/ Reconfirm \/ Stall \/ UNCHANGED vars
  BY <1>3, <1>5 DEF Sweep, Reconfirm, Stall, vars
<1>6. CASE Wipe
  <2>1. \A p \in Scanned : copies'[p] = 0
    BY <1>6, ScannedFinite DEF Wipe
  <2>2. OcrRows' = 0
    BY <2>1, ScannedFinite, SumZero DEF OcrRows
  <2> QED
    BY <2>2, <1>6 DEF OcrInv, OcrCapped, Wipe, Goto
<1>7. CASE WindowRead
  <2> DEFINE from == held + 1
             to == IF held + Batch < Pages THEN held + Batch ELSE Pages
             read == OcrRead(from, to)
  <2>1. TypeOK /\ from \in Nat \ {0} /\ to \in Nat
    BY DEF TypeOK
  <2>2. win'.text = TextOf(from, to) /\ copies' = copies
    BY <1>7 DEF WindowRead
  <2>3. win'.text \cap Scanned \in SUBSET read
    BY <2>2 DEF TextOf, Digital
  <2>4. IsFiniteSet(read) /\ Cardinality(read) <= OcrLeft
    BY <2>1, OcrReadBound
  <2>5. /\ Cardinality(win'.text \cap Scanned) <= Cardinality(read)
        /\ Cardinality(win'.text \cap Scanned) \in Nat /\ Cardinality(read) \in Nat
    BY <2>3, <2>4, FS_Subset, FS_CardinalityType
  <2> HIDE DEF read
  <2>6. OcrRows + Cardinality(win'.text \cap Scanned) <= MaxOcr
    BY <1>1, <2>4, <2>5 DEF OcrLeft
  <2>7. OcrRows' = OcrRows
    BY <2>2 DEF OcrRows
  <2> QED
    BY <1>1, <2>6, <2>7 DEF OcrInv, OcrCapped
<1>8. CASE Commit
  <2>1. \A p \in Scanned : /\ copies[p] \in Nat
                          /\ copies'[p] = IF p \in win.text THEN copies[p] + 1 ELSE copies[p]
    BY <1>8, ScannedFinite DEF Commit, TypeOK
  <2>2. OcrRows' = OcrRows + Cardinality(Scanned \cap win.text)
    BY <2>1, ScannedFinite, SumCount DEF OcrRows
  <2>3. Scanned \cap win.text = win.text \cap Scanned
    OBVIOUS
  <2>4. OcrRows' <= MaxOcr
    BY <1>8, <2>2, <2>3 DEF Commit, OcrInv
  <2> QED
    BY <2>4, <1>8 DEF OcrInv, OcrCapped, Commit, Goto
<1> QED
  BY <1>4, <1>5, <1>6, <1>7, <1>8 DEF Next, Worker, Window

LEMMA IInvStep == IInv /\ [Next]_vars => IInv'
BY PlaceStep, WindowStep, BudgetStep, RunsStep, TypeStep, ReadyStep, StoreStep,
   OcrStep
   DEF IInv

-----------------------------------------------------------------------------
(* Theorems.                                                               *)

\* The invariant of the extraction of a document.
THEOREM Invariance == Spec => []IInv
BY IInvInit, IInvStep, PTL DEF Spec

\* Every variable keeps its type; a job never uses more pages than its budget
\* and one window, whatever it resumes.
THEOREM TypeCorrect == Spec => []TypeOK
<1>1. IInv => TypeOK
  BY DEF IInv
<1> QED
  BY <1>1, Invariance, PTL

\* No page with a text layer is missing from a document that is ready, nor
\* among the pages that a run's checkpoint has passed.
THEOREM NothingMissing == Spec => []ReadyIsComplete
<1>1. IInv => ReadyIsComplete
  BY DEF IInv
<1> QED
  BY <1>1, Invariance, PTL

\* "The MAX_OCR_PAGES budget must survive batch boundaries and run resumes": over
\* all windows, jobs, crashes and resumptions OCR yields no more than it allows.
THEOREM OcrBudget == Spec => []OcrCapped
<1>1. IInv => OcrCapped
  BY DEF IInv, OcrInv
<1> QED
  BY <1>1, Invariance, PTL

\* The text of a page is stored once, and once more for each fault at most.
THEOREM NoDuplicatesWithoutFaults == Spec => []StoredOnce
<1>1. IInv => StoredOnce
  BY DEF IInv, StoreInv
<1> QED
  BY <1>1, Invariance, PTL

\* "Resumes at the last committed page instead of restarting the document":
\* no chunk is ever written for a page that the checkpoint has passed.
ResumesAtCheckpoint ==
    [][\A p \in Page : copies'[p] > copies[p] => p > done]_vars

\* Nothing is inserted for a page that the checkpoint has passed: a job that
\* resumes does so at the first page that is not committed.
THEOREM ResumesPast == Spec => ResumesAtCheckpoint
<1> DEFINE Past == \A p \in Page : copies'[p] > copies[p] => p > done
<1>1. ASSUME IInv, Next PROVE Past
  <2>1. copies \in [Page -> Nat] /\ held \in Nat
    BY <1>1, SizesAssumption DEF IInv, TypeOK
  <2>2. ASSUME Commit PROVE Past
    <3>1. \A p \in win.text : p > done
      BY <1>1, <2>1, <2>2 DEF Commit, IInv, PlaceInv, WindowInv
    <3>2. \A p \in Page : copies'[p] > copies[p] => p \in win.text
      BY <2>1, <2>2 DEF Commit
    <3> QED
      BY <3>1, <3>2
  <2>3. ASSUME Wipe PROVE Past
    BY <2>1, <2>3 DEF Wipe
  <2>4. ASSUME copies' = copies PROVE Past
    BY <2>1, <2>4
  <2>5. Commit \/ Wipe \/ copies' = copies
    BY <1>1 DEF Next, Worker, Window, Take, Scan, Open, Refuse, WindowCovered,
         WindowLocked, WindowRead, Checkpoint, Finalize, CloseRun, FailDocument,
         After, Handoff, Finish, Throw, Transient, Sweep, Reconfirm, Crash, Stall,
         rowVars
  <2> QED
    BY <2>2, <2>3, <2>4, <2>5
<1>2. IInv /\ [Next]_vars => [Past]_vars
  BY <1>1
<1> QED
  BY <1>2, Invariance, PTL DEF Spec, ResumesAtCheckpoint
-----------------------------------------------------------------------------
(* IngestionRun implements Extraction.                                     *)

Have == {p \in Page : copies[p] > 0}
Promised == [Promise!Next]_(Promise!xvars)

LEMMA UnseenMaps ==
    ASSUME UNCHANGED <<docStatus, done, copies>> PROVE Promised
BY DEF Promised, Promise!xvars

\* A window's text goes in past the checkpoint.
LEMMA StoreMaps ==
    ASSUME IInv, Commit PROVE Promised
<1>1. docStatus = "pending" /\ win.text \subseteq (done + 1)..Pages
  <2>1. done \in Nat /\ win.to \in 0..Pages /\ Pages \in Nat
    BY SizesAssumption DEF IInv, TypeOK
  <2>2. held = done /\ win.text \subseteq (held + 1)..win.to
    BY DEF Commit, IInv, PlaceInv, WindowInv
  <2>3. docStatus = "pending"
    BY DEF Commit, IInv, PlaceInv
  <2> QED
    BY <2>1, <2>2, <2>3
<1>2. Have' = Have \cup win.text
  BY SizesAssumption DEF Have, Commit, IInv, TypeOK
<1>3. UNCHANGED <<docStatus, done>>
  BY DEF Commit
<1>4. Promise!Store
  BY <1>1, <1>2, <1>3 DEF Promise!Store, Have
<1> QED
  BY <1>4 DEF Promised, Promise!Next

\* The checkpoint passes stored pages.
LEMMA AdvanceMaps ==
    ASSUME IInv, IInv', Checkpoint PROVE Promised
<1>1. done' \in (done + 1)..Pages
  <2>1. done \in Nat /\ held = done /\ held < win.to /\ win.to \in 0..Pages
    BY SizesAssumption DEF Checkpoint, IInv, TypeOK, PlaceInv, WindowInv
  <2>2. done' = done + (win.to - held)
    BY DEF Checkpoint
  <2> QED
    BY <2>1, <2>2, SizesAssumption
<1>2. docStatus = "pending" /\ run' # 0 /\ UNCHANGED <<docStatus, copies>>
  BY DEF Checkpoint, IInv, PlaceInv
<1>3. Digital \cap (1..done') \subseteq Have
  BY <1>2 DEF IInv, ReadyIsComplete, Have, Digital
<1>4. Promise!Advance
  BY <1>1, <1>2, <1>3 DEF Promise!Advance, Have
<1> QED
  BY <1>4 DEF Promised, Promise!Next

\* Only a document with all its pages becomes ready.
LEMMA FinishMaps ==
    ASSUME IInv, Finalize PROVE Promised
<1>1. docStatus = "pending" /\ run # 0 /\ done = Pages
  BY DEF Finalize, IInv, PlaceInv
<1>2. Digital \subseteq Have
  BY <1>1 DEF IInv, ReadyIsComplete, Have, Digital, Page
<1>3. Promise!Finish
  BY <1>1, <1>2 DEF Finalize, Promise!Finish, Have
<1> QED
  BY <1>3 DEF Promised, Promise!Next

\* Every step of the code is a step of the promise, or none.
LEMMA PromiseStep ==
    ASSUME IInv, IInv', [Next]_vars PROVE Promised
<1> USE DEF rowVars
<1>1. CASE \/ \E j \in queue : Take(j)
           \/ Scan \/ Refuse \/ WindowCovered \/ WindowRead \/ After
           \/ Handoff \/ Finish \/ Throw \/ Transient \/ Sweep \/ Crash \/ Stall
           \/ UNCHANGED vars
  BY <1>1, UnseenMaps DEF Take, Scan, Refuse, WindowCovered, WindowRead, After,
     Handoff, Finish, Throw, Transient, Sweep, Crash, Stall, vars
<1>2. CASE Commit
  BY <1>2, StoreMaps
<1>3. CASE Checkpoint
  BY <1>3, AdvanceMaps
<1>4. CASE Finalize
  BY <1>4, FinishMaps
<1>5. CASE Wipe
  <2>1. docStatus = "pending" /\ done = 0 /\ UNCHANGED <<docStatus, done>>
    BY <1>5 DEF Wipe, IInv, PlaceInv
  <2>2. Have' = {}
    BY <1>5 DEF Wipe, Have
  <2>3. Promise!Clear
    BY <2>1, <2>2 DEF Promise!Clear, Have
  <2> QED
    BY <2>3 DEF Promised, Promise!Next
<1>6. CASE Open \/ WindowLocked \/ CloseRun
  <2>1. UNCHANGED <<docStatus, copies>>
    BY <1>6 DEF Open, WindowLocked, CloseRun
  <2>2. done' = 0 \/ UNCHANGED done
    BY <1>6 DEF Open, WindowLocked, CloseRun
  <2>3. CASE done' = 0
    <3>1. Promise!Close
      BY <2>1, <2>3 DEF Promise!Close
    <3> QED
      BY <3>1 DEF Promised, Promise!Next
  <2>4. CASE UNCHANGED done
    BY <2>1, <2>4, UnseenMaps
  <2> QED
    BY <2>2, <2>3, <2>4
<1>7. CASE FailDocument
  <2>1. Promise!Fail
    BY <1>7 DEF FailDocument, IInv, PlaceInv, Promise!Fail
  <2> QED
    BY <2>1 DEF Promised, Promise!Next
<1>8. CASE Reconfirm
  <2>1. Promise!Reopen
    BY <1>8 DEF Reconfirm, IInv, BudgetInv, Promise!Reopen
  <2> QED
    BY <2>1 DEF Promised, Promise!Next
<1> QED
  BY <1>1, <1>2, <1>3, <1>4, <1>5, <1>6, <1>7, <1>8 DEF Next, Worker, Window

LEMMA PromiseInit == Init => Promise!Init
BY DEF Init, Promise!Init

\* However the extraction is cut into windows and jobs, interrupted, retried,
\* delivered twice or started over, its chunks are those of Extraction.
THEOREM Implements == Spec => KeepsPromise
<1>1. IInv /\ IInv' /\ [Next]_vars => [Promise!Next]_(Promise!xvars)
  BY PromiseStep DEF Promised
<1> QED
  BY <1>1, PromiseInit, Invariance, PTL DEF Spec, KeepsPromise, Promise!Spec
=============================================================================
