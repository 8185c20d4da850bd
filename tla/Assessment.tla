----------------------------- MODULE Assessment -----------------------------
(***************************************************************************)
(* What a student does in a course once it is ready: the module quiz       *)
(* (QuizService), practice problems (PracticeProblemService), the mastery  *)
(* scores that both feed (MasteryService), the final project               *)
(* (FinalProjectService) and the certificate (CertificateService).         *)
(*                                                                         *)
(* One student, and a course of one module, one of whose subtopics has     *)
(* practice problems.  Requests run at once and an action is one database  *)
(* statement of a request, or one transaction where its statements are     *)
(* sent together.  The completion gate is read in the same action as the   *)
(* statement after it: rows it counts are never taken away.  A request may *)
(* fail between any two of its actions, for whatever reason; nothing that  *)
(* it wrote before is undone.                                              *)
(*                                                                         *)
(* What a request makes is known by the number of the request.             *)
(***************************************************************************)
EXTENDS Naturals

CONSTANTS
    Subtopics,
    Concepts,           \* that the module's subtopics teach
    MaxRequests         \* bound: requests made

ASSUME AssessmentAssumption ==
    Subtopics # {} /\ MaxRequests \in Nat /\ "quiz" \notin Concepts /\ "problems" \notin Concepts

VARIABLES
    done,               \* the subtopics marked complete
    quiz,               \* the module_quizzes row
    graded,             \* the submissions whose quiz_attempts are written
    problems,           \* the sets of practice problems written
    practised,          \* the practice attempts written
    score,              \* the answers that each mastery score counts
    project,            \* the final project, or 0
    handedIn,           \* whether an attempt of type final_project is written
    certificate,        \* the certificate, or 0
    told,               \* history: the projects and certificates answered
    pc,                 \* what each request is doing
    saw,                \* the questions that a submission is graded on
    feed,               \* the scores that a request has to update
    met                 \* history: requests that were in one window at once

workVars == <<done, quiz, graded, problems, practised, score>>
awardVars == <<project, handedIn, certificate, told>>
feedVars == <<saw, feed>>
vars == <<done, quiz, graded, problems, practised, score, project, handedIn, certificate,
          told, pc, saw, feed, met>>

-----------------------------------------------------------------------------
Requests == 1..MaxRequests
Pcs == {"new", "generate", "grade", "lock", "score", "update", "make", "insert",
        "prompt", "prompted", "issue", "issued", "done", "cut"}

\* The concepts of the answers of a request, those whose score it has still
\* to update, the one it is updating, and what it read of that one.
Feed == [about : SUBSET Concepts, todo : SUBSET Concepts, of : SUBSET Concepts,
         base : SUBSET Requests]
Answers(ks) == [about |-> ks, todo |-> ks, of |-> {}, base |-> {}]

TypeOK ==
    /\ done \subseteq Subtopics
    /\ quiz \in [gen : 0..MaxRequests, submitted : BOOLEAN]
    /\ graded \subseteq Requests /\ practised \subseteq Requests
    /\ problems \subseteq Requests
    /\ score \in [Concepts -> SUBSET Requests]
    /\ project \in 0..MaxRequests /\ certificate \in 0..MaxRequests
    /\ handedIn \in BOOLEAN
    /\ told \in [project : SUBSET Requests, certificate : SUBSET Requests]
    /\ pc \in [Requests -> Pcs]
    /\ saw \in [Requests -> 0..MaxRequests]
    /\ feed \in [Requests -> Feed]
    /\ met \subseteq ({"quiz", "problems"} \cup Concepts) \X Requests \X Requests
    /\ \A r \in graded : saw[r] # 0

Init ==
    /\ done = {} /\ quiz = [gen |-> 0, submitted |-> FALSE]
    /\ graded = {} /\ problems = {} /\ practised = {}
    /\ score = [k \in Concepts |-> {}]
    /\ project = 0 /\ handedIn = FALSE /\ certificate = 0
    /\ told = [project |-> {}, certificate |-> {}]
    /\ pc = [r \in Requests |-> "new"]
    /\ saw = [r \in Requests |-> 0]
    /\ feed = [r \in Requests |-> Answers({})]
    /\ met = {}

Complete == done = Subtopics
At(r, p) == pc[r] = p
Goto(r, p) == pc' = [pc EXCEPT ![r] = p]

\* Requests are numbered as they come.
Comes(r) == At(r, "new") /\ \A q \in 1..(r - 1) : ~At(q, "new")

\* r enters a window of w in which the rivals already are.
Meet(w, r, rivals) == met' = met \cup {<<w, r, q>> : q \in rivals \ {r}}
Meeting(pcs) == {q \in Requests : pc[q] \in pcs}
Met(w, p, q) == <<w, p, q>> \in met \/ <<w, q, p>> \in met

\* markSubtopicComplete: an upsert.
MarkComplete(s) ==
    /\ done' = done \cup {s}
    /\ UNCHANGED <<quiz, graded, problems, practised, score, awardVars, pc, feedVars, met>>

-----------------------------------------------------------------------------
(* The quiz.                                                               *)

\* getQuiz up to the generator; a submitted quiz is only shown.
GetQuiz(r) ==
    /\ Comes(r) /\ Complete /\ ~quiz.submitted
    /\ Goto(r, "generate")
    /\ Meet("quiz", r, Meeting({"grade", "lock"}))
    /\ UNCHANGED <<workVars, awardVars, feedVars>>

\* The generated questions replace the stored ones, whatever became of them.
StoreQuiz(r) ==
    /\ At(r, "generate")
    /\ quiz' = [quiz EXCEPT !.gen = r]
    /\ Goto(r, "done")
    /\ UNCHANGED <<done, graded, problems, practised, score, awardVars, feedVars, met>>

\* Mutant: there may be no stored quiz.
SubmitUnseen(r) ==
    /\ Comes(r) /\ Complete /\ ~quiz.submitted
    /\ \E about \in SUBSET Concepts :
          /\ about # {}
          /\ feed' = [feed EXCEPT ![r] = Answers(about)]
    /\ saw' = [saw EXCEPT ![r] = quiz.gen]
    /\ Goto(r, "grade")
    /\ Meet("quiz", r, Meeting({"grade", "lock", "generate"}))
    /\ UNCHANGED <<workVars, awardVars>>

\* Mutant: a quiz that was submitted is graded again.
SubmitAgain(r) ==
    /\ Comes(r) /\ Complete
    /\ quiz.gen # 0
    /\ \E about \in SUBSET Concepts :
          /\ about # {}
          /\ feed' = [feed EXCEPT ![r] = Answers(about)]
    /\ saw' = [saw EXCEPT ![r] = quiz.gen]
    /\ Goto(r, "grade")
    /\ Meet("quiz", r, Meeting({"grade", "lock", "generate"}))
    /\ UNCHANGED <<workVars, awardVars>>

\* submitQuiz up to the grading, one answer per question.
Submit(r) ==
    /\ Comes(r) /\ Complete
    /\ quiz.gen # 0 /\ ~quiz.submitted
    /\ \E about \in SUBSET Concepts :
          /\ about # {}
          /\ feed' = [feed EXCEPT ![r] = Answers(about)]
    /\ saw' = [saw EXCEPT ![r] = quiz.gen]
    /\ Goto(r, "grade")
    /\ Meet("quiz", r, Meeting({"grade", "lock", "generate"}))
    /\ UNCHANGED <<workVars, awardVars>>

\* Mutant: the quiz is locked first.
GradeLater(r) ==
    /\ At(r, "grade")
    /\ quiz' = [quiz EXCEPT !.submitted = TRUE]
    /\ Goto(r, "lock")
    /\ UNCHANGED <<done, graded, problems, practised, score, awardVars, feedVars, met>>

\* Every answer is graded, then the attempts are written in one transaction.
Grade(r) ==
    /\ At(r, "grade")
    /\ graded' = graded \cup {r}
    /\ Goto(r, "lock")
    /\ UNCHANGED <<done, quiz, problems, practised, score, awardVars, feedVars, met>>

Lock(r) ==
    /\ At(r, "lock")
    /\ quiz' = [quiz EXCEPT !.submitted = TRUE]
    /\ Goto(r, "score")
    /\ UNCHANGED <<done, graded, problems, practised, score, awardVars, feedVars, met>>

-----------------------------------------------------------------------------
(* recordQuizResult: a score is read, decayed and written back.            *)

ReadScore(r) ==
    /\ At(r, "score")
    /\ \E k \in feed[r].todo :
          /\ feed' = [feed EXCEPT ![r].of = {k}, ![r].base = score[k]]
          /\ Meet(k, r, {q \in Requests : feed[q].of = {k}})
    /\ Goto(r, "update")
    /\ UNCHANGED <<workVars, awardVars, saw>>

Updated(r) == LET todo == feed[r].todo \ feed[r].of IN
    /\ feed' = [feed EXCEPT ![r].todo = todo, ![r].of = {}, ![r].base = {}]
    /\ Goto(r, IF todo = {} THEN "done" ELSE "score")

\* Mutant: a score forgets what it was.
WriteScoreAfresh(r) ==
    /\ At(r, "update")
    /\ score' = [k \in Concepts |-> IF k \in feed[r].of THEN {r} ELSE score[k]]
    /\ Updated(r)
    /\ UNCHANGED <<done, quiz, graded, problems, practised, awardVars, saw, met>>

\* Who found no row creates it; that somebody else has done so meanwhile is
\* an error, which the caller swallows.  Who found one overwrites it.
WriteScore(r) ==
    /\ At(r, "update")
    /\ score' = [k \in Concepts |->
          IF k \in feed[r].of /\ (feed[r].base # {} \/ score[k] = {})
          THEN feed[r].base \cup {r} ELSE score[k]]
    /\ Updated(r)
    /\ UNCHANGED <<done, quiz, graded, problems, practised, awardVars, saw, met>>

-----------------------------------------------------------------------------
(* Practice problems.                                                      *)

\* getProblems of a subtopic that qualifies and has none.
GetProblems(r) ==
    /\ Comes(r) /\ problems = {}
    /\ Goto(r, "make")
    /\ UNCHANGED <<workVars, awardVars, feedVars, met>>

\* Mutant: written without looking again.
RecheckNothing(r) ==
    /\ At(r, "make")
    /\ Goto(r, "insert") /\ Meet("problems", r, Meeting({"insert"}))
    /\ UNCHANGED <<workVars, awardVars, feedVars>>

\* The transaction looks again, and sees only what is committed.
Recheck(r) ==
    /\ At(r, "make")
    /\ IF problems = {}
       THEN Goto(r, "insert") /\ Meet("problems", r, Meeting({"insert"}))
       ELSE Goto(r, "done") /\ UNCHANGED met
    /\ UNCHANGED <<workVars, awardVars, feedVars>>

InsertProblems(r) ==
    /\ At(r, "insert")
    /\ problems' = problems \cup {r}
    /\ Goto(r, "done")
    /\ UNCHANGED <<done, quiz, graded, practised, score, awardVars, feedVars, met>>

\* recordAttempt: a correct answer feeds the score of one concept.
Practise(r) ==
    /\ Comes(r) /\ problems # {}
    /\ practised' = practised \cup {r}
    /\ \/ /\ \E k \in Concepts : feed' = [feed EXCEPT ![r] = Answers({k})]
          /\ Goto(r, "score")
       \/ Goto(r, "done") /\ UNCHANGED feed
    /\ UNCHANGED <<done, quiz, graded, problems, score, awardVars, saw, met>>

-----------------------------------------------------------------------------
(* The final project and the certificate: found, or made under a unique    *)
(* key, whose loser looks again.                                           *)

TellProject(r, x) ==
    Goto(r, "done") /\ told' = [told EXCEPT !.project = @ \cup {x}]
TellCertificate(r, x) ==
    Goto(r, "done") /\ told' = [told EXCEPT !.certificate = @ \cup {x}]

\* getFinalProject up to the generator.
GetProject(r) ==
    /\ Comes(r) /\ Complete
    /\ \/ project # 0 /\ TellProject(r, project)
       \/ project = 0 /\ Goto(r, "prompt") /\ UNCHANGED told
    /\ UNCHANGED <<workVars, project, handedIn, certificate, feedVars, met>>

\* Mutant: the loser answers what it generated.
CreateProjectOwn(r) ==
    /\ At(r, "prompt")
    /\ project' = IF project = 0 THEN r ELSE project
    /\ TellProject(r, r)
    /\ UNCHANGED <<workVars, handedIn, certificate, feedVars, met>>

CreateProject(r) ==
    /\ At(r, "prompt")
    /\ \/ project = 0 /\ project' = r /\ TellProject(r, r)
       \/ project # 0 /\ Goto(r, "prompted") /\ UNCHANGED <<project, told>>
    /\ UNCHANGED <<workVars, handedIn, certificate, feedVars, met>>

ProjectWinner(r) ==
    /\ At(r, "prompted")
    /\ TellProject(r, project)
    /\ UNCHANGED <<workVars, project, handedIn, certificate, feedVars, met>>

\* submitFinalProject.
HandIn ==
    /\ Complete /\ project # 0
    /\ handedIn' = TRUE
    /\ UNCHANGED <<workVars, project, certificate, told, pc, feedVars, met>>

\* issueCertificate: eligible, and one there already or not.
Claim(r) ==
    /\ Comes(r) /\ Complete /\ handedIn
    /\ \/ certificate # 0 /\ TellCertificate(r, certificate)
       \/ certificate = 0 /\ Goto(r, "issue") /\ UNCHANGED told
    /\ UNCHANGED <<workVars, project, handedIn, certificate, feedVars, met>>

Issue(r) ==
    /\ At(r, "issue")
    /\ \/ certificate = 0 /\ certificate' = r /\ TellCertificate(r, r)
       \/ certificate # 0 /\ Goto(r, "issued") /\ UNCHANGED <<certificate, told>>
    /\ UNCHANGED <<workVars, project, handedIn, feedVars, met>>

CertificateWinner(r) ==
    /\ At(r, "issued")
    /\ TellCertificate(r, certificate)
    /\ UNCHANGED <<workVars, project, handedIn, certificate, feedVars, met>>

\* A request that is under way fails: the language model refuses, a statement
\* throws that nothing catches, or the process dies.  It is under way no more,
\* and cut short if it wrote its attempts and has not locked the quiz.
Fail(r) ==
    /\ pc[r] \notin {"new", "done", "cut"}
    /\ Goto(r, IF At(r, "lock") THEN "cut" ELSE "done")
    /\ feed' = [feed EXCEPT ![r].of = {}, ![r].base = {}]
    /\ UNCHANGED <<workVars, awardVars, saw, met>>

-----------------------------------------------------------------------------
Next ==
    \/ \E s \in Subtopics : MarkComplete(s)
    \/ \E r \in Requests :
          \/ GetQuiz(r) \/ StoreQuiz(r) \/ Submit(r) \/ Grade(r) \/ Lock(r)
          \/ ReadScore(r) \/ WriteScore(r)
          \/ GetProblems(r) \/ Recheck(r) \/ InsertProblems(r) \/ Practise(r)
          \/ GetProject(r) \/ CreateProject(r) \/ ProjectWinner(r)
          \/ Claim(r) \/ Issue(r) \/ CertificateWinner(r) \/ Fail(r)
    \/ HandIn

Spec == Init /\ [][Next]_vars

-----------------------------------------------------------------------------
(* Properties.                                                             *)

\* "Stored quiz is locked via submittedAt": a locked quiz has been graded and
\* still holds the questions that were, unless it was being generated anew
\* while it was submitted.
LockedIsGraded ==
    quiz.submitted => \E g \in graded :
        quiz.gen = saw[g] \/ Met("quiz", quiz.gen, g)

\* "Submit rejects re-submission": a quiz is graded again only by submissions
\* that were between their check and their lock at the same time, or after one
\* that failed when its attempts were written and the quiz was not yet locked,
\* since the attempts and the mark that rejects are not written together.
GradedOnceUnlessCutOrRaced ==
    \A p, q \in graded : p < q => At(p, "cut") \/ Met("quiz", p, q)

\* "Only one writes": problems are written twice only by requests that were
\* between their second look and their insert at the same time.
ProblemsOnceUnlessRaced ==
    \A p, q \in problems : p = q \/ Met("problems", p, q)

\* A score counts every answer that went on to update it, save where two
\* updates of it overlapped; and only answers that are on record.
ScoresCountAnswers ==
    /\ \A k \in Concepts : score[k] \subseteq graded \cup practised
    /\ \A r \in Requests : \A k \in feed[r].about \ feed[r].todo :
          r \in score[k] \/ \E q \in Requests : Met(k, r, q)

\* There is one final project and one certificate, made once the gate is open,
\* and everybody who is answered is answered that one.
Project == INSTANCE GenerateOnce WITH
    Makers <- Requests, open <- Complete, row <- project, told <- told.project
Certificate == INSTANCE GenerateOnce WITH
    Makers <- Requests, open <- handedIn, row <- certificate, told <- told.certificate
KeepsPromise == Project!Spec /\ Certificate!Spec
=============================================================================
