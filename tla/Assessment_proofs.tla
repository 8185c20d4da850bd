-------------------------- MODULE Assessment_proofs --------------------------
(***************************************************************************)
(* Assessment for every set of subtopics and concepts and every number of  *)
(* requests.                                                               *)
(***************************************************************************)
EXTENDS Assessment, TLAPS

\* Requests are numbered as they come.
OrderInv == \A p, q \in Requests : p < q /\ pc[q] # "new" => pc[p] # "new"

\* A submission that is under way, or went through, was one of the requests
\* that the later ones met, unless it was cut short, and so did whoever was
\* generating meanwhile.
Submitting(r) == pc[r] \in {"grade", "lock"}
Generating(r) == pc[r] = "generate"
Served(r) == quiz.gen = saw[r] \/ Met("quiz", quiz.gen, r)
QuizInv ==
    /\ \A r \in Requests : Submitting(r) => saw[r] # 0 /\ Served(r)
    /\ \A r \in graded : /\ pc[r] \in {"lock", "score", "update", "done", "cut"}
                         /\ pc[r] \in {"lock", "cut"} \/ quiz.submitted
    /\ \A r \in Requests : pc[r] = "lock" => r \in graded
    /\ \A p, q \in Requests : Submitting(p) /\ Generating(q) => Met("quiz", p, q)
    /\ \A p, q \in Requests :
          p < q /\ (p \in graded \/ Submitting(p)) /\ (q \in graded \/ Submitting(q))
              => pc[p] = "cut" \/ Met("quiz", p, q)
    /\ quiz.submitted => \E g \in graded :
          /\ Served(g)
          /\ \A q \in Requests : Generating(q) => Met("quiz", q, g)

\* The same of the problems.
Inserting(r) == r \in problems \/ pc[r] = "insert"
ProblemInv ==
    \A p, q \in Requests : Inserting(p) /\ Inserting(q) => p = q \/ Met("problems", p, q)

\* An update of a score that other updates passed differs from it only by
\* answers that met another, and met another itself.
Raced(k, r) == \E q \in Requests : Met(k, r, q)
Answered == graded \cup practised
Updating(r, k) == feed[r].of = {k}
ScoreInv ==
    /\ \A k \in Concepts : score[k] \subseteq Answered
    /\ \A r \in Requests : feed[r].base \subseteq Answered
    /\ \A r \in Requests : pc[r] \in {"score", "update"} => r \in Answered
    /\ \A r \in Requests : \A k \in feed[r].about \ feed[r].todo :
          r \in score[k] \/ Raced(k, r)
    /\ \A r \in Requests : \A k \in feed[r].of : Updating(r, k)
    /\ \A k \in Concepts, p, q \in Requests :
          Updating(p, k) /\ Updating(q, k) => p = q \/ Met(k, p, q)
    /\ \A k \in Concepts, r \in Requests : Updating(r, k) =>
          /\ feed[r].base = score[k] \/ Raced(k, r)
          /\ \A x \in Requests :
                (x \in feed[r].base) # (x \in score[k]) => Raced(k, x)

\* Who is past a gate, or the loser of a race, finds what it stands for.
AwardInv ==
    /\ project # 0 => Complete
    /\ certificate # 0 => handedIn
    /\ \A r \in Requests :
          /\ pc[r] \in {"prompt", "prompted"} => Complete
          /\ pc[r] = "prompted" => project # 0
          /\ pc[r] \in {"issue", "issued"} => handedIn
          /\ pc[r] = "issued" => certificate # 0

IInv == TypeOK /\ OrderInv /\ QuizInv /\ ProblemInv /\ ScoreInv /\ AwardInv

-----------------------------------------------------------------------------
(* Types.                                                                  *)

Places == {"quiz", "problems"} \cup Concepts

LEMMA RequestNumbers == Requests \subseteq 0..MaxRequests /\ 0 \notin Requests
BY AssessmentAssumption DEF Requests

\* A meeting adds pairs and takes none away.
LEMMA MeetAdds ==
    ASSUME NEW w, NEW r \in Requests, NEW rivals, Meet(w, r, rivals)
    PROVE  /\ met \subseteq met'
           /\ \A q \in rivals : q # r => Met(w, r, q)' /\ Met(w, q, r)'
BY DEF Meet, Met

LEMMA MeetType ==
    ASSUME TypeOK, NEW w \in Places, NEW r \in Requests, NEW rivals \in SUBSET Requests,
           Meet(w, r, rivals)
    PROVE  met' \subseteq Places \X Requests \X Requests
BY DEF TypeOK, Meet, Places

LEMMA AnswersType ==
    /\ \A ks \in SUBSET Concepts : Answers(ks) \in Feed
    /\ \A ks : /\ Answers(ks).about = ks /\ Answers(ks).todo = ks
               /\ Answers(ks).of = {} /\ Answers(ks).base = {}
BY DEF Answers, Feed

LEMMA FeedFields ==
    ASSUME NEW f \in Feed, NEW of \in SUBSET Concepts, NEW todo \in SUBSET Concepts,
           NEW base \in SUBSET Requests
    PROVE  /\ [f EXCEPT !.of = of, !.base = base] \in Feed
           /\ [f EXCEPT !.todo = todo, !.of = of, !.base = base] \in Feed
<1>1. [f EXCEPT !.of = of] \in Feed
  BY DEF Feed
<1>2. [f EXCEPT !.todo = todo] \in Feed
  BY DEF Feed
<1>3. [f EXCEPT !.todo = todo, !.of = of] \in Feed
  BY <1>2 DEF Feed
<1> QED
  BY <1>1, <1>3 DEF Feed

LEMMA GotoType ==
    ASSUME TypeOK, NEW r \in Requests, NEW p \in Pcs, Goto(r, p)
    PROVE  pc' \in [Requests -> Pcs]
BY DEF TypeOK, Goto

\* What a write of a score makes of it.
LEMMA WriteScoreType ==
    ASSUME TypeOK, NEW r \in Requests, WriteScore(r)
    PROVE  /\ score' \in [Concepts -> SUBSET Requests]
           /\ pc' \in [Requests -> Pcs] /\ feed' \in [Requests -> Feed]
<1>1. feed[r] \in Feed
  BY DEF TypeOK
<1>2. /\ feed[r].base \in SUBSET Requests /\ feed[r].todo \in SUBSET Concepts
  BY <1>1 DEF Feed
<1>3. score' \in [Concepts -> SUBSET Requests]
  BY <1>2 DEF TypeOK, WriteScore
<1>4. pc' \in [Requests -> Pcs]
  BY DEF WriteScore, Updated, Goto, TypeOK, Pcs
<1>5. [feed[r] EXCEPT !.todo = feed[r].todo \ feed[r].of, !.of = {}, !.base = {}] \in Feed
  BY <1>1, <1>2, FeedFields
<1>6. feed' \in [Requests -> Feed]
  BY <1>5 DEF WriteScore, Updated, TypeOK
<1> QED
  BY <1>3, <1>4, <1>6

LEMMA ReadScoreType ==
    ASSUME TypeOK, NEW r \in Requests, ReadScore(r)
    PROVE  /\ pc' \in [Requests -> Pcs] /\ feed' \in [Requests -> Feed]
           /\ met' \subseteq Places \X Requests \X Requests
<1>1. feed[r] \in Feed
  BY DEF TypeOK
<1>2. PICK k \in feed[r].todo :
        /\ feed' = [feed EXCEPT ![r].of = {k}, ![r].base = score[k]]
        /\ Meet(k, r, {q \in Requests : feed[q].of = {k}})
  BY DEF ReadScore
<1>3. k \in Concepts /\ k \in Places
  BY <1>1 DEF Feed, Places
<1>4. score[k] \in SUBSET Requests
  BY <1>3 DEF TypeOK
<1>5. [feed[r] EXCEPT !.of = {k}, !.base = score[k]] \in Feed
  BY <1>1, <1>3, <1>4, FeedFields DEF Feed
<1>6. feed' \in [Requests -> Feed]
  BY <1>2, <1>5 DEF TypeOK
<1>7. met' \subseteq Places \X Requests \X Requests
  BY <1>2, <1>3, MeetType
<1> QED
  BY <1>6, <1>7, GotoType DEF ReadScore, Pcs

LEMMA TypeStep ==
    ASSUME TypeOK, QuizInv, AwardInv, [Next]_vars PROVE TypeOK'
<1> USE DEF TypeOK
<1>1. ASSUME NEW s \in Subtopics, MarkComplete(s) PROVE TypeOK'
  BY <1>1 DEF MarkComplete, awardVars, feedVars
<1>2. ASSUME NEW r \in Requests, GetQuiz(r) PROVE TypeOK'
  <2>1. "quiz" \in Places /\ Meeting({"grade", "lock"}) \in SUBSET Requests
    BY DEF Places, Meeting
  <2>2. met' \subseteq Places \X Requests \X Requests
    BY <1>2, <2>1, MeetType DEF GetQuiz
  <2> QED
    BY <1>2, <2>2, GotoType DEF GetQuiz, workVars, awardVars, feedVars, Pcs, Places
<1>3. ASSUME NEW r \in Requests, StoreQuiz(r) PROVE TypeOK'
  BY <1>3, GotoType, RequestNumbers DEF StoreQuiz, awardVars, feedVars, Pcs
<1>4. ASSUME NEW r \in Requests, Submit(r) PROVE TypeOK'
  <2>1. "quiz" \in Places /\ Meeting({"grade", "lock", "generate"}) \in SUBSET Requests
    BY DEF Places, Meeting
  <2>2. met' \subseteq Places \X Requests \X Requests
    BY <1>4, <2>1, MeetType DEF Submit
  <2>3. PICK about \in SUBSET Concepts : feed' = [feed EXCEPT ![r] = Answers(about)]
    BY <1>4 DEF Submit
  <2>4. feed' \in [Requests -> Feed]
    BY <2>3, AnswersType
  <2>5. saw' \in [Requests -> 0..MaxRequests] /\ \A q \in graded : saw'[q] # 0
    BY <1>4 DEF Submit
  <2> QED
    BY <1>4, <2>2, <2>4, <2>5, GotoType DEF Submit, workVars, awardVars, Pcs, Places
<1>5. ASSUME NEW r \in Requests, Grade(r) PROVE TypeOK'
  <2>1. saw[r] # 0
    BY <1>5 DEF Grade, At, QuizInv, Submitting
  <2> QED
    BY <1>5, <2>1, GotoType DEF Grade, awardVars, feedVars, Pcs
<1>6. ASSUME NEW r \in Requests, Lock(r) PROVE TypeOK'
  BY <1>6, GotoType DEF Lock, awardVars, feedVars, Pcs
<1>7. ASSUME NEW r \in Requests, ReadScore(r) PROVE TypeOK'
  BY <1>7, ReadScoreType DEF ReadScore, workVars, awardVars, Places
<1>8. ASSUME NEW r \in Requests, WriteScore(r) PROVE TypeOK'
  BY <1>8, WriteScoreType DEF WriteScore, awardVars
<1>9. ASSUME NEW r \in Requests, GetProblems(r) PROVE TypeOK'
  BY <1>9, GotoType DEF GetProblems, workVars, awardVars, feedVars, Pcs
<1>10. ASSUME NEW r \in Requests, Recheck(r) PROVE TypeOK'
  <2>1. "problems" \in Places /\ Meeting({"insert"}) \in SUBSET Requests
    BY DEF Places, Meeting
  <2>2. met' \subseteq Places \X Requests \X Requests
    BY <1>10, <2>1, MeetType DEF Recheck, Places
  <2> QED
    BY <1>10, <2>2, GotoType DEF Recheck, workVars, awardVars, feedVars, Pcs, Places
<1>11. ASSUME NEW r \in Requests, InsertProblems(r) PROVE TypeOK'
  BY <1>11, GotoType DEF InsertProblems, awardVars, feedVars, Pcs
<1>12. ASSUME NEW r \in Requests, Practise(r) PROVE TypeOK'
  <2>1. feed' \in [Requests -> Feed]
    <3>1. \A k \in Concepts : Answers({k}) \in Feed
      BY AnswersType
    <3>2. feed' = feed \/ \E k \in Concepts : feed' = [feed EXCEPT ![r] = Answers({k})]
      BY <1>12 DEF Practise
    <3>3. ASSUME NEW k \in Concepts, feed' = [feed EXCEPT ![r] = Answers({k})]
          PROVE  feed' \in [Requests -> Feed]
      BY <3>1, <3>3
    <3> QED
      BY <3>2, <3>3
  <2>2. pc' \in [Requests -> Pcs]
    BY <1>12, GotoType DEF Practise, Pcs
  <2> QED
    BY <1>12, <2>1, <2>2 DEF Practise, awardVars
<1>13. ASSUME NEW r \in Requests, GetProject(r) \/ CreateProject(r) \/ ProjectWinner(r)
       PROVE  TypeOK'
  <2>1. pc' \in [Requests -> Pcs]
    BY <1>13, GotoType DEF GetProject, CreateProject, ProjectWinner, TellProject, Pcs
  <2>2. project' \in 0..MaxRequests
    BY <1>13, RequestNumbers DEF GetProject, CreateProject, ProjectWinner
  <2>3. told' = told \/ \E x \in Requests : told' = [told EXCEPT !.project = @ \cup {x}]
    <3>1. project # 0 => project \in Requests
      BY AssessmentAssumption DEF Requests
    <3>2. CASE GetProject(r) \/ CreateProject(r)
      BY <3>1, <3>2 DEF GetProject, CreateProject, TellProject
    <3>3. CASE ProjectWinner(r)
      BY <3>1, <3>3 DEF ProjectWinner, TellProject, At, AwardInv
    <3> QED
      BY <1>13, <3>2, <3>3
  <2>4. told' \in [project : SUBSET Requests, certificate : SUBSET Requests]
    BY <2>3
  <2> QED
    BY <1>13, <2>1, <2>2, <2>4
    DEF GetProject, CreateProject, ProjectWinner, workVars, feedVars
<1>15. ASSUME NEW r \in Requests, Claim(r) \/ Issue(r) \/ CertificateWinner(r)
       PROVE  TypeOK'
  <2>1. pc' \in [Requests -> Pcs]
    BY <1>15, GotoType DEF Claim, Issue, CertificateWinner, TellCertificate, Pcs
  <2>2. certificate' \in 0..MaxRequests
    BY <1>15, RequestNumbers DEF Claim, Issue, CertificateWinner
  <2>3. told' = told \/ \E x \in Requests : told' = [told EXCEPT !.certificate = @ \cup {x}]
    <3>1. certificate # 0 => certificate \in Requests
      BY AssessmentAssumption DEF Requests
    <3>2. CASE Claim(r) \/ Issue(r)
      BY <3>1, <3>2 DEF Claim, Issue, TellCertificate
    <3>3. CASE CertificateWinner(r)
      BY <3>1, <3>3 DEF CertificateWinner, TellCertificate, At, AwardInv
    <3> QED
      BY <1>15, <3>2, <3>3
  <2>4. told' \in [project : SUBSET Requests, certificate : SUBSET Requests]
    BY <2>3
  <2> QED
    BY <1>15, <2>1, <2>2, <2>4 DEF Claim, Issue, CertificateWinner, workVars, feedVars
<1>16. CASE HandIn
  BY <1>16 DEF HandIn, workVars, feedVars
<1>17. ASSUME NEW r \in Requests, Fail(r) PROVE TypeOK'
  <2>1. feed' \in [Requests -> Feed]
    <3>1. feed[r] \in Feed
      OBVIOUS
    <3>2. [feed[r] EXCEPT !.of = {}, !.base = {}] \in Feed
      BY <3>1, FeedFields DEF Feed
    <3> QED
      BY <1>17, <3>2 DEF Fail
  <2> QED
    BY <1>17, <2>1, GotoType DEF Fail, workVars, awardVars, Pcs
<1>18. CASE UNCHANGED vars
  BY <1>18 DEF vars
<1> QED
  BY <1>1, <1>2, <1>3, <1>4, <1>5, <1>6, <1>7, <1>8, <1>9, <1>10, <1>11, <1>12,
     <1>13, <1>15, <1>16, <1>17, <1>18 DEF Next

LEMMA GotoMoves ==
    ASSUME TypeOK, NEW r \in Requests, NEW p, Goto(r, p)
    PROVE  pc'[r] = p /\ \A q \in Requests : q # r => pc'[q] = pc[q]
BY DEF TypeOK, Goto

LEMMA OrderStep ==
    ASSUME TypeOK, OrderInv, [Next]_vars PROVE OrderInv'
<1>1. CASE HandIn \/ (\E s \in Subtopics : MarkComplete(s)) \/ UNCHANGED vars
  BY <1>1 DEF HandIn, MarkComplete, vars, OrderInv
<1>2. ASSUME NEW r \in Requests, NEW p, Goto(r, p), p # "new", Comes(r) \/ pc[r] # "new"
      PROVE  OrderInv'
  <2>1. pc'[r] # "new" /\ \A q \in Requests : q # r => pc'[q] = pc[q]
    BY <1>2, GotoMoves
  <2>2. \A q \in Requests : q < r => pc[q] # "new"
    BY <1>2, AssessmentAssumption DEF OrderInv, Comes, At, Requests
  <2> QED
    BY <2>1, <2>2 DEF OrderInv
<1>3. ASSUME NEW r \in Requests,
             \/ GetQuiz(r) \/ StoreQuiz(r) \/ Submit(r) \/ Grade(r) \/ Lock(r)
             \/ ReadScore(r) \/ WriteScore(r) \/ Fail(r)
      PROVE  OrderInv'
  BY <1>2, <1>3 DEF GetQuiz, StoreQuiz, Submit, Grade, Lock, ReadScore, WriteScore,
     Updated, Fail, At
<1>4. ASSUME NEW r \in Requests,
             \/ GetProblems(r) \/ Recheck(r) \/ InsertProblems(r) \/ Practise(r)
      PROVE  OrderInv'
  BY <1>2, <1>4 DEF GetProblems, Recheck, InsertProblems, Practise, At
<1>5. ASSUME NEW r \in Requests,
             \/ GetProject(r) \/ CreateProject(r) \/ ProjectWinner(r)
             \/ Claim(r) \/ Issue(r) \/ CertificateWinner(r)
      PROVE  OrderInv'
  BY <1>2, <1>5 DEF GetProject, CreateProject, ProjectWinner, Claim, Issue,
     CertificateWinner, TellProject, TellCertificate, At
<1> QED
  BY <1>1, <1>3, <1>4, <1>5 DEF Next

LEMMA IInvInit == Init => IInv
<1> SUFFICES ASSUME Init PROVE IInv
  OBVIOUS
<1> USE AssessmentAssumption DEF Init
<1>1. TypeOK
  <2>1. feed \in [Requests -> Feed]
    BY AnswersType
  <2>2. /\ told \in [project : SUBSET Requests, certificate : SUBSET Requests]
        /\ quiz \in [gen : 0..MaxRequests, submitted : BOOLEAN]
    OBVIOUS
  <2>3. /\ pc \in [Requests -> Pcs] /\ saw \in [Requests -> 0..MaxRequests]
        /\ score \in [Concepts -> SUBSET Requests]
    BY DEF Pcs
  <2> QED
    BY <2>1, <2>2, <2>3 DEF TypeOK
<1>2. QuizInv
  BY DEF QuizInv, Submitting
<1>3. ProblemInv
  BY DEF ProblemInv, Inserting
<1>4. ScoreInv
  <2>1. \A r \in Requests : /\ feed[r].about = {} /\ feed[r].of = {} /\ feed[r].base = {}
    BY AnswersType
  <2> QED
    BY <2>1 DEF ScoreInv, Updating
<1>5. AwardInv
  BY DEF AwardInv
<1>6. OrderInv
  BY DEF OrderInv
<1> QED
  BY <1>1, <1>2, <1>3, <1>4, <1>5, <1>6 DEF IInv

-----------------------------------------------------------------------------
(* The gates.                                                              *)

\* A step that none of the awards is about.
Elsewhere ==
    /\ UNCHANGED <<done, project, handedIn, certificate>>
    /\ \A q \in Requests :
          pc'[q] = pc[q] \/ pc'[q] \notin {"prompt", "prompted", "issue", "issued"}

LEMMA AwardElsewhere ==
    ASSUME AwardInv, Elsewhere PROVE AwardInv'
BY DEF AwardInv, Elsewhere, Complete

LEMMA AwardStep ==
    ASSUME TypeOK, AwardInv, [Next]_vars PROVE AwardInv'
<1>1. ASSUME NEW s \in Subtopics, MarkComplete(s) PROVE AwardInv'
  BY <1>1 DEF MarkComplete, awardVars, AwardInv, Complete, TypeOK
<1>2. ASSUME NEW r \in Requests,
             \/ GetQuiz(r) \/ StoreQuiz(r) \/ Submit(r) \/ Grade(r) \/ Lock(r)
             \/ GetProblems(r) \/ Recheck(r) \/ InsertProblems(r) \/ Fail(r)
      PROVE  AwardInv'
  <2>1. UNCHANGED <<done, project, handedIn, certificate>>
    BY <1>2 DEF GetQuiz, StoreQuiz, Submit, Grade, Lock, GetProblems, Recheck,
       InsertProblems, Fail, workVars, awardVars
  <2>2. \E p \in {"generate", "done", "grade", "lock", "score", "make", "insert", "cut"} :
           Goto(r, p)
    BY <1>2 DEF GetQuiz, StoreQuiz, Submit, Grade, Lock, GetProblems, Recheck,
       InsertProblems, Fail
  <2> QED
    BY <2>1, <2>2, GotoMoves, AwardElsewhere DEF Elsewhere
<1>3. ASSUME NEW r \in Requests, ReadScore(r) \/ WriteScore(r) \/ Practise(r)
      PROVE  AwardInv'
  <2>1. UNCHANGED <<done, project, handedIn, certificate>>
    BY <1>3 DEF ReadScore, WriteScore, Practise, workVars, awardVars
  <2>2. \E p \in {"update", "done", "score"} : Goto(r, p)
    BY <1>3 DEF ReadScore, WriteScore, Practise, Updated
  <2> QED
    BY <2>1, <2>2, GotoMoves, AwardElsewhere DEF Elsewhere
<1>4. ASSUME NEW r \in Requests, GetProject(r) \/ CreateProject(r) \/ ProjectWinner(r)
      PROVE  AwardInv'
  <2>1. UNCHANGED <<done, handedIn, certificate>>
    BY <1>4 DEF GetProject, CreateProject, ProjectWinner, workVars
  <2>2. \/ project' = project /\ Complete /\ Goto(r, "prompt")
        \/ project' = project /\ project # 0 /\ Complete /\ Goto(r, "prompted")
        \/ project' = project /\ Goto(r, "done")
        \/ project' = r /\ Complete /\ Goto(r, "done")
    BY <1>4 DEF GetProject, CreateProject, ProjectWinner, TellProject, At, AwardInv
  <2> QED
    BY <2>1, <2>2, GotoMoves, RequestNumbers DEF AwardInv, Complete
<1>5. ASSUME NEW r \in Requests, Claim(r) \/ Issue(r) \/ CertificateWinner(r)
      PROVE  AwardInv'
  <2>1. UNCHANGED <<done, project, handedIn>>
    BY <1>5 DEF Claim, Issue, CertificateWinner, workVars
  <2>2. \/ certificate' = certificate /\ handedIn /\ Goto(r, "issue")
        \/ certificate' = certificate /\ certificate # 0 /\ handedIn /\ Goto(r, "issued")
        \/ certificate' = certificate /\ Goto(r, "done")
        \/ certificate' = r /\ handedIn /\ Goto(r, "done")
    BY <1>5 DEF Claim, Issue, CertificateWinner, TellCertificate, At, AwardInv
  <2> QED
    BY <2>1, <2>2, GotoMoves, RequestNumbers DEF AwardInv, Complete
<1>6. CASE HandIn
  BY <1>6 DEF HandIn, AwardInv, workVars, Complete
<1>7. CASE UNCHANGED vars
  BY <1>7, AwardElsewhere DEF vars, Elsewhere
<1> QED
  BY <1>1, <1>2, <1>3, <1>4, <1>5, <1>6, <1>7 DEF Next

-----------------------------------------------------------------------------
(* The problems.                                                           *)

\* Nothing but Recheck and InsertProblems makes a request insert.
LEMMA ProblemElsewhere ==
    ASSUME ProblemInv, problems' = problems, met \subseteq met',
           \A q \in Requests : pc'[q] = pc[q] \/ pc'[q] # "insert"
    PROVE  ProblemInv'
BY DEF ProblemInv, Inserting, Met

LEMMA ProblemStep ==
    ASSUME TypeOK, ProblemInv, [Next]_vars PROVE ProblemInv'
<1>1. CASE HandIn \/ (\E s \in Subtopics : MarkComplete(s)) \/ UNCHANGED vars
  BY <1>1, ProblemElsewhere DEF HandIn, MarkComplete, workVars, vars
<1>2. ASSUME NEW r \in Requests,
             \/ GetQuiz(r) \/ StoreQuiz(r) \/ Submit(r) \/ Grade(r) \/ Lock(r)
             \/ GetProblems(r) \/ Fail(r)
      PROVE  ProblemInv'
  <2>1. problems' = problems /\ met \subseteq met'
    BY <1>2, MeetAdds DEF GetQuiz, StoreQuiz, Submit, Grade, Lock, GetProblems, Fail,
       workVars
  <2>2. \E p \in {"generate", "done", "grade", "lock", "score", "make", "cut"} : Goto(r, p)
    BY <1>2 DEF GetQuiz, StoreQuiz, Submit, Grade, Lock, GetProblems, Fail
  <2> QED
    BY <2>1, <2>2, GotoMoves, ProblemElsewhere
<1>3. ASSUME NEW r \in Requests, ReadScore(r) \/ WriteScore(r) \/ Practise(r)
      PROVE  ProblemInv'
  <2>1. problems' = problems /\ met \subseteq met'
    BY <1>3, MeetAdds DEF ReadScore, WriteScore, Practise, workVars
  <2>2. \E p \in {"update", "done", "score"} : Goto(r, p)
    BY <1>3 DEF ReadScore, WriteScore, Practise, Updated
  <2> QED
    BY <2>1, <2>2, GotoMoves, ProblemElsewhere
<1>4. ASSUME NEW r \in Requests,
             \/ GetProject(r) \/ CreateProject(r) \/ ProjectWinner(r)
             \/ Claim(r) \/ Issue(r) \/ CertificateWinner(r)
      PROVE  ProblemInv'
  <2>1. problems' = problems /\ met' = met
    BY <1>4 DEF GetProject, CreateProject, ProjectWinner, Claim, Issue,
       CertificateWinner, workVars
  <2>2. \E p \in {"prompt", "prompted", "issue", "issued", "done"} : Goto(r, p)
    BY <1>4 DEF GetProject, CreateProject, ProjectWinner, Claim, Issue,
       CertificateWinner, TellProject, TellCertificate
  <2> QED
    BY <2>1, <2>2, GotoMoves, ProblemElsewhere
<1>5. ASSUME NEW r \in Requests, Recheck(r) PROVE ProblemInv'
  <2>1. problems' = problems
    BY <1>5 DEF Recheck, workVars
  <2>2. CASE problems = {} /\ Goto(r, "insert") /\ Meet("problems", r, Meeting({"insert"}))
    <3>1. \A q \in Requests : q # r /\ Inserting(q)' => q \in Meeting({"insert"})
      BY <2>1, <2>2, GotoMoves DEF Inserting, Meeting
    <3>2. \A q \in Requests : q # r /\ Inserting(q)' =>
            Met("problems", r, q)' /\ Met("problems", q, r)'
      BY <2>2, <3>1, MeetAdds
    <3>3. \A q \in Requests : q # r /\ Inserting(q)' => Inserting(q)
      BY <2>1, <2>2, GotoMoves DEF Inserting
    <3>4. met \subseteq met'
      BY <2>2, MeetAdds
    <3> QED
      BY <3>2, <3>3, <3>4 DEF ProblemInv, Met
  <2>3. CASE Goto(r, "done") /\ UNCHANGED met
    BY <2>1, <2>3, GotoMoves, ProblemElsewhere
  <2> QED
    BY <1>5, <2>2, <2>3 DEF Recheck
<1>6. ASSUME NEW r \in Requests, InsertProblems(r) PROVE ProblemInv'
  <2>1. \A q \in Requests : Inserting(q)' => Inserting(q)
    BY <1>6, GotoMoves DEF InsertProblems, Inserting, At
  <2> QED
    BY <1>6, <2>1 DEF InsertProblems, ProblemInv, Met
<1> QED
  BY <1>1, <1>2, <1>3, <1>4, <1>5, <1>6 DEF Next

-----------------------------------------------------------------------------
(* The quiz.                                                               *)

\* A step that no submission or generation is about; a request that has been
\* graded and is past its lock may go on.
LEMMA QuizElsewhere ==
    ASSUME QuizInv, graded \subseteq Requests, UNCHANGED <<quiz, graded, saw>>,
           met \subseteq met',
           \A q \in Requests :
              \/ pc'[q] = pc[q]
              \/ /\ pc'[q] \notin {"generate", "grade", "lock"} /\ pc[q] # "cut"
                 /\ q \in graded => /\ pc[q] # "lock"
                                    /\ pc'[q] \in {"score", "update", "done"}
    PROVE  QuizInv'
<1>1. \A w, p, q : Met(w, p, q) => Met(w, p, q)'
  BY DEF Met
<1>2. \A q \in Requests : /\ Submitting(q)' => Submitting(q)
                          /\ Generating(q)' => Generating(q)
                          /\ pc'[q] = "lock" => pc[q] = "lock"
                          /\ pc[q] = "cut" => pc'[q] = "cut"
  BY DEF Submitting, Generating
<1>3. \A q : Served(q) => Served(q)'
  BY <1>1 DEF Served
<1>4. \A r \in graded : /\ pc'[r] \in {"lock", "score", "update", "done", "cut"}
                        /\ pc'[r] \in {"lock", "cut"} \/ quiz'.submitted
  BY DEF QuizInv
<1>5. quiz'.submitted => \E g \in graded' :
          /\ Served(g)'
          /\ \A q \in Requests : Generating(q)' => Met("quiz", q, g)'
  BY <1>1, <1>2, <1>3 DEF QuizInv
<1>6. \A p, q \in Requests :
          p < q /\ (p \in graded' \/ Submitting(p)') /\ (q \in graded' \/ Submitting(q)')
              => pc'[p] = "cut" \/ Met("quiz", p, q)'
  BY <1>1, <1>2 DEF QuizInv
<1> QED
  BY <1>1, <1>2, <1>3, <1>4, <1>5, <1>6 DEF QuizInv

LEMMA GetQuizStep ==
    ASSUME TypeOK, QuizInv, NEW r \in Requests, GetQuiz(r) PROVE QuizInv'
<1>1. UNCHANGED <<quiz, graded, saw>> /\ ~quiz.submitted
  BY DEF GetQuiz, workVars, feedVars
<1>2. /\ met \subseteq met'
      /\ \A q \in Requests : Submitting(q) /\ q # r => Met("quiz", q, r)'
  BY MeetAdds DEF GetQuiz, Meeting, Submitting
<1>3. /\ pc[r] = "new" /\ pc'[r] = "generate"
      /\ \A q \in Requests : q # r => pc'[q] = pc[q]
  BY GotoMoves DEF GetQuiz, Comes, At
<1>4. r \notin graded
  BY <1>3 DEF QuizInv
<1>5. \A w, p, q : Met(w, p, q) => Met(w, p, q)'
  BY <1>2 DEF Met
<1>6. \A q \in Requests : /\ Submitting(q)' => Submitting(q) /\ q # r
                          /\ Generating(q)' => Generating(q) \/ q = r
                          /\ pc'[q] = "lock" => pc[q] = "lock"
                          /\ pc[q] = "cut" => pc'[q] = "cut"
  BY <1>3 DEF Submitting, Generating
<1>7. \A q : Served(q) => Served(q)'
  BY <1>1, <1>5 DEF Served
<1>8. \A q \in graded : /\ pc'[q] \in {"lock", "score", "update", "done", "cut"}
                        /\ pc'[q] \in {"lock", "cut"} \/ quiz'.submitted
  BY <1>1, <1>3, <1>4 DEF QuizInv, TypeOK
<1>9. \A p, q \in Requests :
          p < q /\ (p \in graded' \/ Submitting(p)') /\ (q \in graded' \/ Submitting(q)')
              => pc'[p] = "cut" \/ Met("quiz", p, q)'
  BY <1>1, <1>5, <1>6 DEF QuizInv
<1>10. \A p, q \in Requests : Submitting(p)' /\ Generating(q)' => Met("quiz", p, q)'
  BY <1>2, <1>5, <1>6 DEF QuizInv
<1> QED
  BY <1>1, <1>6, <1>7, <1>8, <1>9, <1>10 DEF QuizInv

LEMMA StoreQuizStep ==
    ASSUME TypeOK, QuizInv, NEW r \in Requests, StoreQuiz(r) PROVE QuizInv'
<1>1. UNCHANGED <<graded, saw, met>> /\ quiz'.gen = r /\ quiz'.submitted = quiz.submitted
  BY DEF StoreQuiz, feedVars, TypeOK
<1>2. /\ pc[r] = "generate" /\ pc'[r] = "done"
      /\ \A q \in Requests : q # r => pc'[q] = pc[q]
  BY GotoMoves DEF StoreQuiz, At
<1>3. r \notin graded /\ Generating(r)
  BY <1>2 DEF QuizInv, Generating
<1>4. \A w, p, q : /\ Met(w, p, q)' <=> Met(w, p, q)
                   /\ Met(w, p, q) <=> Met(w, q, p)
  BY <1>1 DEF Met
<1>5. \A q \in Requests : /\ Submitting(q)' => Submitting(q)
                          /\ Generating(q)' => Generating(q)
                          /\ pc'[q] = "lock" => pc[q] = "lock"
                          /\ pc[q] = "cut" => pc'[q] = "cut"
  BY <1>2 DEF Submitting, Generating
<1>6. \A q : Met("quiz", r, q) => Served(q)'
  BY <1>1, <1>4 DEF Served
<1>7. \A q \in graded : /\ pc'[q] \in {"lock", "score", "update", "done", "cut"}
                        /\ pc'[q] \in {"lock", "cut"} \/ quiz'.submitted
  BY <1>1, <1>2, <1>3 DEF QuizInv, TypeOK
<1>8. quiz'.submitted => \E g \in graded' :
          /\ Served(g)'
          /\ \A q \in Requests : Generating(q)' => Met("quiz", q, g)'
  BY <1>1, <1>3, <1>4, <1>5, <1>6 DEF QuizInv
<1>9. \A q \in Requests : Submitting(q)' => saw'[q] # 0 /\ Served(q)'
  BY <1>1, <1>3, <1>4, <1>5, <1>6 DEF QuizInv
<1>10. \A p, q \in Requests :
          p < q /\ (p \in graded' \/ Submitting(p)') /\ (q \in graded' \/ Submitting(q)')
              => pc'[p] = "cut" \/ Met("quiz", p, q)'
  BY <1>1, <1>4, <1>5 DEF QuizInv
<1> QED
  BY <1>1, <1>4, <1>5, <1>7, <1>8, <1>9, <1>10 DEF QuizInv

LEMMA SubmitStep ==
    ASSUME TypeOK, OrderInv, QuizInv, NEW r \in Requests, Submit(r) PROVE QuizInv'
<1>1. UNCHANGED <<quiz, graded>> /\ ~quiz.submitted /\ quiz.gen # 0
  BY DEF Submit, workVars
<1>2. /\ met \subseteq met'
      /\ \A q \in Requests : (Submitting(q) \/ Generating(q)) /\ q # r =>
            Met("quiz", q, r)' /\ Met("quiz", r, q)'
  <2>1. Meet("quiz", r, Meeting({"grade", "lock", "generate"}))
    BY DEF Submit
  <2>2. \A q \in Requests :
          Submitting(q) \/ Generating(q) => q \in Meeting({"grade", "lock", "generate"})
    BY DEF Meeting, Submitting, Generating
  <2> QED
    BY <2>1, <2>2, MeetAdds
<1>3. /\ pc[r] = "new" /\ pc'[r] = "grade"
      /\ \A q \in Requests : q # r => pc'[q] = pc[q]
  BY GotoMoves DEF Submit, Comes, At
<1>4. r \notin graded /\ \A q \in graded : Submitting(q) \/ pc[q] = "cut"
  BY <1>1, <1>3 DEF QuizInv, Submitting
<1>5. \A w, p, q : Met(w, p, q) => Met(w, p, q)'
  BY <1>2 DEF Met
<1>6. \A q \in Requests : /\ Submitting(q)' => Submitting(q) \/ q = r
                          /\ Generating(q)' => Generating(q) /\ q # r
                          /\ pc'[q] = "lock" => pc[q] = "lock" /\ q # r
                          /\ pc[q] = "cut" => pc'[q] = "cut"
  BY <1>3 DEF Submitting, Generating
<1>7. /\ saw'[r] = quiz.gen
      /\ \A q \in Requests : q # r => saw'[q] = saw[q]
  BY DEF Submit, TypeOK
<1>8. \A q \in Requests : Submitting(q)' => saw'[q] # 0 /\ Served(q)'
  <2>1. Served(r)' /\ saw'[r] # 0
    BY <1>1, <1>7 DEF Served
  <2>2. \A q \in Requests : q # r /\ Served(q) => Served(q)'
    BY <1>1, <1>5, <1>7 DEF Served
  <2> QED
    BY <1>6, <1>7, <2>1, <2>2 DEF QuizInv
<1>9. \A q \in graded : pc'[q] \in {"lock", "cut"}
  BY <1>1, <1>3 DEF QuizInv, TypeOK
<1>10. \A p, q \in Requests :
          p < q /\ (p \in graded' \/ Submitting(p)') /\ (q \in graded' \/ Submitting(q)')
              => pc'[p] = "cut" \/ Met("quiz", p, q)'
  <2>1. SUFFICES ASSUME NEW p \in Requests, NEW q \in Requests, p < q,
                        p \in graded \/ Submitting(p)', q \in graded \/ Submitting(q)'
                 PROVE  pc'[p] = "cut" \/ Met("quiz", p, q)'
    BY <1>1
  <2>2. CASE q = r
    BY <1>2, <1>4, <1>6, <2>1, <2>2 DEF Requests
  <2>3. CASE p = r
    <3>1. q # r /\ pc[q] # "new"
      BY <1>6, <2>1, <2>3 DEF QuizInv, Submitting, Requests
    <3> QED
      BY <1>3, <2>1, <2>3, <3>1 DEF OrderInv
  <2>4. CASE p # r /\ q # r
    BY <1>5, <1>6, <2>1, <2>4 DEF QuizInv
  <2> QED
    BY <2>2, <2>3, <2>4
<1>11. \A p, q \in Requests : Submitting(p)' /\ Generating(q)' => Met("quiz", p, q)'
  BY <1>2, <1>5, <1>6 DEF QuizInv
<1> QED
  BY <1>1, <1>6, <1>8, <1>9, <1>10, <1>11 DEF QuizInv

LEMMA GradeStep ==
    ASSUME TypeOK, QuizInv, NEW r \in Requests, Grade(r) PROVE QuizInv'
<1>1. UNCHANGED <<quiz, saw, met>> /\ graded' = graded \cup {r}
  BY DEF Grade, feedVars
<1>2. /\ pc[r] = "grade" /\ pc'[r] = "lock"
      /\ \A q \in Requests : q # r => pc'[q] = pc[q]
  BY GotoMoves DEF Grade, At
<1>3. \A w, p, q : Met(w, p, q)' <=> Met(w, p, q)
  BY <1>1 DEF Met
<1>4. \A q \in Requests : /\ Submitting(q)' <=> Submitting(q)
                          /\ Generating(q)' <=> Generating(q)
                          /\ pc'[q] = "lock" => pc[q] = "lock" \/ q = r
                          /\ pc[q] = "cut" => pc'[q] = "cut"
  BY <1>2 DEF Submitting, Generating
<1>5. Submitting(r) /\ \A q : Served(q)' <=> Served(q)
  BY <1>1, <1>2, <1>3 DEF Served, Submitting
<1>6. \A q \in graded' : /\ pc'[q] \in {"lock", "score", "update", "done", "cut"}
                         /\ pc'[q] \in {"lock", "cut"} \/ quiz'.submitted
  BY <1>1, <1>2 DEF QuizInv, TypeOK
<1>7. \A p, q \in Requests :
          p < q /\ (p \in graded' \/ Submitting(p)') /\ (q \in graded' \/ Submitting(q)')
              => pc'[p] = "cut" \/ Met("quiz", p, q)'
  BY <1>1, <1>3, <1>4, <1>5 DEF QuizInv
<1>8. quiz'.submitted => \E g \in graded' :
          /\ Served(g)'
          /\ \A q \in Requests : Generating(q)' => Met("quiz", q, g)'
  BY <1>1, <1>3, <1>4, <1>5 DEF QuizInv
<1> QED
  BY <1>1, <1>3, <1>4, <1>5, <1>6, <1>7, <1>8 DEF QuizInv

LEMMA LockStep ==
    ASSUME TypeOK, QuizInv, NEW r \in Requests, Lock(r) PROVE QuizInv'
<1>1. /\ UNCHANGED <<graded, saw, met>>
      /\ quiz'.gen = quiz.gen /\ quiz'.submitted
  BY DEF Lock, feedVars, TypeOK
<1>2. /\ pc[r] = "lock" /\ pc'[r] = "score"
      /\ \A q \in Requests : q # r => pc'[q] = pc[q]
  BY GotoMoves DEF Lock, At
<1>3. \A w, p, q : /\ Met(w, p, q)' <=> Met(w, p, q)
                   /\ Met(w, p, q) <=> Met(w, q, p)
  BY <1>1 DEF Met
<1>4. \A q \in Requests : /\ Submitting(q)' => Submitting(q)
                          /\ Generating(q)' <=> Generating(q)
                          /\ pc'[q] = "lock" => pc[q] = "lock"
                          /\ pc[q] = "cut" => pc'[q] = "cut"
  BY <1>2 DEF Submitting, Generating
<1>5. r \in graded /\ Submitting(r) /\ \A q : Served(q)' <=> Served(q)
  BY <1>1, <1>2, <1>3 DEF Served, Submitting, QuizInv
<1>6. \A q \in graded' : pc'[q] \in {"lock", "score", "update", "done", "cut"}
  BY <1>1, <1>2 DEF QuizInv, TypeOK
<1>7. \A p, q \in Requests :
          p < q /\ (p \in graded' \/ Submitting(p)') /\ (q \in graded' \/ Submitting(q)')
              => pc'[p] = "cut" \/ Met("quiz", p, q)'
  BY <1>1, <1>3, <1>4 DEF QuizInv
<1>8. /\ Served(r)'
      /\ \A q \in Requests : Generating(q)' => Met("quiz", q, r)'
  BY <1>3, <1>4, <1>5 DEF QuizInv
<1> QED
  BY <1>1, <1>3, <1>4, <1>5, <1>6, <1>7, <1>8 DEF QuizInv

\* A submission that is cut short counts no longer as one that others meet.
LEMMA FailStep ==
    ASSUME TypeOK, QuizInv, NEW r \in Requests, Fail(r) PROVE QuizInv'
<1>1. UNCHANGED <<quiz, graded, saw, met>>
  BY DEF Fail, workVars
<1>2. CASE pc[r] # "lock"
  <2>1. pc'[r] = "done" /\ \A q \in Requests : q # r => pc'[q] = pc[q]
    BY <1>2, GotoMoves DEF Fail, At
  <2>2. pc[r] # "cut" /\ graded \subseteq Requests
    BY DEF Fail, TypeOK
  <2> QED
    BY <1>1, <1>2, <2>1, <2>2, QuizElsewhere
<1>3. CASE pc[r] = "lock"
  <2>1. pc'[r] = "cut" /\ \A q \in Requests : q # r => pc'[q] = pc[q]
    BY <1>3, GotoMoves DEF Fail, At
  <2>2. \A w, p, q : Met(w, p, q)' <=> Met(w, p, q)
    BY <1>1 DEF Met
  <2>3. \A q \in Requests : /\ Submitting(q)' => Submitting(q)
                            /\ Generating(q)' => Generating(q)
                            /\ pc'[q] = "lock" => pc[q] = "lock"
                            /\ pc[q] = "cut" => pc'[q] = "cut"
    BY <2>1 DEF Submitting, Generating
  <2>4. \A q : Served(q)' <=> Served(q)
    BY <1>1, <2>2 DEF Served
  <2>5. \A q \in graded' : /\ pc'[q] \in {"lock", "score", "update", "done", "cut"}
                           /\ pc'[q] \in {"lock", "cut"} \/ quiz'.submitted
    BY <1>1, <2>1 DEF QuizInv, TypeOK
  <2>6. \A p, q \in Requests :
          p < q /\ (p \in graded' \/ Submitting(p)') /\ (q \in graded' \/ Submitting(q)')
              => pc'[p] = "cut" \/ Met("quiz", p, q)'
    BY <1>1, <2>2, <2>3 DEF QuizInv
  <2>7. quiz'.submitted => \E g \in graded' :
          /\ Served(g)'
          /\ \A q \in Requests : Generating(q)' => Met("quiz", q, g)'
    BY <1>1, <2>2, <2>3, <2>4 DEF QuizInv
  <2> QED
    BY <1>1, <2>2, <2>3, <2>4, <2>5, <2>6, <2>7 DEF QuizInv
<1> QED
  BY <1>2, <1>3

LEMMA QuizStep ==
    ASSUME TypeOK, OrderInv, QuizInv, [Next]_vars PROVE QuizInv'
<1>0. graded \subseteq Requests
  BY DEF TypeOK
<1>1. CASE HandIn \/ (\E s \in Subtopics : MarkComplete(s)) \/ UNCHANGED vars
  BY <1>0, <1>1, QuizElsewhere DEF HandIn, MarkComplete, workVars, feedVars, vars
<1>2. ASSUME NEW r \in Requests,
             \/ GetQuiz(r) \/ StoreQuiz(r) \/ Submit(r) \/ Grade(r) \/ Lock(r)
             \/ Fail(r)
      PROVE  QuizInv'
  BY <1>2, GetQuizStep, StoreQuizStep, SubmitStep, GradeStep, LockStep, FailStep
<1>3. ASSUME NEW r \in Requests, ReadScore(r) \/ WriteScore(r) PROVE QuizInv'
  <2>1. UNCHANGED <<quiz, graded, saw>> /\ met \subseteq met'
    BY <1>3, MeetAdds DEF ReadScore, WriteScore, workVars
  <2>2. pc[r] \in {"score", "update"} /\ \E p \in {"update", "done", "score"} : Goto(r, p)
    BY <1>3 DEF ReadScore, WriteScore, Updated, At
  <2> QED
    BY <1>0, <2>1, <2>2, GotoMoves, QuizElsewhere
<1>4. ASSUME NEW r \in Requests,
             \/ GetProblems(r) \/ Recheck(r) \/ InsertProblems(r) \/ Practise(r)
      PROVE  QuizInv'
  <2>1. UNCHANGED <<quiz, graded, saw>> /\ met \subseteq met'
    BY <1>4, MeetAdds DEF GetProblems, Recheck, InsertProblems, Practise,
       workVars, feedVars
  <2>2. /\ pc[r] \in {"new", "make", "insert"}
        /\ \E p \in {"make", "insert", "done", "score"} : Goto(r, p)
    BY <1>4 DEF GetProblems, Recheck, InsertProblems, Practise, Comes, At
  <2>3. r \notin graded
    BY <2>2 DEF QuizInv
  <2> QED
    BY <1>0, <2>1, <2>2, <2>3, GotoMoves, QuizElsewhere
<1>5. ASSUME NEW r \in Requests,
             \/ GetProject(r) \/ CreateProject(r) \/ ProjectWinner(r)
             \/ Claim(r) \/ Issue(r) \/ CertificateWinner(r)
      PROVE  QuizInv'
  <2>1. UNCHANGED <<quiz, graded, saw>> /\ met \subseteq met'
    BY <1>5 DEF GetProject, CreateProject, ProjectWinner, Claim, Issue,
       CertificateWinner, workVars, feedVars
  <2>2. /\ pc[r] \in {"new", "prompt", "prompted", "issue", "issued"}
        /\ \E p \in {"prompt", "prompted", "issue", "issued", "done"} : Goto(r, p)
    BY <1>5 DEF GetProject, CreateProject, ProjectWinner, Claim, Issue,
       CertificateWinner, TellProject, TellCertificate, Comes, At
  <2>3. r \notin graded
    BY <2>2 DEF QuizInv
  <2> QED
    BY <1>0, <2>1, <2>2, <2>3, GotoMoves, QuizElsewhere
<1> QED
  BY <1>1, <1>2, <1>3, <1>4, <1>5 DEF Next

-----------------------------------------------------------------------------
(* The scores.                                                             *)

\* A step that leaves the scores alone, and what requests do about them but
\* for one that has new answers and one that gives up.
NoUpdate ==
    /\ score' = score /\ met \subseteq met'
    /\ graded \subseteq graded' /\ practised \subseteq practised'
    /\ \A q \in Requests :
          pc'[q] \in {"score", "update"} => pc[q] \in {"score", "update"} \/ q \in Answered'
    /\ \A q \in Requests : \/ feed'[q] = feed[q]
                           \/ \E ks : feed'[q] = Answers(ks)
                           \/ feed'[q] = [feed[q] EXCEPT !.of = {}, !.base = {}]

LEMMA ScoreElsewhere ==
    ASSUME TypeOK, ScoreInv, NoUpdate PROVE ScoreInv'
<1>1. \A k, p, q : Met(k, p, q) => Met(k, p, q)'
  BY DEF NoUpdate, Met
<1>2. \A k, q : Raced(k, q) => Raced(k, q)'
  BY <1>1 DEF Raced
<1>3. \A x : x \in Answered => x \in Answered'
  BY DEF NoUpdate, Answered
<1>4. \A q \in Requests :
        \/ feed'[q] = feed[q]
        \/ /\ feed'[q].of = {} /\ feed'[q].base = {}
           /\ \/ feed'[q].about = feed'[q].todo
              \/ feed'[q].about = feed[q].about /\ feed'[q].todo = feed[q].todo
  <2>1. SUFFICES ASSUME NEW q \in Requests, feed'[q] # feed[q]
                 PROVE  /\ feed'[q].of = {} /\ feed'[q].base = {}
                        /\ \/ feed'[q].about = feed'[q].todo
                           \/ /\ feed'[q].about = feed[q].about
                              /\ feed'[q].todo = feed[q].todo
    OBVIOUS
  <2>2. feed[q] \in Feed
    BY DEF TypeOK
  <2>3. CASE feed'[q] = [feed[q] EXCEPT !.of = {}, !.base = {}]
    BY <2>2, <2>3 DEF Feed
  <2>4. CASE \E ks : feed'[q] = Answers(ks)
    BY <2>4, AnswersType
  <2> QED
    BY <2>1, <2>3, <2>4 DEF NoUpdate
<1>5. \A q \in Requests : \A k \in feed'[q].of : Updating(q, k)'
  BY <1>4 DEF ScoreInv, Updating
<1>6. \A k \in Concepts, q \in Requests : Updating(q, k)' => feed'[q] = feed[q] /\ Updating(q, k)
  BY <1>4 DEF Updating
<1>7. /\ \A k \in Concepts : score'[k] \subseteq Answered'
      /\ \A r \in Requests : feed'[r].base \subseteq Answered'
      /\ \A r \in Requests : pc'[r] \in {"score", "update"} => r \in Answered'
  BY <1>3, <1>4 DEF ScoreInv, NoUpdate
<1>8. \A r \in Requests : \A k \in feed'[r].about \ feed'[r].todo :
          r \in score'[k] \/ Raced(k, r)'
  BY <1>2, <1>4 DEF ScoreInv, NoUpdate
<1>9. \A k \in Concepts, r, q \in Requests :
          Updating(r, k)' /\ Updating(q, k)' => r = q \/ Met(k, r, q)'
  BY <1>1, <1>6 DEF ScoreInv
<1>10. \A k \in Concepts, r \in Requests : Updating(r, k)' =>
          /\ feed'[r].base = score'[k] \/ Raced(k, r)'
          /\ \A x \in Requests :
                (x \in feed'[r].base) # (x \in score'[k]) => Raced(k, x)'
  <2>1. SUFFICES ASSUME NEW k \in Concepts, NEW r \in Requests, Updating(r, k)'
                 PROVE  /\ feed'[r].base = score'[k] \/ Raced(k, r)'
                        /\ \A x \in Requests :
                              (x \in feed'[r].base) # (x \in score'[k]) => Raced(k, x)'
    OBVIOUS
  <2>2. Updating(r, k) /\ feed'[r] = feed[r] /\ score' = score
    BY <1>6, <2>1 DEF NoUpdate
  <2> QED
    BY <1>2, <2>2 DEF ScoreInv
<1> QED
  BY <1>5, <1>7, <1>8, <1>9, <1>10 DEF ScoreInv

LEMMA ReadScoreStep ==
    ASSUME TypeOK, ScoreInv, NEW r \in Requests, ReadScore(r) PROVE ScoreInv'
<1>1. PICK k \in feed[r].todo :
        /\ feed' = [feed EXCEPT ![r].of = {k}, ![r].base = score[k]]
        /\ Meet(k, r, {q \in Requests : feed[q].of = {k}})
  BY DEF ReadScore
<1>2. feed[r] \in Feed /\ k \in Concepts
  BY <1>1 DEF TypeOK, Feed
<1>3. UNCHANGED <<score, graded, practised>>
  BY DEF ReadScore, workVars
<1>4. /\ met \subseteq met'
      /\ \A q \in Requests : Updating(q, k) /\ q # r => Met(k, r, q)' /\ Met(k, q, r)'
  BY <1>1, MeetAdds DEF Updating
<1>5. /\ feed'[r].of = {k} /\ feed'[r].base = score[k]
      /\ feed'[r].about = feed[r].about /\ feed'[r].todo = feed[r].todo
      /\ \A q \in Requests : q # r => feed'[q] = feed[q]
  BY <1>1, <1>2 DEF TypeOK, Feed
<1>6. \A x, p, q : Met(x, p, q) => Met(x, p, q)'
  BY <1>4 DEF Met
<1>7. \A x, q : Raced(x, q) => Raced(x, q)'
  BY <1>6 DEF Raced
<1>8. Answered' = Answered
  BY <1>3 DEF Answered
<1>9. r \in Answered /\ \A q \in Requests : pc'[q] \in {"score", "update"} => q \in Answered
  <2>1. pc[r] = "score" /\ \A q \in Requests : q # r => pc'[q] = pc[q]
    BY GotoMoves DEF ReadScore, At
  <2> QED
    BY <2>1 DEF ScoreInv
<1>10. \A q \in Requests : feed'[q].base \subseteq Answered'
  BY <1>2, <1>5, <1>8 DEF ScoreInv
<1>11. \A q \in Requests : \A x \in feed'[q].about \ feed'[q].todo :
          q \in score'[x] \/ Raced(x, q)'
  BY <1>3, <1>5, <1>7 DEF ScoreInv
<1>12. \A x \in Concepts, q \in Requests :
          Updating(q, x)' => (q = r /\ x = k) \/ (q # r /\ Updating(q, x))
  <2>1. \A x : {k} = {x} => x = k
    OBVIOUS
  <2> QED
    BY <1>5, <2>1 DEF Updating
<1>13. \A x \in Concepts, p, q \in Requests :
          Updating(p, x)' /\ Updating(q, x)' => p = q \/ Met(x, p, q)'
  BY <1>4, <1>6, <1>12 DEF ScoreInv
<1>14. \A x \in Concepts, q \in Requests : Updating(q, x)' =>
          /\ feed'[q].base = score'[x] \/ Raced(x, q)'
          /\ \A y \in Requests :
                (y \in feed'[q].base) # (y \in score'[x]) => Raced(x, y)'
  BY <1>3, <1>5, <1>7, <1>12 DEF ScoreInv
<1>15. \A q \in Requests : \A x \in feed'[q].of : Updating(q, x)'
  BY <1>5 DEF ScoreInv, Updating
<1> QED
  BY <1>3, <1>8, <1>9, <1>10, <1>11, <1>13, <1>14, <1>15 DEF ScoreInv

LEMMA WriteScoreStep ==
    ASSUME TypeOK, ScoreInv, NEW r \in Requests, WriteScore(r) PROVE ScoreInv'
<1>1. feed[r] \in Feed /\ score \in [Concepts -> SUBSET Requests]
  BY DEF TypeOK
<1>2. UNCHANGED <<graded, practised, met>>
  BY DEF WriteScore
<1>3. /\ feed'[r].of = {} /\ feed'[r].base = {}
      /\ feed'[r].about = feed[r].about /\ feed'[r].todo = feed[r].todo \ feed[r].of
      /\ \A q \in Requests : q # r => feed'[q] = feed[q]
  BY <1>1 DEF WriteScore, Updated, TypeOK, Feed
<1>4. (\A k, p, q : Met(k, p, q)' <=> Met(k, p, q)) /\ (\A k, q : Raced(k, q)' <=> Raced(k, q))
  BY <1>2 DEF Met, Raced
<1>5. Answered' = Answered
  BY <1>2 DEF Answered
<1>6. /\ r \in Answered
      /\ \A q \in Requests : pc'[q] \in {"score", "update"} => q \in Answered
  <2>1. pc[r] = "update" /\ \A q \in Requests : q # r => pc'[q] = pc[q]
    BY GotoMoves DEF WriteScore, Updated, At
  <2> QED
    BY <2>1 DEF ScoreInv
<1>7. ASSUME NEW k \in Concepts PROVE
        \/ score'[k] = score[k] /\ (k \in feed[r].of => feed[r].base = {} /\ score[k] # {})
        \/ score'[k] = feed[r].base \cup {r} /\ k \in feed[r].of
  <2>1. score'[k] = IF k \in feed[r].of /\ (feed[r].base # {} \/ score[k] = {})
                    THEN feed[r].base \cup {r} ELSE score[k]
    BY DEF WriteScore
  <2> QED
    BY <2>1
<1>8. \A k \in feed[r].of : Updating(r, k)
  BY DEF ScoreInv
<1>9. \A k \in Concepts : score'[k] \subseteq Answered'
  BY <1>5, <1>6, <1>7 DEF ScoreInv
\* The answer is counted; who is lost was written after the read.
<1>10. ASSUME NEW k \in Concepts, k \in feed[r].of
       PROVE  r \in score'[k] \/ Raced(k, r)
  BY <1>7, <1>8, <1>10 DEF ScoreInv
<1>11. ASSUME NEW k \in Concepts, NEW x \in Requests, x \in score[k]
       PROVE  x \in score'[k] \/ Raced(k, x)
  BY <1>7, <1>8, <1>11 DEF ScoreInv
<1>12. \A q \in Requests : \A k \in feed'[q].about \ feed'[q].todo :
          q \in score'[k] \/ Raced(k, q)
  <2>1. SUFFICES ASSUME NEW q \in Requests, NEW k \in feed'[q].about \ feed'[q].todo
                 PROVE  q \in score'[k] \/ Raced(k, q)
    OBVIOUS
  <2>2. feed[q] \in Feed /\ feed'[q].about = feed[q].about
    BY <1>3 DEF TypeOK
  <2>3. k \in Concepts
    BY <2>2 DEF Feed
  <2>4. CASE k \in feed[q].about \ feed[q].todo
    BY <1>11, <2>3, <2>4 DEF ScoreInv
  <2>5. CASE q = r /\ k \in feed[r].of
    BY <1>10, <2>3, <2>5
  <2> QED
    BY <1>3, <2>1, <2>4, <2>5
<1>13. \A k \in Concepts, q \in Requests : Updating(q, k)' => q # r /\ Updating(q, k)
  BY <1>3 DEF Updating
<1>14. \A k \in Concepts, p, q \in Requests :
          Updating(p, k)' /\ Updating(q, k)' => p = q \/ Met(k, p, q)
  BY <1>13 DEF ScoreInv
<1>15. ASSUME NEW k \in Concepts, NEW q \in Requests, Updating(q, k)'
       PROVE  /\ feed'[q].base = score'[k] \/ Raced(k, q)
              /\ \A x \in Requests :
                    (x \in feed'[q].base) # (x \in score'[k]) => Raced(k, x)
  <2>1. q # r /\ Updating(q, k) /\ feed'[q] = feed[q]
    BY <1>3, <1>13, <1>15
  <2>2. CASE score'[k] = score[k]
    BY <2>1, <2>2 DEF ScoreInv
  <2>3. CASE score'[k] = feed[r].base \cup {r} /\ k \in feed[r].of
    <3>1. Updating(r, k)
      BY <1>8, <2>3
    <3>2. Met(k, q, r) /\ Met(k, r, q)
      BY <2>1, <3>1 DEF ScoreInv, Met
    <3>3. Raced(k, q) /\ Raced(k, r)
      BY <3>2 DEF Raced
    <3>4. ASSUME NEW x \in Requests, x # r, (x \in feed[q].base) # (x \in feed[r].base)
          PROVE  Raced(k, x)
      <4>1. \/ (x \in feed[q].base) # (x \in score[k])
            \/ (x \in feed[r].base) # (x \in score[k])
        BY <3>4
      <4> QED
        BY <2>1, <3>1, <4>1 DEF ScoreInv
    <3> QED
      BY <2>1, <2>3, <3>3, <3>4
  <2> QED
    BY <1>7, <2>2, <2>3
<1>16. \A q \in Requests : \A k \in feed'[q].of : Updating(q, k)'
  BY <1>3 DEF ScoreInv, Updating
<1>17. \A q \in Requests : feed'[q].base \subseteq Answered'
  BY <1>3, <1>5 DEF ScoreInv
<1> QED
  BY <1>4, <1>5, <1>6, <1>9, <1>12, <1>14, <1>15, <1>16, <1>17 DEF ScoreInv

LEMMA ScoreStep ==
    ASSUME TypeOK, QuizInv, ScoreInv, [Next]_vars PROVE ScoreInv'
<1>1. CASE HandIn \/ (\E s \in Subtopics : MarkComplete(s)) \/ UNCHANGED vars
  BY <1>1, ScoreElsewhere DEF NoUpdate, HandIn, MarkComplete, workVars, feedVars, vars
<1>2. ASSUME NEW r \in Requests, ReadScore(r) \/ WriteScore(r) PROVE ScoreInv'
  BY <1>2, ReadScoreStep, WriteScoreStep
<1>3. ASSUME NEW r \in Requests,
             \/ GetQuiz(r) \/ StoreQuiz(r) \/ Grade(r) \/ GetProblems(r) \/ Recheck(r)
             \/ InsertProblems(r)
      PROVE  ScoreInv'
  <2>1. /\ UNCHANGED <<score, practised, feed>> /\ met \subseteq met'
        /\ graded \subseteq graded'
    BY <1>3, MeetAdds DEF GetQuiz, StoreQuiz, Grade, GetProblems, Recheck,
       InsertProblems, workVars, feedVars
  <2>2. \E p \in {"generate", "done", "lock", "make", "insert"} : Goto(r, p)
    BY <1>3 DEF GetQuiz, StoreQuiz, Grade, GetProblems, Recheck, InsertProblems
  <2> QED
    BY <2>1, <2>2, GotoMoves, ScoreElsewhere DEF NoUpdate
<1>4. ASSUME NEW r \in Requests, Lock(r) PROVE ScoreInv'
  <2>1. UNCHANGED <<score, practised, graded, feed, met>>
    BY <1>4 DEF Lock, feedVars
  <2>2. Goto(r, "score") /\ r \in graded
    BY <1>4 DEF Lock, At, QuizInv
  <2> QED
    BY <2>1, <2>2, GotoMoves, ScoreElsewhere DEF NoUpdate, Answered
<1>5. ASSUME NEW r \in Requests, Submit(r) PROVE ScoreInv'
  <2>1. UNCHANGED <<score, practised, graded>> /\ met \subseteq met' /\ Goto(r, "grade")
    BY <1>5, MeetAdds DEF Submit, workVars
  <2>2. \A q \in Requests : feed'[q] = feed[q] \/ \E ks : feed'[q] = Answers(ks)
    <3>1. PICK ks \in SUBSET Concepts : feed' = [feed EXCEPT ![r] = Answers(ks)]
      BY <1>5 DEF Submit
    <3> QED
      BY <3>1 DEF TypeOK
  <2> QED
    BY <2>1, <2>2, GotoMoves, ScoreElsewhere DEF NoUpdate
<1>6. ASSUME NEW r \in Requests, Practise(r) PROVE ScoreInv'
  <2>1. UNCHANGED <<score, graded, met>> /\ practised' = practised \cup {r}
    BY <1>6 DEF Practise
  <2>2. Goto(r, "score") \/ Goto(r, "done")
    BY <1>6 DEF Practise
  <2>3. \A q \in Requests : feed'[q] = feed[q] \/ \E ks : feed'[q] = Answers(ks)
    <3>1. feed' = feed \/ \E k \in Concepts : feed' = [feed EXCEPT ![r] = Answers({k})]
      BY <1>6 DEF Practise
    <3> QED
      BY <3>1 DEF TypeOK
  <2> QED
    BY <2>1, <2>2, <2>3, GotoMoves, ScoreElsewhere DEF NoUpdate, Answered
<1>7. ASSUME NEW r \in Requests,
             \/ GetProject(r) \/ CreateProject(r) \/ ProjectWinner(r)
             \/ Claim(r) \/ Issue(r) \/ CertificateWinner(r)
      PROVE  ScoreInv'
  <2>1. UNCHANGED <<score, practised, graded, feed, met>>
    BY <1>7 DEF GetProject, CreateProject, ProjectWinner, Claim, Issue,
       CertificateWinner, workVars, feedVars
  <2>2. \E p \in {"prompt", "prompted", "issue", "issued", "done"} : Goto(r, p)
    BY <1>7 DEF GetProject, CreateProject, ProjectWinner, Claim, Issue,
       CertificateWinner, TellProject, TellCertificate
  <2> QED
    BY <2>1, <2>2, GotoMoves, ScoreElsewhere DEF NoUpdate
<1>8. ASSUME NEW r \in Requests, Fail(r) PROVE ScoreInv'
  <2>1. /\ UNCHANGED <<score, practised, graded, met>>
        /\ \A q \in Requests :
              feed'[q] = feed[q] \/ feed'[q] = [feed[q] EXCEPT !.of = {}, !.base = {}]
    BY <1>8 DEF Fail, workVars, TypeOK
  <2>2. Goto(r, "cut") \/ Goto(r, "done")
    BY <1>8 DEF Fail
  <2> QED
    BY <2>1, <2>2, GotoMoves, ScoreElsewhere DEF NoUpdate
<1> QED
  BY <1>1, <1>2, <1>3, <1>4, <1>5, <1>6, <1>7, <1>8 DEF Next

-----------------------------------------------------------------------------
(* The theorems.                                                           *)

\* The invariant from which the others follow.
THEOREM Invariance == Spec => []IInv
<1>1. IInv /\ [Next]_vars => IInv'
  BY TypeStep, OrderStep, QuizStep, ProblemStep, ScoreStep, AwardStep DEF IInv
<1> QED
  BY IInvInit, <1>1, PTL DEF Spec

\* Every variable has its type, and what is graded was stored.
THEOREM TypeCorrect == Spec => []TypeOK
<1>1. IInv => TypeOK
  BY DEF IInv
<1> QED
  BY Invariance, <1>1, PTL

\* A locked quiz has been graded and holds the questions that were.
THEOREM Locking == Spec => []LockedIsGraded
<1>1. IInv => LockedIsGraded
  BY DEF IInv, QuizInv, LockedIsGraded, Served
<1> QED
  BY Invariance, <1>1, PTL

\* A quiz is graded again only by a submission that overlapped an earlier one,
\* or after an earlier one that wrote its attempts and failed before its lock.
THEOREM GradedOnce == Spec => []GradedOnceUnlessCutOrRaced
<1>1. IInv => GradedOnceUnlessCutOrRaced
  BY DEF IInv, TypeOK, QuizInv, At, GradedOnceUnlessCutOrRaced
<1> QED
  BY Invariance, <1>1, PTL

\* Problems are written twice only by requests that overlapped.
THEOREM ProblemsOnce == Spec => []ProblemsOnceUnlessRaced
<1>1. IInv => ProblemsOnceUnlessRaced
  BY DEF IInv, TypeOK, ProblemInv, Inserting, ProblemsOnceUnlessRaced
<1> QED
  BY Invariance, <1>1, PTL

\* A score counts the answers that updated it, but for overlapping updates.
THEOREM Counting == Spec => []ScoresCountAnswers
<1>1. IInv => ScoresCountAnswers
  BY DEF IInv, ScoreInv, Answered, Raced, ScoresCountAnswers
<1> QED
  BY Invariance, <1>1, PTL

-----------------------------------------------------------------------------
(* The refinements.                                                        *)

\* A request that is answered leaves the one there is, or makes it.
LEMMA ProjectAnswers ==
    ASSUME TypeOK, AwardInv, NEW r \in Requests,
           GetProject(r) \/ CreateProject(r) \/ ProjectWinner(r)
    PROVE  Project!Next \/ UNCHANGED <<Complete, project, told.project>>
<1> USE DEF TypeOK
<1>1. Complete' = Complete
  BY DEF GetProject, CreateProject, ProjectWinner, workVars, Complete
<1>2. \A x : TellProject(r, x) => told'.project = told.project \cup {x}
  BY DEF TellProject
<1>3. CASE project # 0 /\ TellProject(r, project) /\ project' = project
  BY <1>1, <1>2, <1>3 DEF Project!Next, Project!Tell
<1>4. CASE project = 0 /\ Complete /\ TellProject(r, r) /\ project' = r
  BY <1>1, <1>2, <1>4 DEF Project!Next, Project!Make
<1>5. CASE UNCHANGED <<project, told>>
  BY <1>1, <1>5
<1> QED
  BY <1>3, <1>4, <1>5 DEF GetProject, CreateProject, ProjectWinner, At, AwardInv

LEMMA CertificateAnswers ==
    ASSUME TypeOK, AwardInv, NEW r \in Requests,
           Claim(r) \/ Issue(r) \/ CertificateWinner(r)
    PROVE  Certificate!Next \/ UNCHANGED <<handedIn, certificate, told.certificate>>
<1> USE DEF TypeOK
<1>1. handedIn' = handedIn
  BY DEF Claim, Issue, CertificateWinner
<1>2. \A x : TellCertificate(r, x) => told'.certificate = told.certificate \cup {x}
  BY DEF TellCertificate
<1>3. CASE certificate # 0 /\ TellCertificate(r, certificate) /\ certificate' = certificate
  BY <1>1, <1>2, <1>3 DEF Certificate!Next, Certificate!Tell
<1>4. CASE certificate = 0 /\ handedIn /\ TellCertificate(r, r) /\ certificate' = r
  BY <1>1, <1>2, <1>4 DEF Certificate!Next, Certificate!Make
<1>5. CASE UNCHANGED <<certificate, told>>
  BY <1>1, <1>5
<1> QED
  BY <1>3, <1>4, <1>5 DEF Claim, Issue, CertificateWinner, At, AwardInv

LEMMA ProjectStep ==
    ASSUME TypeOK, AwardInv, [Next]_vars
    PROVE  [Project!Next]_<<Complete, project, told.project>>
<1>1. CASE \E s \in Subtopics : MarkComplete(s)
  BY <1>1 DEF MarkComplete, awardVars, Complete, TypeOK, Project!Next, Project!Unlock
<1>2. CASE HandIn \/ UNCHANGED vars
  BY <1>2 DEF HandIn, workVars, vars, Complete
<1>3. ASSUME NEW r \in Requests,
             \/ GetQuiz(r) \/ StoreQuiz(r) \/ Submit(r) \/ Grade(r) \/ Lock(r)
             \/ ReadScore(r) \/ WriteScore(r) \/ GetProblems(r) \/ Recheck(r)
             \/ InsertProblems(r) \/ Practise(r) \/ Fail(r)
      PROVE  UNCHANGED <<Complete, project, told.project>>
  BY <1>3 DEF GetQuiz, StoreQuiz, Submit, Grade, Lock, ReadScore, WriteScore,
     GetProblems, Recheck, InsertProblems, Practise, Fail, workVars, awardVars, Complete
<1>4. ASSUME NEW r \in Requests, GetProject(r) \/ CreateProject(r) \/ ProjectWinner(r)
      PROVE  Project!Next \/ UNCHANGED <<Complete, project, told.project>>
  BY <1>4, ProjectAnswers
<1>5. ASSUME NEW r \in Requests, Claim(r) \/ Issue(r) \/ CertificateWinner(r)
      PROVE  UNCHANGED <<Complete, project, told.project>>
  BY <1>5 DEF Claim, Issue, CertificateWinner, TellCertificate, workVars, Complete, TypeOK
<1> QED
  BY <1>1, <1>2, <1>3, <1>4, <1>5 DEF Next

LEMMA CertificateStep ==
    ASSUME TypeOK, AwardInv, [Next]_vars
    PROVE  [Certificate!Next]_<<handedIn, certificate, told.certificate>>
<1>1. CASE (\E s \in Subtopics : MarkComplete(s)) \/ UNCHANGED vars
  BY <1>1 DEF MarkComplete, awardVars, vars
<1>2. CASE HandIn
  BY <1>2 DEF HandIn, TypeOK, Certificate!Next, Certificate!Unlock
<1>3. ASSUME NEW r \in Requests,
             \/ GetQuiz(r) \/ StoreQuiz(r) \/ Submit(r) \/ Grade(r) \/ Lock(r)
             \/ ReadScore(r) \/ WriteScore(r) \/ GetProblems(r) \/ Recheck(r)
             \/ InsertProblems(r) \/ Practise(r) \/ Fail(r)
      PROVE  UNCHANGED <<handedIn, certificate, told.certificate>>
  BY <1>3 DEF GetQuiz, StoreQuiz, Submit, Grade, Lock, ReadScore, WriteScore,
     GetProblems, Recheck, InsertProblems, Practise, Fail, workVars, awardVars
<1>4. ASSUME NEW r \in Requests, GetProject(r) \/ CreateProject(r) \/ ProjectWinner(r)
      PROVE  UNCHANGED <<handedIn, certificate, told.certificate>>
  BY <1>4 DEF GetProject, CreateProject, ProjectWinner, TellProject, TypeOK
<1>5. ASSUME NEW r \in Requests, Claim(r) \/ Issue(r) \/ CertificateWinner(r)
      PROVE  Certificate!Next \/ UNCHANGED <<handedIn, certificate, told.certificate>>
  BY <1>5, CertificateAnswers
<1> QED
  BY <1>1, <1>2, <1>3, <1>4, <1>5 DEF Next

\* Final project and certificate: made once, behind their gates, and everybody
\* is answered the same one.
THEOREM Implements == Spec => KeepsPromise
<1>1. Init => Project!Init /\ Certificate!Init
  BY AssessmentAssumption DEF Init, Complete, Project!Init, Certificate!Init
<1>2. IInv /\ [Next]_vars => /\ [Project!Next]_<<Complete, project, told.project>>
                            /\ [Certificate!Next]_<<handedIn, certificate, told.certificate>>
  BY ProjectStep, CertificateStep DEF IInv
<1> QED
  BY <1>1, <1>2, Invariance, PTL DEF Spec, KeepsPromise, Project!Spec, Certificate!Spec
=============================================================================
