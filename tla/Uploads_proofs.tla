--------------------------- MODULE Uploads_proofs ---------------------------
(***************************************************************************)
(* Theorems about Uploads.  A control that looks first and writes later    *)
(* hands out permits: what is written and what may still be written        *)
(* together exceed the limit by the other requests at most, because at the *)
(* moment of a permit what is written is within the limit.                 *)
(***************************************************************************)
EXTENDS Uploads, SumTheorems, FiniteSetTheorems, TLAPS

\* Requests that have passed a control and not yet made what it counts.
Admitted == {r \in Requests : At(r, "check") /\ "rate" \notin req[r].todo}
Bringing(f) == {r \in Requests :
    /\ req[r].file = f
    /\ At(r, "document") \/ (At(r, "check") /\ "hash" \notin req[r].todo)}
Sending == {r \in Requests :
    At(r, "document") \/ (At(r, "check") /\ "quota" \notin req[r].todo)}

\* Bytes that are stored as they were checked, and those that may be yet.
Seen == {c \in Courses : doc[c].seen}
Sent == [r \in Requests |-> req[r].size]

RateInv == Cardinality(Recent) + Cardinality(Admitted) <= MaxUploadsPerHour + Others
CopyInv == \A f \in Files :
    Cardinality(Copies(f)) + Cardinality(Bringing(f)) <= 1 + Others
SizeInv ==
    SumFunctionOnSet(Size, Seen) + SumFunctionOnSet(Sent, Sending)
        <= MaxUserBytes + MaxFileBytes * Others

-----------------------------------------------------------------------------
(* Two sets that trade elements.                                           *)

\* What is written and what may still be written are finite.
LEMMA Finite ==
    /\ Cardinality(Requests) \in Nat /\ Cardinality(Requests) >= 1
    /\ \A S : S \subseteq Requests => Cardinality(S) \in Nat /\ Cardinality(S) <= Cardinality(Requests)
    /\ \A S : S \subseteq Courses => IsFiniteSet(S) /\ Cardinality(S) \in Nat
<1>1. Cardinality(Requests) \in Nat /\ Cardinality(Courses) \in Nat
  BY FS_CardinalityType, UploadsAssumption
<1>2. Cardinality(Requests) # 0
  BY FS_EmptySet, UploadsAssumption
<1>3. ASSUME NEW S, S \subseteq Requests
      PROVE  Cardinality(S) \in Nat /\ Cardinality(S) <= Cardinality(Requests)
  <2>1. IsFiniteSet(S) /\ Cardinality(S) <= Cardinality(Requests)
    BY <1>3, FS_Subset, UploadsAssumption
  <2> QED
    BY <2>1, FS_CardinalityType
<1>4. ASSUME NEW S, S \subseteq Courses
      PROVE  IsFiniteSet(S) /\ Cardinality(S) \in Nat
  <2>1. IsFiniteSet(S)
    BY <1>4, FS_Subset, UploadsAssumption
  <2> QED
    BY <2>1, FS_CardinalityType
<1> QED
  BY <1>1, <1>2, <1>3, <1>4

\* Neither set grows.
LEMMA Keep ==
    ASSUME NEW S \in SUBSET Courses, NEW T \in SUBSET S,
           NEW P \in SUBSET Requests, NEW Q \in SUBSET P,
           NEW n \in Int, Cardinality(S) + Cardinality(P) <= n
    PROVE  Cardinality(T) + Cardinality(Q) <= n
<1>1. IsFiniteSet(S) /\ IsFiniteSet(P)
  BY Finite, FS_Subset, UploadsAssumption
<1>2. Cardinality(T) <= Cardinality(S) /\ Cardinality(Q) <= Cardinality(P)
  BY <1>1, FS_Subset
<1>3. /\ Cardinality(T) \in Nat /\ Cardinality(S) \in Nat
      /\ Cardinality(P) \in Nat /\ Cardinality(Q) \in Nat
  <2>1. T \subseteq Courses /\ Q \subseteq Requests
    OBVIOUS
  <2> QED
    BY <2>1, Finite
<1> QED
  BY <1>2, <1>3

\* A permit becomes a row.
LEMMA Trade ==
    ASSUME NEW S \in SUBSET Courses, NEW c \in Courses, NEW T \in SUBSET (S \cup {c}),
           NEW P \in SUBSET Requests, NEW r \in P, NEW Q \in SUBSET (P \ {r}),
           NEW n \in Int, Cardinality(S) + Cardinality(P) <= n
    PROVE  Cardinality(T) + Cardinality(Q) <= n
<1>1. IsFiniteSet(S) /\ IsFiniteSet(P)
  BY Finite, FS_Subset, UploadsAssumption
<1>2. /\ IsFiniteSet(S \cup {c}) /\ Cardinality(S \cup {c}) <= Cardinality(S) + 1
      /\ IsFiniteSet(P \ {r}) /\ Cardinality(P \ {r}) = Cardinality(P) - 1
  <2>1. Cardinality(S) \in Nat
    BY Finite
  <2>2. /\ IsFiniteSet(S \cup {c})
        /\ Cardinality(S \cup {c}) = IF c \in S THEN Cardinality(S) ELSE Cardinality(S) + 1
    BY <1>1, FS_AddElement
  <2>3. IsFiniteSet(P \ {r}) /\ Cardinality(P \ {r}) = Cardinality(P) - 1
    BY <1>1, FS_RemoveElement
  <2> QED
    BY <2>1, <2>2, <2>3
<1>3. Cardinality(T) <= Cardinality(S \cup {c}) /\ Cardinality(Q) <= Cardinality(P \ {r})
  BY <1>2, FS_Subset
<1>4. /\ Cardinality(T) \in Nat /\ Cardinality(S) \in Nat /\ Cardinality(S \cup {c}) \in Nat
      /\ Cardinality(P) \in Nat /\ Cardinality(Q) \in Nat
  <2>1. T \subseteq Courses /\ Q \subseteq Requests /\ (S \cup {c}) \subseteq Courses
    OBVIOUS
  <2> QED
    BY <2>1, Finite
<1> QED
  BY <1>2, <1>3, <1>4

\* A permit is given while the rows are within the limit.
LEMMA Permit ==
    ASSUME NEW S \in SUBSET Courses, NEW Q \in SUBSET Requests,
           NEW n \in Nat, Cardinality(S) < n
    PROVE  Cardinality(S) + Cardinality(Q) <= n + Others
<1>1. Cardinality(S) \in Nat /\ Cardinality(Q) \in Nat
  BY Finite
<1>2. Cardinality(Q) <= Cardinality(Requests) /\ Cardinality(Requests) \in Nat
  BY Finite
<1> QED
  BY <1>1, <1>2 DEF Others

-----------------------------------------------------------------------------
(* Types.                                                                  *)

\* The initial state has the types.
LEMMA TypeInit == Init => TypeOK
BY UploadsAssumption DEF Init, TypeOK, Doc, NoDoc, Upload, Idle

\* Every step keeps the types.
LEMMA TypeStep == TypeOK /\ [Next]_vars => TypeOK'
<1> SUFFICES ASSUME TypeOK, [Next]_vars PROVE TypeOK'
  OBVIOUS
<1> USE DEF TypeOK, At, Become, Goto, Pass
<1>1. Idle \in Upload
  BY UploadsAssumption DEF Idle, Upload
<1>2. NoDoc \in Doc
  BY UploadsAssumption DEF NoDoc, Doc
<1>3. \A r \in Requests : req[r] \in Upload
  OBVIOUS
<1>4. ASSUME NEW r \in Requests, CreateUpload(r) PROVE TypeOK'
  <2>1. \A f \in Files : [Idle EXCEPT !.pc = "check", !.todo = Controls,
                                      !.size = Bytes[f], !.file = f] \in Upload
    <3>1. \A f \in Files : Bytes[f] \in 0..MaxFileBytes
      BY UploadsAssumption
    <3> QED
      BY <1>1, <3>1 DEF Upload
  <2> QED
    BY <1>4, <2>1 DEF CreateUpload
<1>5. ASSUME NEW r \in Requests, PresignUpload(r) PROVE TypeOK'
  <2>1. \A n \in 1..MaxFileBytes : [Idle EXCEPT !.pc = "check", !.todo = {"rate", "quota"},
                                                !.size = n] \in Upload
    <3>1. \A n \in 1..MaxFileBytes : n \in 0..MaxFileBytes
      BY UploadsAssumption
    <3>2. {"rate", "quota"} \in SUBSET Controls
      BY DEF Controls
    <3> QED
      BY <1>1, <3>1, <3>2 DEF Upload
  <2> QED
    BY <1>5, <2>1 DEF PresignUpload
<1>6. ASSUME NEW r \in Requests, CountUploads(r) \/ SumUsage(r) \/ FindDuplicate(r)
      PROVE  TypeOK'
  <2>1. \A x : [req[r] EXCEPT !.todo = req[r].todo \ {x}] \in Upload
    BY <1>3 DEF Upload
  <2>2. UNCHANGED <<row, doc>>
    BY <1>6 DEF CountUploads, SumUsage, FindDuplicate
  <2>3. \/ req' = [req EXCEPT ![r] = Idle]
        \/ \E x \in Controls : req' = [req EXCEPT ![r] = [req[r] EXCEPT !.todo = req[r].todo \ {x}]]
    BY <1>6 DEF CountUploads, SumUsage, FindDuplicate, Controls
  <2>4. req' \in [Requests -> Upload]
    BY <1>1, <2>1, <2>3
  <2> QED
    BY <2>2, <2>4
<1>7. ASSUME NEW r \in Requests, CreateCourse(r) PROVE TypeOK'
  <2>1. \A c \in Courses : [req[r] EXCEPT !.pc = "document", !.course = c] \in Upload
    BY <1>3 DEF Upload
  <2> QED
    BY <1>7, <2>1 DEF CreateCourse
<1>8. ASSUME NEW r \in Requests, NEW pc \in {"enqueue", "undoDocument", "undoCourse"}
      PROVE  [req[r] EXCEPT !.pc = pc] \in Upload
  BY <1>3 DEF Upload
<1>9. ASSUME NEW r \in Requests, CreateDocument(r) PROVE TypeOK'
  <2>1. [size |-> req[r].size, file |-> req[r].file, seen |-> TRUE] \in Doc
    BY <1>3 DEF Upload, Doc
  <2> QED
    BY <1>9, <1>8, <2>1 DEF CreateDocument
<1>10. ASSUME NEW r \in Requests, Enqueue(r) \/ UndoDocument(r) \/ UndoCourse(r) \/ Die(r)
       PROVE  TypeOK'
  BY <1>1, <1>2, <1>8, <1>10 DEF Enqueue, UndoDocument, UndoCourse, Die
<1>11. ASSUME NEW c \in Courses, ConfirmUpload(c) PROVE TypeOK'
  <2>1. PICK n \in 1..MaxFileBytes : doc' = [doc EXCEPT ![c].size = n, ![c].seen = FALSE]
    BY <1>11 DEF ConfirmUpload
  <2>2. [doc[c] EXCEPT !.size = n, !.seen = FALSE] \in Doc
    <3>1. doc[c] \in Doc /\ n \in 0..MaxFileBytes
      BY UploadsAssumption
    <3> QED
      BY <3>1 DEF Doc
  <2>3. doc' = [doc EXCEPT ![c] = [doc[c] EXCEPT !.size = n, !.seen = FALSE]]
    BY <2>1
  <2>4. doc' \in [Courses -> Doc]
    BY <2>2, <2>3
  <2> QED
    BY <1>11, <2>4 DEF ConfirmUpload
<1>12. ASSUME NEW c \in Courses, DestroyCourse(c) \/ Age(c) PROVE TypeOK'
  BY <1>2, <1>12 DEF DestroyCourse, Age
<1>13. CASE UNCHANGED vars
  BY <1>13 DEF vars
<1> QED
  BY <1>4, <1>5, <1>6, <1>7, <1>9, <1>10, <1>11, <1>12, <1>13 DEF Next

\* An upload that begins has every control that concerns it before it.
LEMMA Begun ==
    ASSUME TypeOK, NEW r \in Requests, CreateUpload(r) \/ PresignUpload(r)
    PROVE  /\ req'[r].pc = "check" /\ "rate" \in req'[r].todo
           /\ req'[r].file = NoFile \/ "hash" \in req'[r].todo
<1> USE DEF TypeOK, At, Become
<1>1. CASE CreateUpload(r)
  <2>1. PICK f \in Files :
           req' = [req EXCEPT ![r] = [Idle EXCEPT !.pc = "check", !.todo = Controls,
                                                  !.size = Bytes[f], !.file = f]]
    BY <1>1 DEF CreateUpload
  <2>2. req'[r].pc = "check" /\ req'[r].todo = Controls
    BY <2>1 DEF Idle
  <2> QED
    BY <2>2 DEF Controls
<1>2. CASE PresignUpload(r)
  <2>1. PICK n \in 1..MaxFileBytes :
           req' = [req EXCEPT ![r] = [Idle EXCEPT !.pc = "check", !.todo = {"rate", "quota"},
                                                  !.size = n]]
    BY <1>2 DEF PresignUpload
  <2>2. /\ req'[r].pc = "check" /\ req'[r].todo = {"rate", "quota"}
        /\ req'[r].file = NoFile
    BY <2>1 DEF Idle
  <2> QED
    BY <2>2
<1> QED
  BY <1>1, <1>2

-----------------------------------------------------------------------------
(* The rate.                                                               *)

\* Every step keeps the count of the hour and its permits within the limit.
LEMMA RateStep == TypeOK /\ RateInv /\ [Next]_vars => RateInv'
<1> SUFFICES ASSUME TypeOK, RateInv, [Next]_vars PROVE RateInv'
  OBVIOUS
<1> USE DEF TypeOK, At, Become, Goto, Pass
<1>1. MaxUploadsPerHour + Others \in Int
  BY Finite, UploadsAssumption DEF Others
<1>2. Recent \in SUBSET Courses /\ Admitted \in SUBSET Requests
  BY DEF Recent, Admitted
<1>3. ASSUME Recent' \subseteq Recent, Admitted' \subseteq Admitted PROVE RateInv'
  BY <1>1, <1>2, <1>3, Keep DEF RateInv
<1>4. ASSUME NEW r \in Requests, CreateUpload(r) \/ PresignUpload(r) \/ Die(r) PROVE RateInv'
  <2>1. req'[r].pc # "check" \/ "rate" \in req'[r].todo
    <3>1. CASE CreateUpload(r) \/ PresignUpload(r)
      BY <1>4, <3>1, Begun
    <3>2. CASE Die(r)
      BY <3>2 DEF Die, Idle
    <3> QED
      BY <1>4, <3>1, <3>2
  <2>2. row' = row /\ \A q \in Requests \ {r} : req'[q] = req[q]
    BY <1>4 DEF CreateUpload, PresignUpload, Die
  <2> QED
    BY <2>1, <2>2, <1>3 DEF Recent, Admitted
<1>5. ASSUME NEW r \in Requests, CountUploads(r) PROVE RateInv'
  <2>1. CASE Cardinality(Recent) >= MaxUploadsPerHour
    <3>1. row' = row /\ req'[r] = Idle /\ \A q \in Requests \ {r} : req'[q] = req[q]
      BY <1>5, <2>1 DEF CountUploads
    <3> QED
      BY <3>1, <1>3 DEF Recent, Admitted, Idle
  <2>2. CASE ~(Cardinality(Recent) >= MaxUploadsPerHour)
    <3>1. Recent' = Recent /\ Admitted' \in SUBSET Requests
      BY <1>5 DEF CountUploads, Recent, Admitted
    <3>2. Cardinality(Recent) < MaxUploadsPerHour
      BY <2>2, <1>2, Finite, UploadsAssumption
    <3> QED
      BY <3>1, <3>2, <1>2, Permit, UploadsAssumption DEF RateInv
  <2> QED
    BY <2>1, <2>2
<1>6. ASSUME NEW r \in Requests, SumUsage(r) \/ FindDuplicate(r) PROVE RateInv'
  <2>1. /\ row' = row /\ \A q \in Requests \ {r} : req'[q] = req[q]
        /\ \/ req'[r] = Idle
           \/ \E x \in {"quota", "hash"} : req'[r] = [req[r] EXCEPT !.todo = req[r].todo \ {x}]
    BY <1>6 DEF SumUsage, FindDuplicate
  <2>2. req[r] \in Upload
    OBVIOUS
  <2>3. req'[r].pc = "check" /\ "rate" \notin req'[r].todo
        => req[r].pc = "check" /\ "rate" \notin req[r].todo
    BY <2>1, <2>2 DEF Idle, Upload
  <2> QED
    BY <2>1, <2>3, <1>3 DEF Recent, Admitted
<1>7. ASSUME NEW r \in Requests, CreateCourse(r) PROVE RateInv'
  <2>1. PICK c \in Courses : /\ row' = [row EXCEPT ![c] = "recent"]
                             /\ req' = [req EXCEPT ![r] = [req[r] EXCEPT !.pc = "document", !.course = c]]
    BY <1>7 DEF CreateCourse
  <2>2. Recent' \in SUBSET (Recent \cup {c})
    BY <2>1 DEF Recent
  <2>3. r \in Admitted
    BY <1>7 DEF CreateCourse, Admitted
  <2>4. Admitted' \in SUBSET (Admitted \ {r})
    <3>1. req[r] \in Upload
      OBVIOUS
    <3> QED
      BY <2>1, <3>1 DEF Admitted, Upload
  <2> QED
    BY <2>2, <2>3, <2>4, <1>1, <1>2, Trade DEF RateInv
<1>8. ASSUME NEW r \in Requests,
             CreateDocument(r) \/ Enqueue(r) \/ UndoDocument(r) \/ UndoCourse(r)
      PROVE  RateInv'
  <2>1. req[r] \in Upload
    OBVIOUS
  <2>2. req'[r].pc # "check" /\ \A q \in Requests \ {r} : req'[q] = req[q]
    BY <1>8, <2>1 DEF CreateDocument, Enqueue, UndoDocument, UndoCourse, Idle, Upload
  <2>3. Recent' \subseteq Recent
    BY <1>8 DEF CreateDocument, Enqueue, UndoDocument, UndoCourse, Recent
  <2> QED
    BY <2>2, <2>3, <1>3 DEF Admitted
<1>9. ASSUME NEW c \in Courses, ConfirmUpload(c) \/ DestroyCourse(c) \/ Age(c) PROVE RateInv'
  <2>1. Recent' \subseteq Recent /\ req' = req
    BY <1>9 DEF ConfirmUpload, DestroyCourse, Age, Recent
  <2> QED
    BY <2>1, <1>3 DEF Admitted
<1>10. CASE UNCHANGED vars
  BY <1>10, <1>3 DEF vars, Recent, Admitted
<1> QED
  BY <1>4, <1>5, <1>6, <1>7, <1>8, <1>9, <1>10 DEF Next

-----------------------------------------------------------------------------
(* The duplicates.                                                         *)

\* Every step keeps the copies of a file and those under way within one for
\* each request.
LEMMA CopyStep == TypeOK /\ CopyInv /\ [Next]_vars => CopyInv'
<1> SUFFICES ASSUME TypeOK, CopyInv, [Next]_vars, NEW f \in Files
             PROVE  (Cardinality(Copies(f)) + Cardinality(Bringing(f)) <= 1 + Others)'
  BY DEF CopyInv
<1> USE DEF TypeOK, At, Become, Goto, Pass
<1> DEFINE Goal == (Cardinality(Copies(f)) + Cardinality(Bringing(f)) <= 1 + Others)'
<1>1. 1 + Others \in Int
  BY Finite DEF Others
<1>2. Copies(f) \in SUBSET Courses /\ Bringing(f) \in SUBSET Requests
  BY DEF Copies, Bringing
<1>3. Cardinality(Copies(f)) + Cardinality(Bringing(f)) <= 1 + Others
  BY DEF CopyInv
<1>4. Others' = Others
  BY DEF Others
<1>5. ASSUME Copies(f)' \subseteq Copies(f), Bringing(f)' \subseteq Bringing(f) PROVE Goal
  BY <1>1, <1>2, <1>3, <1>4, <1>5, Keep
<1>6. f # NoFile
  BY UploadsAssumption
<1> HIDE DEF Goal
<1>7. ASSUME NEW r \in Requests, CreateUpload(r) \/ PresignUpload(r) \/ Die(r) PROVE Goal
  <2>1. \/ req'[r].file # f
        \/ req'[r].pc = "check" /\ "hash" \in req'[r].todo
    <3>1. CASE CreateUpload(r) \/ PresignUpload(r)
      BY <1>6, <1>7, <3>1, Begun
    <3>2. CASE Die(r)
      BY <1>6, <3>2 DEF Die, Idle
    <3> QED
      BY <1>7, <3>1, <3>2
  <2>2. doc' = doc /\ \A q \in Requests \ {r} : req'[q] = req[q]
    BY <1>7 DEF CreateUpload, PresignUpload, Die
  <2> QED
    BY <2>1, <2>2, <1>5 DEF Copies, Bringing
<1>8. ASSUME NEW r \in Requests, CountUploads(r) \/ SumUsage(r) PROVE Goal
  <2>1. /\ doc' = doc /\ \A q \in Requests \ {r} : req'[q] = req[q]
        /\ \/ req'[r] = Idle
           \/ \E x \in {"rate", "quota"} : req'[r] = [req[r] EXCEPT !.todo = req[r].todo \ {x}]
    BY <1>8 DEF CountUploads, SumUsage
  <2>2. req[r] \in Upload /\ req[r].pc = "check"
    BY <1>8 DEF CountUploads, SumUsage
  <2>3. r \in Bringing(f)' => r \in Bringing(f)
    BY <2>1, <2>2, <1>6 DEF Idle, Upload, Bringing
  <2> QED
    BY <2>1, <2>3, <1>5 DEF Copies, Bringing
<1>9. ASSUME NEW r \in Requests, FindDuplicate(r) PROVE Goal
  <2>1. doc' = doc /\ \A q \in Requests \ {r} : req'[q] = req[q]
    BY <1>9 DEF FindDuplicate
  <2>2. CASE req[r].file = f /\ Copies(f) = {}
    <3>1. Copies(f)' \in SUBSET Courses /\ Bringing(f)' \in SUBSET Requests /\ Copies(f)' = {}
      BY <2>1, <2>2 DEF Copies, Bringing
    <3>2. Cardinality(Copies(f)') < 1
      BY <3>1, FS_EmptySet
    <3> QED
      BY <3>1, <3>2, <1>4, Permit DEF Goal
  <2>3. CASE ~(req[r].file = f /\ Copies(f) = {})
    <3>1. req[r] \in Upload
      OBVIOUS
    <3>2. req'[r].file # f
      BY <1>6, <1>9, <2>3, <3>1 DEF FindDuplicate, Idle, Upload
    <3> QED
      BY <2>1, <3>2, <1>5 DEF Copies, Bringing
  <2> QED
    BY <2>2, <2>3
<1>10. ASSUME NEW r \in Requests, CreateCourse(r) PROVE Goal
  <2>1. doc' = doc /\ \A q \in Requests \ {r} : req'[q] = req[q]
    BY <1>10 DEF CreateCourse
  <2>2. req[r] \in Upload /\ req[r].todo = {} /\ req[r].pc = "check"
    BY <1>10 DEF CreateCourse
  <2>3. req'[r].file = req[r].file
    BY <1>10, <2>2 DEF CreateCourse, Upload
  <2>4. r \in Bringing(f)' => r \in Bringing(f)
    BY <2>2, <2>3 DEF Bringing
  <2> QED
    BY <2>1, <2>4, <1>5 DEF Copies, Bringing
<1>11. ASSUME NEW r \in Requests, CreateDocument(r) PROVE Goal
  <2>1. req[r] \in Upload /\ req[r].pc = "document"
    BY <1>11 DEF CreateDocument
  <2>2. /\ req'[r].pc \in {"enqueue", "undoCourse"}
        /\ \A q \in Requests \ {r} : req'[q] = req[q]
    BY <1>11, <2>1 DEF CreateDocument, Upload
  <2>3. Bringing(f)' \in SUBSET (Bringing(f) \ {r})
    BY <2>2 DEF Bringing
  <2>4. CASE doc' = doc
    BY <2>3, <2>4, <1>5 DEF Copies
  <2>5. CASE doc' # doc
    <3>1. /\ req[r].course \in Courses
          /\ doc' = [doc EXCEPT ![req[r].course] =
                 [size |-> req[r].size, file |-> req[r].file, seen |-> TRUE]]
      BY <1>11, <2>1, <2>5 DEF CreateDocument, Upload
    <3>2. CASE req[r].file = f
      <4>1. r \in Bringing(f)
        BY <2>1, <3>2 DEF Bringing
      <4>2. Copies(f)' \in SUBSET (Copies(f) \cup {req[r].course})
        BY <3>1 DEF Copies
      <4> QED
        BY <4>1, <4>2, <3>1, <2>3, <1>1, <1>2, <1>3, <1>4, Trade DEF Goal
    <3>3. CASE req[r].file # f
      <4>1. Copies(f)' \subseteq Copies(f)
        BY <3>1, <3>3 DEF Copies
      <4> QED
        BY <4>1, <2>3, <1>5
    <3> QED
      BY <3>2, <3>3
  <2> QED
    BY <2>4, <2>5
<1>12. ASSUME NEW r \in Requests, Enqueue(r) \/ UndoDocument(r) \/ UndoCourse(r) PROVE Goal
  <2>1. req[r] \in Upload
    OBVIOUS
  <2>2. /\ req'[r].pc \notin {"check", "document"}
        /\ \A q \in Requests \ {r} : req'[q] = req[q]
    BY <1>12, <2>1 DEF Enqueue, UndoDocument, UndoCourse, Idle, Upload
  <2>3. Copies(f)' \subseteq Copies(f)
    BY <1>6, <1>12 DEF Enqueue, UndoDocument, UndoCourse, Copies, NoDoc
  <2> QED
    BY <2>2, <2>3, <1>5 DEF Bringing
<1>13. ASSUME NEW c \in Courses, ConfirmUpload(c) \/ DestroyCourse(c) \/ Age(c) PROVE Goal
  <2>1. Copies(f)' \subseteq Copies(f)
    <3>1. CASE ConfirmUpload(c)
      <4>1. PICK n \in 1..MaxFileBytes :
               doc' = [doc EXCEPT ![c] = [doc[c] EXCEPT !.size = n, !.seen = FALSE]]
        BY <3>1 DEF ConfirmUpload
      <4>2. doc[c] \in Doc /\ doc'[c] = [doc[c] EXCEPT !.size = n, !.seen = FALSE]
        BY <4>1
      <4>3. doc'[c].file = doc[c].file
        BY <4>2 DEF Doc
      <4> QED
        BY <4>1, <4>3 DEF Copies
    <3>2. CASE DestroyCourse(c)
      BY <1>6, <3>2 DEF DestroyCourse, Copies, NoDoc
    <3>3. CASE Age(c)
      BY <3>3 DEF Age, Copies
    <3> QED
      BY <1>13, <3>1, <3>2, <3>3
  <2>2. req' = req
    BY <1>13 DEF ConfirmUpload, DestroyCourse, Age
  <2> QED
    BY <2>1, <2>2, <1>5 DEF Bringing
<1>14. CASE UNCHANGED vars
  <2>1. Copies(f)' \subseteq Copies(f)
    BY <1>14 DEF vars, Copies
  <2>2. Bringing(f)' \subseteq Bringing(f)
    BY <1>14 DEF vars, Bringing
  <2>3. Goal
    BY <2>1, <2>2, <1>5
  <2> QED
    BY <2>3 DEF Goal
<1> QED
  BY <1>7, <1>8, <1>9, <1>10, <1>11, <1>12, <1>13, <1>14 DEF Next, Goal

-----------------------------------------------------------------------------
(* The bytes.                                                              *)

\* Sizes are numbers, and so are their sums.
LEMMA Sizes ==
    ASSUME TypeOK
    PROVE  /\ \A c \in Courses : Size[c] = doc[c].size /\ Size[c] \in Nat
           /\ \A r \in Requests : Sent[r] = req[r].size /\ Sent[r] \in Nat /\ Sent[r] <= MaxFileBytes
           /\ Seen \in SUBSET Courses /\ IsFiniteSet(Seen)
           /\ Sending \in SUBSET Requests /\ IsFiniteSet(Sending)
           /\ SumFunctionOnSet(Size, Seen) \in Nat /\ SumFunctionOnSet(Sent, Sending) \in Nat
           /\ MaxUserBytes + MaxFileBytes * Others \in Int
<1>1. \A c \in Courses : Size[c] = doc[c].size /\ Size[c] \in Nat
  BY UploadsAssumption DEF TypeOK, Doc, Size
<1>2. \A r \in Requests : Sent[r] = req[r].size /\ Sent[r] \in Nat /\ Sent[r] <= MaxFileBytes
  BY UploadsAssumption DEF TypeOK, Upload, Sent
<1>3. Seen \in SUBSET Courses /\ Sending \in SUBSET Requests
  BY DEF Seen, Sending
<1>4. IsFiniteSet(Seen) /\ IsFiniteSet(Sending)
  BY <1>3, FS_Subset, UploadsAssumption
<1>5. SumFunctionOnSet(Size, Seen) \in Nat /\ SumFunctionOnSet(Sent, Sending) \in Nat
  BY <1>1, <1>2, <1>3, <1>4, SumType
<1>6. MaxUserBytes + MaxFileBytes * Others \in Int
  BY Finite, UploadsAssumption DEF Others
<1> QED
  BY <1>1, <1>2, <1>3, <1>4, <1>5, <1>6

\* Nothing more is stored and nobody more is allowed to.
LEMMA KeepBytes ==
    ASSUME TypeOK, SizeInv,
           Seen' \subseteq Seen, \A c \in Seen' : doc'[c].size = doc[c].size,
           Sending' \subseteq Sending, \A r \in Sending' : req'[r].size = req[r].size
    PROVE  SizeInv'
<1>1. \A c \in Seen' : Size'[c] = Size[c]
  BY Sizes DEF Size
<1>2. \A r \in Sending' : Sent'[r] = Sent[r]
  BY Sizes DEF Sent
<1>3. /\ SumFunctionOnSet(Size', Seen') \in Nat
      /\ SumFunctionOnSet(Size', Seen') <= SumFunctionOnSet(Size, Seen)
  <2>1. IsFiniteSet(Seen) /\ \A c \in Seen : Size[c] \in Nat
    BY Sizes
  <2> QED
    BY <1>1, <2>1, SumKeep
<1>4. /\ SumFunctionOnSet(Sent', Sending') \in Nat
      /\ SumFunctionOnSet(Sent', Sending') <= SumFunctionOnSet(Sent, Sending)
  <2>1. IsFiniteSet(Sending) /\ \A r \in Sending : Sent[r] \in Nat
    BY Sizes
  <2> QED
    BY <1>2, <2>1, SumKeep
<1>5. (MaxUserBytes + MaxFileBytes * Others)' = MaxUserBytes + MaxFileBytes * Others
  BY DEF Others
<1> DEFINE limit == MaxUserBytes + MaxFileBytes * Others
<1>6. limit \in Int /\ SumFunctionOnSet(Size, Seen) + SumFunctionOnSet(Sent, Sending) <= limit
  BY Sizes DEF SizeInv
<1>7. SumFunctionOnSet(Size, Seen) \in Nat /\ SumFunctionOnSet(Sent, Sending) \in Nat
  BY Sizes
<1> HIDE DEF limit
<1>8. SumFunctionOnSet(Size', Seen') + SumFunctionOnSet(Sent', Sending') <= limit
  BY <1>3, <1>4, <1>6, <1>7
<1> QED
  BY <1>5, <1>8 DEF SizeInv, limit

\* The bytes that were allowed are stored.
LEMMA TradeBytes ==
    ASSUME TypeOK, SizeInv, NEW r \in Sending, NEW c \in Courses,
           Sending' \subseteq Sending \ {r}, \A q \in Sending' : req'[q].size = req[q].size,
           Seen' \subseteq Seen \cup {c}, doc'[c].size = req[r].size,
           \A d \in Seen' \ {c} : doc'[d].size = doc[d].size
    PROVE  SizeInv'
<1>1. /\ \A d \in Seen' \ {c} : Size'[d] = Size[d]
      /\ Size'[c] = Sent[r] /\ Sent[r] \in Nat
  BY Sizes DEF Size
<1>2. \A q \in Sending' : Sent'[q] = Sent[q]
  BY Sizes DEF Sent
<1>3. /\ SumFunctionOnSet(Size', Seen') \in Nat
      /\ SumFunctionOnSet(Size', Seen') <= SumFunctionOnSet(Size, Seen) + Sent[r]
  <2>1. IsFiniteSet(Seen) /\ \A d \in Seen : Size[d] \in Nat
    BY Sizes
  <2>2. /\ SumFunctionOnSet(Size', Seen') \in Nat
        /\ SumFunctionOnSet(Size', Seen') <= SumFunctionOnSet(Size, Seen) + Size'[c]
    BY <1>1, <2>1, SumAdd
  <2> QED
    BY <1>1, <2>2
<1>4. /\ SumFunctionOnSet(Sent', Sending') \in Nat
      /\ SumFunctionOnSet(Sent', Sending') + Sent[r] <= SumFunctionOnSet(Sent, Sending)
  <2>1. IsFiniteSet(Sending) /\ \A q \in Sending : Sent[q] \in Nat
    BY Sizes
  <2> QED
    BY <1>2, <2>1, SumDrop
<1>5. (MaxUserBytes + MaxFileBytes * Others)' = MaxUserBytes + MaxFileBytes * Others
  BY DEF Others
<1> DEFINE limit == MaxUserBytes + MaxFileBytes * Others
<1>6. limit \in Int /\ SumFunctionOnSet(Size, Seen) + SumFunctionOnSet(Sent, Sending) <= limit
  BY Sizes DEF SizeInv
<1>7. SumFunctionOnSet(Size, Seen) \in Nat /\ SumFunctionOnSet(Sent, Sending) \in Nat
  BY Sizes
<1> HIDE DEF limit
<1>8. SumFunctionOnSet(Size', Seen') + SumFunctionOnSet(Sent', Sending') <= limit
  BY <1>1, <1>3, <1>4, <1>6, <1>7
<1> QED
  BY <1>5, <1>8 DEF SizeInv, limit

\* A document goes: what is left of it has no bytes.
LEMMA ForgetBytes ==
    ASSUME TypeOK, SizeInv, NEW c \in Courses, doc' = [doc EXCEPT ![c] = NoDoc],
           Sending' \subseteq Sending, \A r \in Sending' : req'[r].size = req[r].size
    PROVE  SizeInv'
<1>1. /\ \A d \in Courses \ {c} : doc'[d] = doc[d]
      /\ doc'[c] = NoDoc
  BY DEF TypeOK
<1>2. Seen' \subseteq Seen \cup {c}
  BY <1>1 DEF Seen
<1>3. /\ SumFunctionOnSet(Size', Seen') \in Nat
      /\ SumFunctionOnSet(Size', Seen') <= SumFunctionOnSet(Size, Seen) + 0
  <2>1. IsFiniteSet(Seen) /\ \A d \in Seen : Size[d] \in Nat
    BY Sizes
  <2>2. /\ \A d \in Seen' \ {c} : Size'[d] = Size[d]
        /\ Size'[c] = 0 /\ Size'[c] \in Nat
    BY <1>1, <1>2 DEF Size, NoDoc, Seen
  <2>3. /\ SumFunctionOnSet(Size', Seen') \in Nat
        /\ SumFunctionOnSet(Size', Seen') <= SumFunctionOnSet(Size, Seen) + Size'[c]
    BY <1>2, <2>1, <2>2, SumAdd
  <2> QED
    BY <2>2, <2>3
<1>4. /\ SumFunctionOnSet(Sent', Sending') \in Nat
      /\ SumFunctionOnSet(Sent', Sending') <= SumFunctionOnSet(Sent, Sending)
  <2>1. IsFiniteSet(Sending) /\ \A r \in Sending : Sent[r] \in Nat
    BY Sizes
  <2>2. \A r \in Sending' : Sent'[r] = Sent[r]
    BY Sizes DEF Sent
  <2> QED
    BY <2>1, <2>2, SumKeep
<1>5. (MaxUserBytes + MaxFileBytes * Others)' = MaxUserBytes + MaxFileBytes * Others
  BY DEF Others
<1> DEFINE limit == MaxUserBytes + MaxFileBytes * Others
<1>6. limit \in Int /\ SumFunctionOnSet(Size, Seen) + SumFunctionOnSet(Sent, Sending) <= limit
  BY Sizes DEF SizeInv
<1>7. SumFunctionOnSet(Size, Seen) \in Nat /\ SumFunctionOnSet(Sent, Sending) \in Nat
  BY Sizes
<1> HIDE DEF limit
<1>8. SumFunctionOnSet(Size', Seen') + SumFunctionOnSet(Sent', Sending') <= limit
  BY <1>3, <1>4, <1>6, <1>7
<1> QED
  BY <1>5, <1>8 DEF SizeInv, limit

\* A request is let through while its bytes fit beside those that are stored:
\* what the others may store is a file for each.
LEMMA PermitBytes ==
    ASSUME TypeOK, TypeOK', NEW r \in Requests, UsedBytes + req[r].size <= MaxUserBytes,
           UNCHANGED doc, Sent' = Sent
    PROVE  SizeInv'
<1>1. Size' = Size /\ Seen' = Seen
  BY DEF Size, Seen
<1>2. SumFunctionOnSet(Size, Seen) <= UsedBytes /\ UsedBytes \in Nat
  <2>1. \A c \in Courses : Size[c] \in Nat
    BY Sizes
  <2> QED
    BY <2>1, Sizes, SumPart, SumType, UploadsAssumption DEF UsedBytes
<1>3. Sending' \in SUBSET Requests
  BY DEF Sending
<1>4. SumFunctionOnSet(Sent, Sending') <= Sent[r] + MaxFileBytes * Others
  <2> DEFINE P == Requests \ {r}
             Q == Sending' \ {r}
  <2>1. \A q \in Requests : Sent[q] \in Nat /\ Sent[q] <= MaxFileBytes
    BY Sizes
  <2>2. IsFiniteSet(P) /\ Cardinality(P) = Others
    BY FS_RemoveElement, UploadsAssumption DEF Others
  <2>3. Q \in SUBSET P
    BY <1>3
  <2>4. SumFunctionOnSet(Sent, Q) <= SumFunctionOnSet(Sent, P) /\ SumFunctionOnSet(Sent, Q) \in Nat
    BY <2>1, <2>2, <2>3, SumKeep
  <2>5. /\ SumFunctionOnSet(Sent, P) <= MaxFileBytes * Others
        /\ SumFunctionOnSet(Sent, P) \in Nat
    BY <2>1, <2>2, SumAtMost, SumType, UploadsAssumption
  <2>6. IsFiniteSet(Q)
    BY <2>2, <2>3, FS_Subset
  <2>7. SumFunctionOnSet(Sent, Sending') <= SumFunctionOnSet(Sent, Q) + Sent[r]
    <3>1. \A q \in Q : Sent[q] \in Nat
      BY <2>1, <2>3
    <3>2. Sending' \in SUBSET (Q \cup {r}) /\ Sent[r] \in Nat
      BY <1>3, <2>1
    <3> QED
      BY <2>6, <3>1, <3>2, SumAdd
  <2> DEFINE rest == MaxFileBytes * Others
  <2>8. rest \in Int
    BY Finite, UploadsAssumption DEF Others
  <2>9. SumFunctionOnSet(Sent, Sending') \in Nat /\ Sent[r] \in Nat
    <3>1. IsFiniteSet(Sending') /\ \A q \in Sending' : Sent[q] \in Nat
      BY <1>3, <2>1, FS_Subset, UploadsAssumption
    <3> QED
      BY <2>1, <3>1, SumType
  <2> HIDE DEF rest, P, Q
  <2>10. SumFunctionOnSet(Sent, P) <= rest
    BY <2>5 DEF rest
  <2> QED
    BY <2>4, <2>5, <2>7, <2>8, <2>9, <2>10 DEF rest
<1>5. (MaxUserBytes + MaxFileBytes * Others)' = MaxUserBytes + MaxFileBytes * Others
  BY DEF Others
<1>6. /\ SumFunctionOnSet(Sent', Sending') <= req[r].size + MaxFileBytes * Others
      /\ SumFunctionOnSet(Size', Seen') <= UsedBytes
  BY <1>1, <1>2, <1>4, Sizes
<1>7. /\ SumFunctionOnSet(Sent', Sending') \in Nat /\ SumFunctionOnSet(Size', Seen') \in Nat
      /\ req[r].size \in Nat /\ MaxFileBytes * Others \in Int
  <2>1. SumFunctionOnSet(Sent, Sending') \in Nat
    <3>1. IsFiniteSet(Sending') /\ \A q \in Sending' : Sent[q] \in Nat
      BY <1>3, Sizes, FS_Subset, UploadsAssumption
    <3> QED
      BY <3>1, SumType
  <2>2. MaxFileBytes * Others \in Int
    BY Finite, UploadsAssumption DEF Others
  <2> QED
    BY <1>1, <2>1, <2>2, Sizes
<1> DEFINE rest == MaxFileBytes * Others
<1>8. SumFunctionOnSet(Sent', Sending') <= req[r].size + rest /\ rest \in Int
  BY <1>6, <1>7
<1> HIDE DEF rest
<1>9. SumFunctionOnSet(Size', Seen') + SumFunctionOnSet(Sent', Sending') <= MaxUserBytes + rest
  BY <1>2, <1>6, <1>7, <1>8, UploadsAssumption
<1> QED
  BY <1>5, <1>9 DEF SizeInv, rest

\* Every step keeps what is stored and what may be yet within the quota and a
\* file for each other request.
LEMMA SizeStep == TypeOK /\ SizeInv /\ [Next]_vars => SizeInv'
<1> SUFFICES ASSUME TypeOK, SizeInv, [Next]_vars PROVE SizeInv'
  OBVIOUS
<1> USE DEF TypeOK, At, Become, Goto, Pass
<1>1. TypeOK'
  BY TypeStep DEF Next
<1>2. \A r \in Requests : req[r] \in Upload
  OBVIOUS
<1>3. ASSUME NEW r \in Requests, CreateUpload(r) \/ PresignUpload(r) \/ Die(r) PROVE SizeInv'
  <2>1. req'[r].pc = "idle" \/ (req'[r].pc = "check" /\ "quota" \in req'[r].todo)
    <3>1. CASE CreateUpload(r)
      BY <3>1 DEF CreateUpload, Idle, Controls
    <3>2. CASE PresignUpload(r)
      BY <3>2 DEF PresignUpload, Idle
    <3>3. CASE Die(r)
      BY <3>3 DEF Die, Idle
    <3> QED
      BY <1>3, <3>1, <3>2, <3>3
  <2>2. doc' = doc /\ \A q \in Requests \ {r} : req'[q] = req[q]
    BY <1>3 DEF CreateUpload, PresignUpload, Die
  <2>3. r \notin Sending'
    BY <2>1 DEF Sending
  <2> QED
    BY <2>2, <2>3, KeepBytes DEF Seen, Sending
<1>4. ASSUME NEW r \in Requests, CountUploads(r) \/ FindDuplicate(r) PROVE SizeInv'
  <2>1. /\ doc' = doc /\ \A q \in Requests \ {r} : req'[q] = req[q]
        /\ \/ req'[r] = Idle
           \/ \E x \in {"rate", "hash"} : req'[r] = [req[r] EXCEPT !.todo = req[r].todo \ {x}]
    BY <1>4 DEF CountUploads, FindDuplicate
  <2>2. r \in Sending' => r \in Sending /\ req'[r].size = req[r].size
    BY <1>2, <2>1 DEF Sending, Idle, Upload
  <2> QED
    BY <2>1, <2>2, KeepBytes DEF Seen, Sending
<1>5. ASSUME NEW r \in Requests, SumUsage(r) PROVE SizeInv'
  <2>1. doc' = doc /\ \A q \in Requests \ {r} : req'[q] = req[q]
    BY <1>5 DEF SumUsage
  <2>2. CASE UsedBytes + req[r].size > MaxUserBytes
    <3>1. req'[r] = Idle
      BY <1>5, <2>2 DEF SumUsage
    <3>2. r \notin Sending'
      BY <3>1 DEF Sending, Idle
    <3> QED
      BY <2>1, <3>2, KeepBytes DEF Seen, Sending
  <2>3. CASE ~(UsedBytes + req[r].size > MaxUserBytes)
    <3>1. req'[r] = [req[r] EXCEPT !.todo = req[r].todo \ {"quota"}]
      BY <1>5, <2>3 DEF SumUsage
    <3>2. req'[r].size = req[r].size
      BY <1>2, <3>1 DEF Upload
    <3>3. Sent' = Sent
      BY <2>1, <3>2 DEF Sent
    <3>4. UsedBytes \in Nat /\ req[r].size \in Nat
      BY Sizes, SumType, UploadsAssumption DEF UsedBytes
    <3>5. UsedBytes + req[r].size <= MaxUserBytes
      BY <2>3, <3>4, UploadsAssumption
    <3> QED
      BY <1>1, <2>1, <3>3, <3>5, PermitBytes
  <2> QED
    BY <2>2, <2>3
<1>6. ASSUME NEW r \in Requests, CreateCourse(r) PROVE SizeInv'
  <2>1. doc' = doc /\ \A q \in Requests \ {r} : req'[q] = req[q]
    BY <1>6 DEF CreateCourse
  <2>2. req[r].todo = {} /\ req[r].pc = "check" /\ req'[r].size = req[r].size
    BY <1>2, <1>6 DEF CreateCourse, Upload
  <2>3. r \in Sending
    BY <2>2 DEF Sending
  <2> QED
    BY <2>1, <2>2, <2>3, KeepBytes DEF Seen, Sending
<1>7. ASSUME NEW r \in Requests, CreateDocument(r) PROVE SizeInv'
  <2>1. /\ req[r].pc = "document" /\ req'[r].pc \in {"enqueue", "undoCourse"}
        /\ \A q \in Requests \ {r} : req'[q] = req[q]
    BY <1>2, <1>7 DEF CreateDocument, Upload
  <2>2. r \in Sending /\ Sending' \subseteq Sending \ {r}
    BY <2>1 DEF Sending
  <2>3. \A q \in Sending' : req'[q].size = req[q].size
    BY <2>1, <2>2 DEF Sending
  <2>4. CASE doc' = doc
    BY <2>2, <2>3, <2>4, KeepBytes DEF Seen
  <2>5. CASE doc' # doc
    <3>1. /\ req[r].course \in Courses
          /\ doc' = [doc EXCEPT ![req[r].course] =
                 [size |-> req[r].size, file |-> req[r].file, seen |-> TRUE]]
      BY <1>2, <1>7, <2>5 DEF CreateDocument, Upload
    <3>2. /\ doc'[req[r].course].size = req[r].size
          /\ \A d \in Courses \ {req[r].course} : doc'[d] = doc[d]
      BY <3>1
    <3>3. /\ Seen' \subseteq Seen \cup {req[r].course}
          /\ \A d \in Seen' \ {req[r].course} : doc'[d].size = doc[d].size
      BY <3>2 DEF Seen
    <3> QED
      BY <2>2, <2>3, <3>1, <3>2, <3>3, TradeBytes
  <2> QED
    BY <2>4, <2>5
<1>8. ASSUME NEW r \in Requests, Enqueue(r) \/ UndoCourse(r) PROVE SizeInv'
  <2>1. /\ req'[r].pc \in {"idle", "undoDocument"} /\ doc' = doc
        /\ \A q \in Requests \ {r} : req'[q] = req[q]
    BY <1>2, <1>8 DEF Enqueue, UndoCourse, Idle, Upload
  <2>2. r \notin Sending'
    BY <2>1 DEF Sending
  <2> QED
    BY <2>1, <2>2, KeepBytes DEF Seen, Sending
<1>9. ASSUME NEW r \in Requests, UndoDocument(r) PROVE SizeInv'
  <2>1. /\ req[r].pc = "undoDocument" /\ req'[r].pc = "undoCourse"
        /\ \A q \in Requests \ {r} : req'[q] = req[q]
    BY <1>2, <1>9 DEF UndoDocument, Upload
  <2>2. r \notin Sending'
    BY <2>1 DEF Sending
  <2>3. CASE doc' = doc
    BY <2>1, <2>2, <2>3, KeepBytes DEF Seen, Sending
  <2>4. CASE doc' # doc
    <3>1. req[r].course \in Courses /\ doc' = [doc EXCEPT ![req[r].course] = NoDoc]
      BY <1>9, <2>4 DEF UndoDocument
    <3> QED
      BY <2>1, <2>2, <3>1, ForgetBytes DEF Sending
  <2> QED
    BY <2>3, <2>4
<1>10. ASSUME NEW c \in Courses, ConfirmUpload(c) PROVE SizeInv'
  <2>1. PICK n \in 1..MaxFileBytes : doc' = [doc EXCEPT ![c].size = n, ![c].seen = FALSE]
    BY <1>10 DEF ConfirmUpload
  <2>2. doc'[c].seen = FALSE
    <3>1. doc[c] \in Doc
      OBVIOUS
    <3>2. doc'[c] = [doc[c] EXCEPT !.size = n, !.seen = FALSE]
      BY <2>1
    <3> QED
      BY <3>1, <3>2 DEF Doc
  <2>3. req' = req /\ \A d \in Courses \ {c} : doc'[d] = doc[d]
    BY <1>10, <2>1 DEF ConfirmUpload
  <2> QED
    BY <2>2, <2>3, KeepBytes DEF Seen, Sending
<1>11. ASSUME NEW c \in Courses, DestroyCourse(c) PROVE SizeInv'
  BY <1>11, ForgetBytes DEF DestroyCourse, Sending
<1>12. ASSUME NEW c \in Courses, Age(c) PROVE SizeInv'
  BY <1>12, KeepBytes DEF Age, Seen, Sending
<1>13. CASE UNCHANGED vars
  BY <1>13, KeepBytes DEF vars, Seen, Sending
<1> QED
  BY <1>3, <1>4, <1>5, <1>6, <1>7, <1>8, <1>9, <1>10, <1>11, <1>12, <1>13 DEF Next

-----------------------------------------------------------------------------
(* Theorems.                                                               *)

\* The inductive invariant: types, and each control with its permits.
THEOREM Invariance == Spec => [](TypeOK /\ RateInv /\ CopyInv /\ SizeInv)
<1>1. Init => TypeOK
  BY TypeInit
<1>2. Init => RateInv
  <2> SUFFICES ASSUME Init PROVE RateInv
    OBVIOUS
  <2>1. Recent = {} /\ Admitted = {}
    BY DEF Init, Recent, Admitted, At, Idle
  <2> QED
    BY <2>1, FS_EmptySet, Finite, UploadsAssumption DEF RateInv, Others
<1>3. Init => CopyInv
  <2> SUFFICES ASSUME Init, NEW f \in Files
               PROVE  Cardinality(Copies(f)) + Cardinality(Bringing(f)) <= 1 + Others
    BY DEF CopyInv
  <2>1. Copies(f) = {} /\ Bringing(f) = {}
    BY UploadsAssumption DEF Init, Copies, Bringing, At, Idle, NoDoc
  <2> QED
    BY <2>1, FS_EmptySet, Finite DEF Others
<1>4. Init => SizeInv
  <2> SUFFICES ASSUME Init PROVE SizeInv
    OBVIOUS
  <2>1. Seen = Courses /\ Sending = {}
    BY DEF Init, Seen, Sending, At, Idle, NoDoc
  <2>2. \A c \in Courses : Size[c] = 0
    BY DEF Init, Size, NoDoc
  <2>3. SumFunctionOnSet(Size, Courses) = 0
    BY <2>2, SumZero, UploadsAssumption
  <2>4. MaxFileBytes * Others \in Nat
    BY Finite, UploadsAssumption DEF Others
  <2> QED
    BY <2>1, <2>3, <2>4, SumEmpty, UploadsAssumption DEF SizeInv
<1>5. TypeOK /\ RateInv /\ CopyInv /\ SizeInv /\ [Next]_vars
      => (TypeOK /\ RateInv /\ CopyInv /\ SizeInv)'
  BY TypeStep, RateStep, CopyStep, SizeStep
<1> QED
  BY <1>1, <1>2, <1>3, <1>4, <1>5, PTL DEF Spec

\* Rows, documents and requests keep their types (assertUploadAllowed,
\* createUploadCourseInner, presignUploadInner).
THEOREM TypeCorrect == Spec => []TypeOK
BY Invariance, PTL

\* MAX_UPLOADS_PER_HOUR is exceeded by overlapping uploads only, one for each.
THEOREM Rate == Spec => []HourlyUploadsBounded
<1>1. RateInv => HourlyUploadsBounded
  <2>1. Recent \subseteq Courses /\ Admitted \subseteq Requests
    BY DEF Recent, Admitted
  <2>2. Cardinality(Recent) \in Nat /\ Cardinality(Admitted) \in Nat /\ Others \in Int
    BY <2>1, Finite DEF Others
  <2> QED
    BY <2>2, UploadsAssumption DEF RateInv, HourlyUploadsBounded
<1> QED
  BY <1>1, Invariance, PTL

\* MAX_USER_STORAGE_BYTES is exceeded by overlapping uploads only, by a file for
\* each, whatever the sizes of the files are.
THEOREM Storage == Spec => []StorageBounded
<1>1. TypeOK /\ SizeInv => StorageBounded
  <2> SUFFICES ASSUME TypeOK, SizeInv PROVE StorageBounded
    OBVIOUS
  <2> DEFINE limit == MaxUserBytes + MaxFileBytes * Others
  <2>1. /\ SumFunctionOnSet(Size, Seen) \in Nat /\ SumFunctionOnSet(Sent, Sending) \in Nat
        /\ limit \in Int
    BY Sizes
  <2>2. SumFunctionOnSet(Size, Seen) + SumFunctionOnSet(Sent, Sending) <= limit
    BY DEF SizeInv
  <2> HIDE DEF limit
  <2>3. SumFunctionOnSet(Size, Seen) <= limit
    BY <2>1, <2>2
  <2> QED
    BY <2>3 DEF StorageBounded, Seen, limit
<1> QED
  BY <1>1, Invariance, PTL

\* A file is stored once, and once more for each overlapping upload, at most.
THEOREM Duplicates == Spec => []DuplicatesBounded
<1>1. CopyInv => DuplicatesBounded
  <2> SUFFICES ASSUME CopyInv, NEW f \in Files PROVE Cardinality(Copies(f)) <= 1 + Others
    BY DEF DuplicatesBounded
  <2>1. Copies(f) \subseteq Courses /\ Bringing(f) \subseteq Requests
    BY DEF Copies, Bringing
  <2>2. Cardinality(Copies(f)) \in Nat /\ Cardinality(Bringing(f)) \in Nat /\ Others \in Int
    BY <2>1, Finite DEF Others
  <2> QED
    BY <2>2 DEF CopyInv
<1> QED
  BY <1>1, Invariance, PTL
=============================================================================
