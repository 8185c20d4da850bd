--------------------------- MODULE Concepts_proofs ---------------------------
(***************************************************************************)
(* Concepts for every number of subtopics, names, administrators, readers, *)
(* concepts and candidates.                                                *)
(***************************************************************************)
EXTENDS Concepts, TLAPS

\* A job that is creating a concept is the only one, or its name is marked.
Creating(s, n) == job[s].pc = "create" /\ job[s].name = n
NameInv ==
    /\ TwinsOnlyFromARace
    /\ \A s \in Subtopics : job[s].pc = "create" =>
          /\ job[s].name \in Names
          /\ \A c \in Concepts : name[c] = job[s].name => job[s].name \in raced
    /\ \A s, u \in Subtopics, n \in Names :
          Creating(s, n) /\ Creating(u, n) => s = u \/ n \in raced

\* A merge is about a candidate, and about two concepts.
Proposed(i) == cand[i].new \in Concepts /\ cand[i].old \in Concepts
MergeInv ==
    /\ \A i \in Candidates : cand[i] # NoCandidate => Proposed(i)
    /\ \A a \in Admins : admin[a].pc # "idle" =>
          /\ admin[a].cand \in Candidates
          /\ cand[admin[a].cand] # NoCandidate
          /\ admin[a].pc # "dismiss" => cand[admin[a].cand].new # cand[admin[a].cand].old

\* What a merge has read it keeps: the rows it writes are there and are no
\* other merge's, and the rows they become are nobody's.
Writes(a) == admin[a].move \cup admin[a].drop
Keyed(w) == w.kind # "attempt"
LockInv ==
    /\ \A a \in Admins : ~Merging(a) => Writes(a) = {}
    /\ \A a \in Admins : \A w \in Writes(a) :
          w \in refs /\ w.concept = cand[admin[a].cand].new
    /\ \A a \in Admins : \A w \in admin[a].move : Keyed(w) => Target(a, w) \notin refs
    /\ \A a, b \in Admins : \A w \in admin[a].move : \A v \in admin[b].move :
          a # b /\ Keyed(w) => Target(a, w) # Target(b, v)
    /\ \A a, b \in Admins : \A w \in Writes(a) : a # b => w \notin Writes(b)

\* What was told of a concept that is not merged away is what its row holds.
TextInv ==
    /\ \A r \in Readers : reader[r].pc # "idle" => reader[r].at \in Concepts
    /\ \A c \in Concepts, v \in Variants :
          Row("content", v, c) \in refs => text[c][v] \in 1..MaxEvents
    /\ \A x \in told : merged[x.concept] = 0 =>
          /\ Row("content", x.variant, x.concept) \in refs
          /\ text[x.concept][x.variant] = x.text

\* What a merge will drop has its counterpart at the survivor, or at a concept
\* that the survivor was merged into meanwhile, and not at the concept that it
\* merges away itself; or another merge has crossed it.
New(a) == cand[admin[a].cand].new
Old(a) == cand[admin[a].cand].old
KeptFor(a, w) == \E d \in Heirs[Old(a)] \ {New(a)} : [w EXCEPT !.concept = d] \in refs
Blocked(a) == \E m \in ever : New(a) \in m[3] /\ New(a) \in Heirs[m[2]] /\ m[1] \in Heirs[Old(a)]
LostInv == \A a \in Admins : \A w \in admin[a].drop :
    KeptFor(a, w) \/ LeadsIntoCrossed(Old(a)) \/ Blocked(a)

\* What a job has found has the name that it looked for.
FoundInv == \A s \in Subtopics, n \in Names :
    job[s].found[n] # 0 => name[job[s].found[n]] = n

IInv ==
    /\ TypeOK /\ NameInv /\ MergeInv /\ LockInv /\ TextInv
    /\ LostInv /\ FoundInv /\ SubtopicsTeachWhatTheyNamed

-----------------------------------------------------------------------------
(* Rows and records.                                                       *)

LEMMA Numbers == /\ Concepts \subseteq 0..MaxConcepts /\ 0 \notin Concepts
                 /\ \A c \in 0..MaxConcepts : c # 0 => c \in Concepts
                 /\ 0 \in Variants /\ Variants \subseteq 0..MaxEvents
BY ConceptsAssumption DEF Concepts, Variants

LEMMA RowFields ==
    \A k, x, c : /\ Row(k, x, c).kind = k /\ Row(k, x, c).key = x
                 /\ Row(k, x, c).concept = c
BY DEF Row

LEMMA RowType ==
    /\ \A k \in Kinds, c \in Concepts : \A x \in Keys(k) : Row(k, x, c) \in Rows
    /\ \A w \in Rows : /\ w.kind \in Kinds /\ w.key \in Keys(w.kind) /\ w.concept \in Concepts
                       /\ w = Row(w.kind, w.key, w.concept)
BY DEF Row, Rows, Keys, Kinds

\* The row that a merge makes of another is one of the surviving concept.
LEMMA TargetRow ==
    ASSUME NEW a, NEW w \in Rows
    PROVE  Target(a, w) = Row(w.kind, w.key, cand[admin[a].cand].old)
BY RowType DEF Target, Row, Rows

LEMMA AdminFields ==
    ASSUME NEW d \in Admin, NEW p \in Kinds \cup {"idle", "commit", "dismiss"},
           NEW move \in SUBSET Rows, NEW drop \in SUBSET Rows, NEW i \in Candidates
    PROVE  /\ [d EXCEPT !.pc = p, !.drop = drop, !.move = move] \in Admin
           /\ [d EXCEPT !.pc = p, !.cand = i] \in Admin
<1>1. [d EXCEPT !.pc = p] \in Admin
  BY DEF Admin
<1>2. [d EXCEPT !.pc = p, !.drop = drop] \in Admin
  BY <1>1 DEF Admin
<1>3. [d EXCEPT !.pc = p, !.cand = i] \in Admin
  BY <1>1 DEF Admin
<1> QED
  BY <1>2, <1>3 DEF Admin

LEMMA ReaderFields ==
    ASSUME NEW d \in Reader, NEW p \in {"idle", "walk", "look", "write", "winner"},
           NEW at \in 0..MaxConcepts, NEW next \in 0..MaxConcepts, NEW v \in Variants
    PROVE  /\ [d EXCEPT !.pc = p] \in Reader
           /\ [d EXCEPT !.pc = p, !.variant = v] \in Reader
           /\ [d EXCEPT !.at = at, !.next = next] \in Reader
           /\ [d EXCEPT !.pc = p, !.at = at, !.next = next] \in Reader
<1>1. [d EXCEPT !.pc = p] \in Reader /\ [d EXCEPT !.at = at] \in Reader
  BY DEF Reader
<1>2. [d EXCEPT !.pc = p, !.at = at] \in Reader
  BY <1>1 DEF Reader
<1>3. [d EXCEPT !.pc = p, !.variant = v] \in Reader
  BY <1>1 DEF Reader
<1>4. [d EXCEPT !.at = at, !.next = next] \in Reader
  BY <1>1 DEF Reader
<1> QED
  BY <1>1, <1>2, <1>3, <1>4 DEF Reader

LEMMA IdleTypes ==
    /\ IdleJob \in Job /\ IdleAdmin \in Admin /\ IdleReader \in Reader
    /\ NoCandidate \in Pair
BY ConceptsAssumption, Numbers DEF IdleJob, IdleAdmin, IdleReader, NoCandidate, Job, Admin,
   Reader, Pair

LEMMA JobFields ==
    ASSUME NEW d \in Job, NEW p \in {"new", "find", "create", "linked", "ready"},
           NEW n \in Names, NEW c \in 0..MaxConcepts
    PROVE  /\ [d EXCEPT !.pc = p] \in Job
           /\ [d EXCEPT !.pc = p, !.name = n] \in Job
           /\ [d EXCEPT !.found[n] = c] \in Job
           /\ [d EXCEPT !.pc = p, !.found[n] = c] \in Job
<1>1. [d EXCEPT !.pc = p] \in Job
  BY DEF Job
<1>2. [d EXCEPT !.pc = p, !.name = n] \in Job
  BY <1>1 DEF Job
<1>3. [d EXCEPT !.found[n] = c] \in Job
  BY DEF Job
<1>4. [d EXCEPT !.pc = p, !.found[n] = c] \in Job
  BY <1>1 DEF Job
<1> QED
  BY <1>1, <1>2, <1>3, <1>4

-----------------------------------------------------------------------------
(* Types.                                                                  *)

LEMMA EventType == ASSUME TypeOK, Event PROVE events' \in 0..MaxEvents
BY ConceptsAssumption DEF TypeOK, Event

LEMMA TypeJobs ==
    ASSUME TypeOK, NameInv, NEW s \in Subtopics,
           Wipe(s) \/ Find(s) \/ Create(s) \/ Link(s) \/ Ready(s)
    PROVE  TypeOK'
<1> USE DEF TypeOK
<1>1. job[s] \in Job /\ Wanted[s] \subseteq Names
  BY ConceptsAssumption
<1>2. CASE Wipe(s)
  <2>1. [IdleJob EXCEPT !.pc = "find"] \in Job
    BY IdleTypes DEF Job
  <2> QED
    BY <1>2, <2>1, ConceptsAssumption DEF Wipe, Reviews, Event
<1>3. CASE Find(s)
  <2>1. job' \in [Subtopics -> Job]
    <3>1. PICK n \in Wanted[s] :
            \/ \E c \in Concepts : job' = [job EXCEPT ![s].found[n] = c]
            \/ job' = [job EXCEPT ![s].pc = "create", ![s].name = n]
      BY <1>3 DEF Find
    <3>2. n \in Names
      BY <1>1
    <3>3. \A c \in Concepts : [job[s] EXCEPT !.found[n] = c] \in Job
      BY <1>1, <3>2, JobFields, Numbers
    <3>4. [job[s] EXCEPT !.pc = "create", !.name = n] \in Job
      BY <1>1, <3>2 DEF Job
    <3> QED
      BY <3>1, <3>3, <3>4
  <2>2. raced' \subseteq Names
    BY <1>1, <1>3 DEF Find
  <2> QED
    BY <1>3, <2>1, <2>2 DEF Find, Registry
<1>4. CASE Create(s)
  <2>1. PICK c \in Concepts :
          /\ name' = [name EXCEPT ![c] = job[s].name]
          /\ job' = [job EXCEPT ![s].pc = "find", ![s].found[job[s].name] = c]
    BY <1>4 DEF Create
  <2>2. job[s].name \in Names
    BY <1>4 DEF Create, NameInv
  <2>3. [job[s] EXCEPT !.pc = "find", !.found[job[s].name] = c] \in Job
    BY <1>1, <2>2, JobFields, Numbers
  <2>4. job' \in [Subtopics -> Job]
    BY <2>1, <2>3
  <2> QED
    BY <1>4, <2>1, <2>2, <2>4 DEF Create, Reviews
<1>5. CASE Link(s)
  <2>1. \A n \in Wanted[s] : job[s].found[n] \in Concepts
    BY <1>1, <1>5, Numbers DEF Link, Resolved, Job
  <2>2. \A n \in Wanted[s] : Row("link", s, job[s].found[n]) \in Rows
    BY <2>1, RowType DEF Kinds, Keys
  <2>3. [IdleJob EXCEPT !.pc = "linked"] \in Job
    BY IdleTypes DEF Job
  <2> QED
    BY <1>5, <2>2, <2>3 DEF Link, Insert, Reviews
<1>6. CASE Ready(s)
  <2>1. [job[s] EXCEPT !.pc = "ready"] \in Job
    BY <1>1 DEF Job
  <2> QED
    BY <1>6, <2>1 DEF Ready, Registry
<1> QED
  BY <1>2, <1>3, <1>4, <1>5, <1>6

LEMMA TypeReaders ==
    ASSUME TypeOK, TextInv, NEW r \in Readers,
           \/ \E c \in Concepts : Open(r, c)
           \/ Walk(r) \/ Count(r) \/ Look(r) \/ Write(r) \/ Winner(r) \/ Refuse(r)
    PROVE  TypeOK'
<1> USE DEF TypeOK
<1>1. /\ reader[r] \in Reader /\ reader[r].at \in 0..MaxConcepts
      /\ reader[r].next \in 0..MaxConcepts /\ reader[r].variant \in Variants
  BY DEF Reader
<1>2. \A next \in Reader : Read(r, next) => reader' \in [Readers -> Reader]
  BY DEF Read
<1>3. \A p \in {"idle", "walk", "look", "write", "winner"} : [reader[r] EXCEPT !.pc = p] \in Reader
  BY <1>1, ReaderFields, Numbers
<1>4. IdleReader \in Reader
  BY IdleTypes
<1>5. ASSUME NEW c \in Concepts, Open(r, c) PROVE TypeOK'
  <2>1. [IdleReader EXCEPT !.pc = "walk", !.at = c, !.next = merged[c]] \in Reader
    BY <1>4, Numbers, ReaderFields DEF Variants
  <2>2. reader' \in [Readers -> Reader]
    BY <1>2, <1>5, <2>1 DEF Open
  <2>3. events' \in 0..MaxEvents
    BY <1>5, EventType DEF Open
  <2> QED
    BY <1>5, <2>2, <2>3 DEF Open, ReaderOnly, Registry
<1>6. CASE Walk(r)
  <2>1. reader[r].next \in Concepts
    BY <1>1, <1>6, Numbers DEF Walk
  <2>2. [reader[r] EXCEPT !.at = reader[r].next, !.next = merged[reader[r].next]] \in Reader
    BY <1>1, <2>1, ReaderFields, Numbers
  <2> QED
    BY <1>2, <1>6, <2>2 DEF Walk, ReaderOnly, Registry
<1>7. CASE Count(r)
  <2>1. \A v \in Variants : [reader[r] EXCEPT !.pc = "look", !.variant = v] \in Reader
    BY <1>1, ReaderFields, Numbers
  <2> QED
    BY <1>2, <1>7, <2>1 DEF Count, ReaderOnly, Registry
\* Whoever is answered, is answered about the concept it walked to.
<1>8. ASSUME NEW t \in 1..MaxEvents, Answer(r, t), reader[r].pc # "idle"
      PROVE  /\ told' \subseteq [concept : Concepts, variant : Variants, text : 1..MaxEvents]
             /\ reader' \in [Readers -> Reader]
  <2>1. reader[r].at \in Concepts
    BY <1>8 DEF TextInv
  <2>2. [concept |-> reader[r].at, variant |-> reader[r].variant, text |-> t]
          \in [concept : Concepts, variant : Variants, text : 1..MaxEvents]
    BY <1>1, <2>1
  <2> QED
    BY <1>2, <1>4, <1>8, <2>2 DEF Answer
<1>9. ASSUME reader[r].pc # "idle", Held(r) PROVE Stored(r) \in 1..MaxEvents
  BY <1>1, <1>9 DEF Held, Stored, TextInv
<1>10. CASE Look(r)
  <2>1. reader[r].pc = "look"
    BY <1>10 DEF Look
  <2>2. CASE Held(r)
    BY <1>8, <1>9, <1>10, <2>1, <2>2 DEF Look, ReaderOnly, Registry
  <2>3. CASE ~Held(r)
    BY <1>2, <1>3, <1>10, <2>3 DEF Look, ReaderOnly, Registry
  <2> QED
    BY <2>2, <2>3
<1>11. CASE Winner(r)
  <2>1. reader[r].pc = "winner"
    BY <1>11 DEF Winner
  <2>2. CASE Held(r)
    BY <1>8, <1>9, <1>11, <2>1, <2>2 DEF Winner, ReaderOnly, Registry
  <2>3. CASE ~Held(r)
    BY <1>2, <1>4, <1>11, <2>3 DEF Winner, ReaderOnly, Registry
  <2> QED
    BY <2>2, <2>3
<1>12. CASE Write(r)
  <2>1. reader[r].pc = "write" /\ texts + 1 \in 1..MaxEvents /\ texts' = texts + 1
    BY <1>12, ConceptsAssumption DEF Write
  <2>2. reader[r].at \in Concepts
    BY <2>1 DEF TextInv
  <2>3. CASE Held(r)
    BY <1>2, <1>3, <1>12, <2>1, <2>3 DEF Write
  <2>4. CASE ~Held(r)
    <3>1. refs' \subseteq Rows
      <4>1. Row("content", reader[r].variant, reader[r].at) \in Rows
        BY <1>1, <2>2, RowType DEF Kinds, Keys
      <4> QED
        BY <1>12, <2>4, <4>1 DEF Write, Insert
    <3>2. text' \in [Concepts -> [Variants -> 0..MaxEvents]]
      <4>1. text' = [text EXCEPT ![reader[r].at][reader[r].variant] = texts + 1]
        BY <1>12, <2>4 DEF Write
      <4>2. texts + 1 \in 0..MaxEvents
        BY <2>1
      <4> QED
        BY <1>1, <2>2, <4>1, <4>2
    <3> QED
      BY <1>8, <1>12, <2>1, <2>4, <3>1, <3>2 DEF Write
  <2> QED
    BY <2>3, <2>4
<1>13. CASE Refuse(r)
  BY <1>2, <1>4, <1>13 DEF Refuse, ReaderOnly, Registry
<1> QED
  BY <1>5, <1>6, <1>7, <1>10, <1>11, <1>12, <1>13

\* The rows that a merge takes up, and what they become, are rows.
LEMMA MergeRows ==
    ASSUME TypeOK, MergeInv, NEW a \in Admins
    PROVE  /\ admin[a] \in Admin
           /\ admin[a].pc # "idle" =>
                 /\ admin[a].cand \in Candidates /\ Proposed(admin[a].cand)
                 /\ \A w \in Rows : Target(a, w) \in Rows
<1>1. ASSUME admin[a].pc # "idle"
      PROVE  admin[a].cand \in Candidates /\ Proposed(admin[a].cand)
  BY <1>1 DEF MergeInv
<1>2. ASSUME admin[a].pc # "idle", NEW w \in Rows PROVE Target(a, w) \in Rows
  BY <1>1, <1>2, TargetRow, RowType DEF Proposed
<1> QED
  BY <1>1, <1>2 DEF TypeOK

\* The texts after a merge: the survivor has those that were moved to it.
LEMMA CommitText ==
    ASSUME TypeOK, MergeInv, NEW a \in Admins, Commit(a)
    PROVE  /\ text' \in [Concepts -> [Variants -> 0..MaxEvents]]
           /\ \A c \in Concepts, v \in Variants :
                 text'[c][v] =
                   IF Row("content", v, c) \in {Target(a, w) : w \in admin[a].move}
                   THEN text[cand[admin[a].cand].new][v]
                   ELSE IF Row("content", v, c) \in admin[a].move \cup admin[a].drop
                   THEN 0 ELSE text[c][v]
<1> DEFINE new == cand[admin[a].cand].new
           made == {Target(a, w) : w \in admin[a].move}
           gone == admin[a].move \cup admin[a].drop
<1>1. admin[a].pc = "commit"
  BY DEF Commit
<1>2. new \in Concepts
  BY <1>1, MergeRows DEF Proposed
<1>3. \A v \in Variants : text[new][v] \in 0..MaxEvents
  BY <1>2 DEF TypeOK
<1>4. text' = [c \in Concepts |-> [v \in Variants |->
        IF Row("content", v, c) \in made THEN text[new][v]
        ELSE IF Row("content", v, c) \in gone THEN 0 ELSE text[c][v]]]
  BY DEF Commit
<1>5. 0 \in 0..MaxEvents
  BY ConceptsAssumption
<1>6. \A c \in Concepts, v \in Variants : text[c][v] \in 0..MaxEvents
  BY DEF TypeOK
<1> HIDE DEF made, gone, new
<1>7. text' \in [Concepts -> [Variants -> 0..MaxEvents]]
  BY <1>3, <1>4, <1>5, <1>6
<1>8. \A c \in Concepts, v \in Variants :
        text'[c][v] = IF Row("content", v, c) \in made THEN text[new][v]
                      ELSE IF Row("content", v, c) \in gone THEN 0 ELSE text[c][v]
  BY <1>4
<1> QED
  BY <1>7, <1>8 DEF made, gone, new

LEMMA TypeAdmins ==
    ASSUME TypeOK, MergeInv, NEW a \in Admins,
           \/ \E i \in Candidates : Merge(a, i) \/ Dismiss(a, i)
           \/ Reassign(a) \/ Commit(a) \/ Abort(a) \/ DismissWrite(a)
    PROVE  TypeOK'
<1> USE DEF TypeOK
<1>1. admin[a] \in Admin
  OBVIOUS
<1>2. ASSUME NEW i \in Candidates, Merge(a, i) \/ Dismiss(a, i) PROVE TypeOK'
  <2>1. \A p \in {"link", "dismiss"} : [IdleAdmin EXCEPT !.pc = p, !.cand = i] \in Admin
    BY IdleTypes, AdminFields DEF Kinds
  <2> QED
    BY <1>2, <2>1 DEF Merge, Dismiss, Registry
<1>3. CASE Reassign(a)
  <2> DEFINE k == admin[a].pc
             rows == Of(k, cand[admin[a].cand].new)
             drop == {w \in rows : Collides(a, w)}
  <2>1. k \in Kinds /\ Then(k) \in Kinds \cup {"commit"}
    BY <1>3 DEF Reassign, Then, Kinds
  <2>2. rows \subseteq Rows /\ drop \subseteq Rows
    BY DEF Of
  <2>3. admin[a].move \cup (rows \ drop) \in SUBSET Rows /\ admin[a].drop \cup drop \in SUBSET Rows
    BY <1>1, <2>2 DEF Admin
  <2>4. admin' = [admin EXCEPT ![a] = [admin[a] EXCEPT !.pc = Then(k),
             !.drop = admin[a].drop \cup drop, !.move = admin[a].move \cup (rows \ drop)]]
    BY <1>3 DEF Reassign
  <2> HIDE DEF rows, drop, k
  <2>5. admin' \in [Admins -> Admin]
    BY <1>1, <2>1, <2>3, <2>4, AdminFields, MergeRows DEF Admin
  <2> QED
    BY <1>3, <2>5 DEF Reassign, Registry
<1>4. CASE Commit(a)
  <2> DEFINE i == admin[a].cand
             made == {Target(a, w) : w \in admin[a].move}
  <2>1. admin[a].pc = "commit" /\ i \in Candidates /\ Proposed(i)
    BY <1>4, MergeRows DEF Commit
  <2>2. made \subseteq Rows
    <3>1. \A w \in admin[a].move : w \in Rows
      BY <1>1 DEF Admin
    <3>2. \A w \in Rows : Target(a, w) \in Rows
      BY <2>1, MergeRows
    <3> QED
      BY <3>1, <3>2
  <2>3. refs' \subseteq Rows
    BY <1>4, <2>2 DEF Commit
  <2>4. text' \in [Concepts -> [Variants -> 0..MaxEvents]]
    BY <1>4, <2>1, CommitText
  <2>5. merged' \in [Concepts -> 0..MaxConcepts]
    <3>1. merged' = [merged EXCEPT ![cand[i].new] = cand[i].old]
      BY <1>4 DEF Commit
    <3> QED
      BY <2>1, <3>1, Numbers DEF Proposed
  <2>6. ever' \subseteq Concepts \X Concepts \X SUBSET Concepts
    <3> DEFINE others == MergedBy({b \in Admins \ {a} : Merging(b)})
    <3>1. ever' = ever \cup {<<cand[i].new, cand[i].old, others>>}
      BY <1>4 DEF Commit
    <3>2. \A b \in Admins : Merging(b) => cand[admin[b].cand].new \in Concepts
      BY MergeRows DEF Merging, Proposed, Kinds
    <3>3. others \in SUBSET Concepts
      BY <3>2 DEF MergedBy
    <3>4. <<cand[i].new, cand[i].old, others>> \in Concepts \X Concepts \X SUBSET Concepts
      BY <2>1, <3>3 DEF Proposed
    <3> HIDE DEF others, i
    <3> QED
      BY <3>1, <3>4
  <2>7. cand' \in [Candidates -> Pair]
    <3>1. cand[i] \in Pair
      BY <2>1
    <3>2. [cand[i] EXCEPT !.status = "merged"] \in Pair
      BY <3>1 DEF Pair
    <3>3. cand' = [cand EXCEPT ![i].status = "merged"]
      BY <1>4 DEF Commit
    <3> QED
      BY <3>2, <3>3
  <2>8. /\ admin' = [admin EXCEPT ![a] = IdleAdmin]
        /\ UNCHANGED <<name, job, reader, told, texts, raced, events>>
    BY <1>4 DEF Commit
  <2> HIDE DEF i, made
  <2> QED
    BY <2>3, <2>4, <2>5, <2>6, <2>7, <2>8, IdleTypes
<1>5. CASE Abort(a)
  BY <1>5, EventType, IdleTypes DEF Abort, Registry
<1>6. CASE DismissWrite(a)
  <2>1. cand[admin[a].cand] \in Pair
    BY <1>6 DEF DismissWrite, MergeInv
  <2>2. [cand[admin[a].cand] EXCEPT !.status = "dismissed"] \in Pair
    BY <2>1 DEF Pair
  <2> QED
    BY <1>6, <2>2, IdleTypes DEF DismissWrite, Registry
<1> QED
  BY <1>2, <1>3, <1>4, <1>5, <1>6

LEMMA TypeStep ==
    ASSUME TypeOK, NameInv, MergeInv, TextInv, [Next]_vars PROVE TypeOK'
<1>1. ASSUME NEW c \in Concepts, Attempt(c) PROVE TypeOK'
  <2>1. \A k \in {"attempt", "score"} : Row(k, 0, c) \in Rows
    BY RowType DEF Kinds, Keys
  <2> QED
    BY <1>1, <2>1, EventType DEF Attempt, Insert, Reviews, TypeOK
<1>2. ASSUME NEW c \in Concepts, NEW d \in Concepts, Propose(c, d) PROVE TypeOK'
  <2>1. [new |-> c, old |-> d, status |-> "pending"] \in Pair
    BY Numbers DEF Pair
  <2> QED
    BY <1>2, <2>1, EventType DEF Propose, Registry, TypeOK
<1>3. CASE UNCHANGED vars
  BY <1>3 DEF vars, TypeOK
<1> QED
  BY <1>1, <1>2, <1>3, TypeJobs, TypeReaders, TypeAdmins DEF Next

-----------------------------------------------------------------------------
(* The names.                                                              *)

LEMMA NameElsewhere ==
    ASSUME NameInv, UNCHANGED <<name, raced>>,
           \A s \in Subtopics : job'[s].pc = "create" => job'[s] = job[s]
    PROVE  NameInv'
<1>1. \A s \in Subtopics : \A n : Creating(s, n)' => Creating(s, n)
  BY DEF Creating
<1> QED
  BY <1>1 DEF NameInv, TwinsOnlyFromARace, Exists

\* A job that finds no concept of a name meets whoever is creating one.
LEMMA FindStep ==
    ASSUME TypeOK, NameInv, NEW s \in Subtopics, Find(s) PROVE NameInv'
<1>1. PICK n \in Wanted[s] :
        /\ \/ \E c \in Concepts : job' = [job EXCEPT ![s].found[n] = c]
           \/ /\ \A c \in Concepts : name[c] # n
              /\ job' = [job EXCEPT ![s].pc = "create", ![s].name = n]
        /\ raced' = IF \E u \in Subtopics \ {s} : job[u].pc = "create" /\ job[u].name = n
                    THEN raced \cup {n} ELSE raced
  BY DEF Find
<1>2. n \in Names /\ name' = name /\ raced \subseteq raced' /\ job[s].pc = "find"
  BY <1>1, ConceptsAssumption DEF Find, Registry
<1>3. \A u \in Subtopics : u # s => job'[u] = job[u]
  BY <1>1 DEF TypeOK
<1>4. TwinsOnlyFromARace'
  BY <1>2 DEF NameInv, TwinsOnlyFromARace, Exists
<1>5. CASE \E c \in Concepts : job' = [job EXCEPT ![s].found[n] = c]
  <2>1. job'[s].pc = "find"
    BY <1>2, <1>5 DEF TypeOK, Job
  <2> QED
    BY <1>2, <1>3, <1>4, <2>1 DEF NameInv, Creating
<1>6. CASE /\ \A c \in Concepts : name[c] # n
           /\ job' = [job EXCEPT ![s].pc = "create", ![s].name = n]
  <2>1. job'[s].pc = "create" /\ job'[s].name = n
    BY <1>6 DEF TypeOK, Job
  <2>2. \A u \in Subtopics : u # s /\ job[u].pc = "create" /\ job[u].name = n => n \in raced'
    BY <1>1
  <2>3. \A u \in Subtopics : job'[u].pc = "create" =>
          /\ job'[u].name \in Names
          /\ \A c \in Concepts : name'[c] = job'[u].name => job'[u].name \in raced'
    BY <1>2, <1>3, <1>6, <2>1 DEF NameInv
  <2>4. \A u, v \in Subtopics, m \in Names :
          Creating(u, m)' /\ Creating(v, m)' => u = v \/ m \in raced'
    BY <1>2, <1>3, <2>1, <2>2 DEF NameInv, Creating
  <2> QED
    BY <1>4, <2>3, <2>4 DEF NameInv
<1> QED
  BY <1>1, <1>5, <1>6

LEMMA CreateStep ==
    ASSUME TypeOK, NameInv, NEW s \in Subtopics, Create(s) PROVE NameInv'
<1>1. PICK c \in Concepts :
        /\ Newest(c)
        /\ name' = [name EXCEPT ![c] = job[s].name]
        /\ job' = [job EXCEPT ![s].pc = "find", ![s].found[job[s].name] = c]
  BY DEF Create
<1>2. job[s].pc = "create" /\ job[s].name \in Names /\ raced' = raced
  BY DEF Create, NameInv
<1>3. /\ job'[s].pc = "find"
      /\ \A u \in Subtopics : u # s => job'[u] = job[u]
  BY <1>1 DEF TypeOK, Job
<1>4. /\ name'[c] = job[s].name
      /\ \A d \in Concepts : d # c => name'[d] = name[d]
  BY <1>1 DEF TypeOK
<1>5. \A d \in Concepts : d # c /\ name[d] = job[s].name => job[s].name \in raced
  BY <1>2 DEF NameInv
<1>6. TwinsOnlyFromARace'
  BY <1>2, <1>4, <1>5, ConceptsAssumption DEF NameInv, TwinsOnlyFromARace, Exists
<1>7. \A u \in Subtopics : job'[u].pc = "create" =>
        /\ job'[u].name \in Names
        /\ \A d \in Concepts : name'[d] = job'[u].name => job'[u].name \in raced'
  BY <1>2, <1>3, <1>4 DEF NameInv, Creating
<1>8. \A u, v \in Subtopics, n \in Names :
        Creating(u, n)' /\ Creating(v, n)' => u = v \/ n \in raced'
  BY <1>2, <1>3 DEF NameInv, Creating
<1> QED
  BY <1>6, <1>7, <1>8 DEF NameInv

LEMMA NameStep ==
    ASSUME TypeOK, NameInv, [Next]_vars PROVE NameInv'
<1>1. ASSUME NEW s \in Subtopics, Wipe(s) \/ Link(s) \/ Ready(s) PROVE NameInv'
  <2>1. UNCHANGED <<name, raced>>
    BY <1>1 DEF Wipe, Link, Ready, Registry
  <2>2. /\ job'[s].pc \in {"find", "linked", "ready"}
        /\ \A u \in Subtopics : u # s => job'[u] = job[u]
    BY <1>1, IdleTypes DEF Wipe, Link, Ready, TypeOK, Job
  <2> QED
    BY <2>1, <2>2, NameElsewhere
<1>2. ASSUME NEW s \in Subtopics, Find(s) \/ Create(s) PROVE NameInv'
  BY <1>2, FindStep, CreateStep
<1>3. ASSUME \/ \E c \in Concepts : Attempt(c)
             \/ \E c, d \in Concepts : Propose(c, d)
             \/ UNCHANGED vars
      PROVE  NameInv'
  BY <1>3, NameElsewhere DEF Attempt, Propose, Registry, vars
<1>4. ASSUME NEW a \in Admins,
             \/ \E i \in Candidates : Merge(a, i) \/ Dismiss(a, i)
             \/ Reassign(a) \/ Commit(a) \/ Abort(a) \/ DismissWrite(a)
      PROVE  NameInv'
  <2>1. UNCHANGED <<name, raced, job>>
    BY <1>4 DEF Merge, Dismiss, Reassign, Commit, Abort, DismissWrite, Registry
  <2> QED
    BY <2>1, NameElsewhere
<1>5. ASSUME NEW r \in Readers,
             \/ \E c \in Concepts : Open(r, c)
             \/ Walk(r) \/ Count(r) \/ Look(r) \/ Write(r) \/ Winner(r) \/ Refuse(r)
      PROVE  NameInv'
  <2>1. UNCHANGED <<name, raced, job>>
    BY <1>5 DEF Open, Walk, Count, Look, Write, Winner, Refuse, ReaderOnly, Registry
  <2> QED
    BY <2>1, NameElsewhere
<1> QED
  BY <1>1, <1>2, <1>3, <1>4, <1>5 DEF Next

-----------------------------------------------------------------------------
(* The merges.                                                             *)

\* What another merge is about does not change under it.
SamePair(i) ==
    /\ cand'[i].new = cand[i].new /\ cand'[i].old = cand[i].old
    /\ cand'[i] # NoCandidate

\* Only the pairs that are still empty, and the statuses, are written.
PairsKeep == \A i \in Candidates : cand[i] # NoCandidate => SamePair(i)

LEMMA PairStatus ==
    ASSUME TypeOK, MergeInv, NEW i \in Candidates, NEW st,
           cand[i] # NoCandidate, cand' = [cand EXCEPT ![i].status = st]
    PROVE  /\ PairsKeep
           /\ \A j \in Candidates : cand'[j] # NoCandidate => Proposed(j)'
<1>1. cand[i] \in Pair /\ Proposed(i)
  BY DEF TypeOK, MergeInv
<1>2. \A j \in Candidates : j # i => cand'[j] = cand[j]
  BY DEF TypeOK
<1>3. cand'[i].new = cand[i].new /\ cand'[i].old = cand[i].old
  BY <1>1 DEF TypeOK, Pair
<1>4. cand'[i] # NoCandidate
  BY <1>1, <1>3, Numbers DEF NoCandidate, Proposed
<1> QED
  BY <1>1, <1>2, <1>3, <1>4 DEF PairsKeep, SamePair, Proposed, MergeInv

LEMMA MergeElsewhere ==
    ASSUME MergeInv, merged' = merged, PairsKeep,
           \A i \in Candidates : cand'[i] # NoCandidate => Proposed(i)',
           \A a \in Admins : admin'[a].pc # "idle" =>
              \/ admin'[a] = admin[a]
              \/ /\ admin[a].pc \notin {"idle", "dismiss"}
                 /\ admin'[a].cand = admin[a].cand
    PROVE  MergeInv'
BY DEF MergeInv, PairsKeep, SamePair

LEMMA MergeStep ==
    ASSUME TypeOK, MergeInv, [Next]_vars PROVE MergeInv' /\ PairsKeep
<1>1. ASSUME UNCHANGED <<merged, cand, admin>> PROVE MergeInv' /\ PairsKeep
  BY <1>1 DEF MergeInv, Proposed, PairsKeep, SamePair
<1>2. ASSUME NEW s \in Subtopics, Wipe(s) \/ Find(s) \/ Create(s) \/ Link(s) \/ Ready(s)
      PROVE  UNCHANGED <<merged, cand, admin>>
  BY <1>2 DEF Wipe, Find, Create, Link, Ready, Registry
<1>3. ASSUME NEW r \in Readers,
             \/ \E c \in Concepts : Open(r, c)
             \/ Walk(r) \/ Count(r) \/ Look(r) \/ Write(r) \/ Winner(r) \/ Refuse(r)
      PROVE  UNCHANGED <<merged, cand, admin>>
  BY <1>3 DEF Open, Walk, Count, Look, Write, Winner, Refuse, ReaderOnly, Registry
<1>4. ASSUME NEW c \in Concepts, NEW d \in Concepts, Propose(c, d)
      PROVE  MergeInv' /\ PairsKeep
  <2>1. PICK i \in Candidates :
          /\ cand[i] = NoCandidate
          /\ cand' = [cand EXCEPT ![i] = [new |-> c, old |-> d, status |-> "pending"]]
    BY <1>4 DEF Propose
  <2>2. merged' = merged /\ admin' = admin
    BY <1>4 DEF Propose, Registry
  <2>3. Proposed(i)'
    BY <2>1, <2>2 DEF Proposed, TypeOK
  <2>4. \A j \in Candidates : j # i => cand'[j] = cand[j]
    BY <2>1 DEF TypeOK
  <2>5. PairsKeep
    BY <2>1, <2>4 DEF PairsKeep, SamePair
  <2>6. \A j \in Candidates : cand'[j] # NoCandidate => Proposed(j)'
    BY <2>3, <2>4 DEF Proposed, MergeInv
  <2> QED
    BY <2>2, <2>5, <2>6, MergeElsewhere
<1>5. ASSUME NEW a \in Admins, NEW i \in Candidates, Merge(a, i) \/ Dismiss(a, i)
      PROVE  MergeInv' /\ PairsKeep
  <2>1. /\ UNCHANGED <<merged, cand>> /\ cand[i] # NoCandidate
        /\ \A b \in Admins : b # a => admin'[b] = admin[b]
    BY <1>5 DEF Merge, Dismiss, Registry, NoCandidate, TypeOK
  <2>2. admin'[a].cand = i
    BY <1>5, IdleTypes DEF Merge, Dismiss, TypeOK, Admin
  <2>3. admin'[a].pc # "dismiss" => cand[i].new # cand[i].old
    BY <1>5, IdleTypes, ZenonT(60) DEF Merge, Dismiss, TypeOK, Admin
  <2> QED
    BY <2>1, <2>2, <2>3 DEF MergeInv, Proposed, PairsKeep, SamePair
<1>6. ASSUME NEW a \in Admins, Reassign(a) PROVE MergeInv' /\ PairsKeep
  <2>1. /\ UNCHANGED <<merged, cand>>
        /\ \A b \in Admins : b # a => admin'[b] = admin[b]
    BY <1>6 DEF Reassign, Registry, TypeOK
  <2>2. admin'[a].cand = admin[a].cand /\ admin[a].pc \notin {"idle", "dismiss"}
    BY <1>6 DEF Reassign, Kinds, TypeOK, Admin
  <2>3. PairsKeep /\ \A i \in Candidates : cand'[i] # NoCandidate => Proposed(i)'
    BY <2>1 DEF PairsKeep, SamePair, Proposed, MergeInv
  <2> QED
    BY <2>1, <2>2, <2>3, MergeElsewhere
<1>7. ASSUME NEW a \in Admins, Commit(a) PROVE MergeInv' /\ PairsKeep
  <2> DEFINE i == admin[a].cand
  <2>1. i \in Candidates /\ cand[i] # NoCandidate /\ cand[i].new # cand[i].old
    BY <1>7 DEF Commit, MergeInv
  <2>2. /\ merged' = [merged EXCEPT ![cand[i].new] = cand[i].old]
        /\ cand' = [cand EXCEPT ![i].status = "merged"]
        /\ admin' = [admin EXCEPT ![a] = IdleAdmin]
    BY <1>7 DEF Commit
  <2> HIDE DEF i
  <2>3. PairsKeep /\ \A j \in Candidates : cand'[j] # NoCandidate => Proposed(j)'
    BY <2>1, <2>2, PairStatus
  <2>4. \A b \in Admins : admin'[b].pc # "idle" => admin'[b] = admin[b]
    BY <2>2 DEF TypeOK, IdleAdmin
  <2> QED
    BY <2>3, <2>4 DEF MergeInv, PairsKeep, SamePair
<1>8. ASSUME NEW a \in Admins, Abort(a) PROVE MergeInv' /\ PairsKeep
  <2>1. /\ UNCHANGED <<merged, cand>>
        /\ \A b \in Admins : admin'[b].pc # "idle" => admin'[b] = admin[b]
    BY <1>8 DEF Abort, Registry, TypeOK, IdleAdmin
  <2>2. PairsKeep /\ \A i \in Candidates : cand'[i] # NoCandidate => Proposed(i)'
    BY <2>1 DEF PairsKeep, SamePair, Proposed, MergeInv
  <2> QED
    BY <2>1, <2>2, MergeElsewhere
<1>9. ASSUME NEW a \in Admins, DismissWrite(a) PROVE MergeInv' /\ PairsKeep
  <2>1. /\ merged' = merged /\ admin[a].cand \in Candidates
        /\ cand[admin[a].cand] # NoCandidate
        /\ cand' = [cand EXCEPT ![admin[a].cand].status = "dismissed"]
        /\ \A b \in Admins : admin'[b].pc # "idle" => admin'[b] = admin[b]
    BY <1>9 DEF DismissWrite, Registry, TypeOK, IdleAdmin, MergeInv
  <2>2. PairsKeep /\ \A i \in Candidates : cand'[i] # NoCandidate => Proposed(i)'
    BY <2>1, PairStatus
  <2> QED
    BY <2>1, <2>2, MergeElsewhere
<1>10. ASSUME (\E c \in Concepts : Attempt(c)) \/ UNCHANGED vars
       PROVE  UNCHANGED <<merged, cand, admin>>
  BY <1>10 DEF Attempt, vars
<1> QED
  BY <1>1, <1>2, <1>3, <1>4, <1>5, <1>6, <1>7, <1>8, <1>9, <1>10 DEF Next

-----------------------------------------------------------------------------
(* The rows that a merge has locked.                                       *)

LEMMA Becomes ==
    ASSUME NEW a \in Admins, NEW i, NEW w,
           admin'[a].cand = admin[a].cand, admin[a].cand = i, cand'[i].old = cand[i].old
    PROVE  Target(a, w)' = Target(a, w)
BY DEF Target

\* A step that starts or grows no merge keeps the locks if it takes no locked
\* row and inserts none that a merge is about to make.
LEMMA LockElsewhere ==
    ASSUME TypeOK, MergeInv, LockInv, PairsKeep,
           \A a \in Admins : admin'[a] = admin[a] \/ Writes(a)' = {},
           \A a \in Admins : admin'[a] = admin[a] =>
              /\ Writes(a) \subseteq refs'
              /\ \A w \in admin[a].move : Keyed(w) => Target(a, w) \notin refs'
    PROVE  LockInv'
<1>1. ASSUME NEW a \in Admins, Writes(a)' # {}
      PROVE  /\ admin'[a] = admin[a] /\ Writes(a)' = Writes(a)
             /\ Merging(a)' /\ Merging(a)
             /\ cand'[admin'[a].cand].new = cand[admin[a].cand].new
             /\ \A w : Target(a, w)' = Target(a, w)
  <2>1. admin'[a] = admin[a]
    BY <1>1
  <2>2. Writes(a)' = Writes(a) /\ Merging(a)' = Merging(a)
    BY <2>1 DEF Writes, Merging
  <2>3. Merging(a)
    BY <1>1, <2>2 DEF LockInv
  <2>4. SamePair(admin[a].cand)
    BY <2>3 DEF Merging, Kinds, MergeInv, PairsKeep
  <2> QED
    BY <2>1, <2>2, <2>3, <2>4, Becomes DEF SamePair
<1>2. \A a \in Admins : ~Merging(a)' => Writes(a)' = {}
  BY <1>1
<1>3. \A a \in Admins : \A w \in Writes(a)' :
        w \in refs' /\ w.concept = cand'[admin'[a].cand].new
  BY <1>1 DEF LockInv
<1>4. \A a \in Admins : \A w \in admin'[a].move : Keyed(w) => Target(a, w)' \notin refs'
  BY <1>1 DEF LockInv, Writes
<1>5. \A a, b \in Admins : \A w \in admin'[a].move : \A v \in admin'[b].move :
        a # b /\ Keyed(w) => Target(a, w)' # Target(b, v)'
  BY <1>1 DEF LockInv, Writes
<1>6. \A a, b \in Admins : \A w \in Writes(a)' : a # b => w \notin Writes(b)'
  BY <1>1 DEF LockInv
<1> QED
  BY <1>2, <1>3, <1>4, <1>5, <1>6 DEF LockInv, Keyed

\* What is inserted respects the keys that are reserved.
LEMMA LockInsert ==
    ASSUME TypeOK, MergeInv, LockInv, NEW rows, Insert(rows), UNCHANGED <<cand, admin>>
    PROVE  LockInv'
<1>1. PairsKeep
  BY DEF PairsKeep, SamePair
<1>2. ASSUME NEW a \in Admins, NEW w \in admin[a].move, Keyed(w), Target(a, w) \in rows
      PROVE  FALSE
  <2>1. Target(a, w).kind = w.kind
    <3>1. w \in Rows
      BY DEF TypeOK, Admin
    <3> QED
      BY <3>1, TargetRow, RowFields
  <2> QED
    BY <1>2, <2>1 DEF Insert, Reserved, Keyed
<1>3. \A a \in Admins : /\ Writes(a) \subseteq refs'
                        /\ \A w \in admin[a].move : Keyed(w) => Target(a, w) \notin refs'
  BY <1>2 DEF Insert, LockInv
<1> QED
  BY <1>1, <1>3, LockElsewhere

\* What a merge reads is locked by no other, and its targets are still free.
LEMMA ReassignStep ==
    ASSUME TypeOK, MergeInv, LockInv, NEW a \in Admins, Reassign(a) PROVE LockInv'
<1> DEFINE k == admin[a].pc
           new == cand[admin[a].cand].new
           rows == Of(k, new)
           drop == {w \in rows : Collides(a, w)}
<1>1. /\ k \in Kinds /\ UNCHANGED <<refs, cand>>
      /\ \A w \in rows : ~Locked(w)
      /\ \A w \in rows \ drop : Keyed(w) => ~Reserved(Target(a, w))
  BY DEF Reassign, Registry, Keyed
<1>2. rows \subseteq refs /\ \A w \in rows : w.concept = new
  BY DEF Of
<1>3. \A w \in rows \ drop : Keyed(w) => Target(a, w) \notin refs
  BY DEF Collides, Keyed
<1>4. admin' = [admin EXCEPT ![a].pc = Then(k), ![a].drop = @ \cup drop,
                             ![a].move = @ \cup (rows \ drop)]
  BY DEF Reassign
<1>5. /\ admin'[a].pc = Then(k) /\ admin'[a].cand = admin[a].cand
      /\ admin'[a].drop = admin[a].drop \cup drop
      /\ admin'[a].move = admin[a].move \cup (rows \ drop)
      /\ \A b \in Admins : b # a => admin'[b] = admin[b]
  <2> HIDE DEF rows, drop, k
  <2> QED
    BY <1>4 DEF TypeOK, Admin
<1>6. Then(k) \in Kinds \cup {"commit"}
  BY <1>1 DEF Then, Kinds
<1> HIDE DEF k, new, rows, drop
<1>7. \A b \in Admins : \A w : Target(b, w)' = Target(b, w)
  <2>1. \A b \in Admins : admin'[b].cand = admin[b].cand
    BY <1>5
  <2> QED
    BY <1>1, <2>1 DEF Target
<1>8. /\ \A w \in Writes(a)' : w \in Writes(a) \/ w \in rows
      /\ \A b \in Admins : b # a => Writes(b)' = Writes(b) /\ Merging(b)' = Merging(b)
      /\ Merging(a)'
  BY <1>5, <1>6 DEF Writes, drop, Merging
<1>9. \A b \in Admins : ~Merging(b)' => Writes(b)' = {}
  BY <1>8 DEF LockInv
<1>10. \A b \in Admins : \A w \in Writes(b)' :
         w \in refs' /\ w.concept = cand'[admin'[b].cand].new
  BY <1>1, <1>2, <1>5, <1>8 DEF LockInv, new
<1>11. \A b \in Admins : \A w \in admin'[b].move : Keyed(w) => Target(b, w) \notin refs'
  BY <1>1, <1>3, <1>5 DEF LockInv
<1>12. \A b, c \in Admins : \A w \in admin'[b].move : \A v \in admin'[c].move :
         b # c /\ Keyed(w) => Target(b, w) # Target(c, v)
  <2>1. ASSUME NEW b \in Admins, b # a, NEW v \in admin[b].move, NEW w \in rows \ drop, Keyed(w)
        PROVE  Target(a, w) # Target(b, v)
    BY <1>1, <2>1 DEF Reserved
  <2>2. ASSUME NEW b \in Admins, b # a, NEW v \in admin[b].move, NEW w \in rows \ drop, Keyed(v)
        PROVE  Target(b, v) # Target(a, w)
    <3>1. v \in Rows /\ w \in Rows
      BY <1>2 DEF TypeOK, Admin
    <3>2. Target(b, v).kind = v.kind /\ Target(a, w).kind = w.kind
      BY <3>1, TargetRow, RowFields
    <3> QED
      BY <2>1, <2>2, <3>2 DEF Keyed
  <2> QED
    BY <1>5, <2>1, <2>2 DEF LockInv
<1>13. \A b, c \in Admins : \A w \in Writes(b)' : b # c => w \notin Writes(c)'
  BY <1>1, <1>8 DEF LockInv, Locked, Writes
<1> QED
  BY <1>7, <1>9, <1>10, <1>11, <1>12, <1>13 DEF LockInv, Keyed

\* A merge that commits takes only its own rows and makes no row that another
\* has reserved.
LEMMA CommitLocks ==
    ASSUME TypeOK, MergeInv, LockInv, PairsKeep, NEW a \in Admins, Commit(a) PROVE LockInv'
<1> DEFINE made == {Target(a, w) : w \in admin[a].move}
<1>1. /\ refs' = (refs \ Writes(a)) \cup made
      /\ admin' = [admin EXCEPT ![a] = IdleAdmin]
  BY DEF Commit, Writes
<1>2. Writes(a)' = {} /\ \A b \in Admins : b # a => admin'[b] = admin[b]
  BY <1>1 DEF TypeOK, Writes, IdleAdmin
<1>3. ASSUME NEW b \in Admins, b # a, NEW v \in admin[b].move, Keyed(v)
      PROVE  Target(b, v) \notin made
  BY <1>3 DEF LockInv
<1>4. \A b \in Admins : b # a =>
         /\ Writes(b) \subseteq refs'
         /\ \A w \in admin[b].move : Keyed(w) => Target(b, w) \notin refs'
  BY <1>1, <1>3 DEF LockInv
<1>5. Writes(a) = {} => made = {}
  BY DEF Writes
<1>6. admin'[a] = admin[a] =>
         /\ Writes(a) \subseteq refs'
         /\ \A w \in admin[a].move : Keyed(w) => Target(a, w) \notin refs'
  BY <1>2 DEF Writes
<1> QED
  BY <1>2, <1>4, <1>6, LockElsewhere

LEMMA LockStep ==
    ASSUME TypeOK, MergeInv, LockInv, [Next]_vars PROVE LockInv'
<1>1. PairsKeep
  BY MergeStep
<1>2. ASSUME UNCHANGED <<refs, admin>> PROVE LockInv'
  BY <1>1, <1>2, LockElsewhere DEF LockInv
<1>3. ASSUME NEW s \in Subtopics, Find(s) \/ Create(s) \/ Ready(s) PROVE LockInv'
  BY <1>2, <1>3 DEF Find, Create, Ready, Registry
<1>4. ASSUME NEW s \in Subtopics, Wipe(s) PROVE LockInv'
  <2>1. /\ admin' = admin
        /\ \A w \in refs : w.kind = "link" /\ w.key = s => ~Locked(w)
        /\ refs' = {w \in refs : ~(w.kind = "link" /\ w.key = s)}
    BY <1>4 DEF Wipe
  <2>2. \A a \in Admins : Writes(a) \subseteq refs'
    BY <2>1 DEF Locked, Writes, LockInv
  <2> QED
    BY <1>1, <2>1, <2>2, LockElsewhere DEF LockInv
<1>5. ASSUME NEW s \in Subtopics, Link(s) PROVE LockInv'
  BY <1>5, LockInsert DEF Link
<1>6. ASSUME NEW c \in Concepts, Attempt(c) PROVE LockInv'
  BY <1>6, LockInsert DEF Attempt
<1>7. ASSUME \E c, d \in Concepts : Propose(c, d) PROVE LockInv'
  BY <1>2, <1>7 DEF Propose, Registry
<1>8. ASSUME NEW a \in Admins,
             \/ \E i \in Candidates : Merge(a, i) \/ Dismiss(a, i)
             \/ Abort(a) \/ DismissWrite(a)
      PROVE  LockInv'
  <2>1. refs' = refs /\ \A b \in Admins : b # a => admin'[b] = admin[b]
    BY <1>8 DEF Merge, Dismiss, Abort, DismissWrite, Registry, TypeOK
  <2>2. admin'[a].move = {} /\ admin'[a].drop = {}
    <3>1. ASSUME NEW i \in Candidates, Merge(a, i)
          PROVE  admin'[a].move = {} /\ admin'[a].drop = {}
      BY <3>1 DEF Merge, TypeOK, IdleAdmin
    <3>2. ASSUME NEW i \in Candidates, Dismiss(a, i)
          PROVE  admin'[a].move = {} /\ admin'[a].drop = {}
      BY <3>2 DEF Dismiss, TypeOK, IdleAdmin
    <3>3. CASE Abort(a)
      BY <3>3 DEF Abort, TypeOK, IdleAdmin
    <3>4. CASE DismissWrite(a)
      BY <3>4 DEF DismissWrite, TypeOK, IdleAdmin
    <3> QED
      BY <1>8, <3>1, <3>2, <3>3, <3>4
  <2>3. Writes(a)' = {}
    BY <2>2 DEF Writes
  <2> QED
    BY <1>1, <2>1, <2>3, LockElsewhere DEF LockInv
<1>9. ASSUME NEW a \in Admins, Reassign(a) \/ Commit(a) PROVE LockInv'
  BY <1>1, <1>9, ReassignStep, CommitLocks
<1>10. ASSUME NEW r \in Readers,
              \/ \E c \in Concepts : Open(r, c)
              \/ Walk(r) \/ Count(r) \/ Look(r) \/ Winner(r) \/ Refuse(r)
       PROVE  LockInv'
  BY <1>2, <1>10 DEF Open, Walk, Count, Look, Winner, Refuse, ReaderOnly, Registry
<1>11. ASSUME NEW r \in Readers, Write(r) PROVE LockInv'
  <2>1. CASE Held(r)
    BY <1>2, <1>11, <2>1 DEF Write
  <2>2. CASE ~Held(r)
    BY <1>11, <2>2, LockInsert DEF Write
  <2> QED
    BY <2>1, <2>2
<1>12. ASSUME UNCHANGED vars PROVE LockInv'
  BY <1>2, <1>12 DEF vars
<1> QED
  BY <1>3, <1>4, <1>5, <1>6, <1>7, <1>8, <1>9, <1>10, <1>11, <1>12 DEF Next

-----------------------------------------------------------------------------
(* The explanations.                                                       *)

TextRow(c, v) == Row("content", v, c)

LEMMA TextRows ==
    \A c, d, u, v : TextRow(c, u) = TextRow(d, v) => c = d /\ u = v
BY RowFields DEF TextRow

\* A step that leaves the explanations alone.
LEMMA TextElsewhere ==
    ASSUME TextInv, UNCHANGED <<merged, text, told, reader>>,
           \A c, v : TextRow(c, v) \in refs' <=> TextRow(c, v) \in refs
    PROVE  TextInv'
BY DEF TextInv, TextRow

\* A merge moves the explanations of a concept that it marks as merged, and
\* touches no other that was told of.
LEMMA CommitTexts ==
    ASSUME TypeOK, MergeInv, LockInv, TextInv, NEW a \in Admins, Commit(a) PROVE TextInv'
<1> DEFINE new == cand[admin[a].cand].new
           old == cand[admin[a].cand].old
           made == {Target(a, w) : w \in admin[a].move}
           gone == admin[a].move \cup admin[a].drop
<1>1. /\ refs' = (refs \ gone) \cup made
      /\ merged' = [merged EXCEPT ![new] = old]
      /\ UNCHANGED <<told, reader>>
  BY DEF Commit
<1>2. /\ new \in Concepts /\ old \in Concepts /\ old # 0
      /\ cand[admin[a].cand].old = old
  BY MergeRows, Numbers DEF Commit, Proposed
<1>3. \A c \in Concepts, v \in Variants :
        text'[c][v] = IF Row("content", v, c) \in made THEN text[new][v]
                      ELSE IF Row("content", v, c) \in gone THEN 0 ELSE text[c][v]
  BY CommitText
<1>4. \A w \in gone : w \in refs /\ w.concept = new
  BY DEF LockInv, Writes
<1>5. ASSUME NEW c \in Concepts, NEW v \in Variants, Row("content", v, c) \in made
      PROVE  Row("content", v, new) \in refs /\ Row("content", v, c) \notin refs
  <2>1. PICK w \in admin[a].move : Row("content", v, c) = Target(a, w)
    BY <1>5
  <2>2. w \in Rows /\ w \in gone
    BY DEF TypeOK, Admin
  <2>3. w.kind = "content" /\ w.key = v /\ w.concept = new
    <3>1. Row("content", v, c) = Row(w.kind, w.key, cand[admin[a].cand].old)
      BY <2>1, <2>2, TargetRow
    <3>2. w.kind = "content" /\ w.key = v
      BY <3>1, RowFields
    <3> QED
      BY <1>4, <2>2, <3>2
  <2>4. w = Row("content", v, new)
    BY <2>2, <2>3, RowType
  <2>5. Target(a, w) \notin refs
    BY <2>3 DEF LockInv, Keyed
  <2> QED
    BY <1>4, <2>1, <2>2, <2>4, <2>5
<1> HIDE DEF new, old, made, gone
<1>6. \A c \in Concepts, v \in Variants :
        Row("content", v, c) \in refs' => text'[c][v] \in 1..MaxEvents
  <2>1. SUFFICES ASSUME NEW c \in Concepts, NEW v \in Variants, Row("content", v, c) \in refs'
                 PROVE  text'[c][v] \in 1..MaxEvents
    OBVIOUS
  <2>2. CASE Row("content", v, c) \in made
    BY <1>2, <1>3, <1>5, <2>2 DEF TextInv
  <2>3. CASE Row("content", v, c) \notin made
    BY <1>1, <1>3, <2>1, <2>3 DEF TextInv
  <2> QED
    BY <2>2, <2>3
<1>7. ASSUME NEW x \in told, merged'[x.concept] = 0
      PROVE  /\ Row("content", x.variant, x.concept) \in refs'
             /\ text'[x.concept][x.variant] = x.text
  <2>1. x.concept \in Concepts /\ x.variant \in Variants
    BY DEF TypeOK
  <2>2. x.concept # new /\ merged[x.concept] = 0
    BY <1>1, <1>2, <1>7, <2>1 DEF TypeOK
  <2>3. /\ Row("content", x.variant, x.concept) \in refs
        /\ text[x.concept][x.variant] = x.text
    BY <2>2 DEF TextInv
  <2>4. Row("content", x.variant, x.concept) \notin gone
    BY <1>4, <2>2, RowFields
  <2>5. Row("content", x.variant, x.concept) \notin made
    BY <1>5, <2>1, <2>3
  <2> QED
    BY <1>1, <1>3, <2>1, <2>3, <2>4, <2>5
<1> QED
  BY <1>1, <1>6, <1>7 DEF TextInv

\* Whoever is answered with what the row holds.
LEMMA Answered ==
    ASSUME TypeOK, TextInv, NEW r \in Readers, reader[r].pc # "idle", Held(r),
           Answer(r, Stored(r)), UNCHANGED <<merged, refs, text>>
    PROVE  TextInv'
<1> DEFINE x == [concept |-> reader[r].at, variant |-> reader[r].variant, text |-> Stored(r)]
<1>1. told' = told \cup {x}
  BY DEF Answer
<1>2. Row("content", x.variant, x.concept) \in refs /\ text[x.concept][x.variant] = x.text
  BY DEF Held, Stored
<1>3. \A y \in told' : merged'[y.concept] = 0 =>
        /\ Row("content", y.variant, y.concept) \in refs'
        /\ text'[y.concept][y.variant] = y.text
  BY <1>1, <1>2 DEF TextInv
<1>4. \A q \in Readers : reader'[q].pc # "idle" => reader'[q].at \in Concepts
  BY DEF Answer, Read, IdleReader, TextInv, TypeOK
<1> QED
  BY <1>3, <1>4 DEF TextInv

LEMMA Waiting ==
    ASSUME TypeOK, TextInv, NEW r \in Readers, NEW next, Read(r, next),
           next.pc # "idle" => next.at \in Concepts,
           UNCHANGED <<merged, refs, text, told>>
    PROVE  TextInv'
<1>1. \A q \in Readers : reader'[q].pc # "idle" => reader'[q].at \in Concepts
  BY DEF Read, TextInv, TypeOK
<1> QED
  BY <1>1 DEF TextInv

\* A text that is created is the only one of its variant.
LEMMA Created ==
    ASSUME TypeOK, TextInv, NEW r \in Readers, Write(r), ~Held(r) PROVE TextInv'
<1> DEFINE c == reader[r].at
           v == reader[r].variant
           t == texts + 1
           x == [concept |-> c, variant |-> v, text |-> t]
<1>1. /\ reader[r].pc = "write" /\ merged' = merged
      /\ refs' = refs \cup {Row("content", v, c)}
      /\ text' = [text EXCEPT ![c][v] = t]
      /\ told' = told \cup {x} /\ Read(r, IdleReader)
  BY DEF Write, Insert, Answer
<1>2. t \in 1..MaxEvents
  BY ConceptsAssumption DEF Write, TypeOK
<1>3. c \in Concepts /\ v \in Variants
  BY <1>1 DEF TextInv, TypeOK, Reader
<1>4. Row("content", v, c) \notin refs
  BY DEF Held
<1>5. /\ x.concept = c /\ x.variant = v /\ x.text = t
      /\ \A y \in told : y.concept \in Concepts /\ y.variant \in Variants
  BY DEF TypeOK
<1> HIDE DEF c, v, t, x
<1>6. \A d \in Concepts, u \in Variants :
        text'[d][u] = IF d = c /\ u = v THEN t ELSE text[d][u]
  BY <1>1, <1>3 DEF TypeOK
<1>7. \A d \in Concepts, u \in Variants :
        Row("content", u, d) \in refs' => text'[d][u] \in 1..MaxEvents
  BY <1>1, <1>2, <1>6, RowFields DEF TextInv
<1>8. ASSUME NEW y \in told', merged'[y.concept] = 0
      PROVE  /\ Row("content", y.variant, y.concept) \in refs'
             /\ text'[y.concept][y.variant] = y.text
  <2>1. CASE y = x
    BY <1>1, <1>3, <1>5, <1>6, <2>1
  <2>2. CASE y # x
    <3>1. y \in told /\ Row("content", y.variant, y.concept) \in refs
             /\ text[y.concept][y.variant] = y.text
      BY <1>1, <1>8, <2>2 DEF TextInv
    <3>2. ~(y.concept = c /\ y.variant = v)
      BY <1>4, <3>1
    <3> QED
      BY <1>1, <1>5, <1>6, <3>1, <3>2
  <2> QED
    BY <2>1, <2>2
<1>9. \A q \in Readers : reader'[q].pc # "idle" => reader'[q].at \in Concepts
  BY <1>1 DEF Read, IdleReader, TextInv, TypeOK
<1> QED
  BY <1>7, <1>8, <1>9 DEF TextInv

LEMMA TextReaders ==
    ASSUME TypeOK, TextInv, NEW r \in Readers,
           \/ \E c \in Concepts : Open(r, c)
           \/ Walk(r) \/ Count(r) \/ Look(r) \/ Write(r) \/ Winner(r) \/ Refuse(r)
    PROVE  TextInv'
<1>1. /\ reader[r] \in Reader
      /\ reader[r].pc # "idle" => reader[r].at \in Concepts
  BY DEF TypeOK, TextInv
<1>2. \A p : [reader[r] EXCEPT !.pc = p].at = reader[r].at
  BY <1>1 DEF Reader
<1>3. IdleReader.pc = "idle"
  BY DEF IdleReader
<1>4. ASSUME NEW c \in Concepts, Open(r, c) PROVE TextInv'
  <2>1. [IdleReader EXCEPT !.pc = "walk", !.at = c, !.next = merged[c]].at = c
    BY DEF IdleReader
  <2> QED
    BY <1>4, <2>1, Waiting DEF Open, ReaderOnly, Registry
<1>5. CASE Walk(r)
  <2>1. reader[r].next \in Concepts
    BY <1>1, <1>5, Numbers DEF Walk, Reader
  <2>2. [reader[r] EXCEPT !.at = reader[r].next, !.next = merged[reader[r].next]].at
           = reader[r].next
    BY <1>1 DEF Reader
  <2> QED
    BY <1>5, <2>1, <2>2, Waiting DEF Walk, ReaderOnly, Registry
<1>6. CASE Count(r)
  <2>1. \A u : [reader[r] EXCEPT !.pc = "look", !.variant = u].at = reader[r].at
    BY <1>1 DEF Reader
  <2>2. reader[r].pc = "walk"
    BY <1>6 DEF Count
  <2>3. \E u : Read(r, [reader[r] EXCEPT !.pc = "look", !.variant = u])
    BY <1>6 DEF Count
  <2>4. UNCHANGED <<merged, refs, text, told>>
    BY <1>6 DEF Count, ReaderOnly, Registry
  <2> QED
    BY <1>1, <2>1, <2>2, <2>3, <2>4, Waiting
<1>7. CASE Look(r)
  <2>1. reader[r].pc = "look" /\ UNCHANGED <<merged, refs, text>>
    BY <1>7 DEF Look, ReaderOnly, Registry
  <2>2. CASE Held(r)
    BY <1>7, <2>1, <2>2, Answered DEF Look
  <2>3. CASE ~Held(r)
    BY <1>1, <1>2, <1>7, <2>1, <2>3, Waiting DEF Look
  <2> QED
    BY <2>2, <2>3
<1>8. CASE Write(r)
  <2>1. CASE Held(r)
    BY <1>1, <1>2, <1>8, <2>1, Waiting DEF Write
  <2> QED
    BY <1>8, <2>1, Created
<1>9. CASE Winner(r)
  <2>1. reader[r].pc = "winner" /\ UNCHANGED <<merged, refs, text>>
    BY <1>9 DEF Winner, ReaderOnly, Registry
  <2>2. CASE Held(r)
    BY <1>9, <2>1, <2>2, Answered DEF Winner
  <2>3. CASE ~Held(r)
    BY <1>3, <1>9, <2>1, <2>3, Waiting DEF Winner
  <2> QED
    BY <2>2, <2>3
<1>10. CASE Refuse(r)
  BY <1>3, <1>10, Waiting DEF Refuse, ReaderOnly, Registry
<1> QED
  BY <1>4, <1>5, <1>6, <1>7, <1>8, <1>9, <1>10

LEMMA TextStep ==
    ASSUME TypeOK, MergeInv, LockInv, TextInv, [Next]_vars PROVE TextInv'
<1>1. ASSUME NEW s \in Subtopics, Find(s) \/ Create(s) \/ Ready(s) PROVE TextInv'
  BY <1>1, TextElsewhere DEF Find, Create, Ready, Registry, Reviews, ReaderOnly
<1>2. ASSUME NEW s \in Subtopics, Wipe(s) PROVE TextInv'
  <2>1. \A c, v : TextRow(c, v) \in refs' <=> TextRow(c, v) \in refs
    BY <1>2, RowFields DEF Wipe, TextRow
  <2> QED
    BY <1>2, <2>1, TextElsewhere DEF Wipe, Reviews
<1>3. ASSUME NEW s \in Subtopics, Link(s) PROVE TextInv'
  <2>1. \A c, v : TextRow(c, v) \in refs' <=> TextRow(c, v) \in refs
    BY <1>3, RowFields DEF Link, Insert, TextRow
  <2> QED
    BY <1>3, <2>1, TextElsewhere DEF Link, Reviews
<1>4. ASSUME NEW c \in Concepts, Attempt(c) PROVE TextInv'
  <2>1. \A d, v : TextRow(d, v) \in refs' <=> TextRow(d, v) \in refs
    BY <1>4, RowFields DEF Attempt, Insert, TextRow
  <2> QED
    BY <1>4, <2>1, TextElsewhere DEF Attempt, Reviews
<1>5. ASSUME (\E c, d \in Concepts : Propose(c, d)) \/ UNCHANGED vars PROVE TextInv'
  BY <1>5, TextElsewhere DEF Propose, Registry, vars
<1>6. ASSUME NEW a \in Admins,
             \/ \E i \in Candidates : Merge(a, i) \/ Dismiss(a, i)
             \/ Reassign(a) \/ Abort(a) \/ DismissWrite(a)
      PROVE  TextInv'
  <2>1. UNCHANGED <<merged, text, told, reader, refs>>
    BY <1>6 DEF Merge, Dismiss, Reassign, Abort, DismissWrite, Registry
  <2> QED
    BY <2>1, TextElsewhere
<1>7. ASSUME NEW a \in Admins, Commit(a) PROVE TextInv'
  BY <1>7, CommitTexts
<1> QED
  BY <1>1, <1>2, <1>3, <1>4, <1>5, <1>6, <1>7, TextReaders DEF Next

-----------------------------------------------------------------------------
(* The heirs of a concept.                                                 *)

\* A concept is its own heir, and inherits those of what an heir was merged into.
LEMMA HeirsFirst ==
    ASSUME NEW merges, NEW c \in Concepts
    PROVE  /\ c \in Reach(merges, c) /\ Reach(merges, c) \subseteq Concepts
           /\ \A m \in merges : m[1] \in Reach(merges, c) /\ m[2] \in Concepts
                 => m[2] \in Reach(merges, c)
BY DEF Reach

\* More merges, more heirs.
LEMMA HeirsGrow ==
    ASSUME NEW merges, NEW more, merges \subseteq more, NEW c \in Concepts
    PROVE  Reach(merges, c) \subseteq Reach(more, c)
<1> SUFFICES ASSUME NEW d \in Reach(merges, c), NEW S \in SUBSET Concepts,
                    c \in S, \A m \in more : m[1] \in S => m[2] \in S
             PROVE  d \in S
  BY DEF Reach
<1>1. \A m \in merges : m[1] \in S => m[2] \in S
  OBVIOUS
<1> QED
  BY <1>1 DEF Reach

\* The heir of an heir is one.
LEMMA HeirsChain ==
    ASSUME NEW merges, NEW c \in Concepts, NEW d \in Reach(merges, c)
    PROVE  Reach(merges, d) \subseteq Reach(merges, c)
<1> SUFFICES ASSUME NEW e \in Reach(merges, d), NEW S \in SUBSET Concepts,
                    c \in S, \A m \in merges : m[1] \in S => m[2] \in S
             PROVE  e \in S
  BY DEF Reach
<1>1. d \in S
  BY DEF Reach
<1> QED
  BY <1>1 DEF Reach

\* What heirs lead to when the merges have grown.
LEMMA Inherited ==
    ASSUME ever \subseteq ever', NEW c \in Concepts
    PROVE  /\ Heirs[c] \subseteq Heirs'[c] /\ Heirs'[c] \subseteq Concepts
           /\ c \in Heirs'[c]
           /\ \A d \in Heirs'[c] : Heirs'[d] \subseteq Heirs'[c]
<1>1. \A d \in Concepts : Heirs[d] = Reach(ever, d) /\ Heirs'[d] = Reach(ever', d)
  BY DEF Heirs
<1>2. Reach(ever', c) \subseteq Concepts
  BY HeirsFirst
<1>3. \A d \in Reach(ever', c) : Reach(ever', d) \subseteq Reach(ever', c)
  BY HeirsChain
<1> QED
  BY <1>1, <1>2, <1>3, HeirsFirst, HeirsGrow

\* Merges that have crossed stay so, and whoever leads to them stays so too.
LEMMA CrossedGrow ==
    ASSUME TypeOK, ever \subseteq ever', NEW c \in Concepts, NEW d \in Heirs'[c],
           LeadsIntoCrossed(d) \/ LeadsIntoCrossed(d)'
    PROVE  LeadsIntoCrossed(c)'
<1>1. /\ Heirs'[d] \subseteq Heirs'[c]
      /\ \A x \in Concepts : Heirs[x] \subseteq Heirs'[x]
      /\ d \in Concepts
  BY Inherited
<1>2. Crossed \subseteq Crossed'
  <2>1. \A m \in ever : m[2] \in Concepts
    BY DEF TypeOK
  <2> QED
    BY <1>1, <2>1 DEF Crossed
<1>3. PICK x : x \in Heirs'[d] /\ x \in Crossed'
  BY <1>1, <1>2 DEF LeadsIntoCrossed
<1> QED
  BY <1>1, <1>3 DEF LeadsIntoCrossed

-----------------------------------------------------------------------------
(* What becomes of a row.                                                  *)

\* A row with another concept in it.
LEMMA RowMoved ==
    ASSUME NEW w \in Rows, NEW d
    PROVE  /\ [w EXCEPT !.concept = d] = Row(w.kind, w.key, d)
           /\ [w EXCEPT !.concept = w.concept] = w
           /\ \A e : [[w EXCEPT !.concept = d] EXCEPT !.concept = e] = [w EXCEPT !.concept = e]
           /\ d \in Concepts => [w EXCEPT !.concept = d] \in Rows
<1>1. w = Row(w.kind, w.key, w.concept) /\ w.kind \in Kinds /\ w.key \in Keys(w.kind)
  BY RowType
<1>2. \A k, x, c, e : [Row(k, x, c) EXCEPT !.concept = e] = Row(k, x, e)
  BY DEF Row
<1>3. \A e : [w EXCEPT !.concept = e] = Row(w.kind, w.key, e)
  BY <1>1, <1>2
<1>4. \A e : [Row(w.kind, w.key, d) EXCEPT !.concept = e] = Row(w.kind, w.key, e)
  BY <1>2
<1>5. d \in Concepts => Row(w.kind, w.key, d) \in Rows
  BY <1>1, RowType
<1> QED
  BY <1>1, <1>3, <1>4, <1>5

\* A row that a merge takes away has a counterpart at an heir of the survivor,
\* and others who were merging meanwhile have been told.
HandedOn(w) == \E m \in ever' :
    /\ m[1] = w.concept /\ m[2] \in Concepts
    /\ \A b \in Admins : Merging(b) /\ admin'[b].drop # {} => New(b) \in m[3]
    /\ \E e \in Heirs'[m[2]] : [w EXCEPT !.concept = e] \in refs'

\* So does every row of a merge that commits: what it drops has its counterpart,
\* which it does not take itself, or two merges have crossed.
LEMMA CommitKeeps ==
    ASSUME TypeOK, MergeInv, LockInv, LostInv, NEW a \in Admins, Commit(a), NEW w \in refs
    PROVE  w \in refs' \/ HandedOn(w) \/ LeadsIntoCrossed(w.concept)'
<1> DEFINE new == cand[admin[a].cand].new
           old == cand[admin[a].cand].old
           made == {Target(a, v) : v \in admin[a].move}
           m == <<new, old, MergedBy({b \in Admins \ {a} : Merging(b)})>>
<1>1. refs' = (refs \ Writes(a)) \cup made /\ ever' = ever \cup {m}
  BY DEF Commit, Writes
<1>2. new \in Concepts /\ old \in Concepts
  BY MergeRows DEF Commit, Proposed
<1>3. w \in Rows
  BY DEF TypeOK
<1>4. \A v \in Writes(a) : v.concept = new
  BY DEF LockInv
<1>5. ever \subseteq ever' /\ m \in ever'
  BY <1>1
<1>6. \A b \in Admins : Merging(b) /\ admin'[b].drop # {} => New(b) \in m[3]
  <2>1. admin'[a].drop = {}
    BY DEF Commit, TypeOK, IdleAdmin
  <2> QED
    BY <2>1 DEF MergedBy, New
<1>7. m[1] = new /\ m[2] = old
  OBVIOUS
<1>8. New(a) = new /\ Old(a) = old
  BY DEF New, Old
<1> HIDE DEF new, old, made, m
<1>9. ASSUME w \in Writes(a), NEW e \in Heirs'[old], [w EXCEPT !.concept = e] \in refs'
      PROVE  HandedOn(w)
  BY <1>2, <1>4, <1>5, <1>6, <1>7, <1>9 DEF HandedOn
<1>10. CASE w \in admin[a].move
  <2>1. [w EXCEPT !.concept = old] \in refs'
    BY <1>1, <1>10 DEF made, Target, old
  <2>2. old \in Heirs'[old]
    BY <1>2, <1>5, Inherited
  <2> QED
    BY <1>9, <1>10, <2>1, <2>2 DEF Writes
<1>11. CASE w \in admin[a].drop
  <2>1. w.concept = new /\ w \in Writes(a)
    BY <1>4, <1>11 DEF Writes
  <2>2. old \in Heirs'[new] /\ new \in Heirs'[new]
    <3>1. new \in Heirs'[new]
      BY <1>2, <1>5, Inherited
    <3>2. Heirs'[new] = Reach(ever', new)
      BY <1>2 DEF Heirs
    <3> QED
      BY <1>2, <1>5, <1>7, <3>1, <3>2, HeirsFirst
  <2>3. CASE KeptFor(a, w)
    <3>1. PICK e \in Heirs[old] : e # new /\ [w EXCEPT !.concept = e] \in refs
      BY <1>8, <2>3 DEF KeptFor
    <3>2. [w EXCEPT !.concept = e] \notin Writes(a)
      <4>1. [w EXCEPT !.concept = e] = Row(w.kind, w.key, e)
        BY <1>3, RowMoved
      <4>2. Row(w.kind, w.key, e).concept = e
        BY RowFields
      <4> QED
        BY <1>4, <3>1, <4>1, <4>2
    <3>3. [w EXCEPT !.concept = e] \in refs'
      BY <1>1, <3>1, <3>2
    <3>4. e \in Heirs'[old]
      BY <1>2, <1>5, <3>1, Inherited
    <3> QED
      BY <1>9, <2>1, <3>3, <3>4
  <2>4. CASE LeadsIntoCrossed(old)
    BY <1>2, <1>5, <2>1, <2>2, <2>4, CrossedGrow
  <2>5. CASE Blocked(a)
    <3>1. PICK x \in ever : new \in x[3] /\ new \in Heirs[x[2]] /\ x[1] \in Heirs[old]
      BY <1>8, <2>5 DEF Blocked
    <3>2. x[2] \in Concepts /\ x \in ever'
      BY <1>5, <3>1 DEF TypeOK
    <3>3. new \in Heirs'[x[2]]
      BY <1>5, <3>1, <3>2, Inherited
    <3>4. x[1] \in Heirs'[new]
      BY <1>2, <1>5, <2>2, <3>1, Inherited
    <3>5. new \in Crossed'
      BY <1>2, <3>1, <3>2, <3>3, <3>4 DEF Crossed
    <3> QED
      BY <2>1, <2>2, <3>5 DEF LeadsIntoCrossed
  <2> QED
    BY <1>8, <1>11, <2>3, <2>4, <2>5 DEF LostInv
<1>12. CASE w \notin Writes(a)
  BY <1>1, <1>12
<1> QED
  BY <1>10, <1>11, <1>12 DEF Writes

\* A row goes with its subtopic's wipe, which waits for every merge that has
\* read a link of the subtopic; else it stays, or is handed on.
Wiped(w) ==
    /\ w.kind = "link" /\ job'[w.key].pc = "find"
    /\ \A a \in Admins : \A v \in Writes(a) : ~(v.kind = "link" /\ v.key = w.key)

LEMMA RowsStep ==
    ASSUME TypeOK, MergeInv, LockInv, LostInv, [Next]_vars
    PROVE  /\ ever \subseteq ever'
           /\ \A w \in refs :
                 Wiped(w) \/ w \in refs' \/ HandedOn(w) \/ LeadsIntoCrossed(w.concept)'
<1>2. CASE \E a \in Admins : Commit(a)
  <2>1. ever \subseteq ever'
    BY <1>2 DEF Commit
  <2> QED
    BY <1>2, <2>1, CommitKeeps
<1>3. ASSUME NEW s \in Subtopics, Wipe(s)
      PROVE  /\ ever \subseteq ever'
             /\ \A w \in refs : Wiped(w) \/ w \in refs'
  <2>1. /\ ever' = ever
        /\ \A w \in refs : w.kind = "link" /\ w.key = s => ~Locked(w)
        /\ refs' = {w \in refs : ~(w.kind = "link" /\ w.key = s)}
    BY <1>3 DEF Wipe
  <2>2. job'[s].pc = "find"
    BY <1>3, IdleTypes DEF Wipe, TypeOK, Job
  <2>3. \A a \in Admins : \A v \in Writes(a) : ~(v.kind = "link" /\ v.key = s)
    BY <2>1 DEF Locked, Writes, LockInv
  <2> QED
    BY <2>1, <2>2, <2>3 DEF Wiped
<1>4. ASSUME ever' = ever, refs \subseteq refs'
      PROVE  /\ ever \subseteq ever'
             /\ \A w \in refs : w \in refs'
  BY <1>4
<1>5. ASSUME NEW s \in Subtopics, Find(s) \/ Create(s) \/ Link(s) \/ Ready(s)
      PROVE  ever' = ever /\ refs \subseteq refs'
  BY <1>5 DEF Find, Create, Link, Ready, Registry, Insert
<1>6. ASSUME NEW a \in Admins,
             \/ \E i \in Candidates : Merge(a, i) \/ Dismiss(a, i)
             \/ Reassign(a) \/ Abort(a) \/ DismissWrite(a)
      PROVE  ever' = ever /\ refs \subseteq refs'
  BY <1>6 DEF Merge, Dismiss, Reassign, Abort, DismissWrite, Registry
<1>7. ASSUME NEW r \in Readers,
             \/ \E c \in Concepts : Open(r, c)
             \/ Walk(r) \/ Count(r) \/ Look(r) \/ Write(r) \/ Winner(r) \/ Refuse(r)
      PROVE  ever' = ever /\ refs \subseteq refs'
  BY <1>7 DEF Open, Walk, Count, Look, Write, Winner, Refuse, ReaderOnly, Registry, Insert
<1>8. ASSUME \/ \E c \in Concepts : Attempt(c)
             \/ \E c, d \in Concepts : Propose(c, d)
             \/ UNCHANGED vars
      PROVE  ever' = ever /\ refs \subseteq refs'
  BY <1>8 DEF Attempt, Propose, Registry, Insert, vars
<1> QED
  BY <1>2, <1>3, <1>4, <1>5, <1>6, <1>7, <1>8 DEF Next

\* So there is a row of it at an heir, or crossed merges are behind it.
Passed(w) ==
    \/ \E e \in Heirs'[w.concept] : [w EXCEPT !.concept = e] \in refs'
    \/ LeadsIntoCrossed(w.concept)'

LEMMA RowsPassed ==
    ASSUME TypeOK, MergeInv, LockInv, LostInv, [Next]_vars, NEW w \in refs
    PROVE  Wiped(w) \/ Passed(w)
<1>1. w.concept \in Concepts /\ [w EXCEPT !.concept = w.concept] = w
  BY RowType, RowMoved DEF TypeOK
<1>2. ever \subseteq ever'
  BY RowsStep
<1>3. w.concept \in Heirs'[w.concept]
  BY <1>1, <1>2, Inherited
<1>4. ASSUME HandedOn(w) PROVE Passed(w)
  <2>1. PICK m \in ever' : /\ m[1] = w.concept /\ m[2] \in Concepts
                           /\ \E e \in Heirs'[m[2]] : [w EXCEPT !.concept = e] \in refs'
    BY <1>4 DEF HandedOn
  <2>2. m[2] \in Heirs'[w.concept]
    <3>1. Heirs'[w.concept] = Reach(ever', w.concept)
      BY <1>1 DEF Heirs
    <3> QED
      BY <1>1, <1>3, <2>1, <3>1, HeirsFirst
  <2>3. Heirs'[m[2]] \subseteq Heirs'[w.concept]
    BY <1>1, <1>2, <2>2, Inherited
  <2> QED
    BY <2>1, <2>3 DEF Passed
<1> QED
  BY <1>1, <1>3, <1>4, RowsStep DEF Passed

\* What a merge will drop was so before, or it has just met the counterpart.
LEMMA DropStep ==
    ASSUME TypeOK, [Next]_vars, NEW a \in Admins, NEW w \in admin'[a].drop
    PROVE  \/ w \in admin[a].drop /\ admin'[a].cand = admin[a].cand
           \/ /\ UNCHANGED <<refs, cand>> /\ admin'[a].cand = admin[a].cand
              /\ Target(a, w) \in refs /\ Merging(a)
<1>1. ASSUME admin'[a] = admin[a]
      PROVE  w \in admin[a].drop /\ admin'[a].cand = admin[a].cand
  BY <1>1
<1>2. ASSUME NEW s \in Subtopics, Wipe(s) \/ Find(s) \/ Create(s) \/ Link(s) \/ Ready(s)
      PROVE  admin' = admin
  BY <1>2 DEF Wipe, Find, Create, Link, Ready
<1>3. ASSUME NEW r \in Readers,
             \/ \E c \in Concepts : Open(r, c)
             \/ Walk(r) \/ Count(r) \/ Look(r) \/ Write(r) \/ Winner(r) \/ Refuse(r)
      PROVE  admin' = admin
  BY <1>3 DEF Open, Walk, Count, Look, Write, Winner, Refuse, ReaderOnly
<1>4. ASSUME \/ \E c \in Concepts : Attempt(c)
             \/ \E c, d \in Concepts : Propose(c, d)
             \/ UNCHANGED vars
      PROVE  admin' = admin
  BY <1>4 DEF Attempt, Propose, vars
<1>5. ASSUME NEW b \in Admins,
             \/ \E i \in Candidates : Merge(b, i) \/ Dismiss(b, i)
             \/ Commit(b) \/ Abort(b) \/ DismissWrite(b)
      PROVE  admin'[a] = admin[a]
  <2>1. admin'[b].drop = {}
    <3>1. \A i \in Candidates : Merge(b, i) => admin'[b].drop = {}
      BY DEF Merge, TypeOK, IdleAdmin
    <3>2. \A i \in Candidates : Dismiss(b, i) => admin'[b].drop = {}
      BY DEF Dismiss, TypeOK, IdleAdmin
    <3>3. Commit(b) \/ Abort(b) \/ DismissWrite(b) => admin'[b].drop = {}
      BY DEF Commit, Abort, DismissWrite, TypeOK, IdleAdmin
    <3> QED
      BY <1>5, <3>1, <3>2, <3>3
  <2>2. \A c \in Admins : c # b => admin'[c] = admin[c]
    BY <1>5 DEF Merge, Dismiss, Commit, Abort, DismissWrite, TypeOK
  <2> QED
    BY <2>1, <2>2
<1>6. ASSUME Reassign(a)
      PROVE  \/ w \in admin[a].drop /\ admin'[a].cand = admin[a].cand
             \/ /\ UNCHANGED <<refs, cand>> /\ admin'[a].cand = admin[a].cand
                /\ Target(a, w) \in refs /\ Merging(a)
  <2> DEFINE k == admin[a].pc
             rows == Of(k, cand[admin[a].cand].new)
             drop == {v \in rows : Collides(a, v)}
  <2>1. admin' = [admin EXCEPT ![a].pc = Then(k), ![a].drop = @ \cup drop,
                               ![a].move = @ \cup (rows \ drop)]
    BY <1>6 DEF Reassign
  <2>2. \A v \in drop : Target(a, v) \in refs
    BY DEF Collides
  <2>3. UNCHANGED <<refs, cand>> /\ Merging(a)
    BY <1>6 DEF Reassign, Registry, Merging
  <2> HIDE DEF rows, drop, k
  <2>4. admin'[a].drop = admin[a].drop \cup drop /\ admin'[a].cand = admin[a].cand
    BY <2>1 DEF TypeOK, Admin
  <2> QED
    BY <2>2, <2>3, <2>4
<1>7. ASSUME NEW b \in Admins, b # a, Reassign(b) PROVE admin'[a] = admin[a]
  BY <1>7 DEF Reassign, TypeOK
<1> QED
  BY <1>1, <1>2, <1>3, <1>4, <1>5, <1>6, <1>7 DEF Next

\* The counterpart of what a merge will drop may be merged on in the meantime,
\* with its concept; if that brings it where this merge starts, they cross.
LEMMA LostStep ==
    ASSUME TypeOK, TypeOK', MergeInv, LockInv, LostInv, PairsKeep, [Next]_vars PROVE LostInv'
<1> SUFFICES ASSUME NEW a \in Admins, NEW w \in admin'[a].drop
             PROVE  KeptFor(a, w)' \/ LeadsIntoCrossed(Old(a))' \/ Blocked(a)'
  BY DEF LostInv
<1>0. PICK new, old : new = New(a) /\ old = Old(a)
  OBVIOUS
<1>1. Merging(a) /\ admin'[a].cand = admin[a].cand /\ w \in Rows
  <2>1. w \in admin[a].drop => Merging(a) /\ w \in Rows
    BY DEF LockInv, Writes, TypeOK
  <2>2. w \in Rows
    BY DEF TypeOK, Admin
  <2> QED
    BY <2>1, <2>2, DropStep
<1>2. /\ new \in Concepts /\ old \in Concepts /\ new # old
      /\ New(a)' = new /\ Old(a)' = old
  <2>1. admin[a].pc # "idle" /\ admin[a].pc # "dismiss"
    BY <1>1 DEF Merging, Kinds
  <2> QED
    BY <1>0, <1>1, <2>1 DEF MergeInv, Proposed, PairsKeep, SamePair, New, Old
<1>3. ever \subseteq ever'
  BY RowsStep
<1>4. CASE w \in admin[a].drop /\ KeptFor(a, w)
  <2>1. PICK d \in Heirs[old] : d # new /\ [w EXCEPT !.concept = d] \in refs
    BY <1>0, <1>4 DEF KeptFor
  <2> DEFINE v == [w EXCEPT !.concept = d]
  <2>2. d \in Heirs'[old] /\ d \in Concepts
    BY <1>2, <1>3, <2>1, Inherited
  <2>3. v.kind = w.kind /\ v.key = w.key /\ v.concept = d
    <3>1. v = Row(w.kind, w.key, d)
      BY <1>1, RowMoved
    <3> HIDE DEF v
    <3> QED
      BY <3>1, RowFields
  <2>4. ~Wiped(v)
    BY <1>4, <2>3 DEF Wiped, Writes
  <2>5. CASE v \in refs'
    BY <1>2, <2>1, <2>2, <2>5 DEF KeptFor
  <2>6. CASE HandedOn(v)
    <3>1. PICK m \in ever' : /\ m[1] = d /\ m[2] \in Concepts /\ new \in m[3]
                             /\ \E e \in Heirs'[m[2]] : [v EXCEPT !.concept = e] \in refs'
      BY <1>0, <1>1, <2>3, <2>6 DEF HandedOn
    <3>2. PICK e \in Heirs'[m[2]] : [v EXCEPT !.concept = e] \in refs'
      BY <3>1
    <3>3. [w EXCEPT !.concept = e] \in refs'
      <4>1. [v EXCEPT !.concept = e] = [w EXCEPT !.concept = e]
        BY <1>1, RowMoved
      <4> QED
        BY <3>2, <4>1
    <3>4. e \in Heirs'[old]
      <4>1. Heirs'[old] = Reach(ever', old)
        BY <1>2 DEF Heirs
      <4>2. m[2] \in Heirs'[old]
        BY <1>2, <2>2, <3>1, <4>1, HeirsFirst
      <4> QED
        BY <1>2, <1>3, <3>2, <4>2, Inherited
    <3>5. CASE e # new
      BY <1>2, <3>3, <3>4, <3>5 DEF KeptFor
    <3>6. CASE e = new
      BY <1>2, <2>2, <3>1, <3>2, <3>6 DEF Blocked
    <3> QED
      BY <3>5, <3>6
  <2>7. CASE LeadsIntoCrossed(d)'
    <3>1. LeadsIntoCrossed(old)'
      BY <1>2, <1>3, <2>2, <2>7, CrossedGrow
    <3> QED
      BY <1>2, <3>1
  <2> QED
    BY <2>1, <2>3, <2>4, <2>5, <2>6, <2>7, RowsStep
<1>5. CASE LeadsIntoCrossed(old)
  <2>1. old \in Heirs'[old]
    BY <1>2, <1>3, Inherited
  <2>2. LeadsIntoCrossed(old)'
    BY <1>2, <1>3, <1>5, <2>1, CrossedGrow
  <2> QED
    BY <1>2, <2>2
<1>6. CASE Blocked(a)
  <2>1. PICK m \in ever : new \in m[3] /\ new \in Heirs[m[2]] /\ m[1] \in Heirs[old]
    BY <1>0, <1>6 DEF Blocked
  <2>2. m[2] \in Concepts /\ m \in ever'
    BY <1>3, <2>1 DEF TypeOK
  <2>3. new \in Heirs'[m[2]] /\ m[1] \in Heirs'[old]
    BY <1>2, <1>3, <2>1, <2>2, Inherited
  <2> QED
    BY <1>2, <2>1, <2>2, <2>3 DEF Blocked
<1>7. CASE UNCHANGED <<refs, cand>> /\ Target(a, w) \in refs
  <2>1. [w EXCEPT !.concept = old] \in refs'
    BY <1>0, <1>7 DEF Target, Old
  <2>2. old \in Heirs'[old]
    BY <1>2, <1>3, Inherited
  <2> QED
    BY <1>2, <2>1, <2>2 DEF KeptFor
<1> QED
  BY <1>0, <1>4, <1>5, <1>6, <1>7, DropStep DEF LostInv

-----------------------------------------------------------------------------
(* What a subtopic teaches.                                                *)

\* A concept keeps its name.
LEMMA NamesKeep ==
    ASSUME TypeOK, [Next]_vars, NEW c \in Concepts, Exists(c) PROVE name'[c] = name[c]
<1>1. ASSUME NEW s \in Subtopics, Create(s) PROVE name'[c] = name[c]
  BY <1>1 DEF Create, Newest, Exists, TypeOK
<1>2. ASSUME NEW s \in Subtopics, Wipe(s) \/ Find(s) \/ Link(s) \/ Ready(s)
      PROVE  name' = name
  BY <1>2 DEF Wipe, Find, Link, Ready, Registry
<1>3. ASSUME NEW a \in Admins,
             \/ \E i \in Candidates : Merge(a, i) \/ Dismiss(a, i)
             \/ Reassign(a) \/ Commit(a) \/ Abort(a) \/ DismissWrite(a)
      PROVE  name' = name
  BY <1>3 DEF Merge, Dismiss, Reassign, Commit, Abort, DismissWrite, Registry
<1>4. ASSUME NEW r \in Readers,
             \/ \E d \in Concepts : Open(r, d)
             \/ Walk(r) \/ Count(r) \/ Look(r) \/ Write(r) \/ Winner(r) \/ Refuse(r)
      PROVE  name' = name
  BY <1>4 DEF Open, Walk, Count, Look, Write, Winner, Refuse, ReaderOnly, Registry
<1>5. ASSUME \/ \E d \in Concepts : Attempt(d)
             \/ \E d, e \in Concepts : Propose(d, e)
             \/ UNCHANGED vars
      PROVE  name' = name
  BY <1>5 DEF Attempt, Propose, Registry, vars
<1> QED
  BY <1>1, <1>2, <1>3, <1>4, <1>5 DEF Next

\* Steps of a job, and the others.
LEMMA JobStep ==
    ASSUME TypeOK, [Next]_vars, NEW s \in Subtopics
    PROVE  job'[s] = job[s] \/ Wipe(s) \/ Find(s) \/ Create(s) \/ Link(s) \/ Ready(s)
<1>1. ASSUME NEW u \in Subtopics, Wipe(u) \/ Find(u) \/ Create(u) \/ Link(u) \/ Ready(u), u # s
      PROVE  job'[s] = job[s]
  <2>1. CASE Find(u)
    BY <1>1, <2>1 DEF Find, TypeOK
  <2>2. CASE Wipe(u) \/ Create(u) \/ Link(u) \/ Ready(u)
    BY <1>1, <2>2 DEF Wipe, Create, Link, Ready, TypeOK
  <2> QED
    BY <1>1, <2>1, <2>2
<1>2. ASSUME NEW a \in Admins,
             \/ \E i \in Candidates : Merge(a, i) \/ Dismiss(a, i)
             \/ Reassign(a) \/ Commit(a) \/ Abort(a) \/ DismissWrite(a)
      PROVE  job' = job
  BY <1>2 DEF Merge, Dismiss, Reassign, Commit, Abort, DismissWrite
<1>3. ASSUME NEW r \in Readers,
             \/ \E c \in Concepts : Open(r, c)
             \/ Walk(r) \/ Count(r) \/ Look(r) \/ Write(r) \/ Winner(r) \/ Refuse(r)
      PROVE  job' = job
  BY <1>3 DEF Open, Walk, Count, Look, Write, Winner, Refuse, ReaderOnly
<1>4. ASSUME \/ \E c \in Concepts : Attempt(c)
             \/ \E c, d \in Concepts : Propose(c, d)
             \/ UNCHANGED vars
      PROVE  job' = job
  BY <1>4 DEF Attempt, Propose, vars
<1> QED
  BY <1>1, <1>2, <1>3, <1>4 DEF Next

\* What a job has found has the name that it looked for.
LEMMA FoundStep ==
    ASSUME TypeOK, NameInv, FoundInv, [Next]_vars PROVE FoundInv'
<1> SUFFICES ASSUME NEW s \in Subtopics, NEW n \in Names, job'[s].found[n] # 0
             PROVE  name'[job'[s].found[n]] = n
  BY DEF FoundInv
<1>1. job[s] \in Job /\ NoName \notin Names /\ Wanted[s] \subseteq Names
  BY ConceptsAssumption DEF TypeOK
<1>2. CASE job'[s].found[n] = job[s].found[n]
  <2>1. job[s].found[n] \in Concepts /\ name[job[s].found[n]] = n
    BY <1>1, <1>2, Numbers DEF FoundInv, Job
  <2> QED
    BY <1>1, <1>2, <2>1, NamesKeep DEF Exists
<1>3. CASE job'[s].found[n] # job[s].found[n]
  <2>1. CASE Wipe(s)
    BY <1>1, <2>1 DEF Wipe, IdleJob, TypeOK
  <2>2. CASE Link(s)
    BY <1>1, <2>2 DEF Link, IdleJob, TypeOK
  <2>3. CASE Ready(s)
    BY <1>1, <1>3, <2>3 DEF Ready, TypeOK, Job
  <2>4. CASE Find(s)
    <3>1. PICK m \in Wanted[s] :
            \/ \E c \in Concepts : name[c] = m /\ job' = [job EXCEPT ![s].found[m] = c]
            \/ job' = [job EXCEPT ![s].pc = "create", ![s].name = m]
      BY <2>4 DEF Find
    <3>2. ASSUME job' = [job EXCEPT ![s].pc = "create", ![s].name = m] PROVE FALSE
      BY <1>1, <1>3, <3>2 DEF TypeOK, Job
    <3>3. PICK c \in Concepts : name[c] = m /\ job' = [job EXCEPT ![s].found[m] = c]
      BY <3>1, <3>2
    <3>4. m = n /\ job'[s].found[n] = c
      BY <1>1, <1>3, <3>3 DEF TypeOK, Job
    <3>5. name' = name
      BY <2>4 DEF Find, Registry
    <3> QED
      BY <3>3, <3>4, <3>5
  <2>5. CASE Create(s)
    <3>1. PICK c \in Concepts :
            /\ name' = [name EXCEPT ![c] = job[s].name]
            /\ job' = [job EXCEPT ![s].pc = "find", ![s].found[job[s].name] = c]
      BY <2>5 DEF Create
    <3>2. job[s].name \in Names
      BY <2>5 DEF Create, NameInv
    <3>3. job[s].name = n /\ job'[s].found[n] = c
      BY <1>1, <1>3, <3>1, <3>2 DEF TypeOK, Job
    <3> QED
      BY <3>1, <3>3 DEF TypeOK
  <2> QED
    BY <1>3, <2>1, <2>2, <2>3, <2>4, <2>5, JobStep
<1> QED
  BY <1>2, <1>3

Teaches(s) ==
    \A n \in Wanted[s] : \E c \in Concepts :
        /\ name[c] = n
        /\ \/ \E d \in Heirs[c] : Row("link", s, d) \in refs
           \/ LeadsIntoCrossed(c)

\* The links that a job has written teach what it looked up.
LEMMA LinkTeaches ==
    ASSUME TypeOK, FoundInv, NEW s \in Subtopics, Link(s) PROVE Teaches(s)'
<1> SUFFICES ASSUME NEW n \in Wanted[s]
             PROVE  \E c \in Concepts :
                      /\ name'[c] = n
                      /\ \E d \in Heirs'[c] : Row("link", s, d) \in refs'
  BY DEF Teaches
<1> DEFINE c == job[s].found[n]
<1>1. n \in Names /\ c # 0 /\ c \in Concepts
  BY ConceptsAssumption, Numbers DEF Link, Resolved, TypeOK, Job
<1>2. name'[c] = n
  BY <1>1 DEF FoundInv, Link
<1>3. Row("link", s, c) \in refs' /\ ever' = ever
  BY DEF Link, Insert
<1> HIDE DEF c
<1>4. c \in Heirs'[c]
  BY <1>1, <1>3, Inherited
<1> QED
  BY <1>1, <1>2, <1>3, <1>4

\* Whatever is merged, the subtopic is linked with an heir of what it named.
LEMMA TeachStep ==
    ASSUME TypeOK, MergeInv, LockInv, LostInv, FoundInv,
           SubtopicsTeachWhatTheyNamed, [Next]_vars
    PROVE  SubtopicsTeachWhatTheyNamed'
<1> SUFFICES ASSUME NEW s \in Subtopics, job'[s].pc \in {"linked", "ready"}
             PROVE  Teaches(s)'
  BY DEF SubtopicsTeachWhatTheyNamed, Teaches
<1>1. job[s] \in Job
  BY DEF TypeOK
<1>2. Link(s) \/ job[s].pc \in {"linked", "ready"}
  <2>1. Wipe(s) => job'[s].pc = "find"
    BY IdleTypes DEF Wipe, TypeOK, Job
  <2>2. Find(s) => job'[s].pc \in {"find", "create"}
    BY <1>1 DEF Find, TypeOK, Job
  <2>3. Create(s) => job'[s].pc = "find"
    BY <1>1 DEF Create, TypeOK, Job
  <2>4. Ready(s) => job[s].pc = "linked"
    BY DEF Ready
  <2> QED
    BY <2>1, <2>2, <2>3, <2>4, JobStep
<1>3. CASE Link(s)
  BY <1>3, LinkTeaches
<1>4. CASE job[s].pc \in {"linked", "ready"}
  <2> SUFFICES ASSUME NEW n \in Wanted[s]
               PROVE  \E c \in Concepts :
                        /\ name'[c] = n
                        /\ \/ \E d \in Heirs'[c] : Row("link", s, d) \in refs'
                           \/ LeadsIntoCrossed(c)'
    BY DEF Teaches
  <2>1. PICK c \in Concepts :
          /\ name[c] = n
          /\ \/ \E d \in Heirs[c] : Row("link", s, d) \in refs
             \/ LeadsIntoCrossed(c)
    BY <1>4 DEF SubtopicsTeachWhatTheyNamed
  <2>2. name'[c] = n
    <3>1. n \in Names /\ NoName \notin Names
      BY ConceptsAssumption
    <3> QED
      BY <2>1, <3>1, NamesKeep DEF Exists
  <2>3. ever \subseteq ever'
    BY RowsStep
  <2>4. CASE LeadsIntoCrossed(c)
    <3>1. c \in Heirs'[c]
      BY <2>3, Inherited
    <3>2. LeadsIntoCrossed(c)'
      BY <2>3, <2>4, <3>1, CrossedGrow
    <3> QED
      BY <2>2, <3>2
  <2>5. ASSUME NEW d \in Heirs[c], Row("link", s, d) \in refs
        PROVE  \/ \E e \in Heirs'[c] : Row("link", s, e) \in refs'
               \/ LeadsIntoCrossed(c)'
    <3> DEFINE w == Row("link", s, d)
    <3>1. w \in Rows /\ w.kind = "link" /\ w.key = s /\ w.concept = d
      BY <2>5, RowFields DEF TypeOK
    <3>2. ~Wiped(w)
      BY <3>1 DEF Wiped
    <3>3. Passed(w)
      BY <2>5, <3>2, RowsPassed
    <3> HIDE DEF w
    <3>4. d \in Heirs'[c]
      BY <2>3, Inherited
    <3>5. CASE LeadsIntoCrossed(d)'
      BY <2>3, <3>4, <3>5, CrossedGrow
    <3>6. ASSUME NEW e \in Heirs'[d], [w EXCEPT !.concept = e] \in refs'
          PROVE  \E x \in Heirs'[c] : Row("link", s, x) \in refs'
      <4>1. Row("link", s, e) \in refs'
        BY <3>1, <3>6, RowMoved
      <4>2. e \in Heirs'[c]
        BY <2>3, <3>4, <3>6, Inherited
      <4> QED
        BY <4>1, <4>2
    <3> QED
      BY <3>1, <3>3, <3>5, <3>6 DEF Passed
  <2> QED
    BY <2>1, <2>2, <2>4, <2>5
<1> QED
  BY <1>2, <1>3, <1>4

-----------------------------------------------------------------------------
(* The theorems.                                                           *)

LEMMA IInvInit == Init => IInv
<1> SUFFICES ASSUME Init PROVE IInv
  OBVIOUS
<1>1. TypeOK
  <2>1. MaxEvents \in 0..MaxEvents /\ 0 \in 0..MaxEvents /\ 0 \in 0..MaxConcepts
    BY ConceptsAssumption
  <2> QED
    BY <2>1, IdleTypes DEF Init, TypeOK
<1>2. /\ \A s \in Subtopics : job[s].pc = "new"
      /\ \A a \in Admins : admin[a] = IdleAdmin
      /\ \A r \in Readers : reader[r].pc = "idle"
  BY DEF Init, IdleJob, IdleReader
<1>3. NameInv
  BY <1>2 DEF Init, NameInv, TwinsOnlyFromARace, Exists, Creating
<1>4. MergeInv
  BY <1>2 DEF Init, MergeInv, IdleAdmin
<1>5. LockInv
  BY <1>2 DEF LockInv, Writes, IdleAdmin
<1>6. TextInv
  BY <1>2 DEF Init, TextInv
<1>7. LostInv /\ FoundInv /\ SubtopicsTeachWhatTheyNamed
  BY <1>2 DEF Init, LostInv, FoundInv, SubtopicsTeachWhatTheyNamed, IdleAdmin, IdleJob
<1> QED
  BY <1>1, <1>3, <1>4, <1>5, <1>6, <1>7 DEF IInv

LEMMA IInvStep == IInv /\ [Next]_vars => IInv'
BY TypeStep, NameStep, MergeStep, LockStep, TextStep, LostStep, FoundStep, TeachStep
   DEF IInv

\* The invariant on which everything else rests.
THEOREM Invariance == Spec => []IInv
BY IInvInit, IInvStep, PTL DEF Spec

\* Every row, candidate, request and answer stays in its type.
THEOREM TypeCorrect == Spec => []TypeOK
BY Invariance, PTL DEF IInv

\* Structuring jobs create two concepts of one name only when both were
\* creating it at once, whatever is merged and whatever fails.
THEOREM Twins == Spec => []TwinsOnlyFromARace
<1>1. IInv => TwinsOnlyFromARace
  BY DEF IInv, NameInv
<1> QED
  BY <1>1, Invariance, PTL

\* A structured subtopic is linked, for every name that it teaches, with a
\* concept of that name or one that it was merged into, however the jobs, the
\* merges and the failures of both interleave, short of merges that crossed.
THEOREM Teaching == Spec => []SubtopicsTeachWhatTheyNamed
<1>1. IInv => SubtopicsTeachWhatTheyNamed
  BY DEF IInv
<1> QED
  BY <1>1, Invariance, PTL

\* "Every reference to the candidate is moved onto the surviving one": no step
\* takes a row and leaves none for it at an heir of its concept, but a job that
\* starts again, or where two merges crossed.
THEOREM Moved == Spec => NothingLost
<1>1. IInv /\ [Next]_vars => [NothingLostStep]_vars
  <2> SUFFICES ASSUME IInv, [Next]_vars PROVE NothingLostStep
    OBVIOUS
  <2>1. \A w \in refs : Wiped(w) \/ Passed(w)
    BY RowsPassed DEF IInv
  <2> QED
    BY <2>1 DEF NothingLostStep, Wiped, Passed
<1> QED
  BY <1>1, Invariance, PTL DEF Spec, NothingLost

\* "Follow merge chain to the surviving concept": whatever pairs are merged, by
\* however many administrators, every chain goes on to end until a merge commits
\* into a concept that was merged away.
THEOREM ChainsKept == Spec => ChainsKeepAnEnd
<1>1. ASSUME NEW x \in Concepts, NEW y \in Concepts, TypeOK, x # y, ChainsEnd,
             merged' = [merged EXCEPT ![x] = y], merged[y] = 0
      PROVE  ChainsEnd'
  <2> SUFFICES ASSUME NEW c \in Concepts
               PROVE  \E d \in Reach(Chain', c) : merged'[d] = 0
    BY DEF ChainsEnd
  <2> DEFINE R == Reach(Chain', c)
  <2>1. merged'[x] = y /\ \A d \in Concepts \ {x} : merged'[d] = merged[d]
    BY <1>1 DEF TypeOK
  <2>2. CASE x \in R
    <3>1. <<x, y>> \in Chain'
      BY <2>1, Numbers DEF Chain
    <3>2. y \in R
      BY <2>2, <3>1, HeirsFirst
    <3> QED
      BY <1>1, <2>1, <3>2
  <2>3. CASE x \notin R
    <3>1. PICK d \in Reach(Chain, c) : merged[d] = 0
      BY <1>1 DEF ChainsEnd
    <3>2. c \in R /\ R \subseteq Concepts
      BY HeirsFirst
    <3>3. ASSUME NEW e \in Concepts, merged[e] # 0, e \in R PROVE merged[e] \in R
      <4>1. <<e, merged[e]>> \in Chain' /\ merged[e] \in Concepts
        BY <1>1, <2>1, <2>3, <3>3, Numbers DEF Chain, TypeOK
      <4> QED
        BY <3>3, <4>1, HeirsFirst
    <3>4. \A p \in Chain : p[1] \in R => p[2] \in R
      BY <3>3 DEF Chain
    <3>5. d \in R
      BY <3>1, <3>2, <3>4 DEF Reach
    <3> QED
      BY <2>1, <2>3, <3>1, <3>2, <3>5
  <2> QED
    BY <2>2, <2>3
<1>2. ASSUME merged' = merged, ChainsEnd PROVE ChainsEnd'
  BY <1>2 DEF ChainsEnd, Chain, Reach
<1>3. ASSUME IInv, [Next]_vars
      PROVE  \/ merged' = merged
             \/ \E x, y \in Concepts : x # y /\ merged' = [merged EXCEPT ![x] = y]
  <2>1. ASSUME NEW a \in Admins, Commit(a)
        PROVE  \E x, y \in Concepts : x # y /\ merged' = [merged EXCEPT ![x] = y]
    <3> DEFINE i == admin[a].cand
    <3>1. i \in Candidates /\ cand[i] # NoCandidate /\ cand[i].new # cand[i].old
      BY <1>3, <2>1 DEF Commit, IInv, MergeInv
    <3>2. merged' = [merged EXCEPT ![cand[i].new] = cand[i].old]
      BY <2>1 DEF Commit
    <3> HIDE DEF i
    <3>3. cand[i].new \in Concepts /\ cand[i].old \in Concepts
      BY <1>3, <3>1 DEF IInv, MergeInv, Proposed
    <3> QED
      BY <3>1, <3>2, <3>3
  <2>2. ASSUME ~\E a \in Admins : Commit(a) PROVE merged' = merged
    BY <1>3, <2>2 DEF Next, Wipe, Find, Create, Link, Ready, Attempt, Propose, Merge, Dismiss,
        Reassign, Abort, DismissWrite, Open, Walk, Count, Look, Write, Winner, Refuse,
        ReaderOnly, Registry, vars
  <2> QED
    BY <2>1, <2>2
<1>4. IInv /\ [Next]_vars => [ChainsKeepAnEndStep]_vars
  <2> SUFFICES ASSUME IInv, [Next]_vars, ChainsEnd,
                      \A c \in Concepts : merged'[c] # merged[c] => merged[merged'[c]] = 0
               PROVE  ChainsEnd'
    BY DEF ChainsKeepAnEndStep
  <2>1. CASE merged' = merged
    BY <1>2, <2>1
  <2>2. ASSUME NEW x \in Concepts, NEW y \in Concepts, x # y,
               merged' = [merged EXCEPT ![x] = y], merged' # merged
        PROVE  ChainsEnd'
    <3>1. TypeOK /\ merged'[x] = y
      BY <2>2 DEF IInv, TypeOK
    <3>2. merged[x] # y
      BY <2>2, <3>1 DEF TypeOK
    <3> QED
      BY <1>1, <2>2, <3>1, <3>2
  <2> QED
    BY <1>3, <2>1, <2>2
<1> QED
  BY <1>4, Invariance, PTL DEF Spec, ChainsKeepAnEnd

\* Readers who are answered one variant of a concept that is not merged away
\* read one text, also when they generated it at once.
THEOREM OneText == Spec => []OneTextPerVariant
<1>1. IInv => OneTextPerVariant
  BY DEF IInv, TextInv, OneTextPerVariant
<1> QED
  BY <1>1, Invariance, PTL
=============================================================================
