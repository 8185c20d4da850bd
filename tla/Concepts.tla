------------------------------ MODULE Concepts ------------------------------
(***************************************************************************)
(* The global concept registry: structuring jobs that look a name up or    *)
(* create a concept and link it (StructuringProcessor), administrators     *)
(* that merge or dismiss duplicates (ConceptReviewService), quizzes that   *)
(* attach attempts and scores, and readers of the review explanations      *)
(* (ReviewContentService).                                                 *)
(*                                                                         *)
(* One action is one database statement.  A merge is one read-committed    *)
(* transaction: each of its statements reads what is committed by then and *)
(* locks what it writes, and its writes show when it commits.  A statement *)
(* that runs into such a lock waits.  Its loop over the rows of one kind   *)
(* is one action: a row that is taken away or a key that is taken between  *)
(* the read and the write of the loop makes the transaction fail (Abort).  *)
(*                                                                         *)
(* One student and one level: rows of others never meet.  What a row       *)
(* holds besides its key is left out, save the text of an explanation.     *)
(***************************************************************************)
EXTENDS Naturals, FiniteSets

CONSTANTS
    Subtopics,      \* each written by a structuring job of its own course
    Names,
    Wanted,         \* the names that each subtopic teaches
    Admins, Readers,
    MaxConcepts,    \* bound: concepts created
    Candidates,     \* slots for the duplicate pairs proposed
    MaxEvents,      \* bound: quiz answers, duplicate pairs, readers' requests
                    \* and failures of a structuring job, taken together
    NoName, NoCand

ASSUME ConceptsAssumption ==
    /\ Wanted \in [Subtopics -> SUBSET Names] /\ NoName \notin Names
    /\ MaxConcepts \in Nat /\ MaxEvents \in Nat /\ NoCand \notin Candidates

VARIABLES
    name,           \* canonicalName of the concepts, numbered as created
    merged,         \* mergedIntoId, or 0
    ever,           \* history: the merges there have been, each with the
                    \* concepts that others were merging away when it committed
    refs,           \* the rows that refer to a concept
    text,           \* the explanation in a review row, by concept and variant
    cand,           \* the review candidates
    job,            \* the structuring job of each subtopic
    admin,          \* what each administrator's request is doing
    reader,         \* what each reader's request is doing
    told,           \* history: the explanations answered
    texts,          \* explanations generated so far
    raced,          \* history: names that two jobs were creating at once
    events          \* events still to come

vars == <<name, merged, ever, refs, text, cand, job, admin, reader, told, texts, raced, events>>

-----------------------------------------------------------------------------
Concepts == 1..MaxConcepts
Variants == 0..MaxEvents
Kinds == {"link", "attempt", "score", "content"}

\* A row: its kind, the rest of its key, and the concept it refers to.
Row(k, x, c) == [kind |-> k, key |-> x, concept |-> c]
Keys(k) == CASE k = "link" -> Subtopics
             [] k = "content" -> Variants
             [] OTHER -> {0}
Rows == UNION {[kind : {k}, key : Keys(k), concept : Concepts] : k \in Kinds}
Of(k, c) == {w \in refs : w.kind = k /\ w.concept = c}

Event == events > 0 /\ events' = events - 1

\* Rows that a transaction has written and not committed, and the rows that
\* its writes will make, which the unique keys keep others from inserting.
Target(a, w) == [w EXCEPT !.concept = cand[admin[a].cand].old]
Locked(w) == \E a \in Admins : w \in admin[a].move \cup admin[a].drop
Reserved(w) == \E a \in Admins : w \in {Target(a, v) : v \in admin[a].move}
Insert(rows) ==
    /\ \A w \in rows : w.kind # "attempt" => ~Reserved(w)
    /\ refs' = refs \cup rows

Exists(c) == name[c] # NoName
Newest(c) == name[c] = NoName /\ \A d \in 1..(c - 1) : Exists(d)

IdleJob == [pc |-> "new", found |-> [n \in Names |-> 0], name |-> NoName]
IdleAdmin == [pc |-> "idle", cand |-> NoCand, move |-> {}, drop |-> {}]
IdleReader == [pc |-> "idle", at |-> 0, next |-> 0, variant |-> 0]
NoCandidate == [new |-> 0, old |-> 0, status |-> "none"]

Pair == [new : 0..MaxConcepts, old : 0..MaxConcepts,
         status : {"none", "pending", "merged", "dismissed"}]
Job == [pc : {"new", "find", "create", "linked", "ready"},
        found : [Names -> 0..MaxConcepts], name : Names \cup {NoName}]
Admin == [pc : Kinds \cup {"idle", "commit", "dismiss"}, cand : Candidates \cup {NoCand},
          move : SUBSET Rows, drop : SUBSET Rows]
Reader == [pc : {"idle", "walk", "look", "write", "winner"},
           at : 0..MaxConcepts, next : 0..MaxConcepts, variant : Variants]

TypeOK ==
    /\ name \in [Concepts -> Names \cup {NoName}]
    /\ merged \in [Concepts -> 0..MaxConcepts]
    /\ ever \subseteq Concepts \X Concepts \X SUBSET Concepts
    /\ refs \subseteq Rows
    /\ text \in [Concepts -> [Variants -> 0..MaxEvents]]
    /\ cand \in [Candidates -> Pair]
    /\ job \in [Subtopics -> Job]
    /\ admin \in [Admins -> Admin]
    /\ reader \in [Readers -> Reader]
    /\ told \subseteq [concept : Concepts, variant : Variants, text : 1..MaxEvents]
    /\ texts \in 0..MaxEvents
    /\ raced \subseteq Names
    /\ events \in 0..MaxEvents

Init ==
    /\ name = [c \in Concepts |-> NoName]
    /\ merged = [c \in Concepts |-> 0]
    /\ ever = {} /\ refs = {}
    /\ text = [c \in Concepts |-> [v \in Variants |-> 0]]
    /\ cand = [i \in Candidates |-> NoCandidate]
    /\ job = [s \in Subtopics |-> IdleJob]
    /\ admin = [a \in Admins |-> IdleAdmin]
    /\ reader = [r \in Readers |-> IdleReader]
    /\ told = {} /\ texts = 0 /\ raced = {} /\ events = MaxEvents

-----------------------------------------------------------------------------
(* A structuring job: wipe, find or create every concept, link.            *)

Registry == <<name, merged, ever, refs, text>>
Reviews == <<text, told, texts>>

\* Mutant: the links of every course are wiped.
WipeAll(s) ==
    /\ \/ job[s].pc = "new" /\ UNCHANGED events
       \/ job[s].pc \in {"find", "create", "linked"} /\ Event
    /\ \A w \in refs : w.kind = "link" => ~Locked(w)
    /\ job' = [job EXCEPT ![s] = [IdleJob EXCEPT !.pc = "find"]]
    /\ refs' = {w \in refs : w.kind # "link"}
    /\ UNCHANGED <<name, merged, ever, cand, admin, reader, raced, Reviews>>

\* The job starts, or starts again after a failure, from an empty subtopic.
Wipe(s) ==
    /\ \/ job[s].pc = "new" /\ UNCHANGED events
       \/ job[s].pc \in {"find", "create", "linked"} /\ Event
    /\ \A w \in refs : w.kind = "link" /\ w.key = s => ~Locked(w)
    /\ job' = [job EXCEPT ![s] = [IdleJob EXCEPT !.pc = "find"]]
    /\ refs' = {w \in refs : ~(w.kind = "link" /\ w.key = s)}
    /\ UNCHANGED <<name, merged, ever, cand, admin, reader, raced, Reviews>>

\* Mutant: only concepts that the subtopic links already are looked at.
FindOwn(s) ==
    /\ job[s].pc = "find"
    /\ \E n \in Wanted[s] : LET own == {c \in Concepts : name[c] = n /\ Row("link", s, c) \in refs} IN
          /\ job[s].found[n] = 0
          /\ \/ \E c \in own : job' = [job EXCEPT ![s].found[n] = c]
             \/ own = {} /\ job' = [job EXCEPT ![s].pc = "create", ![s].name = n]
          /\ raced' = IF \E u \in Subtopics \ {s} : job[u].pc = "create" /\ job[u].name = n
                      THEN raced \cup {n} ELSE raced
    /\ UNCHANGED <<Registry, cand, admin, reader, told, texts, events>>

\* findFirst by name, merged concepts included, in no particular order.
Find(s) ==
    /\ job[s].pc = "find"
    /\ \E n \in Wanted[s] :
          /\ job[s].found[n] = 0
          /\ \/ \E c \in Concepts :
                   /\ name[c] = n
                   /\ job' = [job EXCEPT ![s].found[n] = c]
             \/ /\ \A c \in Concepts : name[c] # n
                /\ job' = [job EXCEPT ![s].pc = "create", ![s].name = n]
          /\ raced' = IF \E u \in Subtopics \ {s} : job[u].pc = "create" /\ job[u].name = n
                      THEN raced \cup {n} ELSE raced
    /\ UNCHANGED <<Registry, cand, admin, reader, told, texts, events>>

Create(s) ==
    /\ job[s].pc = "create"
    /\ \E c \in Concepts :
          /\ Newest(c)
          /\ name' = [name EXCEPT ![c] = job[s].name]
          /\ job' = [job EXCEPT ![s].pc = "find", ![s].found[job[s].name] = c]
    /\ UNCHANGED <<merged, ever, refs, cand, admin, reader, raced, events, Reviews>>

Resolved(s) == \A n \in Wanted[s] : job[s].found[n] # 0

\* createMany with skipDuplicates: one statement.
Link(s) ==
    /\ job[s].pc = "find" /\ Resolved(s)
    /\ Insert({Row("link", s, job[s].found[n]) : n \in Wanted[s]})
    /\ job' = [job EXCEPT ![s] = [IdleJob EXCEPT !.pc = "linked"]]
    /\ UNCHANGED <<name, merged, ever, cand, admin, reader, raced, events, Reviews>>

\* The course is ready, and never wiped again.
Ready(s) ==
    /\ job[s].pc = "linked"
    /\ job' = [job EXCEPT ![s].pc = "ready"]
    /\ UNCHANGED <<Registry, cand, admin, reader, told, texts, raced, events>>

-----------------------------------------------------------------------------
(* Quizzes: an attempt tagged with a concept that a subtopic links or once *)
(* linked, and the score of that concept.                                  *)

Attempt(c) ==
    /\ Exists(c)
    /\ Event
    /\ \E k \in {"attempt", "score"} : Insert({Row(k, 0, c)})
    /\ UNCHANGED <<name, merged, ever, cand, job, admin, reader, raced, Reviews>>

-----------------------------------------------------------------------------
(* The review queue.                                                       *)

\* External: no code of the repository creates candidates, and nothing keeps
\* two concepts from being paired, with either of them as the survivor.
Propose(new, old) ==
    /\ Exists(new) /\ Exists(old) /\ Event
    /\ \E i \in Candidates :
          /\ cand[i] = NoCandidate
          /\ cand' = [cand EXCEPT ![i] = [new |-> new, old |-> old, status |-> "pending"]]
    /\ UNCHANGED <<Registry, job, admin, reader, told, texts, raced>>

MergedBy(admins) == {cand[admin[a].cand].new : a \in admins}
Merging(a) == admin[a].pc \in Kinds \cup {"commit"}

\* Mutant: the pair is not looked at.
MergeAny(a, i) ==
    /\ admin[a].pc = "idle"
    /\ cand[i].status = "pending"
    /\ admin' = [admin EXCEPT ![a] = [IdleAdmin EXCEPT !.pc = "link", !.cand = i]]
    /\ UNCHANGED <<Registry, cand, job, reader, told, texts, raced, events>>

\* mergeCandidate up to its transaction; a candidate that is resolved, or
\* that pairs a concept with itself, is refused.
Merge(a, i) ==
    /\ admin[a].pc = "idle"
    /\ cand[i].status = "pending" /\ cand[i].new # cand[i].old
    /\ admin' = [admin EXCEPT ![a] = [IdleAdmin EXCEPT !.pc = "link", !.cand = i]]
    /\ UNCHANGED <<Registry, cand, job, reader, told, texts, raced, events>>

\* The rows of one kind are read and reassigned; a row whose key the survivor
\* already has is dropped.  Attempts have no key to collide on.
Then(pc) == CASE pc = "link" -> "attempt" [] pc = "attempt" -> "score"
              [] pc = "score" -> "content" [] OTHER -> "commit"
Collides(a, w) == w.kind # "attempt" /\ Target(a, w) \in refs

\* Mutant: the transaction drops what it should reassign.
ReassignNothing(a) == LET k == admin[a].pc
                          rows == Of(k, cand[admin[a].cand].new) IN
    /\ k \in Kinds
    /\ \A w \in rows : ~Locked(w)
    /\ admin' = [admin EXCEPT ![a].pc = Then(k), ![a].drop = @ \cup rows]
    /\ UNCHANGED <<Registry, cand, job, reader, told, texts, raced, events>>

Reassign(a) == LET k == admin[a].pc
                   rows == Of(k, cand[admin[a].cand].new)
                   drop == {w \in rows : Collides(a, w)} IN
    /\ k \in Kinds
    /\ \A w \in rows : ~Locked(w)
    /\ \A w \in rows \ drop : w.kind # "attempt" => ~Reserved(Target(a, w))
    /\ admin' = [admin EXCEPT ![a].pc = Then(k), ![a].drop = @ \cup drop,
                              ![a].move = @ \cup (rows \ drop)]
    /\ UNCHANGED <<Registry, cand, job, reader, told, texts, raced, events>>

\* The concept is marked, the candidate closed, the transaction committed.
Commit(a) == LET i == admin[a].cand
                 new == cand[i].new
                 old == cand[i].old
                 made == {Target(a, w) : w \in admin[a].move}
                 gone == admin[a].move \cup admin[a].drop IN
    /\ admin[a].pc = "commit"
    /\ refs' = (refs \ gone) \cup made
    /\ text' = [c \in Concepts |-> [v \in Variants |->
          IF Row("content", v, c) \in made THEN text[new][v]
          ELSE IF Row("content", v, c) \in gone THEN 0 ELSE text[c][v]]]
    /\ merged' = [merged EXCEPT ![new] = old]
    /\ ever' = ever \cup {<<new, old, MergedBy({b \in Admins \ {a} : Merging(b)})>>}
    /\ cand' = [cand EXCEPT ![i].status = "merged"]
    /\ admin' = [admin EXCEPT ![a] = IdleAdmin]
    /\ UNCHANGED <<name, job, reader, told, texts, raced, events>>

\* A statement fails (a deadlock, a key taken between check and update, the
\* time limit of the transaction) and everything is rolled back.
Abort(a) ==
    /\ Merging(a) /\ Event
    /\ admin' = [admin EXCEPT ![a] = IdleAdmin]
    /\ UNCHANGED <<Registry, cand, job, reader, told, texts, raced>>

\* dismissCandidate: the status is read and then written.
Dismiss(a, i) ==
    /\ admin[a].pc = "idle" /\ cand[i].status = "pending"
    /\ admin' = [admin EXCEPT ![a] = [IdleAdmin EXCEPT !.pc = "dismiss", !.cand = i]]
    /\ UNCHANGED <<Registry, cand, job, reader, told, texts, raced, events>>

\* Mutant: a status that the rows do not have.
DismissClosed(a) ==
    /\ admin[a].pc = "dismiss"
    /\ cand' = [cand EXCEPT ![admin[a].cand].status = "closed"]
    /\ admin' = [admin EXCEPT ![a] = IdleAdmin]
    /\ UNCHANGED <<Registry, job, reader, told, texts, raced, events>>

DismissWrite(a) ==
    /\ admin[a].pc = "dismiss"
    /\ cand' = [cand EXCEPT ![admin[a].cand].status = "dismissed"]
    /\ admin' = [admin EXCEPT ![a] = IdleAdmin]
    /\ UNCHANGED <<Registry, job, reader, told, texts, raced, events>>

-----------------------------------------------------------------------------
(* getReviewContent.                                                       *)

Read(r, next) == reader' = [reader EXCEPT ![r] = next]
ReaderOnly == UNCHANGED <<Registry, cand, job, admin, raced>>

Open(r, c) ==
    /\ reader[r].pc = "idle" /\ Exists(c) /\ Event
    /\ Read(r, [IdleReader EXCEPT !.pc = "walk", !.at = c, !.next = merged[c]])
    /\ ReaderOnly /\ UNCHANGED <<told, texts>>

\* One hop along the merge chain.
Walk(r) ==
    /\ reader[r].pc = "walk" /\ reader[r].next # 0
    /\ Read(r, [reader[r] EXCEPT !.at = reader[r].next,
                                 !.next = merged[reader[r].next]])
    /\ ReaderOnly /\ UNCHANGED <<told, texts, events>>

\* The next variant is the number of those there are.
Count(r) == LET variant == Cardinality(Of("content", reader[r].at)) IN
    /\ reader[r].pc = "walk" /\ reader[r].next = 0
    /\ variant \in Variants
    /\ Read(r, [reader[r] EXCEPT !.pc = "look", !.variant = variant])
    /\ ReaderOnly /\ UNCHANGED <<told, texts, events>>

Answer(r, t) ==
    /\ told' = told \cup {[concept |-> reader[r].at, variant |-> reader[r].variant, text |-> t]}
    /\ Read(r, IdleReader)
Held(r) == Row("content", reader[r].variant, reader[r].at) \in refs
Stored(r) == text[reader[r].at][reader[r].variant]

Look(r) ==
    /\ reader[r].pc = "look"
    /\ IF Held(r) THEN Answer(r, Stored(r))
       ELSE Read(r, [reader[r] EXCEPT !.pc = "write"]) /\ UNCHANGED told
    /\ ReaderOnly /\ UNCHANGED <<texts, events>>

\* Mutant: the loser of the race answers with its own text.
WriteOwn(r) ==
    /\ reader[r].pc = "write" /\ texts < MaxEvents
    /\ texts' = texts + 1
    /\ IF Held(r)
       THEN UNCHANGED <<refs, text>>
       ELSE /\ Insert({Row("content", reader[r].variant, reader[r].at)})
            /\ text' = [text EXCEPT ![reader[r].at][reader[r].variant] = texts + 1]
    /\ Answer(r, texts + 1)
    /\ UNCHANGED <<name, merged, ever, cand, job, admin, raced, events>>

\* A text is generated and created under the unique key.
Write(r) ==
    /\ reader[r].pc = "write" /\ texts < MaxEvents
    /\ texts' = texts + 1
    /\ IF Held(r)
       THEN /\ Read(r, [reader[r] EXCEPT !.pc = "winner"])
            /\ UNCHANGED <<refs, text, told>>
       ELSE /\ Insert({Row("content", reader[r].variant, reader[r].at)})
            /\ text' = [text EXCEPT ![reader[r].at][reader[r].variant] = texts + 1]
            /\ Answer(r, texts + 1)
    /\ UNCHANGED <<name, merged, ever, cand, job, admin, raced, events>>

\* The row of the winner, or a 500 when a merge has moved it away.
Winner(r) ==
    /\ reader[r].pc = "winner"
    /\ IF Held(r) THEN Answer(r, Stored(r)) ELSE Read(r, IdleReader) /\ UNCHANGED told
    /\ ReaderOnly /\ UNCHANGED <<texts, events>>

\* The generator fails and the request with it.
Refuse(r) ==
    /\ reader[r].pc = "write"
    /\ Read(r, IdleReader)
    /\ ReaderOnly /\ UNCHANGED <<told, texts, events>>

-----------------------------------------------------------------------------
Next ==
    \/ \E s \in Subtopics : Wipe(s) \/ Find(s) \/ Create(s) \/ Link(s) \/ Ready(s)
    \/ \E c \in Concepts : Attempt(c)
    \/ \E c, d \in Concepts : Propose(c, d)
    \/ \E a \in Admins :
          \/ \E i \in Candidates : Merge(a, i) \/ Dismiss(a, i)
          \/ Reassign(a) \/ Commit(a) \/ Abort(a) \/ DismissWrite(a)
    \/ \E r \in Readers :
          \/ \E c \in Concepts : Open(r, c)
          \/ Walk(r) \/ Count(r) \/ Look(r) \/ Write(r) \/ Winner(r) \/ Refuse(r)

Spec == Init /\ [][Next]_vars

-----------------------------------------------------------------------------
(* Properties.                                                             *)

\* What steps lead to from c, c included: what no set that has c and is closed
\* under the steps can leave out.
Reach(steps, c) == {d \in Concepts : \A S \in SUBSET Concepts :
    c \in S /\ (\A p \in steps : p[1] \in S => p[2] \in S) => d \in S}

\* A concept and those that it was merged into, one after the other.
Heirs == [c \in Concepts |-> Reach(ever, c)]

\* Two merges crossed: each of them leads on to the concept that the other one
\* merges away, and one committed while the other was on its way.
Crossed == {c \in Concepts : \E m \in ever :
    c \in m[3] /\ c \in Heirs[m[2]] /\ m[1] \in Heirs[c]}
LeadsIntoCrossed(c) == Heirs[c] \cap Crossed # {}

\* A subtopic that is structured still teaches every concept that it named:
\* a concept of that name is linked, or one that it was merged into, whatever
\* other jobs, merges and failures did meanwhile.  Merges that crossed are
\* excepted: a look-up locks nothing, so that each of them may find the link
\* that the other one is dropping.
SubtopicsTeachWhatTheyNamed ==
    \A s \in Subtopics : job[s].pc \in {"linked", "ready"} =>
        \A n \in Wanted[s] : \E c \in Concepts :
            /\ name[c] = n
            /\ \/ \E d \in Heirs[c] : Row("link", s, d) \in refs
               \/ LeadsIntoCrossed(c)

\* "Every reference to the candidate is moved onto the surviving one": no link,
\* attempt, score or explanation goes but for its counterpart at a concept that
\* its own was merged into; only a job that starts again drops its links.  Merges
\* that crossed are excepted.
NothingLostStep ==
    \A w \in refs \ refs' :
        \/ w.kind = "link" /\ job'[w.key].pc = "find"
        \/ \E d \in Heirs'[w.concept] : [w EXCEPT !.concept = d] \in refs'
        \/ LeadsIntoCrossed(w.concept)'
NothingLost == [][NothingLostStep]_vars

\* "Serve the winner's row": as long as a concept is not merged away, everybody
\* who is answered one of its variants reads the same text.
OneTextPerVariant ==
    \A x, y \in told :
        x.concept = y.concept /\ x.variant = y.variant /\ merged[x.concept] = 0
            => x.text = y.text

\* A name gets a second concept only when two jobs were creating it at once.
TwinsOnlyFromARace ==
    \A c, d \in Concepts : c # d /\ Exists(c) /\ name[c] = name[d] => name[c] \in raced

\* From every concept the chain of merges leads to one that is not merged away.
Chain == {<<c, merged[c]>> : c \in {d \in Concepts : merged[d] # 0}}
ChainsEnd == \A c \in Concepts : \E d \in Reach(Chain, c) : merged[d] = 0

\* "Follow merge chain to the surviving concept": merges may be of any pairs, in
\* any order, of several administrators at once and of a concept for the second
\* time, and there goes on to be one, until a merge commits into a concept that
\* was itself merged away by then.  The code does not look whether it was.
ChainsKeepAnEndStep ==
    ChainsEnd => \/ ChainsEnd'
                 \/ \E c \in Concepts : merged'[c] # merged[c] /\ merged[merged'[c]] # 0
ChainsKeepAnEnd == [][ChainsKeepAnEndStep]_vars
=============================================================================
