------------------------------- MODULE Sharing -------------------------------
(***************************************************************************)
(* What happens to a finished course between its owner and other people:   *)
(* CourseShareService (publish, fork, report), ClassroomService (create,   *)
(* refresh the code, join), MarketplaceService (submit, approve, reject),  *)
(* the age bracket of AuthService.updateProfile, and the deletion of the   *)
(* course (CourseMaintenanceService.destroyCourse) under all of them.      *)
(*                                                                         *)
(* Every handler reads in one statement and writes in a later one; `at` is *)
(* the statement a request has reached.  All courses belong to one Owner,  *)
(* who is also the teacher of their classrooms and their creator on the    *)
(* marketplace; role and price are set in the database by an operator.     *)
(***************************************************************************)
EXTENDS Naturals, FiniteSets

CONSTANTS
    Courses, Users, Owner,
    Rooms, Codes,   \* classrooms, invite codes
    Entries,        \* rows of marketplace_review_queue
    Requests,       \* requests in flight
    None,           \* SQL NULL, or a row not created yet
    MaxFaults       \* bound: crashes, courses taken up again

ASSUME SharingAssumption ==
    /\ Owner \in Users
    /\ None \notin Courses \cup Users \cup Rooms \cup Codes \cup Entries
    /\ MaxFaults \in Nat

VARIABLES
    status,         \* Course.status, as far as it matters here; "gone": no row
    visibility,     \* Course.visibility
    bracket,        \* User.ageBracket
    forks,          \* CourseFork: <<student, course>>, a unique key
    room,           \* Classroom: course and invite code
    members,        \* ClassroomStudent: <<classroom, student>>, the key
    entry,          \* MarketplaceReviewQueue: course and status
    reported,       \* courses with CourseReport rows
    req,            \* a request's next statement, user and subject
    faults,         \* faults still allowed
    (* history, read by properties only *)
    invited,        \* <<user, course>>: has shown a valid code of a classroom
    wasAdult,       \* the Owner has been an adult account
    excused         \* users whose bracket may be unknown despite a classroom

rows == <<status, visibility, bracket, forks, room, members, entry, reported>>
history == <<invited, wasAdult, excused>>
vars == <<status, visibility, bracket, forks, room, members, entry, reported,
          req, faults, invited, wasAdult, excused>>

-----------------------------------------------------------------------------
Brackets == {"unknown", "adult", "minor_school_consented"}
Steps == {"idle", "publish", "publish-gate", "publish-write",
          "fork", "fork-create", "report", "room", "code",
          "join-fork", "join-member", "join-bracket",
          "delete", "delete-rows",
          "submit", "submit-gate", "submit-find", "submit-create",
          "approve", "reject"}
Idle == [at |-> "idle", user |-> None, on |-> None]

TypeOK ==
    /\ status \in [Courses -> {"unready", "ready", "gone"}]
    /\ visibility \in [Courses -> {"private", "public_shared"}]
    /\ bracket \in [Users -> Brackets]
    /\ forks \subseteq Users \X Courses
    /\ room \in [Rooms -> [course : Courses \cup {None}, code : Codes \cup {None}]]
    /\ \A r \in Rooms : room[r].course = None <=> room[r].code = None
    /\ members \subseteq Rooms \X Users
    /\ entry \in [Entries -> [course : Courses \cup {None},
                              status : {"unborn", "pending", "approved",
                                        "rejected", "deleted"}]]
    /\ \A e \in Entries : entry[e].course = None <=> entry[e].status = "unborn"
    /\ reported \subseteq Courses
    /\ req \in [Requests -> [at : Steps, user : Users \cup {None},
                             on : Courses \cup Rooms \cup Entries \cup {None}]]
    /\ faults \in 0..MaxFaults
    /\ invited \subseteq Users \X Courses
    /\ wasAdult \in BOOLEAN
    /\ excused \subseteq Users

Init ==
    /\ status = [c \in Courses |-> "ready"]
    /\ visibility = [c \in Courses |-> "private"]
    /\ bracket = [u \in Users |-> "unknown"]
    /\ forks = {} /\ members = {} /\ reported = {}
    /\ room = [r \in Rooms |-> [course |-> None, code |-> None]]
    /\ entry = [e \in Entries |-> [course |-> None, status |-> "unborn"]]
    /\ req = [q \in Requests |-> Idle]
    /\ faults = MaxFaults
    /\ invited = {} /\ wasAdult = FALSE /\ excused = {}

-----------------------------------------------------------------------------
(* A request starts at a statement, goes on to one, or ends. *)
Start(q, step, u, x) ==
    /\ req[q] = Idle
    /\ req' = [req EXCEPT ![q] = [at |-> step, user |-> u, on |-> x]]
Goto(q, step) == req' = [req EXCEPT ![q].at = step]
End(q) == req' = [req EXCEPT ![q] = Idle]
GotoIf(q, cond, step) == IF cond THEN Goto(q, step) ELSE End(q)
At(q, step) == req[q].at = step

Exists(c) == status[c] # "gone"
Created(r) == room[r].course # None
Unused == {k \in Codes : \A r \in Rooms : room[r].code # k}
OpenEntries(c) == {e \in Entries : /\ entry[e].course = c
                                   /\ entry[e].status \in {"pending", "approved"}}
(* The rows whose foreign keys refuse the deletion of a course. *)
Held(c) == \/ \E u \in Users : <<u, c>> \in forks
           \/ \E r \in Rooms : room[r].course = c

-----------------------------------------------------------------------------
(* Publishing: the owner's bracket, the course, the gate, the update.  The *)
(* gate's verdict depends on content that is not modelled; it is a choice. *)

\* Mutant: any bracket but a minor's is good enough.
NotAMinor == bracket[Owner] # "minor_school_consented"

AdultOwner == bracket[Owner] = "adult"

PublishCourse(q, c) ==
    /\ AdultOwner
    /\ Start(q, "publish", Owner, c)
    /\ UNCHANGED <<rows, history, faults>>

PublishCheck(q) ==
    /\ At(q, "publish")
    /\ GotoIf(q, status[req[q].on] = "ready", "publish-gate")
    /\ UNCHANGED <<rows, history, faults>>

RunProvenanceGate(q, from, to) ==
    /\ At(q, from)
    /\ \/ Goto(q, to) /\ Exists(req[q].on)
       \/ End(q)
    /\ UNCHANGED <<rows, history, faults>>

PublishWrite(q) ==
    /\ At(q, "publish-write") /\ End(q)
    /\ visibility' = IF Exists(req[q].on)
                     THEN [visibility EXCEPT ![req[q].on] = "public_shared"]
                     ELSE visibility
    /\ UNCHANGED <<status, bracket, forks, room, members, entry, reported,
                   history, faults>>

-----------------------------------------------------------------------------
(* Forks and reports of a public course. *)

\* Mutant: a private course can be forked by whoever knows its id.
ForkAny(q, u, c) ==
    /\ Exists(c) /\ u # Owner
    /\ Start(q, "fork", u, c)
    /\ UNCHANGED <<rows, history, faults>>

ForkCourse(q, u, c) ==
    /\ Exists(c) /\ u # Owner /\ visibility[c] = "public_shared"
    /\ Start(q, "fork", u, c)
    /\ UNCHANGED <<rows, history, faults>>

\* findFirst: an existing fork is returned.
ForkFind(q) ==
    /\ At(q, "fork")
    /\ GotoIf(q, <<req[q].user, req[q].on>> \notin forks, "fork-create")
    /\ UNCHANGED <<rows, history, faults>>

\* create: the loser of a race is given the winner's row.
ForkCreate(q) ==
    /\ At(q, "fork-create") /\ End(q)
    /\ forks' = IF Exists(req[q].on)
                THEN forks \cup {<<req[q].user, req[q].on>>}
                ELSE forks
    /\ UNCHANGED <<status, visibility, bracket, room, members, entry, reported,
                   history, faults>>

ReportCourse(q, u, c) ==
    /\ Exists(c) /\ visibility[c] = "public_shared"
    /\ Start(q, "report", u, c)
    /\ UNCHANGED <<rows, history, faults>>

ReportCreate(q) ==
    /\ At(q, "report") /\ End(q)
    /\ reported' = IF Exists(req[q].on) THEN reported \cup {req[q].on} ELSE reported
    /\ UNCHANGED <<status, visibility, bracket, forks, room, members, entry,
                   history, faults>>

-----------------------------------------------------------------------------
(* Classrooms.  Nothing in the code deletes one. *)

CreateClassroom(q, c) ==
    /\ status[c] = "ready"
    /\ Start(q, "room", Owner, c)
    /\ UNCHANGED <<rows, history, faults>>

\* create, with another code should the first be taken; that may be taken too.
RoomCreate(q) ==
    /\ At(q, "room") /\ End(q)
    /\ \/ /\ Exists(req[q].on)
          /\ \E r \in Rooms, k \in Unused :
                /\ ~Created(r)
                /\ room' = [room EXCEPT ![r] = [course |-> req[q].on, code |-> k]]
       \/ (~Exists(req[q].on) \/ Unused # Codes) /\ UNCHANGED room
    /\ UNCHANGED <<status, visibility, bracket, forks, members, entry, reported,
                   history, faults>>

RefreshCode(q, r) ==
    /\ Created(r)
    /\ Start(q, "code", Owner, r)
    /\ UNCHANGED <<rows, history, faults>>

\* Mutant: a code that is taken leaves the classroom without one.
CodeCleared(q) ==
    /\ At(q, "code") /\ End(q)
    /\ \E k \in Unused \cup {None} : room' = [room EXCEPT ![req[q].on].code = k]
    /\ UNCHANGED <<status, visibility, bracket, forks, members, entry, reported,
                   history, faults>>

CodeWrite(q) ==
    /\ At(q, "code") /\ End(q)
    /\ \/ \E k \in Unused : room' = [room EXCEPT ![req[q].on].code = k]
       \/ UNCHANGED room
    /\ UNCHANGED <<status, visibility, bracket, forks, members, entry, reported,
                   history, faults>>

\* findFirst by id and code; who is enrolled already is done.
JoinClassroom(q, u, r, k) ==
    /\ Created(r) /\ room[r].code = k
    /\ <<r, u>> \notin members
    /\ Start(q, "join-fork", u, r)
    /\ invited' = invited \cup {<<u, room[r].course>>}
    /\ UNCHANGED <<rows, wasAdult, excused, faults>>

\* Mutant: an error of the upsert is swallowed.
JoinForkBestEffort(q) ==
    /\ At(q, "join-fork") /\ Goto(q, "join-member")
    /\ forks' \in {forks, forks \cup {<<req[q].user, room[req[q].on].course>>}}
    /\ UNCHANGED <<status, visibility, bracket, room, members, entry, reported,
                   history, faults>>

\* Mutant: a student with a fork is enrolled at once.
JoinForkKnown(q) ==
    LET f == <<req[q].user, room[req[q].on].course>> IN
    /\ At(q, "join-fork")
    /\ GotoIf(q, f \notin forks, "join-member")
    /\ forks' = forks \cup {f}
    /\ members' = IF f \in forks THEN members \cup {<<req[q].on, req[q].user>>}
                  ELSE members
    /\ UNCHANGED <<status, visibility, bracket, room, entry, reported,
                   history, faults>>

JoinFork(q) ==
    /\ At(q, "join-fork") /\ Goto(q, "join-member")
    /\ forks' = forks \cup {<<req[q].user, room[req[q].on].course>>}
    /\ UNCHANGED <<status, visibility, bracket, room, members, entry, reported,
                   history, faults>>

JoinMember(q) ==
    /\ At(q, "join-member") /\ Goto(q, "join-bracket")
    /\ members' = members \cup {<<req[q].on, req[q].user>>}
    /\ UNCHANGED <<status, visibility, bracket, forks, room, entry, reported,
                   history, faults>>

\* updateMany where the bracket is unknown.
JoinBracket(q) ==
    /\ At(q, "join-bracket") /\ End(q)
    /\ bracket' = [bracket EXCEPT ![req[q].user] =
                        IF @ = "unknown" THEN "minor_school_consented" ELSE @]
    /\ excused' = excused \ {req[q].user}
    /\ UNCHANGED <<status, visibility, forks, room, members, entry, reported,
                   invited, wasAdult, faults>>

\* PATCH /auth/me with a birth date.
UpdateProfile(u, b) ==
    /\ b \in {"adult", "unknown"}
    /\ bracket' = [bracket EXCEPT ![u] = b]
    /\ wasAdult' = (wasAdult \/ (u = Owner /\ b = "adult"))
    /\ excused' = IF b = "unknown" THEN excused \cup {u} ELSE excused
    /\ UNCHANGED <<status, visibility, forks, room, members, entry, reported,
                   req, invited, faults>>

-----------------------------------------------------------------------------
(* Deletion.  What is counted first and what foreign keys refuse later are *)
(* the same rows; purchases and certificates cannot exist in this build.   *)

DeleteCourse(q, c) ==
    /\ Exists(c)
    /\ Start(q, "delete", Owner, c)
    /\ UNCHANGED <<rows, history, faults>>

DeleteCount(q) ==
    /\ At(q, "delete")
    /\ GotoIf(q, ~Held(req[q].on), "delete-rows")
    /\ UNCHANGED <<rows, history, faults>>

\* Mutant: the foreign keys cascade, the counts alone protect the learners.
DeleteRowsCascading(q) ==
    /\ At(q, "delete-rows") /\ End(q)
    /\ LET c == req[q].on IN
       /\ reported' = reported \ {c}
       /\ entry' = [e \in Entries |->
                       IF entry[e].course = c
                       THEN [entry[e] EXCEPT !.status = "deleted"] ELSE entry[e]]
       /\ status' = [status EXCEPT ![c] = "gone"]
       /\ visibility' = [visibility EXCEPT ![c] = "private"]
       /\ forks' = {f \in forks : f[2] # c}
    /\ UNCHANGED <<bracket, room, members, history, faults>>

\* The transaction: reports, queue entries and the course, or nothing.
DeleteRows(q) ==
    /\ At(q, "delete-rows") /\ End(q)
    /\ LET c == req[q].on IN
       \/ /\ Exists(c) /\ ~Held(c)
          /\ reported' = reported \ {c}
          /\ entry' = [e \in Entries |->
                          IF entry[e].course = c
                          THEN [entry[e] EXCEPT !.status = "deleted"] ELSE entry[e]]
          /\ status' = [status EXCEPT ![c] = "gone"]
          /\ visibility' = [visibility EXCEPT ![c] = "private"]
       \/ /\ ~Exists(c) \/ Held(c)
          /\ UNCHANGED <<reported, entry, status, visibility>>
    /\ UNCHANGED <<bracket, forks, room, members, history, faults>>

-----------------------------------------------------------------------------
(* The marketplace.  Find and create are two statements of one transaction *)
(* at PostgreSQL's default level, which does not keep them together.       *)

SubmitForReview(q, c) ==
    /\ AdultOwner
    /\ Start(q, "submit", Owner, c)
    /\ UNCHANGED <<rows, history, faults>>

SubmitCheck(q) ==
    /\ At(q, "submit")
    /\ GotoIf(q, status[req[q].on] = "ready", "submit-gate")
    /\ UNCHANGED <<rows, history, faults>>

SubmitFind(q) ==
    /\ At(q, "submit-find")
    /\ GotoIf(q, OpenEntries(req[q].on) = {}, "submit-create")
    /\ UNCHANGED <<rows, history, faults>>

SubmitCreate(q) ==
    /\ At(q, "submit-create") /\ End(q)
    /\ \/ /\ Exists(req[q].on)
          /\ \E e \in Entries :
                /\ entry[e].status = "unborn"
                /\ entry' = [entry EXCEPT ![e] = [course |-> req[q].on,
                                                  status |-> "pending"]]
       \/ ~Exists(req[q].on) /\ UNCHANGED entry
    /\ UNCHANGED <<status, visibility, bracket, forks, room, members, reported,
                   history, faults>>

\* approveSubmission, rejectSubmission: the read, then the update by id.
Decide(q, e, decision) ==
    /\ entry[e].status = "pending"
    /\ Start(q, decision, None, e)
    /\ UNCHANGED <<rows, history, faults>>

DecideWrite(q, decision, verdict) ==
    /\ At(q, decision) /\ End(q)
    /\ entry' = IF entry[req[q].on].status = "deleted" THEN entry
                ELSE [entry EXCEPT ![req[q].on].status = verdict]
    /\ UNCHANGED <<status, visibility, bracket, forks, room, members, reported,
                   history, faults>>

-----------------------------------------------------------------------------
(* CourseLifecycle's part: a repeated confirmation, a new structure. *)
Reopen(c) ==
    /\ status[c] = "ready" /\ faults > 0 /\ faults' = faults - 1
    /\ status' = [status EXCEPT ![c] = "unready"]
    /\ UNCHANGED <<visibility, bracket, forks, room, members, entry, reported,
                   req, history>>

Restructured(c) ==
    /\ status[c] = "unready"
    /\ status' = [status EXCEPT ![c] = "ready"]
    /\ UNCHANGED <<visibility, bracket, forks, room, members, entry, reported,
                   req, history, faults>>

\* A statement fails or the process dies: the requests in Q end where they are.
Crash(Q) ==
    /\ faults > 0 /\ faults' = faults - 1
    /\ req' = [q \in Requests |-> IF q \in Q THEN Idle ELSE req[q]]
    /\ excused' = excused \cup {req[q].user : q \in {p \in Q : At(p, "join-bracket")}}
    /\ UNCHANGED <<rows, invited, wasAdult>>

OwnerStarts(q) ==
    \/ \E c \in Courses : \/ PublishCourse(q, c) \/ CreateClassroom(q, c)
                          \/ DeleteCourse(q, c) \/ SubmitForReview(q, c)
    \/ \E r \in Rooms : RefreshCode(q, r)

OthersStart(q) ==
    \/ \E u \in Users, c \in Courses : ForkCourse(q, u, c) \/ ReportCourse(q, u, c)
    \/ \E u \in Users, r \in Rooms, k \in Codes : JoinClassroom(q, u, r, k)
    \/ \E e \in Entries : Decide(q, e, "approve") \/ Decide(q, e, "reject")

Continues(q) ==
    \/ PublishCheck(q) \/ RunProvenanceGate(q, "publish-gate", "publish-write")
    \/ PublishWrite(q)
    \/ ForkFind(q) \/ ForkCreate(q) \/ ReportCreate(q)
    \/ RoomCreate(q) \/ CodeWrite(q)
    \/ JoinFork(q) \/ JoinMember(q) \/ JoinBracket(q)
    \/ DeleteCount(q) \/ DeleteRows(q)
    \/ SubmitCheck(q) \/ RunProvenanceGate(q, "submit-gate", "submit-find")
    \/ SubmitFind(q) \/ SubmitCreate(q)
    \/ DecideWrite(q, "approve", "approved") \/ DecideWrite(q, "reject", "rejected")

Next ==
    \/ \E q \in Requests : OwnerStarts(q) \/ OthersStart(q) \/ Continues(q)
    \/ \E u \in Users, b \in Brackets : UpdateProfile(u, b)
    \/ \E c \in Courses : Reopen(c) \/ Restructured(c)
    \/ \E Q \in (SUBSET {q \in Requests : req[q] # Idle}) \ {{}} : Crash(Q)

Spec == Init /\ [][Next]_vars

-----------------------------------------------------------------------------
(* Whatever a learner, a classroom, a report or an open queue entry refers *)
(* to is there, although the deletion counts the learners' rows long before *)
(* it deletes, and the others insert long after they have looked           *)
(* (destroyCourse, forkCourse, joinClassroom, submitForReview).            *)
NothingDangles ==
    /\ \A c \in Courses : Held(c) \/ c \in reported \/ OpenEntries(c) # {} => Exists(c)
    /\ \A m \in members : Created(m[1])

(* Whoever is on a classroom's roster has a fork of its course: the teacher's *)
(* dashboard joins the two, and joinClassroom writes them in two statements *)
(* that a crash may separate.                                              *)
EnrolledThroughFork ==
    \A m \in members : <<m[2], room[m[1]].course>> \in forks

(* A fork has come through one of two doors: the course is public, and still *)
(* is, or its student has shown the code of one of its classrooms          *)
(* (forkCourse, joinClassroom; nothing takes a course back from the public). *)
ForkHasADoor ==
    \A f \in forks : visibility[f[2]] = "public_shared" \/ f \in invited

(* What is public or on its way through the marketplace has been put there *)
(* by an account that was an adult's (publishCourse, submitForReview),     *)
(* whatever the profile says later.                                        *)
OfferedByAdults ==
    \A c \in Courses :
        visibility[c] = "public_shared" \/ OpenEntries(c) # {} => wasAdult

(* Once its join is over a student of a classroom has a bracket, whatever  *)
(* joins, forks and profile changes came in between.  Two exceptions are   *)
(* real: the student's own profile has said "not 18" since, which resets   *)
(* the bracket, or the join was cut off between membership and bracket, and *)
(* repeating it returns early (joinClassroom).                             *)
BracketedUnlessExcused ==
    \A m \in members :
        \/ bracket[m[2]] # "unknown" \/ m[2] \in excused
        \/ \E q \in Requests : At(q, "join-bracket") /\ req[q].user = m[2]

(* "the P2002 catch + findFirstOrThrow fallback on the recheck handles the *)
(* loser" of two concurrent submissions (submitForReview): at most one     *)
(* entry of a course is pending or approved.                               *)
OneOpenEntry == \A c \in Courses : Cardinality(OpenEntries(c)) <= 1
=============================================================================
