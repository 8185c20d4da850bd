--------------------------- MODULE Sharing_proofs ---------------------------
(***************************************************************************)
(* The safety properties of Sharing, for any number of courses, users,     *)
(* classrooms, queue entries, requests and faults.                         *)
(***************************************************************************)
EXTENDS Sharing, TLAPS

CourseSteps == {"publish", "publish-gate", "publish-write", "fork", "fork-create",
                "report", "room", "delete", "delete-rows",
                "submit", "submit-gate", "submit-find", "submit-create"}
ForkSteps == {"fork", "fork-create"}
OfferSteps == {"publish", "publish-gate", "publish-write",
               "submit", "submit-gate", "submit-find", "submit-create"}
JoinSteps == {"join-fork", "join-member", "join-bracket"}

\* What a request knows of its subject from the statements it has done.
Known(q) ==
    LET s == req[q].at  u == req[q].user  x == req[q].on IN
    /\ s \in CourseSteps => x \in Courses
    /\ s \in ForkSteps => /\ u \in Users
                          /\ visibility[x] = "public_shared" \/ ~Exists(x)
    /\ s \in OfferSteps => wasAdult
    /\ s \in JoinSteps \cup {"code"} => x \in Rooms /\ Created(x)
    /\ s \in JoinSteps => u \in Users /\ <<u, room[x].course>> \in invited
    /\ s \in {"join-member", "join-bracket"} => <<u, room[x].course>> \in forks
    /\ s \in {"approve", "reject"} => x \in Entries /\ entry[x].status # "unborn"

RequestInv == \A q \in Requests : Known(q)

\* The Owner cannot be an adult without having become one.
OwnerInv == bracket[Owner] = "adult" => wasAdult

\* Queue entries last as long as their course, decided ones too: a decision
\* made late may open one again.
EntryInv ==
    \A e \in Entries :
        /\ entry[e].status # "unborn" => wasAdult
        /\ entry[e].status \in {"pending", "approved", "rejected"} =>
                entry[e].course \in Courses /\ Exists(entry[e].course)

IInv == /\ TypeOK /\ RequestInv /\ OwnerInv /\ EntryInv
        /\ NothingDangles /\ EnrolledThroughFork /\ ForkHasADoor
        /\ OfferedByAdults /\ BracketedUnlessExcused

USE SharingAssumption DEF SharingAssumption

-----------------------------------------------------------------------------
(* The steps that change rows, and all the others. *)

Write(q) ==
    \/ PublishWrite(q) \/ ForkCreate(q) \/ ReportCreate(q) \/ RoomCreate(q)
    \/ CodeWrite(q) \/ JoinFork(q) \/ JoinMember(q) \/ JoinBracket(q)
    \/ DeleteRows(q) \/ SubmitCreate(q)
    \/ DecideWrite(q, "approve", "approved") \/ DecideWrite(q, "reject", "rejected")

Joins(q) == \E u \in Users, r \in Rooms, k \in Codes : JoinClassroom(q, u, r, k)

Reads(q) ==
    \/ OwnerStarts(q) \/ PublishCheck(q)
    \/ RunProvenanceGate(q, "publish-gate", "publish-write")
    \/ ForkFind(q) \/ DeleteCount(q) \/ SubmitCheck(q)
    \/ RunProvenanceGate(q, "submit-gate", "submit-find") \/ SubmitFind(q)
    \/ \E u \in Users, c \in Courses : ForkCourse(q, u, c) \/ ReportCourse(q, u, c)
    \/ \E e \in Entries : Decide(q, e, "approve") \/ Decide(q, e, "reject")

LEMMA ReadsWriteNothing ==
    ASSUME NEW q \in Requests, Reads(q)
    PROVE  UNCHANGED <<rows, history, faults>>
<1> USE DEF Reads
<1>1. CASE OwnerStarts(q)
    BY <1>1 DEF OwnerStarts, PublishCourse, CreateClassroom, DeleteCourse,
        SubmitForReview, RefreshCode
<1>2. CASE ~OwnerStarts(q)
    BY <1>2 DEF PublishCheck, RunProvenanceGate, ForkFind, DeleteCount, SubmitCheck,
        SubmitFind, ForkCourse, ReportCourse, Decide
<1> QED BY <1>1, <1>2

LEMMA NextCases ==
    ASSUME Next
    PROVE  \/ \E q \in Requests : Write(q) \/ Joins(q) \/ Reads(q)
           \/ \E u \in Users, b \in Brackets : UpdateProfile(u, b)
           \/ \E c \in Courses : Reopen(c) \/ Restructured(c)
           \/ \E Q \in SUBSET Requests : Crash(Q)
BY DEF Next, OthersStart, Continues, Write, Joins, Reads

-----------------------------------------------------------------------------
(* Types. *)

LEMMA ReqTyped ==
    ASSUME TypeOK, NEW q \in Requests
    PROVE  /\ req[q].at \in Steps /\ req[q].user \in Users \cup {None}
           /\ req[q].on \in Courses \cup Rooms \cup Entries \cup {None}
BY DEF TypeOK

LEMMA TypeInit == Init => TypeOK
<1> SUFFICES ASSUME Init PROVE TypeOK
  OBVIOUS
<1>1. /\ status \in [Courses -> {"unready", "ready", "gone"}]
      /\ visibility \in [Courses -> {"private", "public_shared"}]
      /\ bracket \in [Users -> Brackets]
  BY DEF Init, Brackets
<1>2. /\ room \in [Rooms -> [course : Courses \cup {None}, code : Codes \cup {None}]]
      /\ \A r \in Rooms : room[r].course = None <=> room[r].code = None
  BY DEF Init
<1>3. /\ entry \in [Entries -> [course : Courses \cup {None},
                               status : {"unborn", "pending", "approved",
                                         "rejected", "deleted"}]]
      /\ \A e \in Entries : entry[e].course = None <=> entry[e].status = "unborn"
  BY DEF Init
<1>4. req \in [Requests -> [at : Steps, user : Users \cup {None},
                            on : Courses \cup Rooms \cup Entries \cup {None}]]
  BY DEF Init, Idle, Steps
<1>5. faults \in 0..MaxFaults
  BY DEF Init
<1>6. /\ wasAdult \in BOOLEAN
      /\ forks = {} /\ members = {} /\ reported = {} /\ invited = {} /\ excused = {}
  BY DEF Init
<1> QED BY <1>1, <1>2, <1>3, <1>4, <1>5, <1>6 DEF TypeOK

Requested == [Requests -> [at : Steps, user : Users \cup {None},
                           on : Courses \cup Rooms \cup Entries \cup {None}]]

\* Start, Goto and End keep the type of req.
LEMMA ReqMoves ==
    ASSUME TypeOK, NEW q \in Requests, NEW s \in Steps
    PROVE  /\ Goto(q, s) => req' \in Requested
           /\ End(q) => req' \in Requested
           /\ \A u \in Users \cup {None}, x \in Courses \cup Rooms \cup Entries :
                Start(q, s, u, x) => req' \in Requested
<1>1. req \in Requested
  BY DEF TypeOK, Requested
<1>2. Idle \in [at : Steps, user : Users \cup {None},
                on : Courses \cup Rooms \cup Entries \cup {None}]
  BY DEF Idle, Steps
<1>3. Goto(q, s) => req' \in Requested
  BY <1>1 DEF Goto, Requested
<1>4. End(q) => req' \in Requested
  BY <1>1, <1>2 DEF End, Requested
<1>5. ASSUME NEW u \in Users \cup {None}, NEW x \in Courses \cup Rooms \cup Entries,
             Start(q, s, u, x)
      PROVE  req' \in Requested
  BY <1>1, <1>5 DEF Start, Requested
<1> QED BY <1>3, <1>4, <1>5

LEMMA ReadsTyped ==
    ASSUME TypeOK, NEW q \in Requests, Reads(q)
    PROVE  req' \in Requested
<1>1. ASSUME NEW c \in Courses,
             PublishCourse(q, c) \/ CreateClassroom(q, c) \/ DeleteCourse(q, c)
             \/ SubmitForReview(q, c)
      PROVE  req' \in Requested
  BY <1>1, ReqMoves DEF PublishCourse, CreateClassroom, DeleteCourse,
      SubmitForReview, Steps
<1>2. ASSUME NEW r \in Rooms, RefreshCode(q, r)
      PROVE  req' \in Requested
  BY <1>2, ReqMoves DEF RefreshCode, Steps
<1>3. ASSUME NEW u \in Users, NEW c \in Courses,
             ForkCourse(q, u, c) \/ ReportCourse(q, u, c)
      PROVE  req' \in Requested
  BY <1>3, ReqMoves DEF ForkCourse, ReportCourse, Steps
<1>4. ASSUME NEW e \in Entries, Decide(q, e, "approve") \/ Decide(q, e, "reject")
      PROVE  req' \in Requested
  BY <1>4, ReqMoves DEF Decide, Steps
<1>5. CASE \/ PublishCheck(q) \/ ForkFind(q) \/ DeleteCount(q)
           \/ SubmitCheck(q) \/ SubmitFind(q)
  BY <1>5, ReqMoves DEF PublishCheck, ForkFind, DeleteCount, SubmitCheck, SubmitFind,
      GotoIf, Steps
<1>6. CASE \/ RunProvenanceGate(q, "publish-gate", "publish-write")
           \/ RunProvenanceGate(q, "submit-gate", "submit-find")
  BY <1>6, ReqMoves DEF RunProvenanceGate, Steps
<1> QED BY <1>1, <1>2, <1>3, <1>4, <1>5, <1>6 DEF Reads, OwnerStarts

LEMMA WritesTyped ==
    ASSUME TypeOK, NEW q \in Requests, Write(q)
    PROVE  req' \in Requested
<1>1. CASE JoinFork(q) \/ JoinMember(q)
  BY <1>1, ReqMoves DEF JoinFork, JoinMember, Steps
<1>2. CASE ~JoinFork(q) /\ ~JoinMember(q)
  <2>1. End(q)
    BY <1>2 DEF Write, PublishWrite, ForkCreate, ReportCreate, RoomCreate, CodeWrite,
        JoinBracket, DeleteRows, SubmitCreate, DecideWrite
  <2> QED BY <2>1, ReqMoves DEF Steps
<1> QED BY <1>1, <1>2

\* What a request at each of its statements has in hand.
LEMMA Subject ==
    ASSUME TypeOK, RequestInv, NEW q \in Requests
    PROVE  /\ req[q].at \in CourseSteps => req[q].on \in Courses
           /\ req[q].at \in ForkSteps \cup JoinSteps => req[q].user \in Users
           /\ req[q].at \in JoinSteps \cup {"code"} =>
                req[q].on \in Rooms /\ Created(req[q].on)
                /\ room[req[q].on].course \in Courses
           /\ req[q].at \in {"approve", "reject"} =>
                req[q].on \in Entries /\ entry[req[q].on].status # "unborn"
<1>1. /\ req[q].at \in CourseSteps => req[q].on \in Courses
      /\ req[q].at \in ForkSteps \cup JoinSteps => req[q].user \in Users
      /\ req[q].at \in JoinSteps \cup {"code"} => req[q].on \in Rooms /\ Created(req[q].on)
      /\ req[q].at \in {"approve", "reject"} =>
            req[q].on \in Entries /\ entry[req[q].on].status # "unborn"
  BY DEF RequestInv, Known
<1>2. ASSUME NEW r \in Rooms, Created(r) PROVE room[r].course \in Courses
  BY <1>2 DEF TypeOK, Created
<1> QED BY <1>1, <1>2

LEMMA TypeStep == TypeOK /\ RequestInv /\ [Next]_vars => TypeOK'
<1> SUFFICES ASSUME TypeOK, RequestInv, [Next]_vars PROVE TypeOK'
  OBVIOUS
<1>1. CASE UNCHANGED vars
  BY <1>1 DEF vars, TypeOK
<1>2. ASSUME NEW q \in Requests, Reads(q) PROVE TypeOK'
  BY <1>2, ReadsWriteNothing, ReadsTyped DEF rows, history, TypeOK, Requested
<1>3. ASSUME NEW q \in Requests, NEW u \in Users, NEW r \in Rooms, NEW k \in Codes,
             JoinClassroom(q, u, r, k)
      PROVE  TypeOK'
  <2>1. req' \in Requested
    BY <1>3, ReqMoves DEF JoinClassroom, Steps
  <2>2. room[r].course \in Courses
    BY <1>3 DEF JoinClassroom, TypeOK, Created
  <2>3. invited' \subseteq Users \X Courses
    BY <1>3, <2>2 DEF JoinClassroom, TypeOK
  <2> QED BY <1>3, <2>1, <2>3 DEF JoinClassroom, rows, TypeOK, Requested
<1>4. ASSUME NEW u \in Users, NEW b \in Brackets, UpdateProfile(u, b) PROVE TypeOK'
  <2>1. /\ bracket' \in [Users -> Brackets] /\ wasAdult' \in BOOLEAN
        /\ excused' \subseteq Users
    BY <1>4 DEF UpdateProfile, TypeOK
  <2> QED BY <1>4, <2>1 DEF UpdateProfile, TypeOK
<1>5. ASSUME NEW c \in Courses, Reopen(c) \/ Restructured(c) PROVE TypeOK'
  <2>1. status' \in [Courses -> {"unready", "ready", "gone"}] /\ faults' \in 0..MaxFaults
    BY <1>5 DEF Reopen, Restructured, TypeOK
  <2> QED BY <1>5, <2>1 DEF Reopen, Restructured, history, TypeOK
<1>6. ASSUME NEW Q \in SUBSET Requests, Crash(Q) PROVE TypeOK'
  <2>1. faults' \in 0..MaxFaults
    BY <1>6 DEF Crash, TypeOK
  <2>2. Idle \in [at : Steps, user : Users \cup {None},
                  on : Courses \cup Rooms \cup Entries \cup {None}]
    BY DEF Idle, Steps
  <2>3. req' \in Requested
    BY <1>6, <2>2 DEF Crash, TypeOK, Requested
  <2>4. \A q \in Q : At(q, "join-bracket") => req[q].user \in Users
    BY Subject DEF At, JoinSteps
  <2>5. excused' \subseteq Users
    BY <1>6, <2>4 DEF Crash, TypeOK
  <2> QED BY <1>6, <2>1, <2>3, <2>5 DEF Crash, rows, TypeOK, Requested
<1>7. ASSUME NEW q \in Requests, Write(q) PROVE TypeOK'
  <2> DEFINE x == req[q].on  u == req[q].user
  <2>1. req' \in Requested
    BY <1>7, WritesTyped
  <2>2. CASE PublishWrite(q)
    <3>1. visibility' \in [Courses -> {"private", "public_shared"}]
      BY <2>2 DEF PublishWrite, TypeOK
    <3> QED BY <2>1, <2>2, <3>1 DEF PublishWrite, history, TypeOK, Requested
  <2>3. CASE ForkCreate(q)
    <3>1. <<u, x>> \in Users \X Courses
      BY <2>3, Subject DEF ForkCreate, At, ForkSteps, CourseSteps
    <3> QED BY <2>1, <2>3, <3>1 DEF ForkCreate, history, TypeOK, Requested
  <2>4. CASE ReportCreate(q)
    <3>1. x \in Courses
      BY <2>4, Subject DEF ReportCreate, At, CourseSteps
    <3> QED BY <2>1, <2>4, <3>1 DEF ReportCreate, history, TypeOK, Requested
  <2>5. CASE RoomCreate(q)
    <3>1. x \in Courses
      BY <2>5, Subject DEF RoomCreate, At, CourseSteps
    <3>2. CASE UNCHANGED room
      BY <2>1, <2>5, <3>2 DEF RoomCreate, history, TypeOK, Requested
    <3>3. ASSUME NEW r \in Rooms, NEW k \in Unused,
                 room' = [room EXCEPT ![r] = [course |-> x, code |-> k]]
          PROVE  TypeOK'
      <4>1. k \in Codes /\ k # None /\ x # None
        BY <3>1 DEF Unused
      <4>2. room' \in [Rooms -> [course : Courses \cup {None}, code : Codes \cup {None}]]
        BY <3>1, <3>3, <4>1 DEF TypeOK
      <4>3. \A i \in Rooms : room'[i].course = None <=> room'[i].code = None
        BY <3>3, <4>1 DEF TypeOK
      <4> QED BY <2>1, <2>5, <4>2, <4>3 DEF RoomCreate, history, TypeOK, Requested
    <3> QED BY <2>5, <3>2, <3>3 DEF RoomCreate
  <2>6. CASE CodeWrite(q)
    <3>1. x \in Rooms /\ Created(x)
      BY <2>6, Subject DEF CodeWrite, At
    <3>2. CASE UNCHANGED room
      BY <2>1, <2>6, <3>2 DEF CodeWrite, history, TypeOK, Requested
    <3>3. ASSUME NEW k \in Unused, room' = [room EXCEPT ![x].code = k]
          PROVE  TypeOK'
      <4>1. k \in Codes /\ k # None /\ room[x].course # None
        BY <3>1 DEF Unused, Created
      <4>2. room' \in [Rooms -> [course : Courses \cup {None}, code : Codes \cup {None}]]
        BY <3>1, <3>3, <4>1 DEF TypeOK
      <4>3. \A i \in Rooms : room'[i].course = None <=> room'[i].code = None
        BY <3>1, <3>3, <4>1 DEF TypeOK
      <4> QED BY <2>1, <2>6, <4>2, <4>3 DEF CodeWrite, history, TypeOK, Requested
    <3> QED BY <2>6, <3>2, <3>3 DEF CodeWrite
  <2>7. CASE JoinFork(q) \/ JoinMember(q)
    <3>1. u \in Users /\ x \in Rooms /\ room[x].course \in Courses
      BY <2>7, Subject DEF JoinFork, JoinMember, At, JoinSteps
    <3>2. forks' \subseteq Users \X Courses /\ members' \subseteq Rooms \X Users
      BY <2>7, <3>1 DEF JoinFork, JoinMember, TypeOK
    <3> QED BY <2>1, <2>7, <3>2 DEF JoinFork, JoinMember, history, TypeOK, Requested
  <2>8. CASE JoinBracket(q)
    <3>1. bracket' \in [Users -> Brackets] /\ excused' \subseteq Users
      BY <2>8 DEF JoinBracket, TypeOK, Brackets
    <3> QED BY <2>1, <2>8, <3>1 DEF JoinBracket, TypeOK, Requested
  <2>9. CASE DeleteRows(q)
    <3>1. x \in Courses
      BY <2>9, Subject DEF DeleteRows, At, CourseSteps
    <3>2. /\ status' \in [Courses -> {"unready", "ready", "gone"}]
          /\ visibility' \in [Courses -> {"private", "public_shared"}]
          /\ reported' \subseteq Courses
      BY <2>9, <3>1 DEF DeleteRows, TypeOK
    <3>3. /\ entry' \in [Entries -> [course : Courses \cup {None},
                                     status : {"unborn", "pending", "approved",
                                               "rejected", "deleted"}]]
          /\ \A e \in Entries : entry'[e].course = None <=> entry'[e].status = "unborn"
      <4>1. CASE entry' = entry
        BY <4>1 DEF TypeOK
      <4>2. CASE entry' = [e \in Entries |->
                              IF entry[e].course = x
                              THEN [entry[e] EXCEPT !.status = "deleted"] ELSE entry[e]]
        <5>1. \A e \in Entries :
                 entry[e] \in [course : Courses \cup {None},
                               status : {"unborn", "pending", "approved",
                                         "rejected", "deleted"}]
          BY DEF TypeOK
        <5>2. \A e \in Entries : entry'[e].course = entry[e].course
          BY <4>2, <5>1
        <5>3. \A e \in Entries : entry'[e].status =
                 IF entry[e].course = x THEN "deleted" ELSE entry[e].status
          BY <4>2, <5>1
        <5>4. \A e \in Entries : entry'[e].course = None <=> entry'[e].status = "unborn"
          BY <3>1, <5>2, <5>3, SharingAssumption DEF TypeOK
        <5> QED BY <4>2, <5>1, <5>4
      <4> QED BY <2>9, <4>1, <4>2 DEF DeleteRows
    <3> QED BY <2>1, <2>9, <3>2, <3>3 DEF DeleteRows, history, TypeOK, Requested
  <2>10. CASE SubmitCreate(q)
    <3>1. x \in Courses
      BY <2>10, Subject DEF SubmitCreate, At, CourseSteps
    <3>2. /\ entry' \in [Entries -> [course : Courses \cup {None},
                                     status : {"unborn", "pending", "approved",
                                               "rejected", "deleted"}]]
          /\ \A e \in Entries : entry'[e].course = None <=> entry'[e].status = "unborn"
      BY <2>10, <3>1 DEF SubmitCreate, TypeOK
    <3> QED BY <2>1, <2>10, <3>2 DEF SubmitCreate, history, TypeOK, Requested
  <2>11. ASSUME NEW d \in {"approve", "reject"}, NEW v \in {"approved", "rejected"},
                DecideWrite(q, d, v)
         PROVE  TypeOK'
    <3>1. x \in Entries /\ entry[x].status # "unborn"
      BY <2>11, Subject DEF DecideWrite, At
    <3>2. /\ entry' \in [Entries -> [course : Courses \cup {None},
                                     status : {"unborn", "pending", "approved",
                                               "rejected", "deleted"}]]
          /\ \A e \in Entries : entry'[e].course = None <=> entry'[e].status = "unborn"
      BY <2>11, <3>1 DEF DecideWrite, TypeOK
    <3> QED BY <2>1, <2>11, <3>2 DEF DecideWrite, history, TypeOK, Requested
  <2> QED BY <1>7, <2>2, <2>3, <2>4, <2>5, <2>6, <2>7, <2>8, <2>9, <2>10, <2>11 DEF Write
<1> QED BY <1>1, <1>2, <1>3, <1>4, <1>5, <1>6, <1>7, NextCases DEF Joins

-----------------------------------------------------------------------------
(* What a request has read stays true of the rows it is about. *)

Lasting ==
    /\ wasAdult => wasAdult'
    /\ invited \subseteq invited' /\ forks \subseteq forks'
    /\ \A r \in Rooms : Created(r) => room'[r].course = room[r].course
    /\ \A e \in Entries : entry[e].status # "unborn" => entry'[e].status # "unborn"
    /\ \A c \in Courses : visibility[c] = "public_shared" \/ ~Exists(c) =>
                             visibility'[c] = "public_shared" \/ ~Exists(c)'

LEMMA NextLasting ==
    ASSUME TypeOK, RequestInv, Next
    PROVE  Lasting
<1>1. ASSUME NEW q \in Requests, Reads(q) PROVE Lasting
  BY <1>1, ReadsWriteNothing DEF rows, history, Lasting, Exists
<1>2. ASSUME NEW q \in Requests, Joins(q) PROVE Lasting
  BY <1>2 DEF Joins, JoinClassroom, rows, Lasting, Exists
<1>3. ASSUME NEW u \in Users, NEW b \in Brackets, UpdateProfile(u, b) PROVE Lasting
  BY <1>3 DEF UpdateProfile, Lasting, Exists
<1>4. ASSUME NEW c \in Courses, Reopen(c) \/ Restructured(c) PROVE Lasting
  BY <1>4 DEF Reopen, Restructured, history, Lasting, Exists, TypeOK
<1>5. ASSUME NEW Q \in SUBSET Requests, Crash(Q) PROVE Lasting
  BY <1>5 DEF Crash, rows, Lasting, Exists
<1>6. ASSUME NEW q \in Requests, Write(q) PROVE Lasting
  <2>1. CASE PublishWrite(q)
    BY <2>1 DEF PublishWrite, history, Lasting, Exists, TypeOK
  <2>2. CASE ForkCreate(q) \/ ReportCreate(q) \/ JoinFork(q) \/ JoinMember(q)
             \/ JoinBracket(q)
    BY <2>2 DEF ForkCreate, ReportCreate, JoinFork, JoinMember, JoinBracket, history,
        Lasting, Exists
  <2>3. CASE RoomCreate(q)
    BY <2>3 DEF RoomCreate, history, Lasting, Exists, Created, TypeOK
  <2>4. CASE CodeWrite(q)
    <3>1. req[q].on \in Rooms
      BY <2>4, Subject DEF CodeWrite, At
    <3>2. \A r \in Rooms : room'[r].course = room[r].course
      <4>1. CASE UNCHANGED room
        BY <4>1
      <4>2. ASSUME NEW k \in Unused, room' = [room EXCEPT ![req[q].on].code = k]
            PROVE  \A r \in Rooms : room'[r].course = room[r].course
        BY <3>1, <4>2 DEF TypeOK
      <4> QED BY <2>4, <4>1, <4>2 DEF CodeWrite
    <3> QED BY <2>4, <3>2 DEF CodeWrite, history, Lasting, Exists
  <2>5. CASE DeleteRows(q)
    <3>1. req[q].on \in Courses
      BY <2>5, Subject DEF DeleteRows, At, CourseSteps
    <3>2. \A e \in Entries : entry[e].status # "unborn" => entry'[e].status # "unborn"
      BY <2>5, <3>1 DEF DeleteRows, TypeOK
    <3>3. \A c \in Courses : visibility[c] = "public_shared" \/ ~Exists(c) =>
                                visibility'[c] = "public_shared" \/ ~Exists(c)'
      BY <2>5, <3>1 DEF DeleteRows, TypeOK, Exists
    <3> QED BY <2>5, <3>2, <3>3 DEF DeleteRows, history, Lasting
  <2>6. CASE SubmitCreate(q)
    BY <2>6 DEF SubmitCreate, history, Lasting, Exists, TypeOK
  <2>7. ASSUME NEW d \in {"approve", "reject"}, NEW v \in {"approved", "rejected"},
               DecideWrite(q, d, v)
        PROVE  Lasting
    BY <2>7 DEF DecideWrite, history, Lasting, Exists, TypeOK
  <2> QED BY <1>6, <2>1, <2>2, <2>3, <2>4, <2>5, <2>6, <2>7 DEF Write
<1> QED BY <1>1, <1>2, <1>3, <1>4, <1>5, <1>6, NextCases

LEMMA StillKnown ==
    ASSUME TypeOK, Lasting, NEW q \in Requests, Known(q), req'[q] = req[q]
    PROVE  Known(q)'
BY DEF Known, Lasting, Created, TypeOK, CourseSteps, ForkSteps, OfferSteps, JoinSteps

LEMMA IdleKnown ==
    ASSUME NEW q \in Requests, req'[q] = Idle
    PROVE  Known(q)'
BY DEF Known, Idle, CourseSteps, ForkSteps, OfferSteps, JoinSteps

LEMMA OwnerStep == TypeOK /\ OwnerInv /\ [Next]_vars => OwnerInv'
<1> SUFFICES ASSUME TypeOK, OwnerInv, [Next]_vars PROVE OwnerInv'
  OBVIOUS
<1>1. CASE UNCHANGED <<bracket, wasAdult>>
  BY <1>1 DEF OwnerInv
<1>2. ASSUME NEW u \in Users, NEW b \in Brackets, UpdateProfile(u, b) PROVE OwnerInv'
  BY <1>2 DEF UpdateProfile, OwnerInv, TypeOK
<1>3. ASSUME NEW q \in Requests, JoinBracket(q) PROVE OwnerInv'
  BY <1>3 DEF JoinBracket, OwnerInv, TypeOK
<1>4. ASSUME NEW q \in Requests, Write(q), ~JoinBracket(q) PROVE UNCHANGED <<bracket, wasAdult>>
  BY <1>4 DEF Write, PublishWrite, ForkCreate, ReportCreate, RoomCreate, CodeWrite,
      JoinFork, JoinMember, DeleteRows, SubmitCreate, DecideWrite, history
<1>5. ASSUME NEW q \in Requests, Reads(q) \/ Joins(q) PROVE UNCHANGED <<bracket, wasAdult>>
  BY <1>5, ReadsWriteNothing DEF Joins, JoinClassroom, rows, history
<1>6. ASSUME NEW c \in Courses, Reopen(c) \/ Restructured(c) PROVE UNCHANGED <<bracket, wasAdult>>
  BY <1>6 DEF Reopen, Restructured, history
<1>7. ASSUME NEW Q \in SUBSET Requests, Crash(Q) PROVE UNCHANGED <<bracket, wasAdult>>
  BY <1>7 DEF Crash, rows
<1> QED BY <1>1, <1>2, <1>3, <1>4, <1>5, <1>6, <1>7, NextCases DEF vars

LEMMA RequestStep == TypeOK /\ RequestInv /\ OwnerInv /\ [Next]_vars => RequestInv'
<1> SUFFICES ASSUME TypeOK, RequestInv, OwnerInv, [Next]_vars PROVE RequestInv'
  OBVIOUS
<1>1. CASE UNCHANGED vars
  BY <1>1 DEF vars, RequestInv, Known, Exists, Created
<1> SUFFICES ASSUME Next, NEW i \in Requests PROVE Known(i)'
  BY <1>1 DEF RequestInv
<1> USE DEF At
<1>2. Lasting /\ Known(i)
  BY NextLasting DEF RequestInv
<1>3. CASE req'[i] = req[i]
  BY <1>2, <1>3, StillKnown
<1>4. CASE req'[i] = Idle
  BY <1>4, IdleKnown
<1>5. ASSUME NEW q \in Requests, q # i, Write(q) \/ Joins(q) \/ Reads(q)
      PROVE  req'[i] = req[i]
  <2>1. CASE Write(q)
    BY <1>5, <2>1 DEF Write, PublishWrite, ForkCreate, ReportCreate, RoomCreate, CodeWrite,
        JoinFork, JoinMember, JoinBracket, DeleteRows, SubmitCreate, DecideWrite,
        End, Goto, TypeOK
  <2>2. CASE Joins(q)
    BY <1>5, <2>2 DEF Joins, JoinClassroom, Start, TypeOK
  <2>3. CASE Reads(q)
    BY <1>5, <2>3 DEF Reads, OwnerStarts, PublishCourse, CreateClassroom, DeleteCourse,
        SubmitForReview, RefreshCode, PublishCheck, RunProvenanceGate, ForkFind,
        DeleteCount, SubmitCheck, SubmitFind, ForkCourse, ReportCourse, Decide,
        Start, Goto, End, GotoIf, TypeOK
  <2> QED BY <1>5, <2>1, <2>2, <2>3
<1>6. CASE \/ \E u \in Users, b \in Brackets : UpdateProfile(u, b)
           \/ \E c \in Courses : Reopen(c) \/ Restructured(c)
  BY <1>3, <1>6 DEF UpdateProfile, Reopen, Restructured
<1>7. ASSUME NEW Q \in SUBSET Requests, Crash(Q) PROVE Known(i)'
  BY <1>3, <1>4, <1>7 DEF Crash
<1>8. CASE Joins(i)
  <2>1. PICK u \in Users, r \in Rooms, k \in Codes : JoinClassroom(i, u, r, k)
    BY <1>8 DEF Joins
  <2>2. /\ req'[i] = [at |-> "join-fork", user |-> u, on |-> r]
        /\ Created(r) /\ room' = room /\ <<u, room[r].course>> \in invited'
    BY <2>1 DEF JoinClassroom, Start, rows, TypeOK
  <2> QED BY <2>2 DEF Known, Created, CourseSteps, ForkSteps, OfferSteps, JoinSteps
<1>9. CASE Write(i)
  <2>1. CASE JoinFork(i)
    <3>1. /\ req'[i] = [req[i] EXCEPT !.at = "join-member"] /\ room' = room
          /\ invited' = invited /\ <<req[i].user, room[req[i].on].course>> \in forks'
      BY <2>1 DEF JoinFork, Goto, history, TypeOK
    <3>2. req[i].at = "join-fork"
      BY <2>1 DEF JoinFork
    <3> QED BY <1>2, <3>1, <3>2, ReqTyped
        DEF Known, Created, CourseSteps, ForkSteps, OfferSteps, JoinSteps
  <2>2. CASE JoinMember(i)
    <3>1. /\ req'[i] = [req[i] EXCEPT !.at = "join-bracket"]
          /\ room' = room /\ invited' = invited /\ forks' = forks
      BY <2>2 DEF JoinMember, Goto, history, TypeOK
    <3>2. req[i].at = "join-member"
      BY <2>2 DEF JoinMember
    <3> QED BY <1>2, <3>1, <3>2, ReqTyped
        DEF Known, Created, CourseSteps, ForkSteps, OfferSteps, JoinSteps
  <2>3. CASE ~JoinFork(i) /\ ~JoinMember(i)
    <3>1. req'[i] = Idle
      BY <1>9, <2>3 DEF Write, PublishWrite, ForkCreate, ReportCreate, RoomCreate,
          CodeWrite, JoinBracket, DeleteRows, SubmitCreate, DecideWrite, End, TypeOK
    <3> QED BY <1>4, <3>1
  <2> QED BY <2>1, <2>2, <2>3
<1>10. CASE Reads(i)
  <2>1. UNCHANGED <<rows, history>>
    BY <1>10, ReadsWriteNothing
  <2>2. ASSUME NEW c \in Courses, NEW u \in Users, NEW s \in CourseSteps,
               req'[i] = [at |-> s, user |-> u, on |-> c],
               s \in ForkSteps => visibility[c] = "public_shared",
               s \in OfferSteps => wasAdult
        PROVE  Known(i)'
    BY <2>1, <2>2 DEF rows, history, Known, Exists, CourseSteps, ForkSteps, OfferSteps,
        JoinSteps
  <2>3. ASSUME NEW c \in Courses,
               PublishCourse(i, c) \/ CreateClassroom(i, c) \/ DeleteCourse(i, c)
               \/ SubmitForReview(i, c)
        PROVE  Known(i)'
    BY <2>2, <2>3, ZenonT(60) DEF PublishCourse, CreateClassroom, DeleteCourse, SubmitForReview,
        AdultOwner, OwnerInv, Start, TypeOK, CourseSteps, ForkSteps, OfferSteps
  <2>4. ASSUME NEW r \in Rooms, RefreshCode(i, r) PROVE Known(i)'
    <3>1. req'[i] = [at |-> "code", user |-> Owner, on |-> r] /\ Created(r)
      BY <2>4 DEF RefreshCode, Start, TypeOK
    <3> QED BY <2>1, <3>1 DEF rows, Known, Created, CourseSteps, ForkSteps, OfferSteps,
        JoinSteps
  <2>5. ASSUME NEW u \in Users, NEW c \in Courses,
               ForkCourse(i, u, c) \/ ReportCourse(i, u, c)
        PROVE  Known(i)'
    BY <2>2, <2>5 DEF ForkCourse, ReportCourse, Start, TypeOK, CourseSteps, ForkSteps,
        OfferSteps
  <2>6. ASSUME NEW e \in Entries, Decide(i, e, "approve") \/ Decide(i, e, "reject")
        PROVE  Known(i)'
    <3>1. /\ req'[i].at \in {"approve", "reject"} /\ req'[i].on = e
          /\ entry[e].status = "pending"
      BY <2>6 DEF Decide, Start, TypeOK
    <3> QED BY <2>1, <3>1 DEF rows, Known, CourseSteps, ForkSteps, OfferSteps, JoinSteps
  <2>7. ASSUME NEW s \in CourseSteps, NEW t \in CourseSteps, req[i].at = s,
               s \in ForkSteps <=> t \in ForkSteps, s \in OfferSteps <=> t \in OfferSteps,
               Goto(i, t)
        PROVE  Known(i)'
    <3>1. req'[i] = [req[i] EXCEPT !.at = t]
      BY <2>7 DEF Goto, TypeOK
    <3>2. /\ req'[i].at = t /\ req'[i].user = req[i].user /\ req'[i].on = req[i].on
      BY <3>1, ReqTyped
    <3> QED BY <1>2, <2>1, <2>7, <3>2 DEF rows, history, Known, Exists, CourseSteps,
        ForkSteps, OfferSteps, JoinSteps
  <2>8. CASE End(i)
    BY <1>4, <2>8 DEF End, TypeOK
  <2>9. CASE PublishCheck(i)
    BY <2>7, <2>8, <2>9 DEF PublishCheck, GotoIf, CourseSteps, ForkSteps, OfferSteps
  <2>10. CASE RunProvenanceGate(i, "publish-gate", "publish-write")
    BY <2>7, <2>8, <2>10 DEF RunProvenanceGate, CourseSteps, ForkSteps, OfferSteps
  <2>11. CASE ForkFind(i)
    BY <2>7, <2>8, <2>11 DEF ForkFind, GotoIf, CourseSteps, ForkSteps, OfferSteps
  <2>12. CASE DeleteCount(i)
    BY <2>7, <2>8, <2>12 DEF DeleteCount, GotoIf, CourseSteps, ForkSteps, OfferSteps
  <2>13. CASE SubmitCheck(i)
    BY <2>7, <2>8, <2>13 DEF SubmitCheck, GotoIf, CourseSteps, ForkSteps, OfferSteps
  <2>14. CASE RunProvenanceGate(i, "submit-gate", "submit-find")
    BY <2>7, <2>8, <2>14 DEF RunProvenanceGate, CourseSteps, ForkSteps, OfferSteps
  <2>15. CASE SubmitFind(i)
    BY <2>7, <2>8, <2>15 DEF SubmitFind, GotoIf, CourseSteps, ForkSteps, OfferSteps
  <2> QED BY <1>10, <2>3, <2>4, <2>5, <2>6, <2>9, <2>10, <2>11, <2>12, <2>13, <2>14, <2>15
      DEF Reads, OwnerStarts
<1> QED BY <1>3, <1>5, <1>6, <1>7, <1>8, <1>9, <1>10, NextCases

-----------------------------------------------------------------------------
(* The rows. *)

\* Steps that leave rows and history alone keep what is said of them.
Quiet == UNCHANGED <<rows, invited, wasAdult>>

LEMMA QuietSteps ==
    /\ UNCHANGED vars => Quiet
    /\ \A q \in Requests : Reads(q) => Quiet
    /\ \A Q \in SUBSET Requests : Crash(Q) => Quiet
<1>1. UNCHANGED vars => Quiet
  BY DEF vars, rows, Quiet
<1>2. ASSUME NEW q \in Requests, Reads(q) PROVE Quiet
  BY <1>2, ReadsWriteNothing DEF history, Quiet
<1>3. ASSUME NEW Q \in SUBSET Requests, Crash(Q) PROVE Quiet
  BY <1>3 DEF Crash, Quiet
<1> QED BY <1>1, <1>2, <1>3

LEMMA EntryStep == TypeOK /\ RequestInv /\ EntryInv /\ [Next]_vars => EntryInv'
<1> SUFFICES ASSUME TypeOK, RequestInv, EntryInv, [Next]_vars PROVE EntryInv'
  OBVIOUS
<1> USE DEF EntryInv, Exists
<1>1. CASE Quiet
  BY <1>1 DEF Quiet, rows
<1>2. ASSUME NEW q \in Requests, Joins(q) PROVE EntryInv'
  BY <1>2 DEF Joins, JoinClassroom, rows
<1>3. ASSUME NEW u \in Users, NEW b \in Brackets, UpdateProfile(u, b) PROVE EntryInv'
  BY <1>3 DEF UpdateProfile
<1>4. ASSUME NEW c \in Courses, Reopen(c) \/ Restructured(c) PROVE EntryInv'
  BY <1>4 DEF Reopen, Restructured, history, TypeOK
<1>5. ASSUME NEW q \in Requests, Write(q) PROVE EntryInv'
  <2> DEFINE x == req[q].on
  <2>1. CASE DeleteRows(q)
    <3>1. x \in Courses
      BY <2>1, Subject DEF DeleteRows, At, CourseSteps
    <3> QED BY <2>1, <3>1 DEF DeleteRows, history, TypeOK
  <2>2. CASE SubmitCreate(q)
    <3>1. wasAdult /\ x \in Courses
      BY <2>2, Subject DEF SubmitCreate, At, RequestInv, Known, OfferSteps, CourseSteps
    <3> QED BY <2>2, <3>1 DEF SubmitCreate, history, TypeOK
  <2>3. ASSUME NEW d \in {"approve", "reject"}, NEW v \in {"approved", "rejected"},
               DecideWrite(q, d, v)
        PROVE  EntryInv'
    <3>1. x \in Entries /\ entry[x].status # "unborn"
      BY <2>3, Subject DEF DecideWrite, At
    <3>2. CASE entry[x].status = "deleted"
      BY <2>3, <3>2 DEF DecideWrite, history
    <3>3. CASE entry[x].status # "deleted"
      <4>1. entry[x].status \in {"pending", "approved", "rejected"}
        BY <3>1, <3>3 DEF TypeOK
      <4>2. /\ entry' = [entry EXCEPT ![x].status = v]
            /\ UNCHANGED <<status, wasAdult>>
        BY <2>3, <3>3 DEF DecideWrite, history
      <4>3. \A e \in Entries : e # x => entry'[e] = entry[e]
        BY <4>2 DEF TypeOK
      <4>4. entry'[x].course = entry[x].course
        BY <3>1, <4>2 DEF TypeOK
      <4> QED BY <3>1, <4>1, <4>2, <4>3, <4>4
    <3> QED BY <3>2, <3>3
  <2>4. CASE \/ PublishWrite(q) \/ ForkCreate(q) \/ ReportCreate(q) \/ RoomCreate(q)
             \/ CodeWrite(q) \/ JoinFork(q) \/ JoinMember(q) \/ JoinBracket(q)
    BY <2>4 DEF PublishWrite, ForkCreate, ReportCreate, RoomCreate, CodeWrite, JoinFork,
        JoinMember, JoinBracket, history
  <2> QED BY <1>5, <2>1, <2>2, <2>3, <2>4 DEF Write
<1> QED BY <1>1, <1>2, <1>3, <1>4, <1>5, NextCases, QuietSteps

\* NothingDangles but for the queue entries, which EntryInv covers.
HoldersInv ==
    /\ \A u \in Users, c \in Courses : <<u, c>> \in forks => Exists(c)
    /\ \A r \in Rooms, c \in Courses : room[r].course = c => Exists(c)
    /\ \A c \in Courses : c \in reported => Exists(c)
    /\ \A r \in Rooms, u \in Users : <<r, u>> \in members => Created(r)

LEMMA DanglesSplit ==
    ASSUME TypeOK
    PROVE  /\ NothingDangles => HoldersInv
           /\ HoldersInv /\ EntryInv => NothingDangles
<1>1. ASSUME NothingDangles PROVE HoldersInv
  <2>1. \A m \in members : Created(m[1])
    BY <1>1 DEF NothingDangles
  <2>2. \A r \in Rooms, u \in Users : <<r, u>> \in members => Created(<<r, u>>[1])
    BY <2>1
  <2>3. \A c \in Courses : Held(c) \/ c \in reported => Exists(c)
    BY <1>1 DEF NothingDangles
  <2> QED BY <2>2, <2>3 DEF HoldersInv, Held
<1>2. ASSUME HoldersInv, EntryInv PROVE NothingDangles
  <2>1. ASSUME NEW m \in members PROVE Created(m[1])
    <3>1. PICK r \in Rooms, u \in Users : m = <<r, u>>
      BY DEF TypeOK
    <3> QED BY <1>2, <3>1 DEF HoldersInv
  <2>2. \A c \in Courses : OpenEntries(c) # {} => Exists(c)
    BY <1>2 DEF EntryInv, OpenEntries
  <2>3. \A c \in Courses : Held(c) \/ c \in reported => Exists(c)
    BY <1>2 DEF HoldersInv, Held
  <2> QED BY <2>1, <2>2, <2>3 DEF NothingDangles
<1> QED BY <1>1, <1>2

LEMMA DanglesNext == TypeOK' /\ HoldersInv' /\ EntryInv' => NothingDangles'
<1>1. TypeOK /\ HoldersInv /\ EntryInv => NothingDangles
  BY DanglesSplit
<1> QED BY <1>1, PTL

LEMMA HoldersStep == TypeOK /\ RequestInv /\ HoldersInv /\ [Next]_vars => HoldersInv'
<1> SUFFICES ASSUME TypeOK, RequestInv, HoldersInv, [Next]_vars PROVE HoldersInv'
  OBVIOUS
<1> USE DEF HoldersInv, Exists, Created
<1>0. ASSUME UNCHANGED <<forks, reported, members>>,
             \A c \in Courses : Exists(c) => Exists(c)',
             \A r \in Rooms : room'[r].course = room[r].course
      PROVE  HoldersInv'
  BY <1>0
<1>1. CASE Quiet
  BY <1>1 DEF Quiet, rows
<1>2. ASSUME NEW q \in Requests, Joins(q) PROVE HoldersInv'
  BY <1>2 DEF Joins, JoinClassroom, rows
<1>3. ASSUME NEW u \in Users, NEW b \in Brackets, UpdateProfile(u, b)
      PROVE  HoldersInv'
  BY <1>3 DEF UpdateProfile
<1>4. ASSUME NEW d \in Courses, Reopen(d) \/ Restructured(d) PROVE HoldersInv'
  <2>1. \A c \in Courses : Exists(c) => Exists(c)'
    BY <1>4 DEF Reopen, Restructured, TypeOK
  <2> QED BY <1>0, <1>4, <2>1 DEF Reopen, Restructured
<1>5. ASSUME NEW q \in Requests, Write(q) PROVE HoldersInv'
  <2> DEFINE x == req[q].on  w == req[q].user
  <2>1. CASE PublishWrite(q) \/ JoinBracket(q)
    BY <2>1 DEF PublishWrite, JoinBracket
  <2>2. CASE ForkCreate(q)
    BY <2>2 DEF ForkCreate
  <2>3. CASE ReportCreate(q)
    BY <2>3 DEF ReportCreate
  <2>4. CASE RoomCreate(q)
    <3>1. CASE UNCHANGED room
      BY <2>4, <3>1 DEF RoomCreate
    <3>2. ASSUME NEW s \in Rooms, NEW k \in Unused, Exists(x), ~Created(s),
                 room' = [room EXCEPT ![s] = [course |-> x, code |-> k]]
          PROVE  HoldersInv'
      <4>1. \A r \in Rooms : r # s => room'[r] = room[r]
        BY <3>2 DEF TypeOK
      <4>2. room'[s].course = x
        BY <3>2 DEF TypeOK
      <4>3. UNCHANGED <<forks, reported, members, status>>
        BY <2>4 DEF RoomCreate
      <4>4. \A r \in Rooms, c \in Courses : room'[r].course = c => Exists(c)'
        BY <3>2, <4>1, <4>2, <4>3
      <4>5. x # None
        <5>1. x \in Courses
          BY <2>4, Subject DEF RoomCreate, At, CourseSteps
        <5> QED BY <5>1
      <4>6. \A r \in Rooms : Created(r) => Created(r)'
        BY <4>1, <4>2, <4>5
      <4> QED BY <4>3, <4>4, <4>6
    <3> QED BY <2>4, <3>1, <3>2 DEF RoomCreate
  <2>5. CASE CodeWrite(q)
    <3>1. x \in Rooms
      BY <2>5, Subject DEF CodeWrite, At
    <3>2. CASE UNCHANGED room
      BY <2>5, <3>2 DEF CodeWrite
    <3>3. ASSUME NEW k \in Unused, room' = [room EXCEPT ![x].code = k]
          PROVE  HoldersInv'
      <4>1. \A r \in Rooms : room'[r].course = room[r].course
        BY <3>1, <3>3 DEF TypeOK
      <4> QED BY <1>0, <2>5, <4>1 DEF CodeWrite
    <3> QED BY <2>5, <3>2, <3>3 DEF CodeWrite
  <2>6. CASE JoinFork(q)
    <3>1. x \in Rooms /\ room[x].course \in Courses
      BY <2>6, Subject DEF JoinFork, At, JoinSteps
    <3>2. Exists(room[x].course)
      BY <3>1
    <3>3. /\ forks' = forks \cup {<<w, room[x].course>>}
          /\ UNCHANGED <<room, reported, members, status>>
      BY <2>6 DEF JoinFork
    <3> HIDE DEF x, w
    <3> QED BY <3>2, <3>3
  <2>7. CASE JoinMember(q)
    <3>1. x \in Rooms /\ Created(x)
      BY <2>7, Subject DEF JoinMember, At, JoinSteps
    <3>2. /\ members' = members \cup {<<x, w>>}
          /\ UNCHANGED <<room, reported, forks, status>>
      BY <2>7 DEF JoinMember
    <3> HIDE DEF x, w
    <3> QED BY <3>1, <3>2
  <2>8. CASE DeleteRows(q)
    <3>1. x \in Courses
      BY <2>8, Subject DEF DeleteRows, At, CourseSteps
    <3>2. CASE UNCHANGED <<reported, entry, status, visibility>>
      BY <2>8, <3>2 DEF DeleteRows
    <3>3. CASE ~Held(x) /\ reported' = reported \ {x} /\ status' = [status EXCEPT ![x] = "gone"]
      <4>1. \A c \in Courses : c # x => status'[c] = status[c]
        BY <3>3 DEF TypeOK
      <4>2. /\ \A u \in Users : <<u, x>> \notin forks
            /\ \A r \in Rooms : room[r].course # x
        BY <3>3 DEF Held
      <4>3. UNCHANGED <<forks, room, members>>
        BY <2>8 DEF DeleteRows
      <4> HIDE DEF x, w
      <4> QED BY <3>3, <4>1, <4>2, <4>3
    <3> QED BY <2>8, <3>2, <3>3 DEF DeleteRows
  <2>9. CASE SubmitCreate(q) \/ DecideWrite(q, "approve", "approved")
             \/ DecideWrite(q, "reject", "rejected")
    BY <2>9 DEF SubmitCreate, DecideWrite
  <2> QED BY <1>5, <2>1, <2>2, <2>3, <2>4, <2>5, <2>6, <2>7, <2>8, <2>9 DEF Write
<1> QED BY <1>1, <1>2, <1>3, <1>4, <1>5, NextCases, QuietSteps

LEMMA EnrolledStep ==
    TypeOK /\ RequestInv /\ NothingDangles /\ EnrolledThroughFork /\ [Next]_vars
        => EnrolledThroughFork'
<1> SUFFICES ASSUME TypeOK, RequestInv, NothingDangles, EnrolledThroughFork, [Next]_vars
             PROVE  EnrolledThroughFork'
  OBVIOUS
<1>1. CASE UNCHANGED vars
  BY <1>1 DEF vars, EnrolledThroughFork
<1> SUFFICES ASSUME Next PROVE EnrolledThroughFork'
  BY <1>1
<1>2. Lasting
  BY NextLasting
<1>3. CASE members' = members
  <2>1. \A m \in members : m[1] \in Rooms /\ room'[m[1]].course = room[m[1]].course
    BY <1>2 DEF NothingDangles, Lasting, TypeOK
  <2> QED BY <1>2, <1>3, <2>1 DEF EnrolledThroughFork, Lasting
<1>4. ASSUME NEW q \in Requests, JoinMember(q) PROVE EnrolledThroughFork'
  <2>1. <<req[q].user, room[req[q].on].course>> \in forks
    BY <1>4 DEF JoinMember, At, RequestInv, Known
  <2> QED BY <1>4, <2>1 DEF JoinMember, EnrolledThroughFork
<1>5. ASSUME NEW q \in Requests, Write(q), ~JoinMember(q) PROVE members' = members
  BY <1>5 DEF Write, PublishWrite, ForkCreate, ReportCreate, RoomCreate, CodeWrite,
      JoinFork, JoinBracket, DeleteRows, SubmitCreate, DecideWrite
<1>6. ASSUME NEW q \in Requests, Joins(q) PROVE members' = members
  BY <1>6 DEF Joins, JoinClassroom, rows
<1>7. CASE Quiet
  BY <1>3, <1>7 DEF Quiet, rows
<1>8. ASSUME \/ \E u \in Users, b \in Brackets : UpdateProfile(u, b)
             \/ \E c \in Courses : Reopen(c) \/ Restructured(c)
      PROVE  members' = members
  BY <1>8 DEF UpdateProfile, Reopen, Restructured
<1> QED BY <1>3, <1>4, <1>5, <1>6, <1>7, <1>8, NextCases, QuietSteps

LEMMA DoorStep ==
    TypeOK /\ RequestInv /\ ForkHasADoor /\ [Next]_vars => ForkHasADoor'
<1> SUFFICES ASSUME TypeOK, RequestInv, ForkHasADoor, [Next]_vars PROVE ForkHasADoor'
  OBVIOUS
<1> USE DEF ForkHasADoor
<1>1. CASE Quiet
  BY <1>1 DEF Quiet, rows
<1>2. ASSUME NEW q \in Requests, Joins(q) PROVE ForkHasADoor'
  BY <1>2 DEF Joins, JoinClassroom, rows
<1>3. ASSUME \/ \E u \in Users, b \in Brackets : UpdateProfile(u, b)
             \/ \E c \in Courses : Reopen(c) \/ Restructured(c)
      PROVE  ForkHasADoor'
  BY <1>3 DEF UpdateProfile, Reopen, Restructured, history
<1>4. ASSUME NEW q \in Requests, Write(q) PROVE ForkHasADoor'
  <2> DEFINE x == req[q].on  u == req[q].user
  <2>1. CASE PublishWrite(q)
    BY <2>1 DEF PublishWrite, history, TypeOK
  <2>2. CASE ForkCreate(q)
    <3>1. Exists(x) => visibility[x] = "public_shared"
      BY <2>2 DEF ForkCreate, At, RequestInv, Known, ForkSteps
    <3> QED BY <2>2, <3>1 DEF ForkCreate, history
  <2>3. CASE JoinFork(q)
    <3>1. <<u, room[x].course>> \in invited
      BY <2>3 DEF JoinFork, At, RequestInv, Known, JoinSteps
    <3> QED BY <2>3, <3>1 DEF JoinFork, history
  <2>4. CASE DeleteRows(q)
    <3>1. x \in Courses
      BY <2>4, Subject DEF DeleteRows, At, CourseSteps
    <3>2. CASE UNCHANGED visibility
      BY <2>4, <3>2 DEF DeleteRows, history
    <3>3. CASE ~Held(x) /\ visibility' = [visibility EXCEPT ![x] = "private"]
      <4>1. \A f \in forks : f[1] \in Users /\ f[2] \in Courses /\ f = <<f[1], f[2]>>
        BY DEF TypeOK
      <4>2. \A f \in forks : f[2] # x
        BY <3>3, <4>1 DEF Held
      <4>3. \A f \in forks : visibility'[f[2]] = visibility[f[2]]
        BY <3>3, <4>1, <4>2 DEF TypeOK
      <4> QED BY <2>4, <4>3 DEF DeleteRows, history
    <3> QED BY <2>4, <3>2, <3>3 DEF DeleteRows
  <2>5. CASE ~PublishWrite(q) /\ ~ForkCreate(q) /\ ~JoinFork(q) /\ ~DeleteRows(q)
    BY <1>4, <2>5 DEF Write, ReportCreate, RoomCreate, CodeWrite, JoinMember, JoinBracket,
        SubmitCreate, DecideWrite, history
  <2> QED BY <2>1, <2>2, <2>3, <2>4, <2>5
<1> QED BY <1>1, <1>2, <1>3, <1>4, NextCases, QuietSteps

LEMMA OfferedStep ==
    TypeOK /\ RequestInv /\ OfferedByAdults /\ EntryInv' /\ [Next]_vars
        => OfferedByAdults'
<1> SUFFICES ASSUME TypeOK, RequestInv, OfferedByAdults, EntryInv', [Next]_vars
             PROVE  OfferedByAdults'
  OBVIOUS
<1> DEFINE Public == \A c \in Courses : visibility[c] = "public_shared" => wasAdult
<1> SUFFICES Public'
  BY DEF OfferedByAdults, OpenEntries, EntryInv
<1>0. Public
  BY DEF OfferedByAdults
<1>1. CASE visibility' = visibility /\ (wasAdult => wasAdult')
  BY <1>0, <1>1
<1>2. CASE Quiet
  BY <1>1, <1>2 DEF Quiet, rows
<1>3. ASSUME NEW q \in Requests, Joins(q) PROVE Public'
  BY <1>1, <1>3 DEF Joins, JoinClassroom, rows
<1>4. ASSUME \/ \E u \in Users, b \in Brackets : UpdateProfile(u, b)
             \/ \E c \in Courses : Reopen(c) \/ Restructured(c)
      PROVE  Public'
  BY <1>1, <1>4 DEF UpdateProfile, Reopen, Restructured, history
<1>5. ASSUME NEW q \in Requests, Write(q) PROVE Public'
  <2>1. CASE PublishWrite(q)
    BY <2>1 DEF PublishWrite, At, RequestInv, Known, OfferSteps, history
  <2>2. CASE DeleteRows(q)
    BY <1>0, <2>2 DEF DeleteRows, history, TypeOK
  <2>3. CASE ~PublishWrite(q) /\ ~DeleteRows(q)
    <3>1. UNCHANGED <<visibility, wasAdult>>
      BY <1>5, <2>3 DEF Write, ForkCreate, ReportCreate, RoomCreate, CodeWrite, JoinFork,
          JoinMember, JoinBracket, SubmitCreate, DecideWrite, history
    <3> QED BY <1>1, <3>1
  <2> QED BY <2>1, <2>2, <2>3
<1> QED BY <1>2, <1>3, <1>4, <1>5, NextCases, QuietSteps

\* A student of a classroom whose join is over, or about to give the bracket.
Settled(u) == \/ bracket[u] # "unknown" \/ u \in excused
              \/ \E q \in Requests : At(q, "join-bracket") /\ req[q].user = u

\* Only the write of the bracket and a crash take a request off that statement.
LEMMA BracketPending ==
    ASSUME TypeOK, NEW q \in Requests, Write(q) \/ Joins(q) \/ Reads(q), ~JoinBracket(q)
    PROVE  /\ bracket' = bracket /\ excused' = excused
           /\ \A i \in Requests : At(i, "join-bracket") => req'[i] = req[i]
<1> USE DEF At
<1>1. CASE Joins(q)
  BY <1>1 DEF Joins, JoinClassroom, rows, Start, Idle, TypeOK
<1>2. CASE Write(q)
  <2>1. bracket' = bracket /\ excused' = excused
    BY <1>2 DEF Write, PublishWrite, ForkCreate, ReportCreate, RoomCreate, CodeWrite,
        JoinFork, JoinMember, DeleteRows, SubmitCreate, DecideWrite, history
  <2>2. req[q].at # "join-bracket" /\ \A i \in Requests : i # q => req'[i] = req[i]
    BY <1>2 DEF Write, PublishWrite, ForkCreate, ReportCreate, RoomCreate, CodeWrite,
        JoinFork, JoinMember, DeleteRows, SubmitCreate, DecideWrite, Goto, End, TypeOK
  <2> QED BY <2>1, <2>2
<1>3. CASE Reads(q)
  <2>1. bracket' = bracket /\ excused' = excused
    BY <1>3, ReadsWriteNothing DEF rows, history
  <2>2. req[q].at # "join-bracket" /\ \A i \in Requests : i # q => req'[i] = req[i]
    BY <1>3 DEF Reads, OwnerStarts, PublishCourse, CreateClassroom, DeleteCourse,
        SubmitForReview, RefreshCode, PublishCheck, RunProvenanceGate, ForkFind,
        DeleteCount, SubmitCheck, SubmitFind, ForkCourse, ReportCourse, Decide,
        Start, Goto, End, GotoIf, Idle, TypeOK
  <2> QED BY <2>1, <2>2
<1> QED BY <1>1, <1>2, <1>3

LEMMA StaySettled ==
    ASSUME TypeOK, RequestInv, Next, NEW u \in Users, Settled(u)
    PROVE  Settled(u)'
<1> USE DEF Settled, At
<1>1. ASSUME NEW q \in Requests, Write(q) \/ Joins(q) \/ Reads(q), ~JoinBracket(q)
      PROVE  Settled(u)'
  BY <1>1, BracketPending
<1>2. ASSUME NEW q \in Requests, JoinBracket(q) PROVE Settled(u)'
  <2>1. req[q].user \in Users
    BY <1>2, Subject DEF JoinBracket, JoinSteps
  <2>2. CASE u = req[q].user
    BY <1>2, <2>1, <2>2 DEF JoinBracket, TypeOK
  <2>3. CASE u # req[q].user
    <3>1. bracket'[u] = bracket[u] /\ (u \in excused => u \in excused')
      BY <1>2, <2>1, <2>3 DEF JoinBracket, TypeOK
    <3>2. \A i \in Requests : i # q => req'[i] = req[i]
      BY <1>2 DEF JoinBracket, End, TypeOK
    <3> QED BY <2>3, <3>1, <3>2
  <2> QED BY <2>2, <2>3
<1>3. ASSUME NEW v \in Users, NEW b \in Brackets, UpdateProfile(v, b) PROVE Settled(u)'
  <2>1. CASE b = "unknown"
    BY <1>3, <2>1 DEF UpdateProfile, TypeOK
  <2>2. CASE b # "unknown"
    BY <1>3, <2>2 DEF UpdateProfile, TypeOK
  <2> QED BY <2>1, <2>2
<1>4. ASSUME NEW c \in Courses, Reopen(c) \/ Restructured(c) PROVE Settled(u)'
  BY <1>4 DEF Reopen, Restructured, history
<1>5. ASSUME NEW Q \in SUBSET Requests, Crash(Q) PROVE Settled(u)'
  <2>1. CASE \E q \in Q : At(q, "join-bracket") /\ req[q].user = u
    BY <1>5, <2>1 DEF Crash
  <2>2. CASE ~\E q \in Q : At(q, "join-bracket") /\ req[q].user = u
    <3>1. \A q \in Requests : q \notin Q => req'[q] = req[q]
      BY <1>5 DEF Crash
    <3> QED BY <1>5, <2>2, <3>1 DEF Crash, rows
  <2> QED BY <2>1, <2>2
<1> QED BY <1>1, <1>2, <1>3, <1>4, <1>5, NextCases DEF Write

LEMMA BracketStep ==
    TypeOK /\ RequestInv /\ BracketedUnlessExcused /\ [Next]_vars
        => BracketedUnlessExcused'
<1> SUFFICES ASSUME TypeOK, RequestInv, BracketedUnlessExcused, [Next]_vars
             PROVE  BracketedUnlessExcused'
  OBVIOUS
<1>1. CASE UNCHANGED vars
  BY <1>1 DEF vars, BracketedUnlessExcused, At
<1> SUFFICES ASSUME Next PROVE BracketedUnlessExcused'
  BY <1>1
<1>2. \A m \in members : m[2] \in Users /\ Settled(m[2])
  BY DEF BracketedUnlessExcused, Settled, TypeOK
<1>3. \A m \in members : Settled(m[2])'
  <2>1. \A u \in Users : Settled(u) => Settled(u)'
    BY StaySettled
  <2> QED BY <1>2, <2>1
<1>4. ASSUME \A m \in members' : m \in members \/ Settled(m[2])'
      PROVE  BracketedUnlessExcused'
  BY <1>3, <1>4 DEF BracketedUnlessExcused, Settled
<1>5. CASE members' = members
  BY <1>4, <1>5
<1>6. ASSUME NEW q \in Requests, JoinMember(q) PROVE BracketedUnlessExcused'
  <2>1. req'[q].at = "join-bracket" /\ req'[q].user = req[q].user
    BY <1>6 DEF JoinMember, Goto, TypeOK
  <2>2. PICK u \in Users, r \in Rooms : u = req[q].user /\ r = req[q].on
    BY <1>6, Subject DEF JoinMember, At, JoinSteps
  <2>3. Settled(u)'
    BY <2>1, <2>2 DEF Settled, At
  <2>4. members' = members \cup {<<r, u>>}
    BY <1>6, <2>2 DEF JoinMember
  <2>5. \A m \in members' : m \in members \/ m[2] = u
    BY <2>4
  <2>6. \A m \in members' : m \in members \/ Settled(m[2])'
    BY <2>3, <2>5
  <2> QED BY <1>4, <2>6
<1>7. ASSUME NEW q \in Requests, Write(q), ~JoinMember(q) PROVE members' = members
  BY <1>7 DEF Write, PublishWrite, ForkCreate, ReportCreate, RoomCreate, CodeWrite,
      JoinFork, JoinBracket, DeleteRows, SubmitCreate, DecideWrite
<1>8. ASSUME NEW q \in Requests, Joins(q) PROVE members' = members
  BY <1>8 DEF Joins, JoinClassroom, rows
<1>9. CASE Quiet
  BY <1>5, <1>9 DEF Quiet, rows
<1>10. ASSUME \/ \E u \in Users, b \in Brackets : UpdateProfile(u, b)
              \/ \E c \in Courses : Reopen(c) \/ Restructured(c)
       PROVE  members' = members
  BY <1>10 DEF UpdateProfile, Reopen, Restructured
<1> QED BY <1>5, <1>6, <1>7, <1>8, <1>9, <1>10, NextCases, QuietSteps

-----------------------------------------------------------------------------
(* The inductive invariant, and what follows from it. *)

LEMMA InitIInv == Init => IInv
<1> SUFFICES ASSUME Init PROVE IInv
  OBVIOUS
<1>1. TypeOK
  BY TypeInit
<1>2. RequestInv
  BY DEF Init, Idle, RequestInv, Known, CourseSteps, ForkSteps, OfferSteps, JoinSteps
<1>3. OwnerInv /\ EntryInv
  BY DEF Init, OwnerInv, EntryInv
<1>4. HoldersInv
  BY DEF Init, HoldersInv, Exists
<1>5. EnrolledThroughFork /\ ForkHasADoor /\ BracketedUnlessExcused
  BY DEF Init, EnrolledThroughFork, ForkHasADoor, BracketedUnlessExcused
<1>6. OfferedByAdults
  BY DEF Init, OfferedByAdults, OpenEntries
<1> QED BY <1>1, <1>2, <1>3, <1>4, <1>5, <1>6, DanglesSplit DEF IInv

LEMMA StepIInv == IInv /\ [Next]_vars => IInv'
<1> SUFFICES ASSUME IInv, [Next]_vars PROVE IInv'
  OBVIOUS
<1>1. TypeOK' /\ RequestInv' /\ OwnerInv' /\ EntryInv'
  BY TypeStep, RequestStep, OwnerStep, EntryStep DEF IInv
<1>2. HoldersInv'
  BY DanglesSplit, HoldersStep DEF IInv
<1>3. NothingDangles'
  BY <1>1, <1>2, DanglesNext
<1>4. EnrolledThroughFork' /\ ForkHasADoor' /\ BracketedUnlessExcused'
  BY EnrolledStep, DoorStep, BracketStep DEF IInv
<1>5. OfferedByAdults'
  BY <1>1, OfferedStep DEF IInv
<1> QED BY <1>1, <1>3, <1>4, <1>5 DEF IInv

THEOREM Invariance == Spec => []IInv
BY InitIInv, StepIInv, PTL DEF Spec

(* Every variable keeps its type, for any constants. *)
THEOREM TypeCorrect == Spec => []TypeOK
<1>1. IInv => TypeOK
  BY DEF IInv
<1> QED BY <1>1, Invariance, PTL

(* No learner, classroom, report or open queue entry is left without its *)
(* course, and no roster without its classroom (destroyCourse).          *)
THEOREM NothingLeftDangling == Spec => []NothingDangles
<1>1. IInv => NothingDangles
  BY DEF IInv
<1> QED BY <1>1, Invariance, PTL

(* Whoever is on a roster has a fork of its course (joinClassroom). *)
THEOREM RosterHasForks == Spec => []EnrolledThroughFork
<1>1. IInv => EnrolledThroughFork
  BY DEF IInv
<1> QED BY <1>1, Invariance, PTL

(* A fork is of a public course or of a student who had a classroom's code *)
(* (forkCourse, joinClassroom).                                            *)
THEOREM ForksHaveDoors == Spec => []ForkHasADoor
<1>1. IInv => ForkHasADoor
  BY DEF IInv
<1> QED BY <1>1, Invariance, PTL

(* What is public or in the review queue comes from an account that was an *)
(* adult's (publishCourse, submitForReview).                               *)
THEOREM AdultsOffer == Spec => []OfferedByAdults
<1>1. IInv => OfferedByAdults
  BY DEF IInv
<1> QED BY <1>1, Invariance, PTL

(* A student whose join is over has a bracket, but for the two exceptions *)
(* (joinClassroom, updateProfile).                                        *)
THEOREM StudentsAreBracketed == Spec => []BracketedUnlessExcused
<1>1. IInv => BracketedUnlessExcused
  BY DEF IInv
<1> QED BY <1>1, Invariance, PTL

(* "never downgrade an already-adult account" (joinClassroom), however the *)
(* profile changes between the student's look at the code and the write.   *)
AdultsStayAdults ==
    [][\A u \in Users : bracket[u] = "adult" => bracket'[u] # "minor_school_consented"]_vars

(* No step makes a minor of an adult account: joinClassroom's write asks *)
(* again what its earlier read has not.                                  *)
THEOREM AdultsRemain == Spec => AdultsStayAdults
<1> DEFINE Step == \A u \in Users : bracket[u] = "adult" =>
                                      bracket'[u] # "minor_school_consented"
<1>1. ASSUME TypeOK, Next PROVE Step
  <2>1. CASE bracket' = bracket
    BY <2>1
  <2>2. ASSUME NEW v \in Users, NEW b \in Brackets, UpdateProfile(v, b) PROVE Step
    BY <1>1, <2>2 DEF UpdateProfile, TypeOK
  <2>3. ASSUME NEW q \in Requests, JoinBracket(q) PROVE Step
    BY <1>1, <2>3 DEF JoinBracket, TypeOK
  <2>4. ASSUME NEW q \in Requests, Write(q) \/ Joins(q) \/ Reads(q), ~JoinBracket(q)
        PROVE  Step
    BY <1>1, <2>1, <2>4, BracketPending
  <2>5. ASSUME NEW c \in Courses, Reopen(c) \/ Restructured(c) PROVE Step
    BY <2>1, <2>5 DEF Reopen, Restructured
  <2>6. ASSUME NEW Q \in SUBSET Requests, Crash(Q) PROVE Step
    BY <2>1, <2>6 DEF Crash, rows
  <2> QED BY <1>1, <2>2, <2>3, <2>4, <2>5, <2>6, NextCases DEF Write
<1>2. TypeOK /\ [Next]_vars => [Step]_vars
  BY <1>1
<1> QED BY <1>2, TypeCorrect, PTL DEF Spec, AdultsStayAdults

=============================================================================
