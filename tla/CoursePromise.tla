---------------------------- MODULE CoursePromise ----------------------------
(***************************************************************************)
(* What the API promises about a course to those who only look at it: the  *)
(* dashboard, the readers of its modules, its learners.  No handlers,      *)
(* workers, jobs or faults, only what may happen to a course as a whole.   *)
(* CourseLifecycle implements it.                                          *)
(***************************************************************************)
CONSTANT Courses

VARIABLES
    view,       \* none: not created; waiting; readable: ready; gone
    known,      \* are goal and level both recorded?
    content,    \* its modules and subtopics: none, partial, complete
    used        \* do learners' rows refer to them?

pvars == <<view, known, content, used>>

Init ==
    /\ view = [c \in Courses |-> "none"]
    /\ known = [c \in Courses |-> FALSE]
    /\ content = [c \in Courses |-> "none"]
    /\ used = [c \in Courses |-> FALSE]

Create(c) ==
    /\ view[c] = "none"
    /\ view' = [view EXCEPT ![c] = "waiting"]
    /\ UNCHANGED <<known, content, used>>

\* Goal and level are recorded once, for good.
Tell(c) ==
    /\ view[c] \in {"waiting", "readable"} /\ ~known[c]
    /\ known' = [known EXCEPT ![c] = TRUE]
    /\ UNCHANGED <<view, content, used>>

\* The structure changes out of sight, after the intake, and under no learner.
Build(c) ==
    /\ view[c] = "waiting" /\ known[c]
    /\ \E v \in {"none", "partial", "complete"} :
          /\ used[c] => v # "none"
          /\ content' = [content EXCEPT ![c] = v]
    /\ UNCHANGED <<view, known, used>>

\* Only a complete structure, of a course whose intake is known, is shown.
Publish(c) ==
    /\ view[c] = "waiting" /\ known[c] /\ content[c] = "complete"
    /\ view' = [view EXCEPT ![c] = "readable"]
    /\ UNCHANGED <<known, content, used>>

\* A repeated confirmation or a late job takes a ready course back, as it is.
Withdraw(c) ==
    /\ view[c] = "readable"
    /\ view' = [view EXCEPT ![c] = "waiting"]
    /\ UNCHANGED <<known, content, used>>

Study(c) ==
    /\ content[c] # "none"
    /\ used' = [used EXCEPT ![c] = TRUE]
    /\ UNCHANGED <<view, known, content>>

\* Everything at once, and for good.
Remove(c) ==
    /\ view[c] \in {"waiting", "readable"}
    /\ view' = [view EXCEPT ![c] = "gone"]
    /\ known' = [known EXCEPT ![c] = FALSE]
    /\ content' = [content EXCEPT ![c] = "none"]
    /\ used' = [used EXCEPT ![c] = FALSE]

Next == \E c \in Courses :
    \/ Create(c) \/ Tell(c) \/ Build(c) \/ Publish(c) \/ Withdraw(c)
    \/ Study(c) \/ Remove(c)

Spec == Init /\ [][Next]_pvars
=============================================================================
