------------------------- MODULE MCCourseLifecycle -------------------------
EXTENDS CourseLifecycle, TLC

Symmetry == Permutations(Requests)

\* Bound of the safety run: of two requests, two workers and a sweep that has
\* its list, four are between statements at a time.
FourAtATime ==
    Cardinality({r \in Requests : req[r].pc # "idle"})
      + Cardinality({c \in Courses : sweep[c] # "none"})
      + (IF ipc = "idle" THEN 0 ELSE 1) + (IF spc = "idle" THEN 0 ELSE 1) <= 4
=============================================================================
