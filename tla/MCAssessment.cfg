SPECIFICATION Spec
CONSTANTS
    Subtopics = {s1, s2}
    Concepts = {k1, k2}
    MaxRequests = 4
INVARIANTS
    TypeOK
    LockedIsGraded
    GradedOnceUnlessCutOrRaced
    ProblemsOnceUnlessRaced
    ScoresCountAnswers
PROPERTIES
    KeepsPromise
CHECK_DEADLOCK FALSE
