SPECIFICATION Spec
CONSTRAINT FourAtATime
CONSTANTS
    Courses = {c1}
    Requests = {r1, r2}
    MaxRec = 1
    MaxFaults = 1
    Uploads = {"good"}
    Ops = {"upload", "topic", "confirm", "intake", "half", "delete", "study"}
    NullStatusPending = TRUE
    NoJob = NoJob
SYMMETRY Symmetry
INVARIANTS
    TypeOK
    IntakeBeforeStructuring
    ReadyMeansStructured
    DeletedLeavesNothing
    NothingFromNothing
PROPERTIES
    KeepsPromise
CHECK_DEADLOCK FALSE
