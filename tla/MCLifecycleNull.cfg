SPECIFICATION Spec
CONSTANTS
    Courses = {c1}
    Requests = {r1}
    MaxRec = 0
    MaxFaults = 0
    Uploads = {"good"}
    Ops = {"upload"}
    NullStatusPending = FALSE
    NoJob = NoJob
INVARIANTS
    GoodUploadSucceeds
CHECK_DEADLOCK FALSE
