SPECIFICATION FairSpec
CONSTANTS
    Courses = {c1}
    Requests = {r1}
    MaxRec = 2
    MaxFaults = 2
    Uploads = {"good", "oversize", "alien", "corrupt"}
    Ops = {"presign", "confirm", "delete", "upload"}
    NullStatusPending = TRUE
    NoJob = NoJob
PROPERTIES
    Converges
CHECK_DEADLOCK FALSE
