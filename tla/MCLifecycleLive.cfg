SPECIFICATION FairSpec
CONSTANTS
    Courses = {c1}
    Requests = {r1}
    MaxRec = 1
    MaxFaults = 1
    Uploads = {"good", "corrupt"}
    Ops = {"upload", "presign", "topic", "intake", "half", "delete"}
    NullStatusPending = TRUE
    NoJob = NoJob
PROPERTIES
    Converges
    ParkedRescued
CHECK_DEADLOCK FALSE
