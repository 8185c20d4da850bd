SPECIFICATION Spec
CONSTANTS
    small = small
    large = large
    Courses = {c1, c2, c3, c4}
    Files = {small, large}
    Bytes <- FileBytes
    Requests = {r1, r2}
    MaxUploadsPerHour = 2
    MaxUserBytes = 3
    MaxFileBytes = 2
    NoFile = NoFile
    NoCourse = NoCourse
INVARIANTS
    HourlyUploadsBounded
    StorageBounded
    DuplicatesBounded
SYMMETRY Alike
