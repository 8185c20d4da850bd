SPECIFICATION Spec
CONSTANTS
    Courses = {course}
    Users = {owner, student}
    Owner = owner
    Rooms = {room1}
    Codes = {old, new}
    Entries = {e1}
    Requests = {q1, q2}
    None = None
    MaxFaults = 1
INVARIANTS TypeOK NothingDangles EnrolledThroughFork ForkHasADoor OfferedByAdults BracketedUnlessExcused
SYMMETRY Alike
CHECK_DEADLOCK FALSE
