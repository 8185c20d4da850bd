SPECIFICATION Spec
CONSTANTS
    Courses = {course}
    Users = {owner, student}
    Owner = owner
    Rooms = {room1}
    Codes = {old, new}
    Entries = {e1, e2}
    Requests = {q1, q2}
    None = None
    MaxFaults = 0
INVARIANTS OneOpenEntry
SYMMETRY Alike
CHECK_DEADLOCK FALSE
