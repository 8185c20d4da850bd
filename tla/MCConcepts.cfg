SPECIFICATION Spec
SYMMETRY Symmetry
CONSTRAINT TwoAtATime
CONSTANTS
    s1 = s1
    s2 = s2
    a = a
    b = b
    Subtopics = {s1, s2}
    Names = {a, b}
    Wanted <- MCWanted
    Admins = {x1, x2}
    Readers = {r1, r2}
    MaxConcepts = 2
    Candidates = {k1, k2}
    NoCand = NoCand
    MaxEvents = 3
    NoName = NoName
INVARIANTS
    TypeOK
    SubtopicsTeachWhatTheyNamed
    OneTextPerVariant
    TwinsOnlyFromARace
PROPERTIES
    NothingLost
    
CHECK_DEADLOCK FALSE
