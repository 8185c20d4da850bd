SPECIFICATION FairSpec
CONSTANTS
    Pages = 2
    Batch = 1
    JobPages = 3
    MaxOcr = 2
    Scanned = {}
    Blank = {}
    Unstamped = 0
    MaxRec = 0
    MaxFaults = 0
PROPERTY FreshPdfIsRead
CHECK_DEADLOCK FALSE
