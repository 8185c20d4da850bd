SPECIFICATION FairSpec
CONSTANTS
    Pages = 9
    Batch = 2
    JobPages = 3
    MaxOcr = 2
    Scanned <- MixedScanned
    Blank <- MixedBlank
    Unstamped = 9
    MaxRec = 1
    MaxFaults = 2
INVARIANTS TypeOK ReadyIsComplete OcrCapped StoredOnce
PROPERTIES FinishesUnattended RecoversUnlessCovered KeepsPromise
CHECK_DEADLOCK FALSE
