SPECIFICATION FairSpec
CONSTANTS
    MaxPieces = 3
    Tries = 4
    Slots = {1, 2, 3}
    MaxFaults = 4
INVARIANTS
    CountedIsInFile
    SavedIsPosted
PROPERTIES
    StopEnds
