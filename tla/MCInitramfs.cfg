SPECIFICATION Spec
CONSTANTS
    Paths <- SomePaths
    Sizes = {0, 1, 3, 4, 6}
    NameLen <- Length
    Width = 8
    MaxExtras = 2
CHECK_DEADLOCK FALSE
INVARIANTS
    ReadsBack
    ParentsFirst
    ArchiveComplete
