SPECIFICATION Spec
CONSTANTS
    NoFile = NoFile
    Bad = Bad
    Persistent = TRUE
    MaxBoots = 3
CHECK_DEADLOCK FALSE
INVARIANTS
    OneKeyForever
    GeneratedPairIsDurable
PROPERTIES
    DurableKeyKept
    StartEnds
