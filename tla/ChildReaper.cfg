SPECIFICATION ReaperSpec
CONSTANTS
    Children = {c1, c2}
    Capacity = 8
    MaxOthers = 8
INVARIANT
    NoZombieForgotten
PROPERTY
    ZombiesReaped
CHECK_DEADLOCK FALSE
