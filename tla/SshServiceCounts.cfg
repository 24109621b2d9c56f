SPECIFICATION ServiceSpec
CONSTANTS
    Sessions = {s1, s2}
    Word = 8
INVARIANT
    SessionsCounted
CHECK_DEADLOCK FALSE
