SPECIFICATION ServiceSpec
CONSTANTS
    Sessions = {s1, s2, s3}
    Word = 8
INVARIANT
    CountersSettle
PROPERTY
    StatusTellsFailure
CHECK_DEADLOCK FALSE
