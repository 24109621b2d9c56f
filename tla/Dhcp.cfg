SPECIFICATION Spec
CONSTANTS
    Servers = {s1, s2}
    Fallback = Fallback
    None = None
    Timeout = 1
    DefaultRetry = 3
    RetrySettings = {0, 1, 2, 3}
CHECK_DEADLOCK FALSE
INVARIANTS
    AddressWasLeased
    SilenceUsesDeadline
    ConfiguredIsApplied
PROPERTIES
    ConfigureEnds
