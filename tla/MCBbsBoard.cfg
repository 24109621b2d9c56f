SPECIFICATION Spec
CONSTANTS
    guest = guest
    host = host
    g1 = g1
    h1 = h1
    Blank = blank
    Sessions = {g1, h1}
    Procs = {guest, host}
    ProcOf <- GuestAndHost
    Texts = {t}
    ChatReady = {g1}
    MaxCmds <- G2H1
    MaxCrashes = 1
CHECK_DEADLOCK FALSE
INVARIANTS
    TypeOK
    ViewIsListingUnderOwnPosts
    CommittedOnce
    OpenStoreNotEmpty
PROPERTIES
    ComposerClosedOnlyByCommit
    ImplementsPostLog
    CommandAnswered
    ReloadShowsCommitted
