SPECIFICATION Spec
CONSTANTS
    debug = debug
    probe = probe
    h1 = h1
    h2 = h2
    Homes = {h1, h2}
    Hosts <- SomeHosts
    Callers = {debug, probe}
    KindOf <- DebugAndProbe
    EffectiveOf <- MCEffectiveOf
INVARIANTS
    EnvRestored
    FindsHomeAlone
    SettingsFromOwnHome
    KeyStaysWithProvider
PROPERTY
    LoadReturns
