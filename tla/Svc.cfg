CONSTANTS
    ap1 = ap1
    m1 = m1
    m2 = m2
    Ports = {ap1, m1, m2}
    ApPort = ap1
    Interfaces = {ap1, m1}
    None = None
    MaxStarts = 2
SPECIFICATION Spec
INVARIANTS
    OneDaemon
    HotplugAfterHello
CHECK_DEADLOCK FALSE
