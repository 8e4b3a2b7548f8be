SPECIFICATION Spec
CONSTANTS
    Endpoint = {e1, e2}
    Name = {n1, n2}
    Session = {s1}
    NoEndpoint = NoEndpoint
    NoName = NoName
    NoSession = NoSession
    NoRespondingTime = 1
    PingTime = 0
    NoRespondingPeriod = 2
    DanglingPeriod = 1
    Timeouts = {1}
    TimeWord = 64
    CountWord = 16
    MaxTime = 3
    Liberties <- All
SYMMETRY Symmetry
INVARIANTS
    TypeOK
    DanglingNameFree
    TreeCurrent
    SessionsSound
PROPERTIES
    SweepComplete
    NoOverwrite
