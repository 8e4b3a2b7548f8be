SPECIFICATION Spec
CONSTANTS
    Endpoint = {e1, e2}
    Name = {n1}
    Session = {s1}
    NoEndpoint = NoEndpoint
    NoName = NoName
    NoSession = NoSession
    NoRespondingTime = 1
    PingTime = 0
    NoRespondingPeriod = 2
    DanglingPeriod = 1
    Timeouts = {1}
    TimeWord = 64
    CountWord = 16
    MaxTime = 3
    Liberties <- NoLiberty
SYMMETRY Symmetry
INVARIANT
    WaitingAreDangling
