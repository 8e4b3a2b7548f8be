SPECIFICATION MCSpec
CONSTANTS
    Name <- Names
    AddressOf <- Addresses
    Time <- Times
    Endpoint <- Endpoints
    Nil = Nil
    SortValue <- Values
    Data = {0, 1}
    SASZ_DEFAULT = 2
    MaxMembers = 5
    Views = {1}
    Sessions = {1}
    Clients <- ClientSet
    Uris <- UriSet
    MaxToLoad = 1
    MaxSize = 2
    MaxWrites = 2
    MaxRequests = 2
    Descriptors = {d1, d2}
    Faults = {"short", "unremovable"}
INVARIANTS PartsSound AnsweredSoundly ServedOnce
PROPERTY ImplementBags
CHECK_DEADLOCK FALSE
