SPECIFICATION MCSpec
CONSTANTS
    Nil = Nil
    Callbacks <- MCCallbacks
    Coroutines = {11, 12}
    Ids = {r1, r2}
    NoReturn = NoReturn
    Names = {"n"}
    Groups = {"g"}
    MaxPages = 2
    MaxQueue = 2
    Environments <- MCEnvironments
    PageBound <- MCPageBound
    Addresses = {e1, e2}
    Apps = {1, 2}
    Renderers = {1}
    Timeouts = {0, 1}
    MaxBirths = 2
    MaxDialogs = 2
    Manners <- MCManners
    Clients = {c1, c2, c3}
    MaxEvents = 2
    Limit = 1
    Multiplexers = {"epoll", "select"}
    LoopLiberties <- MCLoopLiberties
    MaxTlsQueue = 3
    MaxDepth = 4
    TlsLiberties <- MCTlsLiberties
    Texts <- Heads
    MaxHead = 17
INVARIANTS
    NoCrash WaitsForPage OwnersSound
    NothingFreedIsRead OnlyConsented
     WebClientsSound
PROPERTY ServesAgain
CHECK_DEADLOCK FALSE
