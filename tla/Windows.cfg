SPECIFICATION MCSpec
CONSTANTS
    Nil = Nil
    Names = {n1, n2}
    Addresses = {a1, a2}
    PageNames = {g1, g2, g3}
    Lists = {ol}
    Sheets = {ul}
    Ids = {r1}
    MaxPages = 3
    StartBound <- Starts
    MaxFlights = 2
    Environments <- Manners
SYMMETRY Permuted
INVARIANTS
    RepliesSafe HandlesOpen PagesSound
    TablesSound ClosedByOwner
CHECK_DEADLOCK FALSE
