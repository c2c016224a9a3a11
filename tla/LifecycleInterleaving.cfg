SPECIFICATION Spec
CONSTANTS
    r1 = r1
    r2 = r2
    Request = {r1, r2}
    Api <- MisusingApi
    Exceptions = {"HTTPError", "HTTPForward", "other"}
    StatusCodes = {404}
    UpstreamCodes = {999}
    HeadRequest = {}
    CounterMax = 2
    MaxLen = 1
    ClientsLeave = TRUE
    ConnectErrors = TRUE
SYMMETRY Symmetry
INVARIANTS
    GarbledOnlyByMisuse
    NoRequestForgotten
    LogOnceUnderOwnNumber
    ObjectHeldWhileUsed
    StaleOnlyAfterDeparture
    IInv
    StatusLineValid
