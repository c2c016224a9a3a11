SPECIFICATION WellBehavedSpec
CONSTANTS
    r1 = r1
    r2 = r2
    Request = {r1, r2}
    Api <- AnyApi
    Exceptions = {"HTTPError", "HTTPForward", "other"}
    StatusCodes = {204, 404}
    UpstreamCodes = {304, 999}
    HeadRequest = {r2}
    CounterMax = 1
    MaxLen = 1
    ClientsLeave = TRUE
    ConnectErrors = FALSE
INVARIANTS
    TypeOK
    LogCountsBytesSent
PROPERTIES
    ImplementsContract
    EveryRequestAnswered
    EveryForwardEnds
