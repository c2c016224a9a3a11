SPECIFICATION Spec
CONSTANTS
    r1 = r1
    r2 = r2
    Request = {r1}
    Api <- NoApi
    Exceptions = {"HTTPError", "HTTPForward", "other"}
    StatusCodes = {200}
    UpstreamCodes = {200}
    HeadRequest = {}
    CounterMax = 1
    MaxLen = 1
    ClientsLeave = FALSE
    ConnectErrors = FALSE
INVARIANTS
    MissingResponseIs500
