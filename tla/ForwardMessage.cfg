SPECIFICATION Spec
CONSTANTS
    v = v
    w = w
    Key <- Keys
    Value = {v, w}
    MaxBody = 2
    MaxCalls = 3
    ClientMessage <- Requests
    UpstreamMessage <- Answers
    Cookie <- Cookies
    Override <- Overrides
INVARIANTS
    ClientCanReadTheBody
    OverridesReplace
    UpstreamCanReadTheBody
    LogCountsBody
    CookiesReachClient
CHECK_DEADLOCK FALSE
