SPECIFICATION Spec
CONSTANTS
    x1 = x1
    x2 = x2
    seven = seven
    id = id
    anything = anything
    other = other
    Router = {x1, x2}
    Route = {seven, id, anything, other}
    Method = {"GET", "POST"}
    MethodSets <- MCMethodSets
    Uri <- MCUri
    Regexp <- MCRegexp
    Matches <- MCMatches
    PatternOf <- MCPatternOf
    Given = {"list"}
    Contents <- Lists
    Garbage = {0}
    MaxAdded = 3
SYMMETRY Symmetry
INVARIANTS
    DispatchAsRegistered
    CurrentIsRoute
    IndexIsRoute
CHECK_DEADLOCK FALSE
