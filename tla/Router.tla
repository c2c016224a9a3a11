------------------------------- MODULE Router -------------------------------
(***************************************************************************)
(* Can\Server\Router (Router.c): the array of routes, the two maps its     *)
(* constructor and addRoute keep over it, and the look-up request_handler  *)
(* (Server.c) makes in them for a request.                                 *)
(*                                                                         *)
(* A map gives the place of a route in the array, which is not checked     *)
(* against the array when it is used.  The array may be the one user code  *)
(* handed to the constructor, whose keys are user code's, and two routers  *)
(* may be handed the same one.                                             *)
(***************************************************************************)
EXTENDS Integers, Sequences, FiniteSets, FiniteSetsExt

CONSTANTS
    Router,     \* the router objects
    Route,      \* the route objects
    Method,     \* the HTTP methods
    MethodSets, \* the sets of methods routes are given
    Uri,        \* the paths requests ask for; a path without parameters is its own pattern
    Regexp,     \* the patterns made of paths with parameters
    Matches,    \* Matches[p]: the paths the regular expression p matches
    PatternOf,  \* PatternOf[t]: route->regexp or route->route
    Given,      \* the arrays user code hands to constructors
    Contents,   \* Contents[a]: the elements of array a, in its order
    Garbage,    \* what an uninitialised numkey may hold
    MaxAdded    \* bound: registrations

Pattern == Uri \union Regexp
StringKey == -1   \* an element under a string key has no integer key
ArrayKey == Nat \union {StringKey}
Element == [key : ArrayKey, route : Route]

ASSUME PatternsAssumption ==
    /\ Regexp \intersect Uri = {}
    /\ Matches \in [Regexp -> SUBSET Uri]
    /\ PatternOf \in [Route -> Pattern]
    /\ MethodSets \subseteq (SUBSET Method) \ {{}}
ASSUME ArraysAssumption ==
    /\ Contents \in [Given -> Seq(Element)]
    /\ Given \intersect Router = {}
    /\ Garbage \subseteq Nat
    /\ MaxAdded \in Nat

VARIABLES
    stage,          \* stage[x]: "absent", "constructing" (in the constructor's loop) or "ready"
    source,         \* source[x]: the array router->routes points to
    elements,       \* elements[a]: the elements of array a
    loaded,         \* loaded[x]: elements the constructor's loop has done
    numkey,         \* numkey[x]: the loop's variable of that name
    method_routes,  \* method_routes[x][m]: the ordered map from patterns to indices
    route_methods,  \* route_methods[x]: the keys of the other map
    pos,            \* pos[x]: the iterator
    methods,        \* methods[t]: route->methods
    added           \* added[x]: history, the routes registered, with their methods then

mapVars == <<method_routes, route_methods, added>>
vars == <<stage, source, elements, loaded, numkey, mapVars, pos, methods>>

\* A router made without an array makes its own.
Array == Given \union Router

Init ==
    /\ stage = [x \in Router |-> "absent"]
    /\ source = [x \in Router |-> x]
    /\ elements = [a \in Array |-> IF a \in Given THEN Contents[a] ELSE <<>>]
    /\ loaded = [x \in Router |-> 0]
    /\ numkey = [x \in Router |-> 0]
    /\ method_routes = [x \in Router |-> [m \in Method |-> <<>>]]
    /\ route_methods = [x \in Router |-> {}]
    /\ pos = [x \in Router |-> -1]
    /\ methods \in [Route -> MethodSets]
    /\ added = [x \in Router |-> <<>>]

-----------------------------------------------------------------------------
(* PHP arrays.                                                             *)

\* The key add_next_index_zval appends under.
NextFree(s) ==
    LET used == {s[i].key : i \in DOMAIN s} \ {StringKey}
    IN IF used = {} THEN 0 ELSE Max(used) + 1

\* zend_hash_index_find.
HasIndex(s, n) == \E i \in DOMAIN s : s[i].key = n
AtIndex(s, n) == s[CHOOSE i \in DOMAIN s : s[i].key = n].route

\* Mutant: a pattern registered again is not found in the map.
PutAgain(map, p, n) == Append(map, [pattern |-> p, index |-> n])
\* add_assoc_long: a pattern already there keeps its place in the order.
Put(map, p, n) ==
    IF \E i \in DOMAIN map : map[i].pattern = p
    THEN [i \in DOMAIN map |-> IF map[i].pattern = p
                               THEN [pattern |-> p, index |-> n] ELSE map[i]]
    ELSE Append(map, [pattern |-> p, index |-> n])

-----------------------------------------------------------------------------
(* The constructor and addRoute.                                           *)

\* The constructor's loop runs without a break: no user code is called in it.
Idle == \A x \in Router : stage[x] # "constructing"

\* add_route and the macro add_to_maps.
RegisterRoute(x, t, n) ==
    /\ method_routes' = [method_routes EXCEPT ![x] =
            [m \in Method |-> IF m \in methods[t] THEN Put(@[m], PatternOf[t], n) ELSE @[m]]]
    /\ route_methods' = [route_methods EXCEPT ![x] = @ \union {PatternOf[t]}]
    /\ added' = [added EXCEPT ![x] = Append(@, [route |-> t, methods |-> methods[t]])]

ConstructEmpty(x) ==
    /\ Idle /\ stage[x] = "absent"
    /\ stage' = [stage EXCEPT ![x] = "ready"]
    /\ UNCHANGED <<source, elements, loaded, numkey, mapVars, pos, methods>>

\* The array is shared with user code and the routers it was already given to.
\* numkey has no value yet; only an integer key gives it one.
Construct(x, a, n) ==
    /\ Idle /\ stage[x] = "absent"
    /\ stage' = [stage EXCEPT ![x] = "constructing"]
    /\ source' = [source EXCEPT ![x] = a]
    /\ numkey' = [numkey EXCEPT ![x] = n]
    /\ UNCHANGED <<elements, loaded, mapVars, pos, methods>>

ConstructNext(x) ==
    /\ stage[x] = "constructing"
    /\ loaded[x] < Len(elements[source[x]])
    /\ LET e == elements[source[x]][loaded[x] + 1]
           n == IF e.key = StringKey THEN numkey[x] ELSE e.key
       IN /\ RegisterRoute(x, e.route, n)
          /\ numkey' = [numkey EXCEPT ![x] = n]
    /\ loaded' = [loaded EXCEPT ![x] = @ + 1]
    /\ UNCHANGED <<stage, source, elements, pos, methods>>

ConstructEnd(x) ==
    /\ stage[x] = "constructing"
    /\ loaded[x] = Len(elements[source[x]])
    /\ stage' = [stage EXCEPT ![x] = "ready"]
    /\ UNCHANGED <<source, elements, loaded, numkey, mapVars, pos, methods>>

Registrations == Cardinality(UNION {{x} \X DOMAIN added[x] : x \in Router})

\* Mutant: the route is appended before its index is taken.
AddRouteLate(x, t) ==
    /\ Idle /\ stage[x] = "ready"
    /\ Registrations < MaxAdded
    /\ LET s == elements[source[x]]
       IN /\ RegisterRoute(x, t, Len(s) + 1)
          /\ elements' = [elements EXCEPT ![source[x]] =
                              Append(s, [key |-> NextFree(s), route |-> t])]
    /\ UNCHANGED <<stage, source, loaded, numkey, pos, methods>>
\* The index registered is the number of elements; the array chooses the key.
AddRoute(x, t) ==
    /\ Idle /\ stage[x] = "ready"
    /\ Registrations < MaxAdded
    /\ LET s == elements[source[x]]
       IN /\ RegisterRoute(x, t, Len(s))
          /\ elements' = [elements EXCEPT ![source[x]] =
                              Append(s, [key |-> NextFree(s), route |-> t])]
    /\ UNCHANGED <<stage, source, loaded, numkey, pos, methods>>

\* Route::setMethod, whatever routers the route is in.
SetMethod(t, ms) ==
    /\ Idle
    /\ methods' = [methods EXCEPT ![t] = ms]
    /\ UNCHANGED <<stage, source, elements, loaded, numkey, mapVars, pos>>

-----------------------------------------------------------------------------
(* The Iterator methods.                                                   *)

\* Mutant: one place after the last element is valid.
ValidBeyond(x) == pos[x] <= Len(elements[source[x]])
Valid(x) == pos[x] <= Len(elements[source[x]]) - 1

Rewind(x) ==
    /\ Idle /\ stage[x] = "ready"
    /\ pos' = [pos EXCEPT ![x] = 0]
    /\ UNCHANGED <<stage, source, elements, loaded, numkey, mapVars, methods>>

\* A loop goes on while valid.
Advance(x) ==
    /\ Idle /\ stage[x] = "ready"
    /\ Valid(x)
    /\ pos' = [pos EXCEPT ![x] = @ + 1]
    /\ UNCHANGED <<stage, source, elements, loaded, numkey, mapVars, methods>>

-----------------------------------------------------------------------------
(* request_handler's look-up.                                              *)

IsStatic(p, u) == p = u
IsDynamic(p, u) == p \in Regexp /\ u \in Matches[p]
IsFor(p, u) == IsStatic(p, u) \/ IsDynamic(p, u)

First(S) == CHOOSE i \in S : \A j \in S : i <= j
Last(S) == CHOOSE i \in S : \A j \in S : j <= i

\* The place in the map of the entry used: the path's own, or the first pattern
\* that matches; none is 0.
Hit(map, u) ==
    LET static == {i \in DOMAIN map : IsStatic(map[i].pattern, u)}
        dynamic == {i \in DOMAIN map : IsDynamic(map[i].pattern, u)}
    IN IF static # {} THEN First(static)
       ELSE IF dynamic # {} THEN First(dynamic) ELSE 0

\* The route that answers, or the status of the error.  (A router with no route
\* has no maps at all: nothing is said of it.)
Dispatch(x, m, u) ==
    LET map == method_routes[x][m]
        hit == Hit(map, u)
        s == elements[source[x]]
    IN IF hit # 0 /\ HasIndex(s, map[hit].index) THEN AtIndex(s, map[hit].index)
       ELSE IF \E p \in route_methods[x] : IsFor(p, u) THEN 405 ELSE 404

-----------------------------------------------------------------------------
Next ==
    \/ \E x \in Router :
          \/ ConstructEmpty(x)
          \/ \E a \in Given, n \in Garbage : Construct(x, a, n)
          \/ ConstructNext(x)
          \/ ConstructEnd(x)
          \/ \E t \in Route : AddRoute(x, t)
          \/ Rewind(x)
          \/ Advance(x)
    \/ \E t \in Route, ms \in MethodSets : SetMethod(t, ms)

Spec == Init /\ [][Next]_vars

-----------------------------------------------------------------------------
(* Properties.                                                             *)

\* What the registrations of x say of a request: the route last registered for
\* the path itself, else the one last registered with the pattern that was the
\* first of those matching, else 405 if another method would do, else 404.
Expected(x, m, u) ==
    LET all == DOMAIN added[x]
        pattern(i) == PatternOf[added[x][i].route]
        mine == {i \in all : m \in added[x][i].methods}
        static == {i \in mine : IsStatic(pattern(i), u)}
        dynamic == {i \in mine : IsDynamic(pattern(i), u)}
    IN IF static # {} THEN added[x][Last(static)].route
       ELSE IF dynamic # {}
       THEN added[x][Last({i \in mine : pattern(i) = pattern(First(dynamic))})].route
       ELSE IF \E i \in all : IsFor(pattern(i), u) THEN 405 ELSE 404

\* A request gets the route its router's registrations call for, or the right
\* error, though the maps, the array (which two routers may share) and the
\* routes' methods change separately.
DispatchAsRegistered ==
    \A x \in Router : stage[x] = "ready" /\ added[x] # <<>> =>
        \A m \in Method, u \in Uri : Dispatch(x, m, u) = Expected(x, m, u)

\* Server.h: "key is route index and value is a route instance".  Every index in
\* a router's maps is that of a route with the pattern it was found under.
IndexIsRoute ==
    \A x \in Router, m \in Method :
        \A i \in DOMAIN method_routes[x][m] :
            LET e == method_routes[x][m][i] IN
            /\ HasIndex(elements[source[x]], e.index)
            /\ PatternOf[AtIndex(elements[source[x]], e.index)] = e.pattern

\* Wherever an iteration may ask for the current element there is one, also
\* after routes were added while it was under way.
CurrentIsRoute ==
    \A x \in Router : stage[x] = "ready" /\ pos[x] >= 0 /\ Valid(x)
        => HasIndex(elements[source[x]], pos[x])

=============================================================================
