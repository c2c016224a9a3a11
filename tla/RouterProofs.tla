---------------------------- MODULE RouterProofs ----------------------------
(* Theorems about Router for every set of routers, routes, methods, paths  *)
(* and patterns, and arrays as long as they like, when user code hands the *)
(* constructor lists: of an array with a gap the next index is taken.      *)
EXTENDS Router, ExtremaLemmas, SequenceTheorems, TLAPS

\* An array whose keys are 0, 1, 2 and so on, in its order.
IsList(s) == \A i \in DOMAIN s : s[i].key = i - 1

\* What user code hands to constructors are such.
ListsOnly == \A a \in Given : IsList(Contents[a])

-----------------------------------------------------------------------------
(* The invariants.                                                         *)

Entry == [pattern : Pattern, index : Nat]
Registration == [route : Route, methods : SUBSET Method]
Types ==
    /\ stage \in [Router -> {"absent", "constructing", "ready"}]
    /\ source \in [Router -> Array]
    /\ elements \in [Array -> Seq(Element)]
    /\ loaded \in [Router -> Nat]
    /\ method_routes \in [Router -> [Method -> Seq(Entry)]]
    /\ route_methods \in [Router -> SUBSET Pattern]
    /\ pos \in [Router -> Int]
    /\ methods \in [Route -> SUBSET Method]
    /\ added \in [Router -> Seq(Registration)]

\* The registrations in A for a method with a pattern.
Reg(A, m, p) == {k \in DOMAIN A : m \in A[k].methods /\ PatternOf[A[k].route] = p}

\* A map of the registrations A over the array s: each pattern once, with the
\* index of the route registered with it last, in the order of those registered
\* with it first.
MapOf(map, A, s, m) ==
    /\ \A i, j \in DOMAIN map : map[i].pattern = map[j].pattern => i = j
    /\ \A k \in DOMAIN A : m \in A[k].methods =>
            \E i \in DOMAIN map : map[i].pattern = PatternOf[A[k].route]
    /\ \A i \in DOMAIN map :
            /\ map[i].index < Len(s)
            /\ \E k \in Reg(A, m, map[i].pattern) :
                  /\ s[map[i].index + 1].route = A[k].route
                  /\ \A l \in Reg(A, m, map[i].pattern) : l <= k
    /\ \A i, j \in DOMAIN map : i < j =>
            \E k \in Reg(A, m, map[i].pattern) :
                \A l \in Reg(A, m, map[j].pattern) : k < l

MapsInv(x) ==
    /\ \A m \in Method : MapOf(method_routes[x][m], added[x], elements[source[x]], m)
    /\ route_methods[x] = {PatternOf[added[x][k].route] : k \in DOMAIN added[x]}
    /\ stage[x] = "absent" => added[x] = << >>

RInv ==
    /\ Types
    /\ \A a \in Array : IsList(elements[a])
    /\ \A x \in Router : MapsInv(x)

-----------------------------------------------------------------------------
(* What a registration does to a map.                                      *)

\* What Append does to a sequence, its length and its domain.
LEMMA Appended ==
    ASSUME NEW S, NEW s \in Seq(S), NEW e \in S
    PROVE  /\ Append(s, e) \in Seq(S) /\ Len(Append(s, e)) = Len(s) + 1
           /\ Len(s) \in Nat /\ DOMAIN s = 1..Len(s)
           /\ DOMAIN Append(s, e) = DOMAIN s \union {Len(s) + 1}
           /\ Append(s, e)[Len(s) + 1] = e
           /\ \A i \in DOMAIN s : Append(s, e)[i] = s[i] /\ i < Len(s) + 1 /\ i \in Nat
OBVIOUS

\* A registration for the method joins those with its pattern, any other none.
LEMMA RegAppended ==
    ASSUME NEW A \in Seq(Registration), NEW r \in Registration, NEW m, NEW p
    PROVE  Reg(Append(A, r), m, p) =
             IF m \in r.methods /\ PatternOf[r.route] = p
             THEN Reg(A, m, p) \union {Len(A) + 1} ELSE Reg(A, m, p)
BY Appended DEF Reg

\* Putting a route into the map of one of its methods registers it there.
LEMMA PutKeeps ==
    ASSUME NEW map \in Seq(Entry), NEW A \in Seq(Registration), NEW s \in Seq(Element),
           NEW m, NEW r \in Registration, m \in r.methods,
           NEW n \in Nat, n < Len(s), s[n + 1].route = r.route,
           MapOf(map, A, s, m)
    PROVE  /\ Put(map, PatternOf[r.route], n) \in Seq(Entry)
           /\ MapOf(Put(map, PatternOf[r.route], n), Append(A, r), s, m)
<1> DEFINE p == PatternOf[r.route]
           B == Append(A, r)
           K == Len(A) + 1
           e == [pattern |-> p, index |-> n]
           new == Put(map, p, n)
<1>1. p \in Pattern /\ e \in Entry /\ e.pattern = p /\ e.index = n
  BY PatternsAssumption DEF Registration, Entry
<1>2. /\ Reg(B, m, p) = Reg(A, m, p) \union {K}
      /\ \A q : q # p => Reg(B, m, q) = Reg(A, m, q)
      /\ \A q : Reg(A, m, q) \subseteq Reg(B, m, q) /\ Reg(B, m, q) \subseteq Reg(A, m, q) \union {K}
  BY RegAppended
<1>3. /\ K \in Nat /\ \A k \in DOMAIN A : k \in Nat /\ k < K /\ B[k] = A[k]
      /\ DOMAIN B = DOMAIN A \union {K} /\ B[K] = r
  BY Appended
<1>4. \A q : Reg(A, m, q) \subseteq DOMAIN A
  BY DEF Reg
<1>5. \A i \in DOMAIN map : map[i] \in Entry
  OBVIOUS
<1> HIDE DEF p, B, K, e
<1>6. CASE \E i \in DOMAIN map : map[i].pattern = p
  <2>1. new = [i \in DOMAIN map |-> IF map[i].pattern = p THEN e ELSE map[i]]
    BY <1>6 DEF Put, e
  <2>2. new \in Seq(Entry) /\ DOMAIN new = DOMAIN map
    BY <1>1, <1>5, <2>1
  <2>3. \A i \in DOMAIN map : /\ new[i].pattern = map[i].pattern
                              /\ map[i].pattern = p => new[i].index = n
                              /\ map[i].pattern # p => new[i] = map[i]
    BY <1>1, <2>1
  <2> HIDE DEF new
  <2>4. \A i, j \in DOMAIN new : new[i].pattern = new[j].pattern => i = j
    BY <2>2, <2>3 DEF MapOf
  <2>5. ASSUME NEW k \in DOMAIN B, m \in B[k].methods
        PROVE  \E i \in DOMAIN new : new[i].pattern = PatternOf[B[k].route]
    <3>1. CASE k = K
      BY <1>3, <1>6, <2>2, <2>3, <3>1 DEF p
    <3>2. CASE k \in DOMAIN A
      BY <1>3, <2>2, <2>3, <2>5, <3>2 DEF MapOf
    <3> QED
      BY <1>3, <3>1, <3>2
  <2>6. ASSUME NEW i \in DOMAIN new
        PROVE  /\ new[i].index < Len(s)
               /\ \E k \in Reg(B, m, new[i].pattern) :
                     /\ s[new[i].index + 1].route = B[k].route
                     /\ \A l \in Reg(B, m, new[i].pattern) : l <= k
    <3>1. CASE map[i].pattern = p
      <4>1. new[i].index = n /\ new[i].pattern = p
        BY <2>2, <2>3, <3>1
      <4>2. K \in Reg(B, m, p) /\ \A l \in Reg(B, m, p) : l <= K
        BY <1>2, <1>3, <1>4
      <4> QED
        BY <1>3, <4>1, <4>2
    <3>2. CASE map[i].pattern # p
      <4>1. new[i] = map[i] /\ Reg(B, m, new[i].pattern) = Reg(A, m, map[i].pattern)
        BY <1>2, <2>2, <2>3, <3>2
      <4>2. PICK k \in Reg(A, m, map[i].pattern) :
                /\ s[map[i].index + 1].route = A[k].route
                /\ \A l \in Reg(A, m, map[i].pattern) : l <= k
        BY <2>2 DEF MapOf
      <4>3. B[k].route = A[k].route
        BY <1>3, <1>4
      <4> QED
        BY <2>2, <4>1, <4>2, <4>3 DEF MapOf
    <3> QED
      BY <3>1, <3>2
  <2>7. ASSUME NEW i \in DOMAIN new, NEW j \in DOMAIN new, i < j
        PROVE  \E k \in Reg(B, m, new[i].pattern) :
                  \A l \in Reg(B, m, new[j].pattern) : k < l
    <3>1. PICK k \in Reg(A, m, map[i].pattern) : \A l \in Reg(A, m, map[j].pattern) : k < l
      BY <2>2, <2>7 DEF MapOf
    <3>2. k < K
      BY <1>3, <1>4
    <3> QED
      BY <1>2, <2>2, <2>3, <3>1, <3>2
  <2>8. MapOf(new, B, s, m)
    BY <2>4, <2>5, <2>6, <2>7 DEF MapOf
  <2> QED
    BY <2>2, <2>8 DEF new, p, B
<1>7. CASE \A i \in DOMAIN map : map[i].pattern # p
  <2>1. new = Append(map, e)
    BY <1>7 DEF Put, e
  <2> DEFINE I == Len(map) + 1
  <2>2. /\ new \in Seq(Entry) /\ DOMAIN new = DOMAIN map \union {I} /\ new[I] = e
        /\ \A i \in DOMAIN map : new[i] = map[i] /\ i < I /\ i \in Nat
        /\ I \in Nat
    BY <1>1, <2>1, Appended
  <2> HIDE DEF new, I
  <2>3. Reg(A, m, p) = {} /\ Reg(B, m, p) = {K}
    <3>1. ASSUME NEW k \in Reg(A, m, p) PROVE FALSE
      <4>1. k \in DOMAIN A /\ m \in A[k].methods /\ PatternOf[A[k].route] = p
        BY DEF Reg
      <4>2. \E i \in DOMAIN map : map[i].pattern = PatternOf[A[k].route]
        BY <4>1 DEF MapOf
      <4> QED
        BY <1>7, <4>1, <4>2
    <3> QED
      BY <1>2, <3>1
  <2>4. \A i, j \in DOMAIN new : new[i].pattern = new[j].pattern => i = j
    BY <1>1, <1>7, <2>2 DEF MapOf
  <2>5. ASSUME NEW k \in DOMAIN B, m \in B[k].methods
        PROVE  \E i \in DOMAIN new : new[i].pattern = PatternOf[B[k].route]
    <3>1. CASE k = K
      BY <1>1, <1>3, <2>2, <3>1 DEF p
    <3>2. CASE k \in DOMAIN A
      BY <1>3, <2>2, <2>5, <3>2 DEF MapOf
    <3> QED
      BY <1>3, <3>1, <3>2
  <2>6. ASSUME NEW i \in DOMAIN new
        PROVE  /\ new[i].index < Len(s)
               /\ \E k \in Reg(B, m, new[i].pattern) :
                     /\ s[new[i].index + 1].route = B[k].route
                     /\ \A l \in Reg(B, m, new[i].pattern) : l <= k
    <3>1. CASE i = I
      BY <1>1, <1>3, <2>2, <2>3, <3>1
    <3>2. CASE i \in DOMAIN map
      <4>1. new[i] = map[i] /\ Reg(B, m, new[i].pattern) = Reg(A, m, map[i].pattern)
        BY <1>2, <1>7, <2>2, <3>2
      <4>2. PICK k \in Reg(A, m, map[i].pattern) :
                /\ s[map[i].index + 1].route = A[k].route
                /\ \A l \in Reg(A, m, map[i].pattern) : l <= k
        BY <3>2 DEF MapOf
      <4>3. B[k].route = A[k].route
        BY <1>3, <1>4
      <4> QED
        BY <3>2, <4>1, <4>2, <4>3 DEF MapOf
    <3> QED
      BY <2>2, <3>1, <3>2
  <2>7. ASSUME NEW i \in DOMAIN new, NEW j \in DOMAIN new, i < j
        PROVE  \E k \in Reg(B, m, new[i].pattern) :
                  \A l \in Reg(B, m, new[j].pattern) : k < l
    <3>1. i \in DOMAIN map /\ new[i] = map[i]
      BY <2>2, <2>7
    <3>2. CASE j \in DOMAIN map
      <4>1. PICK k \in Reg(A, m, map[i].pattern) : \A l \in Reg(A, m, map[j].pattern) : k < l
        BY <2>7, <3>1, <3>2 DEF MapOf
      <4>2. k < K
        BY <1>3, <1>4
      <4> QED
        BY <1>2, <2>2, <3>1, <3>2, <4>1, <4>2
    <3>3. CASE j = I
      <4>1. PICK k \in Reg(A, m, map[i].pattern) : TRUE
        BY <3>1 DEF MapOf
      <4>2. k < K /\ new[j].pattern = p
        BY <1>1, <1>3, <1>4, <2>2, <3>3
      <4> QED
        BY <1>2, <2>3, <3>1, <4>1, <4>2
    <3> QED
      BY <2>2, <3>2, <3>3
  <2>8. MapOf(new, B, s, m)
    BY <2>4, <2>5, <2>6, <2>7 DEF MapOf
  <2> QED
    BY <2>2, <2>8 DEF new, p, B
<1> QED
  BY <1>6, <1>7

\* A registration without a method leaves the map of that method right.
LEMMA OtherMethodKeeps ==
    ASSUME NEW map, NEW A \in Seq(Registration), NEW s, NEW m,
           NEW r \in Registration, m \notin r.methods, MapOf(map, A, s, m)
    PROVE  MapOf(map, Append(A, r), s, m)
<1>1. \A q : Reg(Append(A, r), m, q) = Reg(A, m, q) /\ Reg(A, m, q) \subseteq DOMAIN A
  BY RegAppended DEF Reg
<1>2. /\ \A k \in DOMAIN A : Append(A, r)[k] = A[k]
      /\ DOMAIN Append(A, r) = DOMAIN A \union {Len(A) + 1} /\ Append(A, r)[Len(A) + 1] = r
  BY Appended
<1>3. ASSUME NEW i \in DOMAIN map
      PROVE  /\ map[i].index < Len(s)
             /\ \E k \in Reg(Append(A, r), m, map[i].pattern) :
                   /\ s[map[i].index + 1].route = Append(A, r)[k].route
                   /\ \A l \in Reg(Append(A, r), m, map[i].pattern) : l <= k
  <2>1. /\ map[i].index < Len(s)
        /\ \E k \in Reg(A, m, map[i].pattern) :
              /\ s[map[i].index + 1].route = A[k].route
              /\ \A l \in Reg(A, m, map[i].pattern) : l <= k
    BY DEF MapOf
  <2> HIDE DEF Reg
  <2> QED
    BY <1>1, <1>2, <2>1
<1>4. \A k \in DOMAIN Append(A, r) : m \in Append(A, r)[k].methods =>
        k \in DOMAIN A /\ m \in A[k].methods /\ Append(A, r)[k] = A[k]
  BY <1>2
<1>5. \A i, j \in DOMAIN map : i < j =>
        \E k \in Reg(Append(A, r), m, map[i].pattern) :
            \A l \in Reg(Append(A, r), m, map[j].pattern) : k < l
  <2>1. \A i, j \in DOMAIN map : i < j =>
          \E k \in Reg(A, m, map[i].pattern) : \A l \in Reg(A, m, map[j].pattern) : k < l
    BY DEF MapOf
  <2> QED
    BY <1>1, <2>1
<1>6. \A i, j \in DOMAIN map : map[i].pattern = map[j].pattern => i = j
  BY DEF MapOf
<1>7. \A k \in DOMAIN A : m \in A[k].methods =>
        \E i \in DOMAIN map : map[i].pattern = PatternOf[A[k].route]
  BY DEF MapOf
<1>8. \A k \in DOMAIN Append(A, r) : m \in Append(A, r)[k].methods =>
        \E i \in DOMAIN map : map[i].pattern = PatternOf[Append(A, r)[k].route]
  BY <1>4, <1>7
<1> QED
  BY <1>3, <1>5, <1>6, <1>8 DEF MapOf

\* So does an element appended to the array, by this router or another one.
LEMMA LongerArrayKeeps ==
    ASSUME NEW map \in Seq(Entry), NEW A, NEW s \in Seq(Element), NEW m,
           NEW e \in Element, MapOf(map, A, s, m)
    PROVE  MapOf(map, A, Append(s, e), m)
<1>1. ASSUME NEW i \in DOMAIN map
      PROVE  /\ map[i].index < Len(Append(s, e))
             /\ Append(s, e)[map[i].index + 1] = s[map[i].index + 1]
  <2>1. map[i].index \in Nat /\ map[i].index < Len(s)
    <3>1. map[i] \in Entry
      OBVIOUS
    <3>2. map[i].index < Len(s)
      BY DEF MapOf
    <3> QED
      BY <3>1, <3>2 DEF Entry
  <2>2. map[i].index + 1 \in DOMAIN s
    BY <2>1
  <2> QED
    BY <2>1, <2>2, Appended
<1> QED
  BY <1>1 DEF MapOf

\* add_route: the maps of one router, over an array that has the route at the index.
LEMMA Registers ==
    ASSUME Types, NEW x \in Router, NEW t \in Route, NEW n \in Nat, NEW s \in Seq(Element),
           n < Len(s), s[n + 1].route = t, RegisterRoute(x, t, n),
           \A m \in Method : MapOf(method_routes[x][m], added[x], s, m),
           route_methods[x] = {PatternOf[added[x][k].route] : k \in DOMAIN added[x]}
    PROVE  /\ \A m \in Method : MapOf(method_routes'[x][m], added'[x], s, m)
           /\ route_methods'[x] = {PatternOf[added'[x][k].route] : k \in DOMAIN added'[x]}
           /\ method_routes' \in [Router -> [Method -> Seq(Entry)]]
           /\ route_methods' \in [Router -> SUBSET Pattern]
           /\ added' \in [Router -> Seq(Registration)]
           /\ \A y \in Router : y # x =>
                 UNCHANGED <<method_routes[y], route_methods[y], added[y]>>
<1> DEFINE r == [route |-> t, methods |-> methods[t]]
           map(m) == IF m \in methods[t] THEN Put(method_routes[x][m], PatternOf[t], n)
                     ELSE method_routes[x][m]
<1>1. r \in Registration /\ r.route = t /\ r.methods = methods[t] /\ PatternOf[t] \in Pattern
  BY PatternsAssumption DEF Registration, Types
<1>2. /\ added[x] \in Seq(Registration)
      /\ \A m \in Method : method_routes[x][m] \in Seq(Entry)
  BY DEF Types
<1>3. added' = [added EXCEPT ![x] = Append(added[x], r)]
  BY DEF RegisterRoute
<1>4. method_routes' = [method_routes EXCEPT ![x] = [m \in Method |-> map(m)]]
  BY DEF RegisterRoute
<1>5. route_methods' = [route_methods EXCEPT ![x] = route_methods[x] \union {PatternOf[t]}]
  BY DEF RegisterRoute
<1>6. ASSUME NEW m \in Method
      PROVE  map(m) \in Seq(Entry) /\ MapOf(map(m), Append(added[x], r), s, m)
  <2> HIDE DEF r
  <2>1. CASE m \in methods[t]
    <3>1. m \in r.methods /\ s[n + 1].route = r.route /\ map(m) = Put(method_routes[x][m], PatternOf[r.route], n)
      BY <1>1, <2>1
    <3> HIDE DEF map
    <3> QED
      BY <1>1, <1>2, <3>1, PutKeeps
  <2>2. CASE m \notin methods[t]
    BY <1>1, <1>2, <2>2, OtherMethodKeeps
  <2> QED
    BY <2>1, <2>2
<1> HIDE DEF r, map
<1>7. /\ added'[x] = Append(added[x], r) /\ \A m \in Method : method_routes'[x][m] = map(m)
      /\ route_methods'[x] = route_methods[x] \union {PatternOf[t]}
  BY <1>3, <1>4, <1>5 DEF Types
<1>8. route_methods'[x] = {PatternOf[added'[x][k].route] : k \in DOMAIN added'[x]}
  <2>1. /\ DOMAIN added'[x] = DOMAIN added[x] \union {Len(added[x]) + 1}
        /\ \A k \in DOMAIN added[x] : added'[x][k] = added[x][k]
        /\ added'[x][Len(added[x]) + 1].route = t
    BY <1>1, <1>2, <1>7, Appended
  <2> QED
    BY <1>7, <2>1
<1>9. /\ method_routes' \in [Router -> [Method -> Seq(Entry)]]
      /\ route_methods' \in [Router -> SUBSET Pattern]
      /\ added' \in [Router -> Seq(Registration)]
  <2>1. Append(added[x], r) \in Seq(Registration)
    BY <1>1, <1>2, Appended
  <2>2. [m \in Method |-> map(m)] \in [Method -> Seq(Entry)]
    BY <1>6
  <2> QED
    BY <1>1, <1>3, <1>4, <1>5, <2>1, <2>2 DEF Types
<1>10. \A y \in Router : y # x => UNCHANGED <<method_routes[y], route_methods[y], added[y]>>
  BY <1>3, <1>4, <1>5 DEF Types
<1> QED
  BY <1>6, <1>7, <1>8, <1>9, <1>10

\* Appending to a list leaves a list.
LEMMA NextFreeOfList ==
    ASSUME NEW s \in Seq(Element), IsList(s)
    PROVE  NextFree(s) = Len(s)
<1> DEFINE used == {s[i].key : i \in DOMAIN s} \ {StringKey}
<1>1. used = 0..(Len(s) - 1)
  <2> DEFINE n == Len(s)
  <2>1. n \in Nat /\ \A i \in DOMAIN s : s[i].key = i - 1 /\ i \in Int /\ 1 <= i /\ i <= n
    BY DEF IsList
  <2>2. \A i \in Int : 1 <= i /\ i <= n => i \in DOMAIN s
    OBVIOUS
  <2> HIDE DEF n
  <2>3. ASSUME NEW k \in 0..(n - 1) PROVE k \in used
    <3>1. k + 1 \in Int /\ 1 <= k + 1 /\ k + 1 <= n /\ (k + 1) - 1 = k /\ k # -1
      BY <2>1
    <3>2. k + 1 \in DOMAIN s /\ s[k + 1].key = k
      BY <2>1, <2>2, <3>1
    <3> QED
      BY <3>1, <3>2 DEF StringKey
  <2>4. ASSUME NEW i \in DOMAIN s PROVE s[i].key \in 0..(n - 1)
    BY <2>1
  <2> QED
    BY <2>3, <2>4 DEF n
<1>2. NextFree(s) = IF used = {} THEN 0 ELSE Max(used) + 1
  BY DEF NextFree
<1> HIDE DEF used
<1>3. ASSUME NEW n \in Nat, used = 0..(n - 1) PROVE NextFree(s) = n
  <2>1. CASE n = 0
    BY <1>2, <1>3, <2>1
  <2>2. CASE n > 0
    <3>1. n - 1 \in used /\ \A k \in used : k \in Int /\ n - 1 >= k
      BY <1>3, <2>2
    <3>2. Max(used) = n - 1
      BY <3>1, GreatestIsMax
    <3> QED
      BY <1>2, <3>1, <3>2
  <2> QED
    BY <2>1, <2>2
<1> QED
  BY <1>1, <1>3

-----------------------------------------------------------------------------
(* The steps.                                                              *)

\* The constructor begins over an array that user code handed to it.
LEMMA ConstructInv ==
    ASSUME RInv, NEW x \in Router, NEW a \in Given, NEW n, Construct(x, a, n)
    PROVE  RInv'
<1>1. /\ stage[x] = "absent" /\ stage' = [stage EXCEPT ![x] = "constructing"]
      /\ source' = [source EXCEPT ![x] = a]
      /\ UNCHANGED <<elements, loaded, method_routes, route_methods, added, pos, methods>>
  BY DEF Construct, mapVars
<1>2. Types'
  BY <1>1 DEF RInv, Types, Array
<1>3. MapsInv(x)'
  <2>1. added[x] = << >> /\ route_methods[x] = {PatternOf[added[x][k].route] : k \in DOMAIN added[x]}
    BY <1>1 DEF RInv, MapsInv
  <2>2. ASSUME NEW m \in Method PROVE MapOf(method_routes'[x][m], added'[x], elements'[source'[x]], m)
    <3>1. \A p : Reg(added[x], m, p) = {}
      BY <2>1 DEF Reg
    <3>2. DOMAIN method_routes[x][m] = {}
      BY <3>1 DEF RInv, MapsInv, MapOf
    <3> QED
      BY <1>1, <2>1, <3>2 DEF MapOf
  <2> QED
    BY <1>1, <2>1, <2>2 DEF MapsInv, RInv, Types
<1>4. ASSUME NEW y \in Router, y # x PROVE MapsInv(y)'
  <2>1. source'[y] = source[y] /\ stage'[y] = stage[y]
    BY <1>1, <1>4 DEF RInv, Types
  <2> QED
    BY <1>1, <2>1 DEF RInv, MapsInv
<1> QED
  BY <1>1, <1>2, <1>3, <1>4 DEF RInv

\* It registers the next element of the array under its index.
LEMMA ConstructNextInv ==
    ASSUME RInv, NEW x \in Router, ConstructNext(x)
    PROVE  RInv'
<1> DEFINE s == elements[source[x]]
           n == loaded[x]
<1>1. /\ stage[x] = "constructing" /\ n < Len(s)
      /\ UNCHANGED <<stage, source, elements, pos, methods>>
      /\ loaded' = [loaded EXCEPT ![x] = n + 1]
  BY DEF ConstructNext
<1>2. s \in Seq(Element) /\ n \in Nat /\ IsList(s)
  BY DEF RInv, Types
<1>3. s[n + 1].route \in Route /\ s[n + 1].key = n /\ n # StringKey
  <2> HIDE DEF n, s
  <2>1. n + 1 \in DOMAIN s /\ (n + 1) - 1 = n
    BY <1>1, <1>2
  <2>2. s[n + 1] \in Element /\ s[n + 1].key = n
    BY <1>2, <2>1 DEF IsList
  <2> QED
    BY <1>2, <2>2 DEF Element, StringKey
<1>4. RegisterRoute(x, s[n + 1].route, n)
  BY <1>3 DEF ConstructNext
<1>5. /\ \A m \in Method : MapOf(method_routes[x][m], added[x], s, m)
      /\ route_methods[x] = {PatternOf[added[x][k].route] : k \in DOMAIN added[x]}
  BY DEF RInv, MapsInv
<1> HIDE DEF n, s
<1>6. /\ \A m \in Method : MapOf(method_routes'[x][m], added'[x], s, m)
      /\ route_methods'[x] = {PatternOf[added'[x][k].route] : k \in DOMAIN added'[x]}
      /\ method_routes' \in [Router -> [Method -> Seq(Entry)]]
      /\ route_methods' \in [Router -> SUBSET Pattern]
      /\ added' \in [Router -> Seq(Registration)]
      /\ \A y \in Router : y # x =>
            UNCHANGED <<method_routes[y], route_methods[y], added[y]>>
  BY <1>1, <1>2, <1>3, <1>4, <1>5, Registers DEF RInv
<1>7. Types'
  <2>1. n + 1 \in Nat /\ loaded \in [Router -> Nat]
    BY <1>2 DEF RInv, Types
  <2>2. loaded' \in [Router -> Nat]
    BY <1>1, <2>1
  <2> QED
    BY <1>1, <1>6, <2>2 DEF RInv, Types
<1>8. MapsInv(x)'
  BY <1>1, <1>6 DEF MapsInv, s
<1>9. ASSUME NEW y \in Router, y # x PROVE MapsInv(y)'
  <2>1. /\ UNCHANGED <<method_routes[y], route_methods[y], added[y]>>
        /\ UNCHANGED <<source[y], stage[y], elements>>
    BY <1>1, <1>6, <1>9
  <2> QED
    BY <2>1 DEF RInv, MapsInv
<1> QED
  BY <1>1, <1>7, <1>8, <1>9 DEF RInv

\* addRoute appends a route and registers it under its index.
LEMMA AddRouteInv ==
    ASSUME RInv, NEW x \in Router, NEW t \in Route, AddRoute(x, t)
    PROVE  RInv'
<1> DEFINE a == source[x]
           s == elements[a]
           e == [key |-> NextFree(s), route |-> t]
           new == Append(s, e)
<1>1. /\ stage[x] = "ready" /\ RegisterRoute(x, t, Len(s))
      /\ elements' = [elements EXCEPT ![a] = new]
      /\ UNCHANGED <<stage, source, loaded, pos, methods>>
  BY DEF AddRoute
<1>2. a \in Array /\ s \in Seq(Element) /\ IsList(s) /\ Len(s) \in Nat
  BY DEF RInv, Types
<1>3. NextFree(s) = Len(s)
  BY <1>2, NextFreeOfList
<1>4. e \in Element /\ e.key = Len(s) /\ e.route = t
  BY <1>2, <1>3 DEF Element, ArrayKey
<1>5. elements'[a] = new /\ \A b \in Array : b # a => elements'[b] = elements[b]
  BY <1>1, <1>2 DEF RInv, Types
<1> HIDE DEF e
<1>6. /\ new \in Seq(Element) /\ Len(s) < Len(new) /\ new[Len(s) + 1] = e
      /\ DOMAIN new = DOMAIN s \union {Len(s) + 1} /\ \A i \in DOMAIN s : new[i] = s[i]
  BY <1>2, <1>4, Appended
<1>7. IsList(new)
  <2> HIDE DEF s, new
  <2>1. \A i \in DOMAIN s : new[i].key = i - 1
    BY <1>2, <1>6 DEF IsList
  <2>2. new[Len(s) + 1].key = (Len(s) + 1) - 1
    BY <1>2, <1>4, <1>6
  <2> QED
    BY <1>6, <2>1, <2>2 DEF IsList
<1>8. ASSUME NEW y \in Router, source[y] = a
      PROVE  \A m \in Method : MapOf(method_routes[y][m], added[y], new, m)
  <2>1. ASSUME NEW m \in Method PROVE MapOf(method_routes[y][m], added[y], new, m)
    <3>1. MapOf(method_routes[y][m], added[y], s, m) /\ method_routes[y][m] \in Seq(Entry)
      BY <1>8 DEF RInv, MapsInv, Types
    <3> HIDE DEF s
    <3> QED
      BY <1>2, <1>4, <3>1, LongerArrayKeeps
  <2> QED
    BY <2>1
<1>9. route_methods[x] = {PatternOf[added[x][k].route] : k \in DOMAIN added[x]}
  BY DEF RInv, MapsInv
<1> HIDE DEF s, new
<1>10. /\ \A m \in Method : MapOf(method_routes'[x][m], added'[x], new, m)
       /\ route_methods'[x] = {PatternOf[added'[x][k].route] : k \in DOMAIN added'[x]}
       /\ method_routes' \in [Router -> [Method -> Seq(Entry)]]
       /\ route_methods' \in [Router -> SUBSET Pattern]
       /\ added' \in [Router -> Seq(Registration)]
       /\ \A y \in Router : y # x =>
             UNCHANGED <<method_routes[y], route_methods[y], added[y]>>
  BY <1>1, <1>2, <1>4, <1>6, <1>8, <1>9, Registers DEF RInv
<1>11. Types'
  BY <1>1, <1>2, <1>6, <1>10 DEF RInv, Types
<1>12. MapsInv(x)'
  BY <1>1, <1>5, <1>10 DEF MapsInv
<1>13. ASSUME NEW y \in Router, y # x PROVE MapsInv(y)'
  <2>1. UNCHANGED <<method_routes[y], route_methods[y], added[y]>> /\ source'[y] = source[y]
        /\ stage'[y] = stage[y]
    BY <1>1, <1>10, <1>13
  <2>2. CASE source[y] = a
    BY <1>5, <1>8, <2>1, <2>2 DEF RInv, MapsInv
  <2>3. CASE source[y] # a
    <3>1. elements'[source[y]] = elements[source[y]]
      BY <1>5, <2>3 DEF RInv, Types
    <3> QED
      BY <2>1, <3>1 DEF RInv, MapsInv
  <2> QED
    BY <2>2, <2>3
<1>14. \A b \in Array : IsList(elements'[b])
  BY <1>5, <1>7 DEF RInv
<1> QED
  BY <1>11, <1>12, <1>13, <1>14 DEF RInv

\* What leaves the maps, the arrays and where they are as they were.
LEMMA OtherInv ==
    ASSUME RInv, Types', UNCHANGED <<source, elements, method_routes, route_methods, added>>,
           \A x \in Router : stage'[x] = "absent" => stage[x] = "absent"
    PROVE  RInv'
BY DEF RInv, MapsInv

\* The constructor, addRoute and the iterators of all routers keep their maps in step with
\* the arrays, when user code hands them lists.
THEOREM RInvariant == ASSUME ListsOnly PROVE Spec => []RInv
<1>1. Init => RInv
  <2> SUFFICES ASSUME Init PROVE RInv
    OBVIOUS
  <2>1. /\ stage = [x \in Router |-> "absent"] /\ source = [x \in Router |-> x]
        /\ elements = [a \in Array |-> IF a \in Given THEN Contents[a] ELSE << >>]
        /\ loaded = [x \in Router |-> 0] /\ pos = [x \in Router |-> -1]
        /\ method_routes = [x \in Router |-> [m \in Method |-> << >>]]
        /\ route_methods = [x \in Router |-> {}]
        /\ methods \in [Route -> MethodSets] /\ added = [x \in Router |-> << >>]
    BY DEF Init
  <2>2. << >> \in Seq(Element) /\ << >> \in Seq(Entry) /\ << >> \in Seq(Registration)
    OBVIOUS
  <2>3. Types
    <3>1. elements \in [Array -> Seq(Element)]
      BY <2>1, <2>2, ArraysAssumption
    <3>2. methods \in [Route -> SUBSET Method]
      BY <2>1, PatternsAssumption
    <3> QED
      BY <2>1, <2>2, <3>1, <3>2 DEF Types, Array
  <2>4. \A a \in Array : IsList(elements[a])
    BY <2>1 DEF ListsOnly, IsList
  <2>5. ASSUME NEW x \in Router PROVE MapsInv(x)
    <3>1. added[x] = << >> /\ route_methods[x] = {} /\ \A m \in Method : method_routes[x][m] = << >>
      BY <2>1
    <3>2. ASSUME NEW m \in Method PROVE MapOf(method_routes[x][m], added[x], elements[source[x]], m)
      BY <3>1 DEF MapOf
    <3> QED
      BY <3>1, <3>2 DEF MapsInv
  <2> QED
    BY <2>3, <2>4, <2>5 DEF RInv
<1>2. RInv /\ [Next]_vars => RInv'
  <2> SUFFICES ASSUME RInv, [Next]_vars PROVE RInv'
    OBVIOUS
  <2>1. ASSUME NEW x \in Router, ConstructEmpty(x) PROVE RInv'
    BY <2>1, OtherInv DEF ConstructEmpty, mapVars, RInv, Types
  <2>2. ASSUME NEW x \in Router, NEW a \in Given, NEW n \in Garbage, Construct(x, a, n) PROVE RInv'
    BY <2>2, ConstructInv
  <2>3. ASSUME NEW x \in Router, ConstructNext(x) PROVE RInv'
    BY <2>3, ConstructNextInv
  <2>4. ASSUME NEW x \in Router, ConstructEnd(x) PROVE RInv'
    BY <2>4, OtherInv DEF ConstructEnd, mapVars, RInv, Types
  <2>5. ASSUME NEW x \in Router, NEW t \in Route, AddRoute(x, t) PROVE RInv'
    BY <2>5, AddRouteInv
  <2>6. ASSUME NEW x \in Router, Rewind(x) PROVE RInv'
    BY <2>6, OtherInv DEF Rewind, mapVars, RInv, Types
  <2>7. ASSUME NEW x \in Router, Advance(x) PROVE RInv'
    BY <2>7, OtherInv DEF Advance, mapVars, RInv, Types
  <2>8. ASSUME NEW t \in Route, NEW ms \in MethodSets, SetMethod(t, ms) PROVE RInv'
    BY <2>8, OtherInv, PatternsAssumption DEF SetMethod, mapVars, RInv, Types
  <2>9. CASE UNCHANGED vars
    BY <2>9, OtherInv DEF vars, mapVars, RInv, Types
  <2> QED
    BY <2>1, <2>2, <2>3, <2>4, <2>5, <2>6, <2>7, <2>8, <2>9 DEF Next
<1> QED
  BY <1>1, <1>2, PTL DEF Spec

-----------------------------------------------------------------------------
(* The routes found.                                                       *)

\* An index of a list is the place of its element, one further on.
LEMMA IndexOfList ==
    ASSUME NEW s \in Seq(Element), IsList(s), NEW n \in Nat, n < Len(s)
    PROVE  HasIndex(s, n) /\ AtIndex(s, n) = s[n + 1].route
<1>1. n + 1 \in DOMAIN s /\ (n + 1) - 1 = n
  OBVIOUS
<1>2. \A i \in DOMAIN s : s[i].key = n <=> i = n + 1
  BY <1>1 DEF IsList
<1>3. HasIndex(s, n)
  BY <1>1, <1>2 DEF HasIndex
<1>4. (CHOOSE i \in DOMAIN s : s[i].key = n) = n + 1
  BY <1>1, <1>2
<1> QED
  BY <1>3, <1>4 DEF AtIndex

\* What an entry of a map leads to: the route registered last with its pattern.
LEMMA EntryLeads ==
    ASSUME NEW map \in Seq(Entry), NEW A \in Seq(Registration), NEW s \in Seq(Element), NEW m,
           IsList(s), MapOf(map, A, s, m), NEW i \in DOMAIN map
    PROVE  /\ HasIndex(s, map[i].index)
           /\ \E k \in Reg(A, m, map[i].pattern) :
                 /\ AtIndex(s, map[i].index) = A[k].route
                 /\ \A l \in Reg(A, m, map[i].pattern) : l <= k
<1>1. map[i].index \in Nat
  <2>1. map[i] \in Entry
    OBVIOUS
  <2> QED
    BY <2>1 DEF Entry
<1>2. /\ map[i].index < Len(s)
      /\ \E k \in Reg(A, m, map[i].pattern) :
            /\ s[map[i].index + 1].route = A[k].route
            /\ \A l \in Reg(A, m, map[i].pattern) : l <= k
  BY DEF MapOf
<1> QED
  BY <1>1, <1>2, IndexOfList

\* Every index in the maps of a router is that of a route with the pattern it is
\* under: addRoute and the constructor, over arrays that routers share.
THEOREM IndicesRight == ASSUME ListsOnly PROVE Spec => []IndexIsRoute
<1>1. ASSUME RInv PROVE IndexIsRoute
  <2>1. ASSUME NEW x \in Router, NEW m \in Method, NEW i \in DOMAIN method_routes[x][m]
        PROVE  LET e == method_routes[x][m][i] IN
               /\ HasIndex(elements[source[x]], e.index)
               /\ PatternOf[AtIndex(elements[source[x]], e.index)] = e.pattern
    <3> DEFINE map == method_routes[x][m]
               s == elements[source[x]]
               A == added[x]
    <3>1. map \in Seq(Entry) /\ A \in Seq(Registration) /\ s \in Seq(Element) /\ IsList(s)
      BY <1>1 DEF RInv, Types
    <3>2. MapOf(map, A, s, m)
      BY <1>1 DEF RInv, MapsInv
    <3>3. i \in DOMAIN map
      OBVIOUS
    <3> HIDE DEF map, s, A
    <3>4. /\ HasIndex(s, map[i].index)
          /\ \E k \in Reg(A, m, map[i].pattern) : AtIndex(s, map[i].index) = A[k].route
      BY <3>1, <3>2, <3>3, EntryLeads
    <3>5. PatternOf[AtIndex(s, map[i].index)] = map[i].pattern
      BY <3>4 DEF Reg
    <3> QED
      BY <3>4, <3>5 DEF map, s
  <2> QED
    BY <2>1 DEF IndexIsRoute
<1> QED
  BY <1>1, RInvariant, PTL

\* The iteration over a router never asks for an element that is not there.
THEOREM IterationRight == ASSUME ListsOnly PROVE Spec => []CurrentIsRoute
<1>1. ASSUME RInv PROVE CurrentIsRoute
  <2>1. ASSUME NEW x \in Router, pos[x] >= 0, Valid(x)
        PROVE  HasIndex(elements[source[x]], pos[x])
    <3>1. elements[source[x]] \in Seq(Element) /\ IsList(elements[source[x]]) /\ pos[x] \in Int
      BY <1>1 DEF RInv, Types
    <3>2. pos[x] \in Nat /\ pos[x] < Len(elements[source[x]])
      BY <2>1, <3>1 DEF Valid
    <3> QED
      BY <3>1, <3>2, IndexOfList
  <2> QED
    BY <2>1 DEF CurrentIsRoute
<1> QED
  BY <1>1, RInvariant, PTL

\* First chooses the least element of a set that has one.
LEMMA FirstIs ==
    ASSUME NEW S \in SUBSET Nat, S # {}
    PROVE  First(S) \in S /\ \A j \in S : First(S) <= j
BY LeastExists DEF First

\* Last chooses the greatest.
LEMMA LastIs ==
    ASSUME NEW S \in SUBSET Nat, NEW k \in S, \A l \in S : l <= k
    PROVE  Last(S) = k
<1>1. Last(S) \in S /\ \A j \in S : j <= Last(S)
  BY DEF Last
<1>2. Last(S) \in Nat /\ k \in Nat /\ Last(S) <= k /\ k <= Last(S)
  BY <1>1
<1> QED
  BY <1>2

\* The look-up in a map over a list, and what the registrations call for.
LEMMA LooksUp ==
    ASSUME NEW map \in Seq(Entry), NEW A \in Seq(Registration), NEW s \in Seq(Element), NEW m,
           IsList(s), MapOf(map, A, s, m), NEW u \in Uri,
           NEW error
    PROVE  LET pattern(i) == PatternOf[A[i].route]
               mine == {i \in DOMAIN A : m \in A[i].methods}
               static == {i \in mine : IsStatic(pattern(i), u)}
               dynamic == {i \in mine : IsDynamic(pattern(i), u)}
               hit == Hit(map, u)
           IN (IF hit # 0 /\ HasIndex(s, map[hit].index) THEN AtIndex(s, map[hit].index)
               ELSE error)
              = IF static # {} THEN A[Last(static)].route
                ELSE IF dynamic # {}
                THEN A[Last({i \in mine : pattern(i) = pattern(First(dynamic))})].route
                ELSE error
<1> DEFINE pattern(i) == PatternOf[A[i].route]
           mine == {i \in DOMAIN A : m \in A[i].methods}
           static == {i \in mine : IsStatic(pattern(i), u)}
           dynamic == {i \in mine : IsDynamic(pattern(i), u)}
           hit == Hit(map, u)
           mapStatic == {i \in DOMAIN map : IsStatic(map[i].pattern, u)}
           mapDynamic == {i \in DOMAIN map : IsDynamic(map[i].pattern, u)}
           found == IF hit # 0 /\ HasIndex(s, map[hit].index) THEN AtIndex(s, map[hit].index)
                    ELSE error
<1>1. hit = IF mapStatic # {} THEN First(mapStatic)
            ELSE IF mapDynamic # {} THEN First(mapDynamic) ELSE 0
  BY DEF Hit
<1>2. mapStatic \in SUBSET Nat /\ mapDynamic \in SUBSET Nat /\ mine \in SUBSET Nat
      /\ 0 \notin DOMAIN map
  OBVIOUS
<1>3. static = Reg(A, m, u)
  BY DEF Reg, IsStatic
<1>4. \A p : {i \in mine : pattern(i) = p} = Reg(A, m, p)
  BY DEF Reg
<1>5. \A k \in mine : \E i \in DOMAIN map : map[i].pattern = pattern(k)
  BY DEF MapOf
<1>6. \A i \in DOMAIN map : /\ Reg(A, m, map[i].pattern) # {}
                            /\ \A k \in Reg(A, m, map[i].pattern) :
                                  k \in mine /\ pattern(k) = map[i].pattern
  BY DEF MapOf, Reg
<1>7. ASSUME NEW i \in DOMAIN map, hit = i
      PROVE  found = A[Last(Reg(A, m, map[i].pattern))].route
  <2>1. HasIndex(s, map[i].index)
    BY EntryLeads
  <2>2. PICK k \in Reg(A, m, map[i].pattern) :
            /\ AtIndex(s, map[i].index) = A[k].route
            /\ \A l \in Reg(A, m, map[i].pattern) : l <= k
    BY EntryLeads
  <2>3. Last(Reg(A, m, map[i].pattern)) = k
    <3>1. Reg(A, m, map[i].pattern) \in SUBSET Nat
      BY DEF Reg
    <3> QED
      BY <2>2, <3>1, LastIs
  <2>4. found = AtIndex(s, map[i].index)
    BY <1>2, <1>7, <2>1
  <2> QED
    BY <2>2, <2>3, <2>4
<1> HIDE DEF mine, pattern, static, found, hit
<1>8. CASE static # {}
  <2>1. mapStatic # {}
    <3>1. PICK k \in static : k \in mine /\ IsStatic(pattern(k), u)
      BY <1>8 DEF static
    <3> QED
      BY <1>5, <3>1
  <2>2. hit \in mapStatic
    BY <1>1, <1>2, <2>1, FirstIs
  <2>3. hit \in DOMAIN map /\ map[hit].pattern = u
    BY <2>2 DEF IsStatic
  <2>4. found = A[Last(static)].route
    BY <1>3, <1>7, <2>3
  <2> QED
    BY <1>8, <2>4 DEF static, dynamic, mine, pattern, found, hit
<1>9. CASE static = {} /\ dynamic # {}
  <2>1. mapStatic = {}
    BY <1>3, <1>6, <1>9 DEF IsStatic
  <2>2. PICK k \in dynamic : k = First(dynamic) /\ \A l \in dynamic : k <= l
    <3>1. dynamic \in SUBSET Nat
      BY <1>2
    <3> QED
      BY <1>9, <3>1, FirstIs
  <2>3. k \in mine /\ IsDynamic(pattern(k), u)
    BY <2>2
  <2>4. PICK j \in DOMAIN map : map[j].pattern = pattern(k)
    BY <1>5, <2>3
  <2>5. j \in mapDynamic
    BY <2>3, <2>4
  <2>6. hit \in mapDynamic /\ hit <= j
    BY <1>1, <1>2, <2>1, <2>5, FirstIs
  <2>7. hit = j
    <3>1. SUFFICES ASSUME hit < j PROVE FALSE
      BY <1>2, <2>5, <2>6
    <3>2. PICK f \in Reg(A, m, map[hit].pattern) : \A l \in Reg(A, m, map[j].pattern) : f < l
      BY <2>5, <2>6, <3>1 DEF MapOf
    <3>3. k \in Reg(A, m, map[j].pattern)
      BY <1>4, <2>3, <2>4
    <3>4. f \in dynamic
      BY <1>6, <2>6, <3>2
    <3>5. f \in Nat /\ k \in Nat
      BY <1>2, <2>3, <3>4
    <3> QED
      BY <2>2, <3>2, <3>3, <3>4, <3>5
  <2>8. Reg(A, m, map[j].pattern) = {i \in mine : pattern(i) = pattern(First(dynamic))}
    BY <1>4, <2>2, <2>4
  <2>9. found = A[Last({i \in mine : pattern(i) = pattern(First(dynamic))})].route
    BY <1>7, <2>4, <2>7, <2>8
  <2> QED
    BY <1>9, <2>9 DEF static, dynamic, mine, pattern, found, hit
<1>10. CASE static = {} /\ dynamic = {}
  <2>1. mapStatic = {} /\ mapDynamic = {}
    BY <1>3, <1>6, <1>10 DEF IsStatic
  <2>2. found = error
    BY <1>1, <2>1 DEF found
  <2> QED
    BY <1>10, <2>2 DEF static, dynamic, mine, pattern, found, hit
<1> QED
  BY <1>8, <1>9, <1>10

\* A request gets the route its router's registrations call for, or the error that
\* is right: request_handler's look-up in the maps that the constructor and
\* addRoute keep, after any sequence of registrations, of routes given other
\* methods and of routers that share an array.
THEOREM DispatchRight == ASSUME ListsOnly PROVE Spec => []DispatchAsRegistered
<1>1. ASSUME RInv PROVE DispatchAsRegistered
  <2>1. ASSUME NEW x \in Router, NEW m \in Method, NEW u \in Uri
        PROVE  Dispatch(x, m, u) = Expected(x, m, u)
    <3> DEFINE map == method_routes[x][m]
               s == elements[source[x]]
               A == added[x]
               error == IF \E i \in DOMAIN A : IsFor(PatternOf[A[i].route], u) THEN 405 ELSE 404
    <3>1. map \in Seq(Entry) /\ A \in Seq(Registration) /\ s \in Seq(Element) /\ IsList(s)
      BY <1>1 DEF RInv, Types
    <3>2. MapOf(map, A, s, m)
      BY <1>1 DEF RInv, MapsInv
    <3>3. (IF \E p \in route_methods[x] : IsFor(p, u) THEN 405 ELSE 404) = error
      BY <1>1 DEF RInv, MapsInv
    <3>4. Dispatch(x, m, u) =
            IF Hit(map, u) # 0 /\ HasIndex(s, map[Hit(map, u)].index)
            THEN AtIndex(s, map[Hit(map, u)].index) ELSE error
      BY <3>3 DEF Dispatch
    <3> DEFINE pattern(i) == PatternOf[A[i].route]
               mine == {i \in DOMAIN A : m \in A[i].methods}
               static == {i \in mine : IsStatic(pattern(i), u)}
               dynamic == {i \in mine : IsDynamic(pattern(i), u)}
    <3>5. Expected(x, m, u) =
            IF static # {} THEN A[Last(static)].route
            ELSE IF dynamic # {}
            THEN A[Last({i \in mine : pattern(i) = pattern(First(dynamic))})].route
            ELSE error
      BY DEF Expected
    <3> HIDE DEF map, s, A, error
    <3>6. (IF Hit(map, u) # 0 /\ HasIndex(s, map[Hit(map, u)].index)
           THEN AtIndex(s, map[Hit(map, u)].index) ELSE error)
          = IF static # {} THEN A[Last(static)].route
            ELSE IF dynamic # {}
            THEN A[Last({i \in mine : pattern(i) = pattern(First(dynamic))})].route
            ELSE error
      BY <3>1, <3>2, LooksUp, Zenon
    <3> HIDE DEF static, dynamic, mine, pattern
    <3> QED
      BY <3>4, <3>5, <3>6
  <2> QED
    BY <2>1 DEF DispatchAsRegistered
<1> QED
  BY <1>1, RInvariant, PTL
=============================================================================
