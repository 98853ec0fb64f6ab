--------------------------- MODULE RoutingProofs ----------------------------
(***************************************************************************)
(* Registration leaves no ambiguity, and every request reaches the handler *)
(* it should, whatever endpoints a program offers and in whatever order,   *)
(* and whatever the request.                                               *)
(*                                                                         *)
(* The argument has three parts.  RouteInv: handlers of one path and       *)
(* method do not overlap.  TrieOK: the trie is exactly that of the         *)
(* registered paths.  From TrieOK, by induction along the segments of a    *)
(* request: the walk takes no edge that the segments do not call for       *)
(* (WalkSound), and misses no registered path (WalkComplete).              *)
(***************************************************************************)
EXTENDS Routing, SequenceTheorems, NaturalsInduction, FiniteSetTheorems, TLAPS

-----------------------------------------------------------------------------
(* What overlaps_with() is worth as the guard against ambiguous routes.    *)

\* The shape of a range over the integers.
LEMMA RangeType ==
  ASSUME NEW a \in Ranges(Int)
  PROVE  /\ a.kind \in {"All", "From", "Until", "FromUntil"}
         /\ a.earliest \in Int
         /\ a.until \in Int
         /\ a.kind = "FromUntil" => a.earliest <= a.until
<1>1. CASE a = All
  BY <1>1 DEF All
<1>2. CASE a \in {From(v) : v \in Int}
  BY <1>2 DEF From
<1>3. CASE a \in {Until(v) : v \in Int}
  BY <1>3 DEF Until
<1>4. CASE a \in {FromUntil(p[1], p[2]) :
                   p \in {q \in Int \X Int : FromUntilOk(q[1], q[2])}}
  <2>1. PICK p \in {q \in Int \X Int : FromUntilOk(q[1], q[2])} :
          a = FromUntil(p[1], p[2])
    BY <1>4
  <2>2. p[1] \in Int /\ p[2] \in Int /\ p[1] <= p[2]
    BY DEF FromUntilOk
  <2>3. QED
    BY <2>1, <2>2 DEF FromUntil
<1>5. QED
  BY <1>1, <1>2, <1>3, <1>4 DEF Ranges

\* overlaps_with() finds every clash but one: two ranges that share a version
\* are reported, unless they are "from v on" and "exactly v".
THEOREM OverlapsFindsClashes ==
  ASSUME NEW a \in Ranges(Int), NEW b \in Ranges(Int), NEW v \in Int,
         Contains(a, v), Contains(b, v)
  PROVE  OverlapsWith(a, b) \/ OneVersionClash(a, b)
<1>1. /\ a.earliest \in Int /\ a.until \in Int
      /\ b.earliest \in Int /\ b.until \in Int
      /\ a.kind = "FromUntil" => a.earliest <= a.until
      /\ b.kind = "FromUntil" => b.earliest <= b.until
  BY RangeType
<1>2. CASE a.kind = "From" /\ b.kind = "FromUntil"
  BY <1>1, <1>2 DEF Contains, OverlapsWith, OneVersionClash
<1>3. CASE a.kind = "FromUntil" /\ b.kind = "From"
  BY <1>1, <1>3 DEF Contains, OverlapsWith, OneVersionClash
<1>4. CASE ~ ({a.kind, b.kind} = {"From", "FromUntil"})
  BY <1>1, <1>4, RangeType DEF Contains, OverlapsWith
<1>5. QED
  BY <1>2, <1>3, <1>4, RangeType

\* overlaps_with() raises no false alarm: two ranges it reports share a
\* version.
THEOREM OverlapsIsWitnessed ==
  ASSUME NEW a \in Ranges(Int), NEW b \in Ranges(Int), OverlapsWith(a, b)
  PROVE  \E v \in Int : Contains(a, v) /\ Contains(b, v)
<1>1. /\ a.earliest \in Int /\ a.until \in Int
      /\ b.earliest \in Int /\ b.until \in Int
      /\ a.kind = "FromUntil" => a.earliest <= a.until
      /\ b.kind = "FromUntil" => b.earliest <= b.until
  BY RangeType
<1> DEFINE Both(v) == Contains(a, v) /\ Contains(b, v)
<1>2. \/ Both(a.earliest) \/ Both(b.earliest)
      \/ Both(a.until - 1) \/ Both(b.until - 1) \/ Both(0)
  BY <1>1, RangeType DEF Contains, OverlapsWith
<1>3. QED
  BY <1>1, <1>2

\* The order of registration does not matter to the check.
THEOREM OverlapsIsSymmetric ==
  ASSUME NEW a \in Ranges(Int), NEW b \in Ranges(Int)
  PROVE  OverlapsWith(a, b) <=> OverlapsWith(b, a)
BY RangeType DEF OverlapsWith, Contains

-----------------------------------------------------------------------------
(* Registration. *)

\* Two positions of the table that hold handlers of one path and method.
SameSlot(i, j) ==
  /\ Node(table[i].path) = Node(table[j].path)
  /\ table[i].method = table[j].method

(***************************************************************************)
(* The inductive invariant.  has_versioned_routes has seen every endpoint  *)
(* that is not for all versions; handlers of one slot do not overlap, the  *)
(* earlier against the later, which is the order insert() compares them    *)
(* in; and a server without versions runs only if no route has any.        *)
(***************************************************************************)
FlagCovers ==
  \A i \in DOMAIN table : table[i].versions # All => has_versioned_routes

SlotsDisjoint ==
  \A i, j \in DOMAIN table :
    i < j /\ SameSlot(i, j) => ~ OverlapsWith(table[i].versions, table[j].versions)

PolicyFits ==
  /\ phase = "registering" => policy = NoPolicy
  /\ policy = Unversioned => phase = "rejected" \/ ~ has_versioned_routes

RouteInv ==
  /\ table \in Seq(Endpoints)
  /\ FlagCovers
  /\ SlotsDisjoint
  /\ PolicyFits

\* The versions of an endpoint are a range over the integers.
LEMMA EndpointRange ==
  ASSUME NEW e \in Endpoints
  PROVE  e.versions \in Ranges(Int)
<1>1. e.versions \in Ranges(ApiVersions) /\ ApiVersions \subseteq Int
  BY RoutingAssumption
<1>2. QED
  BY <1>1 DEF Ranges, FromUntilOk

\* Nothing is registered at first.
LEMMA RouteInit == Init => RouteInv
<1> SUFFICES ASSUME Init PROVE RouteInv
  OBVIOUS
<1>1. table = <<>> /\ DOMAIN table = {}
  BY DEF Init, RouterInit
<1>2. QED
  BY <1>1, RoutingAssumption
     DEF Init, RouteInv, FlagCovers, SlotsDisjoint, PolicyFits

\* Only register() changes the table; only starting a server the policy.
LEMMA RouteStep == RouteInv /\ [Next]_vars => RouteInv'
<1> SUFFICES ASSUME RouteInv, [Next]_vars PROVE RouteInv'
  OBVIOUS
<1>1. ASSUME NEW e \in Endpoints, Register(e) PROVE RouteInv'
  <2>1. /\ table' = Append(table, e)
        /\ has_versioned_routes' = (has_versioned_routes \/ e.versions # All)
        /\ phase = "registering" /\ phase' = phase /\ policy' = policy
        /\ ~ VersionConflict(e)
    BY <1>1 DEF Register, Insert, InsertPanics
  <2>2. table \in Seq(Endpoints) /\ table' \in Seq(Endpoints)
    BY <2>1 DEF RouteInv
  <2>3. /\ Len(table) \in Nat
        /\ DOMAIN table = 1 .. Len(table)
        /\ DOMAIN table' = 1 .. (Len(table) + 1)
        /\ \A i \in 1 .. Len(table) : table'[i] = table[i]
        /\ table'[Len(table) + 1] = e
    BY <2>1, <2>2
  <2>4. FlagCovers'
    <3> SUFFICES ASSUME NEW i \in DOMAIN table', table'[i].versions # All
                 PROVE  has_versioned_routes'
      BY Zenon DEF FlagCovers, All
    <3>1. \/ i \in DOMAIN table /\ table'[i] = table[i]
          \/ table'[i] = e
      BY <2>3
    <3>2. QED
      BY <2>1, <3>1, Zenon DEF RouteInv, FlagCovers
  <2>5. SlotsDisjoint'
    <3> SUFFICES ASSUME NEW i \in DOMAIN table', NEW j \in DOMAIN table',
                        i < j, SameSlot(i, j)'
                 PROVE  ~ OverlapsWith(table'[i].versions, table'[j].versions)
      BY DEF SlotsDisjoint, OverlapsWith, Contains
    <3>1. i \in DOMAIN table /\ table'[i] = table[i]
      BY <2>3
    <3>2. CASE j \in DOMAIN table
      <4>1. table'[j] = table[j]
        BY <2>3, <3>2
      <4>2. SameSlot(i, j)
        BY <3>1, <4>1 DEF SameSlot, Node, NodeAt, Label, IsVar
      <4>3. QED
        BY <3>1, <3>2, <4>1, <4>2 DEF RouteInv, SlotsDisjoint
    <3>3. CASE j = Len(table) + 1
      <4>1. table'[j] = e
        BY <2>3, <3>3
      <4>2. /\ table[i] \in Registered
            /\ Node(table[i].path) = Node(e.path)
            /\ table[i].method = e.method
        BY <3>1, <4>1 DEF SameSlot, Registered
      <4>3. QED
        BY <2>1, <3>1, <4>1, <4>2 DEF VersionConflict
    <3>4. QED
      BY <2>3, <3>2, <3>3
  <2>6. PolicyFits'
    BY <2>1, RoutingAssumption DEF RouteInv, PolicyFits
  <2>7. QED
    BY <2>2, <2>4, <2>5, <2>6 DEF RouteInv
<1>2. ASSUME NEW p \in Policies, Start(p) PROVE RouteInv'
  BY <1>2 DEF Start, routerVars, RouteInv, FlagCovers, SlotsDisjoint, SameSlot,
              PolicyFits
<1>3. ASSUME NEW e \in Endpoints, RegisterPanics(e) PROVE RouteInv'
  BY <1>3, RoutingAssumption
     DEF RegisterPanics, routerVars, RouteInv, FlagCovers, SlotsDisjoint,
         SameSlot, PolicyFits
<1>4. CASE UNCHANGED <<table, has_versioned_routes, phase, policy>>
  BY <1>4 DEF RouteInv, FlagCovers, SlotsDisjoint, SameSlot, PolicyFits
<1>5. QED
  <2>1. ASSUME NEW m \in Methods, NEW raw \in RawPaths, NEW h \in Headers,
               Dispatch(m, raw, h)
        PROVE  RouteInv'
    BY <1>4, <2>1 DEF Dispatch, routerVars
  <2>2. CASE Respond
    BY <1>4, <2>2 DEF Respond, routerVars
  <2>3. ASSUME NEW e \in Endpoints, RegisterRefused(e) PROVE RouteInv'
    BY <1>4, <2>3 DEF RegisterRefused, vars
  <2>4. CASE UNCHANGED vars
    BY <1>4, <2>4 DEF vars
  <2>5. QED
    BY <1>1, <1>2, <1>3, <2>1, <2>2, <2>3, <2>4 DEF Next

\* Handlers of one path and method that do not overlap share no version but
\* in the one clash that overlaps_with() does not report.
LEMMA RouteInvSuffices == RouteInv => RoutesUnambiguous
<1> SUFFICES ASSUME RouteInv,
                    NEW i \in DOMAIN table, NEW j \in DOMAIN table,
                    i # j, SameSlot(i, j)
             PROVE  /\ policy = Unversioned => phase = "rejected"
                    /\ \A v \in RequestedVersions :
                         /\ Contains(table[i].versions, v)
                         /\ Contains(table[j].versions, v)
                         => OneVersionClash(table[i].versions, table[j].versions)
  BY DEF RoutesUnambiguous, SameSlot
<1>1. /\ i \in Int /\ j \in Int
      /\ table[i] \in Endpoints /\ table[j] \in Endpoints
  BY DEF RouteInv
<1>2. \/ ~ OverlapsWith(table[i].versions, table[j].versions)
      \/ ~ OverlapsWith(table[j].versions, table[i].versions)
  <2>1. i < j \/ j < i
    BY <1>1
  <2>2. SameSlot(j, i)
    BY DEF SameSlot
  <2>3. QED
    BY <2>1, <2>2 DEF RouteInv, SlotsDisjoint
<1>3. policy = Unversioned => phase = "rejected"
  <2>1. table[i].versions # All
    BY <1>2 DEF OverlapsWith, All
  <2>2. has_versioned_routes
    BY <2>1 DEF RouteInv, FlagCovers
  <2>3. QED
    BY <2>2 DEF RouteInv, PolicyFits
<1>4. ASSUME NEW v \in RequestedVersions,
             Contains(table[i].versions, v), Contains(table[j].versions, v)
      PROVE  OneVersionClash(table[i].versions, table[j].versions)
  <2>1. /\ table[i].versions \in Ranges(Int)
        /\ table[j].versions \in Ranges(Int)
        /\ v \in Int
    BY <1>1, EndpointRange, RoutingAssumption
  <2>2. \/ OneVersionClash(table[i].versions, table[j].versions)
        \/ OneVersionClash(table[j].versions, table[i].versions)
    BY <1>2, <1>4, <2>1, OverlapsFindsClashes
  <2>3. QED
    BY <2>2 DEF OneVersionClash
<1>5. QED
  BY <1>3, <1>4

\* No order of registrations makes two handlers of one path and method
\* compete for a version, except "from v on" with "exactly v", and none makes
\* them share a server that ignores versions (router.rs 386-412).
THEOREM RoutesUnambiguousTheorem == Spec => []RoutesUnambiguous
<1>1. Init => RouteInv
  BY RouteInit
<1>2. RouteInv /\ [Next]_vars => RouteInv'
  BY RouteStep
<1>3. RouteInv => RoutesUnambiguous
  BY RouteInvSuffices
<1>4. QED
  BY <1>1, <1>2, <1>3, PTL DEF Spec

-----------------------------------------------------------------------------
(* The trie.  Its nodes are the prefixes of the registered paths, and the  *)
(* edges of a node are those that every path through it needs.             *)

TrieOK ==
  /\ <<>> \in DOMAIN edges
  /\ \A e \in Registered :
       /\ \A i \in 0 .. Len(e.path) : NodeAt(e.path, i) \in DOMAIN edges
       /\ \A i \in 1 .. Len(e.path) : edges[NodeAt(e.path, i - 1)] = EdgeFor(e.path[i])
  /\ \A n \in DOMAIN edges :
       /\ n # <<>> => \E e \in Registered : \E i \in 1 .. Len(e.path) : n = NodeAt(e.path, i)
       /\ edges[n] # NoEdge =>
            \E e \in Registered : \E i \in 1 .. Len(e.path) : n = NodeAt(e.path, i - 1)
  /\ \A e \in Registered : /\ e \in Endpoints /\ ~ Invalid(e)
                           /\ ~ SegmentsAfterWildcard(e.path) /\ ~ DuplicateVariable(e.path)

\* The segments of a path, and the edges they call for.
LEMMA PathFacts ==
  ASSUME NEW e \in Endpoints
  PROVE  /\ Len(e.path) \in Nat /\ DOMAIN e.path = 1 .. Len(e.path)
         /\ \A i \in 1 .. Len(e.path) :
              /\ e.path[i].kind \in {"Literal", "VarnameSegment", "VarnameWildcard"}
              /\ Label(e.path[i]) # "/"
              /\ (Label(e.path[i]) = "{}" <=> IsVar(e.path[i]))
              /\ EdgeFor(e.path[i]) # NoEdge
<1>1. IsPath(e.path)
  BY RoutingAssumption
<1>2. Len(e.path) \in Nat /\ DOMAIN e.path = 1 .. Len(e.path)
  <2> DEFINE path == e.path
             S == {path[i] : i \in DOMAIN path}
  <2>1. path \in Seq(S)
    BY <1>1, Zenon DEF IsPath
  <2> HIDE DEF path, S
  <2>2. Len(path) \in Nat /\ DOMAIN path = 1 .. Len(path)
    BY <2>1
  <2> QED
    BY <2>2 DEF path
<1> QED
  BY <1>1, <1>2 DEF IsPath, Label, IsVar, EdgeFor, NoEdge

\* A node on a path is a sequence, and one label longer than the one before.
LEMMA NodeFacts ==
  ASSUME NEW path, NEW i \in Nat
  PROVE  /\ NodeAt(path, i) \in Seq({Label(path[j]) : j \in 1 .. i})
         /\ Len(NodeAt(path, i)) = i
         /\ \A j \in 1 .. i : NodeAt(path, i)[j] = Label(path[j])
         /\ NodeAt(path, 0) = <<>>
         /\ i > 0 => /\ NodeAt(path, i) = Append(NodeAt(path, i - 1), Label(path[i]))
                     /\ SubSeq(NodeAt(path, i), 1, i - 1) = NodeAt(path, i - 1)
                     /\ NodeAt(path, i) # <<>>
<1>1. /\ NodeAt(path, i) \in Seq({Label(path[j]) : j \in 1 .. i})
      /\ Len(NodeAt(path, i)) = i
      /\ \A j \in 1 .. i : NodeAt(path, i)[j] = Label(path[j])
  BY DEF NodeAt
<1>2. NodeAt(path, 0) = <<>>
  BY DEF NodeAt
<1>3. ASSUME i > 0
      PROVE  /\ NodeAt(path, i) = Append(NodeAt(path, i - 1), Label(path[i]))
             /\ SubSeq(NodeAt(path, i), 1, i - 1) = NodeAt(path, i - 1)
             /\ NodeAt(path, i) # <<>>
  <2>1. i - 1 \in Nat
    BY <1>3
  <2>2. NodeAt(path, i) = Append(NodeAt(path, i - 1), Label(path[i]))
    BY <1>3, <2>1 DEF NodeAt
  <2>3. SubSeq(NodeAt(path, i), 1, i - 1) = NodeAt(path, i - 1)
    BY <1>1, <1>3, <2>1 DEF NodeAt
  <2> QED
    BY <1>1, <1>3, <2>2, <2>3
<1> QED
  BY <1>1, <1>2, <1>3

\* A registered path is in the trie, with the edges it calls for.
LEMMA RegisteredFacts ==
  ASSUME TrieOK, NEW f \in Registered
  PROVE  /\ f \in Endpoints /\ Len(f.path) \in Nat
         /\ DOMAIN f.path = 1 .. Len(f.path)
         /\ \A i \in 0 .. Len(f.path) :
              /\ i \in Nat /\ Len(NodeAt(f.path, i)) = i
              /\ NodeAt(f.path, i) \in DOMAIN edges
         /\ \A i \in 1 .. Len(f.path) :
              /\ i \in 0 .. Len(f.path) /\ i - 1 \in 0 .. Len(f.path)
              /\ edges[NodeAt(f.path, i - 1)] = EdgeFor(f.path[i])
<1>1. f \in Endpoints
  BY Zenon DEF TrieOK
<1>2. Len(f.path) \in Nat /\ DOMAIN f.path = 1 .. Len(f.path)
  BY <1>1, PathFacts, Zenon
<1>3. \A i \in 0 .. Len(f.path) : i \in Nat
  BY <1>2
<1>4. \A i \in 1 .. Len(f.path) : i \in 0 .. Len(f.path) /\ i - 1 \in 0 .. Len(f.path)
  BY <1>2
<1>5. \A i \in 0 .. Len(f.path) : Len(NodeAt(f.path, i)) = i
  BY <1>3, NodeFacts, Zenon
<1> QED
  BY <1>1, <1>2, <1>3, <1>4, <1>5, Zenon DEF TrieOK

\* At first the trie has a root and no edges.
LEMMA TrieInit == Init => TrieOK
<1> SUFFICES ASSUME Init PROVE TrieOK
  OBVIOUS
<1>1. Registered = {} /\ DOMAIN edges = {<<>>} /\ edges[<<>>] = NoEdge
  BY DEF Init, RouterInit, Registered
<1> QED
  BY <1>1 DEF TrieOK

\* insert() keeps the nodes that are there, and agrees with their edges.
LEMMA TrieInsert ==
  ASSUME TrieOK, table \in Seq(Endpoints), NEW e \in Endpoints, Register(e)
  PROVE  TrieOK'
<1> DEFINE path == e.path
           N == Len(path)
           OnPath(n) == Len(n) < N /\ n = NodeAt(path, Len(n))
           new == {NodeAt(path, i) : i \in 0 .. N}
<1>1. /\ edges' = [n \in DOMAIN edges \cup new |->
                     IF OnPath(n) THEN EdgeFor(path[Len(n) + 1])
                     ELSE IF n \in DOMAIN edges THEN edges[n] ELSE NoEdge]
      /\ table' = Append(table, e)
      /\ ~ Invalid(e) /\ ~ SegmentsAfterWildcard(path) /\ ~ DuplicateVariable(path)
      /\ ~ EdgeConflict(path)
  BY DEF Register, Insert, InsertPanics
<1>2. Registered' = Registered \cup {e}
  <2>1. /\ Len(table) \in Nat /\ DOMAIN table = 1 .. Len(table)
        /\ DOMAIN table' = 1 .. (Len(table) + 1)
        /\ \A i \in 1 .. Len(table) : table'[i] = table[i]
        /\ table'[Len(table) + 1] = e
    BY <1>1
  <2> QED
    BY <2>1 DEF Registered
<1>3. /\ N \in Nat /\ DOMAIN path = 1 .. N
      /\ \A i \in 0 .. N : Len(NodeAt(path, i)) = i
  <2>1. N \in Nat /\ DOMAIN path = 1 .. N
    BY PathFacts, Zenon
  <2>2. \A i \in 0 .. N : i \in Nat
    BY <2>1
  <2> QED
    BY <2>1, <2>2, NodeFacts, Zenon
<1>4. DOMAIN edges' = DOMAIN edges \cup new
  BY <1>1
<1>5. \A n \in DOMAIN edges \cup new :
        /\ OnPath(n) => edges'[n] = EdgeFor(path[Len(n) + 1])
        /\ ~OnPath(n) /\ n \in DOMAIN edges => edges'[n] = edges[n]
        /\ ~OnPath(n) /\ n \notin DOMAIN edges => edges'[n] = NoEdge
  BY <1>1
<1>6. ASSUME NEW f \in Registered, NEW i \in 0 .. Len(f.path)
      PROVE  NodeAt(f.path, i) \in DOMAIN edges'
  BY <1>4 DEF TrieOK
<1>7. ASSUME NEW i \in 0 .. N
      PROVE  NodeAt(path, i) \in DOMAIN edges'
  BY <1>4
<1>8. ASSUME NEW f \in Registered, NEW i \in 1 .. Len(f.path)
      PROVE  edges'[NodeAt(f.path, i - 1)] = EdgeFor(f.path[i])
  <2> DEFINE n == NodeAt(f.path, i - 1)
  <2>1. f \in Endpoints /\ Len(f.path) \in Nat /\ i - 1 \in 0 .. Len(f.path)
    BY RegisteredFacts, Zenon
  <2>2. n \in DOMAIN edges /\ edges[n] = EdgeFor(f.path[i]) /\ Len(n) = i - 1
    BY <2>1, RegisteredFacts, Zenon
  <2>3. EdgeFor(f.path[i]) # NoEdge
    BY <2>1, PathFacts
  <2> HIDE DEF n
  <2>4. CASE OnPath(n)
    <3>1. i \in 1 .. N /\ n = NodeAt(path, i - 1)
      BY <1>3, <2>2, <2>4
    <3>2. edges[n] \in {NoEdge, EdgeFor(path[i])}
      BY <1>1, <1>3, <2>2, <3>1 DEF EdgeConflict
    <3>3. edges'[n] = EdgeFor(path[i])
      BY <1>5, <2>2, <2>4
    <3> QED
      BY <2>2, <2>3, <3>2, <3>3 DEF n
  <2>5. CASE ~OnPath(n)
    BY <1>5, <2>2, <2>5 DEF n
  <2> QED
    BY <2>4, <2>5
<1>9. ASSUME NEW i \in 1 .. N
      PROVE  edges'[NodeAt(path, i - 1)] = EdgeFor(path[i])
  <2> DEFINE n == NodeAt(path, i - 1)
  <2>1. i - 1 \in 0 .. N /\ i - 1 < N /\ (i - 1) + 1 = i
    BY <1>3
  <2>2. Len(n) = i - 1 /\ n \in new
    BY <1>3, <2>1
  <2> HIDE DEF n
  <2>3. OnPath(n)
    BY <2>1, <2>2 DEF n
  <2> QED
    BY <1>5, <2>1, <2>2, <2>3 DEF n
<1>10. ASSUME NEW n \in DOMAIN edges'
       PROVE  /\ n # <<>> => \E f \in Registered \cup {e} :
                               \E i \in 1 .. Len(f.path) : n = NodeAt(f.path, i)
              /\ edges'[n] # NoEdge => \E f \in Registered \cup {e} :
                               \E i \in 1 .. Len(f.path) : n = NodeAt(f.path, i - 1)
  <2>1. ASSUME OnPath(n)
        PROVE  \E i \in 1 .. N : n = NodeAt(path, i - 1)
    <3>1. Len(n) \in Nat
      <4>1. CASE n \in new
        BY <1>3, <4>1
      <4>2. CASE n \in DOMAIN edges /\ n # <<>>
        <5>1. PICK f \in Registered : \E i \in 1 .. Len(f.path) : n = NodeAt(f.path, i)
          BY <4>2 DEF TrieOK
        <5>2. PICK i \in 1 .. Len(f.path) : n = NodeAt(f.path, i)
          BY <5>1
        <5>3. i \in Nat
          BY RegisteredFacts, Zenon
        <5> QED
          BY <5>2, <5>3, NodeFacts
      <4>3. CASE n = <<>>
        BY <4>3
      <4> QED
        BY <1>4, <4>1, <4>2, <4>3
    <3>2. Len(n) + 1 \in 1 .. N /\ n = NodeAt(path, (Len(n) + 1) - 1)
      BY <1>3, <2>1, <3>1
    <3> QED
      BY <3>2
  <2>2. CASE n \in DOMAIN edges
    <3>1. edges'[n] # NoEdge => OnPath(n) \/ edges[n] # NoEdge
      BY <1>5, <2>2
    <3> QED
      BY <2>1, <2>2, <3>1 DEF TrieOK
  <2>3. CASE n \in new /\ n \notin DOMAIN edges
    <3>1. PICK i \in 0 .. N : n = NodeAt(path, i)
      BY <2>3
    <3>2. i # 0
      BY <2>3, <3>1, NodeFacts DEF TrieOK
    <3>3. i \in 1 .. N
      BY <1>3, <3>2
    <3>4. edges'[n] # NoEdge => OnPath(n)
      BY <1>5, <2>3
    <3> QED
      BY <2>1, <3>1, <3>3, <3>4
  <2> QED
    BY <1>4, <2>2, <2>3
<1> HIDE DEF OnPath, new
<1>11. <<>> \in DOMAIN edges'
  BY <1>4 DEF TrieOK
<1>12. \A f \in Registered' :
         /\ \A i \in 0 .. Len(f.path) : NodeAt(f.path, i) \in DOMAIN edges'
         /\ \A i \in 1 .. Len(f.path) : edges'[NodeAt(f.path, i - 1)] = EdgeFor(f.path[i])
         /\ f \in Endpoints /\ ~ Invalid(f)
         /\ ~ SegmentsAfterWildcard(f.path) /\ ~ DuplicateVariable(f.path)
  BY <1>1, <1>2, <1>6, <1>7, <1>8, <1>9 DEF TrieOK
<1> QED
  BY <1>2, <1>10, <1>11, <1>12 DEF TrieOK
-----------------------------------------------------------------------------
(* Numbers.                                                                *)

\* Induction in the form the walk through the trie needs it: a number that is
\* out of line has a least one.
LEMMA LeastNumber ==
  ASSUME NEW S, S \subseteq Nat, S # {}
  PROVE  \E n \in S : \A m \in S : n <= m
<1> DEFINE R == OpToRel(<, Nat)
<1>1. IsWellFoundedOn(R, Nat)
  BY NatLessThanWellFounded
<1>2. PICK n \in S : \A m \in S : ~(<<m, n>> \in R)
  <2> HIDE DEF R
  <2> QED
    BY <1>1, WFMin
<1>3. \A m \in S : ~(m < n)
  BY <1>2 DEF OpToRel
<1> QED
  BY <1>3

\* First and Last find what they are named for.
LEMMA FirstFacts ==
  ASSUME NEW S, S \subseteq Nat, S # {}
  PROVE  First(S) \in S /\ \A j \in S : First(S) <= j
BY LeastNumber, Zenon DEF First

LEMMA LastFacts ==
  ASSUME NEW n \in Nat, NEW S, S \subseteq 1 .. n, S # {}
  PROVE  Last(S) \in S /\ \A j \in S : j <= Last(S)
<1> DEFINE T == {n - i : i \in S}
<1>1. T \subseteq Nat /\ T # {}
  OBVIOUS
<1>2. PICK m \in T : \A k \in T : m <= k
  <2> HIDE DEF T
  <2> QED
    BY <1>1, LeastNumber
<1>3. PICK i \in S : m = n - i
  OBVIOUS
<1>4. \A j \in S : j <= i
  <2> SUFFICES ASSUME NEW j \in S PROVE j <= i
    OBVIOUS
  <2>1. n - j \in T
    OBVIOUS
  <2>2. n - i <= n - j
    BY <1>2, <1>3, <2>1
  <2> QED
    BY <2>2
<1>5. \E k \in S : \A j \in S : j <= k
  BY <1>4
<1> QED
  BY <1>5, Zenon DEF Last

-----------------------------------------------------------------------------
(* The walk.                                                               *)

\* One step of the recursive function in Walk(), and the function up to n.
Follow(at, segments, i) ==
  IF i = 0 THEN <<>>
  ELSE IF at[i - 1] = NoNode \/ AtWildcard(at[i - 1]) THEN at[i - 1]
  ELSE Step(at[i - 1], segments[i])

IsWalk(at, segments, n) == at = [i \in 0 .. n |-> Follow(at, segments, i)]

WalkOf(segments) == CHOOSE at : IsWalk(at, segments, Len(segments))

\* The recursive function that Walk() defines exists.
LEMMA WalkExists ==
  ASSUME NEW segments, NEW n \in Nat
  PROVE  \E at : IsWalk(at, segments, n)
<1> DEFINE S == {k \in Nat : ~ \E at : IsWalk(at, segments, k)}
<1> SUFFICES ASSUME S # {} PROVE FALSE
  OBVIOUS
<1>1. PICK k \in S : \A m \in S : k <= m
  <2>1. S \subseteq Nat
    OBVIOUS
  <2> HIDE DEF S
  <2> QED
    BY <2>1, LeastNumber
<1>2. k \in Nat /\ ~ \E at : IsWalk(at, segments, k)
  OBVIOUS
<1>3. CASE k = 0
  <2> DEFINE at == [i \in 0 .. 0 |-> <<>>]
  <2>1. \A i \in 0 .. 0 : Follow(at, segments, i) = <<>>
    BY DEF Follow
  <2>2. at = [i \in 0 .. 0 |-> Follow(at, segments, i)]
    BY <2>1
  <2> HIDE DEF at
  <2>3. IsWalk(at, segments, 0)
    BY <2>2 DEF IsWalk
  <2> QED
    BY <1>2, <1>3, <2>3
<1>4. CASE k > 0
  <2>1. k - 1 \in Nat /\ k - 1 \notin S
    BY <1>1, <1>2, <1>4
  <2>2. PICK f : IsWalk(f, segments, k - 1)
    BY <2>1
  <2> DEFINE at == [i \in 0 .. k |-> IF i = k THEN Follow(f, segments, k) ELSE f[i]]
  <2>3. \A i \in 0 .. (k - 1) : at[i] = f[i]
    BY <2>1
  <2>4. \A i \in 0 .. k : Follow(at, segments, i) = Follow(f, segments, i)
    <3> SUFFICES ASSUME NEW i \in 0 .. k PROVE Follow(at, segments, i) = Follow(f, segments, i)
      OBVIOUS
    <3>1. i # 0 => at[i - 1] = f[i - 1]
      BY <2>1, <2>3
    <3> HIDE DEF at
    <3> QED
      BY <3>1, Zenon DEF Follow
  <2>5. \A i \in 0 .. (k - 1) : f[i] = Follow(f, segments, i)
    <3> DEFINE g == [i \in 0 .. (k - 1) |-> Follow(f, segments, i)]
    <3>1. f = g
      BY <2>2, Zenon DEF IsWalk
    <3>2. \A i \in 0 .. (k - 1) : g[i] = Follow(f, segments, i)
      OBVIOUS
    <3> QED
      BY <3>1, <3>2, Zenon
  <2>6. at = [i \in 0 .. k |-> Follow(at, segments, i)]
    <3>1. \A i \in 0 .. k : at[i] = Follow(at, segments, i)
      BY <2>1, <2>4, <2>5
    <3>2. DOMAIN at = 0 .. k /\ at = [i \in 0 .. k |-> at[i]]
      OBVIOUS
    <3> HIDE DEF at
    <3> QED
      BY <3>1, <3>2
  <2> HIDE DEF at
  <2>7. IsWalk(at, segments, k)
    BY <2>6, Zenon DEF IsWalk
  <2> QED
    BY <1>2, <2>7
<1> QED
  BY <1>2, <1>3, <1>4

\* A walk follows one segment after the other.
LEMMA WalkUnfolds ==
  ASSUME NEW segments, Len(segments) \in Nat
  PROVE  /\ Walk(segments) = WalkOf(segments)[Len(segments)]
         /\ \A i \in 0 .. Len(segments) :
              WalkOf(segments)[i] = Follow(WalkOf(segments), segments, i)
<1>1. IsWalk(WalkOf(segments), segments, Len(segments))
  BY WalkExists, Zenon DEF WalkOf
<1>2. Walk(segments) = WalkOf(segments)[Len(segments)]
  BY Zenon DEF Walk, WalkOf, IsWalk, Follow
<1> DEFINE w == WalkOf(segments)
           g == [i \in 0 .. Len(segments) |-> Follow(w, segments, i)]
<1>3. w = g
  BY <1>1, Zenon DEF IsWalk
<1>4. \A i \in 0 .. Len(segments) : g[i] = Follow(w, segments, i)
  OBVIOUS
<1> QED
  BY <1>2, <1>3, <1>4, Zenon
-----------------------------------------------------------------------------
(* What the trie is worth to a walk.                                       *)

\* Induction up to n, for the numbers in a set.
LEMMA UpTo ==
  ASSUME NEW n \in Nat, NEW S, 0 \in S,
         \A i \in 1 .. n : i - 1 \in S => i \in S
  PROVE  \A i \in 0 .. n : i \in S
<1> DEFINE T == {i \in 0 .. n : i \notin S}
<1> SUFFICES ASSUME T # {} PROVE FALSE
  OBVIOUS
<1>1. PICK k \in T : \A m \in T : k <= m
  <2>1. T \subseteq Nat
    OBVIOUS
  <2> HIDE DEF T
  <2> QED
    BY <2>1, LeastNumber
<1>2. k \in 1 .. n /\ k - 1 \in 0 .. n /\ k \notin S
  OBVIOUS
<1>3. k - 1 \notin T
  BY <1>1, <1>2
<1> QED
  BY <1>2, <1>3

\* A node lies on a registered path.
On(node, e, i) ==
  /\ e \in Registered /\ i \in 0 .. Len(e.path) /\ node = NodeAt(e.path, i)
  /\ i \in Nat /\ Len(node) = i
  /\ (i = 0 <=> node = <<>>)

\* The nodes before the end of a path are those of the path.
LEMMA PrefixFacts ==
  ASSUME TrieOK, NEW e \in Registered, NEW i \in 0 .. Len(e.path), NEW k \in 0 .. i
  PROVE  /\ SubSeq(NodeAt(e.path, i), 1, k) = NodeAt(e.path, k)
         /\ k \in 0 .. Len(e.path)
<1>1. Len(e.path) \in Nat /\ i \in Nat
  BY RegisteredFacts, Zenon
<1>2. k \in Nat /\ k <= i /\ k \in 0 .. Len(e.path)
  BY <1>1
<1> DEFINE path == e.path
<1> HIDE DEF path
<1>3. /\ NodeAt(path, i) \in Seq({Label(path[j]) : j \in 1 .. i})
      /\ Len(NodeAt(path, i)) = i
      /\ \A j \in 1 .. i : NodeAt(path, i)[j] = Label(path[j])
  BY <1>1, NodeFacts
<1>4. SubSeq(NodeAt(path, i), 1, k) = [j \in 1 .. k |-> Label(path[j])]
  BY <1>1, <1>2, <1>3
<1> QED
  BY <1>2, <1>4 DEF NodeAt, path

\* Two registered paths that meet in a node have had every node before it,
\* and the edges there, in common.
LEMMA MeetFacts ==
  ASSUME TrieOK, NEW e \in Registered, NEW f \in Registered,
         NEW i \in 0 .. Len(e.path), NEW j \in 0 .. Len(f.path),
         NodeAt(e.path, i) = NodeAt(f.path, j)
  PROVE  /\ i = j
         /\ \A k \in 0 .. i : NodeAt(e.path, k) = NodeAt(f.path, k)
         /\ \A k \in 1 .. i : EdgeFor(e.path[k]) = EdgeFor(f.path[k])
<1>1. i = j
  BY RegisteredFacts, Zenon
<1>2. \A k \in 0 .. i : NodeAt(e.path, k) = NodeAt(f.path, k)
  BY <1>1, PrefixFacts, Zenon
<1>3. ASSUME NEW k \in 1 .. i
      PROVE  EdgeFor(e.path[k]) = EdgeFor(f.path[k])
  <2>1. Len(e.path) \in Nat /\ Len(f.path) \in Nat
    BY RegisteredFacts, Zenon
  <2>2. k - 1 \in 0 .. i /\ k \in 1 .. Len(e.path) /\ k \in 1 .. Len(f.path)
    BY <1>1, <2>1
  <2> QED
    BY <1>2, <2>2, RegisteredFacts, Zenon
<1> QED
  BY <1>1, <1>2, <1>3

\* Every node but the root, and every node with edges, is on a path.
LEMMA OnFacts ==
  ASSUME TrieOK, NEW n \in DOMAIN edges
  PROVE  /\ n # <<>> => \E e \in Registered : \E i \in 1 .. Len(e.path) : On(n, e, i)
         /\ edges[n] # NoEdge =>
              \E e \in Registered : \E i \in 1 .. Len(e.path) :
                On(n, e, i - 1) /\ edges[n] = EdgeFor(e.path[i])
<1>1. \A e \in Registered : \A i \in 0 .. Len(e.path) :
        n = NodeAt(e.path, i) => On(n, e, i)
  <2>1. \A i \in Nat : i = 0 \/ i > 0
    OBVIOUS
  <2>2. ASSUME NEW e \in Registered, NEW i \in 0 .. Len(e.path)
        PROVE  i \in Nat /\ Len(NodeAt(e.path, i)) = i
    BY RegisteredFacts, Zenon
  <2>3. ASSUME NEW e \in Registered, NEW i \in 0 .. Len(e.path)
        PROVE  i = 0 <=> NodeAt(e.path, i) = <<>>
    BY <2>1, <2>2, NodeFacts, Zenon
  <2> QED
    BY <2>2, <2>3, Zenon DEF On
<1>2. ASSUME n # <<>>
      PROVE  \E e \in Registered : \E i \in 1 .. Len(e.path) : On(n, e, i)
  <2>1. PICK e \in Registered : \E i \in 1 .. Len(e.path) : n = NodeAt(e.path, i)
    BY <1>2, Zenon DEF TrieOK
  <2> QED
    BY <1>1, <2>1, RegisteredFacts, Zenon
<1>3. ASSUME edges[n] # NoEdge
      PROVE  \E e \in Registered : \E i \in 1 .. Len(e.path) :
               On(n, e, i - 1) /\ edges[n] = EdgeFor(e.path[i])
  <2>1. PICK e \in Registered : \E i \in 1 .. Len(e.path) : n = NodeAt(e.path, i - 1)
    BY <1>3, Zenon DEF TrieOK
  <2> QED
    BY <1>1, <2>1, RegisteredFacts, Zenon
<1> QED
  BY <1>2, <1>3

\* The kind of an edge is that of the segment.
LEMMA EdgeFacts ==
  ASSUME NEW e \in Endpoints, NEW i \in 1 .. Len(e.path)
  PROVE  /\ (EdgeFor(e.path[i]).kind = "Literals" <=> ~ IsVar(e.path[i]))
         /\ (EdgeFor(e.path[i]).kind = "VariableRest" <=> e.path[i].kind = "VarnameWildcard")
         /\ (EdgeFor(e.path[i]).kind = "VariableSingle" <=> e.path[i].kind = "VarnameSegment")
         /\ EdgeFor(e.path[i]).kind \in {"Literals", "VariableSingle", "VariableRest"}
         /\ (IsVar(e.path[i]) => EdgeFor(e.path[i]).name = e.path[i].name /\ Label(e.path[i]) = "{}")
         /\ (~ IsVar(e.path[i]) => Label(e.path[i]) = e.path[i].name /\ Label(e.path[i]) # "{}")
         /\ Label(e.path[i]) # "/"
         /\ (e.path[i].kind = "VarnameWildcard" => IsVar(e.path[i]))
<1>1. /\ e.path[i].kind \in {"Literal", "VarnameSegment", "VarnameWildcard"}
      /\ Label(e.path[i]) # "/"
      /\ (Label(e.path[i]) = "{}" <=> IsVar(e.path[i]))
  BY PathFacts
<1> DEFINE s == e.path[i]
<1>2. s.kind \in {"Literal", "VarnameSegment", "VarnameWildcard"} /\ Label(s) # "/"
      /\ (Label(s) = "{}" <=> IsVar(s))
  BY <1>1
<1> HIDE DEF s
<1>3. /\ (EdgeFor(s).kind = "Literals" <=> ~ IsVar(s))
      /\ (EdgeFor(s).kind = "VariableRest" <=> s.kind = "VarnameWildcard")
      /\ (EdgeFor(s).kind = "VariableSingle" <=> s.kind = "VarnameSegment")
      /\ EdgeFor(s).kind \in {"Literals", "VariableSingle", "VariableRest"}
      /\ (IsVar(s) => EdgeFor(s).name = s.name /\ Label(s) = "{}")
      /\ (~ IsVar(s) => Label(s) = s.name /\ Label(s) # "{}")
      /\ (s.kind = "VarnameWildcard" => IsVar(s))
  <2>1. CASE s.kind = "Literal"
    BY <1>2, <2>1 DEF EdgeFor, IsVar, Label
  <2>2. CASE s.kind = "VarnameSegment"
    BY <1>2, <2>2 DEF EdgeFor, IsVar, Label
  <2>3. CASE s.kind = "VarnameWildcard"
    BY <1>2, <2>3 DEF EdgeFor, IsVar, Label
  <2> QED
    BY <1>2, <2>1, <2>2, <2>3
<1> QED
  BY <1>1, <1>3 DEF s
\* Appending to a sequence of whatever elements.
LEMMA AppendFacts ==
  ASSUME NEW T, NEW n \in Seq(T), NEW x
  PROVE  /\ Len(n) \in Nat /\ Len(Append(n, x)) = Len(n) + 1
         /\ \A j \in 1 .. Len(n) : Append(n, x)[j] = n[j]
         /\ Append(n, x)[Len(n) + 1] = x
         /\ SubSeq(Append(n, x), 1, Len(n)) = n
         /\ Append(n, x) # <<>>
<1> DEFINE U == T \cup {x}
<1>1. n \in Seq(U) /\ x \in U
  OBVIOUS
<1> HIDE DEF U
<1>2. /\ Len(n) \in Nat /\ Len(Append(n, x)) = Len(n) + 1
      /\ \A j \in 1 .. Len(n) : Append(n, x)[j] = n[j]
      /\ Append(n, x)[Len(n) + 1] = x
      /\ Append(n, x) \in Seq(U)
  BY <1>1
<1>3. SubSeq(Append(n, x), 1, Len(n)) = n
  BY <1>1, <1>2
<1> QED
  BY <1>2, <1>3

\* A node of the trie is a sequence, and NoNode is none of them.
LEMMA NodesAreSequences ==
  ASSUME TrieOK, NEW n \in DOMAIN edges
  PROVE  /\ Len(n) \in Nat
         /\ \E T : n \in Seq(T)
         /\ n # NoNode
<1>1. CASE n = <<>>
  <2>1. n \in Seq({}) /\ Len(n) = 0
    BY <1>1
  <2>2. Len(NoNode) = 1
    BY DEF NoNode
  <2> QED
    BY <2>1, <2>2
<1>2. CASE n # <<>>
  <2>1. PICK e \in Registered : \E i \in 1 .. Len(e.path) : On(n, e, i)
    BY <1>2, OnFacts, Zenon
  <2>2. PICK i \in 1 .. Len(e.path) : On(n, e, i)
    BY <2>1
  <2>3. e \in Endpoints /\ Len(e.path) \in Nat
    BY RegisteredFacts, Zenon
  <2>4. i \in Nat /\ 1 \in 1 .. Len(e.path) /\ 1 \in 1 .. i
    BY <2>3
  <2>5. n = NodeAt(e.path, i) /\ Len(n) = i
    BY <2>2, Zenon DEF On
  <2>6. \E T : n \in Seq(T)
    BY <2>4, <2>5, NodeFacts, Zenon
  <2>7. n[1] = Label(e.path[1])
    BY <2>4, <2>5, NodeFacts, Zenon
  <2>8. n[1] # "/"
    BY <2>3, <2>4, <2>7, EdgeFacts, Zenon
  <2>9. NoNode[1] = "/"
    BY DEF NoNode
  <2> QED
    BY <2>4, <2>5, <2>6, <2>8, <2>9
<1> QED
  BY <1>1, <1>2

\* A variable edge leads to a node, and behind a wildcard there is nothing.
LEMMA ChildFacts ==
  ASSUME TrieOK, NEW n \in DOMAIN edges
  PROVE  /\ edges[n].kind \in {"None", "Literals", "VariableSingle", "VariableRest"}
         /\ (edges[n].kind \in {"VariableSingle", "VariableRest"} =>
               Append(n, "{}") \in DOMAIN edges)
         /\ (edges[n].kind = "VariableRest" =>
               /\ edges[Append(n, "{}")] = NoEdge
               /\ \E e \in Registered : /\ HasWildcard(e.path)
                                        /\ n = NodeAt(e.path, Len(e.path) - 1)
                                        /\ Append(n, "{}") = Node(e.path))
<1>1. CASE edges[n] = NoEdge
  <2>1. NoEdge.kind = "None"
    BY DEF NoEdge
  <2>2. edges[n].kind = "None"
    BY <1>1, <2>1, Zenon
  <2> QED
    BY <2>2
<1>2. CASE edges[n] # NoEdge
  <2>1. PICK e \in Registered : \E i \in 1 .. Len(e.path) :
          On(n, e, i - 1) /\ edges[n] = EdgeFor(e.path[i])
    BY <1>2, OnFacts, Zenon
  <2>2. PICK i \in 1 .. Len(e.path) : On(n, e, i - 1) /\ edges[n] = EdgeFor(e.path[i])
    BY <2>1
  <2>3. /\ e \in Endpoints /\ Len(e.path) \in Nat /\ i \in 0 .. Len(e.path)
        /\ DOMAIN e.path = 1 .. Len(e.path)
    BY RegisteredFacts, Zenon
  <2>4. i \in Nat /\ i > 0 /\ i - 1 \in 0 .. i
    BY <2>3
  <2>5. n = NodeAt(e.path, i - 1)
    BY <2>2, Zenon DEF On
  <2>6. edges[n].kind \in {"Literals", "VariableSingle", "VariableRest"}
    BY <2>2, <2>3, EdgeFacts, Zenon
  <2>7. ASSUME edges[n].kind \in {"VariableSingle", "VariableRest"}
        PROVE  Append(n, "{}") = NodeAt(e.path, i)
    <3>1. edges[n].kind # "Literals"
      BY <2>7
    <3>2. Label(e.path[i]) = "{}"
      BY <2>2, <2>3, <3>1, EdgeFacts, Zenon
    <3>3. NodeAt(e.path, i) = Append(NodeAt(e.path, i - 1), Label(e.path[i]))
      BY <2>4, NodeFacts, Zenon
    <3> QED
      BY <2>5, <3>2, <3>3
  <2>8. NodeAt(e.path, i) \in DOMAIN edges
    BY <2>3, RegisteredFacts, Zenon
  <2>9. ASSUME edges[n].kind = "VariableRest"
        PROVE  /\ edges[Append(n, "{}")] = NoEdge
               /\ HasWildcard(e.path)
               /\ n = NodeAt(e.path, Len(e.path) - 1)
               /\ Append(n, "{}") = Node(e.path)
    <3>1. e.path[i].kind = "VarnameWildcard"
      BY <2>2, <2>3, <2>9, EdgeFacts, Zenon
    <3>2. ~ SegmentsAfterWildcard(e.path)
      BY Zenon DEF TrieOK
    <3>3. i = Len(e.path)
      BY <2>3, <3>1, <3>2 DEF SegmentsAfterWildcard
    <3>4. HasWildcard(e.path)
      BY <2>3, <2>4, <3>1, <3>3 DEF HasWildcard
    <3>5. Append(n, "{}") = NodeAt(e.path, i)
      BY <2>7, <2>9
    <3>6. ASSUME edges[NodeAt(e.path, i)] # NoEdge PROVE FALSE
      <4>1. PICK f \in Registered : \E j \in 1 .. Len(f.path) :
              On(NodeAt(e.path, i), f, j - 1)
        BY <2>8, <3>6, OnFacts, Zenon
      <4>2. PICK j \in 1 .. Len(f.path) : On(NodeAt(e.path, i), f, j - 1)
        BY <4>1
      <4>3. /\ f \in Endpoints /\ Len(f.path) \in Nat /\ j - 1 \in 0 .. Len(f.path)
            /\ DOMAIN f.path = 1 .. Len(f.path)
        BY RegisteredFacts, Zenon
      <4>4. NodeAt(e.path, i) = NodeAt(f.path, j - 1)
        BY <4>2, Zenon DEF On
      <4>5. i \in 1 .. i
        BY <2>4
      <4>6. i = j - 1 /\ EdgeFor(e.path[i]) = EdgeFor(f.path[i])
        <5> DEFINE k == j - 1
        <5>1. k \in 0 .. Len(f.path) /\ NodeAt(e.path, i) = NodeAt(f.path, k)
          BY <4>3, <4>4
        <5> HIDE DEF k
        <5>2. i = k /\ \A l \in 1 .. i : EdgeFor(e.path[l]) = EdgeFor(f.path[l])
          BY <2>3, <5>1, MeetFacts
        <5> QED
          BY <4>5, <5>2 DEF k
      <4>7. i \in 1 .. Len(f.path) /\ i < Len(f.path)
        BY <2>4, <4>3, <4>6
      <4>8. f.path[i].kind = "VarnameWildcard"
        BY <2>3, <3>1, <4>3, <4>6, <4>7, EdgeFacts, Zenon
      <4>9. ~ SegmentsAfterWildcard(f.path)
        BY Zenon DEF TrieOK
      <4> QED
        BY <4>3, <4>7, <4>8, <4>9 DEF SegmentsAfterWildcard
    <3> QED
      BY <2>5, <3>3, <3>4, <3>5, <3>6 DEF Node
  <2> QED
    BY <2>6, <2>7, <2>8, <2>9
<1> QED
  BY <1>1, <1>2

-----------------------------------------------------------------------------
(* The walk takes no edge that the segments do not call for.               *)

\* After i segments: no node, or one whose labels are the segments' and that
\* is i deep unless a wildcard was reached before.
Sound(node, segments, i) ==
  \/ node = NoNode
  \/ /\ node \in DOMAIN edges
     /\ Len(node) \in Nat /\ Len(node) <= i
     /\ \A j \in 1 .. Len(node) : node[j] \in {"{}", segments[j]}
     /\ Len(node) = i \/ AtWildcard(node)

\* At every node the labels so far are those of the segments.
LEMMA WalkSound ==
  ASSUME TrieOK, NEW segments, Len(segments) \in Nat
  PROVE  Sound(Walk(segments), segments, Len(segments))
<1> DEFINE w == WalkOf(segments)
           L == Len(segments)
           S == {i \in 0 .. L : Sound(w[i], segments, i)}
<1>1. /\ Walk(segments) = w[L]
      /\ \A i \in 0 .. L : w[i] = Follow(w, segments, i)
  BY WalkUnfolds, Zenon
<1>2. 0 \in S
  <2>1. w[0] = <<>>
    BY <1>1 DEF Follow
  <2>2. <<>> \in DOMAIN edges
    BY Zenon DEF TrieOK
  <2>3. Sound(<<>>, segments, 0)
    BY <2>2 DEF Sound
  <2> HIDE DEF w
  <2> QED
    BY <2>1, <2>3
<1>3. ASSUME NEW i \in 1 .. L, i - 1 \in S
      PROVE  i \in S
  <2>0. /\ i \in Nat /\ i <= i /\ (i - 1) + 1 = i
        /\ \A j \in 1 .. i : j = i \/ j \in 1 .. (i - 1)
    OBVIOUS
  <2>1. Sound(w[i - 1], segments, i - 1) /\ i \in 0 .. L /\ i # 0
    BY <1>3
  <2>2. w[i] = IF w[i - 1] = NoNode \/ AtWildcard(w[i - 1]) THEN w[i - 1]
               ELSE Step(w[i - 1], segments[i])
    BY <1>1, <2>1, Zenon DEF Follow
  <2> DEFINE n == w[i - 1]
  <2>3. Sound(n, segments, i - 1)
        /\ w[i] = IF n = NoNode \/ AtWildcard(n) THEN n ELSE Step(n, segments[i])
    BY <2>1, <2>2
  <2> HIDE DEF n, w
  <2>4. CASE n = NoNode
    BY <2>1, <2>3, <2>4 DEF Sound
  <2>5. CASE n # NoNode /\ AtWildcard(n)
    <3>1. /\ n \in DOMAIN edges /\ Len(n) \in Nat /\ Len(n) <= i - 1
          /\ \A j \in 1 .. Len(n) : n[j] \in {"{}", segments[j]}
      BY <2>3, <2>5 DEF Sound
    <3>2. Len(n) <= i
      <4>1. Len(n) \in Nat /\ Len(n) <= i - 1
        BY <3>1, Zenon
      <4> HIDE DEF S, L
      <4> QED
        BY <2>0, <4>1
    <3>3. Sound(n, segments, i)
      BY <2>5, <3>1, <3>2 DEF Sound
    <3> QED
      BY <2>1, <2>3, <2>5, <3>3
  <2>6. CASE n # NoNode /\ ~ AtWildcard(n)
    <3>1. /\ n \in DOMAIN edges /\ Len(n) \in Nat /\ Len(n) = i - 1
          /\ \A j \in 1 .. Len(n) : n[j] \in {"{}", segments[j]}
      BY <2>3, <2>6 DEF Sound
    <3>2. w[i] = Step(n, segments[i])
      BY <2>3, <2>6
    <3>3. PICK T : n \in Seq(T)
      BY <3>1, NodesAreSequences, Zenon
    <3>4. ASSUME NEW x \in {"{}", segments[i]}, Append(n, x) \in DOMAIN edges
          PROVE  Sound(Append(n, x), segments, i)
      <4>1. /\ Len(Append(n, x)) = i
            /\ \A j \in 1 .. Len(n) : Append(n, x)[j] = n[j]
            /\ Append(n, x)[i] = x
        <5>1. /\ Len(Append(n, x)) = Len(n) + 1
              /\ \A j \in 1 .. Len(n) : Append(n, x)[j] = n[j]
              /\ Append(n, x)[Len(n) + 1] = x
          BY <3>3, AppendFacts, Zenon
        <5>2. Len(n) \in Nat /\ Len(n) = i - 1
          BY <3>1, Zenon
        <5>3. Len(n) + 1 = i
          BY <2>0, <5>2, Zenon
        <5> QED
          BY <5>1, <5>3, Zenon
      <4>2. \A j \in 1 .. i : Append(n, x)[j] \in {"{}", segments[j]}
        <5> SUFFICES ASSUME NEW j \in 1 .. i PROVE Append(n, x)[j] \in {"{}", segments[j]}
          OBVIOUS
        <5>1. Len(n) = i - 1
          BY <3>1, Zenon
        <5>2. j = i \/ j \in 1 .. Len(n)
          BY <2>0, <5>1, Zenon
        <5> QED
          BY <3>1, <3>4, <4>1, <5>2, Zenon
      <4>3. i \in Nat /\ i <= i
        BY <2>0, Zenon
      <4> QED
        BY <3>4, <4>1, <4>2, <4>3, Zenon DEF Sound
    <3>5. \/ Step(n, segments[i]) = NoNode
          \/ /\ Step(n, segments[i]) = Append(n, segments[i])
             /\ Append(n, segments[i]) \in DOMAIN edges
          \/ /\ Step(n, segments[i]) = Append(n, "{}")
             /\ edges[n].kind \in {"VariableSingle", "VariableRest"}
      BY <3>1, ChildFacts DEF Step
    <3>6. Sound(Step(n, segments[i]), segments, i)
      <4>1. edges[n].kind \in {"VariableSingle", "VariableRest"} => Append(n, "{}") \in DOMAIN edges
        BY <3>1, ChildFacts, Zenon
      <4>2. Sound(NoNode, segments, i)
        BY Zenon DEF Sound
      <4> QED
        BY <3>4, <3>5, <4>1, <4>2, Zenon
    <3> QED
      BY <2>1, <3>2, <3>6
  <2> QED
    BY <2>4, <2>5, <2>6
<1> HIDE DEF S, w
<1>4. \A i \in 0 .. L : i \in S
  BY <1>2, <1>3, UpTo
<1>5. L \in S
  BY <1>4
<1> QED
  BY <1>1, <1>5 DEF S
\* Where a lookup ends: at a node whose labels are those of the segments, as
\* deep as the segments are many unless a wildcard took the rest of them.
Reached(node, segments) ==
  /\ node \in DOMAIN edges
  /\ \A j \in 1 .. Len(node) : j <= Len(segments) => node[j] \in {"{}", segments[j]}
  /\ \/ Len(node) = Len(segments) /\ ~ AtWildcard(node)
     \/ AtWildcard(node) /\ Len(node) <= Len(segments) + 1

LEMMA DestinationSound ==
  ASSUME TrieOK, NEW segments, Len(segments) \in Nat, Destination(segments) # NoNode
  PROVE  Reached(Destination(segments), segments)
<1> DEFINE n == Walk(segments)
           L == Len(segments)
<1>1. Sound(n, segments, L) /\ L \in Nat
  BY WalkSound
<1>2. Destination(segments) = IF n # NoNode /\ edges[n].kind = "VariableRest"
                              THEN Append(n, "{}") ELSE n
  BY Zenon DEF Destination
<1> HIDE DEF n, L
<1>3. n # NoNode
  BY <1>2, Zenon
<1>4. n \in DOMAIN edges
  BY <1>1, <1>3, Zenon DEF Sound
<1>5. Len(n) \in Nat /\ Len(n) <= L
  BY <1>1, <1>3, Zenon DEF Sound
<1>6. /\ \A j \in 1 .. Len(n) : n[j] \in {"{}", segments[j]}
      /\ Len(n) = L \/ AtWildcard(n)
  BY <1>1, <1>3, Zenon DEF Sound
<1>7. CASE edges[n].kind = "VariableRest"
  <2>1. Destination(segments) = Append(n, "{}") /\ Append(n, "{}") \in DOMAIN edges
    BY <1>2, <1>3, <1>4, <1>7, ChildFacts
  <2>2. PICK T : n \in Seq(T)
    BY <1>4, NodesAreSequences, Zenon
  <2>3. /\ Len(Append(n, "{}")) = Len(n) + 1
        /\ \A j \in 1 .. Len(n) : Append(n, "{}")[j] = n[j]
        /\ Append(n, "{}")[Len(n) + 1] = "{}"
        /\ SubSeq(Append(n, "{}"), 1, Len(n)) = n
        /\ Append(n, "{}") # <<>>
    BY <2>2, AppendFacts, Zenon
  <2>4. (Len(n) + 1) - 1 = Len(n) /\ Len(n) + 1 <= L + 1
    BY <1>1, <1>5
  <2>5. AtWildcard(Append(n, "{}"))
    BY <1>7, <2>3, <2>4, Zenon DEF AtWildcard
  <2>6. \A j \in 1 .. (Len(n) + 1) : j = Len(n) + 1 \/ j \in 1 .. Len(n)
    BY <1>5
  <2>7. \A j \in 1 .. (Len(n) + 1) : Append(n, "{}")[j] \in {"{}", segments[j]}
    BY <1>6, <2>3, <2>6, Zenon
  <2> QED
    BY <2>1, <2>3, <2>4, <2>5, <2>7, Zenon DEF Reached, L
<1>8. CASE edges[n].kind # "VariableRest"
  <2>1. Destination(segments) = n
    BY <1>2, <1>8, Zenon
  <2>2. Len(n) <= L + 1
    BY <1>1, <1>5
  <2> QED
    BY <1>4, <1>6, <2>1, <2>2, Zenon DEF Reached, L
<1> QED
  BY <1>7, <1>8, Zenon

\* A path ends in a wildcard if the walk to its end does.
LEMMA WildcardFacts ==
  ASSUME TrieOK, NEW e \in Registered
  PROVE  /\ (AtWildcard(Node(e.path)) <=> HasWildcard(e.path))
         /\ Len(Node(e.path)) = Len(e.path)
         /\ Node(e.path) \in DOMAIN edges
<1>1. /\ e \in Endpoints /\ Len(e.path) \in Nat
      /\ DOMAIN e.path = 1 .. Len(e.path)
  BY RegisteredFacts, Zenon
<1>2. Len(e.path) \in 0 .. Len(e.path)
  BY <1>1
<1>3. Len(Node(e.path)) = Len(e.path) /\ Node(e.path) \in DOMAIN edges
  BY <1>2, RegisteredFacts, Zenon DEF Node
<1>4. CASE Len(e.path) = 0
  <2>1. Node(e.path) = <<>>
    BY <1>1, <1>4, NodeFacts, Zenon DEF Node
  <2>2. e.path = <<>>
    <3> DEFINE path == e.path
    <3>1. IsPath(path) /\ Len(path) = 0
      BY <1>1, <1>4, RoutingAssumption
    <3> HIDE DEF path
    <3> DEFINE S == {path[i] : i \in DOMAIN path}
    <3>2. path \in Seq(S)
      BY <3>1, Zenon DEF IsPath
    <3> HIDE DEF S
    <3>3. path = <<>>
      BY <3>1, <3>2
    <3> QED
      BY <3>3 DEF path
  <2> QED
    BY <1>3, <2>1, <2>2, Zenon DEF AtWildcard, HasWildcard
<1>5. CASE Len(e.path) # 0
  <2> DEFINE N == Len(e.path)
  <2>1. N \in 1 .. N /\ N > 0 /\ N - 1 \in 0 .. N /\ N \in Nat /\ N \in 0 .. N
    BY <1>1, <1>5
  <2>2. Node(e.path) # <<>> /\ e.path # <<>>
    <3>1. Len(<<>>) = 0
      OBVIOUS
    <3> QED
      BY <1>3, <1>5, <3>1, Zenon
  <2>3. SubSeq(Node(e.path), 1, Len(Node(e.path)) - 1) = NodeAt(e.path, N - 1)
    BY <1>3, <2>1, NodeFacts, Zenon DEF Node
  <2>4. edges[NodeAt(e.path, N - 1)] = EdgeFor(e.path[N])
    BY <2>1, RegisteredFacts, Zenon
  <2>5. EdgeFor(e.path[N]).kind = "VariableRest" <=> e.path[N].kind = "VarnameWildcard"
    BY <1>1, <2>1, EdgeFacts, Zenon
  <2> QED
    BY <1>3, <2>2, <2>3, <2>4, <2>5, Zenon DEF AtWildcard, HasWildcard
<1> QED
  BY <1>4, <1>5, Zenon

\* A handler at the node where a lookup ends has a path that matches.
LEMMA ReachedMatches ==
  ASSUME TrieOK, NEW segments, Len(segments) \in Nat,
         NEW e \in Registered, Reached(Node(e.path), segments)
  PROVE  PathMatches(e.path, segments)
<1>1. /\ e \in Endpoints /\ Len(e.path) \in Nat
  BY RegisteredFacts, Zenon
<1>2. /\ (AtWildcard(Node(e.path)) <=> HasWildcard(e.path))
      /\ Len(Node(e.path)) = Len(e.path)
  BY WildcardFacts, Zenon
<1>3. HasWildcard(e.path) => Len(e.path) # 0
  <2>1. HasWildcard(e.path) => Node(e.path) # <<>>
    BY <1>2, Zenon DEF AtWildcard
  <2>2. Len(e.path) = 0 => Node(e.path) = <<>>
    BY <1>1, NodeFacts, Zenon DEF Node
  <2> QED
    BY <2>1, <2>2, Zenon
<1>4. \/ Len(e.path) = Len(segments) /\ ~ HasWildcard(e.path)
      \/ HasWildcard(e.path) /\ Len(e.path) <= Len(segments) + 1
  BY <1>2, Zenon DEF Reached
<1>5. /\ (HasWildcard(e.path) => Fixed(e.path) = Len(e.path) - 1)
      /\ (~ HasWildcard(e.path) => Fixed(e.path) = Len(e.path))
  BY Zenon DEF Fixed
<1> DEFINE F == Fixed(e.path)
           L == Len(segments)
           N == Len(e.path)
<1>6. \A j \in 1 .. N : j <= L => Label(e.path[j]) \in {"{}", segments[j]}
  <2>1. \A j \in 1 .. N : Node(e.path)[j] = Label(e.path[j])
    BY <1>1, NodeFacts, Zenon DEF Node
  <2> QED
    BY <1>2, <2>1, Zenon DEF Reached
<1>7. F \in 0 .. N /\ F <= L /\ (IF HasWildcard(e.path) THEN L >= F ELSE L = F)
  BY <1>1, <1>3, <1>4, <1>5
<1>8. \A j \in 1 .. F : j \in 1 .. N /\ j <= L
  <2> HIDE DEF F, L, N
  <2> QED
    BY <1>1, <1>7 DEF N, L
<1>9. ASSUME NEW j \in 1 .. F
      PROVE  IsVar(e.path[j]) \/ e.path[j].name = segments[j]
  <2>1. Label(e.path[j]) = "{}" \/ Label(e.path[j]) = segments[j]
    BY <1>6, <1>8, Zenon
  <2>2. j \in 1 .. N
    BY <1>8, Zenon
  <2> QED
    BY <1>1, <2>1, <2>2, EdgeFacts, Zenon
<1> QED
  BY <1>7, <1>9, Zenon DEF PathMatches
\* insert_var() keeps the names of a path apart, so a name has one position.
LEMMA OnePosition ==
  ASSUME TrieOK, NEW e \in Registered,
         NEW i \in 1 .. Len(e.path), NEW j \in 1 .. Len(e.path),
         IsVar(e.path[i]), IsVar(e.path[j]), e.path[i].name = e.path[j].name
  PROVE  i = j
<1>1. Len(e.path) \in Nat /\ DOMAIN e.path = 1 .. Len(e.path)
  BY RegisteredFacts, Zenon
<1>2. ~ DuplicateVariable(e.path)
  BY Zenon DEF TrieOK
<1>3. ~ (i < j) /\ ~ (j < i)
  BY <1>1, <1>2, Zenon DEF DuplicateVariable
<1> QED
  BY <1>1, <1>3

\* The variables collected on the way are those of the path.
LEMMA VariablesFacts ==
  ASSUME TrieOK, NEW e \in Registered, NEW segments
  PROVE  Variables(Node(e.path), segments) = Binding(e.path, segments)
<1> DEFINE path  == e.path
           N     == Len(path)
           node  == Node(path)
           Edge(i) == edges[SubSeq(node, 1, i - 1)]
           bound == {i \in DOMAIN node : Edge(i).kind # "Literals"}
           At(x) == Last({i \in bound : Edge(i).name = x})
           Names == {Edge(i).name : i \in bound}
           V(x)  == IF Edge(At(x)).kind = "VariableSingle"
                    THEN [kind |-> "String", value |-> <<segments[At(x)]>>]
                    ELSE [kind |-> "Components",
                          value |-> SubSeq(segments, At(x), Len(segments))]
           C(x)  == CHOOSE i \in DOMAIN path : IsVar(path[i]) /\ path[i].name = x
           W(x)  == IF path[C(x)].kind = "VarnameWildcard"
                    THEN [kind |-> "Components",
                          value |-> SubSeq(segments, C(x), Len(segments))]
                    ELSE [kind |-> "String", value |-> <<segments[C(x)]>>]
<1>1. Variables(node, segments) = [x \in Names |-> V(x)]
  BY Zenon DEF Variables
<1>2. Binding(path, segments) = [x \in VarNames(path) |-> W(x)]
  BY Zenon DEF Binding
<1>3. e \in Endpoints /\ N \in Nat /\ DOMAIN path = 1 .. N
  BY RegisteredFacts, Zenon
<1>4. DOMAIN node = 1 .. N
  BY DEF Node, NodeAt
<1>5. ASSUME NEW i \in 1 .. N
      PROVE  Edge(i) = EdgeFor(path[i])
  <2>1. N \in 0 .. N /\ i - 1 \in 0 .. N
    BY <1>3
  <2>2. SubSeq(NodeAt(path, N), 1, i - 1) = NodeAt(path, i - 1)
    BY <2>1, PrefixFacts, Zenon
  <2>3. edges[NodeAt(path, i - 1)] = EdgeFor(path[i])
    BY RegisteredFacts, Zenon
  <2> QED
    BY <2>2, <2>3, Zenon DEF Node
<1>6. \A i \in 1 .. N : i \in bound <=> IsVar(path[i])
  <2>1. \A i \in 1 .. N : EdgeFor(path[i]).kind = "Literals" <=> ~ IsVar(path[i])
    BY <1>3, EdgeFacts, Zenon
  <2> QED
    BY <1>4, <1>5, <2>1, Zenon
<1>7. \A i \in bound : /\ i \in 1 .. N /\ IsVar(path[i]) /\ Edge(i).name = path[i].name
                       /\ (Edge(i).kind = "VariableSingle" <=> path[i].kind # "VarnameWildcard")
  <2> SUFFICES ASSUME NEW i \in bound
               PROVE  /\ i \in 1 .. N /\ IsVar(path[i]) /\ Edge(i).name = path[i].name
                      /\ (Edge(i).kind = "VariableSingle" <=> path[i].kind # "VarnameWildcard")
    BY Zenon
  <2>1. i \in 1 .. N
    BY <1>4, Zenon
  <2>2. IsVar(path[i])
    BY <1>6, <2>1, Zenon
  <2>3. Edge(i).name = path[i].name
    BY <1>3, <1>5, <2>1, <2>2, EdgeFacts, Zenon
  <2>4. /\ (EdgeFor(path[i]).kind = "Literals" <=> ~ IsVar(path[i]))
        /\ (EdgeFor(path[i]).kind = "VariableRest" <=> path[i].kind = "VarnameWildcard")
        /\ EdgeFor(path[i]).kind \in {"Literals", "VariableSingle", "VariableRest"}
    BY <1>3, <2>1, EdgeFacts, Zenon
  <2> DEFINE r == EdgeFor(path[i]).kind
             k == path[i].kind
             var == IsVar(path[i])
  <2>5. r = "VariableSingle" <=> k # "VarnameWildcard"
    <3>1. (r = "VariableRest" <=> k = "VarnameWildcard") /\ r # "Literals"
          /\ r \in {"Literals", "VariableSingle", "VariableRest"}
      BY <2>2, <2>4, Zenon
    <3> HIDE DEF r, k
    <3> QED
      BY <3>1
  <2> QED
    BY <1>5, <2>1, <2>2, <2>3, <2>5, Zenon
<1>8. Names = VarNames(path)
  <2>1. \A x : x \in VarNames(path) <=> \E i \in 1 .. N : IsVar(path[i]) /\ x = path[i].name
    BY <1>3, Zenon DEF VarNames
  <2>2. \A x : x \in Names <=> \E i \in bound : x = Edge(i).name
    BY Zenon
  <2> HIDE DEF Edge, bound, Names, path, N
  <2>3. ASSUME NEW x, x \in Names PROVE x \in VarNames(path)
    <3>1. PICK i \in bound : x = Edge(i).name
      BY <2>2, <2>3, Zenon
    <3>2. i \in 1 .. N /\ IsVar(path[i]) /\ Edge(i).name = path[i].name
      BY <1>7, Zenon
    <3> QED
      BY <2>1, <3>1, <3>2, Zenon
  <2>4. ASSUME NEW x, x \in VarNames(path) PROVE x \in Names
    <3>1. PICK i \in 1 .. N : IsVar(path[i]) /\ x = path[i].name
      BY <2>1, <2>4, Zenon
    <3>2. i \in bound
      BY <1>6, <3>1, Zenon
    <3>3. Edge(i).name = path[i].name
      BY <1>7, <3>2, Zenon
    <3> QED
      BY <2>2, <3>1, <3>2, <3>3, Zenon
  <2> QED
    BY <2>3, <2>4, Zenon
<1>9. ASSUME NEW x \in VarNames(path)
      PROVE  V(x) = W(x)
  <2> DEFINE S == {i \in bound : Edge(i).name = x}
  <2>1. PICK i \in 1 .. N : IsVar(path[i]) /\ x = path[i].name
    BY <1>3, Zenon DEF VarNames
  <2>2. i \in S
    BY <1>6, <1>7, <2>1, Zenon
  <2>3. \A j \in S : j = i /\ j \in 1 .. N
    BY <1>7, <2>1, OnePosition, Zenon
  <2>4. Last(S) = i
    <3>1. S \subseteq 1 .. N /\ S # {}
      BY <2>2, <2>3, Zenon
    <3> HIDE DEF S, N
    <3>2. Last(S) \in S
      BY <1>3, <3>1, LastFacts
    <3> QED
      BY <2>3, <3>2, Zenon
  <2>5. C(x) = i
    <3>1. C(x) \in 1 .. N /\ IsVar(path[C(x)]) /\ path[C(x)].name = x
      BY <1>3, <2>1, Zenon
    <3> QED
      BY <2>1, <3>1, OnePosition, Zenon
  <2>6. At(x) = i
    BY <2>4, Zenon
  <2>7. Edge(i).kind = "VariableSingle" <=> path[i].kind # "VarnameWildcard"
    BY <1>7, <2>2, Zenon
  <2> HIDE DEF At, C, Edge
  <2> QED
    BY <2>5, <2>6, <2>7, Zenon
<1> HIDE DEF V, W, Names
<1>10. [x \in Names |-> V(x)] = [x \in VarNames(path) |-> W(x)]
  BY <1>8, <1>9
<1> QED
  BY <1>1, <1>2, <1>10, Zenon

\* The parameters that a handler is declared with have values of their shape.
Fits(variables, e) ==
  /\ DOMAIN variables = {p.name : p \in PathParameters(e)}
  /\ \A p \in PathParameters(e) :
       variables[p.name].kind = IF p.type = "strings" THEN "Components" ELSE "String"

\* What register() validated is what the path binds.
LEMMA BindingFits ==
  ASSUME TrieOK, NEW e \in Registered, NEW segments
  PROVE  Fits(Binding(e.path, segments), e)
<1>1. ~ BadPathParameters(e) /\ ~ BadNamedParameters(e)
  BY Zenon DEF TrieOK, Invalid
<1>2. DOMAIN Binding(e.path, segments) = VarNames(e.path)
  BY DEF Binding
<1>3. VarNames(e.path) = {p.name : p \in PathParameters(e)}
  BY <1>1, Zenon DEF BadPathParameters
<1>4. ASSUME NEW p \in PathParameters(e)
      PROVE  Binding(e.path, segments)[p.name].kind
               = IF p.type = "strings" THEN "Components" ELSE "String"
  <2> DEFINE path == e.path
             x == p.name
             N == Len(path)
             C == CHOOSE i \in DOMAIN path : IsVar(path[i]) /\ path[i].name = x
             D == CHOOSE i \in DOMAIN path :
                    /\ IsVar(path[i]) /\ path[i].name = x
                    /\ \A j \in DOMAIN path : IsVar(path[j]) /\ path[j].name = x => j <= i
  <2>1. N \in Nat /\ DOMAIN path = 1 .. N
    BY RegisteredFacts, Zenon
  <2>2. x \in VarNames(path)
    BY <1>3, Zenon
  <2>3. PICK i \in 1 .. N : IsVar(path[i]) /\ x = path[i].name
    BY <2>1, <2>2, Zenon DEF VarNames
  <2>4. C = i
    <3>1. C \in 1 .. N /\ IsVar(path[C]) /\ path[C].name = x
      BY <2>1, <2>3, Zenon
    <3> QED
      BY <2>3, <3>1, OnePosition, Zenon
  <2>5. D = i
    <3>1. \A j \in 1 .. N : IsVar(path[j]) /\ path[j].name = x => j = i
      BY <2>3, OnePosition, Zenon
    <3>2. \A j \in 1 .. N : j <= j
      BY <2>1
    <3>3. D \in 1 .. N /\ IsVar(path[D]) /\ path[D].name = x
      BY <2>1, <2>3, <3>1, <3>2, Zenon
    <3> QED
      BY <3>1, <3>3, Zenon
  <2>6. p.in = "path" /\ p \in e.parameters
    BY Zenon DEF PathParameters
  <2>7. p.type = RequiredType(path, x)
    BY <1>1, <2>6, Zenon DEF BadNamedParameters
  <2>8. RequiredType(path, x) = IF path[D].kind = "VarnameWildcard" THEN "strings" ELSE "scalar"
    BY Zenon DEF RequiredType
  <2> DEFINE W == IF path[C].kind = "VarnameWildcard"
                  THEN [kind |-> "Components",
                        value |-> SubSeq(segments, C, Len(segments))]
                  ELSE [kind |-> "String", value |-> <<segments[C]>>]
  <2>9. Binding(path, segments)[x] = W
    BY <2>2, Zenon DEF Binding
  <2> DEFINE wild == path[i].kind = "VarnameWildcard"
  <2>10. W.kind = IF wild THEN "Components" ELSE "String"
    <3>1. CASE path[C].kind = "VarnameWildcard"
      BY <2>4, <3>1
    <3>2. CASE path[C].kind # "VarnameWildcard"
      BY <2>4, <3>2
    <3> QED
      BY <3>1, <3>2, Zenon
  <2>11. p.type = IF wild THEN "strings" ELSE "scalar"
    BY <2>5, <2>7, <2>8, Zenon
  <2> HIDE DEF W, wild, path, x
  <2>12. Binding(path, segments)[x].kind = IF p.type = "strings" THEN "Components" ELSE "String"
    BY <2>9, <2>10, <2>11
  <2> QED
    BY <2>12 DEF path, x
<1> QED
  BY <1>2, <1>3, <1>4, Zenon DEF Fits
-----------------------------------------------------------------------------
(* The walk misses no route.                                               *)

\* After each segment the walk is where a path that matches is.
LEMMA WalkComplete ==
  ASSUME TrieOK, NEW segments, Len(segments) \in Nat,
         NEW e \in Registered, PathMatches(e.path, segments)
  PROVE  Walk(segments)
           = NodeAt(e.path, IF Len(segments) <= Len(e.path) THEN Len(segments) ELSE Len(e.path))
<1> DEFINE w == WalkOf(segments)
           L == Len(segments)
           path == e.path
           N == Len(path)
           Depth(i) == IF i <= N THEN i ELSE N
           S == {i \in 0 .. L : w[i] = NodeAt(path, Depth(i))}
<1>1. /\ Walk(segments) = w[L]
      /\ \A i \in 0 .. L : w[i] = Follow(w, segments, i)
  BY WalkUnfolds, Zenon
<1>2. /\ e \in Endpoints /\ N \in Nat /\ DOMAIN path = 1 .. N
      /\ \A i \in 0 .. N : NodeAt(path, i) \in DOMAIN edges
      /\ \A i \in 1 .. N : edges[NodeAt(path, i - 1)] = EdgeFor(path[i])
  BY RegisteredFacts, Zenon
<1>3. L \in Nat
  OBVIOUS
<1>4. \A i \in 1 .. N : path[i].kind = "VarnameWildcard" => i = N
  <2>1. ~ SegmentsAfterWildcard(path)
    BY Zenon DEF TrieOK
  <2>2. \A i \in 1 .. N : path[i].kind = "VarnameWildcard" => ~ (i < N)
    BY <1>2, <2>1, Zenon DEF SegmentsAfterWildcard
  <2> HIDE DEF path, N
  <2> QED
    BY <1>2, <2>2
<1>5. \/ HasWildcard(path) /\ Fixed(path) = N - 1
      \/ ~ HasWildcard(path) /\ Fixed(path) = N /\ L = N
  BY Zenon DEF PathMatches, Fixed
<1>6. \A i \in 1 .. N : i \in 1 .. Fixed(path) \/ (i = N /\ HasWildcard(path))
  <2> HIDE DEF path, N, L
  <2> QED
    BY <1>2, <1>5
<1>7. HasWildcard(path) => path[N].kind = "VarnameWildcard"
  BY Zenon DEF HasWildcard
<1>8. 0 \in S
  <2>1. w[0] = <<>>
    BY <1>1, <1>3 DEF Follow
  <2>2. Depth(0) = 0 /\ 0 \in 0 .. L
    BY <1>2, <1>3
  <2>3. NodeAt(path, 0) = <<>>
    BY <1>2, NodeFacts, Zenon
  <2> HIDE DEF w, Depth
  <2> QED
    BY <2>1, <2>2, <2>3, Zenon
<1>9. ASSUME NEW i \in 1 .. L, i - 1 \in S
      PROVE  i \in S
  <2>1. w[i - 1] = NodeAt(path, Depth(i - 1)) /\ i \in 0 .. L /\ i # 0
    BY <1>9
  <2> DEFINE n == w[i - 1]
  <2>2. w[i] = IF n = NoNode \/ AtWildcard(n) THEN n ELSE Step(n, segments[i])
    BY <1>1, <2>1, Zenon DEF Follow
  <2>3. CASE i <= N
    <3>1. /\ Depth(i - 1) = i - 1 /\ Depth(i) = i /\ i \in 1 .. N /\ i \in Nat /\ i > 0
          /\ i - 1 \in 0 .. N /\ i \in 0 .. N /\ i - 1 # N
      <4> HIDE DEF S, w
      <4> QED
        BY <1>2, <2>3
    <3> HIDE DEF w, Depth, S
    <3>2. n = NodeAt(path, i - 1) /\ n \in DOMAIN edges /\ edges[n] = EdgeFor(path[i])
      BY <1>2, <2>1, <3>1, Zenon
    <3>3. n # NoNode
      BY <3>2, NodesAreSequences, Zenon
    <3>4. ~ AtWildcard(n)
      <4> SUFFICES ASSUME AtWildcard(n) PROVE FALSE
        OBVIOUS
      <4> DEFINE k == i - 1
      <4>1. n # <<>> /\ edges[SubSeq(n, 1, Len(n) - 1)].kind = "VariableRest"
        BY Zenon DEF AtWildcard
      <4>2. k \in Nat /\ (k = 0 \/ k \in 1 .. N) /\ k # N /\ (k = 0 \/ k > 0)
        BY <1>2, <3>1
      <4> HIDE DEF k
      <4>3. n = NodeAt(path, k)
        BY <3>2 DEF k
      <4>4. k # 0
        BY <4>1, <4>2, <4>3, NodeFacts, Zenon
      <4>5. SubSeq(n, 1, Len(n) - 1) = NodeAt(path, k - 1)
        <5>1. Len(NodeAt(path, k)) = k
          BY <4>2, NodeFacts, Zenon
        <5>2. SubSeq(NodeAt(path, k), 1, k - 1) = NodeAt(path, k - 1)
          BY <4>2, <4>4, NodeFacts, Zenon
        <5> QED
          BY <4>3, <5>1, <5>2
      <4>6. EdgeFor(path[k]).kind = "VariableRest"
        BY <1>2, <4>1, <4>2, <4>4, <4>5, Zenon
      <4>7. path[k].kind = "VarnameWildcard"
        BY <1>2, <4>2, <4>4, <4>6, EdgeFacts, Zenon
      <4> QED
        BY <1>4, <4>2, <4>4, <4>7, Zenon
    <3>5. w[i] = Step(n, segments[i])
      BY <2>2, <3>3, <3>4, Zenon
    <3>6. NodeAt(path, i) = Append(n, Label(path[i])) /\ NodeAt(path, i) \in DOMAIN edges
      <4>1. NodeAt(path, i) = Append(NodeAt(path, i - 1), Label(path[i]))
        BY <3>1, NodeFacts, Zenon
      <4>2. NodeAt(path, i) \in DOMAIN edges
        BY <1>2, <3>1, Zenon
      <4> HIDE DEF n
      <4> QED
        BY <3>2, <4>1, <4>2
    <3>7. CASE IsVar(path[i])
      <4>1. edges[n].kind # "Literals" /\ Label(path[i]) = "{}"
            /\ edges[n].kind \in {"Literals", "VariableSingle", "VariableRest"}
        BY <1>2, <3>1, <3>2, <3>7, EdgeFacts, Zenon
      <4>2. edges[n].kind \notin {"None", "Literals"}
        BY <4>1
      <4>3. Step(n, segments[i]) = Append(n, "{}")
        BY <4>2 DEF Step
      <4> QED
        BY <2>1, <3>1, <3>5, <3>6, <4>1, <4>3, Zenon DEF S
    <3>8. CASE ~ IsVar(path[i])
      <4>1. edges[n].kind = "Literals" /\ Label(path[i]) = path[i].name
        BY <1>2, <3>1, <3>2, <3>8, EdgeFacts, Zenon
      <4>2. ~ (i = N /\ HasWildcard(path))
        BY <1>2, <1>7, <3>1, <3>8, EdgeFacts, Zenon
      <4>3. i \in 1 .. Fixed(path)
        BY <1>6, <3>1, <4>2, Zenon
      <4>4. path[i].name = segments[i]
        BY <3>8, <4>3, Zenon DEF PathMatches
      <4>5. Append(n, segments[i]) = NodeAt(path, i)
        BY <3>6, <4>1, <4>4, Zenon
      <4>6. Step(n, segments[i]) = Append(n, segments[i])
        <5>1. Append(n, segments[i]) \in DOMAIN edges
          BY <3>6, <4>5, Zenon
        <5> QED
          BY <4>1, <5>1 DEF Step
      <4> QED
        BY <2>1, <3>1, <3>5, <4>5, <4>6, Zenon DEF S
    <3> QED
      BY <3>7, <3>8, Zenon
  <2>4. CASE ~ (i <= N)
    <3>1. Depth(i - 1) = N /\ Depth(i) = N /\ L # N /\ N \in 0 .. N
      <4>1. i \in Int /\ i - 1 >= N
        BY <1>2, <2>4
      <4>2. (i - 1 <= N) => i - 1 = N
        BY <1>2, <4>1
      <4>3. L # N
        BY <1>2, <2>4
      <4> QED
        BY <1>2, <2>4, <4>2, <4>3
    <3> HIDE DEF w, Depth, S
    <3>2. HasWildcard(path)
      BY <1>5, <3>1, Zenon
    <3>3. n = Node(path)
      BY <2>1, <3>1, Zenon DEF Node
    <3>4. AtWildcard(n)
      BY <3>2, <3>3, WildcardFacts, Zenon
    <3>5. w[i] = n
      BY <2>2, <3>4, Zenon
    <3> QED
      BY <2>1, <3>1, <3>5, Zenon DEF S
  <2> QED
    BY <2>3, <2>4
<1>10. L \in S
  <2> HIDE DEF S, L
  <2>1. \A i \in 0 .. L : i \in S
    BY <1>3, <1>8, <1>9, UpTo
  <2>2. L \in 0 .. L
    BY <1>3
  <2> QED
    BY <2>1, <2>2, Zenon
<1>11. w[L] = NodeAt(path, Depth(L))
  BY <1>10, Zenon
<1> QED
  BY <1>1, <1>11, Zenon

\* A lookup ends at every route that matches, unless a wildcard begins there.
LEMMA DestinationComplete ==
  ASSUME TrieOK, NEW segments, Len(segments) \in Nat,
         NEW e \in Registered, PathMatches(e.path, segments), ~ Shadowed(e.path)
  PROVE  Destination(segments) = Node(e.path)
<1> DEFINE n == Walk(segments)
           L == Len(segments)
           path == e.path
           N == Len(path)
<1>1. n = NodeAt(path, IF L <= N THEN L ELSE N)
  BY WalkComplete, Zenon
<1>2. /\ e \in Endpoints /\ N \in Nat /\ DOMAIN path = 1 .. N
      /\ \A i \in 0 .. N : NodeAt(path, i) \in DOMAIN edges
  BY RegisteredFacts, Zenon
<1>3. L \in Nat
  OBVIOUS
<1>4. Destination(segments) = IF n # NoNode /\ edges[n].kind = "VariableRest"
                              THEN Append(n, "{}") ELSE n
  BY Zenon DEF Destination
<1> HIDE DEF n
<1>5. \/ HasWildcard(path) /\ L >= N - 1
      \/ ~ HasWildcard(path) /\ L = N
  BY Zenon DEF PathMatches, Fixed
<1>6. CASE ~ (HasWildcard(path) /\ L = N - 1)
  <2>1. N <= L
    <3> HIDE DEF N, L, path
    <3> QED
      BY <1>2, <1>3, <1>5, <1>6
  <2>2. n = Node(path) /\ n \in DOMAIN edges
    <3>1. (IF L <= N THEN L ELSE N) = N /\ N \in 0 .. N
      <4> HIDE DEF N, L, path
      <4> QED
        BY <1>2, <1>3, <2>1
    <3> QED
      BY <1>1, <1>2, <3>1, Zenon DEF Node
  <2>3. ASSUME edges[n].kind = "VariableRest" PROVE FALSE
    <3>1. PICK f \in Registered : HasWildcard(f.path) /\ n = NodeAt(f.path, Len(f.path) - 1)
      BY <2>2, <2>3, ChildFacts, Zenon
    <3> QED
      BY <2>2, <3>1, Zenon DEF Shadowed
  <2> QED
    BY <1>4, <2>2, <2>3, Zenon
<1>7. CASE HasWildcard(path) /\ L = N - 1
  <2>1. N # 0
    <3>1. L # -1
      BY <1>3
    <3> QED
      BY <1>2, <1>7, <3>1
  <2>2. /\ (IF L <= N THEN L ELSE N) = N - 1 /\ N \in 1 .. N /\ N - 1 \in 0 .. N
        /\ N \in Nat /\ N > 0
    <3>1. L = N - 1
      BY <1>7
    <3> HIDE DEF N, L, path
    <3> QED
      BY <1>2, <1>3, <2>1, <3>1
  <2>3. n = NodeAt(path, N - 1) /\ n \in DOMAIN edges
    BY <1>1, <1>2, <2>2, Zenon
  <2>4. path[N].kind = "VarnameWildcard"
    BY <1>7, Zenon DEF HasWildcard
  <2>5. edges[n] = EdgeFor(path[N])
    BY <2>2, <2>3, RegisteredFacts, Zenon
  <2>6. edges[n].kind = "VariableRest" /\ Label(path[N]) = "{}"
    BY <1>2, <2>2, <2>4, <2>5, EdgeFacts, Zenon
  <2>7. n # NoNode
    BY <2>3, NodesAreSequences, Zenon
  <2>8. NodeAt(path, N) = Append(n, "{}")
    <3>1. NodeAt(path, N) = Append(NodeAt(path, N - 1), Label(path[N]))
      BY <2>2, NodeFacts, Zenon
    <3> QED
      BY <2>3, <2>6, <3>1
  <2> QED
    BY <1>4, <2>6, <2>7, <2>8, Zenon DEF Node
<1> QED
  BY <1>6, <1>7, Zenon

\* A decoded request path is a sequence.
LEMMA SegmentsFacts ==
  ASSUME NEW raw \in RawPaths
  PROVE  Len(InputSegments(raw)) \in Nat
<1> DEFINE T == {raw[i] : i \in DOMAIN raw}
           kept == {i \in DOMAIN raw : raw[i] # ""}
           c == Cardinality(kept)
<1>1. raw \in Seq(T)
  BY RoutingAssumption, Zenon
<1> HIDE DEF T
<1>2. Len(raw) \in Nat /\ DOMAIN raw = 1 .. Len(raw)
  BY <1>1
<1>3. IsFiniteSet(1 .. Len(raw))
  BY <1>2, FS_Interval
<1>4. kept \subseteq 1 .. Len(raw)
  BY <1>2
<1> HIDE DEF kept
<1>5. c \in Nat
  BY <1>3, <1>4, FS_Subset, FS_CardinalityType
<1> HIDE DEF c
<1>6. DOMAIN NonEmpty(raw) = 1 .. c
  BY DEF NonEmpty, c, kept
<1>7. DOMAIN InputSegments(raw) = 1 .. c
  BY <1>6 DEF InputSegments
<1>8. InputSegments(raw) = [i \in 1 .. c |-> Decode[NonEmpty(raw)[i]]]
  BY <1>6, Zenon DEF InputSegments
<1>9. Len([i \in 1 .. c |-> Decode[NonEmpty(raw)[i]]]) = c
  BY <1>5
<1> QED
  BY <1>5, <1>8, <1>9
-----------------------------------------------------------------------------
(* The whole of routing.                                                   *)

\* Lookups depend on nothing but the router.
LEMMA WalkStays ==
  ASSUME edges' = edges, NEW segments
  PROVE  Walk(segments)' = Walk(segments)
<1> DEFINE L == Len(segments)
<1>1. \A n : AtWildcard(n)' <=> AtWildcard(n)
  BY Zenon DEF AtWildcard
<1>2. \A n, s : Step(n, s)' = Step(n, s)
  BY DEF Step
<1>3. \A at, i : Follow(at, segments, i)' = Follow(at, segments, i)
  BY <1>1, <1>2, Zenon DEF Follow
<1>4. \A at : IsWalk(at, segments, L)' <=> IsWalk(at, segments, L)
  BY <1>3 DEF IsWalk
<1>5. WalkOf(segments)' = WalkOf(segments)
  BY <1>4, Zenon DEF WalkOf
<1>6. Walk(segments) = WalkOf(segments)[L]
  BY Zenon DEF Walk, WalkOf, IsWalk, Follow
<1>7. Walk(segments)' = WalkOf(segments)'[L]
  BY Zenon DEF Walk, WalkOf, IsWalk, Follow
<1> QED
  BY <1>5, <1>6, <1>7, Zenon
LEMMA LookupStays ==
  ASSUME edges' = edges, table' = table, NEW method, NEW raw, NEW version
  PROVE  LookupRoute(method, raw, version)' = LookupRoute(method, raw, version)
<1> DEFINE segments == InputSegments(raw)
<1>1. Walk(segments)' = Walk(segments)
  BY WalkStays, Zenon
<1>2. Destination(segments)' = Destination(segments)
  BY <1>1, Zenon DEF Destination
<1>3. \A n, m, v : Handlers(n, m, v)' = Handlers(n, m, v)
  BY DEF Handlers
<1>4. \A n : MethodsAt(n)' = MethodsAt(n)
  BY DEF MethodsAt, Registered
<1>5. \A n, v : OtherMethodMatches(n, v)' <=> OtherMethodMatches(n, v)
  BY <1>3, <1>4, Zenon DEF OtherMethodMatches
<1>6. \A n : Variables(n, segments)' = Variables(n, segments)
  BY DEF Variables
<1> QED
  BY <1>2, <1>3, <1>4, <1>5, <1>6 DEF LookupRoute

\* What Dispatch records.
Answer(method, raw, header) ==
  LET v == RequestVersion(policy, header)
  IN  [method |-> method, raw |-> raw, header |-> header, version |-> v.version,
       response |-> IF v.ok THEN LookupRoute(method, raw, v.version)
                            ELSE LookupError(400, {})]

\* A request is under way only in a server, and has the answer that the router
\* would still give.
RequestOK ==
  /\ phase \in {"registering", "panicked", "rejected", "serving"}
  /\ has_versioned_routes \in BOOLEAN
  /\ policy \in Policies \cup {NoPolicy}
  /\ phase = "serving" => policy \in Policies
  /\ request # NoRequest =>
       /\ phase = "serving"
       /\ \E m \in Methods, raw \in RawPaths, h \in Headers : request = Answer(m, raw, h)

RoutingInv == RouteInv /\ TrieOK /\ RequestOK

\* An answer depends on nothing but the router and the policy.
LEMMA AnswerStays ==
  ASSUME edges' = edges, table' = table, policy' = policy, NEW m, NEW raw, NEW h
  PROVE  Answer(m, raw, h)' = Answer(m, raw, h)
<1>1. \A v : LookupRoute(m, raw, v)' = LookupRoute(m, raw, v)
  BY LookupStays, Zenon
<1>2. RequestVersion(policy, h)' = RequestVersion(policy, h)
  BY Zenon DEF RequestVersion, RequestExtractVersion
<1> QED
  BY <1>1, <1>2 DEF Answer

\* There is no request at first.
LEMMA RequestInit == Init => RequestOK
BY DEF Init, RouterInit, RequestOK

\* Once a server runs, nothing is registered any more.
LEMMA RequestStep == RoutingInv /\ [Next]_vars => RequestOK'
<1> SUFFICES ASSUME RoutingInv, [Next]_vars PROVE RequestOK'
  OBVIOUS
<1>0. RequestOK
  BY DEF RoutingInv
<1>1. ASSUME UNCHANGED <<edges, table, has_versioned_routes, phase, policy, request>>
      PROVE  RequestOK'
  <2>1. ASSUME request # NoRequest
        PROVE  \E m \in Methods, raw \in RawPaths, h \in Headers : request' = Answer(m, raw, h)'
    <3>1. PICK m \in Methods, raw \in RawPaths, h \in Headers : request = Answer(m, raw, h)
      BY <1>0, <2>1, Zenon DEF RequestOK
    <3>2. Answer(m, raw, h)' = Answer(m, raw, h)
      BY <1>1, AnswerStays
    <3> QED
      BY <1>1, <3>1, <3>2, Zenon
  <2> QED
    BY <1>0, <1>1, <2>1, Zenon DEF RequestOK
<1>2. ASSUME request' = NoRequest, UNCHANGED <<edges, table, has_versioned_routes, phase, policy>>
      PROVE  RequestOK'
  BY <1>0, <1>2 DEF RequestOK
<1>3. ASSUME NEW m \in Methods, NEW raw \in RawPaths, NEW h \in Headers, Dispatch(m, raw, h)
      PROVE  RequestOK'
  <2>1. /\ phase = "serving" /\ request' = Answer(m, raw, h)
        /\ UNCHANGED <<edges, table, has_versioned_routes, phase, policy>>
    BY <1>3, Zenon DEF Dispatch, Answer, routerVars
  <2>2. Answer(m, raw, h)' = Answer(m, raw, h)
    BY <2>1, AnswerStays
  <2> HIDE DEF RequestOK
  <2>3. \E mm \in Methods, rr \in RawPaths, hh \in Headers : request' = Answer(mm, rr, hh)'
    BY <2>1, <2>2, Zenon
  <2> QED
    BY <1>0, <2>1, <2>3, Zenon DEF RequestOK
<1>4. ASSUME phase = "registering" PROVE request = NoRequest
  BY <1>0, <1>4 DEF RequestOK
<1>5. ASSUME NEW e \in Endpoints, Register(e) PROVE RequestOK'
  <2>1. /\ phase = "registering" /\ phase' = phase /\ policy' = policy /\ request' = request
        /\ has_versioned_routes' \in BOOLEAN
    BY <1>5 DEF Register, Insert
  <2> QED
    BY <1>0, <1>4, <2>1 DEF RequestOK
<1>6. ASSUME NEW e \in Endpoints, RegisterPanics(e) PROVE RequestOK'
  BY <1>0, <1>4, <1>6 DEF RequestOK, RegisterPanics, routerVars
<1>7. ASSUME NEW p \in Policies, Start(p) PROVE RequestOK'
  BY <1>0, <1>4, <1>7 DEF RequestOK, Start, routerVars
<1>8. ASSUME NEW e \in Endpoints, RegisterRefused(e) PROVE RequestOK'
  BY <1>1, <1>8 DEF RegisterRefused, vars
<1>9. CASE Respond
  BY <1>2, <1>9 DEF Respond, routerVars
<1>10. CASE UNCHANGED vars
  BY <1>1, <1>10 DEF vars
<1> QED
  BY <1>3, <1>5, <1>6, <1>7, <1>8, <1>9, <1>10 DEF Next

\* Only register() changes the trie.
LEMMA TrieStep == RoutingInv /\ [Next]_vars => TrieOK'
<1> SUFFICES ASSUME RoutingInv, [Next]_vars PROVE TrieOK'
  OBVIOUS
<1>0. TrieOK /\ table \in Seq(Endpoints)
  BY DEF RoutingInv, RouteInv
<1>1. ASSUME UNCHANGED <<edges, table>> PROVE TrieOK'
  BY <1>0, <1>1 DEF TrieOK, Registered
<1>2. ASSUME NEW e \in Endpoints, Register(e) PROVE TrieOK'
  BY <1>0, <1>2, TrieInsert
<1>3. ASSUME NEW e \in Endpoints, RegisterPanics(e) \/ RegisterRefused(e) PROVE TrieOK'
  BY <1>1, <1>3 DEF RegisterPanics, RegisterRefused, routerVars, vars
<1>4. ASSUME NEW p \in Policies, Start(p) PROVE TrieOK'
  BY <1>1, <1>4 DEF Start, routerVars
<1>5. ASSUME NEW m \in Methods, NEW raw \in RawPaths, NEW h \in Headers, Dispatch(m, raw, h)
      PROVE  TrieOK'
  BY <1>1, <1>5 DEF Dispatch, routerVars
<1>6. CASE Respond
  BY <1>1, <1>6 DEF Respond, routerVars
<1>7. CASE UNCHANGED vars
  BY <1>1, <1>7 DEF vars
<1> QED
  BY <1>2, <1>3, <1>4, <1>5, <1>6, <1>7 DEF Next

\* The trie is that of the registered paths, and a request under way has the
\* answer that it gives, whatever was registered in whatever order.
THEOREM RoutingInvariant == Spec => []RoutingInv
<1>1. Init => RoutingInv
  BY RouteInit, TrieInit, RequestInit DEF RoutingInv
<1>2. RoutingInv /\ [Next]_vars => RoutingInv'
  BY RouteStep, TrieStep, RequestStep DEF RoutingInv
<1> QED
  BY <1>1, <1>2, PTL DEF Spec
-----------------------------------------------------------------------------
(* What a lookup says.                                                     *)

\* What the handlers of a node, method and version are.
LEMMA HandlersFacts ==
  ASSUME RouteInv, NEW node, NEW method, NEW version
  PROVE  /\ Handlers(node, method, version) \subseteq Nat
         /\ \A i \in Handlers(node, method, version) :
              /\ table[i] \in Registered /\ table[i] \in Endpoints
              /\ Node(table[i].path) = node /\ table[i].method = method
              /\ Matches(table[i].versions, version)
         /\ \A e \in Registered :
              /\ Node(e.path) = node /\ e.method = method /\ Matches(e.versions, version)
              => Handlers(node, method, version) # {}
<1>1. DOMAIN table \subseteq Nat /\ \A i \in DOMAIN table : table[i] \in Endpoints
  BY DEF RouteInv
<1>2. \A i \in Handlers(node, method, version) :
        /\ i \in DOMAIN table
        /\ Node(table[i].path) = node /\ table[i].method = method
        /\ Matches(table[i].versions, version)
  BY Zenon DEF Handlers
<1>3. \A i \in DOMAIN table : table[i] \in Registered
  BY Zenon DEF Registered
<1>4. ASSUME NEW e \in Registered,
             Node(e.path) = node /\ e.method = method /\ Matches(e.versions, version)
      PROVE  Handlers(node, method, version) # {}
  <2>1. PICK i \in DOMAIN table : e = table[i]
    BY Zenon DEF Registered
  <2>2. i \in Handlers(node, method, version)
    BY <1>4, <2>1, Zenon DEF Handlers
  <2> QED
    BY <2>2, Zenon
<1> QED
  BY <1>1, <1>2, <1>3, <1>4, Zenon

\* The statuses of a lookup, and when it gives which.
LEMMA LookupFacts ==
  ASSUME RouteInv, TrieOK, NEW method, NEW raw \in RawPaths, NEW version
  PROVE  LET r     == LookupRoute(method, raw, version)
             node  == Destination(InputSegments(raw))
             found == Handlers(node, method, version)
         IN  /\ r.status \in {200, 400, 404, 405}
             /\ (r.status = 200 <=> ~ BadPath(raw) /\ node # NoNode /\ found # {})
             /\ (r.status = 200 => /\ r.endpoint = table[First(found)]
                                   /\ First(found) \in found
                                   /\ r.variables = Variables(node, InputSegments(raw)))
             /\ (r.status \in {404, 405} => ~ BadPath(raw) /\ (node = NoNode \/ found = {}))
             /\ (r.status = 405 => /\ node # NoNode /\ r.allow = MethodsAt(node)
                                   /\ OtherMethodMatches(node, version))
<1> DEFINE r     == LookupRoute(method, raw, version)
           node  == Destination(InputSegments(raw))
           found == Handlers(node, method, version)
           E(s, a) == LookupError(s, a)
           F == [status |-> 200, endpoint |-> table[First(found)],
                 variables |-> Variables(node, InputSegments(raw)), allow |-> {}]
<1>1. \A s, a : E(s, a).status = s /\ E(s, a).allow = a
  BY DEF LookupError
<1>2. /\ F.status = 200 /\ F.endpoint = table[First(found)]
      /\ F.variables = Variables(node, InputSegments(raw))
  OBVIOUS
<1>3. found # {} => First(found) \in found
  <2>1. found \subseteq Nat
    BY HandlersFacts, Zenon
  <2> HIDE DEF found
  <2> QED
    BY <2>1, FirstFacts
<1>4. r = IF BadPath(raw) THEN E(400, {})
          ELSE IF node = NoNode THEN E(404, {})
          ELSE IF found # {} THEN F
          ELSE IF OtherMethodMatches(node, version) THEN E(405, MethodsAt(node))
          ELSE E(404, {})
  BY Zenon DEF LookupRoute
<1> HIDE DEF r, node, found, E, F
<1>5. CASE BadPath(raw)
  BY <1>1, <1>4, <1>5 DEF r, node, found
<1>6. CASE ~ BadPath(raw) /\ node = NoNode
  BY <1>1, <1>4, <1>6 DEF r, node, found
<1>7. CASE ~ BadPath(raw) /\ node # NoNode /\ found # {}
  BY <1>2, <1>3, <1>4, <1>7 DEF r, node, found
<1>8. CASE ~ BadPath(raw) /\ node # NoNode /\ found = {}
  BY <1>1, <1>4, <1>8 DEF r, node, found
<1> QED
  BY <1>5, <1>6, <1>7, <1>8, Zenon

\* What the invariant says of a request that has been looked up.
LookedUp(m, raw, h, v) ==
  /\ m \in Methods /\ raw \in RawPaths /\ h \in Headers
  /\ request.method = m /\ request.raw = raw /\ request.header = h
  /\ request.version = v /\ RequestVersion(policy, h) = Accepted(v)
  /\ request.response = LookupRoute(m, raw, v)
  /\ policy \in Policies

\* The version that a header asks for under a policy.
VersionFor(p, h) == IF p = Unversioned THEN NoVersion
                    ELSE IF h = NoVersion THEN p.on_missing ELSE h

\* A version accepted is the one asked for, and one that requests can name.
LEMMA VersionFacts ==
  ASSUME NEW h \in Headers, NEW v, NEW p \in Policies, RequestVersion(p, h) = Accepted(v)
  PROVE  /\ v = VersionFor(p, h)
         /\ v # NoVersion => v \in RequestedVersions /\ v \in Int /\ p # Unversioned
<1>1. \A u : Accepted(u).version = u /\ Accepted(u).ok /\ ~ Rejected.ok
  BY DEF Accepted, Rejected
<1>2. Accepted(v).version = v /\ Accepted(v) # Rejected
  BY <1>1
<1>3. CASE p = Unversioned
  <2>1. RequestVersion(p, h) = Accepted(NoVersion)
    BY <1>3, Zenon DEF RequestVersion
  <2> QED
    BY <1>1, <1>3, <2>1 DEF VersionFor
<1>4. CASE p # Unversioned
  <2>1. RequestVersion(p, h) = RequestExtractVersion(p, h)
    BY <1>4, Zenon DEF RequestVersion
  <2>2. h # Garbage
    BY <1>2, <2>1, Zenon DEF RequestExtractVersion
  <2>3. CASE h = NoVersion
    <3>1. Accepted(v) = Accepted(p.on_missing)
      BY <1>2, <2>1, <2>2, <2>3, Zenon DEF RequestExtractVersion
    <3>2. v = p.on_missing
      BY <1>1, <3>1, Zenon
    <3>3. v # NoVersion => v \in RequestedVersions
      BY <1>4, <3>2, Zenon DEF RequestedVersions
    <3> QED
      BY <1>4, <2>3, <3>2, <3>3, RoutingAssumption DEF VersionFor
  <2>4. CASE h # NoVersion
    <3>1. Accepted(v) = Accepted(h)
      BY <1>2, <2>1, <2>2, <2>4, Zenon DEF RequestExtractVersion
    <3>2. v = h
      BY <1>1, <3>1, Zenon
    <3>3. v \in RequestedVersions
      BY <2>2, <2>4, <3>2, Zenon DEF RequestedVersions
    <3> QED
      BY <1>4, <2>4, <3>2, <3>3, RoutingAssumption DEF VersionFor
  <2> QED
    BY <2>3, <2>4, Zenon
<1> QED
  BY <1>3, <1>4, Zenon

\* A request that was not refused for its version was looked up.
LEMMA RequestFacts ==
  ASSUME RoutingInv, request # NoRequest
  PROVE  /\ request.response.status \in {200, 400, 404, 405}
         /\ (request.response.status # 400 => \E m, raw, h, v : LookedUp(m, raw, h, v))
<1>1. RequestOK /\ RouteInv /\ TrieOK
  BY Zenon DEF RoutingInv
<1>2. policy \in Policies
  BY <1>1, Zenon DEF RequestOK
<1>3. PICK m \in Methods, raw \in RawPaths, h \in Headers : request = Answer(m, raw, h)
  BY <1>1, Zenon DEF RequestOK
<1> DEFINE a == RequestVersion(policy, h)
           v == a.version
           R == IF a.ok THEN LookupRoute(m, raw, v) ELSE LookupError(400, {})
           q == [method |-> m, raw |-> raw, header |-> h, version |-> v, response |-> R]
<1>4. request = q
  BY <1>3, Zenon DEF Answer
<1>5. /\ q.method = m /\ q.raw = raw /\ q.header = h /\ q.version = v /\ q.response = R
  <2> HIDE DEF R, v
  <2> QED
    OBVIOUS
<1> HIDE DEF q, R
<1>6. request.response = R
  BY <1>4, <1>5, Zenon
<1>7. CASE ~ a.ok
  <2>1. R = LookupError(400, {})
    BY <1>7, Zenon DEF R
  <2>2. LookupError(400, {}).status = 400
    BY DEF LookupError
  <2>3. request.response.status = 400
    BY <1>6, <2>1, <2>2
  <2> QED
    BY <2>3
<1>8. CASE a.ok
  <2>1. R = LookupRoute(m, raw, v)
    BY <1>8, Zenon DEF R
  <2>2. a = Accepted(v)
    <3>1. (a = Rejected) \/ \E u : a = Accepted(u)
      BY Zenon DEF RequestVersion, RequestExtractVersion
    <3>2. ~ Rejected.ok
      BY DEF Rejected
    <3>3. PICK u : a = Accepted(u)
      BY <1>8, <3>1, <3>2, Zenon
    <3>4. Accepted(u).version = u
      BY DEF Accepted
    <3> QED
      BY <3>3, <3>4, Zenon
  <2>3. LookedUp(m, raw, h, v)
    BY <1>2, <1>4, <1>5, <2>1, <2>2, Zenon DEF LookedUp
  <2>4. LookupRoute(m, raw, v).status \in {200, 400, 404, 405}
    BY <1>1, LookupFacts
  <2>5. request.response.status = LookupRoute(m, raw, v).status
    BY <1>6, <2>1
  <2>6. request.response.status \in {200, 400, 404, 405}
    BY <2>4, <2>5
  <2>7. \E mm, rr, hh, vv : LookedUp(mm, rr, hh, vv)
    BY <2>3, Zenon
  <2> QED
    BY <2>6, <2>7, Zenon
<1> QED
  BY <1>7, <1>8, Zenon
-----------------------------------------------------------------------------
(* The properties.                                                         *)

\* A 200 is a handler at the node where the lookup ended.
LEMMA FoundFacts ==
  ASSUME RoutingInv, NEW m, NEW raw, NEW h, NEW v, LookedUp(m, raw, h, v),
         request.response.status = 200
  PROVE  LET e     == request.response.endpoint
             node  == Destination(InputSegments(raw))
             found == Handlers(node, m, v)
         IN  /\ First(found) \in found /\ e = table[First(found)]
             /\ e \in Registered /\ e \in Endpoints
             /\ Node(e.path) = node /\ e.method = m /\ Matches(e.versions, v)
             /\ PathMatches(e.path, InputSegments(raw))
             /\ request.response.variables = Binding(e.path, InputSegments(raw))
<1> DEFINE segments == InputSegments(raw)
           node  == Destination(segments)
           found == Handlers(node, m, v)
           e     == request.response.endpoint
<1>1. RouteInv /\ TrieOK
  BY Zenon DEF RoutingInv
<1>2. raw \in RawPaths /\ request.response = LookupRoute(m, raw, v)
  BY Zenon DEF LookedUp
<1>3. LookupRoute(m, raw, v).status = 200
  BY <1>2
<1>4. /\ node # NoNode /\ First(found) \in found
      /\ LookupRoute(m, raw, v).endpoint = table[First(found)]
      /\ LookupRoute(m, raw, v).variables = Variables(node, segments)
  BY <1>1, <1>2, <1>3, LookupFacts
<1>5. e = table[First(found)] /\ request.response.variables = Variables(node, segments)
  BY <1>2, <1>4
<1>6. /\ e \in Registered /\ e \in Endpoints
      /\ Node(e.path) = node /\ e.method = m /\ Matches(e.versions, v)
  <2> DEFINE i == First(found)
  <2>1. i \in found /\ e = table[i]
    BY <1>4, <1>5
  <2> HIDE DEF i, e
  <2>2. /\ table[i] \in Registered /\ table[i] \in Endpoints
        /\ Node(table[i].path) = node /\ table[i].method = m
        /\ Matches(table[i].versions, v)
    BY <1>1, <2>1, HandlersFacts
  <2> QED
    BY <2>1, <2>2
<1>7. Len(segments) \in Nat
  BY <1>2, SegmentsFacts
<1> HIDE DEF segments, e
<1>8. Reached(Node(e.path), segments)
  <2>1. Reached(node, segments)
    BY <1>1, <1>4, <1>7, DestinationSound, Zenon
  <2> HIDE DEF node
  <2> QED
    BY <1>6, <2>1, Zenon
<1>9. PathMatches(e.path, segments)
  BY <1>1, <1>6, <1>7, <1>8, ReachedMatches, Zenon
<1>10. Variables(Node(e.path), segments) = Binding(e.path, segments)
  BY <1>1, <1>6, VariablesFacts
<1>11. request.response.variables = Binding(e.path, segments)
  <2> HIDE DEF node
  <2> QED
    BY <1>5, <1>6, <1>10
<1> QED
  BY <1>4, <1>5, <1>6, <1>9, <1>11, Zenon DEF segments, e

LEMMA RouterIsSound == RoutingInv => RouterSound
<1> SUFFICES ASSUME RoutingInv PROVE RouterSound
  OBVIOUS
<1>1. RequestOK /\ TrieOK
  BY Zenon DEF RoutingInv
<1>2. Registered \subseteq Endpoints
  BY <1>1, Zenon DEF TrieOK
<1>3. \A n \in DOMAIN edges :
        edges[n].kind \in {"None", "Literals", "VariableSingle", "VariableRest"}
  BY <1>1, ChildFacts, Zenon
<1>4. request # NoRequest => request.response.status \in {200, 400, 404, 405}
  BY RequestFacts, Zenon
<1>5. TypeOK
  BY <1>1, <1>2, <1>3, <1>4, Zenon DEF TypeOK, RequestOK
<1>6. WildcardIsTerminal
  <2> SUFFICES ASSUME NEW n \in DOMAIN edges, edges[n].kind = "VariableRest"
               PROVE  Append(n, "{}") \in DOMAIN edges /\ edges[Append(n, "{}")] = NoEdge
    BY Zenon DEF WildcardIsTerminal
  <2>1. edges[n].kind \in {"VariableSingle", "VariableRest"}
    OBVIOUS
  <2> QED
    BY <1>1, <2>1, ChildFacts, Zenon
<1> QED
  BY <1>5, <1>6 DEF RouterSound

LEMMA RequestsAreRouted == RoutingInv => RoutedRight
<1> SUFFICES ASSUME RoutingInv, request # NoRequest, request.response.status = 200
             PROVE  LET e == request.response.endpoint
                    IN  /\ e \in Eligible(request.method, request.raw, Asked)
                        /\ request.response.variables
                             = Binding(e.path, InputSegments(request.raw))
  BY Zenon DEF RoutedRight
<1>1. request.response.status # 400
  OBVIOUS
<1>2. PICK m, raw, h, v : LookedUp(m, raw, h, v)
  BY <1>1, RequestFacts, Zenon
<1>3. request.method = m /\ request.raw = raw
  BY <1>2, Zenon DEF LookedUp
<1>4. v = Asked
  <2>1. h \in Headers /\ policy \in Policies /\ request.header = h
        /\ RequestVersion(policy, h) = Accepted(v)
    BY <1>2, Zenon DEF LookedUp
  <2>2. v = VersionFor(policy, h)
    BY <2>1, VersionFacts
  <2> QED
    BY <2>1, <2>2, Zenon DEF Asked, VersionFor
<1> DEFINE e == request.response.endpoint
<1>5. /\ e \in Registered /\ e.method = m /\ Matches(e.versions, v)
      /\ PathMatches(e.path, InputSegments(raw))
      /\ request.response.variables = Binding(e.path, InputSegments(raw))
  BY <1>2, FoundFacts
<1>6. e \in Eligible(m, raw, v)
  BY <1>5, Zenon DEF Eligible
<1> QED
  BY <1>3, <1>4, <1>5, <1>6

LEMMA RoutesAreFound == RoutingInv => RouteFound
<1> SUFFICES ASSUME RoutingInv, request # NoRequest,
                    request.response.status \in {404, 405},
                    NEW e \in Eligible(request.method, request.raw, request.version),
                    ~ Shadowed(e.path)
             PROVE  FALSE
  BY DEF RouteFound
<1>1. request.response.status # 400
  OBVIOUS
<1>2. PICK m, raw, h, v : LookedUp(m, raw, h, v)
  BY <1>1, RequestFacts, Zenon
<1>3. /\ request.method = m /\ request.raw = raw /\ request.version = v
      /\ raw \in RawPaths /\ request.response = LookupRoute(m, raw, v)
  BY <1>2, Zenon DEF LookedUp
<1>4. RouteInv /\ TrieOK
  BY Zenon DEF RoutingInv
<1> DEFINE segments == InputSegments(raw)
           node == Destination(segments)
<1>5. LookupRoute(m, raw, v).status \in {404, 405}
  BY <1>3
<1>6. node = NoNode \/ Handlers(node, m, v) = {}
  BY <1>3, <1>4, <1>5, LookupFacts
<1>7. /\ e \in Registered /\ e.method = m /\ PathMatches(e.path, segments)
      /\ Matches(e.versions, v)
  BY <1>3 DEF Eligible
<1>8. Len(segments) \in Nat
  BY <1>3, SegmentsFacts
<1> HIDE DEF segments
<1>9. node = Node(e.path)
  BY <1>4, <1>7, <1>8, DestinationComplete
<1>10. Node(e.path) # NoNode
  <2>1. Node(e.path) \in DOMAIN edges
    BY <1>4, <1>7, WildcardFacts
  <2> QED
    BY <1>4, <2>1, NodesAreSequences, Zenon
<1>11. Handlers(Node(e.path), m, v) # {}
  BY <1>4, <1>7, HandlersFacts
<1> HIDE DEF node
<1> QED
  BY <1>6, <1>9, <1>10, <1>11

LEMMA VariablesFit == RoutingInv => VariablesFitTheHandler
<1> SUFFICES ASSUME RoutingInv, request # NoRequest, request.response.status = 200
             PROVE  Fits(request.response.variables, request.response.endpoint)
  BY Zenon DEF VariablesFitTheHandler, Fits
<1>1. request.response.status # 400
  OBVIOUS
<1>2. PICK m, raw, h, v : LookedUp(m, raw, h, v)
  BY <1>1, RequestFacts, Zenon
<1> DEFINE e == request.response.endpoint
<1>3. e \in Registered /\ request.response.variables = Binding(e.path, InputSegments(raw))
  BY <1>2, FoundFacts
<1>4. Fits(Binding(e.path, InputSegments(raw)), e)
  BY <1>3, BindingFits DEF RoutingInv
<1> QED
  BY <1>3, <1>4

LEMMA AllowIsComplete == RoutingInv => AllowComplete
<1> SUFFICES ASSUME RoutingInv, request # NoRequest, request.response.status = 405
             PROVE  LET accepted == {m \in Methods :
                          LookupRoute(m, request.raw, request.version).status = 200}
                    IN  accepted # {} /\ accepted \subseteq request.response.allow
  BY Zenon DEF AllowComplete
<1>1. request.response.status # 400
  OBVIOUS
<1>2. PICK m, raw, h, v : LookedUp(m, raw, h, v)
  BY <1>1, RequestFacts, Zenon
<1>3. /\ request.raw = raw /\ request.version = v
      /\ raw \in RawPaths /\ request.response = LookupRoute(m, raw, v)
  BY <1>2, Zenon DEF LookedUp
<1>4. RouteInv /\ TrieOK
  BY Zenon DEF RoutingInv
<1> DEFINE node == Destination(InputSegments(raw))
           r == LookupRoute(m, raw, v)
<1>5. r.status = 405 /\ r.status \in {404, 405}
  BY <1>3
<1>6. /\ ~ BadPath(raw) /\ node # NoNode /\ r.allow = MethodsAt(node)
      /\ OtherMethodMatches(node, v)
  BY <1>3, <1>4, <1>5, LookupFacts
<1>7. \A n \in Methods : LookupRoute(n, raw, v).status = 200 <=> Handlers(node, n, v) # {}
  BY <1>3, <1>4, <1>6, LookupFacts
<1>8. PICK n \in MethodsAt(node) : Handlers(node, n, v) # {}
  BY <1>6, Zenon DEF OtherMethodMatches
<1>9. n \in Methods
  <2>1. PICK e \in Registered : n = e.method
    BY DEF MethodsAt
  <2>2. e \in Endpoints
    BY <1>4, RegisteredFacts, Zenon
  <2> QED
    BY <2>1, <2>2, RoutingAssumption
<1>10. ASSUME NEW k \in Methods, Handlers(node, k, v) # {}
       PROVE  k \in MethodsAt(node)
  <2>1. PICK i \in Handlers(node, k, v) : TRUE
    BY <1>10, Zenon
  <2>2. table[i] \in Registered /\ Node(table[i].path) = node /\ table[i].method = k
    BY <1>4, <2>1, HandlersFacts
  <2> QED
    BY <2>2 DEF MethodsAt
<1>11. request.response.allow = MethodsAt(node)
  BY <1>3, <1>6
<1> HIDE DEF node
<1>12. /\ \E k \in Methods : LookupRoute(k, raw, v).status = 200
       /\ \A k \in Methods : LookupRoute(k, raw, v).status = 200 => k \in request.response.allow
  BY <1>7, <1>8, <1>9, <1>10, <1>11
<1> QED
  BY <1>3, <1>12

\* Last finds a position of the table.
LEMMA LastOfTable ==
  ASSUME table \in Seq(Endpoints), NEW S, S \subseteq DOMAIN table, S # {}
  PROVE  Last(S) \in S
<1> DEFINE n == Len(table)
<1>1. n \in Nat /\ DOMAIN table = 1 .. n
  OBVIOUS
<1> HIDE DEF n
<1>2. S \subseteq 1 .. n
  BY <1>1
<1> QED
  BY <1>1, <1>2, LastFacts

LEMMA DocumentAgrees == RoutingInv => OpenApiAgrees
<1> SUFFICES ASSUME RoutingInv, request # NoRequest, request.response.status = 200,
                    request.version # NoVersion, request.response.endpoint.visible
             PROVE  LET e == request.response.endpoint
                        d == OpenApiOperation(Node(e.path), e.method, request.version)
                    IN  d = e \/ (d # NoEndpoint /\ OneVersionClash(d.versions, e.versions))
  BY Zenon DEF OpenApiAgrees
<1>1. request.response.status # 400
  OBVIOUS
<1>2. PICK m, raw, h, v : LookedUp(m, raw, h, v)
  BY <1>1, RequestFacts, Zenon
<1>3. /\ request.version = v /\ h \in Headers /\ policy \in Policies
      /\ RequestVersion(policy, h) = Accepted(v)
  BY <1>2, Zenon DEF LookedUp
<1>4. RouteInv /\ TrieOK
  BY Zenon DEF RoutingInv
<1>5. v \in RequestedVersions /\ v # NoVersion
  BY <1>3, VersionFacts
<1> DEFINE e    == request.response.endpoint
           node == Destination(InputSegments(raw))
           all  == Handlers(node, m, v)
           i    == First(all)
           seen == {k \in all : table[k].visible}
           j    == Last(seen)
           d    == OpenApiOperation(Node(e.path), e.method, request.version)
<1>6. i \in all /\ e = table[i] /\ Node(e.path) = node /\ e.method = m
  BY <1>2, FoundFacts
<1>7. i \in seen
  BY <1>6, Zenon
<1>8. \A k \in all : /\ k \in DOMAIN table /\ table[k] \in Endpoints
                     /\ Node(table[k].path) = node /\ table[k].method = m
                     /\ Contains(table[k].versions, v)
  <2>1. \A k \in all : k \in DOMAIN table
    BY Zenon DEF Handlers
  <2> QED
    BY <1>4, <1>5, <2>1, HandlersFacts DEF Matches
<1>9. j \in seen
  <2>1. table \in Seq(Endpoints)
    BY <1>4 DEF RouteInv
  <2>2. seen \subseteq DOMAIN table /\ seen # {}
    BY <1>7, <1>8
  <2> HIDE DEF seen
  <2> QED
    BY <2>1, <2>2, LastOfTable
<1>10. d = table[j]
  <2>1. OpenApiOperation(node, m, v) = IF seen = {} THEN NoEndpoint ELSE table[j]
    BY Zenon DEF OpenApiOperation
  <2>2. seen # {}
    BY <1>9, Zenon
  <2> HIDE DEF seen, j, node, e
  <2> QED
    BY <1>3, <1>6, <2>1, <2>2
<1> HIDE DEF d, e, i, j, node
<1>11. i \in all /\ j \in all
  BY <1>7, <1>9, Zenon
<1> HIDE DEF all, seen
<1>12. CASE i = j
  BY <1>6, <1>10, <1>12, Zenon DEF d, e
<1>13. CASE i # j
  <2>1. RoutesUnambiguous
    BY <1>4, RouteInvSuffices
  <2>2. /\ i \in DOMAIN table /\ j \in DOMAIN table
        /\ Node(table[j].path) = Node(table[i].path) /\ table[j].method = table[i].method
        /\ Contains(table[i].versions, v) /\ Contains(table[j].versions, v)
        /\ table[j] \in Endpoints
    BY <1>8, <1>11
  <2>3. OneVersionClash(table[j].versions, table[i].versions)
    BY <1>5, <1>13, <2>1, <2>2, Zenon DEF RoutesUnambiguous
  <2>4. table[j] # NoEndpoint
    BY <2>2, RoutingAssumption
  <2>5. d # NoEndpoint /\ OneVersionClash(d.versions, e.versions)
    BY <1>6, <1>10, <2>3, <2>4
  <2> QED
    BY <2>5, Zenon DEF d, e
<1> QED
  BY <1>12, <1>13, Zenon

\* No request makes the router panic: the trie is well formed whatever was
\* registered, and nothing lies behind a wildcard (router.rs 438-561).
THEOREM RouterSoundTheorem == Spec => []RouterSound
BY RoutingInvariant, RouterIsSound, PTL

\* A request reaches only a handler of its method, path and version, with the
\* variables that the path gives (router.rs 438-520).
THEOREM RoutedRightTheorem == Spec => []RoutedRight
BY RoutingInvariant, RequestsAreRouted, PTL

\* No request that a handler is there for is turned away, unless a wildcard
\* shadows its route (router.rs 450-561).
THEOREM RouteFoundTheorem == Spec => []RouteFound
BY RoutingInvariant, RoutesAreFound, PTL

\* A handler gets the path parameters it was declared with
\* (api_description.rs 507-649, http_util.rs 92).
THEOREM VariablesFitTheorem == Spec => []VariablesFitTheHandler
BY RoutingInvariant, VariablesFit, PTL

\* A 405 names every method that would be accepted, and there is one
\* (router.rs 527-551).
THEOREM AllowCompleteTheorem == Spec => []AllowComplete
BY RoutingInvariant, AllowIsComplete, PTL

\* The document of a version describes the endpoint that its requests reach,
\* but for the one clash that registration lets through (router.rs 622-735).
THEOREM OpenApiAgreesTheorem == Spec => []OpenApiAgrees
BY RoutingInvariant, DocumentAgrees, PTL

=============================================================================
