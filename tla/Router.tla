------------------------------- MODULE Router -------------------------------
(***************************************************************************)
(* HttpRouter (dropshot/src/router.rs): a trie whose edges are the         *)
(* segments of route paths.  A node is named by the labels on the way to   *)
(* it; a node has literal edges, or one variable edge, or one wildcard     *)
(* edge.  The handlers of a node are the registered endpoints whose path   *)
(* leads there, in the order of their registration.                        *)
(***************************************************************************)
EXTENDS Versions, Sequences, FiniteSets

CONSTANTS
  Decode,      \* percent-decoding: raw segment -> text, or BadEncoding
  BadEncoding, \* the result for a segment that is not UTF-8 once decoded
  NoEndpoint   \* the endpoint of a request that reached no handler

VARIABLES
  edges,               \* node -> its outgoing edges
  table,               \* registered endpoints, in order
  has_versioned_routes

routerVars == <<edges, table, has_versioned_routes>>

-----------------------------------------------------------------------------
(* Route paths are sequences of parsed PathSegments.                       *)

Literal(s)         == [kind |-> "Literal", name |-> s]
VarnameSegment(x)  == [kind |-> "VarnameSegment", name |-> x]
VarnameWildcard(x) == [kind |-> "VarnameWildcard", name |-> x]

IsVar(segment) == segment.kind # "Literal"

VarNames(path) == {path[i].name : i \in {j \in DOMAIN path : IsVar(path[j])}}

\* The label of the edge for a segment; every variable edge has the same.
Label(segment) == IF IsVar(segment) THEN "{}" ELSE segment.name

NodeAt(path, i) == [j \in 1 .. i |-> Label(path[j])]

Node(path) == NodeAt(path, Len(path))

NoEdge == [kind |-> "None", name |-> ""]

EdgeFor(segment) ==
  CASE segment.kind = "Literal"        -> [kind |-> "Literals", name |-> ""]
    [] segment.kind = "VarnameSegment" -> [kind |-> "VariableSingle",
                                           name |-> segment.name]
    [] OTHER                           -> [kind |-> "VariableRest",
                                           name |-> segment.name]

RouterInit ==
  /\ edges = [node \in {<<>>} |-> NoEdge]
  /\ table = <<>>
  /\ has_versioned_routes = FALSE

Registered == {table[i] : i \in DOMAIN table}

-----------------------------------------------------------------------------
(* insert()                                                                *)

\* Faulty variant: segments after a wildcard are accepted.
SegmentsAfterWildcardIgnored(path) == FALSE

\* A segment after a wildcard.
SegmentsAfterWildcard(path) ==
  \E i \in DOMAIN path : path[i].kind = "VarnameWildcard" /\ i < Len(path)

\* insert_var(): one name for two variables of a path.
DuplicateVariable(path) ==
  \E i, j \in DOMAIN path :
    i < j /\ IsVar(path[i]) /\ IsVar(path[j]) /\ path[i].name = path[j].name

\* A node that exists has edges of another kind, or another variable name,
\* than the path needs.
EdgeConflict(path) ==
  \E i \in DOMAIN path :
    LET node == NodeAt(path, i - 1)
    IN  /\ node \in DOMAIN edges
        /\ edges[node] \notin {NoEdge, EdgeFor(path[i])}

\* Faulty variant: only an identical range is a conflict.
VersionConflictIfEqual(e) ==
  \E h \in Registered :
    /\ Node(h.path) = Node(e.path)
    /\ h.method = e.method
    /\ h.versions = e.versions

\* Another handler of the same node and method has an overlapping range.
VersionConflict(e) ==
  \E h \in Registered :
    /\ Node(h.path) = Node(e.path)
    /\ h.method = e.method
    /\ OverlapsWith(h.versions, e.versions)

InsertPanics(e) ==
  \/ SegmentsAfterWildcard(e.path)
  \/ DuplicateVariable(e.path)
  \/ EdgeConflict(e.path)
  \/ VersionConflict(e)

\* Create the missing nodes and edges, then append the endpoint.
Insert(e) ==
  /\ edges' =
       [n \in DOMAIN edges \cup {NodeAt(e.path, i) : i \in 0 .. Len(e.path)} |->
          IF Len(n) < Len(e.path) /\ n = NodeAt(e.path, Len(n))
          THEN EdgeFor(e.path[Len(n) + 1])
          ELSE IF n \in DOMAIN edges THEN edges[n] ELSE NoEdge]
  /\ table' = Append(table, e)
  /\ has_versioned_routes' = (has_versioned_routes \/ e.versions # All)

-----------------------------------------------------------------------------
(* lookup_route()                                                          *)

\* input_path_to_segments(): empty segments are dropped, the others keep their
\* order; dot-segments and segments that do not decode are errors.
NonEmpty(raw) ==
  LET kept == {i \in DOMAIN raw : raw[i] # ""}
  IN  [k \in 1 .. Cardinality(kept) |->
         raw[CHOOSE i \in kept : Cardinality({j \in kept : j <= i}) = k]]

BadPath(raw) ==
  \E i \in DOMAIN raw :
    raw[i] # "" /\ (raw[i] \in {".", ".."} \/ Decode[raw[i]] = BadEncoding)

InputSegments(raw) ==
  [i \in DOMAIN NonEmpty(raw) |-> Decode[NonEmpty(raw)[i]]]

\* The first and the last of a set of positions.
First(S) == CHOOSE i \in S : \A j \in S : i <= j

Last(S) == CHOOSE i \in S : \A j \in S : j <= i

NoNode == <<"/">>

\* A wildcard has consumed the rest of the path.
AtWildcard(node) ==
  /\ node # <<>>
  /\ edges[SubSeq(node, 1, Len(node) - 1)].kind = "VariableRest"

Step(node, segment) ==
  CASE edges[node].kind = "None" -> NoNode
    [] edges[node].kind = "Literals" ->
         IF Append(node, segment) \in DOMAIN edges
         THEN Append(node, segment) ELSE NoNode
    [] OTHER -> Append(node, "{}")

\* The node that the segments lead to.
Walk(segments) ==
  LET at[i \in 0 .. Len(segments)] ==
        IF i = 0 THEN <<>>
        ELSE IF at[i - 1] = NoNode \/ AtWildcard(at[i - 1]) THEN at[i - 1]
        ELSE Step(at[i - 1], segments[i])
  IN  at[Len(segments)]

\* Faulty variant: a wildcard wants at least one segment.
DestinationNonEmptyRest(segments) == Walk(segments)

\* A wildcard edge also consumes the implicit, empty rest of the path.
Destination(segments) ==
  LET node == Walk(segments)
  IN  IF node # NoNode /\ edges[node].kind = "VariableRest"
      THEN Append(node, "{}") ELSE node

\* Faulty variant: a wildcard loses its first component.
VariablesOffByOne(node, segments) ==
  LET Edge(i) == edges[SubSeq(node, 1, i - 1)]
      bound   == {i \in DOMAIN node : Edge(i).kind # "Literals"}
      At(x)   == CHOOSE i \in bound : Edge(i).name = x
  IN  [x \in {Edge(i).name : i \in bound} |->
         IF Edge(At(x)).kind = "VariableSingle"
         THEN [kind |-> "String", value |-> <<segments[At(x)]>>]
         ELSE [kind |-> "Components",
               value |-> SubSeq(segments, At(x) + 1, Len(segments))]]

\* The variables bound on the way to a node; a later binding of a name
\* replaces an earlier one.
Variables(node, segments) ==
  LET Edge(i) == edges[SubSeq(node, 1, i - 1)]
      bound   == {i \in DOMAIN node : Edge(i).kind # "Literals"}
      At(x)   == Last({i \in bound : Edge(i).name = x})
  IN  [x \in {Edge(i).name : i \in bound} |->
         IF Edge(At(x)).kind = "VariableSingle"
         THEN [kind |-> "String", value |-> <<segments[At(x)]>>]
         ELSE [kind |-> "Components",
               value |-> SubSeq(segments, At(x), Len(segments))]]

\* Faulty variant: only the first handler of a node and method is considered.
HandlersFirstOnly(node, method, version) ==
  LET all == {i \in DOMAIN table : Node(table[i].path) = node /\ table[i].method = method}
  IN  {i \in all : i = First(all) /\ Matches(table[i].versions, version)}

\* The positions of the handlers of a node and method that exist in a version;
\* find_handler_matching_version() finds the first.
Handlers(node, method, version) ==
  {i \in DOMAIN table : /\ Node(table[i].path) = node
                        /\ table[i].method = method
                        /\ Matches(table[i].versions, version)}

MethodsAt(node) == {e.method : e \in {h \in Registered : Node(h.path) = node}}

\* Faulty variant: any handler at the node will do, whatever its versions.
OtherMethodMatchesAnyVersion(node, version) == MethodsAt(node) # {}

\* Some method of the node has a handler for the version.
OtherMethodMatches(node, version) ==
  \E m \in MethodsAt(node) : Handlers(node, m, version) # {}

LookupError(status, allow) ==
  [status |-> status, endpoint |-> NoEndpoint, variables |-> <<>>,
   allow |-> allow]

LookupRoute(method, raw, version) ==
  LET segments == InputSegments(raw)
      node     == Destination(segments)
      found    == Handlers(node, method, version)
  IN  IF BadPath(raw) THEN LookupError(400, {})
      ELSE IF node = NoNode THEN LookupError(404, {})
      ELSE IF found # {}
           THEN [status |-> 200, endpoint |-> table[First(found)],
                 variables |-> Variables(node, segments), allow |-> {}]
      ELSE IF OtherMethodMatches(node, version)
           THEN LookupError(405, MethodsAt(node))
      ELSE LookupError(404, {})

-----------------------------------------------------------------------------
\* Faulty variant: the document is generated from all versions.
OpenApiOperationUnversioned(node, method, version) ==
  LET found == {i \in Handlers(node, method, NoVersion) : table[i].visible}
  IN  IF found = {} THEN NoEndpoint ELSE table[Last(found)]

\* The operation gen_openapi() leaves in the document of one version for a
\* path and method: the iterator yields every handler of the node that matches
\* the version, hidden ones are skipped, and a later operation replaces an
\* earlier one.
OpenApiOperation(node, method, version) ==
  LET found == {i \in Handlers(node, method, version) : table[i].visible}
  IN  IF found = {} THEN NoEndpoint ELSE table[Last(found)]

=============================================================================
