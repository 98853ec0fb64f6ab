------------------------------ MODULE Routing -------------------------------
(***************************************************************************)
(* From ApiDescription::register() to the handler of a request: endpoints  *)
(* are validated and inserted into the router, a server is built from the  *)
(* router and a version policy, and each request is resolved to a version  *)
(* and then to an endpoint (dropshot/src/api_description.rs, router.rs,    *)
(* versioning.rs, and server.rs new_internal() and http_request_handle()). *)
(*                                                                         *)
(* An endpoint is a record [path, method, versions, parameters, tags,      *)
(* visible]; a parameter is a record [in, name, type], where type is       *)
(* "scalar", "strings" (an array of strings) or "other".                   *)
(***************************************************************************)
EXTENDS Router, Versioning

CONSTANTS
  ApiVersions,  \* the versions that endpoints name in their ranges
  Endpoints,    \* the endpoints a program may register
  TagConfig,    \* ApiDescription::tag_config
  Policies,     \* the version policies a program may start a server with
  Methods,      \* request methods
  RawPaths,     \* request paths, split at "/" and not yet decoded
  Headers,      \* values of the version header, Garbage and NoVersion included
  NoPolicy,     \* the server is not built yet
  NoRequest     \* no request is being dispatched

VARIABLES
  phase,    \* how far the program got
  policy,   \* VersionPolicy of the running server
  request   \* the request being dispatched, and its outcome

vars == <<edges, table, has_versioned_routes, phase, policy, request>>

\* The versions that requests can ask for.
RequestedVersions ==
  (Headers \ {Garbage, NoVersion})
    \cup ({p.on_missing : p \in Policies \ {Unversioned}} \ {NoVersion})

\* Paths are split at "/", and what is in braces is a variable, not a literal.
IsPath(path) ==
  /\ path \in Seq({path[i] : i \in DOMAIN path})
  /\ \A i \in DOMAIN path :
       \/ path[i].kind \in {"VarnameSegment", "VarnameWildcard"}
       \/ path[i].kind = "Literal" /\ path[i].name \notin {"/", "{}"}

ASSUME RoutingAssumption ==
  /\ ApiVersions \subseteq Int
  /\ \A e \in Endpoints : /\ e.versions \in Ranges(ApiVersions)
                          /\ IsPath(e.path)
                          /\ e.method \in Methods
  /\ \A raw \in RawPaths : raw \in Seq({raw[i] : i \in DOMAIN raw})
  /\ RequestedVersions \subseteq Int
  /\ NoPolicy # Unversioned /\ NoEndpoint \notin Endpoints

Init ==
  /\ RouterInit
  /\ phase = "registering"
  /\ policy = NoPolicy
  /\ request = NoRequest

-----------------------------------------------------------------------------
(* register()                                                              *)

\* validate_tags()
BadTags(e) ==
  /\ e.visible
  /\ \/ TagConfig.policy = "AtLeastOne" /\ Len(e.tags) = 0
     \/ TagConfig.policy = "ExactlyOne" /\ Len(e.tags) # 1
     \/ /\ ~ TagConfig.allow_other_tags
        /\ \E i \in DOMAIN e.tags : e.tags[i] \notin TagConfig.tags

PathParameters(e) == {p \in e.parameters : p.in = "path"}

\* validate_path_parameters(): the path's variables and the handler's path
\* parameters must be the same.
BadPathParameters(e) == VarNames(e.path) # {p.name : p \in PathParameters(e)}

\* The type that a parameter must have for the segment that gives its value;
\* among segments of one name the last counts.
RequiredType(path, x) ==
  LET i == CHOOSE i \in DOMAIN path :
             /\ IsVar(path[i]) /\ path[i].name = x
             /\ \A j \in DOMAIN path :
                  IsVar(path[j]) /\ path[j].name = x => j <= i
  IN  IF path[i].kind = "VarnameWildcard" THEN "strings" ELSE "scalar"

\* Faulty variant: types of parameters go unchecked.
BadNamedParametersUntyped(e) ==
  \E p \in e.parameters : p.in = "query" /\ p.name \in VarNames(e.path)

\* validate_named_parameters()
BadNamedParameters(e) ==
  \E p \in e.parameters :
    \/ p.in = "path" /\ p.type # RequiredType(e.path, p.name)
    \/ p.in = "query" /\ (p.name \in VarNames(e.path) \/ p.type # "scalar")

Invalid(e) == BadTags(e) \/ BadPathParameters(e) \/ BadNamedParameters(e)

\* register() returns an error and leaves the router alone.
RegisterRefused(e) ==
  /\ phase = "registering"
  /\ Invalid(e)
  /\ UNCHANGED vars

\* insert() panics; the ApiDescription is lost with the unwinding program.
RegisterPanics(e) ==
  /\ phase = "registering"
  /\ ~ Invalid(e)
  /\ InsertPanics(e)
  /\ phase' = "panicked"
  /\ UNCHANGED <<routerVars, policy, request>>

Register(e) ==
  /\ phase = "registering"
  /\ ~ Invalid(e)
  /\ ~ InsertPanics(e)
  /\ Insert(e)
  /\ UNCHANGED <<phase, policy, request>>

-----------------------------------------------------------------------------
\* HttpServerStarter::new_internal(): a server without versions refuses an API
\* with versioned routes.
Start(p) ==
  /\ phase = "registering"
  /\ policy' = p
  /\ phase' = IF p = Unversioned /\ has_versioned_routes
              THEN "rejected" ELSE "serving"
  /\ UNCHANGED <<routerVars, request>>

\* http_request_handle(): determine the version, then look up the route.
Dispatch(method, raw, header) ==
  /\ phase = "serving"
  /\ request = NoRequest
  /\ LET v == RequestVersion(policy, header)
     IN  request' = [method |-> method, raw |-> raw, header |-> header,
                     version |-> v.version,
                     response |-> IF v.ok
                                  THEN LookupRoute(method, raw, v.version)
                                  ELSE LookupError(400, {})]
  /\ UNCHANGED <<routerVars, phase, policy>>

\* The response is sent; lookups leave no trace in the router.
Respond ==
  /\ request # NoRequest
  /\ request' = NoRequest
  /\ UNCHANGED <<routerVars, phase, policy>>

Next ==
  \/ \E e \in Endpoints : RegisterRefused(e) \/ RegisterPanics(e) \/ Register(e)
  \/ \E p \in Policies : Start(p)
  \/ \E m \in Methods, raw \in RawPaths, h \in Headers : Dispatch(m, raw, h)
  \/ Respond

Spec == Init /\ [][Next]_vars

-----------------------------------------------------------------------------
(* A reference for lookups that knows nothing of the trie: which endpoints *)
(* a documented reading of their paths selects.                            *)

HasWildcard(path) ==
  path # <<>> /\ path[Len(path)].kind = "VarnameWildcard"

\* The segments of a path other than its wildcard.
Fixed(path) == IF HasWildcard(path) THEN Len(path) - 1 ELSE Len(path)

PathMatches(path, segments) ==
  /\ IF HasWildcard(path) THEN Len(segments) >= Fixed(path)
                          ELSE Len(segments) = Fixed(path)
  /\ \A i \in 1 .. Fixed(path) :
       IsVar(path[i]) \/ path[i].name = segments[i]

\* What a path's variables are bound to.
Binding(path, segments) ==
  [x \in VarNames(path) |->
     LET i == CHOOSE i \in DOMAIN path : IsVar(path[i]) /\ path[i].name = x
     IN  IF path[i].kind = "VarnameWildcard"
         THEN [kind |-> "Components",
               value |-> SubSeq(segments, i, Len(segments))]
         ELSE [kind |-> "String", value |-> <<segments[i]>>]]

\* A route whose path ends where a wildcard of another route begins.
Shadowed(path) ==
  \E e \in Registered :
    HasWildcard(e.path) /\ NodeAt(e.path, Len(e.path) - 1) = Node(path)

Eligible(method, raw, version) ==
  {e \in Registered : /\ e.method = method
                      /\ PathMatches(e.path, InputSegments(raw))
                      /\ Matches(e.versions, version)}

\* The version that a request is about, read off the header and the policy.
Asked == IF policy = Unversioned THEN NoVersion
         ELSE IF request.header = NoVersion THEN policy.on_missing
         ELSE request.header

-----------------------------------------------------------------------------
(* Properties.                                                             *)

\* Only offered endpoints are in the router, and a request is answered with
\* one of the statuses that routing knows (router.rs 438-561).
TypeOK ==
  /\ phase \in {"registering", "panicked", "rejected", "serving"}
  /\ Registered \subseteq Endpoints
  /\ \A node \in DOMAIN edges :
       edges[node].kind \in {"None", "Literals", "VariableSingle", "VariableRest"}
  /\ has_versioned_routes \in BOOLEAN
  /\ policy \in Policies \cup {NoPolicy}
  /\ request # NoRequest => request.response.status \in {200, 400, 404, 405}

\* A request never reaches the wrong handler: the endpoint found has the
\* request's method, its path matches the decoded request path, it exists in
\* the version the client asked for, and its variables have the values the
\* path gives them (router.rs 438-520).
RoutedRight ==
  request # NoRequest /\ request.response.status = 200 =>
    LET e == request.response.endpoint
    IN  /\ e \in Eligible(request.method, request.raw, Asked)
        /\ request.response.variables
             = Binding(e.path, InputSegments(request.raw))

\* A request is turned away only if no handler is there for it: apart from
\* routes that a wildcard shadows, a 404 or a 405 means that nothing the
\* program registered matches method, path and version (router.rs 450-561).
RouteFound ==
  request # NoRequest /\ request.response.status \in {404, 405} =>
    \A e \in Eligible(request.method, request.raw, request.version) :
      Shadowed(e.path)

\* A 405 names every method that would be accepted for the same path and
\* version, and there is one (router.rs 527-551).
AllowComplete ==
  request # NoRequest /\ request.response.status = 405 =>
    LET accepted == {m \in Methods :
                       LookupRoute(m, request.raw, request.version).status = 200}
    IN  accepted # {} /\ accepted \subseteq request.response.allow

\* Whatever the order of registration, two handlers of one path and method
\* never compete for a version, except "from v on" with "exactly v"; and they
\* never share a server that ignores versions (router.rs 386-412, server.rs
\* 214-219, versioning.rs 45-50).
RoutesUnambiguous ==
  \A i, j \in DOMAIN table :
    /\ i # j
    /\ Node(table[i].path) = Node(table[j].path)
    /\ table[i].method = table[j].method
    => /\ policy = Unversioned => phase = "rejected"
       /\ \A v \in RequestedVersions :
            Contains(table[i].versions, v) /\ Contains(table[j].versions, v)
              => OneVersionClash(table[i].versions, table[j].versions)

\* The handler gets the path parameters it was declared with: what register()
\* validated is what lookup_route() binds, so no request fails to deserialize
\* for want of a variable or for its shape (api_description.rs 507-649, and
\* the assertion at http_util.rs 92).
VariablesFitTheHandler ==
  request # NoRequest /\ request.response.status = 200 =>
    LET e         == request.response.endpoint
        variables == request.response.variables
    IN  /\ DOMAIN variables = {p.name : p \in PathParameters(e)}
        /\ \A p \in PathParameters(e) :
             variables[p.name].kind
               = IF p.type = "strings" THEN "Components" ELSE "String"

\* The assertions of lookup_route() hold: the node behind a wildcard edge has
\* no edges of its own, so that a request cannot panic (router.rs 481, 499).
WildcardIsTerminal ==
  \A node \in DOMAIN edges :
    edges[node].kind = "VariableRest" =>
      /\ Append(node, "{}") \in DOMAIN edges
      /\ edges[Append(node, "{}")] = NoEdge

\* The router is well formed, so that no request makes it panic (router.rs
\* 438-561).
RouterSound == TypeOK /\ WildcardIsTerminal

\* The OpenAPI document of a version describes the endpoint that requests of
\* that version reach, except for the one kind of clash that registration
\* lets through (router.rs 622-735, api_description.rs 747-769, 1117).
OpenApiAgrees ==
  /\ request # NoRequest
  /\ request.response.status = 200
  /\ request.version # NoVersion
  /\ request.response.endpoint.visible
  => LET e == request.response.endpoint
         d == OpenApiOperation(Node(e.path), e.method, request.version)
     IN  d = e \/ (d # NoEndpoint /\ OneVersionClash(d.versions, e.versions))

-----------------------------------------------------------------------------
(* What the documentation says and the code does not do.                   *)

\* "This is used to disallow registering multiple API endpoints where, if
\* given a particular version, it would be ambiguous which endpoint to use."
\* (api_description.rs 1311-1312)
NeverAmbiguous ==
  \A i, j \in DOMAIN table :
    /\ i # j
    /\ Node(table[i].path) = Node(table[j].path)
    /\ table[i].method = table[j].method
    => \A v \in RequestedVersions :
         ~ (Contains(table[i].versions, v) /\ Contains(table[j].versions, v))

=============================================================================
