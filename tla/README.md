# Dropshot in TLA+

A specification of Dropshot: the life of a server with its connections, requests
and handlers (`src/dropshot/src`), the path of a request through version, route,
extractors, handler and response, pagination, TLS with certificate refresh,
websockets, the generation of OpenAPI documents, and the attribute macros
(`src/dropshot_endpoint/src`). TLC checks the modules on small instances; TLAPS
proves the most important properties for every value of the constants.

Paths such as `server.rs` are relative to `src/dropshot/src/`, and those of the
macros to `src/dropshot_endpoint/src/`.

## The system

| Part | State it keeps | Operations | What makes it correct |
|---|---|---|---|
| Server lifecycle (`server.rs`) | `HttpServer` (app_state, close channel, shared `join_future`), accept task, graceful-shutdown watcher, handler waitgroup | `start`, `close`, `Drop`, `wait_for_shutdown`, accept loops for HTTP and HTTPS | shutdown ends unless something it waits for stalls; when it is reported as successful nothing that owns a part of the server runs any more or can start |
| Request dispatch (`server.rs`) | request future, scope guard, result channel and detached task | `http_request_handle_wrap`, `http_request_handle` in both `HandlerTaskMode`s | a detached handler completes, an inline one ends with its client; one completion record per request; only panics break the channel |
| Router (`router.rs`) | trie of path segments, handlers per node and method | `insert`, `lookup_route`, iteration | the right handler with the right variables, or none; no request can panic the router |
| Registration (`api_description.rs`) | the router, the tag configuration | `register` with its validations, `overlaps_with` | no ambiguity by path, method and version; what was validated is what requests deliver |
| Version policy (`versioning.rs`) | configured limits | `request_version`, `request_extract_version` | a request is served in the version it asks for or not at all |
| Websocket channels (`websocket.rs`) | the pending upgrade and the spawned task | `from_request`, `handle`, `Drop` | the connection is switched only if asked; the channel runs only after that; no task is stranded |
| TLS (`server.rs`) | TCP listener, negotiations in progress, the shared acceptor | `HttpsAcceptor::new_stream`, `refresh_tls`, loading a `ConfigTls` | later connections get the new certificate or, if loading fails, exactly the old one; a stalled negotiation hurts nobody else |
| Pagination (`pagination.rs`, `handler.rs`) | nothing on the server; the token carries the position | `ResultsPage::new`, `WhichPage` deserialization, `page_limit` | following tokens reaches every item that stays, once, and ends |
| Extractors (`extractor/`) | bytes read so far, the cap | `Path`, `Query`, `Header`, `StreamingBody`, `UntypedBody`, `TypedBody`, `MultipartBody`, `RawRequest` | never more than the cap is delivered, whatever the chunking; the handler runs only with arguments that are all right |
| Responses, errors (`handler.rs`, `error.rs`, `error_status_code.rs`) | none | conversion of results and errors to HTTP responses | the status is the true one, internal messages stay inside, headers and request id arrive |
| Compression (`compression.rs`) | none | `should_compress_response`, `apply_gzip_compression` | nobody gets an encoding it does not accept, through a shared cache too |
| OpenAPI (`api_description.rs`, `schema_util.rs`, `type_util.rs`) | schema generator, definitions, tags, error responses | `gen_openapi`, `schema2struct`, `j2oas_schema`, `type_is_scalar` | references resolve, to the right type; a schema means the same after conversion |
| Endpoint macros (`endpoint.rs`, `channel.rs`, `api_trait.rs`, `metadata.rs`, `params.rs`) | errors reported so far, items parsed so far | `#[endpoint]`, `#[channel]`, `#[api_description]` | no error: a working endpoint; an error: blamed on the item that has it, the rest generated; no panic but for a name that is no identifier |
| Macro errors (`error_store.rs`) | the tree of sinks | `sink`, `new`, `push`, `has_errors`, `into_inner` | `has_errors` tells of the sink and its descendants, and of nothing else |
| Logging, configuration, test utilities | - | I/O | not modelled |

How they interact. The macros turn functions and traits into calls of
`register`; a program registers endpoints in an `ApiDescription`, which inserts
them in the router; the builder moves the router into `DropshotState` together
with the version policy. `start()` spawns the accept task, which hands every
connection to Hyper; Hyper calls `ServerRequestHandler` for each request, whose
future resolves a version and a route, extracts the arguments and runs the
handler, inline or in a task of its own; its result becomes a response, which may
be compressed. Whoever holds an `Arc<DropshotState>` or a clone of its waitgroup
`Worker` keeps `join_future` from completing; a websocket task is among them only if
the closure given to `WebsocketUpgrade::handle` captured the `RequestContext`.

What is hard: the owner, the accept task, connections, requests, detached
handlers and websocket tasks move independently; futures are dropped at any
await, panics cross tasks, the accept task may be lost; shutdown is decided by
reference counts spread over all of them. Certificates are replaced, file by file,
while connections negotiate. Bodies arrive in frames of any size and break off.
A collection changes while it is scanned. On the routing, OpenAPI and macro side
the result depends on sequences of registrations, types or items that nobody
enumerates by hand. `PROJECT.json` lists the hazards line by line, with the
properties that would catch them.

## Modules

| Module | Models |
|---|---|
| `ServerLifecycle` | what an `HttpServer` promises its owner: the code of each request runs at most once; after a successful shutdown none runs or will start, but what a handler gave to a websocket task without a hold on the server may go on |
| `Server` | `server.rs` from `start()` to shutdown, with the websocket task of `websocket.rs`; refines `ServerLifecycle` |
| `Versions`, `Versioning` | `ApiEndpointVersions` (construction, `matches`, `overlaps_with`); `VersionPolicy` and `ClientSpecifiesVersionInHeader` |
| `Router` | `HttpRouter`: the trie, `insert`, `lookup_route`, iteration for OpenAPI |
| `Routing` | composes `Router`, `Versions` and `Versioning`: `register`, the build of a server, the dispatch of requests |
| `Pagination` | `pagination.rs`, and the handlers of the pagination examples as the endpoint |
| `Extraction` | `extractor/` and `http_dump_body`: one request, while its body is still arriving |
| `Websocket` | `websocket.rs`, and the channel of the websocket examples |
| `Compression`, `Responses` | `compression.rs`; from a handler's result to the client, by a shared cache |
| `Request` | `Extraction`, `Websocket` and `Responses` side by side: the three stages of a request |
| `Tls` | loading certificates, `refresh_tls`, the accept loop of `HttpsAcceptor` |
| `OpenApi` | `gen_openapi`: generator, definitions, tags, error responses |
| `JsonSchemas` | `type_util.rs` and `schema_util.rs`: checks, members, conversion |
| `Handlers`, `Macros` | judging one handler's metadata and signature; the three macros |
| `ErrorStore` | `error_store.rs` |
| `ServerProofs`, `PaginationProofs`, `TlsProofs`, `OpenApiProofs`, `ErrorStoreProofs` | theorems about the modules of these names |
| `RoutingProofs` | theorems about `Versions`, `Router` and `Routing` |
| `RequestProofs` | theorems about `Extraction`, `Websocket` and `Responses` |
| `MacrosProofs` | theorems about `Handlers` and `Macros` |
| `MC...` | instances for TLC |

Operators marked "Faulty variant" are plausible bugs of the definition that
follows them. No specification uses them; each shows that some property would
notice that bug.

### Server

State and code:

| Variable | Code |
|---|---|
| `owner` | the `HttpServer` value and how far `close()` got: signal sent, `app_state` dropped, awaiting, returned |
| `waiter` | a `ShutdownWaitFuture` |
| `close_channel` | the oneshot between `CloseHandle` and the accept task |
| `accept_task` | the task of `start()`: accept loop, `graceful.shutdown()`, ended, or lost with the executor |
| `join_future` | the shared future: awaiting the task, awaiting the waitgroup, `Ok`, `Err` |
| `conn` | each connection: in the listener's backlog, negotiating TLS, served by Hyper, draining, upgraded, closed |
| `req`, `reqConn` | each `http_request_handle_wrap` future |
| `handler`, `channel`, `worker` | `handle_request()`, first its extractors, which await the client's body, then the handler function; the result oneshot; the tasks that hold a `Worker` clone |
| `websocket`, `captured` | the task spawned by `WebsocketUpgrade::handle`; the tasks whose closure owns a `RequestContext` |
| `unsent` | the responses that Hyper has not written to the end, since the client has not read them |
| `records`, `gone` | history: `request__done` records; requests whose client went away |

There is no counter for the waitgroup: `WaitgroupEmpty` is derived from who is
alive, as reference counting derives it. An action is the code a task runs
between two awaits, or less where another thread can observe the middle:
`close()` sends its signal and then drops `app_state`, and a detached task sends
its result and then drops its `Worker`. `HandleUpgrade` is a step of a running
handler, which may still fail, panic or be cancelled after it. The spawned task owns
the user's closure, the upgrade future and a logger (`websocket.rs` 268): the adapter
of `#[channel]` moves the `RequestContext` into the closure (`channel.rs` 484), the
documented use of `handle()` does not, so `captured` is chosen freely.

Hyper, `hyper_util`'s graceful watcher and TCP are outside the repository. They
are modelled from how `server.rs` relies on them: an HTTP/1.1 connection future
owns its one request future, so a disconnect drops it and a panic takes the
connection along; HTTP/2 streams are tasks of their own; a draining connection
takes no new request and ends when the current ones have and their responses are
written; an upgraded connection leaves the watcher. Those definitions are marked external in `PROJECT.json`.

### Routing

A route path is the sequence of its parsed segments, a request path the sequence
of its raw segments; percent-decoding is a constant function that may fail. A
trie node is named by the labels on the way to it, every variable edge having the
same label, so that `edges` and the ordered `table` of endpoints together are the
trie. Versions are integers, since only the order of `semver::Version` is used.
`Register`, `RegisterRefused` and `RegisterPanics` are the three outcomes of
`register()`. A panic loses the `ApiDescription`; the partly built trie is not
kept. `Start` is the check of `new_internal()`. `Dispatch` is the first part of
`http_request_handle()`; lookups do not change the router, so requests are taken
one at a time.

`PathMatches` and `Binding` are the reference: what a path matches, read off the
path alone, without a trie. The walk of `lookup_route` along the segments is a
recursive function of the position; the handlers of a node are positions of
`table`, in the order of registration, so that "the first handler that matches" is
the least of them.

### Pagination

`projects` is the collection, `request`, `response` and `pc` one client's scan;
`seen` and `stable` are history: what was returned, and which projects of the
start have kept their key. The server has no variable at all: the position is in
the token. `example_list_projects` is one request: the limit, the token or the
first-page parameters, the page, the next token. `Insert`, `Delete` and `Touch`
are another client's. A token is known by its length, by whether it decodes, by
its version and by its selector; serialization fails when the text is too long,
and so does the acceptance of one that is. A client may also begin with a stray
token, one that no page gave it: unreadable, or readable, and then the scan goes on
from wherever the token says, in the order it names.

### Extraction

The peer puts frames on `wire` until it ends or breaks off; the task runs the
shared extractors in argument order, then the exclusive one, which reads
(`bytes_read`, `delivered`), drains what is left of an oversized body, or decodes.
The body cap, its override per endpoint, content types and payloads decide as in
the code; what serde makes of a parameter is "right" or "wrong".

### Websocket

`inner` is the `Option` in `WebsocketUpgrade`, `answer` and `sent` the response as
decided and as sent, `upgrade_fut` Hyper's future, `task` the spawned task. The
handler may call `handle()`, call it and fail, or drop the upgrade. The client may
leave at any time. `count` is the example's byte counter, of width 8.

### Responses and Compression

A handler's result is one of the response types with its headers, or an error
made by one of the constructors of `HttpError`, or a custom error with a status
from user code; serialization may fail. `Respond` is the end of
`http_request_handle` and of its wrapper. The cache stands between two clients and
the server and keys what it keeps by `Vary`, as caches do. Of a body, `coding` is
the sequence of encodings applied to it, so that compressing a body the handler
compressed already would show.

### Tls

`load` is each load of a configuration (the starter's, and those of concurrent
`refresh_tls` calls): open the certificate file, open the key file, check, take
the lock, replace. An operator replaces the files one at a time, in between too.
`stream` is what the accept loop awaits: the lock, a socket, or one of many
handshakes. `conn` remembers which acceptor a connection was given.

### OpenApi and JsonSchemas

`gen_openapi` step by step: tags, endpoints, schemas, responses. A type is its id,
its schema's name and the types it refers to, directly or not. `Numbered` is
`format!("{name}{num}")`, a constant of which only as much is assumed as is so of
decimal numbers: different numbers make different names. In the runs names are
letters and digits. References remember the type they were meant for, so
that a name that leads to another type is noticed, and whether they came from the
common generator or from a pre-generated schema (`kind`). `JsonSchemas` has schemas as
records; `type_resolve`, `type_is_scalar_common` and `schema2struct_impl` are taken
step by step, as their loops, their recursion and their sets of references matter;
numbers are counted in halves, so that a cast to `i64` shows. `Accepts` says which JSON values
a schema admits; it is the reference for the conversion.

### Macros and ErrorStore

A job is one macro on one item. Types are known by name, outermost form, type
argument and the nodes the visitors look for; validators return a value and the
errors they push. The passes over a trait (its own rules, the context, item by
item, then the three generators) are actions. The output says what was generated,
from which lists, so that real API, stub and wrappers can be compared. `Filter` is
`Iterator::filter`, by a recursive function of the position, which the proofs can
follow. `MacrosAssumption` says what the parser of Rust makes of any input (types
have nodes, items their parts) and that the functions of a trait have identifiers of
their own, without which rustc rejects the trait and an error could not be laid at
one door. A name given as a string (module, context) is known by whether it is an
identifier, a method by whether its name is written `r#name`: where `format_ident!`
makes an identifier of one that it cannot, the macro panics (`ContextPanics`,
`OutputPanics`). The end of a version range is a literal or a named constant. In `ErrorStore` the loop of `push` is taken turn by turn.

## What TLC checks

| Run | Instance | Shows |
|---|---|---|
| `server_detached` | Detached, plain TCP, `c1` HTTP/1.1, `c2` HTTP/2, two requests; 1,229,106 states | `ShutdownComplete`; `RecordedOnce`; `PanicIsTheOnlyLoss`; `QuietAfterShutdown`; `DetachedRunsToCompletion`; `LifecycleRefined` |
| `server_cancel` | CancelOnDisconnect, TLS, same sizes; 243,946 states | `CancelledWithClient`; `ShutdownTerminates`, under fairness and if nobody stalls |
| `server_live_detached` | Detached, plain TCP, two connections, one request; 31,850 states | `ShutdownTerminates`, `BacklogResolved`, `RequestsEnd`, under fairness and if nobody stalls |
| `routing` | 15 endpoints whose paths meet in every way, or 8 version ranges of one path; 9 request paths, 2 methods, 3 policies, 6 header values; 271,797 states | `RouterSound`, `RoutedRight`, `RouteFound`, `VariablesFitTheHandler`, `AllowComplete`, `RoutesUnambiguous`, `OpenApiAgrees` |
| `pagination` | 3 projects, 6 sort modes, 2 changes, 4 limits, 5 stray tokens; 158,970 states | `ScanComplete`, `TokensSound`; `ScanProgress` |
| `request` | bodies of up to 4 frames against caps of 2 and 3; 1,352 upgrade requests; 2 clients of a cache; 583,364 states | `BodyCapped`, `ArgumentsChecked`, `UpgradeSound`, `CompressionSound`, `AnswersTruthful`; `AnsweredOnceSent`, `TaskDoesNotHang` |
| `tls_refresh` | 2 refreshes, 2 key pairs, files replaced twice, 1.55 million states | `CertificatesSound`, `RefreshAllOrNothing` |
| `tls_accept` | 2 connections, 1 refresh; 24,000 states | `OthersServed` |
| `macros` | functions of up to 3 arguments, traits of up to 3 items, trees of 5 sinks; 1,079,703 states | `ExpansionWorks`, `ErrorsExact`, `StubAgrees`, `SinksExact` |
| `document` | 2,770 schemas on 63 values, APIs of up to 4 endpoints of 8 kinds; 69,005 states | `ParametersSound`, `ConversionSound`, `DocumentWhole`; `SchemasEnd` |

Two more runs end in a counterexample, each where the code says of itself what it
does not do (see Findings).

Several properties are conjunctions of named parts, each stated and commented in
its module:

* `ShutdownComplete`: `TypeOK`, and `NothingLeft` once `join_future` is `Ok`.
* `RouterSound`: `TypeOK`, `WildcardIsTerminal`.
* `ScanComplete`: `TypeOK`, `StableSeenOnce`, `NoRepeats`. `TokensSound`:
  `TokensUsable`, `PageBounded`. `ScanProgress`: `TokensAdvance`, `ScanEnds`.
* `BodyCapped`: `TypeOK`, `NeverOverCap`, `SizeVerdictExact`. `ArgumentsChecked`:
  `FirstBadArgumentWins`, `TypedAsDeclared`.
* `UpgradeSound`: `TypeOK`, `SwitchOnlyIfAsked`, `ChannelOnlyAfterSwitch`,
  `HandledOrReported`, `BytesConsecutive`.
* `CompressionSound`: `GzipOnlyIfAccepted`, `EncodingHonest`. `AnswersTruthful`:
  `TypeOK`, `StatusTruthful`, `InternalStaysInside`, `ErrorHeadersArrive`,
  `RequestIdReported`.
* `CertificatesSound`: `TypeOK`, `FreshCertificate`, `NeverAMixedPair`.
  `RefreshAllOrNothing`: `FailedLoadsLeaveNoTrace`, `RefreshTakesEffect`.
* `ExpansionWorks`: `TypeOK`, `NoPanic`, `CleanMeansWorking`, `WrappersComplete`.
  `ErrorsExact`: `BlameExact`, `UsageExact`, `NothingLost`. `NoPanic` has the names
  that `format_ident!` panics on as its exception, `CleanMeansWorking` the version
  ranges with an end that is a named constant, whose value no macro can see.
* `SinksExact`: `TypeOK`, `HasErrorsExact`.
* `ParametersSound`: `TypeOK`, `ScalarSound`, `PanicOnlyOnCycle`, `RequiredSound`,
  `MembersDescribe`. `ConversionSound`: `MeaningKept`, `NeverStricter`, which
  excepts what is lost under a `oneOf` or a `not` and integers with a `multiple_of`
  or an exclusive bound that is not whole. `SchemasEnd` excepts the circles on which
  the code calls itself for ever (`CallsItself`).
* `DocumentWhole`: `TypeOK`, `RefsResolve`, `GeneratedRefsExact`, `TagsListed`. Every
  reference resolves; that it leads to its own type is said of those that come from
  the common generator only, not of those of a pre-generated (`Static`) schema, such
  as a parameter's.

In `request`, `macros` and `document` components that share no state stand side by
side. The variable `part` says which of them a behaviour is about; the others stay
as they began. This is a disjoint sum, not an interleaving: extraction, upgrade and
response of one request follow each other and pass on nothing that the models tell
apart. `routing` likewise has two suites of endpoints, which a state constraint
keeps from being mixed.

Deadlock is checked in the server runs: a state in which nothing can happen is
one where the server has stopped and every task that owns a part of it has ended
(`Terminated`). In the
others it is not: a scan, a request, a macro or a document ends, and a program
stops after a panic or a refused build.

Bounds. Two connections are enough for one to drain while another is accepted or
upgraded, and one of each protocol covers both ownership rules. Two requests
share a connection in turn (HTTP/1.1) or at once (HTTP/2), or use different
ones. Each connection and request occurs at most once; connections do not know
each other, so more of them add no new kind of interaction, and the proofs cover
any number of both. In `routing` an endpoint is registered in any order, again
even (which panics); paths have up to three segments, enough for a wildcard below
a variable below a literal; versions 0 to 3 lie below, on and above every bound.
In `pagination` three projects make a scan of three pages and two changes can hit
before and after the position; one token is too long, the limits lie below, on and
above the maximum. Four frames of one or two bytes cross both caps at every frame
boundary and beyond; other requests, whose subject is the order of checks, have one
frame. The counter starts at 0 and 254, and wraps. Two refreshes overlap and finish
in either order, and two replacements put files of different pairs together. Three
arguments are a context, a shared and an exclusive extractor; three items are the
context and two others, in any order. Schemas are one level deep below the members
of a structure, with references, cycles of two definitions and circles through a
lone `allOf` and through a structure; the values include one inside and outside each
constraint, and a `multiple_of` that is not whole.

Fairness. The runtime polls every task that is ready, so steps of the accept
task, of Hyper's connections and of requests and detached tasks are weakly fair,
and so is `join_future` while somebody polls it. No fairness is assumed of clients,
of handlers or of websocket closures. Extractors run inside `handle_request()` and
await the client's body, and the server has no timeouts (`server.rs` 335, 914), so an
extractor is sure to go on only once its client is gone. What the server waits for and
cannot hurry is therefore a premise of the properties: `Stalls(r)` is a body whose
client is there and has not sent the rest, a handler function that runs, a response
that its client has not read, or a websocket closure that owns a `RequestContext` and
runs. `ShutdownTerminates` and `BacklogResolved` speak of the behaviours in which none
of these lasts for ever (`NobodyStalls`), and `RequestsEnd` of requests of which that
is so, whatever others do. Everything else may go on for ever: idle clients, clients in
the backlog or in a TLS negotiation, and websocket tasks that own nothing of the
server; nobody has to close the server, and the accept task may be lost or not.
In `Extraction` the server's task is fair and the peer is not:
`AnsweredOnceSent` speaks of peers that do end their body. In `Websocket` the
handler returns, Hyper answers, and an upgrade that is resolved is seen. In
`Pagination` the server answers and `ScanEnds` speaks of a client that goes on; the
collection may change, `MaxChanges` times. In `Tls` the `select!` of the accept loop
polls its branches in random order, so that no ready branch is passed over for
ever: accepting and the end of each handshake are strongly fair, since a step of
another connection disables them for a while; peers that send nothing are not
assumed to do anything. A schema check goes on while it can.

## Findings

* `routing_ambiguous`: `From(v)` and `FromUntil(v, v)` both contain `v` and are
  accepted for the same path and method (`api_description.rs` 1349, 1356). The
  first registered endpoint answers requests; the OpenAPI document describes the
  last. `OverlapsFindsClashes` proves that this is the only pair of ranges that
  slips through.
* `openapi_names`: three error types, named `Error` twice and `Error2`, make
  `gen_openapi` panic (`api_description.rs` 1143): the number it appends to a
  repeated name is not compared with the names that are taken.

The passing properties name such exceptions (`OneVersionClash`, `Shadowed`), so
that they show that nothing else goes wrong.

Also seen while modelling, and stated as exceptions in the properties they touch;
no run of their own:

* A request whose handler panics leaves the record of a client disconnect (499):
  the scope guard fires on unwinding as well as on cancellation (`server.rs` 811).
* A websocket closure that did not capture the `RequestContext` may run on after
  `close()` has returned `Ok` (`websocket.rs` 268); only that of a `#[channel]` is
  waited for.
* A client that stalls in the middle of its body, or does not read its response, holds
  up its request and graceful shutdown for as long as it likes (`server.rs` 911-915).
* `#[api_description]` panics instead of reporting an error on a `module` that is no
  identifier (`api_trait.rs` 264), on a missing context whose name is none (642), and
  on a marked method with a raw identifier (1390, 1553).
* A version range between named constants passes the macro whatever their order; the
  generated `unwrap()` (`metadata.rs` 289) then panics when the API is built.
* A 405 is decided for the requested version but lists the methods of all versions
  (`router.rs` 545); a route that ends where a wildcard begins can be registered
  but not reached (`router.rs` 495).
* Building a server with a certificate and a key that do not match panics
  (`server.rs` 603), as does `refresh_tls`.
* The body cap does not apply to `MultipartBody` and `RawRequest`, which hand the
  body on (`extractor/body.rs` 115).
* An error response that already has an `x-request-id` of its own goes out with
  two (`error.rs` 420).
* Of an API trait's functions, attributes inside the body's braces are not
  reprinted (`syn_parsing.rs` 283); a second associated type with the context's
  name is dropped.
* Extractors generate their schemas each on its own, so that two types of one name
  in different extractors share one definition (`api_description.rs` 796, 1132-1136).
* `Query<String>` is taken for a structure without members (`schema_util.rs` 74);
  variants of a flattened enum that share a field give it twice.
* An exclusive bound that is not whole excludes one integer more after conversion
  (`schema_util.rs` 726), and a `multiple_of` that is not whole is truncated (721):
  multiples of 2.5 become multiples of 2, and 5 is forbidden.
* `type_is_scalar_common` calls itself for ever on a circle that passes through a lone
  `allOf` or `anyOf` or a `oneOf`, since the set of references seen is made anew for
  each subschema (`type_util.rs` 62, 227), and `schema2struct_impl` on any circle.

## What is proved

For all connections, requests, protocols, both modes and both transports
(`ServerAssumption`):

* `TypeCorrect`: the type invariant, on which the others rest.
* `ShutdownIsComplete`. `ShutdownComplete` is not inductive: a state with
  `join_future = "ok"` in which the accept task were still accepting would let a
  connection in. `ShutdownInv` adds that the accept task has ended before
  `join_future` awaits the waitgroup and that no connection waits in a listener
  that is gone; then a waitgroup once empty stays empty. `DeliveryInv` says that a
  response is still to be written only on a connection that is served, since an
  HTTP/1.1 connection has one request at a time. The websocket tasks that own none
  are not waited for, and the theorem does not speak of them.
* `QuietAfterShutdownTheorem` follows from these and `RequestInv`: in such a state no
  action is enabled that touches anything but a websocket task without a
  `RequestContext` and its connection.
* `PanicIsTheOnlyLossTheorem`, `CancelledWithClientTheorem`: from `RequestInv`,
  which ties the states of request, handler, channel, worker and websocket task to
  each other in each mode.
* `DetachedRunsToCompletionTheorem`: an action property; the only step that
  cancels handlers does so in the other mode.
* `RecordedOnceTheorem`: by induction over the ways in which a request ends.
* `Refinement`: `Spec => LifecycleRefined`. Every step of the server is a step of
  `ServerLifecycle` or leaves its four variables alone: a step moves the code of at
  most one request (`OneMoves`), forward along not begun, active, free, ended. That
  nothing begins after "stopped" is where `ShutdownInv` is used; that a disconnect ends
  the code of one request only, where `DeliveryInv` is.

For all endpoints, policies and requests (`RoutingAssumption`, whose `IsPath` says what the
parser of route paths lets through):

* `RoutingInvariant`: `RouteInv`, `TrieOK` and `RequestOK` together are inductive.
  `RouteInv` says that handlers of one slot do not overlap, that
  `has_versioned_routes` has seen every versioned endpoint, and that an unversioned
  server runs only without them. `TrieOK` says that the trie is exactly that of the
  registered paths: every prefix of a path is a node, every edge is the one that the
  next segment calls for, and there is no other node or edge. `RequestOK` says that a
  request has the answer that the router still gives.
* `RoutesUnambiguousTheorem`, from `RouteInv`, and `RouterSoundTheorem`, from `TrieOK`.
* `RoutedRightTheorem`, `RouteFoundTheorem`, `VariablesFitTheorem`,
  `AllowCompleteTheorem`: what `lookup_route` answers agrees with the reference, for
  paths and tries of any size. `WalkSound` and `WalkComplete` go along the segments
  of a request: the walk takes no edge the segments do not call for, and misses no
  registered path but those a wildcard shadows. The library's induction rule cannot
  be instantiated by the provers, so induction is on the least counterexample, a
  natural number (`LeastNumber`, `UpTo`), and `WalkExists` shows that the recursive
  function of the walk exists.
* `OpenApiAgreesTheorem`: the endpoint that a document describes is the one that
  requests of its version reach, but for `OneVersionClash`.
* `OverlapsFindsClashes`, `OverlapsIsWitnessed`: `overlaps_with()` misses exactly
  one kind of clash and raises no false alarm, for all integer versions.

For any number of sinks and errors:

* `SinksAreExact` (`SinksExact`). `HasErrorsExact` holds only between pushes; the inductive invariant
  says what holds during one: the flags are exact but for `Pending`, the ancestors
  that the loop has still to reach (`LoopOK`), and the history variable `above`
  agrees with the parents (`AboveOK`), which is what makes a turn of the loop remove
  exactly one sink from `Pending`.

For all requests, handler results, headers, clients and messages of a channel
(`RequestAssumption`: what the headers and results of the code look like):

* `UpgradesAreSound` (`UpgradeSound`). Of a state in which a channel runs one has to
  know how it came about: `WebsocketInv` says that the `Option` in
  `WebsocketUpgrade` is there only for a request that passed the checks and has no
  answer (`OptionOK`), that a 101 is made only from it and carries the key of that
  request (`SwitchOK`), that Hyper's future resolves to `Ok` only with a 101 sent,
  and that nothing is received before (`FutureOK`).
* `CompressionIsSound`, `AnswersAreTruthful`. An answer is a function of what the
  handler returned, of the request and its id, so most of the proof is lemmas about
  those functions. A cache hands answers to clients other than the one that asked;
  `ResponsesInv` therefore says of every answer anybody holds, the cache included,
  that it was compressed only for a request that accepts it and then names
  `Accept-Encoding` in `Vary`.

For bodies of any length, cut into any frames, any cap and any list of arguments
(`ExtractionAssumption`):

* `BodiesAreCapped` (`BodyCapped`), `ArgumentsAreChecked` (`ArgumentsChecked`). A
  verdict on the size is right only if no byte is forgotten: `PhaseOK` says that the
  bytes taken and the bytes of the frames still on the wire add up to what the peer
  sent, and that a body being drained is already over its cap. A sum over a sequence
  would need induction, so `Cut` states it by the offsets at which frames begin.

For collections, limits and pages of any size, all sorts, and any token a client
makes up (`PagingAssumption`, `TokenAssumption`):

* `ScansAreComplete` (`ScanComplete`), `TokensAreSound` (`TokensSound`), and
  `TokensLeadForward`, the action property `TokensAdvance`. The server remembers
  nothing, so `PagingInv` ties what the client has seen to the token it sends: a
  project that kept its key was returned if and only if that key is not after the
  token's (`ScanOK`); a page holds nothing that was passed and everything up to its
  own token (`PageOK`). The order of the keys is linear because no two ids are equal.

For any number of connections, of concurrent refreshes, of key pairs and of
replaced files (`TlsAssumption`):

* `Certificates` (`CertificatesSound`), `RefreshIsAllOrNothing`
  (`RefreshAllOrNothing`). That a client gets a certificate no finished refresh has
  replaced depends on the order of loads. `TlsInv` says that only loads that have
  returned are older than others (`OlderHaveEnded`), that the acceptor in use was
  written by a load that none that wrote later is older than (`CurrentIsFresh`), and
  that certificate and key belong together from the check on (`PairsMatch`).

For any endpoints in any number, whatever their types, errors and tags are called
and refer to (`DocumentAssumption`: a program has finitely many types, the
dependencies of a type include theirs, different numbers make different names, and the
keys of a `TagConfig` are different):

* `DocumentIsWhole` (`DocumentWhole`). What holds of the finished document has to be
  prepared by every endpoint before it. `DocInv` says that the common generator has
  one name per type and one type per name, and that generator and definitions are
  each closed under references after every schema (`StOK`); that the references of
  the paths (`PathOK`) and of the error responses (`RespOK`) written so far are among
  them; that all tags were gathered before the first path (`TagsOK`); and what of it
  is in the components already (`ComponentsOK`). The generator only grows, so a
  reference that was right stays right; the definitions of extractors may replace
  each other, which is why only their names, and not their types, can be kept. That
  a free number exists for a name (`Reserve`) is the pigeonhole principle on the
  numbers up to one more than the names in use. `subschema_for` and `UseAll` are
  recursive functions of a position, taken by induction on the least counterexample.
  So the theorem says of `Static` references that they resolve, and of the common
  generator's that they lead to their own types as well.

For all arguments of the macros, functions of any number of arguments and traits of
any number of items and attributes (`MacrosAssumption`):

* `ExpansionAlwaysWorks` (`ExpansionWorks`: panics only where `format_ident!` is given
  a name that is no identifier, which `Stuck` traces to the arguments or to a marked
  method; version ranges with a named constant excepted), `ErrorsAreExact` (`ErrorsExact`),
  `StubAlwaysAgrees` (`StubAgrees`). All three rest on one fact about each validator:
  it turns its argument down if and only if it reports an error, and its errors name
  the item and the part at fault (`Judged`, `Rated`, `Blames`). The code counts on
  that where it calls `unreachable!()`. From there, `MacrosInv` says that the state
  of the parser is a function of the items it has looked at: `items` are what each of
  them becomes, in order (`ItemsOK`), the errors are exactly theirs and those of no
  item (`TraitErrs`), and at the end the output is the one these items give
  (`TraitEnd`), with the usage messages in front. For a function, `FunctionEnd` ties
  the errors to the parts of the output that are missing. Lemmas about operators do
  the rest: filtering keeps order (`NamesAreMarked`, `OutIsKept`), the lists that
  `quote!` zips have equal lengths (`FullFacts`, `AdapterAdapts`), and real endpoint
  and stub are built from one item (`ManagedSame`).

Model-checked only:

* Liveness under fairness, which is outside this prover's reach:
  `ShutdownTerminates`, `BacklogResolved`, `RequestsEnd`, `AnsweredOnceSent`,
  `TaskDoesNotHang`, `OthersServed`, `SchemasEnd`, and `ScanEnds` of `ScanProgress`
  (its other part, `TokensAdvance`, is proved).
* `ParametersSound` and `ConversionSound`: `JsonSchemas` defines what a schema means
  by recursion over schemas, and induction over such data cannot be done here.

Every other property that a passing run checks is a theorem.

## Not modelled

`from_map.rs` and what serde, schemars and the multipart parser make of bytes: a
value is right or wrong. Titles, descriptions, formats and extension values are
copied into documents and left out, and so are the wording of messages and their
spans. Integers of schemas beyond `i64` are not among the values. Logging, DTrace
registration and probes, configuration files, test clients and fixtures are I/O. A
user's own version policy and context are user code. Route strings that fail to
parse panic in the parser and are not among the inputs. Timeouts do not occur: the
server has none (`server.rs` 335, "could use another select on a timeout"), and
nothing is persisted, so there is no recovery from a crash.

## Plan

1. Done: all modules above, and the theorems above.
2. Next: `Tls` as a refinement of the connection stage of `Server`, and the part of
   `JsonSchemas` that does not descend into subschemas (`j2oas_number`)
   as lemmas of its own.
