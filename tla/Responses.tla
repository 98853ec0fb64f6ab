----------------------------- MODULE Responses -----------------------------
(***************************************************************************)
(* From what a handler returns to what a client gets: the response types   *)
(* and errors (handler.rs, error.rs, error_status_code.rs), the end of     *)
(* http_request_handle() and of its wrapper (server.rs), and a shared      *)
(* cache between the server and its clients that obeys Vary.               *)
(***************************************************************************)
EXTENDS Compression, FiniteSets

CONSTANTS
  Clients,       \* each sends one request, whose id is the client
  Accepts,       \* Accept-Encoding headers, parsed
  Methods,
  compression,   \* of the server's configuration: "None" or "Gzip"
  Returned       \* what the handlers return; see HandlerResult

VARIABLES
  pc,        \* client -> "idle", "sent", "returned", "received"
  request,   \* client -> [accept, method]
  result,    \* client -> the handler's result as http_request_handle() sees it
  returned,  \* client -> what the handler returned
  response,  \* client -> what it got
  cache      \* stored: a set of [accept, response]

vars == <<pc, request, result, returned, response, cache>>

-----------------------------------------------------------------------------
(* Status codes of errors.                                                 *)

is_client_error(status) == status \in 400 .. 499

is_server_error(status) == status \in 500 .. 599

\* The constants of ErrorStatusCode, which are the codes with a canonical
\* reason, and those of ClientErrorStatusCode.
ErrorConstants ==
  (400 .. 418) \cup (421 .. 424) \cup {426, 428, 429, 431, 451}
    \cup (500 .. 508) \cup {510, 511}

ClientErrorConstants == {s \in ErrorConstants : is_client_error(s)}

\* Faulty variant: any status code is taken for an error.
from_statusUnchecked(status) == <<status>>

\* ErrorStatusCode::from_status(); <<>> is NotAnError.
from_status(status) ==
  IF is_client_error(status) \/ is_server_error(status) THEN <<status>> ELSE <<>>

\* ErrorStatusCode::from_u16(); <<>> when it is no status or not an error.
from_u16(n) == IF n \in 100 .. 999 THEN from_status(n) ELSE <<>>

\* ErrorStatusCode::as_client_error(); <<>> is NotAClientError.
as_client_error(status) == IF is_client_error(status) THEN <<status>> ELSE <<>>

-----------------------------------------------------------------------------
(* HttpError.  A message is "reason", the canonical one, or the text that  *)
(* the server's code gave.                                                 *)

for_client_error(status, message) ==
  [status_code |-> status, external_message |-> message, internal_message |-> message,
   headers |-> NoHeaders]

\* Faulty variant: the client is told the internal message.
for_internal_errorVerbose(message) ==
  [status_code |-> 500, external_message |-> message, internal_message |-> message,
   headers |-> NoHeaders]

for_internal_error(message) ==
  [status_code |-> 500, external_message |-> "reason", internal_message |-> message,
   headers |-> NoHeaders]

for_unavail(message) ==
  [status_code |-> 503, external_message |-> "reason", internal_message |-> message,
   headers |-> NoHeaders]

for_bad_request(message) == for_client_error(400, message)

for_not_found(message) ==
  [status_code |-> 404, external_message |-> "reason", internal_message |-> message,
   headers |-> NoHeaders]

\* <<>> is a panic: the status has no canonical reason.
for_client_error_with_status(status) ==
  IF status \in ClientErrorConstants THEN <<for_client_error(status, "reason")>> ELSE <<>>

\* HttpError::add_header() and with_header()
with_header(e, n, v) == [e EXCEPT !.headers = AppendValue(@, n, v)]

\* Faulty variant: the error's own headers get lost.
HttpErrorIntoResponseBare(e, id) ==
  [status |-> e.status_code, no_compression |-> FALSE,
   headers |-> AppendValue(AppendValue(NoHeaders, "content-type", "application/json"),
                           "x-request-id", id),
   body |-> [size |-> 100, exact |-> TRUE, coding |-> <<>>,
             message |-> e.external_message, request_id |-> <<id>>]]

\* HttpError::into_response(): the headers are added to the error's own.
HttpErrorIntoResponse(e, id) ==
  [status |-> e.status_code, no_compression |-> FALSE,
   headers |-> AppendValue(AppendValue(e.headers, "content-type", "application/json"),
                           "x-request-id", id),
   body |-> [size |-> 100, exact |-> TRUE, coding |-> <<>>,
             message |-> e.external_message, request_id |-> <<id>>]]

-----------------------------------------------------------------------------
(* Response types.  Content is [kind, size, exact]; a result is            *)
(* [ok |-> TRUE, rsp |-> ...] or [ok |-> FALSE, error |-> an HttpError].   *)

Ok(rsp) == [ok |-> TRUE, rsp |-> rsp]

Err(e) == [ok |-> FALSE, error |-> e]

Empty == [kind |-> "Empty", size |-> 0, exact |-> TRUE]

ContentType(content) ==
  CASE content.kind = "json"         -> <<"application/json">>
    [] content.kind = "FreeformBody" -> <<"application/octet-stream">>
    [] content.kind = "Empty"        -> <<>>

\* HttpCodedResponse::for_object() with HttpResponseContent::to_response()
for_object(status, content) ==
  IF content.kind = "unserializable" THEN Err(for_internal_error("serde"))
  ELSE Ok([status |-> status, no_compression |-> FALSE,
           headers |-> [NoHeaders EXCEPT !["content-type"] = ContentType(content)],
           body |-> [size |-> content.size, exact |-> content.exact,
                     coding |-> <<>>, message |-> "", request_id |-> <<>>]])

HttpResponseCreated(content) == for_object(201, content)

HttpResponseAccepted(content) == for_object(202, content)

HttpResponseOk(content) == for_object(200, content)

HttpResponseDeleted == for_object(204, Empty)

HttpResponseUpdatedNoContent == for_object(204, Empty)

\* HttpResponseHeaders::to_result(): the structured headers replace those of
\* the response, the other headers replace both; "invalid" is not a header
\* value.
HttpResponseHeaders(inner, structured, other) ==
  IF ~inner.ok THEN inner
  ELSE IF \E n \in HeaderNames : "invalid" \in Values(structured, n)
    THEN Err(for_internal_error("header"))
  ELSE Ok([inner.rsp EXCEPT
             !.headers = [n \in HeaderNames |->
                            IF Contains(other, n) THEN other[n]
                            ELSE IF Contains(structured, n) THEN structured[n]
                            ELSE @[n]]])

\* http_response_found() and its siblings check the location first.
http_redirect(status, location) ==
  IF location = "invalid" THEN Err(for_internal_error("redirect"))
  ELSE HttpResponseHeaders(for_object(status, Empty),
                           Insert(NoHeaders, "location", location), NoHeaders)

http_response_found(location) == http_redirect(302, location)

http_response_see_other(location) == http_redirect(303, location)

http_response_temporary_redirect(location) == http_redirect(307, location)

-----------------------------------------------------------------------------
(* Errors of a handler.  Its error type is HttpError or one of its own.    *)

\* From<HttpError> for the endpoint's error type, here that of an example.
ThingyError(e) == [type |-> "custom", status |-> e.status_code, serializes |-> TRUE,
                   message |-> e.external_message]

\* HandlerError::from(): an error response, or an HttpError when the error
\* is one or when it cannot be serialised.
HandlerError(e) ==
  CASE e.type = "HttpError" -> [ok |-> FALSE, dropshot |-> TRUE, error |-> e.error]
    [] e.type = "custom" /\ e.serializes ->
         [ok |-> FALSE, dropshot |-> FALSE,
          rsp |-> [HttpResponseOk([kind |-> "json", size |-> 100, exact |-> TRUE]).rsp
                     EXCEPT !.status = e.status, !.body.message = e.message]]
    [] e.type = "custom" /\ ~e.serializes ->
         [ok |-> FALSE, dropshot |-> TRUE, error |-> for_internal_error("serde")]

\* HttpHandlerFunc::handle_request(): a response that cannot be built becomes
\* an error of the endpoint's own type.
HandlerResult(v) ==
  IF ~v.ok THEN HandlerError(v.error)
  ELSE IF v.value.ok THEN v.value
  ELSE IF v.custom THEN HandlerError(ThingyError(v.value.error))
  ELSE HandlerError([type |-> "HttpError", error |-> v.value.error])

\* An error that is answered with its own text.
OwnError(e) == e.type = "custom" /\ e.serializes

\* HandlerError::into_response(): the request's id replaces any other.
IntoResponse(herror, id) ==
  IF herror.dropshot THEN HttpErrorIntoResponse(herror.error, id)
  ELSE [herror.rsp EXCEPT !.headers = Insert(@, "x-request-id", id)]

\* Faulty variant: the id is added to an id that the handler set.
FinishResponseAppends(rsp, req, id) ==
  [rsp EXCEPT !.headers = AppendValue(@, "x-request-id", id)]

\* The end of http_request_handle().
FinishResponse(rsp, req, id) ==
  LET varied   == [rsp EXCEPT !.headers = add_vary_header(@)]
      encoded  == IF compression = "Gzip" /\ is_compressible_content_type(rsp.headers)
                    THEN IF should_compress_response(req.method, req.accept, varied)
                           THEN apply_gzip_compression(varied) ELSE varied
                    ELSE rsp
  IN  [encoded EXCEPT !.headers = Insert(@, "x-request-id", id)]

-----------------------------------------------------------------------------
(* What the types of handlers let them return.                             *)

\* An ErrorStatusCode is made by from_status() only.
IsErrorStatusCode(status) == from_status(status) = <<status>>

\* An HttpError that one of its constructors made, with any headers.
IsHttpError(e) ==
  /\ IsHeaderMap(e.headers)
  /\ LET message == e.internal_message
         made == {for_internal_error(message), for_unavail(message), for_not_found(message)}
     IN  \/ \E new \in made : e = [new EXCEPT !.headers = e.headers]
         \/ /\ as_client_error(e.status_code) # <<>>
            /\ e = [for_client_error(e.status_code, message) EXCEPT !.headers = e.headers]

\* Any response that nobody compressed yet.
IsResponse(rsp) ==
  /\ rsp = [status |-> rsp.status, no_compression |-> rsp.no_compression,
            headers |-> rsp.headers, body |-> rsp.body]
  /\ rsp.status \in 100 .. 999 /\ rsp.no_compression \in BOOLEAN
  /\ IsHeaderMap(rsp.headers)
  /\ rsp.body = [size |-> rsp.body.size, exact |-> rsp.body.exact, coding |-> <<>>,
                 message |-> rsp.body.message, request_id |-> rsp.body.request_id]
  /\ rsp.body.size \in Nat /\ rsp.body.exact \in BOOLEAN

IsReturned(v) ==
  /\ v.ok \in BOOLEAN
  /\ v.ok => /\ v.custom \in BOOLEAN /\ v.value.ok \in BOOLEAN
             /\ IF v.value.ok THEN IsResponse(v.value.rsp) ELSE IsHttpError(v.value.error)
  /\ ~v.ok => \/ v.error.type = "HttpError" /\ IsHttpError(v.error.error)
              \/ /\ v.error.type = "custom" /\ v.error.serializes \in BOOLEAN
                 /\ IsErrorStatusCode(v.error.status)

-----------------------------------------------------------------------------
(* Requests, the server and the cache.                                     *)

Send(c, accept, method) ==
  /\ pc[c] = "idle"
  /\ pc' = [pc EXCEPT ![c] = "sent"]
  /\ request' = [request EXCEPT ![c] = [accept |-> accept, method |-> method]]
  /\ UNCHANGED <<result, returned, response, cache>>

\* A stored response that its Vary header selects for this request.
CacheHit(c) ==
  /\ pc[c] = "sent" /\ request[c].method = "GET"
  /\ \E stored \in cache :
       /\ "*" \notin Values(stored.response.headers, "vary")
       /\ "accept-encoding" \in Values(stored.response.headers, "vary")
            => stored.accept = request[c].accept
       /\ response' = [response EXCEPT ![c] = stored.response]
  /\ pc' = [pc EXCEPT ![c] = "received"]
  /\ UNCHANGED <<request, result, returned, cache>>

HandlerReturns(c, v) ==
  /\ pc[c] = "sent"
  /\ pc' = [pc EXCEPT ![c] = "returned"]
  /\ returned' = [returned EXCEPT ![c] = v]
  /\ result' = [result EXCEPT ![c] = HandlerResult(v)]
  /\ UNCHANGED <<request, response, cache>>

\* The rest of http_request_handle() and http_request_handle_wrap().
Respond(c) ==
  /\ pc[c] = "returned"
  /\ pc' = [pc EXCEPT ![c] = "received"]
  /\ response' = [response EXCEPT ![c] =
       IF result[c].ok THEN FinishResponse(result[c].rsp, request[c], c)
       ELSE IntoResponse(result[c], c)]
  /\ UNCHANGED <<request, result, returned, cache>>

CacheStores(c) ==
  /\ pc[c] = "received" /\ request[c].method = "GET"
  /\ cache' = cache \cup {[accept |-> request[c].accept, response |-> response[c]]}
  /\ UNCHANGED <<pc, request, result, returned, response>>

Init ==
  /\ pc = [c \in Clients |-> "idle"]
  /\ request = [c \in Clients |-> <<>>]
  /\ result = [c \in Clients |-> <<>>]
  /\ returned = [c \in Clients |-> <<>>]
  /\ response = [c \in Clients |-> <<>>]
  /\ cache = {}

Next ==
  \E c \in Clients :
    \/ \E accept \in Accepts, method \in Methods : Send(c, accept, method)
    \/ \E v \in Returned : HandlerReturns(c, v)
    \/ Respond(c)
    \/ CacheHit(c)
    \/ CacheStores(c)

Spec == Init /\ [][Next]_vars

-----------------------------------------------------------------------------
Received(c) == pc[c] = "received"

\* The server itself answered, not the cache.
Answered(c) == Received(c) /\ result[c] # <<>>

TypeOK ==
  \A c \in Clients :
    /\ pc[c] \in {"idle", "sent", "returned", "received"}
    /\ Received(c) => /\ response[c].status \in 100 .. 999
                      /\ DOMAIN response[c].headers = HeaderNames

\* A body that the server compressed never reaches a client that does not
\* accept gzip, not even out of a shared cache: "a cache might mistakenly
\* serve a compressed response to a client that cannot decompress it"
\* (server.rs:1005-1007).
GzipOnlyIfAccepted ==
  \A c \in Clients :
    Received(c) /\ response[c].body.coding # <<>>
      => LET listed == {d \in request[c].accept : d[1] = "gzip"}
         IN  \E d \in request[c].accept :
               d[2] > 0 /\ (d[1] = "gzip" \/ (listed = {} /\ d[1] = "*"))

\* What a response says of its body is true: it is called gzip exactly when
\* it was compressed (or the handler said so), it was compressed only once,
\* and a length or a range of the uncompressed body is never announced for it.
EncodingHonest ==
  \A c \in Clients : Answered(c) /\ result[c].ok =>
    LET before == result[c].rsp
        after  == response[c]
        gzip   == after.body.coding = <<"gzip">>
    IN  /\ gzip \/ after.body = before.body
        /\ gzip => /\ after.headers["content-encoding"] = <<"gzip">>
                   /\ ~Contains(before.headers, "content-encoding")
                   /\ ~Contains(after.headers, "content-length")
                   /\ ~Contains(after.headers, "accept-ranges")
                   /\ after.status \notin BodilessStatus /\ request[c].method # "HEAD"
        /\ ~gzip => after.headers["content-encoding"] = before.headers["content-encoding"]

\* A handler's error, and a response that cannot be built, is answered with a
\* 4xx or 5xx status, through every chain of conversions (handler.rs:366-378,
\* :655-666); anything else with the status that the handler's type has.
StatusTruthful ==
  \A c \in Clients : Answered(c) =>
    IF returned[c].ok /\ returned[c].value.ok
      THEN response[c].status = returned[c].value.rsp.status
      ELSE response[c].status \in 400 .. 599

\* The internal message of an error that is the server's own fault does not
\* reach the client (error.rs:225-243), unless the handler's own error type
\* says it.
InternalStaysInside ==
  \A c \in Clients :
    Answered(c) /\ ~result[c].ok /\ is_server_error(response[c].status)
      => \/ response[c].body.message = "reason"
         \/ ~returned[c].ok /\ OwnError(returned[c].error)

\* The headers that a handler put on its error arrive.
ErrorHeadersArrive ==
  \A c \in Clients : Answered(c) /\ ~result[c].ok /\ result[c].dropshot =>
    \A n \in HeaderNames :
      Values(result[c].error.headers, n) \subseteq Values(response[c].headers, n)

\* Every answer carries the id of its own request, and no other one unless
\* it is an HttpError that brings an "x-request-id" along.
RequestIdReported ==
  \A c \in Clients : Answered(c) =>
    LET ids == response[c].headers["x-request-id"]
    IN  /\ ids # <<>> /\ ids[Len(ids)] = c
        /\ \/ Len(ids) = 1
           \/ ~result[c].ok /\ result[c].dropshot
                /\ Contains(result[c].error.headers, "x-request-id")

\* Compression is invisible to clients that did not ask for it and truthful to
\* those that did (compression.rs, server.rs:1005-1021).
CompressionSound == GzipOnlyIfAccepted /\ EncodingHonest

\* Whatever a handler returns arrives as what it is: status, message, headers
\* and request id (handler.rs:366-378, 655-666, error.rs:225-243, 383-423,
\* server.rs:1022-1026).
AnswersTruthful ==
  TypeOK /\ StatusTruthful /\ InternalStaysInside /\ ErrorHeadersArrive /\ RequestIdReported

=============================================================================
