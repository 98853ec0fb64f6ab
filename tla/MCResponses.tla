---------------------------- MODULE MCResponses ----------------------------
(* What handlers may return. *)
EXTENDS Responses

MCAccepts == {{}, {<<"gzip", 100>>}, {<<"gzip", 0>>, <<"*", 100>>},
              {<<"*", 50>>, <<"br", 100>>}}

Json(size) == [kind |-> "json", size |-> size, exact |-> TRUE]

Stream == [kind |-> "FreeformBody", size |-> 600, exact |-> FALSE]

Succeeds(value) == [ok |-> TRUE, custom |-> FALSE, value |-> value]

SucceedsCustom(value) == [ok |-> TRUE, custom |-> TRUE, value |-> value]

Fails(error) == [ok |-> FALSE, error |-> error]

FailsWith(e) == Fails([type |-> "HttpError", error |-> e])

With(h) == HttpResponseHeaders(HttpResponseOk(Json(600)), NoHeaders, h)

\* Headers that handlers set themselves.
MCHeaders ==
  {Insert(NoHeaders, "vary", "origin"),
   Insert(NoHeaders, "content-encoding", "br"),
   Insert(NoHeaders, "content-range", "0-9"),
   Insert(NoHeaders, "content-length", 100), Insert(NoHeaders, "accept-ranges", "bytes"),
   Insert(NoHeaders, "content-type", "text/event-stream"),
   Insert(NoHeaders, "x-request-id", "mine")}

MCUnserializable == [kind |-> "unserializable", size |-> 0, exact |-> TRUE]

MCSuccesses ==
  {Succeeds(v) : v \in
     {HttpResponseOk(Json(600)), HttpResponseCreated(Json(100)),
      HttpResponseAccepted(Stream), HttpResponseUpdatedNoContent,
      HttpResponseOk(MCUnserializable),
      http_response_see_other("here"),
      http_response_temporary_redirect("invalid"),
      HttpResponseHeaders(HttpResponseOk(Stream),
        Insert(NoHeaders, "content-type", "text/html"), NoHeaders),
      HttpResponseHeaders(HttpResponseOk(Json(600)),
        Insert(NoHeaders, "x-other", "invalid"), NoHeaders)}
     \cup {With(h) : h \in MCHeaders}}
  \cup {SucceedsCustom(HttpResponseOk(MCUnserializable))}

\* Errors whose status comes from a number.
MCStatusErrors ==
  {Fails([type |-> "custom", status |-> from_u16(n)[1], serializes |-> TRUE,
          message |-> "reason"]) :
     n \in {i \in {302, 442, 600} : from_u16(i) # <<>>}}
  \cup {FailsWith(for_client_error_with_status(n)[1]) :
     n \in {i \in {404, 500} : as_client_error(i) # <<>> /\ for_client_error_with_status(i) # <<>>}}

MCErrors ==
  {FailsWith(e) : e \in
     {for_internal_error("secret"), for_not_found("secret"),
      with_header(for_unavail("secret"), "x-other", "later")}}
  \cup {Fails([type |-> "custom", status |-> 503, serializes |-> FALSE, message |-> "secret"])}
  \cup MCStatusErrors

MCReturnedId ==
  {FailsWith(with_header(for_bad_request("told"), "x-request-id", "other"))}

MCReturned == MCSuccesses \cup MCErrors \cup MCReturnedId
=============================================================================
