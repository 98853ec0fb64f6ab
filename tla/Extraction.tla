----------------------------- MODULE Extraction -----------------------------
(***************************************************************************)
(* One request through its extractors (dropshot/src/extractor/) and its    *)
(* handler, while the peer is still sending the body.  The body arrives in *)
(* frames of any size; a request has at most one extractor that consumes   *)
(* it, the last argument of the handler.                                   *)
(***************************************************************************)
EXTENDS Integers, Sequences

CONSTANTS
  default_request_body_max_bytes,  \* of the server's configuration
  Overrides,     \* what endpoints say of it: <<>> (nothing) or <<bytes>>
  SharedLists,   \* the shared extractors of the endpoints, in argument order
  FrameSizes,    \* the lengths of the data frames a peer sends
  MaxFrames(_, _),  \* bound on the frames of the body of a request to an endpoint
  Defects,       \* what can be wrong with a request before its body; see Fails
  ContentTypes,  \* what a request says its body is; see http_request_load_body
  Payloads       \* what its body would parse as

Exclusives == {"none", "TypedBody", "UntypedBody", "StreamingBody",
               "MultipartBody", "RawRequest"}

Endpoints == [shared : SharedLists, exclusive : Exclusives,
              body_content_type : {"Json", "UrlEncoded"},
              request_body_max_bytes : Overrides]

RequestHeads == [bad : SUBSET Defects, content_type : ContentTypes,
                 payload : Payloads]

ASSUME ExtractionAssumption ==
  /\ default_request_body_max_bytes \in Nat
  /\ \A o \in Overrides : o = <<>> \/ (Len(o) = 1 /\ o[1] \in Nat)
  /\ \A s \in SharedLists : s \in Seq({"Path", "Query", "Header"})
  /\ FrameSizes \subseteq Nat \ {0}
  /\ \A e \in Endpoints, r \in RequestHeads : MaxFrames(e, r) \in Nat

VARIABLES
  endpoint,    \* [shared, exclusive, body_content_type, request_body_max_bytes]
  request,     \* [bad (its defects), content_type, payload]
  wire,        \* the lengths of the data frames that wait to be read; 0: trailers
  peer,        \* "sending", "ended" or "broken"
  frames,      \* how many frames the peer has sent
  total,       \* how many bytes of data the peer has sent
  task,        \* "extract", "reading", "draining", "decode", "handling", "done"
  bytes_read,  \* of StreamingBody::into_stream()
  delivered,   \* the bytes that reached the extractor's buffer or the handler
  handled,     \* did the handler run?
  response     \* "none", "ok", or why the answer is a 400

vars == <<endpoint, request, wire, peer, frames, total, task, bytes_read,
          delivered, handled, response>>

\* RequestContext::request_body_max_bytes()
request_body_max_bytes ==
  IF endpoint.request_body_max_bytes = <<>>
    THEN default_request_body_max_bytes
    ELSE endpoint.request_body_max_bytes[1]

-----------------------------------------------------------------------------
(* The peer.                                                               *)

peerVars == <<peer, wire, frames, total>>

taskVars == <<task, bytes_read, delivered, handled, response>>

PeerSends(n) ==
  /\ peer = "sending" /\ frames < MaxFrames(endpoint, request)
  /\ wire' = Append(wire, n)
  /\ frames' = frames + 1
  /\ total' = total + n
  /\ UNCHANGED <<peer, endpoint, request, taskVars>>

PeerStops(how) ==
  /\ peer = "sending"
  /\ peer' = how
  /\ UNCHANGED <<wire, frames, total, endpoint, request, taskVars>>

\* Body::frame() has something to say: a frame, an error or the end.
Ready == wire # <<>> \/ peer # "sending"

-----------------------------------------------------------------------------
(* Answers.                                                                *)

\* An extractor failed: 400, and the handler does not run.
BadRequest(why) ==
  /\ task' = "done" /\ response' = why
  /\ UNCHANGED handled

RunHandler ==
  /\ task' = "handling" /\ handled' = TRUE
  /\ UNCHANGED response

-----------------------------------------------------------------------------
(* futures::try_join!: the shared extractors in order, then the exclusive  *)
(* one.  None of the shared ones waits for anything, so the first of them  *)
(* that fails decides before the body is touched.                          *)

\* A path variable that is not of its field's type.
http_extract_path_paramsFails == "path variable" \in request.bad

\* A query string that is not the form encoding of the query type.
http_request_load_queryFails == "query string" \in request.bad

\* A field that is missing or not of its type, or a header of any name whose
\* value is not text.
http_request_load_headerFails == request.bad \cap {"header field", "header bytes"} # {}

Fails(i) ==
  CASE endpoint.shared[i] = "Path"   -> http_extract_path_paramsFails
    [] endpoint.shared[i] = "Query"  -> http_request_load_queryFails
    [] endpoint.shared[i] = "Header" -> http_request_load_headerFails

\* The multipart boundary, from a readable content-type header.
MultipartError ==
  CASE request.content_type = "none"      -> "missing content-type"
    [] request.content_type = "invalid"   -> "invalid content type"
    [] request.content_type = "multipart" -> "ok"
    [] OTHER                              -> "missing boundary"

\* What the exclusive extractor does when it is polled first.
StartExclusive ==
  CASE endpoint.exclusive \in {"TypedBody", "UntypedBody"} ->
         task' = "reading" /\ UNCHANGED <<handled, response>>
    [] endpoint.exclusive = "MultipartBody" ->
         IF MultipartError = "ok" THEN RunHandler ELSE BadRequest(MultipartError)
    [] OTHER -> RunHandler

\* Faulty variant: only the last of the shared extractors decides.
ExtractLastOnly ==
  /\ task = "extract"
  /\ IF endpoint.shared # <<>> /\ Fails(Len(endpoint.shared))
       THEN BadRequest(endpoint.shared[Len(endpoint.shared)])
       ELSE StartExclusive
  /\ UNCHANGED <<endpoint, request, peerVars, bytes_read, delivered>>

Extract ==
  /\ task = "extract"
  /\ \/ \E i \in DOMAIN endpoint.shared :
          /\ Fails(i) /\ \A j \in 1 .. i - 1 : ~Fails(j)
          /\ BadRequest(endpoint.shared[i])
     \/ /\ \A i \in DOMAIN endpoint.shared : ~Fails(i)
        /\ StartExclusive
  /\ UNCHANGED <<endpoint, request, peerVars, bytes_read, delivered>>

-----------------------------------------------------------------------------
(* StreamingBody::into_stream().  The extractors of a whole body drain it  *)
(* into a buffer; a handler that took a StreamingBody reads it itself.     *)

Streams ==
  \/ task = "reading"
  \/ task = "handling" /\ endpoint.exclusive = "StreamingBody"

\* The stream ends: the buffer is complete, or the handler has seen it all.
StreamEnds ==
  /\ wire = <<>> /\ peer = "ended"
  /\ IF task = "handling"
       THEN task' = "done" /\ response' = "ok"
       ELSE task' = "decode" /\ UNCHANGED response
  /\ UNCHANGED <<handled, wire, bytes_read, delivered>>

\* An error on the stream: the extractor's answer, or the handler's.
StreamFails(why) ==
  /\ BadRequest(why)
  /\ UNCHANGED <<bytes_read, delivered>>

\* Faulty variant: each chunk is held against the cap by itself.
ExceedsChunkOnly(len) == len > request_body_max_bytes

Exceeds(len) == bytes_read + len > request_body_max_bytes

\* Faulty variant: the error is returned without draining the body.
OversizeAtOnce ==
  /\ BadRequest("oversize")
  /\ UNCHANGED <<bytes_read, delivered>>

\* http_dump_body() first, then the error.
Oversize == task' = "draining" /\ UNCHANGED <<bytes_read, delivered, handled, response>>

into_stream ==
  /\ Streams /\ Ready
  /\ \/ StreamEnds
     \/ /\ wire = <<>> /\ peer = "broken"
        /\ StreamFails("stream error") /\ UNCHANGED wire
     \/ /\ wire # <<>> /\ wire' = Tail(wire)
        /\ LET len == Head(wire)
           IN  \/ len = 0 /\ UNCHANGED taskVars
               \/ len > 0 /\ Exceeds(len) /\ Oversize
               \/ /\ len > 0 /\ ~Exceeds(len)
                  /\ bytes_read' = bytes_read + len
                  /\ delivered' = delivered + len
                  /\ UNCHANGED <<task, handled, response>>
  /\ UNCHANGED <<endpoint, request, peer, frames, total>>

\* Faulty variant: an error of the stream is not taken for its end.
http_dump_bodyIgnoresErrors ==
  /\ task = "draining" /\ Ready
  /\ \/ /\ wire # <<>> /\ wire' = Tail(wire)
        /\ UNCHANGED taskVars
     \/ /\ wire = <<>> /\ peer = "ended"
        /\ StreamFails("oversize") /\ UNCHANGED wire
  /\ UNCHANGED <<endpoint, request, peer, frames, total>>

http_dump_body ==
  /\ task = "draining" /\ Ready
  /\ \/ /\ wire # <<>> /\ wire' = Tail(wire)
        /\ UNCHANGED taskVars
     \/ /\ wire = <<>>
        /\ StreamFails(IF peer = "broken" THEN "stream error" ELSE "oversize")
        /\ UNCHANGED wire
  /\ UNCHANGED <<endpoint, request, peer, frames, total>>

-----------------------------------------------------------------------------
(* http_request_load_body(): the content type is looked at when the whole  *)
(* body is in.                                                             *)

\* Absent means JSON; only these two are known to TypedBody.
BodyContentType ==
  IF request.content_type = "none" THEN "Json" ELSE request.content_type

\* Faulty variant: the declared content type is not compared.
LoadErrorAnyKnown ==
  CASE request.content_type = "invalid" -> "invalid content type"
    [] request.content_type = "other"   -> "unsupported content type"
    [] OTHER -> IF request.payload = BodyContentType THEN "ok" ELSE "unable to parse"

LoadError ==
  CASE request.content_type = "invalid" -> "invalid content type"
    [] request.content_type = "other"   -> "unsupported content type"
    [] BodyContentType # endpoint.body_content_type -> "wrong content type"
    [] OTHER -> IF request.payload = BodyContentType THEN "ok" ELSE "unable to parse"

http_request_load_body ==
  /\ task = "decode"
  /\ IF endpoint.exclusive = "UntypedBody" \/ LoadError = "ok"
       THEN RunHandler
       ELSE BadRequest(LoadError)
  /\ UNCHANGED <<endpoint, request, peerVars, bytes_read, delivered>>

-----------------------------------------------------------------------------
(* The handler.                                                            *)

\* The extractors that hand the body on as it comes.
PassesBodyOn == endpoint.exclusive \in {"MultipartBody", "RawRequest"}

\* The handler reads the frames of such a body itself.
HandlerReadsRaw ==
  /\ task = "handling" /\ PassesBodyOn
  /\ wire # <<>>
  /\ wire' = Tail(wire)
  /\ delivered' = delivered + Head(wire)
  /\ UNCHANGED <<endpoint, request, peer, frames, total, task, bytes_read, handled, response>>

\* A handler may answer at any time, with the body read or not.
HandlerAnswers ==
  /\ task = "handling"
  /\ task' = "done" /\ response' = "ok"
  /\ UNCHANGED <<endpoint, request, peerVars, bytes_read, delivered, handled>>

-----------------------------------------------------------------------------
Init ==
  /\ endpoint \in Endpoints
  /\ request \in RequestHeads
  /\ wire = <<>> /\ peer = "sending" /\ frames = 0 /\ total = 0
  /\ task = "extract" /\ bytes_read = 0 /\ delivered = 0
  /\ handled = FALSE /\ response = "none"

Peer == (\E n \in FrameSizes \cup {0} : PeerSends(n)) \/ PeerStops("ended") \/ PeerStops("broken")

Server ==
  \/ Extract
  \/ into_stream
  \/ http_dump_body
  \/ http_request_load_body
  \/ HandlerReadsRaw
  \/ HandlerAnswers

Next == Peer \/ Server

Spec == Init /\ [][Next]_vars /\ WF_vars(Server)

-----------------------------------------------------------------------------
Capped == endpoint.exclusive \in {"TypedBody", "UntypedBody", "StreamingBody"}

\* Why a request is refused.
BadRequests ==
  {"Path", "Query", "Header", "missing content-type", "invalid content type",
   "missing boundary", "oversize", "stream error", "unsupported content type",
   "wrong content type", "unable to parse"}

TypeOK ==
  /\ endpoint \in Endpoints /\ request \in RequestHeads
  /\ wire \in Seq(Nat) /\ frames \in 0 .. MaxFrames(endpoint, request) /\ total \in Nat
  /\ peer \in {"sending", "ended", "broken"}
  /\ task \in {"extract", "reading", "draining", "decode", "handling", "done"}
  /\ bytes_read \in Nat /\ delivered \in Nat
  /\ handled \in BOOLEAN
  /\ response \in {"none", "ok"} \union BadRequests
  /\ response = "none" <=> task # "done"

\* Of a body behind StreamingBody, which TypedBody and UntypedBody use too,
\* no more than the cap is ever buffered or handed to a handler, however the
\* peer cuts it into frames (body.rs:425).
NeverOverCap == Capped => delivered <= request_body_max_bytes

\* A body is refused for its size exactly when it is too large, and only
\* after all of it was read from the connection, so that the client can
\* finish sending and read the answer (body.rs:425-437); an extractor of a
\* whole body lets the handler run only with all of a body within the cap.
SizeVerdictExact ==
  /\ response = "oversize" =>
       /\ total > request_body_max_bytes
       /\ wire = <<>> /\ peer = "ended"
  /\ handled /\ endpoint.exclusive \in {"TypedBody", "UntypedBody"} =>
       /\ total <= request_body_max_bytes
       /\ delivered = total /\ wire = <<>> /\ peer = "ended"

\* No byte of the body is read for a request whose path, query or headers do
\* not parse, and the error names the first such argument of the handler,
\* whatever else is wrong with the request (common.rs:168-171).
FirstBadArgumentWins ==
  \A i \in DOMAIN endpoint.shared :
    Fails(i) /\ (\A j \in 1 .. i - 1 : ~Fails(j)) =>
      /\ ~handled /\ delivered = 0
      /\ task = "done" => response = endpoint.shared[i]

\* A handler that asked for a typed body never runs with one of another
\* content type than its endpoint declares.
TypedAsDeclared ==
  handled /\ endpoint.exclusive = "TypedBody" =>
    /\ request.payload = endpoint.body_content_type
    /\ \/ request.content_type = endpoint.body_content_type
       \/ request.content_type = "none" /\ endpoint.body_content_type = "Json"

\* Once the peer has finished or gone away, the request is answered: reading
\* and draining both come to an end.
AnsweredOnceSent == peer # "sending" ~> task = "done"

\* The limit on bodies: never exceeded, and the reason given for a refusal
\* exactly when it is (body.rs:400-440).
BodyCapped == TypeOK /\ NeverOverCap /\ SizeVerdictExact

\* A handler runs only with arguments that are all as it declared them
\* (common.rs:168-171, body.rs:130-240).
ArgumentsChecked == FirstBadArgumentWins /\ TypedAsDeclared

=============================================================================
