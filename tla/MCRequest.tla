----------------------------- MODULE MCRequest ------------------------------
(* A cap of two or three bytes, and every header of an upgrade absent,     *)
(* right, wrong, unreadable or repeated.                                   *)
EXTENDS Request

MCOverrides == {<<>>, <<3>>}

MCSharedLists == {<<>>, <<"Path", "Query", "Header">>}

\* Long bodies where nothing but the body can be wrong.
MCMaxFrames(e, r) ==
  IF /\ e.shared = <<>> /\ r.bad = {} /\ r.payload = "Json"
     /\ r.content_type \in {"none", "multipart"}
    THEN 4 ELSE 1

UpTo2(S) == {<<>>} \union {<<v>> : v \in S} \union (S \X S)

Headers(w, other) ==
  {[readable |-> TRUE, words |-> {w, other}], [readable |-> TRUE, words |-> {other}],
   [readable |-> FALSE, words |-> {w}]}

MCRequests ==
  [connection: UpTo2(Headers("upgrade", "keep-alive")),
   upgrade: UpTo2(Headers("websocket", "h2c")),
   sec_websocket_version: {<<>>, <<"13">>, <<"8">>, <<"13", "8">>},
   sec_websocket_key: {<<>>, <<"k1", "k2">>}]

MCStarts == {0, 254}

\* What handlers return, which does not depend on what R is given.
Results == INSTANCE MCResponses WITH
             Accepts <- {}, Returned <- {}, request <- rs_request, response <- rs_response

MCAccepts == Results!MCAccepts
MCReturned == Results!MCReturned
=============================================================================
