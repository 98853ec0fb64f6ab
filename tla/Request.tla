------------------------------ MODULE Request -------------------------------
(***************************************************************************)
(* What surrounds a handler, side by side: the extraction of its arguments *)
(* (Extraction), the upgrade to a websocket (Websocket) and the making of  *)
(* its response (Responses).  They share no state, so a behaviour is one   *)
(* of one of the three; the others stay as they began.                     *)
(***************************************************************************)
EXTENDS Extraction

CONSTANTS
  Requests, Starts, MaxSends,       \* of Websocket
  Accepts, Methods, compression, Clients, Returned, MIN_COMPRESS_SIZE
                                    \* of Responses

VARIABLES
  part,                          \* which of the three is looked at
  ws_request, client, inner, answer, sent, upgrade_fut, ws_task, unhandled,
  count, received,               \* of Websocket
  pc, rs_request, result, returned, rs_response, cache   \* of Responses

W == INSTANCE Websocket WITH request <- ws_request, task <- ws_task

R == INSTANCE Responses WITH request <- rs_request, response <- rs_response

IsSequence(s) == s \in Seq({s[i] : i \in DOMAIN s})

\* A header is the sequence of its values, the counter of the channel a byte,
\* and what handlers return is of the types they declare.
ASSUME RequestAssumption ==
  /\ W!NoRequest \notin Requests
  /\ \A r \in Requests : /\ IsSequence(r.connection) /\ IsSequence(r.upgrade)
                         /\ IsSequence(r.sec_websocket_version)
                         /\ IsSequence(r.sec_websocket_key)
  /\ Starts \subseteq 0 .. 255
  /\ \A v \in Returned : R!IsReturned(v)

-----------------------------------------------------------------------------
wsVars == <<ws_request, client, inner, answer, sent, upgrade_fut, ws_task,
            unhandled, count, received>>
rsVars == <<pc, rs_request, result, returned, rs_response, cache>>
allVars == <<part, vars, wsVars, rsVars>>

QuietExtraction ==
  /\ Init
  /\ endpoint = (CHOOSE e \in Endpoints : TRUE)
  /\ request = (CHOOSE r \in RequestHeads : TRUE)

QuietWebsocket == W!Init /\ count = (CHOOSE b \in Starts : TRUE)

RequestInit ==
  \/ part = "extraction" /\ Init /\ QuietWebsocket /\ R!Init
  \/ part = "websocket" /\ QuietExtraction /\ W!Init /\ R!Init
  \/ part = "responses" /\ QuietExtraction /\ QuietWebsocket /\ R!Init

RequestNext ==
  /\ \/ part = "extraction" /\ Next /\ UNCHANGED <<wsVars, rsVars>>
     \/ part = "websocket" /\ W!Next /\ UNCHANGED <<vars, rsVars>>
     \/ part = "responses" /\ R!Next /\ UNCHANGED <<vars, wsVars>>
  /\ UNCHANGED part

\* The fairness of each part, while it is the one looked at.
RequestSpec ==
  /\ RequestInit /\ [][RequestNext]_allVars
  /\ WF_vars(part = "extraction" /\ Server)
  /\ WF_wsVars(part = "websocket" /\ (W!handle \/ W!HandleAndFail \/ W!DropUpgrade))
  /\ WF_wsVars(part = "websocket" /\ W!Respond)
  /\ WF_wsVars(part = "websocket" /\ W!UpgradeResolved)
-----------------------------------------------------------------------------
(* The properties of Websocket and Responses; see there.                   *)

\* An upgrade goes its way once and in order: asked for, switched, then used,
\* or else reported (websocket.rs:128-309).
UpgradeSound == part = "websocket" => W!UpgradeSound

\* The task that waits for an upgrade never waits for ever
\* (websocket.rs:267-287).
TaskDoesNotHang == W!TaskDoesNotHang

\* Compression is invisible to clients that did not ask for it and truthful to
\* those that did (compression.rs, server.rs:1005-1021).
CompressionSound == part = "responses" => R!CompressionSound

\* Whatever a handler returns arrives as what it is: status, message, headers
\* and request id (handler.rs:366-378, 655-666, error.rs:225-243, 383-423,
\* server.rs:1022-1026).
AnswersTruthful == part = "responses" => R!AnswersTruthful
=============================================================================
