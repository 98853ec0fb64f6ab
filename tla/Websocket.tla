----------------------------- MODULE Websocket -----------------------------
(***************************************************************************)
(* One request to a websocket endpoint: the checks of WebsocketUpgrade     *)
(* (an exclusive extractor), the user's handler that calls handle() or     *)
(* does not, the task that handle() spawns and that waits for the upgrade, *)
(* and the user's channel, which is the one of examples/websocket.rs and   *)
(* examples/api-trait-websocket.rs: a counter of bytes.  What such tasks   *)
(* mean for shutdown is the subject of module Server.                      *)
(*                                                                         *)
(* A header is the sequence of its values, in the order of the request; a  *)
(* value is the set of words in it, and whether it is readable as a string. *)
(***************************************************************************)
EXTENDS Naturals, Sequences

CONSTANTS
  Requests,       \* the requests a client may send
  Starts,         \* the bytes the counter may start from
  MaxSends        \* bound: messages sent over the websocket

VARIABLES
  request,        \* the request, NoRequest before it is sent
  client,         \* "there" or "gone"
  inner,          \* the Option inside WebsocketUpgrade
  answer,         \* the response the handler decided on
  sent,           \* the response that went out on the connection
  upgrade_fut,    \* hyper's OnUpgrade
  task,           \* the spawned task
  unhandled,      \* reports "Didn't handle websocket in route"
  count,          \* the next byte of the channel
  received        \* the messages that reached the client

vars == <<request, client, inner, answer, sent, upgrade_fut, task, unhandled,
          count, received>>

NoRequest == [none |-> TRUE]
NotYet == [status |-> 0]
Cancelled == [status |-> 499]

----------------------------------------------------------------------------
(* WebsocketUpgrade::from_request() *)

\* HeaderMap::get() returns the first value of a header.
First(values) == IF values = <<>> THEN {} ELSE {values[1]}

\* Faulty variant: the words are looked for in the bytes, readable or not.
HasWordInBytes(values, word) ==
  \E v \in First(values) : word \in v.words

\* The first value, if it is readable, split at commas and spaces.
HasWord(values, word) ==
  \E v \in First(values) : v.readable /\ word \in v.words

\* The answer the checks lead to: the first one that fails is reported.
from_request(r) ==
  IF ~HasWord(r.connection, "upgrade") THEN "expected connection upgrade"
  ELSE IF ~HasWord(r.upgrade, "websocket") THEN "unexpected protocol for upgrade"
  ELSE IF "13" \notin First(r.sec_websocket_version)
    THEN "missing or invalid websocket version"
  ELSE IF r.sec_websocket_key = <<>> THEN "missing websocket key"
  ELSE "upgrade"

\* derive_accept_key(): the SHA-1 digest of the key and a fixed string.
derive_accept_key(key) == <<"digest of", key>>

----------------------------------------------------------------------------
Init ==
  /\ request = NoRequest
  /\ client = "there"
  /\ inner = "None"
  /\ answer = NotYet /\ sent = NotYet
  /\ upgrade_fut = "none"
  /\ task = "none"
  /\ unhandled = 0
  /\ count \in Starts
  /\ received = <<>>

\* The client sends its request, and the extractor looks at it.
Extract(r) ==
  /\ request = NoRequest /\ client = "there"
  /\ request' = r
  /\ inner' = IF from_request(r) = "upgrade" THEN "Some" ELSE "None"
  /\ upgrade_fut' = IF from_request(r) = "upgrade" THEN "pending" ELSE "none"
  /\ answer' = IF from_request(r) = "upgrade" THEN NotYet
               ELSE [status |-> 400, message |-> from_request(r)]
  /\ UNCHANGED <<client, sent, task, unhandled, count, received>>

Extracted == inner = "Some" /\ answer = NotYet

\* SwitchingToWebsocket::to_result()
SwitchingToWebsocket ==
  [status |-> 101,
   accept |-> derive_accept_key(request.sec_websocket_key[1])]

\* Faulty variant: handle() looks at the option and does not take() it.
handleWithoutTake ==
  /\ Extracted
  /\ task' = "waiting"
  /\ answer' = SwitchingToWebsocket
  /\ unhandled' = unhandled + 1
  /\ inner' = "None"
  /\ UNCHANGED <<request, client, sent, upgrade_fut, count, received>>

\* WebsocketUpgrade::handle(), the way #[channel] calls it: the option is
\* taken, a task is spawned, and the handler returns what handle() returned.
handle ==
  /\ Extracted
  /\ inner' = "None"
  /\ task' = "waiting"
  /\ answer' = SwitchingToWebsocket
  /\ UNCHANGED <<request, client, sent, upgrade_fut, unhandled, count, received>>

\* A handler of an #[endpoint] calls handle() and then returns an error.
HandleAndFail ==
  /\ Extracted
  /\ inner' = "None"
  /\ task' = "waiting"
  /\ answer' = [status |-> 500, message |-> "Internal Server Error"]
  /\ UNCHANGED <<request, client, sent, upgrade_fut, unhandled, count, received>>

\* The handler never calls handle(), or it is cancelled before it does: Drop
\* finds the option and says so; hyper's future goes with it.
DropUpgrade ==
  /\ Extracted
  /\ inner' = "None"
  /\ unhandled' = unhandled + 1
  /\ upgrade_fut' = "dropped"
  /\ answer' = IF client = "there"
               THEN [status |-> 200, message |-> "not upgraded"] ELSE Cancelled
  /\ UNCHANGED <<request, client, sent, task, count, received>>

\* The response goes out.  hyper then gives the connection up, if it was a
\* 101, and otherwise tells the future that there is no upgrade.
Respond ==
  /\ client = "there" /\ answer # NotYet /\ sent = NotYet
  /\ sent' = answer
  /\ upgrade_fut' = IF upgrade_fut # "pending" THEN upgrade_fut
                    ELSE IF answer.status = 101 THEN "Ok" ELSE "Err"
  /\ UNCHANGED <<request, client, inner, answer, task, unhandled, count, received>>

\* The client goes away; a future that was not resolved resolves to an error.
Disconnect ==
  /\ client = "there" /\ request # NoRequest
  /\ client' = "gone"
  /\ upgrade_fut' = IF upgrade_fut = "pending" THEN "Err" ELSE upgrade_fut
  /\ UNCHANGED <<request, inner, answer, sent, task, unhandled, count, received>>

----------------------------------------------------------------------------
(* The task that handle() spawned *)

\* Faulty variant: the task starts the channel whatever the upgrade came to.
UpgradeResolvedUnchecked ==
  /\ task = "waiting"
  /\ task' = "channel"
  /\ UNCHANGED <<request, client, inner, answer, sent, upgrade_fut, unhandled,
                 count, received>>

\* Faulty variant: nothing is done about an upgrade that fails.
UpgradeResolvedOkOnly ==
  /\ task = "waiting" /\ upgrade_fut = "Ok"
  /\ task' = "channel"
  /\ UNCHANGED <<request, client, inner, answer, sent, upgrade_fut, unhandled,
                 count, received>>

\* The future resolves: the channel runs, or the error is logged.
UpgradeResolved ==
  /\ task = "waiting" /\ upgrade_fut \in {"Ok", "Err"}
  /\ task' = IF upgrade_fut = "Ok" THEN "channel" ELSE "ended"
  /\ UNCHANGED <<request, client, inner, answer, sent, upgrade_fut, unhandled,
                 count, received>>

\* Faulty variant: the byte stops at its largest value.
wrapping_addSaturating(b) == IF b = 255 THEN b ELSE b + 1

\* u8::wrapping_add(1)
wrapping_add(b) == (b + 1) % 2^8

\* The channel sends a byte, which fails once the client is gone.
SendByte ==
  /\ task = "channel" /\ Len(received) < MaxSends
  /\ IF client = "there"
     THEN /\ received' = Append(received, count)
          /\ count' = wrapping_add(count)
          /\ UNCHANGED task
     ELSE /\ task' = "ended"
          /\ UNCHANGED <<received, count>>
  /\ UNCHANGED <<request, client, inner, answer, sent, upgrade_fut, unhandled>>

Next ==
  \/ \E r \in Requests : Extract(r)
  \/ handle \/ HandleAndFail \/ DropUpgrade \/ Respond \/ Disconnect
  \/ UpgradeResolved \/ SendByte

\* The runtime polls what is ready, and a handler that was called returns.
\* Clients may stay as long as they like.
Fairness == /\ WF_vars(handle \/ HandleAndFail \/ DropUpgrade)
            /\ WF_vars(Respond)
            /\ WF_vars(UpgradeResolved)

Spec == Init /\ [][Next]_vars /\ Fairness

----------------------------------------------------------------------------
(* Properties *)

Answers == [status: {400}, message: {"expected connection upgrade",
              "unexpected protocol for upgrade",
              "missing or invalid websocket version", "missing websocket key"}]
           \union [status: {200, 500},
                   message: {"not upgraded", "Internal Server Error"}]

\* The type of the state: the outcomes of from_request() and handle(), the
\* stages of the spawned task, and a counter that stays a byte.
TypeOK ==
  /\ request \in Requests \union {NoRequest}
  /\ client \in {"there", "gone"}
  /\ inner \in {"None", "Some"}
  /\ answer \in {NotYet, Cancelled} \/ answer \in Answers \/ answer.status = 101
  /\ sent \in {NotYet, answer}
  /\ upgrade_fut \in {"none", "pending", "dropped", "Ok", "Err"}
  /\ task \in {"none", "waiting", "channel", "ended"}
  /\ unhandled \in {0, 1}
  /\ count \in 0..255
  /\ received \in Seq(0..255)

\* What RFC 6455 asks of an opening handshake, over all values of a header.
AsksForWebsocket(r) ==
  /\ \E i \in DOMAIN r.connection :
       r.connection[i].readable /\ "upgrade" \in r.connection[i].words
  /\ \E i \in DOMAIN r.upgrade :
       r.upgrade[i].readable /\ "websocket" \in r.upgrade[i].words
  /\ \E i \in DOMAIN r.sec_websocket_version : r.sec_websocket_version[i] = "13"
  /\ r.sec_websocket_key # <<>>

\* The connection is switched only for a client that asked for a websocket,
\* and the accept key is the digest of the key that this client sent
\* (websocket.rs:128-190, 55-64).
SwitchOnlyIfAsked ==
  sent.status = 101 =>
    /\ AsksForWebsocket(request)
    /\ \E i \in DOMAIN request.sec_websocket_key :
         sent.accept = derive_accept_key(request.sec_websocket_key[i])

\* The user's channel runs only on a connection that was really switched,
\* though the task is spawned before the response is even built: not when the
\* handler went on to return an error, nor when the client left before the 101
\* (websocket.rs:267-287).
ChannelOnlyAfterSwitch ==
  task = "channel" \/ received # <<>> => sent.status = 101

\* An upgrade that was extracted is either given to handle() or reported as
\* not handled, and never both (websocket.rs:258-259, 300-309).
HandledOrReported == unhandled <= (IF task = "none" THEN 1 ELSE 0)

\* The counter of the examples: each byte is the successor of the one before
\* it, round the end of the byte (examples/websocket.rs:60-63).
BytesConsecutive ==
  \A i \in 1..(Len(received) - 1) :
    received[i + 1] = IF received[i] = 255 THEN 0 ELSE received[i] + 1

\* The spawned task never waits for ever: whatever becomes of the response or
\* of the client, the future resolves (websocket.rs:267-287).
TaskDoesNotHang == task = "waiting" ~> task \in {"channel", "ended"}

\* An upgrade goes its way once and in order: asked for, switched, then used,
\* or else reported (websocket.rs:128-309).
UpgradeSound ==
  TypeOK /\ SwitchOnlyIfAsked /\ ChannelOnlyAfterSwitch /\ HandledOrReported /\ BytesConsecutive

============================================================================
