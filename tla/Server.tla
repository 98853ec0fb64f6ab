------------------------------- MODULE Server -------------------------------
(***************************************************************************)
(* The life of a running Dropshot server (dropshot/src/server.rs): the     *)
(* owner's HttpServer handle, the accept task, the connections that Hyper  *)
(* drives, the request futures and handler tasks on them, and the shared   *)
(* future by which anybody learns that the server has shut down.           *)
(*                                                                         *)
(* What keeps shutdown waiting is reference counting.  Every Arc of        *)
(* DropshotState keeps the primary waitgroup Worker alive, and every       *)
(* detached handler task owns a clone of it; the variables below determine *)
(* who holds which, and handler_waitgroup.wait() completes only when       *)
(* nobody holds anything.  A websocket task holds something only if the    *)
(* closure given to WebsocketUpgrade::handle() does.                       *)
(***************************************************************************)
EXTENDS FiniteSets, Sequences

CONSTANTS
  Conns,     \* TCP connections that clients may open (each at most once)
  Requests,  \* requests that clients may send (each at most once)
  Http2,     \* the connections that speak HTTP/2; the others speak HTTP/1.1
  Mode,      \* ServerConfig::default_handler_task_mode
  UseTls,    \* whether the server was built with a TLS configuration
  NoConn     \* the connection of a request that has not been sent

ASSUME ServerAssumption ==
  /\ Http2 \subseteq Conns
  /\ Mode \in {"CancelOnDisconnect", "Detached"}
  /\ UseTls \in BOOLEAN
  /\ NoConn \notin Conns

VARIABLES
  owner,         \* the code that owns the HttpServer, and how far close() got
  waiter,        \* whether a ShutdownWaitFuture is being awaited
  close_channel, \* the oneshot channel from HttpServer to the accept task
  accept_task,   \* the task spawned by start()
  join_future,   \* progress of the shared future that start() builds
  conn,          \* each connection, as the server sees it
  gone,          \* history: requests whose client went away
  req,           \* each http_request_handle_wrap() future
  reqConn,       \* the connection each request was sent on
  handler,       \* each execution of an endpoint's handler function
  channel,       \* Detached: the oneshot that carries the handler's result
  worker,        \* Detached: the tasks that hold a waitgroup Worker clone
  websocket,     \* the task that WebsocketUpgrade::handle() spawns
  captured,      \* the websocket tasks that own a RequestContext
  records,       \* completion records (request__done) of each request
  unsent         \* the responses that Hyper has not written to the end

ownerVars == <<owner, waiter, close_channel, accept_task, join_future>>
connVars  == <<conn, gone>>
taskVars  == <<handler, channel, worker, websocket, captured>>
reqVars   == <<req, reqConn, taskVars, records, unsent>>
vars      == <<ownerVars, connVars, reqVars>>

\* The states that each part of the server can be in, and its channels and
\* completion records (server.rs 251-376, 742-1028).
TypeOK ==
  /\ owner \in {"holding", "signalled", "waiting", "returned", "dropped",
                "panicked"}
  /\ waiter \in BOOLEAN
  /\ close_channel \in {"open", "sent", "closed"}
  /\ accept_task \in {"accepting", "draining", "done", "lost"}
  /\ join_future \in {"task", "waitgroup", "ok", "err"}
  /\ conn \in [Conns -> {"none", "backlog", "negotiating", "open", "closing",
                         "upgraded", "closed"}]
  /\ gone \subseteq Requests
  /\ req \in [Requests -> {"none", "routing", "running", "completed",
                           "cancelled", "panicked"}]
  /\ reqConn \in [Requests -> Conns \cup {NoConn}]
  /\ handler \in [Requests -> {"none", "extracting", "running", "returned",
                               "cancelled", "panicked"}]
  /\ channel \in [Requests -> {"none", "empty", "result", "dropped"}]
  /\ worker \subseteq Requests
  /\ websocket \in [Requests -> {"none", "pending", "running", "done"}]
  /\ captured \subseteq Requests
  /\ records \in [Requests -> Seq({"done", "499"})]
  /\ unsent \subseteq Requests

-----------------------------------------------------------------------------
(* Who holds what.                                                         *)

Detached == Mode = "Detached"

\* A request future exists from the call of the service until it returns, is
\* dropped, or unwinds; it owns an Arc of the server state all along.
Alive(r) == req[r] \in {"routing", "running"}

\* handle_request() is under way: the extractors, then the handler function.
Executing(r) == handler[r] \in {"extracting", "running"}

\* The task of WebsocketUpgrade::handle(), waiting for the upgrade or running.
InChannel(r) == websocket[r] \in {"pending", "running"}

\* The RequestContext owns an Arc too.  It lives in handle_request() and in the
\* websocket task if the closure there captures it.
HoldsRqctx(r) == Executing(r) \/ r \in captured

\* Faulty variant: close() awaits join_future before it releases app_state.
OwnerHoldsStateWhileWaiting == owner \in {"holding", "signalled", "waiting"}

\* HttpServer::app_state, until close() or Drop releases it.
OwnerHoldsState == owner \in {"holding", "signalled"}

\* The make_service in the accept task, and the ServerRequestHandler of each
\* connection future.
AcceptTaskHoldsState == accept_task \in {"accepting", "draining"}

Served(c) == conn[c] \in {"open", "closing"}

\* Every Worker is gone: the clones and the primary one in DropshotState.
WaitgroupEmpty ==
  /\ worker = {}
  /\ ~ OwnerHoldsState
  /\ ~ AcceptTaskHoldsState
  /\ \A c \in Conns : ~ Served(c)
  /\ \A r \in Requests : ~ Alive(r) /\ ~ HoldsRqctx(r)

\* The TCP listener.  With TLS the accept loop owns it and drops it on leaving
\* the loop; without, it lives as long as the accept task.
ListenerOpen ==
  \/ accept_task = "accepting"
  \/ accept_task = "draining" /\ ~ UseTls

\* Connections that the listener or the TLS acceptor still owns.
Unserved(c) == conn[c] \in {"backlog", "negotiating"}

\* Faulty variant: connections are told only after the accept task has ended.
ShutdownSignalledLate == accept_task = "done"

\* GracefulShutdown's watch channel: signalled, or its sender dropped.
ShutdownSignalled == accept_task # "accepting"

\* HTTP/1.1 reads the next request only when the last one is answered and the
\* answer is written.
OnConn(c) == {r \in Requests : reqConn[r] = c}

Busy(c) == \E r \in OnConn(c) : Alive(r) \/ r \in unsent

\* The connection future owns its HTTP/1.1 request future; HTTP/2 streams are
\* tasks of their own.
Owned(c) == {r \in OnConn(c) : c \notin Http2 /\ Alive(r)}

-----------------------------------------------------------------------------
Init ==
  /\ owner = "holding"
  /\ waiter = FALSE
  /\ close_channel = "open"
  /\ accept_task = "accepting"
  /\ join_future = "task"
  /\ conn = [c \in Conns |-> "none"]
  /\ gone = {}
  /\ req = [r \in Requests |-> "none"]
  /\ reqConn = [r \in Requests |-> NoConn]
  /\ handler = [r \in Requests |-> "none"]
  /\ channel = [r \in Requests |-> "none"]
  /\ worker = {}
  /\ websocket = [r \in Requests |-> "none"]
  /\ captured = {}
  /\ records = [r \in Requests |-> <<>>]
  /\ unsent = {}

-----------------------------------------------------------------------------
(* The owner of the HttpServer.                                            *)

\* close(): send the close signal.  If the accept task is gone, so is the
\* receiver, and close() panics; unwinding drops the HttpServer.
CloseSend ==
  /\ owner = "holding"
  /\ \/ /\ close_channel = "open"
        /\ close_channel' = "sent"
        /\ owner' = "signalled"
     \/ /\ close_channel = "closed"
        /\ owner' = "panicked"
        /\ UNCHANGED close_channel
  /\ UNCHANGED <<waiter, accept_task, join_future, connVars, reqVars>>

\* close(): release app_state, then await join_future.
CloseDropState ==
  /\ owner = "signalled"
  /\ owner' = "waiting"
  /\ UNCHANGED <<waiter, close_channel, accept_task, join_future, connVars,
                 reqVars>>

\* close(): join_future is ready.
CloseReturn ==
  /\ owner = "waiting"
  /\ join_future \in {"ok", "err"}
  /\ owner' = "returned"
  /\ UNCHANGED <<waiter, close_channel, accept_task, join_future, connVars,
                 reqVars>>

\* The HttpServer is dropped without close(): CloseHandle's Drop sends the
\* signal and ignores a receiver that is gone.
DropServer ==
  /\ owner = "holding"
  /\ owner' = "dropped"
  /\ close_channel' = IF close_channel = "open" THEN "sent" ELSE close_channel
  /\ UNCHANGED <<waiter, accept_task, join_future, connVars, reqVars>>

\* The future returned by close() is dropped while it waits.
AbandonClose ==
  /\ owner = "waiting"
  /\ owner' = "dropped"
  /\ UNCHANGED <<waiter, close_channel, accept_task, join_future, connVars,
                 reqVars>>

\* wait_for_shutdown(): a clone of join_future, which outlives the HttpServer.
WaitForShutdown ==
  /\ owner = "holding"
  /\ ~ waiter
  /\ waiter' = TRUE
  /\ UNCHANGED <<owner, close_channel, accept_task, join_future, connVars,
                 reqVars>>

-----------------------------------------------------------------------------
(* The shared join_future.  It advances only while somebody polls it: the  *)
(* HttpServer itself, close(), or a ShutdownWaitFuture.                    *)

Polled == owner \in {"holding", "waiting"} \/ waiter

\* Faulty variant: the end of the accept task is taken for the end of shutdown.
JoinTaskOnly ==
  /\ Polled
  /\ join_future = "task"
  /\ \/ accept_task = "done" /\ join_future' = "ok"
     \/ accept_task = "lost" /\ join_future' = "err"
  /\ UNCHANGED <<owner, waiter, close_channel, accept_task, connVars, reqVars>>

\* The accept task ended, or was lost: then shutdown fails without waiting
\* for the handlers.
JoinTask ==
  /\ Polled
  /\ join_future = "task"
  /\ \/ accept_task = "done" /\ join_future' = "waitgroup"
     \/ accept_task = "lost" /\ join_future' = "err"
  /\ UNCHANGED <<owner, waiter, close_channel, accept_task, connVars, reqVars>>

\* Faulty variant: nobody waits for the waitgroup.
JoinWaitgroupUnchecked ==
  /\ Polled
  /\ join_future = "waitgroup"
  /\ join_future' = "ok"
  /\ UNCHANGED <<owner, waiter, close_channel, accept_task, connVars, reqVars>>

\* handler_waitgroup.wait() completes.
JoinWaitgroup ==
  /\ Polled
  /\ join_future = "waitgroup"
  /\ WaitgroupEmpty
  /\ join_future' = "ok"
  /\ UNCHANGED <<owner, waiter, close_channel, accept_task, connVars, reqVars>>

-----------------------------------------------------------------------------
(* The accept task.                                                        *)

\* A client's TCP connection enters the listener's backlog.
Connect(c) ==
  /\ ListenerOpen
  /\ conn[c] = "none"
  /\ conn' = [conn EXCEPT ![c] = "backlog"]
  /\ UNCHANGED <<gone, ownerVars, reqVars>>

\* The accept branch of select!.  It stays enabled after the close signal is
\* sent: select! picks either ready branch.
Accept(c) ==
  /\ accept_task = "accepting"
  /\ conn[c] = "backlog"
  /\ conn' = [conn EXCEPT ![c] = IF UseTls THEN "negotiating" ELSE "open"]
  /\ UNCHANGED <<gone, ownerVars, reqVars>>

\* A TLS negotiation ends.  A failure is logged and goes no further.
Negotiated(c) ==
  /\ accept_task = "accepting"
  /\ conn[c] = "negotiating"
  /\ \E result \in {"open", "closed"} : conn' = [conn EXCEPT ![c] = result]
  /\ UNCHANGED <<gone, ownerVars, reqVars>>

\* Faulty variant: the listener outlives the accept task.
ListenerDroppedNever == UNCHANGED conn

\* The connections the listener owned are reset when it is dropped.
ListenerDropped ==
  conn' = [c \in Conns |-> IF Unserved(c) THEN "closed" ELSE conn[c]]

\* The close branch of select!: leave the accept loop and signal a graceful
\* shutdown to every connection.
BeginShutdown ==
  /\ accept_task = "accepting"
  /\ close_channel = "sent"
  /\ accept_task' = "draining"
  /\ IF UseTls THEN ListenerDropped ELSE UNCHANGED conn
  /\ UNCHANGED <<owner, waiter, close_channel, join_future, gone, reqVars>>

\* graceful.shutdown() returns when no watched connection is left.
Drained ==
  /\ accept_task = "draining"
  /\ \A c \in Conns : ~ Served(c)
  /\ accept_task' = "done"
  /\ ListenerDropped
  /\ UNCHANGED <<owner, waiter, close_channel, join_future, gone, reqVars>>

\* The executor drops the accept task, and with it the receiver of the close
\* signal, the listener and the graceful watcher.
AcceptTaskLost ==
  /\ accept_task \in {"accepting", "draining"}
  /\ accept_task' = "lost"
  /\ close_channel' = IF close_channel = "open" THEN "closed" ELSE close_channel
  /\ ListenerDropped
  /\ UNCHANGED <<owner, waiter, join_future, gone, reqVars>>

-----------------------------------------------------------------------------
(* Connections (Hyper).                                                    *)

\* The connection task sees the shutdown signal: it takes no new request.
SeeShutdown(c) ==
  /\ ShutdownSignalled
  /\ conn[c] = "open"
  /\ conn' = [conn EXCEPT ![c] = "closing"]
  /\ UNCHANGED <<gone, ownerVars, reqVars>>

\* A connection that is shutting down ends when it has no request left and no
\* response to write.
ConnFinished(c) ==
  /\ conn[c] = "closing"
  /\ ~ Busy(c)
  /\ conn' = [conn EXCEPT ![c] = "closed"]
  /\ UNCHANGED <<gone, ownerVars, reqVars>>

\* Faulty variant: a detached handler is dropped with the request future.
DropFuturesAndHandlers(R) ==
  /\ req' = [r \in Requests |-> IF r \in R THEN "cancelled" ELSE req[r]]
  /\ records' = [r \in Requests |->
                   IF r \in R THEN Append(records[r], "499") ELSE records[r]]
  /\ handler' = [r \in Requests |->
                   IF r \in R /\ Executing(r)
                   THEN "cancelled" ELSE handler[r]]
  /\ UNCHANGED <<reqConn, channel, worker, websocket, captured>>

\* Faulty variant: every handler survives the request future.
DropFuturesOnly(R) ==
  /\ req' = [r \in Requests |-> IF r \in R THEN "cancelled" ELSE req[r]]
  /\ records' = [r \in Requests |->
                   IF r \in R THEN Append(records[r], "499") ELSE records[r]]
  /\ UNCHANGED <<reqConn, taskVars>>

\* What becomes of the requests in R when their futures are dropped.  The
\* scope guard is still armed, so the request is recorded as a 499; an inline
\* handler is dropped with its future, a detached one runs on.
DropFutures(R) ==
  /\ req' = [r \in Requests |-> IF r \in R THEN "cancelled" ELSE req[r]]
  /\ records' = [r \in Requests |->
                   IF r \in R THEN Append(records[r], "499") ELSE records[r]]
  /\ handler' = [r \in Requests |->
                   IF r \in R /\ Executing(r) /\ ~ Detached
                   THEN "cancelled" ELSE handler[r]]
  /\ UNCHANGED <<reqConn, channel, worker, websocket, captured>>

\* The client disconnects, and what was to be written is lost.
Disconnect(c) ==
  /\ Served(c)
  /\ conn' = [conn EXCEPT ![c] = "closed"]
  /\ gone' = gone \cup OnConn(c)
  /\ unsent' = unsent \ OnConn(c)
  /\ DropFutures(Owned(c))
  /\ UNCHANGED ownerVars

\* The task of an HTTP/2 stream ends because its connection did, or because
\* the client has reset the stream.
StreamDropped(r) ==
  /\ Alive(r)
  /\ reqConn[r] \in Http2
  /\ gone' = gone \cup {r}
  /\ DropFutures({r})
  /\ UNCHANGED <<unsent, conn, ownerVars>>

\* The client takes a response to its end, or resets the stream it is on.
ResponseLeaves(r) ==
  /\ r \in unsent
  /\ unsent' = unsent \ {r}
  /\ UNCHANGED <<req, reqConn, taskVars, records, connVars, ownerVars>>

-----------------------------------------------------------------------------
(* A request: http_request_handle_wrap() and http_request_handle().        *)

Arrive(c, r) ==
  /\ conn[c] = "open"
  /\ req[r] = "none"
  /\ c \in Http2 \/ ~ Busy(c)
  /\ req' = [req EXCEPT ![r] = "routing"]
  /\ reqConn' = [reqConn EXCEPT ![r] = c]
  /\ UNCHANGED <<taskVars, records, unsent, connVars, ownerVars>>

\* Faulty variant: the scope guard is not defused.
CompleteGuardArmed(r) ==
  /\ req' = [req EXCEPT ![r] = "completed"]
  /\ records' = [records EXCEPT ![r] = @ \o <<"done", "499">>]
  /\ unsent' = IF Served(reqConn[r]) THEN unsent \cup {r} ELSE unsent

\* The future returns a response: the scope guard is defused, the request is
\* recorded as done, and Hyper has the response to write, if the connection
\* still stands.
Complete(r) ==
  /\ req' = [req EXCEPT ![r] = "completed"]
  /\ records' = [records EXCEPT ![r] = Append(@, "done")]
  /\ unsent' = IF Served(reqConn[r]) THEN unsent \cup {r} ELSE unsent

\* No acceptable version, or no route: an error response.
RouteFails(r) ==
  /\ req[r] = "routing"
  /\ Complete(r)
  /\ UNCHANGED <<reqConn, taskVars, connVars, ownerVars>>

\* CancelOnDisconnect: handle_request() runs as part of the request future.
RunInline(r) ==
  /\ ~ Detached
  /\ req[r] = "routing"
  /\ req' = [req EXCEPT ![r] = "running"]
  /\ handler' = [handler EXCEPT ![r] = "extracting"]
  /\ UNCHANGED <<reqConn, channel, worker, websocket, captured, records, unsent,
                 connVars, ownerVars>>

\* Faulty variant: the task gets no Worker of its own.
SpawnDetachedNoWorker(r) ==
  /\ Detached
  /\ req[r] = "routing"
  /\ req' = [req EXCEPT ![r] = "running"]
  /\ handler' = [handler EXCEPT ![r] = "extracting"]
  /\ channel' = [channel EXCEPT ![r] = "empty"]
  /\ UNCHANGED <<reqConn, worker, websocket, captured, records, unsent, connVars,
                 ownerVars>>

\* Detached: handle_request() runs in a task with its own Worker clone, and
\* the request future awaits the channel.
SpawnDetached(r) ==
  /\ Detached
  /\ req[r] = "routing"
  /\ req' = [req EXCEPT ![r] = "running"]
  /\ handler' = [handler EXCEPT ![r] = "extracting"]
  /\ channel' = [channel EXCEPT ![r] = "empty"]
  /\ worker' = worker \cup {r}
  /\ UNCHANGED <<reqConn, websocket, captured, records, unsent, connVars,
                 ownerVars>>

\* The extractors have what they need: the last of the body from the client,
\* if there is one.  The handler function starts.
Extracted(r) ==
  /\ handler[r] = "extracting"
  /\ handler' = [handler EXCEPT ![r] = "running"]
  /\ UNCHANGED <<req, reqConn, channel, worker, websocket, captured, records,
                 unsent, connVars, ownerVars>>

\* The handler gives its websocket upgrade to handle(), which spawns a task
\* that waits for the upgrade; upgrades exist in HTTP/1.1 only.  The task owns
\* the closure it was given: that of a #[channel] owns the RequestContext,
\* another owns what its author moved into it.
HandleUpgrade(r) ==
  /\ handler[r] = "running"
  /\ reqConn[r] \notin Http2
  /\ websocket[r] = "none"
  /\ websocket' = [websocket EXCEPT ![r] = "pending"]
  /\ captured' \in {captured, captured \cup {r}}
  /\ UNCHANGED <<req, reqConn, handler, channel, worker, records, unsent,
                 connVars, ownerVars>>

\* handle_request() returns, to the request future or to the detached task,
\* since the handler did or an extractor failed: a bad parameter or body, or a
\* body that broke off.
HandlerReturns(r) ==
  /\ Executing(r)
  /\ handler' = [handler EXCEPT ![r] = "returned"]
  /\ IF Detached THEN UNCHANGED <<req, records, unsent>> ELSE Complete(r)
  /\ UNCHANGED <<reqConn, channel, worker, websocket, captured, connVars,
                 ownerVars>>

\* Faulty variant: the sender is dropped instead of used.
SendResultDropped(r) ==
  /\ handler[r] = "returned"
  /\ channel[r] = "empty"
  /\ channel' = [channel EXCEPT ![r] = "dropped"]
  /\ UNCHANGED <<req, reqConn, handler, worker, websocket, captured, records,
                 unsent, connVars, ownerVars>>

\* Detached: the task sends the result.  If the request future is gone the
\* send fails and the late result is only logged.
SendResult(r) ==
  /\ handler[r] = "returned"
  /\ channel[r] = "empty"
  /\ channel' = [channel EXCEPT ![r] = IF Alive(r) THEN "result" ELSE "dropped"]
  /\ UNCHANGED <<req, reqConn, handler, worker, websocket, captured, records,
                 unsent, connVars, ownerVars>>

\* Detached: the task drops its Worker and ends.
DropWorker(r) ==
  /\ r \in worker
  /\ channel[r] \in {"result", "dropped"}
  /\ worker' = worker \ {r}
  /\ UNCHANGED <<req, reqConn, handler, channel, websocket, captured, records,
                 unsent, connVars, ownerVars>>

\* Detached: rx.await yields the result.
ReceiveResult(r) ==
  /\ req[r] = "running"
  /\ channel[r] = "result"
  /\ Complete(r)
  /\ UNCHANGED <<reqConn, taskVars, connVars, ownerVars>>

\* A panic unwinds through the request future: its armed scope guard records
\* a 499.  In HTTP/1.1 it takes the connection task along, in HTTP/2 only the
\* task of the stream.
Unwind(r) ==
  /\ req' = [req EXCEPT ![r] = "panicked"]
  /\ records' = [records EXCEPT ![r] = Append(@, "499")]
  /\ conn' = IF reqConn[r] \in Http2 THEN conn
             ELSE [conn EXCEPT ![reqConn[r]] = "closed"]

\* Faulty variant: somebody keeps the sender when a detached task panics.
HandlerPanicsSenderKept(r) ==
  /\ Detached
  /\ Executing(r)
  /\ handler' = [handler EXCEPT ![r] = "panicked"]
  /\ worker' = worker \ {r}
  /\ UNCHANGED <<req, reqConn, channel, websocket, captured, records, unsent,
                 connVars, ownerVars>>

\* An extractor or the handler panics.  A detached task drops its sender and
\* its Worker; an inline handler takes the request future along.
HandlerPanics(r) ==
  /\ Executing(r)
  /\ handler' = [handler EXCEPT ![r] = "panicked"]
  /\ IF Detached
     THEN /\ channel' = [channel EXCEPT ![r] = "dropped"]
          /\ worker' = worker \ {r}
          /\ UNCHANGED <<req, records, conn>>
     ELSE Unwind(r) /\ UNCHANGED <<channel, worker>>
  /\ UNCHANGED <<reqConn, websocket, captured, unsent, gone, ownerVars>>

\* Detached: rx.await fails because the sender is gone, which means that the
\* handler panicked; resume_unwind() propagates it.
PropagatePanic(r) ==
  /\ req[r] = "running"
  /\ channel[r] = "dropped"
  /\ Unwind(r)
  /\ UNCHANGED <<reqConn, taskVars, unsent, gone, ownerVars>>

-----------------------------------------------------------------------------
(* The websocket task that WebsocketUpgrade::handle() spawns.              *)

\* Hyper has written the 101 response: the connection future ends and hands
\* its socket to the task.
Upgrade(r) ==
  /\ websocket[r] = "pending"
  /\ r \in unsent
  /\ websocket' = [websocket EXCEPT ![r] = "running"]
  /\ unsent' = unsent \ {r}
  /\ conn' = [conn EXCEPT ![reqConn[r]] = "upgraded"]
  /\ UNCHANGED <<req, reqConn, handler, channel, worker, captured, records, gone,
                 ownerVars>>

\* The task ends and drops the closure with what it owns.
TaskEnds(r) ==
  /\ websocket' = [websocket EXCEPT ![r] = "done"]
  /\ captured' = captured \ {r}
  /\ UNCHANGED <<req, reqConn, handler, channel, worker, records, unsent, gone,
                 ownerVars>>

\* The connection ended first, or the answer that was written is not a 101
\* (the handler failed after it had called handle()): the upgrade future fails.
UpgradeFails(r) ==
  /\ websocket[r] = "pending"
  /\ \/ conn[reqConn[r]] = "closed"
     \/ req[r] = "completed" /\ r \notin unsent
  /\ TaskEnds(r)
  /\ UNCHANGED conn

\* The closure's own code ends.
WebsocketEnds(r) ==
  /\ websocket[r] = "running"
  /\ TaskEnds(r)
  /\ conn' = [conn EXCEPT ![reqConn[r]] = "closed"]

-----------------------------------------------------------------------------
\* The server has stopped and every task that owns a part of it has ended.
Terminated ==
  /\ owner \in {"returned", "dropped", "panicked"}
  /\ accept_task \in {"done", "lost"}
  /\ WaitgroupEmpty
  /\ UNCHANGED vars

OwnerNext ==
  \/ CloseSend \/ CloseDropState \/ CloseReturn
  \/ DropServer \/ AbandonClose \/ WaitForShutdown
  \/ JoinTask \/ JoinWaitgroup
  \/ BeginShutdown \/ Drained \/ AcceptTaskLost

ConnNext(c) ==
  \/ Connect(c) \/ Accept(c) \/ Negotiated(c)
  \/ SeeShutdown(c) \/ ConnFinished(c) \/ Disconnect(c)
  \/ \E r \in Requests : Arrive(c, r)

RequestNext(r) ==
  \/ RouteFails(r) \/ RunInline(r) \/ SpawnDetached(r)
  \/ Extracted(r) \/ HandleUpgrade(r) \/ HandlerReturns(r) \/ HandlerPanics(r)
  \/ SendResult(r) \/ DropWorker(r) \/ ReceiveResult(r) \/ PropagatePanic(r)
  \/ StreamDropped(r) \/ ResponseLeaves(r)
  \/ Upgrade(r) \/ UpgradeFails(r) \/ WebsocketEnds(r)

Next ==
  \/ OwnerNext
  \/ \E c \in Conns : ConnNext(c)
  \/ \E r \in Requests : RequestNext(r)
  \/ Terminated

Spec == Init /\ [][Next]_vars

(***************************************************************************)
(* Fairness.  The runtime polls every task that is ready (tokio), so the   *)
(* server's own steps and Hyper's are weakly fair; close() goes on once it *)
(* has started.  An extractor is sure to go on only when the client is     *)
(* gone, for then the body ends or breaks off.  No fairness is assumed of  *)
(* clients, who send a body and take a response when they like (the server *)
(* has no timeouts), nor of handlers and websocket closures, which are     *)
(* user code; nobody has to call close().                                  *)
(***************************************************************************)
ClientGone(r) == r \in gone

Fairness ==
  /\ WF_vars(CloseDropState) /\ WF_vars(CloseReturn)
  /\ WF_vars(JoinTask) /\ WF_vars(JoinWaitgroup)
  /\ WF_vars(BeginShutdown) /\ WF_vars(Drained)
  /\ \A c \in Conns : WF_vars(SeeShutdown(c)) /\ WF_vars(ConnFinished(c))
  /\ \A r \in Requests :
       /\ WF_vars(RouteFails(r) \/ RunInline(r) \/ SpawnDetached(r))
       /\ WF_vars(/\ handler[r] = "extracting" /\ ClientGone(r)
                  /\ Extracted(r) \/ HandlerReturns(r))
       /\ WF_vars(SendResult(r)) /\ WF_vars(DropWorker(r))
       /\ WF_vars(ReceiveResult(r)) /\ WF_vars(PropagatePanic(r))
       /\ WF_vars(StreamDropped(r) /\ conn[reqConn[r]] = "closed")
       /\ WF_vars(UpgradeFails(r))

FairSpec == Spec /\ Fairness

(***************************************************************************)
(* What the server waits for and cannot hurry: the rest of a body from a   *)
(* client that is there, the handler function, a client that reads its     *)
(* response, a websocket closure that owns the request's context.  The     *)
(* liveness properties speak of behaviours in which nothing of that lasts  *)
(* for ever; they are the behaviours in which graceful shutdown can end.   *)
(***************************************************************************)
Stalls(r) ==
  \/ handler[r] = "extracting" /\ ~ ClientGone(r)
  \/ handler[r] = "running"
  \/ r \in unsent
  \/ r \in captured /\ websocket[r] = "running"

NotForEver(r) == []<>(~ Stalls(r))

NobodyStalls == \A r \in Requests : NotForEver(r)

-----------------------------------------------------------------------------
(* Properties.                                                             *)

\* Nothing of the server is left: no connection is served or queued, no
\* response is half written, no request future, handler or detached task
\* exists, and app_state is released.  A websocket task may be left, but none
\* that owns a RequestContext.
NothingLeft ==
  /\ \A c \in Conns : ~ Served(c) /\ ~ Unserved(c)
  /\ unsent = {}
  /\ \A r \in Requests : ~ Alive(r) /\ ~ Executing(r) /\ r \notin worker
  /\ \A r \in Requests : InChannel(r) => r \notin captured
  /\ ~ OwnerHoldsState

\* When join_future yields Ok(()), which is what close() and
\* wait_for_shutdown() report, nothing of the server is left, and every
\* response was written to its end or its client went away (server.rs 341-349,
\* 691-707).  The state of the server has its type.
ShutdownComplete ==
  /\ TypeOK
  /\ join_future = "ok" => NothingLeft

\* Once a shutdown has succeeded nothing of the server moves again: no late
\* connection, request or handler slips in behind the close signal.  Only the
\* websocket tasks that own nothing of the server may still come to an end,
\* and their connections with them (websocket.rs 253-297).
QuietAfterShutdown ==
  [][join_future = "ok" =>
       /\ UNCHANGED <<accept_task, gone, req, reqConn, handler, channel, worker,
                      captured, records, unsent>>
       /\ \A c \in Conns : conn'[c] # conn[c] =>
                             conn[c] = "upgraded" /\ conn'[c] = "closed"
       /\ \A r \in Requests : websocket'[r] # websocket[r] =>
                                InChannel(r) /\ websocket'[r] = "done"]_vars

\* HandlerTaskMode::Detached: whatever the client does, a handler that has
\* started leaves only by returning or by its own panic (config.rs 101-104).
DetachedRunsToCompletion ==
  [][Detached => \A r \in Requests :
       Executing(r) => Executing(r)' \/ handler'[r] \in {"returned", "panicked"}]_vars

\* HandlerTaskMode::CancelOnDisconnect: a handler runs only as long as its
\* request future, so none outlives its connection (config.rs 97-99).
CancelledWithClient ==
  ~ Detached => \A r \in Requests :
    Executing(r) => req[r] = "running"

\* Every request future that has ended, in whichever way, left exactly one
\* completion record: the scope guard and the normal path never both fire and
\* never both stay silent (server.rs 809-895).
RecordedOnce ==
  \A r \in Requests :
    Len(records[r]) = IF req[r] \in {"completed", "cancelled", "panicked"}
                      THEN 1 ELSE 0

\* The assertion of http_request_handle: the result channel breaks under an
\* awaiting request only if the handler panicked, so expect_err() cannot fail
\* (server.rs 977-995); and a request is answered from a handler only if that
\* handler returned.
PanicIsTheOnlyLoss ==
  \A r \in Requests :
    /\ req[r] = "running" /\ channel[r] = "dropped" => handler[r] = "panicked"
    /\ req[r] = "panicked" => handler[r] = "panicked"
    /\ req[r] = "completed" => handler[r] \in {"none", "returned"}

\* close() and wait_for_shutdown() do not hang once the signal is sent, if no
\* handler, client with a body or a response under way, or websocket closure
\* that owns its request's context stalls for ever: whoever polls join_future
\* sees it resolved.  Idle clients, clients in the backlog or in a TLS
\* negotiation, and other websocket tasks do not hold it up (server.rs 336,
\* 341-349, 699-706).
ShutdownTerminates ==
  NobodyStalls =>
    /\ owner = "signalled" ~> owner \in {"returned", "dropped"}
    /\ (waiter /\ close_channel = "sent") ~> join_future \in {"ok", "err"}

\* A client left in the listener's backlog when the server closes is not kept
\* waiting once nothing that the server waits for stalls: it is accepted or
\* its connection is reset (server.rs 313-336).
BacklogResolved ==
  NobodyStalls =>
    \A c \in Conns :
      conn[c] = "backlog" /\ close_channel = "sent" ~> conn[c] # "backlog"

\* Every request that reaches the server is answered or abandoned, and leaves
\* its record, if its own client and its own handler do not stall for ever,
\* whatever others do (server.rs 746-901).
RequestsEnd ==
  \A r \in Requests :
    NotForEver(r) => (req[r] = "routing" ~> records[r] # <<>>)

-----------------------------------------------------------------------------
(* The server implements ServerLifecycle.                                  *)

phaseBar ==
  IF join_future = "ok" THEN "stopped"
  ELSE IF join_future = "err" THEN "failed"
  ELSE IF close_channel = "sent" THEN "stopping"
  ELSE "up"

activeBar == {r \in Requests : HoldsRqctx(r)}

\* Code that goes on in a websocket task without a hold on the server.
freeBar == {r \in Requests : InChannel(r) /\ ~ HoldsRqctx(r)}

endedBar == {r \in Requests : handler[r] # "none"} \ (activeBar \cup freeBar)

Lifecycle == INSTANCE ServerLifecycle
               WITH phase <- phaseBar, active <- activeBar, free <- freeBar,
                    ended <- endedBar

\* The server as a whole is an implementation of the lifecycle its owner
\* relies on.
LifecycleRefined == Lifecycle!LifecycleSpec

=============================================================================
