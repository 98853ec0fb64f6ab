---------------------------- MODULE ServerProofs ----------------------------
(***************************************************************************)
(* Proofs about the server's lifecycle, for any number of connections and  *)
(* requests, both handler task modes, with and without TLS.                *)
(***************************************************************************)
EXTENDS Server, SequenceTheorems, TLAPS

-----------------------------------------------------------------------------
(* Type correctness.                                                       *)

\* Adding a completion record to a request's records gives a sequence of
\* records that is longer by one.
LEMMA AppendRecord ==
  ASSUME TypeOK, NEW r \in Requests, NEW e \in {"done", "499"}
  PROVE  /\ Append(records[r], e) \in Seq({"done", "499"})
         /\ Len(records[r]) = 0 => Len(Append(records[r], e)) = 1
BY AppendProperties DEF TypeOK

\* Every step keeps the variables of the server within their types, whatever
\* the handler task mode and with or without TLS.
LEMMA TypeStep == TypeOK /\ [Next]_vars => TypeOK'
<1> SUFFICES ASSUME TypeOK, [Next]_vars PROVE TypeOK'
  OBVIOUS
<1> USE DEF TypeOK, ownerVars, connVars, reqVars, taskVars
<1>1. CASE OwnerNext
  <2>1. CASE CloseSend \/ CloseDropState \/ CloseReturn
    BY <2>1 DEF CloseSend, CloseDropState, CloseReturn
  <2>2. CASE DropServer \/ AbandonClose \/ WaitForShutdown
    BY <2>2 DEF DropServer, AbandonClose, WaitForShutdown
  <2>3. CASE JoinTask \/ JoinWaitgroup
    BY <2>3 DEF JoinTask, JoinWaitgroup
  <2>4. CASE BeginShutdown
    BY <2>4 DEF BeginShutdown, ListenerDropped
  <2>5. CASE Drained \/ AcceptTaskLost
    BY <2>5 DEF Drained, AcceptTaskLost, ListenerDropped
  <2>6. QED
    BY <1>1, <2>1, <2>2, <2>3, <2>4, <2>5 DEF OwnerNext
<1>2. ASSUME NEW c \in Conns, ConnNext(c) PROVE TypeOK'
  <2>1. CASE Connect(c) \/ Accept(c) \/ Negotiated(c) \/ SeeShutdown(c)
             \/ ConnFinished(c)
    <3>1. CASE Connect(c)
      BY <3>1 DEF Connect
    <3>2. CASE SeeShutdown(c) \/ ConnFinished(c)
      BY <3>2 DEF SeeShutdown, ConnFinished
    <3>3. CASE Accept(c) \/ Negotiated(c)
      BY <3>3 DEF Accept, Negotiated
    <3>4. QED
      BY <2>1, <3>1, <3>2, <3>3
  <2>2. CASE Disconnect(c)
    BY <2>2, AppendRecord DEF Disconnect, DropFutures, OnConn
  <2>3. ASSUME NEW r \in Requests, Arrive(c, r) PROVE TypeOK'
    BY <2>3 DEF Arrive
  <2>4. QED BY <1>2, <2>1, <2>2, <2>3 DEF ConnNext
<1>3. ASSUME NEW r \in Requests, RequestNext(r) PROVE TypeOK'
  <2>1. CASE RouteFails(r)
    BY <2>1, AppendRecord DEF RouteFails, Complete
  <2>2. CASE RunInline(r) \/ SpawnDetached(r)
    <3>1. CASE RunInline(r)
      BY <3>1 DEF RunInline
    <3>2. CASE SpawnDetached(r)
      BY <3>2 DEF SpawnDetached
    <3>3. QED
      BY <2>2, <3>1, <3>2
  <2>3. CASE Extracted(r) \/ HandleUpgrade(r) \/ HandlerReturns(r)
    <3>1. CASE Extracted(r)
      BY <3>1 DEF Extracted
    <3>2. CASE HandleUpgrade(r)
      BY <3>2 DEF HandleUpgrade
    <3>3. CASE HandlerReturns(r) /\ Detached
      BY <3>3 DEF HandlerReturns
    <3>4. CASE HandlerReturns(r) /\ ~ Detached
      <4>1. Append(records[r], "done") \in Seq({"done", "499"})
        BY AppendRecord
      <4>2. Complete(r)
        BY <3>4 DEF HandlerReturns
      <4>3. QED
        BY <3>4, <4>1, <4>2 DEF HandlerReturns, Complete
    <3>5. QED
      BY <2>3, <3>1, <3>2, <3>3, <3>4
  <2>4. CASE HandlerPanics(r)
    <3>1. CASE Detached
      BY <2>4, <3>1 DEF HandlerPanics, Detached
    <3>2. CASE ~ Detached
      <4>1. Append(records[r], "499") \in Seq({"done", "499"})
        BY AppendRecord
      <4>2. /\ Unwind(r)
            /\ UNCHANGED <<channel, worker>>
        BY <2>4, <3>2 DEF HandlerPanics
      <4>3. QED
        BY <2>4, <4>1, <4>2 DEF HandlerPanics, Unwind
    <3>3. QED
      BY <3>1, <3>2
  <2>5. CASE SendResult(r) \/ DropWorker(r)
    <3>1. CASE SendResult(r)
      BY <3>1 DEF SendResult
    <3>2. CASE DropWorker(r)
      BY <3>2 DEF DropWorker
    <3>3. QED
      BY <2>5, <3>1, <3>2
  <2>6. CASE ReceiveResult(r)
    BY <2>6, AppendRecord DEF ReceiveResult, Complete
  <2>7. CASE PropagatePanic(r)
    BY <2>7, AppendRecord DEF PropagatePanic, Unwind
  <2>8. CASE StreamDropped(r) \/ ResponseLeaves(r)
    <3>1. CASE StreamDropped(r)
      BY <3>1, AppendRecord DEF StreamDropped, DropFutures
    <3>2. CASE ResponseLeaves(r)
      BY <3>2 DEF ResponseLeaves
    <3>3. QED
      BY <2>8, <3>1, <3>2
  <2>9. CASE Upgrade(r) \/ UpgradeFails(r) \/ WebsocketEnds(r)
    <3>1. CASE Upgrade(r)
      BY <3>1 DEF Upgrade
    <3>2. CASE UpgradeFails(r)
      BY <3>2 DEF UpgradeFails, TaskEnds
    <3>3. CASE WebsocketEnds(r)
      BY <3>3 DEF WebsocketEnds, TaskEnds
    <3>4. QED
      BY <2>9, <3>1, <3>2, <3>3
  <2>10. QED
    BY <1>3, <2>1, <2>2, <2>3, <2>4, <2>5, <2>6, <2>7, <2>8, <2>9
       DEF RequestNext
<1>4. CASE Terminated \/ UNCHANGED vars
  BY <1>4 DEF Terminated, vars
<1>5. QED
  BY <1>1, <1>2, <1>3, <1>4 DEF Next

\* The type invariant of the server holds in every reachable state.
THEOREM TypeCorrect == Spec => []TypeOK
<1>1. Init => TypeOK
  BY EmptySeq DEF Init, TypeOK
<1>2. QED
  BY <1>1, TypeStep, PTL DEF Spec

-----------------------------------------------------------------------------
(* Shutdown.  ShutdownComplete is not inductive: it says nothing of the    *)
(* states before join_future is "ok".  The strengthening follows the order *)
(* of shutdown: close signal, accept task, waitgroup.                      *)

ShutdownInv ==
  /\ accept_task \in {"draining", "done"} => close_channel = "sent"
  /\ accept_task = "lost" => close_channel # "open"
  /\ accept_task = "done" => \A c \in Conns : ~ Served(c) /\ ~ Unserved(c)
  /\ join_future = "err" => accept_task = "lost"
  /\ join_future \in {"waitgroup", "ok"} => accept_task = "done"
  /\ join_future = "ok" => WaitgroupEmpty

\* No step disturbs the order of shutdown, and none brings back a reference
\* to the server state once all are gone.
LEMMA ShutdownStep == TypeOK /\ ShutdownInv /\ [Next]_vars => ShutdownInv'
<1> SUFFICES ASSUME TypeOK, ShutdownInv, [Next]_vars PROVE ShutdownInv'
  OBVIOUS
<1> USE DEF ShutdownInv, WaitgroupEmpty, Served, Unserved, OwnerHoldsState,
            AcceptTaskHoldsState, Alive, HoldsRqctx, Executing, ownerVars,
            connVars, reqVars, taskVars
<1>1. CASE OwnerNext
  <2>1. CASE CloseSend \/ CloseDropState \/ CloseReturn
    BY <2>1 DEF CloseSend, CloseDropState, CloseReturn
  <2>2. CASE DropServer \/ AbandonClose \/ WaitForShutdown
    BY <2>2 DEF DropServer, AbandonClose, WaitForShutdown
  <2>3. CASE JoinTask
    BY <2>3 DEF JoinTask
  <2>4. CASE JoinWaitgroup
    BY <2>4 DEF JoinWaitgroup
  <2>5. CASE BeginShutdown
    BY <2>5 DEF BeginShutdown
  <2>6. CASE Drained
    BY <2>6 DEF Drained, ListenerDropped
  <2>7. CASE AcceptTaskLost
    BY <2>7 DEF AcceptTaskLost
  <2>8. QED
    BY <1>1, <2>1, <2>2, <2>3, <2>4, <2>5, <2>6, <2>7 DEF OwnerNext
<1>2. ASSUME NEW c \in Conns, ConnNext(c) PROVE ShutdownInv'
  <2>1. CASE Connect(c)
    BY <2>1 DEF Connect, ListenerOpen, TypeOK
  <2>2. CASE Accept(c) \/ Negotiated(c)
    BY <2>2 DEF Accept, Negotiated, TypeOK
  <2>3. CASE SeeShutdown(c) \/ ConnFinished(c)
    BY <2>3 DEF SeeShutdown, ConnFinished, TypeOK
  <2>4. CASE Disconnect(c)
    BY <2>4 DEF Disconnect, DropFutures, TypeOK
  <2>5. ASSUME NEW r \in Requests, Arrive(c, r) PROVE ShutdownInv'
    BY <2>5 DEF Arrive, TypeOK
  <2>6. QED
    BY <1>2, <2>1, <2>2, <2>3, <2>4, <2>5 DEF ConnNext
<1>3. ASSUME NEW r \in Requests, RequestNext(r) PROVE ShutdownInv'
  <2>1. CASE RouteFails(r) \/ ReceiveResult(r)
    BY <2>1 DEF RouteFails, ReceiveResult, Complete, TypeOK
  <2>2. CASE RunInline(r) \/ SpawnDetached(r)
    BY <2>2 DEF RunInline, SpawnDetached, TypeOK
  <2>3. CASE Extracted(r) \/ HandleUpgrade(r) \/ HandlerReturns(r)
    BY <2>3 DEF Extracted, HandleUpgrade, HandlerReturns,
       Complete, TypeOK
  <2>4. CASE HandlerPanics(r)
    BY <2>4 DEF HandlerPanics, Unwind, TypeOK
  <2>5. CASE SendResult(r) \/ DropWorker(r)
    BY <2>5 DEF SendResult, DropWorker, TypeOK
  <2>6. CASE PropagatePanic(r)
    BY <2>6 DEF PropagatePanic, Unwind, TypeOK
  <2>7. CASE StreamDropped(r) \/ ResponseLeaves(r)
    BY <2>7 DEF StreamDropped, DropFutures, ResponseLeaves, TypeOK
  <2>8. CASE Upgrade(r)
    BY <2>8 DEF Upgrade, TypeOK
  <2>9. CASE UpgradeFails(r) \/ WebsocketEnds(r)
    BY <2>9 DEF UpgradeFails, WebsocketEnds, TaskEnds, TypeOK
  <2>10. QED
    BY <1>3, <2>1, <2>2, <2>3, <2>4, <2>5, <2>6, <2>7, <2>8, <2>9
       DEF RequestNext
<1>4. CASE Terminated \/ UNCHANGED vars
  BY <1>4 DEF Terminated, vars
<1>5. QED
  BY <1>1, <1>2, <1>3, <1>4 DEF Next

\* The shutdown invariant holds in every reachable state.
LEMMA ShutdownInvariant == Spec => []ShutdownInv
<1>1. Init => ShutdownInv
  BY DEF Init, ShutdownInv
<1>2. QED
  BY <1>1, ShutdownStep, TypeCorrect, PTL DEF Spec

-----------------------------------------------------------------------------
(* Requests.  How the state of the request future, of the handler, of the  *)
(* result channel and of the websocket task constrain each other.          *)

RequestInv ==
  \A r \in Requests :
    /\ req[r] \in {"none", "routing"} =>
         handler[r] = "none" /\ channel[r] = "none"
    /\ handler[r] \in {"none", "extracting"} => websocket[r] = "none"
    /\ r \in captured => InChannel(r)
    /\ req[r] = "running" => Executing(r) \/ handler[r] \in {"returned", "panicked"}
    /\ req[r] = "completed" => handler[r] \in {"none", "returned"}
    /\ req[r] = "panicked" => handler[r] = "panicked"
    /\ ~ Detached => /\ req[r] = "running" <=> Executing(r)
                     /\ channel[r] = "none"
    /\ Detached /\ Executing(r) => channel[r] = "empty"
    /\ channel[r] = "empty" =>
         (Executing(r) \/ handler[r] = "returned") /\ r \in worker
    /\ channel[r] = "result" => handler[r] = "returned"
    /\ channel[r] = "dropped" => handler[r] = "panicked" \/ ~ Alive(r)

\* Every step preserves what relates a request's future, handler, channel and
\* websocket task.
LEMMA RequestStep == TypeOK /\ RequestInv /\ [Next]_vars => RequestInv'
<1> SUFFICES ASSUME TypeOK, RequestInv, [Next]_vars PROVE RequestInv'
  OBVIOUS
<1> USE DEF RequestInv, Alive, Executing, InChannel, Detached, ownerVars, connVars,
            reqVars, taskVars
<1>1. CASE OwnerNext
  <2>1. UNCHANGED reqVars
    BY <1>1 DEF OwnerNext, CloseSend, CloseDropState, CloseReturn, DropServer,
       AbandonClose, WaitForShutdown, JoinTask, JoinWaitgroup, BeginShutdown,
       Drained, AcceptTaskLost
  <2>2. QED
    BY <2>1
<1>2. ASSUME NEW c \in Conns, ConnNext(c) PROVE RequestInv'
  <2>1. CASE Connect(c) \/ Accept(c) \/ Negotiated(c) \/ SeeShutdown(c)
             \/ ConnFinished(c)
    BY <2>1 DEF Connect, Accept, Negotiated, SeeShutdown, ConnFinished
  <2>2. CASE Disconnect(c)
    BY <2>2 DEF Disconnect, DropFutures, Owned, OnConn, TypeOK
  <2>3. ASSUME NEW r \in Requests, Arrive(c, r) PROVE RequestInv'
    BY <2>3 DEF Arrive, TypeOK
  <2>4. QED
    BY <1>2, <2>1, <2>2, <2>3 DEF ConnNext
<1>3. ASSUME NEW r \in Requests, RequestNext(r) PROVE RequestInv'
  <2>1. CASE RouteFails(r)
    BY <2>1 DEF RouteFails, Complete, TypeOK
  <2>2. CASE RunInline(r)
    BY <2>2 DEF RunInline, TypeOK
  <2>3. CASE SpawnDetached(r)
    BY <2>3 DEF SpawnDetached, TypeOK
  <2>4. CASE Extracted(r) \/ HandleUpgrade(r) \/ HandlerReturns(r)
    <3>1. CASE Extracted(r)
      BY <3>1 DEF Extracted, TypeOK
    <3>2. CASE HandleUpgrade(r)
      BY <3>2 DEF HandleUpgrade, TypeOK
    <3>3. CASE HandlerReturns(r)
      BY <3>3 DEF HandlerReturns, Complete, TypeOK
    <3>4. QED
      BY <2>4, <3>1, <3>2, <3>3
  <2>5. CASE HandlerPanics(r)
    BY <2>5 DEF HandlerPanics, Unwind, TypeOK
  <2>6. CASE SendResult(r)
    BY <2>6 DEF SendResult, TypeOK
  <2>7. CASE DropWorker(r)
    BY <2>7 DEF DropWorker
  <2>8. CASE ReceiveResult(r)
    BY <2>8 DEF ReceiveResult, Complete, TypeOK
  <2>9. CASE PropagatePanic(r)
    BY <2>9 DEF PropagatePanic, Unwind, TypeOK
  <2>10. CASE StreamDropped(r) \/ ResponseLeaves(r)
    BY <2>10 DEF StreamDropped, DropFutures, ResponseLeaves, TypeOK
  <2>11. CASE Upgrade(r) \/ UpgradeFails(r) \/ WebsocketEnds(r)
    BY <2>11 DEF Upgrade, UpgradeFails, WebsocketEnds, TaskEnds, TypeOK
  <2>12. QED
    BY <1>3, <2>1, <2>2, <2>3, <2>4, <2>5, <2>6, <2>7, <2>8, <2>9, <2>10,
       <2>11 DEF RequestNext
<1>4. CASE Terminated \/ UNCHANGED vars
  BY <1>4 DEF Terminated, vars
<1>5. QED
  BY <1>1, <1>2, <1>3, <1>4 DEF Next

\* The request invariant holds in every reachable state.
LEMMA RequestInvariant == Spec => []RequestInv
<1>1. Init => RequestInv
  BY DEF Init, RequestInv, Alive, Executing
<1>2. QED
  BY <1>1, RequestStep, TypeCorrect, PTL DEF Spec

\* The assertion in http_request_handle about a broken result channel holds,
\* and only a handler that returned is answered from.
THEOREM PanicIsTheOnlyLossTheorem == Spec => []PanicIsTheOnlyLoss
<1>1. TypeOK /\ RequestInv => PanicIsTheOnlyLoss
  BY DEF TypeOK, RequestInv, PanicIsTheOnlyLoss, Alive, Executing
<1>2. QED
  BY <1>1, TypeCorrect, RequestInvariant, PTL

\* In CancelOnDisconnect mode no handler outlives its request future.
THEOREM CancelledWithClientTheorem == Spec => []CancelledWithClient
<1>1. RequestInv => CancelledWithClient
  BY DEF RequestInv, CancelledWithClient
<1>2. QED
  BY <1>1, RequestInvariant, PTL

-----------------------------------------------------------------------------
(* Completion records.                                                     *)

\* A request that ends gets one record in that step, and no other step adds
\* one.
LEMMA RecordStep ==
  TypeOK /\ RequestInv /\ RecordedOnce /\ [Next]_vars => RecordedOnce'
<1> SUFFICES ASSUME TypeOK, RequestInv, RecordedOnce, [Next]_vars
             PROVE  RecordedOnce'
  OBVIOUS
<1> USE DEF RecordedOnce, ownerVars, connVars, reqVars, taskVars
<1>0. ASSUME NEW r \in Requests, NEW e \in {"done", "499"},
             req[r] \in {"routing", "running"}
      PROVE  Len(Append(records[r], e)) = 1
  BY <1>0, AppendRecord
<1>1. CASE OwnerNext
  <2>1. UNCHANGED <<req, records>>
    BY <1>1 DEF OwnerNext, CloseSend, CloseDropState, CloseReturn, DropServer,
       AbandonClose, WaitForShutdown, JoinTask, JoinWaitgroup, BeginShutdown,
       Drained, AcceptTaskLost
  <2>2. QED
    BY <2>1
<1>2. ASSUME NEW c \in Conns, ConnNext(c) PROVE RecordedOnce'
  <2>1. CASE Connect(c) \/ Accept(c) \/ Negotiated(c) \/ SeeShutdown(c)
             \/ ConnFinished(c)
    BY <2>1 DEF Connect, Accept, Negotiated, SeeShutdown, ConnFinished
  <2>2. CASE Disconnect(c)
    BY <2>2, <1>0 DEF Disconnect, DropFutures, Owned, OnConn, Alive, TypeOK
  <2>3. ASSUME NEW r \in Requests, Arrive(c, r) PROVE RecordedOnce'
    BY <2>3 DEF Arrive, TypeOK
  <2>4. QED
    BY <1>2, <2>1, <2>2, <2>3 DEF ConnNext
<1>3. ASSUME NEW r \in Requests, RequestNext(r) PROVE RecordedOnce'
  <2>1. ASSUME req[r] \in {"routing", "running"}, Complete(r)
        PROVE  RecordedOnce'
    BY <2>1, <1>0 DEF Complete, TypeOK
  <2>2. ASSUME req[r] \in {"routing", "running"}, Unwind(r)
        PROVE  RecordedOnce'
    BY <2>2, <1>0 DEF Unwind, TypeOK
  <2>3. CASE RouteFails(r) \/ ReceiveResult(r)
    BY <2>1, <2>3 DEF RouteFails, ReceiveResult
  <2>4. CASE RunInline(r) \/ SpawnDetached(r)
    BY <2>4 DEF RunInline, SpawnDetached, TypeOK
  <2>5. CASE HandlerReturns(r)
    <3>1. CASE Detached
      BY <2>5, <3>1 DEF HandlerReturns
    <3>2. CASE ~ Detached
      BY <2>1, <2>5, <3>2 DEF HandlerReturns, RequestInv
    <3>3. QED
      BY <3>1, <3>2
  <2>6. CASE HandlerPanics(r)
    <3>1. CASE Detached
      BY <2>6, <3>1 DEF HandlerPanics
    <3>2. CASE ~ Detached
      BY <2>2, <2>6, <3>2 DEF HandlerPanics, RequestInv
    <3>3. QED
      BY <3>1, <3>2
  <2>7. CASE PropagatePanic(r)
    BY <2>2, <2>7 DEF PropagatePanic
  <2>8. CASE StreamDropped(r)
    BY <2>8, <1>0 DEF StreamDropped, DropFutures, Alive, TypeOK
  <2>9. CASE Extracted(r) \/ HandleUpgrade(r) \/ SendResult(r) \/ DropWorker(r)
             \/ ResponseLeaves(r) \/ Upgrade(r) \/ UpgradeFails(r)
             \/ WebsocketEnds(r)
    BY <2>9 DEF Extracted, HandleUpgrade, SendResult, DropWorker, ResponseLeaves, Upgrade,
       UpgradeFails, WebsocketEnds, TaskEnds
  <2>10. QED
    BY <1>3, <2>3, <2>4, <2>5, <2>6, <2>7, <2>8, <2>9 DEF RequestNext
<1>4. CASE Terminated \/ UNCHANGED vars
  BY <1>4 DEF Terminated, vars
<1>5. QED
  BY <1>1, <1>2, <1>3, <1>4 DEF Next

\* Every request future that ends leaves exactly one completion record.
THEOREM RecordedOnceTheorem == Spec => []RecordedOnce
<1>1. Init => RecordedOnce
  BY EmptySeq DEF Init, RecordedOnce
<1>2. QED
  BY <1>1, RecordStep, TypeCorrect, RequestInvariant, PTL DEF Spec

-----------------------------------------------------------------------------
(* Responses.  That shutdown cuts no response short rests on which         *)
(* connection a response is written to: one that is served until it is     *)
(* written, since an HTTP/1.1 connection has one request at a time and     *)
(* ends, or is handed over, with no other.                                 *)

Occupies(r) == Alive(r) \/ r \in unsent

\* What ties one request to its connection.
OnItsConn(r) ==
  /\ req[r] # "none" => reqConn[r] \in Conns
  /\ r \in unsent => req[r] = "completed" /\ Served(reqConn[r])
  /\ Alive(r) /\ reqConn[r] \notin Http2 => Served(reqConn[r])
  /\ websocket[r] # "none" => req[r] # "none" /\ reqConn[r] \notin Http2
  /\ websocket[r] = "running" => conn[reqConn[r]] = "upgraded"

\* An HTTP/1.1 connection serves one request and is upgraded for one.
OneAtATime(q, r) ==
  reqConn[q] = reqConn[r] /\ reqConn[r] \notin Http2 =>
    /\ Occupies(q) /\ Occupies(r) => q = r
    /\ websocket[q] = "running" /\ websocket[r] = "running" => q = r

DeliveryInv ==
  /\ \A r \in Requests : OnItsConn(r)
  /\ \A q, r \in Requests : OneAtATime(q, r)

\* Every step keeps responses on connections that are served.
LEMMA DeliveryStep ==
  TypeOK /\ RequestInv /\ DeliveryInv /\ [Next]_vars => DeliveryInv'
<1> SUFFICES ASSUME TypeOK, RequestInv, DeliveryInv, [Next]_vars
             PROVE  DeliveryInv'
  OBVIOUS
<1> USE DEF DeliveryInv, OnItsConn, OneAtATime, Occupies, Alive, Served, ownerVars,
            connVars, reqVars, taskVars
<1>1. CASE OwnerNext
  <2>1. /\ UNCHANGED reqVars
        /\ \A c \in Conns : ~ Unserved(c) => conn'[c] = conn[c]
    BY <1>1 DEF OwnerNext, CloseSend, CloseDropState, CloseReturn, DropServer,
       AbandonClose, WaitForShutdown, JoinTask, JoinWaitgroup, BeginShutdown,
       Drained, AcceptTaskLost, ListenerDropped
  <2>2. \A c \in Conns : /\ Served(c) => Served(c)'
                         /\ conn[c] = "upgraded" => conn'[c] = "upgraded"
    BY <2>1 DEF Unserved
  <2>3. UNCHANGED <<req, reqConn, websocket, unsent>>
    BY <2>1
  <2>4. ASSUME NEW r \in Requests PROVE OnItsConn(r)'
    <3>1. OnItsConn(r) /\ UNCHANGED <<req[r], reqConn[r], websocket[r]>>
      BY <2>3
    <3>2. websocket[r] # "none" \/ Alive(r) \/ r \in unsent => reqConn[r] \in Conns
      BY <3>1
    <3>3. QED
      BY <2>2, <2>3, <3>1, <3>2
  <2>5. \A q, r \in Requests : OneAtATime(q, r)'
    BY <2>3
  <2>6. QED
    BY <2>4, <2>5
<1>2. ASSUME NEW c \in Conns, ConnNext(c) PROVE DeliveryInv'
  <2>1. CASE Connect(c) \/ Accept(c) \/ Negotiated(c) \/ SeeShutdown(c)
    <3>1. UNCHANGED reqVars
      BY <2>1 DEF Connect, Accept, Negotiated, SeeShutdown
    <3>2. /\ \A d \in Conns \ {c} : conn'[d] = conn[d]
          /\ conn[c] # "upgraded"
          /\ Served(c) => conn'[c] = "closing"
      BY <2>1 DEF Connect, Accept, Negotiated, SeeShutdown, TypeOK
    <3>3. QED
      BY <3>1, <3>2
  <2>2. CASE ConnFinished(c)
    <3>1. /\ conn' = [conn EXCEPT ![c] = "closed"]
          /\ conn[c] = "closing" /\ UNCHANGED reqVars
          /\ \A r \in Requests : reqConn[r] = c => ~ Alive(r) /\ r \notin unsent
      BY <2>2 DEF ConnFinished, Busy, OnConn
    <3>2. \A d \in Conns \ {c} : conn'[d] = conn[d]
      BY <3>1 DEF TypeOK
    <3>3. QED
      BY <3>1, <3>2
  <2>3. CASE Disconnect(c)
    <3>1. \A r \in Requests : OnItsConn(r)'
      BY <2>3 DEF Disconnect, DropFutures, Owned, OnConn, TypeOK
    <3>2. \A q, r \in Requests : OneAtATime(q, r)'
      BY <2>3 DEF Disconnect, DropFutures, Owned, OnConn, TypeOK
    <3>3. QED
      BY <3>1, <3>2
  <2>4. ASSUME NEW r \in Requests, Arrive(c, r) PROVE DeliveryInv'
    <3>1. \A q \in Requests : OnItsConn(q)'
      BY <2>4, ServerAssumption DEF Arrive, RequestInv, TypeOK
    <3>2. \A p, q \in Requests : OneAtATime(p, q)'
      BY <2>4 DEF Arrive, Busy, OnConn, RequestInv, TypeOK
    <3>3. QED
      BY <3>1, <3>2
  <2>5. QED
    BY <1>2, <2>1, <2>2, <2>3, <2>4 DEF ConnNext
<1>3. ASSUME NEW r \in Requests, RequestNext(r) PROVE DeliveryInv'
  <2>1. ASSUME req[r] \in {"routing", "running"}, Complete(r),
               UNCHANGED <<reqConn, conn, websocket>>
        PROVE  DeliveryInv'
    BY <2>1 DEF Complete, TypeOK
  <2>2. ASSUME req[r] = "running", Unwind(r), UNCHANGED <<reqConn, websocket, unsent>>
        PROVE  DeliveryInv'
    BY <2>2 DEF Unwind, TypeOK
  <2>3. CASE RouteFails(r) \/ ReceiveResult(r)
    BY <2>1, <2>3 DEF RouteFails, ReceiveResult
  <2>4. CASE RunInline(r) \/ SpawnDetached(r)
    BY <2>4 DEF RunInline, SpawnDetached, TypeOK
  <2>5. CASE HandleUpgrade(r) \/ HandlerReturns(r)
    <3>1. CASE HandleUpgrade(r)
      <4>1. /\ UNCHANGED <<req, reqConn, unsent, conn>> /\ req[r] # "none"
            /\ reqConn[r] \notin Http2
            /\ \A q \in Requests : websocket'[q] # websocket[q] =>
                 websocket'[q] = "pending" /\ q = r
        BY <3>1 DEF HandleUpgrade, RequestInv, TypeOK
      <4>2. QED
        BY <4>1 DEF TypeOK
    <3>2. CASE HandlerReturns(r) /\ Detached
      BY <3>2 DEF HandlerReturns
    <3>3. CASE HandlerReturns(r) /\ ~ Detached
      BY <2>1, <3>3 DEF HandlerReturns, RequestInv
    <3>4. QED
      BY <2>5, <3>1, <3>2, <3>3
  <2>6. CASE HandlerPanics(r)
    <3>1. CASE Detached
      BY <2>6, <3>1 DEF HandlerPanics
    <3>2. CASE ~ Detached
      BY <2>2, <2>6, <3>2 DEF HandlerPanics, RequestInv
    <3>3. QED
      BY <3>1, <3>2
  <2>7. CASE PropagatePanic(r)
    BY <2>2, <2>7 DEF PropagatePanic
  <2>8. CASE StreamDropped(r)
    BY <2>8 DEF StreamDropped, DropFutures, TypeOK
  <2>9. CASE Extracted(r) \/ SendResult(r) \/ DropWorker(r) \/ ResponseLeaves(r)
    BY <2>9 DEF Extracted, SendResult, DropWorker, ResponseLeaves
  <2>10. CASE Upgrade(r)
    <3>1. /\ conn' = [conn EXCEPT ![reqConn[r]] = "upgraded"]
          /\ unsent' = unsent \ {r}
          /\ websocket' = [websocket EXCEPT ![r] = "running"]
          /\ UNCHANGED <<req, reqConn>>
          /\ r \in unsent /\ websocket[r] = "pending"
      BY <2>10 DEF Upgrade
    <3>2. \A q \in Requests \ {r} : reqConn[q] = reqConn[r] =>
            ~ Occupies(q) /\ websocket[q] # "running"
      BY <3>1
    <3>3. QED
      BY <3>1, <3>2 DEF TypeOK
  <2>11. CASE UpgradeFails(r)
    BY <2>11 DEF UpgradeFails, TaskEnds, TypeOK
  <2>12. CASE WebsocketEnds(r)
    BY <2>12 DEF WebsocketEnds, TaskEnds, TypeOK
  <2>13. QED
    BY <1>3, <2>3, <2>4, <2>5, <2>6, <2>7, <2>8, <2>9, <2>10, <2>11, <2>12
       DEF RequestNext
<1>4. CASE Terminated \/ UNCHANGED vars
  BY <1>4 DEF Terminated, vars
<1>5. QED
  BY <1>1, <1>2, <1>3, <1>4 DEF Next

\* The delivery invariant holds in every reachable state.
LEMMA DeliveryInvariant == Spec => []DeliveryInv
<1>1. Init => DeliveryInv
  BY DEF Init, DeliveryInv, OnItsConn, OneAtATime, Occupies, Alive
<1>2. QED
  BY <1>1, DeliveryStep, TypeCorrect, RequestInvariant, PTL DEF Spec

\* A shutdown that is reported as successful is complete: nothing of the
\* server is left and no response was cut short by it, for any number of
\* connections and requests; what may be left are websocket tasks that own no
\* RequestContext.
THEOREM ShutdownIsComplete == Spec => []ShutdownComplete
<1>1. TypeOK /\ ShutdownInv /\ DeliveryInv => ShutdownComplete
  BY DEF TypeOK, ShutdownInv, DeliveryInv, OnItsConn, ShutdownComplete, NothingLeft,
         WaitgroupEmpty, HoldsRqctx
<1>2. QED
  BY <1>1, TypeCorrect, ShutdownInvariant, DeliveryInvariant, PTL

-----------------------------------------------------------------------------
(* Action properties.                                                      *)

\* Behind a successful shutdown, no connection is accepted, no request starts
\* and no task moves, but for websocket tasks that own nothing of the server:
\* they end, and close the connections they were given.
THEOREM QuietAfterShutdownTheorem == Spec => QuietAfterShutdown
<1> DEFINE Still == UNCHANGED <<accept_task, gone, req, reqConn, handler, channel,
                                worker, captured, records, unsent>>
           ConnsEnd == \A c \in Conns : conn'[c] # conn[c] =>
                         conn[c] = "upgraded" /\ conn'[c] = "closed"
           TasksEnd == \A r \in Requests : websocket'[r] # websocket[r] =>
                         InChannel(r) /\ websocket'[r] = "done"
           Quiet == Still /\ ConnsEnd /\ TasksEnd
<1>1. ASSUME TypeOK, ShutdownInv, RequestInv, DeliveryInv, [Next]_vars,
             join_future = "ok"
      PROVE  Quiet \/ UNCHANGED vars
  <2> USE <1>1 DEF ShutdownInv, WaitgroupEmpty, AcceptTaskHoldsState,
                   OwnerHoldsState, Served, Unserved, Alive, HoldsRqctx
  <2>0. UNCHANGED <<accept_task, connVars, reqVars>> => Quiet
    BY DEF connVars, reqVars, taskVars
  <2>1. CASE OwnerNext
    BY <2>0, <2>1 DEF OwnerNext, CloseSend, CloseDropState, CloseReturn,
       DropServer, AbandonClose, WaitForShutdown, JoinTask, JoinWaitgroup,
       BeginShutdown, Drained, AcceptTaskLost
  <2>2. ASSUME NEW c \in Conns, ConnNext(c) PROVE FALSE
    BY <2>2 DEF ConnNext, Connect, ListenerOpen, Accept, Negotiated,
       SeeShutdown, ConnFinished, Disconnect, Arrive
  <2>3. ASSUME NEW r \in Requests, RequestNext(r) PROVE Quiet
    <3>1. ~ RouteFails(r) /\ ~ RunInline(r) /\ ~ SpawnDetached(r)
      BY DEF RouteFails, RunInline, SpawnDetached
    <3>2. ~ Extracted(r) /\ ~ HandleUpgrade(r) /\ ~ HandlerReturns(r)
          /\ ~ HandlerPanics(r)
      BY DEF Extracted, HandleUpgrade, HandlerReturns, HandlerPanics, Executing
    <3>3. ~ SendResult(r) /\ ~ DropWorker(r)
      BY DEF SendResult, DropWorker, RequestInv
    <3>4. ~ ReceiveResult(r) /\ ~ PropagatePanic(r) /\ ~ StreamDropped(r)
      BY DEF ReceiveResult, PropagatePanic, StreamDropped
    <3>5. r \notin unsent
      BY DEF DeliveryInv, OnItsConn, TypeOK
    <3>6. ~ ResponseLeaves(r) /\ ~ Upgrade(r)
      BY <3>5 DEF ResponseLeaves, Upgrade
    <3>7. CASE UpgradeFails(r) \/ WebsocketEnds(r)
      <4>1. TaskEnds(r) /\ InChannel(r) /\ UNCHANGED accept_task
        BY <3>7 DEF UpgradeFails, WebsocketEnds, InChannel, TaskEnds, ownerVars
      <4>2. Still
        BY <4>1 DEF TaskEnds
      <4>3. TasksEnd
        BY <4>1 DEF TaskEnds, TypeOK
      <4>4. ConnsEnd
        BY <3>7 DEF UpgradeFails, WebsocketEnds, DeliveryInv, OnItsConn, TypeOK
      <4>5. QED
        BY <4>2, <4>3, <4>4
    <3>8. QED
      BY <2>3, <3>1, <3>2, <3>3, <3>4, <3>6, <3>7 DEF RequestNext
  <2>4. CASE Terminated \/ UNCHANGED vars
    BY <2>4 DEF Terminated
  <2>5. QED
    BY <2>1, <2>2, <2>3, <2>4 DEF Next
<1>2. TypeOK /\ ShutdownInv /\ RequestInv /\ DeliveryInv /\ [Next]_vars
        => [join_future = "ok" => Quiet]_vars
  BY <1>1
<1>3. QED
  BY <1>2, TypeCorrect, ShutdownInvariant, RequestInvariant, DeliveryInvariant, PTL
     DEF Spec, QuietAfterShutdown

\* In Detached mode no step but the handler's own return or panic ends it.
THEOREM DetachedRunsToCompletionTheorem == Spec => DetachedRunsToCompletion
<1> DEFINE P == Detached => \A r \in Requests :
                  Executing(r) =>
                    Executing(r)' \/ handler'[r] \in {"returned", "panicked"}
<1>1. ASSUME TypeOK, [Next]_vars PROVE P \/ UNCHANGED vars
  <2> USE <1>1 DEF TypeOK, Executing, taskVars
  <2>1. CASE OwnerNext
    BY <2>1 DEF OwnerNext, CloseSend, CloseDropState, CloseReturn, DropServer,
       AbandonClose, WaitForShutdown, JoinTask, JoinWaitgroup, BeginShutdown,
       Drained, AcceptTaskLost, reqVars
  <2>2. ASSUME NEW c \in Conns, ConnNext(c) PROVE P
    BY <2>2 DEF ConnNext, Connect, Accept, Negotiated, SeeShutdown,
       ConnFinished, Disconnect, DropFutures, Arrive, reqVars
  <2>3. ASSUME NEW r \in Requests, RequestNext(r) PROVE P
    <3>1. CASE UNCHANGED handler
      BY <3>1
    <3>2. CASE RunInline(r) \/ SpawnDetached(r)
      BY <3>2 DEF RunInline, SpawnDetached
    <3>3. CASE Extracted(r) \/ HandlerReturns(r) \/ HandlerPanics(r)
      BY <3>3 DEF Extracted, HandlerReturns, HandlerPanics
    <3>4. CASE StreamDropped(r)
      BY <3>4 DEF StreamDropped, DropFutures
    <3>5. QED
      BY <2>3, <3>1, <3>2, <3>3, <3>4 DEF RequestNext, RouteFails, SendResult,
         DropWorker, ReceiveResult, PropagatePanic, ResponseLeaves, HandleUpgrade,
         Upgrade, UpgradeFails, WebsocketEnds, TaskEnds
  <2>4. CASE Terminated \/ UNCHANGED vars
    BY <2>4 DEF Terminated
  <2>5. QED
    BY <2>1, <2>2, <2>3, <2>4 DEF Next
<1>2. TypeOK /\ [Next]_vars => [P]_vars
  BY <1>1
<1>3. QED
  BY <1>2, TypeCorrect, PTL DEF Spec, DetachedRunsToCompletion

-----------------------------------------------------------------------------
(* Refinement.                                                             *)

\* What the mapped variables depend on.
LEMMA BarFrame ==
  /\ UNCHANGED <<join_future, close_channel>> => UNCHANGED phaseBar
  /\ UNCHANGED <<handler, websocket, captured>> =>
       UNCHANGED <<activeBar, freeBar, endedBar>>
BY DEF phaseBar, activeBar, freeBar, endedBar, HoldsRqctx, Executing, InChannel

\* What a step may do to the lifecycle.
Follows == \/ Lifecycle!LifecycleNext
           \/ UNCHANGED <<phaseBar, activeBar, freeBar, endedBar>>

\* A step by which one request gives up its hold, or what it is after that.
LEMMA OneMoves ==
  ASSUME TypeOK, RequestInv, UNCHANGED phaseBar, NEW r \in Requests,
         handler[r] # "none", handler'[r] # "none",
         HoldsRqctx(r)' => HoldsRqctx(r),
         InChannel(r)' => InChannel(r) \/ HoldsRqctx(r),
         \A q \in Requests \ {r} :
           UNCHANGED <<handler[q], HoldsRqctx(q), InChannel(q)>>
  PROVE  Follows
<1> USE DEF activeBar, freeBar, endedBar
<1>1. CASE HoldsRqctx(r)'
  <2>1. UNCHANGED <<activeBar, freeBar>>
    BY <1>1
  <2>2. UNCHANGED endedBar
    BY <2>1
  <2>3. QED
    BY <2>1, <2>2 DEF Follows
<1>2. CASE ~ HoldsRqctx(r)' /\ HoldsRqctx(r) /\ InChannel(r)'
  <2>1. /\ r \in activeBar /\ activeBar' = activeBar \ {r}
        /\ freeBar' = freeBar \cup {r}
    BY <1>2
  <2>2. UNCHANGED endedBar
    BY <2>1
  <2>3. QED
    BY <2>1, <2>2 DEF Follows, Lifecycle!LifecycleNext, Lifecycle!SetFree
<1>3. CASE ~ HoldsRqctx(r)' /\ HoldsRqctx(r) /\ ~ InChannel(r)'
  <2>1. r \in activeBar /\ activeBar' = activeBar \ {r} /\ UNCHANGED freeBar
    BY <1>3
  <2>2. endedBar' = endedBar \cup {r}
    BY <2>1
  <2>3. QED
    BY <2>1, <2>2 DEF Follows, Lifecycle!LifecycleNext, Lifecycle!End
<1>4. CASE ~ HoldsRqctx(r)' /\ ~ HoldsRqctx(r) /\ (InChannel(r) <=> InChannel(r)')
  <2>1. UNCHANGED <<activeBar, freeBar>>
    BY <1>4
  <2>2. UNCHANGED endedBar
    BY <2>1
  <2>3. QED
    BY <2>1, <2>2 DEF Follows
<1>5. CASE ~ HoldsRqctx(r)' /\ ~ HoldsRqctx(r) /\ InChannel(r) /\ ~ InChannel(r)'
  <2>1. r \in freeBar /\ freeBar' = freeBar \ {r} /\ UNCHANGED activeBar
    BY <1>5
  <2>2. endedBar' = endedBar \cup {r}
    BY <2>1
  <2>3. QED
    BY <2>1, <2>2 DEF Follows, Lifecycle!LifecycleNext, Lifecycle!EndFree
<1>6. QED
  BY <1>1, <1>2, <1>3, <1>4, <1>5

\* Every step of the server is a step of the lifecycle or leaves it alone.
LEMMA LifecycleStep ==
  ASSUME TypeOK, ShutdownInv, RequestInv, DeliveryInv, [Next]_vars
  PROVE  Follows
<1> USE DEF ownerVars, connVars, reqVars, taskVars
<1>1. CASE OwnerNext
  <2> USE DEF Follows
  <2>0. UNCHANGED <<activeBar, freeBar, endedBar>>
    BY <1>1, BarFrame DEF OwnerNext, CloseSend, CloseDropState, CloseReturn,
       DropServer, AbandonClose, WaitForShutdown, JoinTask, JoinWaitgroup,
       BeginShutdown, Drained, AcceptTaskLost
  <2>1. CASE CloseSend \/ DropServer
    <3>1. CASE close_channel = "open"
      <4>1. phaseBar = "up" /\ phaseBar' = "stopping"
        BY <2>1, <3>1 DEF CloseSend, DropServer, ShutdownInv, phaseBar, TypeOK
      <4>2. QED
        BY <2>0, <4>1 DEF Lifecycle!LifecycleNext, Lifecycle!Stop
    <3>2. CASE close_channel # "open"
      BY <2>0, <2>1, <3>2, BarFrame DEF CloseSend, DropServer
    <3>3. QED
      BY <3>1, <3>2
  <2>2. CASE CloseDropState \/ CloseReturn \/ AbandonClose \/ WaitForShutdown
             \/ BeginShutdown \/ Drained
    BY <2>0, <2>2, BarFrame DEF CloseDropState, CloseReturn, AbandonClose,
       WaitForShutdown, BeginShutdown, Drained
  <2>3. CASE JoinTask
    <3>1. CASE join_future' = "waitgroup"
      BY <2>0, <2>3, <3>1 DEF JoinTask, phaseBar
    <3>2. CASE join_future' = "err"
      <4>1. phaseBar \in {"up", "stopping"} /\ phaseBar' = "failed"
        BY <2>3, <3>2 DEF JoinTask, phaseBar
      <4>2. QED
        BY <2>0, <4>1 DEF Lifecycle!LifecycleNext, Lifecycle!Fail
    <3>3. QED
      BY <2>3, <3>1, <3>2 DEF JoinTask
  <2>4. CASE JoinWaitgroup
    <3>1. phaseBar = "stopping" /\ phaseBar' = "stopped"
      BY <2>4 DEF JoinWaitgroup, ShutdownInv, phaseBar
    <3>2. activeBar = {}
      BY <2>4 DEF JoinWaitgroup, WaitgroupEmpty, activeBar
    <3>3. QED
      BY <2>0, <3>1, <3>2 DEF Lifecycle!LifecycleNext, Lifecycle!Stopped
  <2>5. CASE AcceptTaskLost
    BY <2>0, <2>5 DEF AcceptTaskLost, phaseBar
  <2>6. QED
    BY <1>1, <2>1, <2>2, <2>3, <2>4, <2>5 DEF OwnerNext
<1>2. ASSUME NEW c \in Conns, ConnNext(c) PROVE Follows
  <2>1. CASE Disconnect(c)
    <3>1. /\ UNCHANGED <<phaseBar, websocket, captured>>
          /\ \A q \in Requests \ Owned(c) : handler'[q] = handler[q]
      BY <2>1, BarFrame DEF Disconnect, DropFutures
    <3>2. CASE Owned(c) = {}
      <4>1. UNCHANGED handler
        BY <2>1, <3>2 DEF Disconnect, DropFutures, TypeOK
      <4>2. QED
        BY <3>1, <4>1, BarFrame DEF Follows
    <3>3. CASE Owned(c) # {}
      <4>1. PICK r \in Requests : r \in Owned(c)
        BY <3>3 DEF Owned, OnConn
      <4>2. Owned(c) = {r}
        BY <4>1 DEF Owned, OnConn, DeliveryInv, OneAtATime, Occupies
      <4>3. \/ UNCHANGED handler[r]
            \/ Executing(r) /\ ~ Executing(r)' /\ handler'[r] = "cancelled"
        BY <2>1 DEF Disconnect, DropFutures, Executing, TypeOK
      <4>4. CASE handler[r] = "none"
        <5>1. UNCHANGED handler
          BY <2>1, <3>1, <4>2, <4>3, <4>4 DEF Disconnect, DropFutures, Executing, TypeOK
        <5>2. QED
          BY <3>1, <5>1, BarFrame DEF Follows
      <4>5. CASE handler[r] # "none"
        <5>1. \A q \in Requests \ {r} :
                UNCHANGED <<handler[q], HoldsRqctx(q), InChannel(q)>>
          BY <3>1, <4>2 DEF HoldsRqctx, Executing, InChannel
        <5>2. /\ HoldsRqctx(r)' => HoldsRqctx(r)
              /\ InChannel(r)' => InChannel(r)
              /\ handler'[r] # "none"
          BY <3>1, <4>3, <4>5 DEF HoldsRqctx, Executing, InChannel
        <5>3. QED
          BY <3>1, <4>5, <5>1, <5>2, OneMoves
      <4>6. QED
        BY <4>4, <4>5
    <3>4. QED
      BY <3>2, <3>3
  <2>2. CASE ~ Disconnect(c)
    BY <1>2, <2>2, BarFrame DEF ConnNext, Connect, Accept, Negotiated,
       SeeShutdown, ConnFinished, Arrive, Follows
  <2>3. QED
    BY <2>1, <2>2
<1>3. ASSUME NEW r \in Requests, RequestNext(r) PROVE Follows
  <2>0. UNCHANGED phaseBar
    BY <1>3, BarFrame DEF RequestNext, RouteFails, RunInline, SpawnDetached,
       Extracted, HandleUpgrade, HandlerReturns,
       HandlerPanics, SendResult, DropWorker, ReceiveResult, PropagatePanic,
       StreamDropped, ResponseLeaves, Upgrade, UpgradeFails, WebsocketEnds, TaskEnds
  <2>1. CASE RunInline(r) \/ SpawnDetached(r)
    <3>1. phaseBar # "stopped"
      BY <2>1 DEF RunInline, SpawnDetached, ShutdownInv, WaitgroupEmpty, Alive,
         phaseBar
    <3>2. handler[r] = "none" /\ websocket[r] = "none" /\ r \notin captured
      BY <2>1 DEF RunInline, SpawnDetached, RequestInv, InChannel
    <3>3. /\ handler' = [handler EXCEPT ![r] = "extracting"]
          /\ UNCHANGED <<websocket, captured>>
      BY <2>1 DEF RunInline, SpawnDetached
    <3>4. r \notin activeBar \cup freeBar \cup endedBar
      BY <3>2 DEF activeBar, freeBar, endedBar, HoldsRqctx, Executing, InChannel
    <3>5. activeBar' = activeBar \cup {r} /\ freeBar' = freeBar
      BY <3>2, <3>3 DEF activeBar, freeBar, HoldsRqctx, Executing, InChannel, TypeOK
    <3>6. \A q \in Requests \ {r} : handler'[q] = handler[q]
      BY <3>3 DEF TypeOK
    <3>7. endedBar' = endedBar
      BY <3>2, <3>5, <3>6 DEF endedBar
    <3>8. Lifecycle!Begin(r)
      BY <2>0, <3>1, <3>4, <3>5, <3>7 DEF Lifecycle!Begin
    <3>9. QED
      BY <3>8 DEF Follows, Lifecycle!LifecycleNext
  <2>2. ASSUME handler[r] # "none", handler'[r] # "none",
               \A q \in Requests \ {r} :
                 /\ UNCHANGED <<handler[q], websocket[q]>>
                 /\ q \in captured' <=> q \in captured,
               HoldsRqctx(r)' => HoldsRqctx(r),
               InChannel(r)' => InChannel(r) \/ HoldsRqctx(r)
        PROVE  Follows
    <3>1. \A q \in Requests \ {r} :
            UNCHANGED <<handler[q], HoldsRqctx(q), InChannel(q)>>
      BY <2>2 DEF HoldsRqctx, Executing, InChannel
    <3>2. QED
      BY <2>0, <2>2, <3>1, OneMoves
  <2>3. CASE Extracted(r) \/ HandlerReturns(r) \/ HandlerPanics(r)
    <3>1. /\ Executing(r) /\ UNCHANGED <<websocket, captured>>
          /\ \A q \in Requests \ {r} : UNCHANGED handler[q]
          /\ handler'[r] # "none"
      BY <2>3 DEF Extracted, HandlerReturns, HandlerPanics, Executing, TypeOK
    <3>2. QED
      BY <2>2, <3>1 DEF HoldsRqctx, Executing, InChannel
  <2>4. CASE HandleUpgrade(r)
    <3>1. /\ Executing(r) /\ UNCHANGED handler
          /\ \A q \in Requests \ {r} : /\ UNCHANGED websocket[q]
                                       /\ q \in captured' <=> q \in captured
      BY <2>4 DEF HandleUpgrade, Executing, TypeOK
    <3>2. HoldsRqctx(r) /\ handler[r] # "none" /\ handler'[r] # "none"
      BY <3>1 DEF HoldsRqctx, Executing
    <3>3. \A q \in Requests \ {r} : UNCHANGED handler[q]
      BY <3>1
    <3>4. QED
      BY <2>2, <3>1, <3>2, <3>3
  <2>5. CASE StreamDropped(r)
    <3>1. /\ UNCHANGED <<websocket, captured>>
          /\ \A q \in Requests \ {r} : UNCHANGED handler[q]
      BY <2>5 DEF StreamDropped, DropFutures, TypeOK
    <3>2. CASE Executing(r) /\ ~ Detached
      <4>1. handler'[r] = "cancelled"
        BY <2>5, <3>2 DEF StreamDropped, DropFutures, TypeOK
      <4>2. QED
        BY <2>2, <3>1, <3>2, <4>1 DEF HoldsRqctx, Executing, InChannel
    <3>3. CASE ~ (Executing(r) /\ ~ Detached)
      <4>1. UNCHANGED handler
        BY <2>5, <3>3 DEF StreamDropped, DropFutures, TypeOK
      <4>2. QED
        BY <2>0, <3>1, <4>1, BarFrame DEF Follows
    <3>4. QED
      BY <3>2, <3>3
  <2>6. CASE Upgrade(r) \/ UpgradeFails(r) \/ WebsocketEnds(r)
    <3>1. /\ InChannel(r) /\ UNCHANGED handler
          /\ \A q \in Requests \ {r} : /\ UNCHANGED websocket[q]
                                       /\ q \in captured' <=> q \in captured
          /\ r \in captured' => r \in captured
      BY <2>6 DEF Upgrade, UpgradeFails, WebsocketEnds, TaskEnds, InChannel, TypeOK
    <3>2. handler[r] # "none" /\ handler'[r] # "none"
      BY <3>1 DEF RequestInv, InChannel
    <3>3. HoldsRqctx(r)' => HoldsRqctx(r)
      BY <3>1 DEF HoldsRqctx, Executing
    <3>4. \A q \in Requests \ {r} : UNCHANGED handler[q]
      BY <3>1
    <3>5. QED
      BY <2>2, <3>1, <3>2, <3>3, <3>4
  <2>7. CASE RouteFails(r) \/ SendResult(r) \/ DropWorker(r) \/ ReceiveResult(r)
             \/ PropagatePanic(r) \/ ResponseLeaves(r)
    BY <2>0, <2>7, BarFrame DEF RouteFails, SendResult, DropWorker,
       ReceiveResult, PropagatePanic, ResponseLeaves, Follows
  <2>8. QED
    BY <1>3, <2>1, <2>3, <2>4, <2>5, <2>6, <2>7 DEF RequestNext
<1>4. CASE Terminated \/ UNCHANGED vars
  BY <1>4, BarFrame DEF Terminated, vars, Follows
<1>5. QED
  BY <1>1, <1>2, <1>3, <1>4 DEF Next

\* The server implements ServerLifecycle: the detailed behaviour of tasks,
\* connections and reference counts is, seen by the owner, a lifecycle in
\* which each request's code runs at most once, shutdown waits for all code
\* that owns a part of the server, and is final.
THEOREM Refinement == Spec => LifecycleRefined
<1>1. Init => Lifecycle!LifecycleInit
  BY DEF Init, Lifecycle!LifecycleInit, phaseBar, activeBar, freeBar, endedBar,
         HoldsRqctx, Executing, InChannel
<1>2. TypeOK /\ ShutdownInv /\ RequestInv /\ DeliveryInv /\ [Next]_vars
        => [Lifecycle!LifecycleNext]_(Lifecycle!lifecycleVars)
  BY LifecycleStep DEF Follows, Lifecycle!lifecycleVars
<1>3. QED
  BY <1>1, <1>2, TypeCorrect, ShutdownInvariant, RequestInvariant,
     DeliveryInvariant, PTL
     DEF Spec, LifecycleRefined, Lifecycle!LifecycleSpec

=============================================================================
