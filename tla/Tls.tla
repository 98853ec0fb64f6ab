-------------------------------- MODULE Tls --------------------------------
(***************************************************************************)
(* A server that terminates TLS: how ServerBuilder::build_starter() and    *)
(* HttpServer::refresh_tls() turn a ConfigTls into the acceptor that the   *)
(* server shares behind a mutex, and how the stream of HttpsAcceptor       *)
(* accepts sockets and negotiates with many peers at once.                 *)
(*                                                                         *)
(* A certificate or a key is known by the key pair it belongs to, and by   *)
(* what is wrong with its PEM text.  Files are replaced one at a time, by  *)
(* an operator who knows nothing of the server.  Shutdown is the subject   *)
(* of module Server.                                                       *)
(***************************************************************************)
EXTENDS Naturals

CONSTANTS
  Conns,          \* the connections that clients make
  Refreshes,      \* the calls of refresh_tls(), by any tasks
  Starter,        \* the call of build_starter()
  Pairs,          \* the key pairs that certificates are issued for
  MaxWrites,      \* bound: how often a certificate or key file is replaced
  MaxErrors       \* bound: failures of accept() itself

ASSUME TlsAssumption == /\ Starter \notin Refreshes
                        /\ MaxWrites \in Nat /\ MaxErrors \in Nat

Loads == Refreshes \union {Starter}

VARIABLES
  files,          \* what the two files of ConfigTls::AsFile hold
  writes,         \* replacements of files so far
  load,           \* for each load of a configuration, how far it is
  tls_acceptor,   \* the acceptor in use, NoAcceptor without TLS
  stream,         \* what the stream of HttpsAcceptor awaits
  conn,           \* for each connection, its stage and its acceptor
  errors,         \* failures of accept() so far
  older           \* history: the loads that had ended when a load began

vars == <<files, writes, load, tls_acceptor, stream, conn, errors, older>>

----------------------------------------------------------------------------
(* Configurations *)

\* The text of a PEM file: absent, not PEM at all, PEM without the item that
\* is asked for, PEM with two of them, or one certificate or key of a pair.
Pem == [shape: {"missing", "garbage", "none", "two", "one"}, pair: Pairs]

NoAcceptor == [by |-> "nobody"]

Acceptors == [by: Loads, certs: Pairs, key: Pairs]

\* Faulty variant: the server takes any certificate with any key.
MatchingAlways(certs, key) == certs.shape \in {"one", "two"}

\* with_single_cert(): a chain may be longer than the certificate itself.
Matching(certs, key) == certs.shape \in {"one", "two"} /\ certs.pair = key.pair

\* rustls::ServerConfig::try_from(&ConfigTls), after both files were opened:
\* the certificates are parsed before the keys, there must be one key, and
\* rustls insists that it belongs to the first certificate.  The last check
\* is followed by expect(), so that it panics.
try_from(certs, key) ==
  IF certs.shape = "garbage" THEN "PemError"
  ELSE IF key.shape = "garbage" THEN "PemError"
  ELSE IF key.shape # "one" THEN "NotOnePrivateKey"
  ELSE IF ~Matching(certs, key) THEN "panic"
  ELSE "ok"

BuildErrors == {"BindError", "SystemError", "PemError", "NotOnePrivateKey",
                "UnversionedServerHasVersionedRoutes"}

\* A load waits to begin, opens the certificate file and then the key file,
\* waits for the lock, has replaced the acceptor, and ends.
Idle == [at |-> "idle"]
Opening(at, certs) == [at |-> at, certs |-> certs]
Loaded(certs, key) == [at |-> "lock", certs |-> certs, key |-> key]
Ended(result) == [at |-> "ended", result |-> result]

LoadStates ==
  {Idle, [at |-> "cert_file"], [at |-> "installed"]}
    \union [at: {"key_file"}, certs: Pem]
    \union [at: {"lock"}, certs: Pem, key: Pem]
    \union [at: {"ended"},
            result: BuildErrors \union {"Ok", "Not configured for TLS", "panic"}]

Installed(t) == load[t].at = "installed" \/ load[t] = Ended("Ok")

Running == load[Starter] = Ended("Ok")
UsingTls == tls_acceptor # NoAcceptor

\* Faulty variant: a refresh that cannot read its configuration goes on with
\* whatever it has.
FailedGoesOn(t, result) == IF t = Starter THEN Ended(result)
                           ELSE [at |-> "installed"]

\* What a conversion that did not succeed comes to: build_starter() returns
\* the error, refresh_tls() unwraps it.
Failed(t, result) == IF t = Starter THEN Ended(result) ELSE Ended("panic")

----------------------------------------------------------------------------
(* Loading a configuration *)

Finished(t, certs, key) ==
  load' = [load EXCEPT ![t] = IF try_from(certs, key) = "ok"
                              THEN Loaded(certs, key)
                              ELSE Failed(t, try_from(certs, key))]

\* The arms of the match on ConfigTls.  Dynamic brings a configuration that
\* rustls already accepted, AsBytes any bytes.
BeginLoad(t) ==
  /\ \/ load' = [load EXCEPT ![t] = [at |-> "cert_file"]]
     \/ \E certs, key \in Pem :
          /\ certs.shape # "missing" /\ key.shape # "missing"
          /\ Finished(t, certs, key)
     \/ \E p \in Pairs : LET raw == [shape |-> "one", pair |-> p]
                         IN load' = [load EXCEPT ![t] = Loaded(raw, raw)]
  /\ older' = [older EXCEPT ![t] = {u \in Loads : load[u] = Ended("Ok")}]
  /\ UNCHANGED <<files, writes, tls_acceptor, stream, conn, errors>>

\* new_internal() binds first, whatever the TLS configuration is.
Bind ==
  /\ load[Starter] = Idle
  /\ \/ /\ load' = [load EXCEPT ![Starter] = Ended("BindError")]
        /\ UNCHANGED <<files, writes, tls_acceptor, stream, conn, errors, older>>
     \/ BeginLoad(Starter)
     \/ /\ load' = [load EXCEPT ![Starter] = [at |-> "installed"]]
        /\ UNCHANGED <<files, writes, tls_acceptor, stream, conn, errors, older>>

\* refresh_tls(): Rust evaluates the right side of the assignment first, so
\* the configuration is loaded before the lock is taken.
refresh_tls(t) ==
  /\ t \in Refreshes /\ load[t] = Idle
  /\ Running
  /\ IF UsingTls
     THEN BeginLoad(t)
     ELSE /\ load' = [load EXCEPT ![t] = Ended("Not configured for TLS")]
          /\ UNCHANGED <<files, writes, tls_acceptor, stream, conn, errors, older>>

OpenCert(t) ==
  /\ load[t].at = "cert_file"
  /\ load' = [load EXCEPT ![t] = IF files.cert_file.shape = "missing"
                                 THEN Failed(t, "SystemError")
                                 ELSE Opening("key_file", files.cert_file)]
  /\ UNCHANGED <<files, writes, tls_acceptor, stream, conn, errors, older>>

OpenKey(t) ==
  /\ load[t].at = "key_file"
  /\ IF files.key_file.shape = "missing"
     THEN load' = [load EXCEPT ![t] = Failed(t, "SystemError")]
     ELSE Finished(t, load[t].certs, files.key_file)
  /\ UNCHANGED <<files, writes, tls_acceptor, stream, conn, errors, older>>

\* The acceptor is replaced under the lock.  Nobody keeps the lock over an
\* await, so taking it, writing and releasing it is one step.
Install(t) ==
  /\ load[t].at = "lock"
  /\ tls_acceptor' = [by |-> t, certs |-> load[t].certs.pair,
                      key |-> load[t].key.pair]
  /\ load' = [load EXCEPT ![t] = [at |-> "installed"]]
  /\ UNCHANGED <<files, writes, stream, conn, errors, older>>

\* Faulty variant: a refresh checks its configuration once it is in use.
ReturnLateCheck(t) ==
  /\ load[t].at = "installed"
  /\ \/ load' = [load EXCEPT ![t] = Ended("Ok")]
     \/ load' = [load EXCEPT ![t] = Ended("PemError")]
  /\ UNCHANGED <<files, writes, tls_acceptor, stream, conn, errors, older>>

\* The call returns; only build_starter() has something left to refuse.
Return(t) ==
  /\ load[t].at = "installed"
  /\ \/ load' = [load EXCEPT ![t] = Ended("Ok")]
     \/ /\ t = Starter
        /\ load' = [load EXCEPT
                      ![t] = Ended("UnversionedServerHasVersionedRoutes")]
  /\ UNCHANGED <<files, writes, tls_acceptor, stream, conn, errors, older>>

\* The operator replaces one of the files.
WriteFile ==
  /\ writes < MaxWrites
  /\ writes' = writes + 1
  /\ \E f \in DOMAIN files, p \in Pem : files' = [files EXCEPT ![f] = p]
  /\ UNCHANGED <<load, tls_acceptor, stream, conn, errors, older>>

----------------------------------------------------------------------------
(* Accepting and negotiating *)

\* The configurations that a finished refresh was meant to replace.
Superseded == UNION {older[t] : t \in {u \in Loads : load[u] = Ended("Ok")}}

\* A client connects; what is superseded by now is noted.
Connect(c) ==
  /\ Running
  /\ conn[c].stage = "none"
  /\ conn' = [conn EXCEPT ![c] = [@ EXCEPT !.stage = "backlog",
                                           !.superseded = Superseded]]
  /\ UNCHANGED <<files, writes, load, tls_acceptor, stream, errors, older>>

\* HttpAcceptor::accept(): the errors of a single socket are ignored, and any
\* other error is waited out; the loop goes on in both cases.
AcceptError ==
  /\ Running /\ stream = "select"
  /\ errors < MaxErrors
  /\ errors' = errors + 1
  /\ \/ \E c \in Conns : /\ conn[c].stage = "backlog"
                         /\ conn' = [conn EXCEPT ![c].stage = "reset"]
     \/ UNCHANGED conn
  /\ UNCHANGED <<files, writes, load, tls_acceptor, stream, older>>

\* A socket is taken from the listener.  Without TLS it is served as it is;
\* with TLS the stream now waits for the lock and polls nothing else.
Accept(c) ==
  /\ Running /\ stream = "select"
  /\ conn[c].stage = "backlog"
  /\ IF UsingTls
     THEN /\ conn' = [conn EXCEPT ![c].stage = "accepted"]
          /\ stream' = "lock"
     ELSE /\ conn' = [conn EXCEPT ![c].stage = "served"]
          /\ UNCHANGED stream
  /\ UNCHANGED <<files, writes, load, tls_acceptor, errors, older>>

\* Faulty variant: the stream uses the acceptor the server was built with.
LockAcceptorCached(c) ==
  /\ stream = "lock" /\ conn[c].stage = "accepted"
  /\ conn' = [conn EXCEPT ![c] = [@ EXCEPT !.stage = "negotiating",
                                  !.acceptor = [tls_acceptor EXCEPT !.by = Starter]]]
  /\ stream' = "select"
  /\ UNCHANGED <<files, writes, load, tls_acceptor, errors, older>>

\* The lock is granted, and the negotiation joins tls_negotiations.
LockAcceptor(c) ==
  /\ stream = "lock" /\ conn[c].stage = "accepted"
  /\ conn' = [conn EXCEPT ![c] = [@ EXCEPT !.stage = "negotiating",
                                           !.acceptor = tls_acceptor]]
  /\ stream' = "select"
  /\ UNCHANGED <<files, writes, load, tls_acceptor, errors, older>>

\* The peer completes the handshake, or fails it, or is gone; or it stays
\* silent for ever.
Handshake(c) ==
  /\ conn[c].stage = "negotiating"
  /\ \E s \in {"agreed", "broken"} : conn' = [conn EXCEPT ![c].stage = s]
  /\ UNCHANGED <<files, writes, load, tls_acceptor, stream, errors, older>>

\* Faulty variant: the failure is yielded, and the pattern Some(Ok(sock)) of
\* the accept loop never matches again.
NegotiationFailedYielded(c) ==
  /\ stream = "select" /\ conn[c].stage = "broken"
  /\ conn' = [conn EXCEPT ![c].stage = "failed"]
  /\ stream' = "ended"
  /\ UNCHANGED <<files, writes, load, tls_acceptor, errors, older>>

\* tls_negotiations.next() brings a failure: it is logged.
NegotiationFailed(c) ==
  /\ stream = "select" /\ conn[c].stage = "broken"
  /\ conn' = [conn EXCEPT ![c].stage = "failed"]
  /\ UNCHANGED <<files, writes, load, tls_acceptor, stream, errors, older>>

\* tls_negotiations.next() brings a connection: it is yielded and served.
Negotiated(c) ==
  /\ stream = "select" /\ conn[c].stage = "agreed"
  /\ conn' = [conn EXCEPT ![c].stage = "served"]
  /\ UNCHANGED <<files, writes, load, tls_acceptor, stream, errors, older>>

----------------------------------------------------------------------------
Init ==
  /\ files \in [{"cert_file", "key_file"} -> [shape: {"one"}, pair: Pairs]]
  /\ writes = 0
  /\ load = [t \in Loads |-> Idle]
  /\ tls_acceptor = NoAcceptor
  /\ stream = "select"
  /\ conn = [c \in Conns |-> [stage |-> "none", acceptor |-> NoAcceptor,
                              superseded |-> {}]]
  /\ errors = 0
  /\ older = [t \in Loads |-> {}]

Next ==
  \/ Bind
  \/ \E t \in Loads : refresh_tls(t) \/ OpenCert(t) \/ OpenKey(t)
                        \/ Install(t) \/ Return(t)
  \/ WriteFile
  \/ AcceptError
  \/ \E c \in Conns : Connect(c) \/ Accept(c) \/ LockAcceptor(c)
                        \/ Handshake(c) \/ NegotiationFailed(c) \/ Negotiated(c)

\* tokio's select! polls its branches in random order, so a branch that is
\* ready again and again is taken.  Peers, operators and callers may stop.
Fairness == \A c \in Conns : /\ SF_vars(Accept(c))
                             /\ WF_vars(LockAcceptor(c))
                             /\ SF_vars(NegotiationFailed(c))
                             /\ SF_vars(Negotiated(c))

Spec == Init /\ [][Next]_vars
FairSpec == Spec /\ Fairness

----------------------------------------------------------------------------
(* Properties *)

Stages == {"none", "backlog", "reset", "accepted", "negotiating", "agreed",
           "broken", "failed", "served"}

\* The type of the state: what the mutex of DropshotState::tls_acceptor
\* (server.rs:77) can hold, the stages of a load and of a connection; the
\* stream only ever awaits select! or the lock (server.rs:508-541).
TypeOK ==
  /\ files \in [{"cert_file", "key_file"} -> Pem]
  /\ writes \in 0..MaxWrites
  /\ load \in [Loads -> LoadStates]
  /\ tls_acceptor \in Acceptors \union {NoAcceptor}
  /\ stream \in {"select", "lock"}
  /\ conn \in [Conns -> [stage: Stages, superseded: SUBSET Loads,
                         acceptor: Acceptors \union {NoAcceptor}]]
  /\ errors \in 0..MaxErrors
  /\ older \in [Loads -> SUBSET Loads]

\* A client that connects after a refresh has returned is never offered a
\* certificate that the refresh replaced: not an earlier one, and not one
\* that a slower, older call put back.  The stream takes the acceptor per
\* socket (server.rs:531-535) and refresh_tls() writes it before it returns
\* (server.rs:666-669).
FreshCertificate ==
  \A c \in Conns : conn[c].acceptor # NoAcceptor
    => conn[c].acceptor.by \notin conn[c].superseded

\* A load that did not succeed has no effect: neither the shared acceptor nor
\* any connection uses anything of it, although a refresh that fails panics
\* on its way (server.rs:667) and a mutex is involved.
FailedLoadsLeaveNoTrace ==
  \A t \in Refreshes : load[t].at = "ended" /\ load[t] # Ended("Ok")
    => /\ tls_acceptor # NoAcceptor => tls_acceptor.by # t
       /\ \A c \in Conns : conn[c].acceptor # NoAcceptor
                             => conn[c].acceptor.by # t

\* Certificate and key are replaced in two files, one after the other, and
\* read in two steps; no connection is ever negotiated with a certificate of
\* one pair and the key of another (server.rs:600-603).
NeverAMixedPair ==
  \A c \in Conns : conn[c].acceptor # NoAcceptor
    => conn[c].acceptor.certs = conn[c].acceptor.key

\* Every refresh that ends with Ok made its configuration the one in use,
\* and it has given way only to a refresh that did not end before it began.
RefreshTakesEffect ==
  \A t \in Refreshes : load[t] = Ended("Ok") =>
    /\ tls_acceptor # NoAcceptor
    /\ tls_acceptor.by \notin older[t]

\* Peers that stay silent in the handshake, fail it or vanish hold up nobody
\* else: a socket in the backlog is taken, and a peer that completed the
\* handshake is served (server.rs:508-541 negotiates concurrently and does
\* not yield errors).
OthersServed ==
  \A c \in Conns :
    /\ conn[c].stage = "backlog" ~> conn[c].stage \notin {"backlog", "accepted"}
    /\ conn[c].stage = "agreed" ~> conn[c].stage = "served"

\* What a client is offered: a certificate that was current when it connected,
\* with the key that belongs to it (server.rs:531-535, 600-603).
CertificatesSound == TypeOK /\ FreshCertificate /\ NeverAMixedPair

\* A refresh takes effect if it returns Ok and leaves no trace if it does not,
\* whatever other refreshes do meanwhile (server.rs:652-675).
RefreshAllOrNothing == FailedLoadsLeaveNoTrace /\ RefreshTakesEffect

============================================================================
