----------------------------- MODULE TlsProofs -----------------------------
(***************************************************************************)
(* Proofs about module Tls, for any number of connections, concurrent      *)
(* refreshes and key pairs: what a client is offered, and what a refresh   *)
(* that succeeds or fails leaves behind.                                   *)
(*                                                                         *)
(* The argument: only Ended("Ok") loads are ever superseded, and such a    *)
(* load never takes the lock again; so the load that installed the current *)
(* acceptor is superseded by nobody, and what a connection takes from the  *)
(* mutex is not superseded for it either.                                  *)
(***************************************************************************)
EXTENDS Tls, TLAPS

\* A configuration that reaches the lock was accepted by rustls, and so were
\* the ones in use (server.rs:594-606).
PairsMatch ==
  /\ \A t \in Loads : load[t].at = "lock" => load[t].certs.pair = load[t].key.pair
  /\ UsingTls => tls_acceptor.certs = tls_acceptor.key
  /\ \A c \in Conns : conn[c].acceptor # NoAcceptor
                        => conn[c].acceptor.certs = conn[c].acceptor.key

\* Only a load that got as far as writing the acceptor is ever in use.
UsedWasInstalled ==
  \A t \in Refreshes :
    /\ UsingTls /\ tls_acceptor.by = t => Installed(t)
    /\ \A c \in Conns : conn[c].acceptor # NoAcceptor /\ conn[c].acceptor.by = t
                          => Installed(t)

\* Loads are older than another only once they have returned Ok, and a load
\* that has not begun has none that are older.
OlderHaveEnded ==
  \A t \in Loads :
    /\ \A u \in older[t] : load[u] = Ended("Ok")
    /\ load[t] = Idle => older[t] = {}

\* refresh_tls() goes on only when the server already uses TLS, and a server
\* never ceases to (server.rs:652-664).
RefreshesUseTls ==
  \A t \in Refreshes :
    load[t].at \in {"cert_file", "key_file", "lock", "installed"} \/ load[t] = Ended("Ok")
      => UsingTls

\* The acceptor in use is superseded neither by a load that wrote one nor for
\* a connection.
CurrentIsFresh ==
  UsingTls =>
    /\ \A t \in Loads : Installed(t) => tls_acceptor.by \notin older[t]
    /\ \A c \in Conns : tls_acceptor.by \notin conn[c].superseded

\* What a connection has superseded returned Ok before it connected, and it
\* has no acceptor before it connects.
SupersededHaveEnded ==
  \A c \in Conns :
    /\ \A u \in conn[c].superseded : load[u] = Ended("Ok")
    /\ conn[c].stage = "none" => conn[c].acceptor = NoAcceptor

\* The inductive invariant.
TlsInv ==
  /\ TypeOK
  /\ PairsMatch
  /\ UsedWasInstalled
  /\ OlderHaveEnded
  /\ RefreshesUseTls
  /\ CurrentIsFresh
  /\ SupersededHaveEnded
  /\ FreshCertificate

LEMMA InitTls == Init => TlsInv
<1> SUFFICES ASSUME Init PROVE TlsInv
  OBVIOUS
<1>1. TypeOK
  <2>1. files \in [{"cert_file", "key_file"} -> Pem]
    BY DEF Init, Pem
  <2>2. load \in [Loads -> LoadStates]
    BY DEF Init, LoadStates
  <2>3. conn \in [Conns -> [stage: Stages, superseded: SUBSET Loads,
                            acceptor: Acceptors \union {NoAcceptor}]]
    BY DEF Init, Stages
  <2>4. writes \in 0..MaxWrites /\ errors \in 0..MaxErrors
    BY TlsAssumption DEF Init
  <2> QED
    BY <2>1, <2>2, <2>3, <2>4 DEF Init, TypeOK
<1>2. /\ ~UsingTls
      /\ \A t \in Loads : load[t] = Idle /\ load[t].at = "idle" /\ older[t] = {}
      /\ \A c \in Conns : conn[c].acceptor = NoAcceptor /\ conn[c].superseded = {}
  BY DEF Init, UsingTls, Idle
<1> QED
  BY <1>1, <1>2
  DEF TlsInv, PairsMatch, UsedWasInstalled, OlderHaveEnded, RefreshesUseTls,
      CurrentIsFresh, SupersededHaveEnded, FreshCertificate, Installed, Ended, Loads

\* What is common to the steps of a load that leave the acceptor alone: the
\* load may not pretend to have installed one, and a refresh that did install
\* one may only return Ok.
LEMMA LoadMoves ==
  ASSUME TlsInv, NEW t \in Loads, NEW v \in LoadStates,
         load[t].at # "ended", v.at # "idle",
         load' = [load EXCEPT ![t] = v],
         UNCHANGED <<files, writes, tls_acceptor, stream, conn, errors>>,
         \/ UNCHANGED older
         \/ older' = [older EXCEPT ![t] = {u \in Loads : load[u] = Ended("Ok")}],
         v.at = "lock" => v.certs.pair = v.key.pair,
         load[t].at = "installed" /\ t \in Refreshes => v = Ended("Ok"),
         v.at = "installed" \/ v = Ended("Ok")
           => UNCHANGED older /\ (load[t].at = "installed" \/ load[t] = Idle),
         t \in Refreshes /\ (v.at # "ended" \/ v = Ended("Ok")) => UsingTls
  PROVE  TlsInv'
<1> USE DEF Ended
<1>1. TypeOK'
  BY DEF TlsInv, TypeOK
<1>2. /\ load'[t] = v
      /\ \A u \in Loads : u # t => load'[u] = load[u]
      /\ \A u \in Loads : load[u] = Ended("Ok") => load'[u] = Ended("Ok")
  BY DEF TlsInv, TypeOK
<1>3. \A u \in Loads : u # t => older'[u] = older[u]
  BY DEF TlsInv, TypeOK
<1>4. \A u \in older'[t] : load[u] = Ended("Ok") /\ u \in Loads
  BY DEF TlsInv, TypeOK, OlderHaveEnded
<1>5. PairsMatch'
  BY <1>2 DEF TlsInv, PairsMatch, UsingTls
<1>6. UsedWasInstalled'
  BY <1>2 DEF TlsInv, UsedWasInstalled, UsingTls, Installed, Loads
<1>7. OlderHaveEnded'
  <2>1. ASSUME NEW u \in Loads, NEW w \in older'[u]
        PROVE  load'[w] = Ended("Ok")
    <3>1. w \in Loads /\ load[w] = Ended("Ok")
      BY <1>3, <1>4 DEF TlsInv, TypeOK, OlderHaveEnded
    <3> QED
      BY <3>1, <1>2
  <2>2. ASSUME NEW u \in Loads, load'[u] = Idle
        PROVE  older'[u] = {}
    BY <2>2, <1>2, <1>3 DEF TlsInv, OlderHaveEnded, Idle
  <2> QED
    BY <2>1, <2>2 DEF OlderHaveEnded
<1>8. RefreshesUseTls'
  BY <1>2 DEF TlsInv, RefreshesUseTls, UsingTls, Loads
<1>9. CurrentIsFresh'
  <2> SUFFICES ASSUME UsingTls, NEW u \in Loads, Installed(u)'
               PROVE  tls_acceptor.by \notin older'[u]
    BY DEF TlsInv, CurrentIsFresh, UsingTls
  <2>1. CASE u # t
    BY <2>1, <1>2, <1>3 DEF TlsInv, CurrentIsFresh, Installed
  <2>2. CASE u = t
    <3>1. older'[t] = older[t] /\ (load[t].at = "installed" \/ load[t] = Idle)
      BY <2>2, <1>2 DEF Installed
    <3> QED
      BY <2>2, <3>1 DEF TlsInv, CurrentIsFresh, Installed, OlderHaveEnded
  <2> QED
    BY <2>1, <2>2
<1>10. SupersededHaveEnded'
  <2>1. ASSUME NEW c \in Conns, NEW u \in conn[c].superseded
        PROVE  load'[u] = Ended("Ok")
    BY <1>2 DEF TlsInv, TypeOK, SupersededHaveEnded
  <2> QED
    BY <2>1 DEF TlsInv, SupersededHaveEnded
<1>11. FreshCertificate'
  BY DEF TlsInv, FreshCertificate
<1> QED
  BY <1>1, <1>5, <1>6, <1>7, <1>8, <1>9, <1>10, <1>11 DEF TlsInv

\* A conversion ends in a configuration of one pair, or in an error.
LEMMA ConversionFacts ==
  ASSUME NEW t \in Loads, NEW certs \in Pem, NEW key \in Pem
  PROVE  LET v == IF try_from(certs, key) = "ok" THEN Loaded(certs, key)
                  ELSE Failed(t, try_from(certs, key))
         IN  /\ v \in LoadStates /\ v.at \in {"lock", "ended"}
             /\ v.at = "lock" => v.certs.pair = v.key.pair
             /\ v # Ended("Ok")
<1>1. try_from(certs, key) \in {"ok", "PemError", "NotOnePrivateKey", "panic"}
  BY DEF try_from
<1>2. CASE try_from(certs, key) = "ok"
  <2>1. certs.pair = key.pair
    BY <1>2 DEF try_from, Matching
  <2>2. Loaded(certs, key) \in LoadStates
    BY DEF Loaded, LoadStates
  <2> QED
    BY <1>2, <2>1, <2>2 DEF Loaded, Ended
<1>3. CASE try_from(certs, key) # "ok"
  BY <1>1, <1>3 DEF Failed, Ended, LoadStates, BuildErrors
<1> QED
  BY <1>2, <1>3

\* An error is a state of a load, and not the state of success.
LEMMA FailedFacts ==
  ASSUME NEW t \in Loads
  PROVE  LET v == Failed(t, "SystemError")
         IN  v \in LoadStates /\ v.at = "ended" /\ v # Ended("Ok")
BY DEF Failed, Ended, LoadStates, BuildErrors

LEMMA BeginLoadStep ==
  ASSUME TlsInv, NEW t \in Loads, load[t] = Idle, t \in Refreshes => UsingTls,
         BeginLoad(t)
  PROVE  TlsInv'
<1> PICK v \in LoadStates :
      /\ load' = [load EXCEPT ![t] = v]
      /\ v.at \in {"cert_file", "lock", "ended"} /\ v # Ended("Ok")
      /\ v.at = "lock" => v.certs.pair = v.key.pair
  <2>1. CASE load' = [load EXCEPT ![t] = [at |-> "cert_file"]]
    <3>1. [at |-> "cert_file"] \in LoadStates
      BY DEF LoadStates
    <3> QED
      BY <2>1, <3>1 DEF Ended
  <2>2. ASSUME NEW certs \in Pem, NEW key \in Pem, Finished(t, certs, key)
        PROVE  \E v \in LoadStates :
                 /\ load' = [load EXCEPT ![t] = v]
                 /\ v.at \in {"cert_file", "lock", "ended"} /\ v # Ended("Ok")
                 /\ v.at = "lock" => v.certs.pair = v.key.pair
    BY <2>2, ConversionFacts, Zenon DEF Finished
  <2>3. ASSUME NEW p \in Pairs,
               load' = [load EXCEPT ![t] = Loaded([shape |-> "one", pair |-> p],
                                                  [shape |-> "one", pair |-> p])]
        PROVE  \E v \in LoadStates :
                 /\ load' = [load EXCEPT ![t] = v]
                 /\ v.at \in {"cert_file", "lock", "ended"} /\ v # Ended("Ok")
                 /\ v.at = "lock" => v.certs.pair = v.key.pair
    <3> DEFINE raw == [shape |-> "one", pair |-> p]
    <3>1. raw \in Pem
      BY DEF Pem
    <3>2. Loaded(raw, raw) \in LoadStates
      BY <3>1 DEF Loaded, LoadStates
    <3>3. /\ Loaded(raw, raw).at = "lock" /\ Loaded(raw, raw) # Ended("Ok")
          /\ Loaded(raw, raw).certs.pair = Loaded(raw, raw).key.pair
      BY DEF Loaded, Ended
    <3> QED
      BY <2>3, <3>2, <3>3
  <2> QED
    BY <2>1, <2>2, <2>3 DEF BeginLoad
<1>1. load[t].at = "idle" /\ v.at # "idle" /\ v.at # "installed"
  BY DEF Idle
<1>2. /\ UNCHANGED <<files, writes, tls_acceptor, stream, conn, errors>>
      /\ older' = [older EXCEPT ![t] = {u \in Loads : load[u] = Ended("Ok")}]
  BY DEF BeginLoad
<1> QED
  BY <1>1, <1>2, LoadMoves

LEMMA BindStep == ASSUME TlsInv, Bind PROVE TlsInv'
<1>1. Starter \in Loads /\ Starter \notin Refreshes /\ load[Starter] = Idle
  BY TlsAssumption DEF Loads, Bind
<1>2. load[Starter].at = "idle"
  BY <1>1 DEF Idle
<1>3. CASE /\ load' = [load EXCEPT ![Starter] = Ended("BindError")]
           /\ UNCHANGED <<files, writes, tls_acceptor, stream, conn, errors, older>>
  <2>1. /\ Ended("BindError") \in LoadStates
        /\ Ended("BindError").at = "ended" /\ Ended("BindError") # Ended("Ok")
    BY DEF Ended, LoadStates, BuildErrors
  <2> QED
    BY <1>1, <1>2, <1>3, <2>1, LoadMoves
<1>4. CASE BeginLoad(Starter)
  BY <1>1, <1>4, BeginLoadStep
<1>5. CASE /\ load' = [load EXCEPT ![Starter] = [at |-> "installed"]]
           /\ UNCHANGED <<files, writes, tls_acceptor, stream, conn, errors, older>>
  <2>1. [at |-> "installed"] \in LoadStates /\ [at |-> "installed"].at = "installed"
    BY DEF LoadStates
  <2> QED
    BY <1>1, <1>2, <1>5, <2>1, LoadMoves
<1> QED
  BY <1>3, <1>4, <1>5 DEF Bind

LEMMA RefreshStep == ASSUME TlsInv, NEW t \in Loads, refresh_tls(t) PROVE TlsInv'
<1>1. t \in Refreshes /\ load[t] = Idle /\ load[t].at = "idle"
  <2>1. t \in Refreshes /\ load[t] = Idle
    BY DEF refresh_tls
  <2> QED
    BY <2>1 DEF Idle
<1>2. CASE UsingTls
  BY <1>1, <1>2, BeginLoadStep DEF refresh_tls
<1>3. CASE ~UsingTls
  <2> DEFINE v == Ended("Not configured for TLS")
  <2>1. v \in LoadStates /\ v.at = "ended" /\ v # Ended("Ok")
    BY DEF Ended, LoadStates
  <2>2. /\ load' = [load EXCEPT ![t] = v]
        /\ UNCHANGED <<files, writes, tls_acceptor, stream, conn, errors, older>>
    BY <1>3 DEF refresh_tls
  <2> HIDE DEF v
  <2> QED
    BY <1>1, <2>1, <2>2, LoadMoves
<1> QED
  BY <1>2, <1>3

LEMMA OpenCertStep == ASSUME TlsInv, NEW t \in Loads, OpenCert(t) PROVE TlsInv'
<1> DEFINE v == IF files.cert_file.shape = "missing" THEN Failed(t, "SystemError")
                ELSE Opening("key_file", files.cert_file)
<1>1. /\ load' = [load EXCEPT ![t] = v] /\ load[t].at = "cert_file"
      /\ UNCHANGED <<files, writes, tls_acceptor, stream, conn, errors, older>>
  BY DEF OpenCert
<1>2. v \in LoadStates /\ v.at \in {"key_file", "ended"} /\ v # Ended("Ok")
  <2>1. CASE files.cert_file.shape = "missing"
    BY <2>1, FailedFacts
  <2>2. CASE files.cert_file.shape # "missing"
    <3>1. files.cert_file \in Pem
      BY DEF TlsInv, TypeOK
    <3>2. Opening("key_file", files.cert_file) \in LoadStates
      BY <3>1 DEF Opening, LoadStates
    <3> QED
      BY <2>2, <3>2 DEF Opening, Ended
  <2> QED
    BY <2>1, <2>2
<1>3. t \in Refreshes => UsingTls
  BY <1>1 DEF TlsInv, RefreshesUseTls
<1> HIDE DEF v
<1> QED
  BY <1>1, <1>2, <1>3, LoadMoves

\* What a load has read at each of its stages.
LEMMA LoadFields ==
  ASSUME NEW s \in LoadStates
  PROVE  /\ s.at = "key_file" => s.certs \in Pem
         /\ s.at = "lock" => s.certs \in Pem /\ s.key \in Pem
<1>1. CASE s \in {Idle, [at |-> "cert_file"], [at |-> "installed"]}
  BY <1>1 DEF Idle
<1>2. CASE s \in [at: {"key_file"}, certs: Pem]
  BY <1>2
<1>3. CASE s \in [at: {"lock"}, certs: Pem, key: Pem]
  BY <1>3
<1>4. CASE s \in [at: {"ended"},
                  result: BuildErrors \union {"Ok", "Not configured for TLS", "panic"}]
  BY <1>4
<1> QED
  BY <1>1, <1>2, <1>3, <1>4 DEF LoadStates

LEMMA OpenKeyStep == ASSUME TlsInv, NEW t \in Loads, OpenKey(t) PROVE TlsInv'
<1>1. /\ load[t].at = "key_file"
      /\ UNCHANGED <<files, writes, tls_acceptor, stream, conn, errors, older>>
  BY DEF OpenKey
<1>2. t \in Refreshes => UsingTls
  BY <1>1 DEF TlsInv, RefreshesUseTls
<1>3. load[t].certs \in Pem /\ files.key_file \in Pem
  <2>1. load[t] \in LoadStates
    BY DEF TlsInv, TypeOK
  <2>2. load[t].certs \in Pem
    BY <1>1, <2>1, LoadFields
  <2>3. files.key_file \in Pem
    BY DEF TlsInv, TypeOK
  <2> QED
    BY <2>2, <2>3
<1>4. CASE files.key_file.shape = "missing"
  <2> DEFINE v == Failed(t, "SystemError")
  <2>1. v \in LoadStates /\ v.at = "ended" /\ v # Ended("Ok")
    BY FailedFacts
  <2>2. load' = [load EXCEPT ![t] = v]
    BY <1>4 DEF OpenKey
  <2> HIDE DEF v
  <2> QED
    BY <1>1, <1>2, <2>1, <2>2, LoadMoves
<1>5. CASE files.key_file.shape # "missing"
  <2> DEFINE v == IF try_from(load[t].certs, files.key_file) = "ok"
                  THEN Loaded(load[t].certs, files.key_file)
                  ELSE Failed(t, try_from(load[t].certs, files.key_file))
  <2>1. load' = [load EXCEPT ![t] = v]
    BY <1>5 DEF OpenKey, Finished
  <2>2. /\ v \in LoadStates /\ v.at \in {"lock", "ended"} /\ v # Ended("Ok")
        /\ v.at = "lock" => v.certs.pair = v.key.pair
    BY <1>3, ConversionFacts
  <2> HIDE DEF v
  <2> QED
    BY <1>1, <1>2, <2>1, <2>2, LoadMoves
<1> QED
  BY <1>4, <1>5

LEMMA ReturnStep == ASSUME TlsInv, NEW t \in Loads, Return(t) PROVE TlsInv'
<1>1. /\ load[t].at = "installed"
      /\ UNCHANGED <<files, writes, tls_acceptor, stream, conn, errors, older>>
  BY DEF Return
<1>2. t \in Refreshes => UsingTls
  BY <1>1 DEF TlsInv, RefreshesUseTls
<1>3. ASSUME load' = [load EXCEPT ![t] = Ended("Ok")]
      PROVE  TlsInv'
  <2>1. Ended("Ok") \in LoadStates /\ Ended("Ok").at = "ended"
    BY DEF Ended, LoadStates
  <2> QED
    BY <1>1, <1>2, <1>3, <2>1, LoadMoves
<1>4. ASSUME t = Starter,
             load' = [load EXCEPT ![t] = Ended("UnversionedServerHasVersionedRoutes")]
      PROVE  TlsInv'
  <2> DEFINE v == Ended("UnversionedServerHasVersionedRoutes")
  <2>1. v \in LoadStates /\ v.at = "ended" /\ v # Ended("Ok")
    BY DEF Ended, LoadStates, BuildErrors
  <2>2. t \notin Refreshes
    BY <1>4, TlsAssumption
  <2> HIDE DEF v
  <2> QED
    BY <1>1, <1>4, <2>1, <2>2, LoadMoves DEF v
<1> QED
  BY <1>3, <1>4 DEF Return

\* The acceptor is replaced by a load that nothing has superseded: what is
\* superseded has returned Ok, and this load has not returned.
LEMMA InstallStep == ASSUME TlsInv, NEW t \in Loads, Install(t) PROVE TlsInv'
<1> DEFINE acc == [by |-> t, certs |-> load[t].certs.pair, key |-> load[t].key.pair]
<1>1. /\ load[t].at = "lock" /\ tls_acceptor' = acc
      /\ load' = [load EXCEPT ![t] = [at |-> "installed"]]
      /\ UNCHANGED <<files, writes, stream, conn, errors, older>>
  BY DEF Install
<1>2. load[t].certs \in Pem /\ load[t].key \in Pem
  <2>1. load[t] \in LoadStates
    BY DEF TlsInv, TypeOK
  <2> QED
    BY <1>1, <2>1, LoadFields
<1>3. acc \in Acceptors /\ acc.by = t /\ acc.certs = acc.key
  <2>1. load[t].certs.pair \in Pairs /\ load[t].key.pair \in Pairs
    BY <1>2 DEF Pem
  <2>2. load[t].certs.pair = load[t].key.pair
    BY <1>1 DEF TlsInv, PairsMatch
  <2> QED
    BY <2>1, <2>2 DEF Acceptors
<1>4. acc # NoAcceptor
  <2>1. DOMAIN acc = {"by", "certs", "key"} /\ DOMAIN NoAcceptor = {"by"}
    BY DEF NoAcceptor
  <2> QED
    BY <2>1
<1> HIDE DEF acc
<1>5. /\ load'[t].at = "installed" /\ load'[t] # Ended("Ok") /\ load'[t] # Idle
      /\ \A u \in Loads : u # t => load'[u] = load[u]
      /\ load[t] # Ended("Ok")
  BY <1>1 DEF TlsInv, TypeOK, Ended, Idle
<1>6. UsingTls'
  BY <1>1, <1>4 DEF UsingTls
<1>7. TypeOK'
  <2>1. [at |-> "installed"] \in LoadStates
    BY DEF LoadStates
  <2> QED
    BY <1>1, <1>3, <2>1 DEF TlsInv, TypeOK
<1>8. PairsMatch'
  BY <1>1, <1>3, <1>5 DEF TlsInv, PairsMatch
<1>9. UsedWasInstalled'
  BY <1>1, <1>3, <1>5 DEF TlsInv, UsedWasInstalled, Installed, Loads
<1>10. OlderHaveEnded'
  <2>1. ASSUME NEW u \in Loads, NEW w \in older[u] PROVE load'[w] = Ended("Ok")
    BY <1>5 DEF TlsInv, TypeOK, OlderHaveEnded
  <2> QED
    BY <1>1, <1>5, <2>1 DEF TlsInv, OlderHaveEnded
<1>11. RefreshesUseTls'
  BY <1>6 DEF RefreshesUseTls
<1>12. CurrentIsFresh'
  <2>1. \A u \in Loads : t \notin older[u]
    BY <1>5 DEF TlsInv, OlderHaveEnded
  <2>2. \A c \in Conns : t \notin conn[c].superseded
    BY <1>5 DEF TlsInv, SupersededHaveEnded
  <2> QED
    BY <1>1, <1>3, <2>1, <2>2 DEF CurrentIsFresh
<1>13. SupersededHaveEnded'
  <2>1. ASSUME NEW c \in Conns, NEW u \in conn[c].superseded
        PROVE  load'[u] = Ended("Ok")
    BY <1>5 DEF TlsInv, TypeOK, SupersededHaveEnded
  <2> QED
    BY <1>1, <2>1 DEF TlsInv, SupersededHaveEnded
<1>14. FreshCertificate'
  BY <1>1 DEF TlsInv, FreshCertificate
<1> QED
  BY <1>7, <1>8, <1>9, <1>10, <1>11, <1>12, <1>13, <1>14 DEF TlsInv

\* What is common to the steps of connections: acceptors are taken from the
\* mutex or kept, and what is superseded is fixed when the client connects.
LEMMA ConnMoves ==
  ASSUME TlsInv, NEW c \in Conns,
         NEW v \in [stage: Stages, superseded: SUBSET Loads,
                    acceptor: Acceptors \union {NoAcceptor}],
         conn' = [conn EXCEPT ![c] = v],
         stream' \in {"select", "lock"}, errors' \in 0..MaxErrors,
         UNCHANGED <<files, writes, load, tls_acceptor, older>>,
         v.stage # "none",
         \/ v.acceptor = conn[c].acceptor /\ v.superseded = conn[c].superseded
         \/ v.acceptor = tls_acceptor /\ v.superseded = conn[c].superseded
         \/ v.acceptor = NoAcceptor /\ v.superseded = Superseded
  PROVE  TlsInv'
<1>1. TypeOK'
  BY DEF TlsInv, TypeOK
<1>2. conn'[c] = v /\ \A d \in Conns : d # c => conn'[d] = conn[d]
  BY DEF TlsInv, TypeOK
<1>3. \A u \in Superseded : load[u] = Ended("Ok")
  BY DEF TlsInv, OlderHaveEnded, Superseded
<1>4. UsingTls => tls_acceptor.by \notin Superseded
  BY DEF TlsInv, CurrentIsFresh, Superseded, Installed
<1>5. PairsMatch'
  BY <1>2 DEF TlsInv, PairsMatch, UsingTls
<1>6. UsedWasInstalled'
  BY <1>2 DEF TlsInv, UsedWasInstalled, UsingTls, Installed
<1>7. OlderHaveEnded' /\ RefreshesUseTls'
  BY DEF TlsInv, OlderHaveEnded, RefreshesUseTls, UsingTls
<1>8. CurrentIsFresh'
  BY <1>2, <1>4 DEF TlsInv, CurrentIsFresh, UsingTls, Installed
<1>9. SupersededHaveEnded'
  BY <1>2, <1>3 DEF TlsInv, SupersededHaveEnded
<1>10. FreshCertificate'
  BY <1>2 DEF TlsInv, FreshCertificate, CurrentIsFresh, UsingTls
<1> QED
  BY <1>1, <1>5, <1>6, <1>7, <1>8, <1>9, <1>10 DEF TlsInv

\* A connection that only changes its stage keeps its type.
LEMMA StageFacts ==
  ASSUME TlsInv, NEW c \in Conns, NEW s \in Stages
  PROVE  LET v == [conn[c] EXCEPT !.stage = s]
         IN  /\ v \in [stage: Stages, superseded: SUBSET Loads,
                       acceptor: Acceptors \union {NoAcceptor}]
             /\ v.stage = s /\ v.acceptor = conn[c].acceptor
             /\ v.superseded = conn[c].superseded
             /\ [conn EXCEPT ![c].stage = s] = [conn EXCEPT ![c] = v]
BY DEF TlsInv, TypeOK

LEMMA ConnectStep == ASSUME TlsInv, NEW c \in Conns, Connect(c) PROVE TlsInv'
<1> DEFINE v == [conn[c] EXCEPT !.stage = "backlog", !.superseded = Superseded]
<1>1. /\ conn' = [conn EXCEPT ![c] = v] /\ conn[c].stage = "none"
      /\ UNCHANGED <<files, writes, load, tls_acceptor, stream, errors, older>>
  BY DEF Connect
<1>2. Superseded \in SUBSET Loads
  BY DEF Superseded, TlsInv, TypeOK
<1>3. /\ v \in [stage: Stages, superseded: SUBSET Loads,
                acceptor: Acceptors \union {NoAcceptor}]
      /\ v.stage = "backlog" /\ v.superseded = Superseded
      /\ v.acceptor = conn[c].acceptor
  BY <1>2 DEF TlsInv, TypeOK, Stages
<1>4. conn[c].acceptor = NoAcceptor
  BY <1>1 DEF TlsInv, SupersededHaveEnded
<1>5. stream' \in {"select", "lock"} /\ errors' \in 0..MaxErrors
  BY <1>1 DEF TlsInv, TypeOK
<1> HIDE DEF v
<1> QED
  BY <1>1, <1>3, <1>4, <1>5, ConnMoves

LEMMA LockAcceptorStep ==
  ASSUME TlsInv, NEW c \in Conns, LockAcceptor(c) PROVE TlsInv'
<1> DEFINE v == [conn[c] EXCEPT !.stage = "negotiating", !.acceptor = tls_acceptor]
<1>1. /\ conn' = [conn EXCEPT ![c] = v] /\ stream' = "select"
      /\ UNCHANGED <<files, writes, load, tls_acceptor, errors, older>>
  BY DEF LockAcceptor
<1>2. /\ v \in [stage: Stages, superseded: SUBSET Loads,
                acceptor: Acceptors \union {NoAcceptor}]
      /\ v.stage = "negotiating" /\ v.acceptor = tls_acceptor
      /\ v.superseded = conn[c].superseded
  BY DEF TlsInv, TypeOK, Stages
<1>3. errors' \in 0..MaxErrors
  BY <1>1 DEF TlsInv, TypeOK
<1> HIDE DEF v
<1> QED
  BY <1>1, <1>2, <1>3, ConnMoves

\* The other steps of a connection change its stage, and perhaps what the
\* stream awaits.
LEMMA StageStep ==
  ASSUME TlsInv, NEW c \in Conns, NEW s \in Stages \ {"none"},
         conn' = [conn EXCEPT ![c].stage = s],
         stream' \in {"select", "lock"}, errors' \in 0..MaxErrors,
         UNCHANGED <<files, writes, load, tls_acceptor, older>>
  PROVE  TlsInv'
<1> DEFINE v == [conn[c] EXCEPT !.stage = s]
<1>1. /\ v \in [stage: Stages, superseded: SUBSET Loads,
                acceptor: Acceptors \union {NoAcceptor}]
      /\ v.stage # "none" /\ v.acceptor = conn[c].acceptor
      /\ v.superseded = conn[c].superseded
      /\ conn' = [conn EXCEPT ![c] = v]
  BY StageFacts
<1> HIDE DEF v
<1> QED
  BY <1>1, ConnMoves

\* Steps that change nothing but files and counters.
LEMMA CounterStep ==
  ASSUME TlsInv, UNCHANGED <<load, tls_acceptor, stream, conn, older>>, TypeOK'
  PROVE  TlsInv'
BY DEF TlsInv, PairsMatch, UsedWasInstalled, OlderHaveEnded, RefreshesUseTls,
       CurrentIsFresh, SupersededHaveEnded, FreshCertificate, UsingTls, Installed

LEMMA WriteFileStep == ASSUME TlsInv, WriteFile PROVE TlsInv'
<1>1. writes' \in 0..MaxWrites
  BY TlsAssumption DEF TlsInv, TypeOK, WriteFile
<1>2. files' \in [{"cert_file", "key_file"} -> Pem]
  BY DEF TlsInv, TypeOK, WriteFile
<1>3. UNCHANGED <<load, tls_acceptor, stream, conn, errors, older>>
  BY DEF WriteFile
<1>4. TypeOK'
  BY <1>1, <1>2, <1>3 DEF TlsInv, TypeOK
<1> QED
  BY <1>3, <1>4, CounterStep

LEMMA AcceptErrorStep == ASSUME TlsInv, AcceptError PROVE TlsInv'
<1>1. errors' \in 0..MaxErrors
  BY TlsAssumption DEF TlsInv, TypeOK, AcceptError
<1>2. UNCHANGED <<files, writes, load, tls_acceptor, stream, older>>
  BY DEF AcceptError
<1>3. ASSUME NEW c \in Conns, conn' = [conn EXCEPT ![c].stage = "reset"]
      PROVE  TlsInv'
  <2>1. "reset" \in Stages \ {"none"} /\ stream' \in {"select", "lock"}
    BY <1>2 DEF Stages, TlsInv, TypeOK
  <2> QED
    BY <1>1, <1>2, <1>3, <2>1, StageStep
<1>4. CASE UNCHANGED conn
  <2>1. TypeOK'
    BY <1>1, <1>2, <1>4 DEF TlsInv, TypeOK
  <2> QED
    BY <1>2, <1>4, <2>1, CounterStep
<1> QED
  BY <1>3, <1>4 DEF AcceptError

\* Every step preserves the inductive invariant.
LEMMA NextTls == ASSUME TlsInv, [Next]_vars PROVE TlsInv'
<1>1. stream \in {"select", "lock"} /\ errors \in 0..MaxErrors
  BY DEF TlsInv, TypeOK
<1>2. {"accepted", "served", "failed", "agreed", "broken"} \subseteq Stages \ {"none"}
  BY DEF Stages
<1>3. CASE Bind
  BY <1>3, BindStep
<1>4. ASSUME NEW t \in Loads,
             refresh_tls(t) \/ OpenCert(t) \/ OpenKey(t) \/ Install(t) \/ Return(t)
      PROVE  TlsInv'
  BY <1>4, RefreshStep, OpenCertStep, OpenKeyStep, InstallStep, ReturnStep
<1>5. CASE WriteFile
  BY <1>5, WriteFileStep
<1>6. CASE AcceptError
  BY <1>6, AcceptErrorStep
<1>7. ASSUME NEW c \in Conns, Connect(c) PROVE TlsInv'
  BY <1>7, ConnectStep
<1>8. ASSUME NEW c \in Conns, Accept(c) PROVE TlsInv'
  <2>1. UNCHANGED <<files, writes, load, tls_acceptor, errors, older>>
    BY <1>8 DEF Accept
  <2>2. CASE UsingTls
    <3>1. conn' = [conn EXCEPT ![c].stage = "accepted"] /\ stream' = "lock"
      BY <1>8, <2>2 DEF Accept
    <3> QED
      BY <1>1, <1>2, <2>1, <3>1, StageStep
  <2>3. CASE ~UsingTls
    <3>1. conn' = [conn EXCEPT ![c].stage = "served"] /\ stream' = stream
      BY <1>8, <2>3 DEF Accept
    <3> QED
      BY <1>1, <1>2, <2>1, <3>1, StageStep
  <2> QED
    BY <2>2, <2>3
<1>9. ASSUME NEW c \in Conns, LockAcceptor(c) PROVE TlsInv'
  BY <1>9, LockAcceptorStep
<1>10. ASSUME NEW c \in Conns, Handshake(c) PROVE TlsInv'
  <2>1. UNCHANGED <<files, writes, load, tls_acceptor, stream, errors, older>>
    BY <1>10 DEF Handshake
  <2>2. PICK s \in {"agreed", "broken"} : conn' = [conn EXCEPT ![c].stage = s]
    BY <1>10 DEF Handshake
  <2> QED
    BY <1>1, <1>2, <2>1, <2>2, StageStep
<1>11. ASSUME NEW c \in Conns, NegotiationFailed(c) \/ Negotiated(c) PROVE TlsInv'
  <2>1. UNCHANGED <<files, writes, load, tls_acceptor, stream, errors, older>>
    BY <1>11 DEF NegotiationFailed, Negotiated
  <2>2. PICK s \in {"failed", "served"} : conn' = [conn EXCEPT ![c].stage = s]
    BY <1>11 DEF NegotiationFailed, Negotiated
  <2> QED
    BY <1>1, <1>2, <2>1, <2>2, StageStep
<1>12. CASE UNCHANGED vars
  <2>1. TypeOK'
    BY <1>12 DEF vars, TlsInv, TypeOK
  <2> QED
    BY <1>12, <2>1, CounterStep DEF vars
<1> QED
  BY <1>3, <1>4, <1>5, <1>6, <1>7, <1>8, <1>9, <1>10, <1>11, <1>12 DEF Next

LEMMA TlsInvariant == Spec => []TlsInv
<1>1. Init => TlsInv
  BY InitTls
<1>2. TlsInv /\ [Next]_vars => TlsInv'
  BY NextTls
<1> QED
  BY <1>1, <1>2, PTL DEF Spec

\* However many clients connect while however many refreshes overlap: nobody
\* is offered a certificate that a refresh had replaced before it connected,
\* nor one with the key of another pair (server.rs:531-535, 594-606).
THEOREM Certificates == Spec => []CertificatesSound
<1>1. TlsInv => CertificatesSound
  BY DEF TlsInv, CertificatesSound, PairsMatch, NeverAMixedPair
<1> QED
  BY <1>1, TlsInvariant, PTL

\* However many refreshes overlap: one that returned Ok has been in use and
\* gave way only to one that was not over before it began, and one that failed
\* or panicked is used nowhere (server.rs:652-675).
THEOREM RefreshIsAllOrNothing == Spec => []RefreshAllOrNothing
<1>1. TlsInv => RefreshAllOrNothing
  <2> SUFFICES ASSUME TlsInv PROVE RefreshAllOrNothing
    OBVIOUS
  <2>1. FailedLoadsLeaveNoTrace
    <3> SUFFICES ASSUME NEW t \in Refreshes, load[t].at = "ended", load[t] # Ended("Ok")
                 PROVE  /\ tls_acceptor # NoAcceptor => tls_acceptor.by # t
                        /\ \A c \in Conns : conn[c].acceptor # NoAcceptor
                                              => conn[c].acceptor.by # t
      BY DEF FailedLoadsLeaveNoTrace
    <3>1. ~Installed(t)
      BY DEF Installed
    <3> QED
      BY <3>1 DEF TlsInv, UsedWasInstalled, UsingTls
  <2>2. RefreshTakesEffect
    BY DEF TlsInv, RefreshTakesEffect, RefreshesUseTls, CurrentIsFresh, UsingTls,
           Installed, Loads
  <2> QED
    BY <2>1, <2>2 DEF RefreshAllOrNothing
<1> QED
  BY <1>1, TlsInvariant, PTL

=============================================================================
