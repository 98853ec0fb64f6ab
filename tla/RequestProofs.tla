---------------------------- MODULE RequestProofs ---------------------------
(***************************************************************************)
(* Proofs about module Request, for any requests, any results of handlers, *)
(* any clients and any number of messages, and for bodies of any length    *)
(* cut into any frames, any cap and any arguments.                         *)
(*                                                                         *)
(* The argument for bodies and arguments: at every moment the bytes that   *)
(* were taken from the wire and those that still wait on it are all that   *)
(* the peer has sent.  While a body is read, the former are bytes_read;    *)
(* while it is drained, they are already more than the cap.                *)
(*                                                                         *)
(* The argument for upgrades: the option inside WebsocketUpgrade is there  *)
(* only for a request that passed the checks and has no answer yet, and a  *)
(* 101 is made only from it; hyper's future resolves to Ok only when the   *)
(* 101 went out, and the channel runs only after that.                     *)
(*                                                                         *)
(* The argument for responses: an answer is a function of what the handler *)
(* returned, the request and its id, so that most of it is lemmas about    *)
(* the operators of Responses; and every answer that anybody holds, a      *)
(* client or the cache, was compressed only for a request that accepts it  *)
(* and names Accept-Encoding in its Vary header.                           *)
(***************************************************************************)
EXTENDS Request, SequenceTheorems, TLAPS

-----------------------------------------------------------------------------
(* Module Extraction: bodies of any length, cut into any frames.           *)

\* n bytes, and then those of the frames of w, are t bytes: the offsets at
\* which the frames of w begin, and the one at which the last ends.
Cut(n, w, t) ==
  \E f \in [0 .. Len(w) -> 0 .. t] :
    /\ f[0] = n
    /\ \A i \in 1 .. Len(w) : f[i] = f[i - 1] + w[i]
    /\ f[Len(w)] = t

\* How far the request has come, and what was read of its body by then.
PhaseOK ==
  /\ task = "extract" => Cut(0, wire, total) /\ bytes_read = 0 /\ delivered = 0
  /\ task \in {"extract", "reading", "decode"} => ~handled
  /\ task = "handling" => handled
  /\ task \in {"reading", "decode"} => endpoint.exclusive \in {"TypedBody", "UntypedBody"}
  /\ task = "draining" => Capped
  /\ Streams => Cut(bytes_read, wire, total)
  /\ task = "draining" => \E n \in 0 .. total :
                            n > request_body_max_bytes /\ Cut(n, wire, total)
  /\ task = "decode" => wire = <<>> /\ peer = "ended" /\ delivered = total
  /\ handled /\ endpoint.exclusive \in {"TypedBody", "UntypedBody"} =>
       task # "draining" /\ wire = <<>> /\ peer = "ended" /\ delivered = total

\* What the extractor or the handler has, it has through the counter.
CountedOK == Capped => delivered = bytes_read /\ delivered <= request_body_max_bytes

\* Past the shared extractors, none of them fails.
SharedOK == task \notin {"extract", "done"} \/ handled =>
              \A i \in DOMAIN endpoint.shared : ~Fails(i)

\* The inductive invariant.
ExtractionInv ==
  /\ TypeOK
  /\ PhaseOK
  /\ CountedOK
  /\ SharedOK
  /\ SizeVerdictExact
  /\ FirstBadArgumentWins
  /\ TypedAsDeclared

-----------------------------------------------------------------------------
(* Bytes on the wire.                                                      *)

LEMMA CutNothing == Cut(0, <<>>, 0)
<1> DEFINE f == [i \in 0 .. 0 |-> 0]
<1>1. Len(<<>>) = 0 /\ f \in [0 .. 0 -> 0 .. 0] /\ f[0] = 0
  OBVIOUS
<1>2. \A i \in 1 .. Len(<<>>) : FALSE
  BY <1>1
<1> HIDE DEF f
<1> QED
  BY <1>1, <1>2 DEF Cut

LEMMA CutSends ==
  ASSUME NEW n \in Nat, NEW w \in Seq(Nat), NEW t \in Nat, NEW k \in Nat, Cut(n, w, t)
  PROVE  Cut(n, Append(w, k), t + k)
<1>1. PICK f \in [0 .. Len(w) -> 0 .. t] :
        /\ f[0] = n
        /\ \A i \in 1 .. Len(w) : f[i] = f[i - 1] + w[i]
        /\ f[Len(w)] = t
  BY DEF Cut
<1> DEFINE x == Append(w, k)
           g == [i \in 0 .. Len(w) + 1 |-> IF i = Len(w) + 1 THEN t + k ELSE f[i]]
<1>2. /\ Len(w) \in Nat /\ Len(x) = Len(w) + 1
      /\ \A i \in 1 .. Len(w) : x[i] = w[i]
      /\ x[Len(w) + 1] = k
  OBVIOUS
<1>3. g \in [0 .. Len(x) -> 0 .. t + k]
  BY <1>2
<1>4. g[0] = n /\ g[Len(x)] = t + k
  BY <1>1, <1>2
<1>5. ASSUME NEW i \in 1 .. Len(x) PROVE g[i] = g[i - 1] + x[i]
  <2>1. CASE i = Len(w) + 1
    BY <1>1, <1>2, <2>1
  <2>2. CASE i \in 1 .. Len(w)
    BY <1>1, <1>2, <2>2
  <2> QED
    BY <1>2, <2>1, <2>2
<1> HIDE DEF g, x
<1>6. Cut(n, x, t + k)
  BY <1>3, <1>4, <1>5 DEF Cut
<1> QED
  BY <1>6 DEF x

LEMMA CutTakes ==
  ASSUME NEW n \in Nat, NEW w \in Seq(Nat), NEW t \in Nat, w # <<>>, Cut(n, w, t)
  PROVE  /\ Cut(n + Head(w), Tail(w), t)
         /\ n + Head(w) \in 0 .. t /\ Head(w) \in Nat /\ Tail(w) \in Seq(Nat)
<1>1. PICK f \in [0 .. Len(w) -> 0 .. t] :
        /\ f[0] = n
        /\ \A i \in 1 .. Len(w) : f[i] = f[i - 1] + w[i]
        /\ f[Len(w)] = t
  BY DEF Cut
<1> DEFINE x == Tail(w)
           g == [i \in 0 .. Len(w) - 1 |-> f[i + 1]]
<1>2. /\ Len(w) \in Nat \ {0} /\ Len(x) = Len(w) - 1 /\ x \in Seq(Nat)
      /\ \A i \in 1 .. Len(x) : x[i] = w[i + 1]
      /\ Head(w) = w[1] /\ Head(w) \in Nat
  OBVIOUS
<1>3. g \in [0 .. Len(x) -> 0 .. t]
  BY <1>2
<1>4. g[0] = n + Head(w) /\ g[Len(x)] = t
  BY <1>1, <1>2
<1>5. ASSUME NEW i \in 1 .. Len(x) PROVE g[i] = g[i - 1] + x[i]
  BY <1>1, <1>2
<1>6. n + Head(w) \in 0 .. t
  BY <1>1, <1>2
<1> HIDE DEF g, x
<1>7. Cut(n + Head(w), x, t)
  BY <1>3, <1>4, <1>5 DEF Cut
<1> QED
  BY <1>2, <1>6, <1>7 DEF x

LEMMA CutEnds ==
  ASSUME NEW n \in Nat, NEW t \in Nat, Cut(n, <<>>, t)
  PROVE  n = t
BY DEF Cut

\* The cap is a number, whichever of the two it comes from.
LEMMA CapIsNat ==
  ASSUME TypeOK PROVE request_body_max_bytes \in Nat
<1>1. endpoint.request_body_max_bytes \in Overrides
  BY DEF TypeOK, Endpoints
<1> QED
  BY <1>1, ExtractionAssumption DEF request_body_max_bytes

\* The shared extractors of an endpoint, in the order of its arguments.
LEMMA SharedIsSeq ==
  ASSUME TypeOK
  PROVE  /\ endpoint.shared \in Seq({"Path", "Query", "Header"})
         /\ DOMAIN endpoint.shared \subseteq Nat
         /\ \A i \in DOMAIN endpoint.shared :
              endpoint.shared[i] \in {"Path", "Query", "Header"}
<1>1. endpoint.shared \in Seq({"Path", "Query", "Header"})
  BY ExtractionAssumption DEF TypeOK, Endpoints
<1> QED
  BY <1>1

LEMMA InitExtraction == Init => ExtractionInv
<1> SUFFICES ASSUME Init PROVE ExtractionInv
  OBVIOUS
<1>1. TypeOK
  <2>1. MaxFrames(endpoint, request) \in Nat
    BY ExtractionAssumption DEF Init
  <2>2. frames \in 0 .. MaxFrames(endpoint, request)
    BY <2>1 DEF Init
  <2>3. /\ response \in {"none", "ok"} \union BadRequests
        /\ response = "none" <=> task # "done"
    BY DEF Init
  <2>4. handled \in BOOLEAN
    BY DEF Init
  <2>5. wire \in Seq(Nat) /\ total \in Nat /\ bytes_read \in Nat /\ delivered \in Nat
    BY DEF Init
  <2> QED
    BY <2>2, <2>3, <2>4, <2>5 DEF Init, TypeOK
<1>2. request_body_max_bytes \in Nat
  BY <1>1, CapIsNat
<1>3. PhaseOK
  BY CutNothing DEF Init, PhaseOK, Streams
<1>4. CountedOK
  BY <1>2 DEF Init, CountedOK
<1> QED
  BY <1>1, <1>3, <1>4
  DEF Init, ExtractionInv, SharedOK, SizeVerdictExact, FirstBadArgumentWins,
      TypedAsDeclared

-----------------------------------------------------------------------------
(* Steps.                                                                  *)

\* No step changes the endpoint or the request, nor what follows from them.
LEMMA Fixed ==
  ASSUME UNCHANGED <<endpoint, request>>
  PROVE  /\ \A i : Fails(i)' <=> Fails(i)
         /\ request_body_max_bytes' = request_body_max_bytes
         /\ Capped' <=> Capped
<1>1. \A i : Fails(i)' <=> Fails(i)
  BY DEF Fails, http_extract_path_paramsFails, http_request_load_queryFails,
         http_request_load_headerFails
<1>2. request_body_max_bytes' = request_body_max_bytes
  BY DEF request_body_max_bytes
<1>3. Capped' <=> Capped
  BY DEF Capped
<1> QED
  BY <1>1, <1>2, <1>3

\* What depends on the peer only through a body that has ended.
LEMMA PeerSendsStep ==
  ASSUME ExtractionInv, NEW n \in FrameSizes \cup {0}, PeerSends(n)
  PROVE  ExtractionInv'
<1>1. /\ peer = "sending" /\ frames < MaxFrames(endpoint, request)
      /\ wire' = Append(wire, n) /\ frames' = frames + 1 /\ total' = total + n
      /\ peer' = peer /\ endpoint' = endpoint /\ request' = request
      /\ task' = task /\ bytes_read' = bytes_read /\ delivered' = delivered
      /\ handled' = handled /\ response' = response
  BY DEF PeerSends, taskVars
<1>2. n \in Nat
  BY ExtractionAssumption
<1>3. TypeOK'
  <2>1. MaxFrames(endpoint, request) \in Nat
    BY ExtractionAssumption DEF ExtractionInv, TypeOK
  <2>2. frames' \in 0 .. MaxFrames(endpoint, request)
    BY <1>1, <2>1 DEF ExtractionInv, TypeOK
  <2>3. wire' \in Seq(Nat) /\ total' \in Nat
    BY <1>1, <1>2 DEF ExtractionInv, TypeOK
  <2> QED
    BY <1>1, <2>2, <2>3 DEF ExtractionInv, TypeOK
<1>4. /\ wire \in Seq(Nat) /\ total \in Nat /\ bytes_read \in Nat
      /\ request_body_max_bytes \in Nat
  BY CapIsNat DEF ExtractionInv, TypeOK
<1>5. \A m \in Nat : Cut(m, wire, total) => Cut(m, wire', total')
  BY <1>1, <1>2, <1>4, CutSends
<1>6. /\ Streams' <=> Streams
      /\ request_body_max_bytes' = request_body_max_bytes
      /\ Capped' <=> Capped
  BY <1>1, Fixed DEF Streams
<1>7. PhaseOK'
  <2>1. task = "draining" => \E m \in 0 .. total' :
                               m > request_body_max_bytes /\ Cut(m, wire', total')
    BY <1>1, <1>2, <1>4, <1>5 DEF ExtractionInv, PhaseOK
  <2>2. /\ task = "extract" => Cut(0, wire', total')
        /\ Streams => Cut(bytes_read, wire', total')
    BY <1>4, <1>5 DEF ExtractionInv, PhaseOK
  <2> QED
    BY <1>1, <1>6, <2>1, <2>2 DEF ExtractionInv, PhaseOK
<1>8. CountedOK' /\ TypedAsDeclared'
  BY <1>1, <1>6 DEF ExtractionInv, CountedOK, TypedAsDeclared
<1>9. SharedOK' /\ FirstBadArgumentWins'
  BY <1>1, Fixed DEF ExtractionInv, SharedOK, FirstBadArgumentWins
<1>10. SizeVerdictExact'
  BY <1>1 DEF ExtractionInv, SizeVerdictExact
<1> QED
  BY <1>3, <1>7, <1>8, <1>9, <1>10 DEF ExtractionInv

LEMMA PeerStopsStep ==
  ASSUME ExtractionInv, NEW how \in {"ended", "broken"}, PeerStops(how)
  PROVE  ExtractionInv'
<1>1. /\ peer = "sending" /\ peer' = how
      /\ wire' = wire /\ frames' = frames /\ total' = total
      /\ endpoint' = endpoint /\ request' = request
      /\ task' = task /\ bytes_read' = bytes_read /\ delivered' = delivered
      /\ handled' = handled /\ response' = response
  BY DEF PeerStops, taskVars
<1>2. TypeOK'
  BY <1>1 DEF ExtractionInv, TypeOK
<1>3. /\ Streams' <=> Streams
      /\ request_body_max_bytes' = request_body_max_bytes
      /\ Capped' <=> Capped
  BY <1>1, Fixed DEF Streams
<1>4. PhaseOK'
  BY <1>1, <1>3 DEF ExtractionInv, PhaseOK
<1>5. CountedOK' /\ TypedAsDeclared'
  BY <1>1, <1>3 DEF ExtractionInv, CountedOK, TypedAsDeclared
<1>6. SharedOK' /\ FirstBadArgumentWins'
  BY <1>1, Fixed DEF ExtractionInv, SharedOK, FirstBadArgumentWins
<1>7. SizeVerdictExact'
  BY <1>1 DEF ExtractionInv, SizeVerdictExact
<1> QED
  BY <1>2, <1>4, <1>5, <1>6, <1>7 DEF ExtractionInv

\* A handler that runs after the shared extractors only, or after a whole body
\* was found to be what it declares.
LEMMA RunHandlerStep ==
  ASSUME ExtractionInv, RunHandler,
         UNCHANGED <<endpoint, request, peerVars, bytes_read, delivered>>,
         task \in {"extract", "decode"},
         \A i \in DOMAIN endpoint.shared : ~Fails(i),
         endpoint.exclusive \in {"TypedBody", "UntypedBody"} => task = "decode",
         endpoint.exclusive = "TypedBody" => LoadError = "ok"
  PROVE  ExtractionInv'
<1>1. /\ task' = "handling" /\ handled' = TRUE /\ response' = response
      /\ wire' = wire /\ peer' = peer /\ frames' = frames /\ total' = total
      /\ endpoint' = endpoint /\ request' = request
      /\ bytes_read' = bytes_read /\ delivered' = delivered
  BY DEF RunHandler, peerVars
<1>2. /\ request_body_max_bytes' = request_body_max_bytes /\ (Capped' <=> Capped)
      /\ request_body_max_bytes \in Nat
  BY <1>1, Fixed, CapIsNat DEF ExtractionInv
<1>3. TypeOK'
  BY <1>1 DEF ExtractionInv, TypeOK
<1>4. endpoint.exclusive \in {"TypedBody", "UntypedBody"} =>
        wire = <<>> /\ peer = "ended" /\ delivered = total
  BY DEF ExtractionInv, PhaseOK
<1>5. PhaseOK'
  <2>1. Streams' => Cut(bytes_read, wire, total)
    <3>1. Streams' => endpoint.exclusive = "StreamingBody"
      BY <1>1 DEF Streams
    <3>2. task = "decode" => endpoint.exclusive \in {"TypedBody", "UntypedBody"}
      BY DEF ExtractionInv, PhaseOK
    <3> QED
      BY <3>1, <3>2 DEF ExtractionInv, PhaseOK
  <2> QED
    BY <1>1, <1>4, <2>1 DEF PhaseOK
<1>6. CountedOK'
  BY <1>1, <1>2 DEF ExtractionInv, CountedOK
<1>7. SharedOK' /\ FirstBadArgumentWins'
  BY <1>1, Fixed DEF ExtractionInv, SharedOK, FirstBadArgumentWins
<1>8. SizeVerdictExact'
  <2>1. endpoint.exclusive \in {"TypedBody", "UntypedBody"} =>
          total <= request_body_max_bytes
    BY <1>4 DEF ExtractionInv, CountedOK, Capped
  <2>2. response # "oversize"
    BY DEF ExtractionInv, TypeOK
  <2> QED
    BY <1>1, <1>2, <1>4, <2>1, <2>2 DEF SizeVerdictExact
<1>9. TypedAsDeclared'
  BY <1>1 DEF TypedAsDeclared, LoadError, BodyContentType
<1> QED
  BY <1>3, <1>5, <1>6, <1>7, <1>8, <1>9 DEF ExtractionInv

\* An answer: of an extractor that failed, or of the stream.  It is the one
\* the first bad argument calls for, and "oversize" only after the drain.
LEMMA AnswerStep ==
  ASSUME ExtractionInv, task' = "done", task # "done",
         NEW why \in {"ok"} \union BadRequests, response' = why,
         UNCHANGED <<endpoint, request, wire, peer, frames, total, bytes_read,
                     delivered, handled>>,
         \/ \A i \in DOMAIN endpoint.shared : ~Fails(i)
         \/ \A i \in DOMAIN endpoint.shared :
              Fails(i) /\ (\A j \in 1 .. i - 1 : ~Fails(j)) => why = endpoint.shared[i],
         why = "oversize" => task = "draining" /\ wire = <<>> /\ peer = "ended"
  PROVE  ExtractionInv'
<1>1. /\ request_body_max_bytes' = request_body_max_bytes /\ (Capped' <=> Capped)
      /\ request_body_max_bytes \in Nat
  BY Fixed, CapIsNat DEF ExtractionInv
<1>2. TypeOK'
  BY DEF ExtractionInv, TypeOK, BadRequests
<1>3. PhaseOK'
  BY DEF ExtractionInv, PhaseOK, Streams
<1>4. CountedOK' /\ TypedAsDeclared'
  BY <1>1 DEF ExtractionInv, CountedOK, TypedAsDeclared
<1>5. SharedOK'
  BY Fixed DEF ExtractionInv, SharedOK
<1>6. FirstBadArgumentWins'
  BY Fixed DEF ExtractionInv, FirstBadArgumentWins
<1>7. SizeVerdictExact'
  <2>1. ASSUME why = "oversize"
        PROVE  total > request_body_max_bytes /\ wire = <<>> /\ peer = "ended"
    <3>1. PICK n \in 0 .. total : n > request_body_max_bytes /\ Cut(n, wire, total)
      BY <2>1 DEF ExtractionInv, PhaseOK
    <3>2. n = total
      BY <2>1, <3>1, CutEnds DEF ExtractionInv, TypeOK
    <3> QED
      BY <2>1, <3>1, <3>2
  <2> QED
    BY <1>1, <2>1 DEF ExtractionInv, SizeVerdictExact
<1> QED
  BY <1>2, <1>3, <1>4, <1>5, <1>6, <1>7 DEF ExtractionInv

LEMMA ExtractStep == ASSUME ExtractionInv, Extract PROVE ExtractionInv'
<1>1. /\ task = "extract" /\ ~handled
      /\ UNCHANGED <<endpoint, request, peerVars, bytes_read, delivered>>
      /\ UNCHANGED <<wire, peer, frames, total>>
  BY DEF Extract, ExtractionInv, PhaseOK, peerVars
<1>2. ASSUME NEW i \in DOMAIN endpoint.shared,
             Fails(i), \A j \in 1 .. i - 1 : ~Fails(j),
             BadRequest(endpoint.shared[i])
      PROVE  ExtractionInv'
  <2> DEFINE why == endpoint.shared[i]
  <2>1. why \in {"Path", "Query", "Header"} /\ DOMAIN endpoint.shared \subseteq 1 .. Len(endpoint.shared)
        /\ Len(endpoint.shared) \in Nat
    BY SharedIsSeq DEF ExtractionInv
  <2>2. \A k \in DOMAIN endpoint.shared :
          Fails(k) /\ (\A j \in 1 .. k - 1 : ~Fails(j)) => k = i
    <3> SUFFICES ASSUME NEW k \in DOMAIN endpoint.shared, Fails(k),
                        \A j \in 1 .. k - 1 : ~Fails(j)
                 PROVE  k = i
      OBVIOUS
    <3>1. k \in Nat \ {0} /\ i \in Nat \ {0}
      BY <2>1
    <3>2. ~(k < i) /\ ~(i < k)
      BY <1>2, <3>1
    <3> QED
      BY <3>1, <3>2
  <2>3. task' = "done" /\ response' = why /\ UNCHANGED handled
    BY <1>2 DEF BadRequest
  <2>4. \A k \in DOMAIN endpoint.shared :
          Fails(k) /\ (\A j \in 1 .. k - 1 : ~Fails(j)) => why = endpoint.shared[k]
    BY <2>2
  <2>5. why \in {"ok"} \union BadRequests /\ why # "oversize"
    BY <2>1 DEF BadRequests
  <2> HIDE DEF why
  <2> QED
    BY <1>1, <2>3, <2>4, <2>5, AnswerStep
<1>3. ASSUME \A i \in DOMAIN endpoint.shared : ~Fails(i), StartExclusive
      PROVE  ExtractionInv'
  <2>1. CASE endpoint.exclusive \in {"TypedBody", "UntypedBody"}
    <3>1. task' = "reading" /\ UNCHANGED <<handled, response>>
      BY <1>3, <2>1 DEF StartExclusive
    <3>2. TypeOK'
      BY <1>1, <3>1 DEF ExtractionInv, TypeOK
    <3>3. PhaseOK'
      BY <1>1, <2>1, <3>1 DEF ExtractionInv, PhaseOK, Streams
    <3>4. CountedOK' /\ TypedAsDeclared'
      BY <1>1, <3>1, Fixed DEF ExtractionInv, CountedOK, TypedAsDeclared
    <3>5. SharedOK' /\ FirstBadArgumentWins'
      BY <1>1, <1>3, <3>1, Fixed DEF ExtractionInv, SharedOK, FirstBadArgumentWins
    <3>6. SizeVerdictExact'
      BY <1>1, <3>1 DEF ExtractionInv, TypeOK, SizeVerdictExact
    <3> QED
      BY <3>2, <3>3, <3>4, <3>5, <3>6 DEF ExtractionInv
  <2>2. CASE RunHandler /\ endpoint.exclusive \notin {"TypedBody", "UntypedBody"}
    BY <1>1, <1>3, <2>2, RunHandlerStep
  <2>3. CASE BadRequest(MultipartError) /\ MultipartError # "ok"
    <3>1. MultipartError \in BadRequests \ {"oversize"}
      BY <2>3 DEF MultipartError, BadRequests
    <3>2. task' = "done" /\ response' = MultipartError /\ UNCHANGED handled
      BY <2>3 DEF BadRequest
    <3> QED
      BY <1>1, <1>3, <3>1, <3>2, AnswerStep
  <2> QED
    BY <1>3, <2>1, <2>2, <2>3 DEF StartExclusive
<1> QED
  BY <1>2, <1>3 DEF Extract

\* A frame of the stream: trailers, the one that goes over the cap, or data.
LEMMA FrameStep ==
  ASSUME ExtractionInv, Streams, wire # <<>>, wire' = Tail(wire),
         UNCHANGED <<endpoint, request, peer, frames, total, handled, response>>,
         \/ Head(wire) = 0 /\ UNCHANGED taskVars
         \/ Head(wire) > 0 /\ Exceeds(Head(wire)) /\ Oversize
         \/ /\ Head(wire) > 0 /\ ~Exceeds(Head(wire))
            /\ bytes_read' = bytes_read + Head(wire)
            /\ delivered' = delivered + Head(wire)
            /\ UNCHANGED <<task, handled, response>>
  PROVE  ExtractionInv'
<1> DEFINE len == Head(wire)
<1>1. /\ request_body_max_bytes' = request_body_max_bytes /\ (Capped' <=> Capped)
      /\ request_body_max_bytes \in Nat
  BY Fixed, CapIsNat DEF ExtractionInv
<1>2. /\ wire \in Seq(Nat) /\ total \in Nat /\ bytes_read \in Nat /\ delivered \in Nat
      /\ Cut(bytes_read, wire, total)
  BY DEF ExtractionInv, TypeOK, PhaseOK
<1>3. /\ Cut(bytes_read + len, wire', total) /\ bytes_read + len \in 0 .. total
      /\ len \in Nat /\ wire' \in Seq(Nat)
  BY <1>2, CutTakes
<1>4. /\ Capped /\ task \in {"reading", "handling"}
      /\ handled => endpoint.exclusive = "StreamingBody"
      /\ task = "reading" => endpoint.exclusive \in {"TypedBody", "UntypedBody"}
      /\ \A i \in DOMAIN endpoint.shared : ~Fails(i)
  BY DEF Streams, ExtractionInv, PhaseOK, SharedOK, Capped
<1>5. CASE len = 0 /\ UNCHANGED taskVars
  <2>1. UNCHANGED <<task, bytes_read, delivered>>
    BY <1>5 DEF taskVars
  <2>2. TypeOK'
    BY <1>3, <2>1 DEF ExtractionInv, TypeOK
  <2>3. PhaseOK'
    <3>1. bytes_read + len = bytes_read
      BY <1>2, <1>5
    <3>2. Cut(bytes_read, wire', total)
      BY <1>3, <3>1
    <3> QED
      BY <1>4, <2>1, <3>2 DEF ExtractionInv, PhaseOK, Streams
  <2>4. CountedOK' /\ TypedAsDeclared'
    BY <1>1, <2>1 DEF ExtractionInv, CountedOK, TypedAsDeclared
  <2>5. SharedOK' /\ FirstBadArgumentWins'
    BY <1>4, <2>1, Fixed DEF ExtractionInv, SharedOK, FirstBadArgumentWins
  <2>6. SizeVerdictExact'
    BY <1>4 DEF ExtractionInv, TypeOK, SizeVerdictExact
  <2> QED
    BY <2>2, <2>3, <2>4, <2>5, <2>6 DEF ExtractionInv
<1>6. CASE Exceeds(len) /\ Oversize
  <2>1. task' = "draining" /\ UNCHANGED <<bytes_read, delivered>>
    BY <1>6 DEF Oversize
  <2>2. TypeOK'
    BY <1>3, <1>4, <2>1 DEF ExtractionInv, TypeOK
  <2>3. \E n \in 0 .. total : n > request_body_max_bytes /\ Cut(n, wire', total)
    BY <1>3, <1>6 DEF Exceeds
  <2>4. PhaseOK'
    BY <1>1, <1>4, <2>1, <2>3 DEF PhaseOK, Streams
  <2>5. CountedOK' /\ TypedAsDeclared'
    BY <1>1, <2>1 DEF ExtractionInv, CountedOK, TypedAsDeclared
  <2>6. SharedOK' /\ FirstBadArgumentWins'
    BY <1>4, <2>1, Fixed DEF ExtractionInv, SharedOK, FirstBadArgumentWins
  <2>7. SizeVerdictExact'
    BY <1>4 DEF ExtractionInv, TypeOK, SizeVerdictExact
  <2> QED
    BY <2>2, <2>4, <2>5, <2>6, <2>7 DEF ExtractionInv
<1>7. CASE /\ ~Exceeds(len)
           /\ bytes_read' = bytes_read + len /\ delivered' = delivered + len
           /\ UNCHANGED <<task, handled, response>>
  <2>1. TypeOK'
    BY <1>2, <1>3, <1>7 DEF ExtractionInv, TypeOK
  <2>2. PhaseOK'
    BY <1>3, <1>4, <1>7 DEF ExtractionInv, PhaseOK, Streams
  <2>3. CountedOK'
    BY <1>1, <1>2, <1>3, <1>4, <1>7 DEF ExtractionInv, CountedOK, Exceeds
  <2>4. SharedOK' /\ FirstBadArgumentWins'
    BY <1>4, <1>7, Fixed DEF SharedOK, FirstBadArgumentWins
  <2>5. SizeVerdictExact'
    BY <1>4, <1>7 DEF ExtractionInv, TypeOK, SizeVerdictExact
  <2>6. TypedAsDeclared'
    BY DEF ExtractionInv, TypedAsDeclared
  <2> QED
    BY <2>1, <2>2, <2>3, <2>4, <2>5, <2>6 DEF ExtractionInv
<1> QED
  BY <1>5, <1>6, <1>7

LEMMA IntoStreamStep == ASSUME ExtractionInv, into_stream PROVE ExtractionInv'
<1>1. Streams /\ UNCHANGED <<endpoint, request, peer, frames, total>>
  BY DEF into_stream
<1>2. /\ task \in {"reading", "handling"}
      /\ \A i \in DOMAIN endpoint.shared : ~Fails(i)
  BY <1>1 DEF Streams, ExtractionInv, SharedOK
<1>3. CASE StreamEnds /\ task = "handling"
  <2>1. task' = "done" /\ response' = "ok" /\ UNCHANGED <<handled, wire, bytes_read, delivered>>
    BY <1>3 DEF StreamEnds
  <2> QED
    BY <1>1, <1>2, <2>1, AnswerStep
<1>4. CASE StreamEnds /\ task = "reading"
  <2>1. /\ wire = <<>> /\ peer = "ended" /\ task' = "decode"
        /\ UNCHANGED <<response, handled, wire, bytes_read, delivered>>
    BY <1>4 DEF StreamEnds
  <2>2. delivered = total
    <3>1. /\ bytes_read \in Nat /\ total \in Nat /\ Cut(bytes_read, <<>>, total)
          /\ delivered = bytes_read
      BY <1>1, <1>4, <2>1
      DEF ExtractionInv, TypeOK, PhaseOK, CountedOK, Capped
    <3> QED
      BY <3>1, CutEnds
  <2>3. TypeOK'
    BY <1>1, <1>4, <2>1 DEF ExtractionInv, TypeOK
  <2>4. PhaseOK'
    BY <1>1, <1>4, <2>1, <2>2 DEF ExtractionInv, PhaseOK, Streams
  <2>5. CountedOK' /\ TypedAsDeclared'
    BY <1>1, <2>1, Fixed DEF ExtractionInv, CountedOK, TypedAsDeclared
  <2>6. SharedOK' /\ FirstBadArgumentWins'
    BY <1>1, <1>2, <2>1, Fixed DEF ExtractionInv, SharedOK, FirstBadArgumentWins
  <2>7. SizeVerdictExact'
    BY <1>1, <1>4, <2>1, Fixed DEF ExtractionInv, SizeVerdictExact
  <2> QED
    BY <2>3, <2>4, <2>5, <2>6, <2>7 DEF ExtractionInv
<1>5. CASE StreamFails("stream error") /\ UNCHANGED wire
  <2>1. /\ task' = "done" /\ response' = "stream error"
        /\ UNCHANGED <<handled, wire, bytes_read, delivered>>
    BY <1>5 DEF StreamFails, BadRequest
  <2>2. "stream error" \in BadRequests
    BY DEF BadRequests
  <2> QED
    BY <1>1, <1>2, <2>1, <2>2, AnswerStep
<1>6. CASE /\ wire # <<>> /\ wire' = Tail(wire)
           /\ \/ Head(wire) = 0 /\ UNCHANGED taskVars
              \/ Head(wire) > 0 /\ Exceeds(Head(wire)) /\ Oversize
              \/ /\ Head(wire) > 0 /\ ~Exceeds(Head(wire))
                 /\ bytes_read' = bytes_read + Head(wire)
                 /\ delivered' = delivered + Head(wire)
                 /\ UNCHANGED <<task, handled, response>>
  <2>1. UNCHANGED <<handled, response>>
    BY <1>6 DEF taskVars, Oversize
  <2> QED
    BY <1>1, <1>6, <2>1, FrameStep
<1> QED
  BY <1>2, <1>3, <1>4, <1>5, <1>6 DEF into_stream

\* The rest of a body that is too large is read and thrown away, and only then
\* is the request refused.
LEMMA DumpBodyStep == ASSUME ExtractionInv, http_dump_body PROVE ExtractionInv'
<1>1. /\ task = "draining" /\ Ready
      /\ UNCHANGED <<endpoint, request, peer, frames, total>>
      /\ \A i \in DOMAIN endpoint.shared : ~Fails(i)
  BY DEF http_dump_body, ExtractionInv, SharedOK
<1>2. CASE wire # <<>> /\ wire' = Tail(wire) /\ UNCHANGED taskVars
  <2>1. UNCHANGED <<task, bytes_read, delivered, handled, response>>
    BY <1>2 DEF taskVars
  <2>2. /\ request_body_max_bytes' = request_body_max_bytes /\ (Capped' <=> Capped)
        /\ request_body_max_bytes \in Nat
    BY <1>1, Fixed, CapIsNat DEF ExtractionInv
  <2>3. wire \in Seq(Nat) /\ total \in Nat
    BY DEF ExtractionInv, TypeOK
  <2>4. PICK n \in 0 .. total : n > request_body_max_bytes /\ Cut(n, wire, total)
    BY <1>1 DEF ExtractionInv, PhaseOK
  <2>5. /\ Cut(n + Head(wire), wire', total) /\ n + Head(wire) \in 0 .. total
        /\ Head(wire) \in Nat /\ wire' \in Seq(Nat)
    BY <1>2, <2>3, <2>4, CutTakes
  <2>6. n + Head(wire) > request_body_max_bytes
    BY <2>2, <2>4, <2>5
  <2>7. TypeOK'
    BY <1>1, <2>1, <2>5 DEF ExtractionInv, TypeOK
  <2>8. PhaseOK'
    <3>1. \E m \in 0 .. total : m > request_body_max_bytes /\ Cut(m, wire', total)
      BY <2>5, <2>6
    <3>2. ~Streams' /\ Capped'
      BY <1>1, <2>1, <2>2 DEF Streams, ExtractionInv, PhaseOK
    <3>3. ~(handled /\ endpoint.exclusive \in {"TypedBody", "UntypedBody"})
      BY <1>1 DEF ExtractionInv, PhaseOK
    <3> QED
      BY <1>1, <2>1, <2>2, <3>1, <3>2, <3>3 DEF PhaseOK
  <2>9. CountedOK' /\ TypedAsDeclared'
    BY <1>1, <2>1, <2>2 DEF ExtractionInv, CountedOK, TypedAsDeclared
  <2>10. SharedOK' /\ FirstBadArgumentWins'
    BY <1>1, <2>1, Fixed DEF ExtractionInv, SharedOK, FirstBadArgumentWins
  <2>11. SizeVerdictExact'
    <3>1. /\ response # "oversize"
          /\ ~(handled /\ endpoint.exclusive \in {"TypedBody", "UntypedBody"})
      BY <1>1 DEF ExtractionInv, TypeOK, PhaseOK
    <3> QED
      BY <1>1, <2>1, <3>1 DEF SizeVerdictExact
  <2> QED
    BY <2>7, <2>8, <2>9, <2>10, <2>11 DEF ExtractionInv
<1>3. CASE /\ wire = <<>> /\ UNCHANGED wire
           /\ StreamFails(IF peer = "broken" THEN "stream error" ELSE "oversize")
  <2> DEFINE why == IF peer = "broken" THEN "stream error" ELSE "oversize"
  <2>1. /\ task' = "done" /\ response' = why
        /\ UNCHANGED <<handled, wire, bytes_read, delivered>>
    BY <1>3 DEF StreamFails, BadRequest
  <2>2. why \in {"ok"} \union BadRequests
    BY DEF BadRequests
  <2>3. why = "oversize" => peer = "ended"
    BY <1>1, <1>3 DEF Ready, ExtractionInv, TypeOK
  <2> HIDE DEF why
  <2> QED
    BY <1>1, <1>3, <2>1, <2>2, <2>3, AnswerStep
<1> QED
  BY <1>2, <1>3 DEF http_dump_body

LEMMA LoadBodyStep ==
  ASSUME ExtractionInv, http_request_load_body PROVE ExtractionInv'
<1>1. /\ task = "decode" /\ UNCHANGED <<endpoint, request, peerVars, bytes_read, delivered>>
      /\ UNCHANGED <<wire, peer, frames, total>>
      /\ \A i \in DOMAIN endpoint.shared : ~Fails(i)
      /\ endpoint.exclusive \in {"TypedBody", "UntypedBody"}
  BY DEF http_request_load_body, peerVars, ExtractionInv, SharedOK, PhaseOK
<1>2. CASE /\ endpoint.exclusive = "UntypedBody" \/ LoadError = "ok"
           /\ RunHandler
  BY <1>1, <1>2, RunHandlerStep
<1>3. CASE LoadError # "ok" /\ BadRequest(LoadError)
  <2>1. LoadError \in BadRequests \ {"oversize"}
    BY <1>3 DEF LoadError, BadRequests
  <2>2. task' = "done" /\ response' = LoadError /\ UNCHANGED handled
    BY <1>3 DEF BadRequest
  <2> QED
    BY <1>1, <2>1, <2>2, AnswerStep
<1> QED
  BY <1>2, <1>3 DEF http_request_load_body

\* A body that is handed on as it comes is behind no cap.
LEMMA HandlerReadsRawStep == ASSUME ExtractionInv, HandlerReadsRaw PROVE ExtractionInv'
<1>1. /\ task = "handling" /\ wire # <<>> /\ wire' = Tail(wire)
      /\ delivered' = delivered + Head(wire)
      /\ endpoint.exclusive \in {"MultipartBody", "RawRequest"}
      /\ UNCHANGED <<endpoint, request, peer, frames, total, task, bytes_read, handled, response>>
  BY DEF HandlerReadsRaw, PassesBodyOn
<1>2. wire \in Seq(Nat) /\ delivered \in Nat
  BY DEF ExtractionInv, TypeOK
<1>3. wire' \in Seq(Nat) /\ delivered' \in Nat
  BY <1>1, <1>2
<1>4. TypeOK'
  BY <1>1, <1>3 DEF ExtractionInv, TypeOK
<1>5. handled /\ \A i \in DOMAIN endpoint.shared : ~Fails(i)
  BY <1>1 DEF ExtractionInv, PhaseOK, SharedOK
<1>6. PhaseOK'
  BY <1>1, <1>5 DEF PhaseOK, Streams
<1>7. CountedOK' /\ TypedAsDeclared'
  BY <1>1 DEF CountedOK, Capped, TypedAsDeclared
<1>8. SharedOK' /\ FirstBadArgumentWins'
  BY <1>1, <1>5, Fixed DEF SharedOK, FirstBadArgumentWins
<1>9. SizeVerdictExact'
  BY <1>1 DEF ExtractionInv, TypeOK, SizeVerdictExact
<1> QED
  BY <1>4, <1>6, <1>7, <1>8, <1>9 DEF ExtractionInv

LEMMA HandlerAnswersStep == ASSUME ExtractionInv, HandlerAnswers PROVE ExtractionInv'
<1>1. /\ task = "handling" /\ task' = "done" /\ response' = "ok"
      /\ UNCHANGED <<endpoint, request, wire, peer, frames, total, bytes_read, delivered, handled>>
      /\ \A i \in DOMAIN endpoint.shared : ~Fails(i)
  BY DEF HandlerAnswers, peerVars, ExtractionInv, SharedOK
<1> QED
  BY <1>1, AnswerStep

LEMMA NextExtraction == ASSUME ExtractionInv, [Next]_vars PROVE ExtractionInv'
<1>1. CASE Peer
  BY <1>1, PeerSendsStep, PeerStopsStep DEF Peer
<1>2. CASE Server
  BY <1>2, ExtractStep, IntoStreamStep, DumpBodyStep, LoadBodyStep,
     HandlerReadsRawStep, HandlerAnswersStep DEF Server
<1>3. CASE UNCHANGED vars
  <2>1. UNCHANGED <<endpoint, request, wire, peer, frames, total, task, bytes_read,
                    delivered, handled, response>>
    BY <1>3 DEF vars
  <2>2. TypeOK' /\ TypedAsDeclared'
    BY <2>1 DEF ExtractionInv, TypeOK, TypedAsDeclared
  <2>3. PhaseOK' /\ CountedOK'
    BY <2>1, Fixed DEF ExtractionInv, PhaseOK, CountedOK, Streams
  <2>4. SharedOK' /\ FirstBadArgumentWins'
    BY <2>1, Fixed DEF ExtractionInv, SharedOK, FirstBadArgumentWins
  <2>5. SizeVerdictExact'
    BY <2>1, Fixed DEF ExtractionInv, SizeVerdictExact
  <2> QED
    BY <2>2, <2>3, <2>4, <2>5 DEF ExtractionInv
<1> QED
  BY <1>1, <1>2, <1>3 DEF Next

LEMMA ExtractionInvariant == Spec => []ExtractionInv
<1>1. Init => ExtractionInv
  BY InitExtraction
<1>2. ExtractionInv /\ [Next]_vars => ExtractionInv'
  BY NextExtraction
<1> QED
  BY <1>1, <1>2, PTL DEF Spec

-----------------------------------------------------------------------------
\* For bodies of any length in frames of any size, and any cap: no more than
\* the cap reaches a buffer or a handler, a request is refused as too large
\* exactly when it is and after all of it was drained, and a handler of a whole
\* body has all of it (body.rs:400-440).
THEOREM BodiesAreCapped == Spec => []BodyCapped
<1>1. ExtractionInv => BodyCapped
  BY DEF ExtractionInv, BodyCapped, NeverOverCap, CountedOK
<1> QED
  BY <1>1, ExtractionInvariant, PTL

\* For any arguments of a handler and any defects of a request: the first bad
\* argument is the one reported, before a byte of the body is delivered, and a
\* typed body is of the declared content type (common.rs:168-171,
\* body.rs:130-240).
THEOREM ArgumentsAreChecked == Spec => []ArgumentsChecked
<1>1. ExtractionInv => ArgumentsChecked
  BY DEF ExtractionInv, ArgumentsChecked
<1> QED
  BY <1>1, ExtractionInvariant, PTL

-----------------------------------------------------------------------------
(* Websockets. *)

Upgrades == W!from_request(ws_request) = "upgrade"

\* Before the request there is nothing, and with the option there is nothing
\* but the option.
OptionOK ==
  /\ ws_request = W!NoRequest => /\ inner = "None" /\ answer = W!NotYet
                                 /\ ws_task = "none" /\ unhandled = 0
  /\ inner = "Some" => /\ Upgrades /\ ws_request \in Requests
                       /\ answer = W!NotYet /\ ws_task = "none" /\ unhandled = 0
  /\ unhandled # 0 => ws_task = "none"

\* A 101 answers the key of a request that passed the checks.
SwitchOK ==
  answer.status = 101 =>
    /\ Upgrades /\ ws_request \in Requests
    /\ answer.accept = W!derive_accept_key(ws_request.sec_websocket_key[1])

\* The future resolves to Ok only with the 101, and nothing runs before.
FutureOK ==
  /\ upgrade_fut = "Ok" => sent.status = 101
  /\ ws_task = "channel" \/ received # <<>> => upgrade_fut = "Ok"

\* What the counter holds is what comes after the last byte.
CounterOK ==
  received # <<>> => count = W!wrapping_add(received[Len(received)])

\* The inductive invariant.
WebsocketInv ==
  /\ W!TypeOK
  /\ OptionOK
  /\ SwitchOK
  /\ FutureOK
  /\ CounterOK
  /\ W!BytesConsecutive

\* The counter of the examples stays a byte, and goes round.
LEMMA WrappingAdd ==
  ASSUME NEW b \in 0 .. 255
  PROVE  /\ W!wrapping_add(b) \in 0 .. 255
         /\ W!wrapping_add(b) = IF b = 255 THEN 0 ELSE b + 1
BY DEF W!wrapping_add

\* A value that HeaderMap::get() finds is one of the values of the header.
LEMMA FirstIsOneOf ==
  ASSUME NEW s, IsSequence(s), NEW v \in W!First(s)
  PROVE  1 \in DOMAIN s /\ v = s[1]
BY DEF W!First, IsSequence

\* Requests that pass the checks ask for what RFC 6455 calls an upgrade.
LEMMA ChecksSuffice ==
  ASSUME NEW r \in Requests, W!from_request(r) = "upgrade"
  PROVE  W!AsksForWebsocket(r) /\ 1 \in DOMAIN r.sec_websocket_key
<1>1. /\ IsSequence(r.connection) /\ IsSequence(r.upgrade)
      /\ IsSequence(r.sec_websocket_version) /\ IsSequence(r.sec_websocket_key)
  BY RequestAssumption
<1>2. /\ W!HasWord(r.connection, "upgrade") /\ W!HasWord(r.upgrade, "websocket")
      /\ "13" \in W!First(r.sec_websocket_version) /\ r.sec_websocket_key # <<>>
  BY DEF W!from_request
<1>3. 1 \in DOMAIN r.sec_websocket_key
  BY <1>1, <1>2 DEF IsSequence
<1>4. \E i \in DOMAIN r.connection :
        r.connection[i].readable /\ "upgrade" \in r.connection[i].words
  BY <1>1, <1>2, FirstIsOneOf DEF W!HasWord
<1>5. \E i \in DOMAIN r.upgrade :
        r.upgrade[i].readable /\ "websocket" \in r.upgrade[i].words
  BY <1>1, <1>2, FirstIsOneOf DEF W!HasWord
<1>6. \E i \in DOMAIN r.sec_websocket_version : r.sec_websocket_version[i] = "13"
  BY <1>1, <1>2, FirstIsOneOf
<1> QED
  BY <1>2, <1>3, <1>4, <1>5, <1>6 DEF W!AsksForWebsocket

LEMMA InitWebsocket == ASSUME W!Init PROVE WebsocketInv
<1>1. W!TypeOK
  BY RequestAssumption DEF W!Init, W!TypeOK
<1>2. answer.status = 0
  BY DEF W!Init, W!NotYet
<1> QED
  BY <1>1, <1>2 DEF W!Init, WebsocketInv, OptionOK, SwitchOK, FutureOK, CounterOK, W!BytesConsecutive

\* The answers that refuse a request.
LEMMA Refusals ==
  ASSUME NEW r, W!from_request(r) # "upgrade"
  PROVE  LET a == [status |-> 400, message |-> W!from_request(r)]
         IN  a \in W!Answers /\ a.status = 400
BY DEF W!from_request, W!Answers

LEMMA ExtractUpgradeStep ==
  ASSUME WebsocketInv, NEW r \in Requests, W!Extract(r) PROVE WebsocketInv'
<1>1. /\ ws_request = W!NoRequest /\ ws_request' = r
      /\ UNCHANGED <<client, sent, ws_task, unhandled, count, received>>
      /\ answer = W!NotYet /\ r # W!NoRequest /\ ws_task = "none" /\ unhandled = 0
  BY RequestAssumption DEF W!Extract, WebsocketInv, OptionOK
<1>2. sent = W!NotYet
  BY <1>1 DEF WebsocketInv, W!TypeOK
<1>3. upgrade_fut # "Ok" /\ received = <<>>
  BY <1>2 DEF WebsocketInv, FutureOK, W!NotYet
<1>4. CASE W!from_request(r) = "upgrade"
  <2>1. inner' = "Some" /\ upgrade_fut' = "pending" /\ answer' = W!NotYet
    BY <1>4 DEF W!Extract
  <2>2. W!TypeOK'
    BY <1>1, <1>2, <2>1 DEF WebsocketInv, W!TypeOK
  <2>3. OptionOK'
    BY <1>1, <1>4, <2>1 DEF OptionOK, Upgrades
  <2>4. SwitchOK'
    BY <2>1 DEF SwitchOK, W!NotYet
  <2>5. FutureOK' /\ CounterOK' /\ W!BytesConsecutive'
    BY <1>1, <1>3, <2>1 DEF WebsocketInv, FutureOK, CounterOK, W!BytesConsecutive
  <2> QED
    BY <2>2, <2>3, <2>4, <2>5 DEF WebsocketInv
<1>5. CASE W!from_request(r) # "upgrade"
  <2> DEFINE a == [status |-> 400, message |-> W!from_request(r)]
  <2>1. inner' = "None" /\ upgrade_fut' = "none" /\ answer' = a
    BY <1>5 DEF W!Extract
  <2>2. a \in W!Answers /\ a.status = 400
    BY <1>5, Refusals
  <2> HIDE DEF a
  <2>3. W!TypeOK'
    BY <1>1, <1>2, <2>1, <2>2 DEF WebsocketInv, W!TypeOK
  <2>4. OptionOK'
    BY <1>1, <2>1 DEF OptionOK
  <2>5. SwitchOK'
    BY <2>1, <2>2 DEF SwitchOK
  <2>6. FutureOK' /\ CounterOK' /\ W!BytesConsecutive'
    BY <1>1, <1>3, <2>1 DEF WebsocketInv, FutureOK, CounterOK, W!BytesConsecutive
  <2> QED
    BY <2>3, <2>4, <2>5, <2>6 DEF WebsocketInv
<1> QED
  BY <1>4, <1>5

\* The handler is done with the option, one way or another.
LEMMA OptionTaken ==
  ASSUME WebsocketInv, W!Extracted, inner' = "None",
         UNCHANGED <<ws_request, client, sent, count, received>>,
         upgrade_fut' \in {upgrade_fut, "dropped"},
         \/ ws_task' = "waiting" /\ UNCHANGED unhandled
         \/ UNCHANGED ws_task /\ unhandled' = unhandled + 1,
         NEW a, answer' = a,
         \/ a \in W!Answers \union {W!Cancelled} /\ a.status # 101
         \/ a = W!SwitchingToWebsocket
  PROVE  WebsocketInv'
<1>1. /\ Upgrades /\ ws_request \in Requests /\ ws_request # W!NoRequest
      /\ answer = W!NotYet /\ ws_task = "none" /\ unhandled = 0
  BY RequestAssumption DEF WebsocketInv, OptionOK, W!Extracted
<1>2. sent = W!NotYet
  BY <1>1 DEF WebsocketInv, W!TypeOK
<1>3. upgrade_fut # "Ok" /\ received = <<>>
  BY <1>2 DEF WebsocketInv, FutureOK, W!NotYet
<1>4. a = W!SwitchingToWebsocket =>
        /\ a.status = 101
        /\ a.accept = W!derive_accept_key(ws_request.sec_websocket_key[1])
  BY DEF W!SwitchingToWebsocket
<1>5. W!TypeOK'
  BY <1>1, <1>2, <1>4 DEF WebsocketInv, W!TypeOK
<1>6. OptionOK'
  BY <1>1 DEF OptionOK
<1>7. SwitchOK'
  BY <1>1, <1>4 DEF SwitchOK, Upgrades
<1>8. FutureOK' /\ CounterOK' /\ W!BytesConsecutive'
  BY <1>1, <1>3 DEF WebsocketInv, FutureOK, CounterOK, W!BytesConsecutive
<1> QED
  BY <1>5, <1>6, <1>7, <1>8 DEF WebsocketInv

LEMMA HandleStep ==
  ASSUME WebsocketInv, W!handle \/ W!HandleAndFail \/ W!DropUpgrade
  PROVE  WebsocketInv'
<1>1. CASE W!handle
  BY <1>1, OptionTaken DEF W!handle
<1>2. CASE W!HandleAndFail
  <2> DEFINE a == [status |-> 500, message |-> "Internal Server Error"]
  <2>1. a \in W!Answers \union {W!Cancelled} /\ a.status # 101
    BY DEF W!Answers
  <2>2. answer' = a
    BY <1>2 DEF W!HandleAndFail
  <2> HIDE DEF a
  <2> QED
    BY <1>2, <2>1, <2>2, OptionTaken DEF W!HandleAndFail
<1>3. CASE W!DropUpgrade
  <2> DEFINE a == IF client = "there" THEN [status |-> 200, message |-> "not upgraded"]
                  ELSE W!Cancelled
  <2>1. a \in W!Answers \union {W!Cancelled} /\ a.status # 101
    BY DEF W!Answers, W!Cancelled
  <2>2. answer' = a
    BY <1>3 DEF W!DropUpgrade
  <2> HIDE DEF a
  <2> QED
    BY <1>3, <2>1, <2>2, OptionTaken DEF W!DropUpgrade
<1> QED
  BY <1>1, <1>2, <1>3

LEMMA RespondStep == ASSUME WebsocketInv, W!Respond PROVE WebsocketInv'
<1>1. /\ answer # W!NotYet /\ sent = W!NotYet /\ sent' = answer
      /\ UNCHANGED <<ws_request, client, inner, answer, ws_task, unhandled, count, received>>
      /\ upgrade_fut' = IF upgrade_fut # "pending" THEN upgrade_fut
                        ELSE IF answer.status = 101 THEN "Ok" ELSE "Err"
  BY DEF W!Respond
<1>2. upgrade_fut # "Ok" /\ ws_task # "channel" /\ received = <<>>
  BY <1>1 DEF WebsocketInv, FutureOK, W!NotYet
<1>3. W!TypeOK'
  BY <1>1 DEF WebsocketInv, W!TypeOK
<1>4. OptionOK' /\ SwitchOK'
  BY <1>1 DEF WebsocketInv, OptionOK, SwitchOK, Upgrades
<1>5. FutureOK' /\ CounterOK' /\ W!BytesConsecutive'
  BY <1>1, <1>2 DEF WebsocketInv, FutureOK, CounterOK, W!BytesConsecutive
<1> QED
  BY <1>3, <1>4, <1>5 DEF WebsocketInv

LEMMA DisconnectStep == ASSUME WebsocketInv, W!Disconnect PROVE WebsocketInv'
<1>1. /\ client' = "gone"
      /\ UNCHANGED <<ws_request, inner, answer, sent, ws_task, unhandled, count, received>>
      /\ upgrade_fut' = IF upgrade_fut = "pending" THEN "Err" ELSE upgrade_fut
  BY DEF W!Disconnect
<1>2. W!TypeOK'
  BY <1>1 DEF WebsocketInv, W!TypeOK
<1>3. OptionOK' /\ SwitchOK'
  BY <1>1 DEF WebsocketInv, OptionOK, SwitchOK, Upgrades
<1>4. FutureOK' /\ CounterOK' /\ W!BytesConsecutive'
  BY <1>1 DEF WebsocketInv, FutureOK, CounterOK, W!BytesConsecutive
<1> QED
  BY <1>2, <1>3, <1>4 DEF WebsocketInv

\* The task moves on, and nothing else does.
LEMMA TaskStep ==
  ASSUME WebsocketInv, ws_task # "none",
         UNCHANGED <<ws_request, client, inner, answer, sent, upgrade_fut, unhandled,
                     count, received>>,
         ws_task' \in {"channel", "ended"}, ws_task' = "channel" => upgrade_fut = "Ok"
  PROVE  WebsocketInv'
<1>1. W!TypeOK'
  BY DEF WebsocketInv, W!TypeOK
<1>2. OptionOK' /\ SwitchOK'
  BY DEF WebsocketInv, OptionOK, SwitchOK, Upgrades
<1>3. FutureOK' /\ CounterOK' /\ W!BytesConsecutive'
  BY DEF WebsocketInv, FutureOK, CounterOK, W!BytesConsecutive
<1> QED
  BY <1>1, <1>2, <1>3 DEF WebsocketInv

LEMMA SendByteStep == ASSUME WebsocketInv, W!SendByte PROVE WebsocketInv'
<1>1. /\ ws_task = "channel"
      /\ UNCHANGED <<ws_request, client, inner, answer, sent, upgrade_fut, unhandled>>
  BY DEF W!SendByte
<1>2. CASE client = "there"
  <2>1. /\ received' = Append(received, count) /\ count' = W!wrapping_add(count)
        /\ UNCHANGED ws_task
    BY <1>2 DEF W!SendByte
  <2>2. count \in 0 .. 255 /\ received \in Seq(0 .. 255)
    BY DEF WebsocketInv, W!TypeOK
  <2>3. /\ received' \in Seq(0 .. 255) /\ Len(received') = Len(received) + 1
        /\ Len(received) \in Nat /\ received'[Len(received) + 1] = count
        /\ \A i \in 1 .. Len(received) : received'[i] = received[i]
    BY <2>1, <2>2
  <2>4. W!TypeOK'
    <3>1. count' \in 0 .. 255
      BY <2>1, <2>2, WrappingAdd
    <3> QED
      BY <1>1, <2>1, <2>3, <3>1 DEF WebsocketInv, W!TypeOK
  <2>5. OptionOK' /\ SwitchOK'
    BY <1>1, <2>1 DEF WebsocketInv, OptionOK, SwitchOK, Upgrades
  <2>6. FutureOK'
    BY <1>1, <2>1 DEF WebsocketInv, FutureOK
  <2>7. CounterOK'
    BY <2>1, <2>3 DEF CounterOK
  <2>8. W!BytesConsecutive'
    <3> SUFFICES ASSUME NEW i \in 1 .. (Len(received') - 1)
                 PROVE  received'[i + 1] = IF received'[i] = 255 THEN 0 ELSE received'[i] + 1
      BY DEF W!BytesConsecutive
    <3>1. i \in 1 .. Len(received)
      BY <2>3
    <3>2. CASE i = Len(received)
      <4>1. received # <<>> /\ received[i] \in 0 .. 255
        BY <2>2, <3>1, <3>2
      <4>2. count = W!wrapping_add(received[i])
        BY <3>2, <4>1 DEF WebsocketInv, CounterOK
      <4>3. count = IF received[i] = 255 THEN 0 ELSE received[i] + 1
        BY <4>1, <4>2, WrappingAdd
      <4> QED
        BY <2>3, <3>1, <3>2, <4>3
    <3>3. CASE i # Len(received)
      <4>1. i \in 1 .. (Len(received) - 1) /\ i + 1 \in 1 .. Len(received)
        BY <2>3, <3>1, <3>3
      <4>2. received[i + 1] = IF received[i] = 255 THEN 0 ELSE received[i] + 1
        BY <4>1 DEF WebsocketInv, W!BytesConsecutive
      <4> QED
        BY <2>3, <3>1, <4>1, <4>2
    <3> QED
      BY <3>2, <3>3
  <2> QED
    BY <2>4, <2>5, <2>6, <2>7, <2>8 DEF WebsocketInv
<1>3. CASE client # "there"
  <2>1. ws_task' = "ended" /\ UNCHANGED <<received, count>>
    BY <1>3 DEF W!SendByte
  <2> QED
    BY <1>1, <2>1, TaskStep
<1> QED
  BY <1>2, <1>3

LEMMA WebsocketStutters == ASSUME WebsocketInv, UNCHANGED wsVars PROVE WebsocketInv'
<1>1. UNCHANGED <<ws_request, client, inner, answer, sent, upgrade_fut, ws_task,
                  unhandled, count, received>>
  BY DEF wsVars
<1>2. W!TypeOK'
  BY <1>1 DEF WebsocketInv, W!TypeOK
<1>3. OptionOK' /\ SwitchOK'
  BY <1>1 DEF WebsocketInv, OptionOK, SwitchOK, Upgrades
<1>4. FutureOK' /\ CounterOK' /\ W!BytesConsecutive'
  BY <1>1 DEF WebsocketInv, FutureOK, CounterOK, W!BytesConsecutive
<1> QED
  BY <1>2, <1>3, <1>4 DEF WebsocketInv

LEMMA NextWebsocket == ASSUME WebsocketInv, W!Next PROVE WebsocketInv'
<1>1. ASSUME NEW r \in Requests, W!Extract(r) PROVE WebsocketInv'
  BY <1>1, ExtractUpgradeStep
<1>2. CASE W!UpgradeResolved
  BY <1>2, TaskStep DEF W!UpgradeResolved
<1> QED
  BY <1>1, <1>2, HandleStep, RespondStep, DisconnectStep, SendByteStep DEF W!Next

LEMMA WebsocketInvariant == RequestSpec => []WebsocketInv
<1>1. RequestInit => WebsocketInv
  BY InitWebsocket DEF RequestInit, QuietWebsocket
<1>2. WebsocketInv /\ [RequestNext]_allVars => WebsocketInv'
  <2> SUFFICES ASSUME WebsocketInv, [RequestNext]_allVars PROVE WebsocketInv'
    OBVIOUS
  <2>1. CASE W!Next
    BY <2>1, NextWebsocket
  <2>2. CASE UNCHANGED wsVars
    BY <2>2, WebsocketStutters
  <2> QED
    BY <2>1, <2>2 DEF RequestNext, allVars
<1> QED
  BY <1>1, <1>2, PTL DEF RequestSpec

-----------------------------------------------------------------------------
\* Whatever the headers of a request, whenever its handler fails, drops the
\* upgrade or its client leaves: the connection is switched only for a client
\* that asked, with the digest of its own key, the channel runs only on a
\* switched connection and its bytes are consecutive, and an upgrade that is
\* not handled is reported, never both (websocket.rs:128-309).
THEOREM UpgradesAreSound == RequestSpec => []UpgradeSound
<1>1. WebsocketInv => UpgradeSound
  <2> SUFFICES ASSUME WebsocketInv PROVE W!UpgradeSound
    BY DEF UpgradeSound
  <2>1. W!SwitchOnlyIfAsked
    <3> SUFFICES ASSUME sent.status = 101
                 PROVE  /\ W!AsksForWebsocket(ws_request)
                        /\ \E i \in DOMAIN ws_request.sec_websocket_key :
                             sent.accept = W!derive_accept_key(ws_request.sec_websocket_key[i])
      BY DEF W!SwitchOnlyIfAsked
    <3>1. sent = answer
      BY DEF WebsocketInv, W!TypeOK, W!NotYet
    <3>2. /\ ws_request \in Requests /\ W!from_request(ws_request) = "upgrade"
          /\ sent.accept = W!derive_accept_key(ws_request.sec_websocket_key[1])
      BY <3>1 DEF WebsocketInv, SwitchOK, Upgrades
    <3> QED
      BY <3>2, ChecksSuffice
  <2>2. W!ChannelOnlyAfterSwitch
    BY DEF WebsocketInv, FutureOK, W!ChannelOnlyAfterSwitch
  <2>3. W!HandledOrReported
    BY DEF WebsocketInv, W!TypeOK, OptionOK, W!HandledOrReported
  <2> QED
    BY <2>1, <2>2, <2>3 DEF WebsocketInv, W!UpgradeSound
<1> QED
  BY <1>1, WebsocketInvariant, PTL
-----------------------------------------------------------------------------
(* The part of Responses.  What a handler returns determines its answer,   *)
(* and an answer that was compressed says so to every cache.               *)

\* What is true of an answer, whoever gets it: a compressed one was asked for,
\* and its Vary header names what it depends on.
AnswerOK(accept, rsp) ==
  /\ rsp.status \in 100 .. 999 /\ DOMAIN rsp.headers = R!HeaderNames
  /\ rsp.body.coding # <<>> =>
       /\ R!accepts_gzip_encoding(accept)
       /\ {"*", "accept-encoding"} \cap R!Values(rsp.headers, "vary") # {}

\* The answer that Respond gives.
AnswerOf(c) ==
  IF result[c].ok THEN R!FinishResponse(result[c].rsp, rs_request[c], c)
  ELSE R!IntoResponse(result[c], c)

ResultOf(c) == returned[c] \in Returned /\ result[c] = R!HandlerResult(returned[c])

\* The inductive invariant.
ResponsesInv ==
  /\ pc \in [Clients -> {"idle", "sent", "returned", "received"}]
  /\ rs_request = [c \in Clients |-> rs_request[c]] /\ result = [c \in Clients |-> result[c]]
  /\ returned = [c \in Clients |-> returned[c]]
  /\ rs_response = [c \in Clients |-> rs_response[c]]
  /\ \A c \in Clients :
       /\ pc[c] \in {"idle", "sent"} => result[c] = <<>>
       /\ pc[c] = "returned" => ResultOf(c)
       /\ R!Received(c) => AnswerOK(rs_request[c].accept, rs_response[c])
       /\ R!Answered(c) => ResultOf(c) /\ rs_response[c] = AnswerOf(c)
  /\ \A stored \in cache : AnswerOK(stored.accept, stored.response)

\* The Vary header names Accept-Encoding afterwards, and nothing else changes.
LEMMA VaryAdded ==
  ASSUME NEW h, R!IsHeaderMap(h)
  PROVE  LET w == R!add_vary_header(h)
         IN  /\ w = [n \in R!HeaderNames |-> w[n]]
             /\ \A n \in R!HeaderNames \ {"vary"} : w[n] = h[n]
             /\ {"*", "accept-encoding"} \cap R!Values(w, "vary") # {}
<1>1. "vary" \in R!HeaderNames /\ h["vary"] \in Seq(R!Values(h, "vary"))
  BY DEF R!IsHeaderMap, R!HeaderNames
<1>2. CASE {"*", "accept-encoding"} \cap R!Values(h, "vary") # {}
  BY <1>2 DEF R!add_vary_header, R!IsHeaderMap
<1>3. CASE {"*", "accept-encoding"} \cap R!Values(h, "vary") = {}
  <2> DEFINE w == [h EXCEPT !["vary"] = Append(@, "accept-encoding")]
  <2>1. R!add_vary_header(h) = w
    BY <1>3 DEF R!add_vary_header, R!AppendValue
  <2>2. /\ w = [n \in R!HeaderNames |-> w[n]]
        /\ \A n \in R!HeaderNames \ {"vary"} : w[n] = h[n]
        /\ w["vary"] = Append(h["vary"], "accept-encoding")
    BY <1>1 DEF R!IsHeaderMap
  <2> HIDE DEF w
  <2>3. /\ Len(h["vary"]) + 1 \in DOMAIN w["vary"]
        /\ w["vary"][Len(h["vary"]) + 1] = "accept-encoding"
    BY <1>1, <2>2
  <2>4. "accept-encoding" \in R!Values(w, "vary")
    BY <2>3 DEF R!Values
  <2> QED
    BY <2>1, <2>2, <2>4
<1> QED
  BY <1>2, <1>3

\* The end of http_request_handle(): the status stays, the id is the request's,
\* and the body is what it was or was compressed and says so.
LEMMA FinishFacts ==
  ASSUME NEW rsp, R!IsResponse(rsp), NEW req, NEW id
  PROVE  LET after == R!FinishResponse(rsp, req, id)
         IN  /\ after.status = rsp.status
             /\ DOMAIN after.headers = R!HeaderNames
             /\ after.headers["x-request-id"] = <<id>>
             /\ \/ /\ after.body = rsp.body
                   /\ after.headers["content-encoding"] = rsp.headers["content-encoding"]
                \/ /\ after.body.coding = <<"gzip">>
                   /\ after.headers["content-encoding"] = <<"gzip">>
                   /\ rsp.headers["content-encoding"] = <<>>
                   /\ after.headers["content-length"] = <<>>
                   /\ after.headers["accept-ranges"] = <<>>
                   /\ after.status \notin R!BodilessStatus /\ req.method # "HEAD"
                   /\ R!accepts_gzip_encoding(req.accept)
                   /\ {"*", "accept-encoding"} \cap R!Values(after.headers, "vary") # {}
<1> DEFINE w == R!add_vary_header(rsp.headers)
           varied == [rsp EXCEPT !.headers = w]
           compressed == R!apply_gzip_compression(varied)
           encoded == IF compression = "Gzip" /\ R!is_compressible_content_type(rsp.headers)
                        THEN IF R!should_compress_response(req.method, req.accept, varied)
                               THEN compressed ELSE varied
                        ELSE rsp
           after == [encoded EXCEPT !.headers = R!Insert(@, "x-request-id", id)]
           Unchanged(e) == /\ e = [status |-> rsp.status, no_compression |-> rsp.no_compression,
                                   headers |-> e.headers, body |-> rsp.body]
                           /\ e.headers = [n \in R!HeaderNames |-> e.headers[n]]
                           /\ e.headers["content-encoding"] = rsp.headers["content-encoding"]
<1>1. R!FinishResponse(rsp, req, id) = after
  BY DEF R!FinishResponse
<1>2. /\ rsp = [status |-> rsp.status, no_compression |-> rsp.no_compression,
                headers |-> rsp.headers, body |-> rsp.body]
      /\ rsp.body = [size |-> rsp.body.size, exact |-> rsp.body.exact, coding |-> <<>>,
                     message |-> rsp.body.message, request_id |-> rsp.body.request_id]
      /\ R!IsHeaderMap(rsp.headers)
  BY DEF R!IsResponse
<1>3. /\ w = [n \in R!HeaderNames |-> w[n]]
      /\ \A n \in R!HeaderNames \ {"vary"} : w[n] = rsp.headers[n]
      /\ {"*", "accept-encoding"} \cap R!Values(w, "vary") # {}
  BY <1>2, VaryAdded
<1>4. {"content-encoding", "content-length", "accept-ranges", "vary", "x-request-id"}
        \subseteq R!HeaderNames
  BY DEF R!HeaderNames
<1> HIDE DEF w
<1>5. varied = [status |-> rsp.status, no_compression |-> rsp.no_compression,
                headers |-> w, body |-> rsp.body]
  BY <1>2
<1>6. Unchanged(rsp) /\ Unchanged(varied)
  <2>1. Unchanged(rsp)
    BY <1>2 DEF R!IsHeaderMap
  <2>2. Unchanged(varied)
    BY <1>3, <1>4, <1>5
  <2> QED
    BY <2>1, <2>2
<1> HIDE DEF varied
<1>7. CASE Unchanged(encoded)
  <2> HIDE DEF encoded
  <2>1. after = [status |-> rsp.status, no_compression |-> rsp.no_compression,
                 headers |-> [encoded.headers EXCEPT !["x-request-id"] = <<id>>],
                 body |-> rsp.body]
    BY <1>7 DEF R!Insert
  <2> HIDE DEF after
  <2> QED
    BY <1>1, <1>4, <1>7, <2>1
<1>8. CASE encoded = compressed /\ ~Unchanged(encoded)
           /\ R!should_compress_response(req.method, req.accept, varied)
  <2> DEFINE h == [w EXCEPT !["content-encoding"] = <<"gzip">>]
             g == [[h EXCEPT !["accept-ranges"] = <<>>] EXCEPT !["content-length"] = <<>>]
  <2>1. R!add_vary_header(h) = h
    <3>1. h["vary"] = w["vary"]
      BY <1>3, <1>4
    <3> QED
      BY <1>3, <3>1 DEF R!add_vary_header, R!Values
  <2>2. compressed # varied
    BY <1>6, <1>8
  <2>3. compressed = [varied EXCEPT
          !.body.coding = Append(@, "gzip"),
          !.body.exact = FALSE,
          !.headers = [R!add_vary_header(R!Insert(@, "content-encoding", "gzip"))
                         EXCEPT !["accept-ranges"] = <<>>, !["content-length"] = <<>>]]
    BY <2>2 DEF R!apply_gzip_compression
  <2> HIDE DEF compressed, encoded
  <2>4. compressed.status = rsp.status /\ compressed.headers = g
        /\ compressed.body.coding = <<"gzip">>
        /\ DOMAIN compressed = {"status", "no_compression", "headers", "body"}
    <3>1. R!Insert(varied.headers, "content-encoding", "gzip") = h
      BY <1>5 DEF R!Insert
    <3> HIDE DEF h
    <3>2. DOMAIN compressed = {"status", "no_compression", "headers", "body"}
      BY <1>5, <2>3
    <3>3. compressed.status = rsp.status
      BY <1>5, <2>3
    <3>4. compressed.headers = g
      BY <1>5, <2>1, <2>3, <3>1
    <3>5. compressed.body.coding = <<"gzip">>
      <4>1. compressed.body = [[rsp.body EXCEPT !.coding = Append(@, "gzip")]
                                 EXCEPT !.exact = FALSE]
        BY <1>5, <2>3
      <4>2. rsp.body.coding = <<>> /\ "coding" \in DOMAIN rsp.body
        BY <1>2
      <4>3. compressed.body.coding = Append(<<>>, "gzip")
        BY <4>1, <4>2
      <4> QED
        BY <4>3
    <3> QED
      BY <3>2, <3>3, <3>4, <3>5
  <2>5. after.status = rsp.status /\ after.body.coding = <<"gzip">>
        /\ after.headers = [g EXCEPT !["x-request-id"] = <<id>>]
    BY <1>8, <2>4 DEF R!Insert
  <2>6. /\ DOMAIN after.headers = R!HeaderNames
        /\ after.headers["x-request-id"] = <<id>>
        /\ after.headers["content-encoding"] = <<"gzip">>
        /\ after.headers["content-length"] = <<>> /\ after.headers["accept-ranges"] = <<>>
        /\ after.headers["vary"] = w["vary"]
    BY <1>3, <1>4, <2>5
  <2>7. {"*", "accept-encoding"} \cap R!Values(after.headers, "vary") # {}
    <3> HIDE DEF after
    <3>1. R!Values(after.headers, "vary") = R!Values(w, "vary")
      BY <2>6 DEF R!Values
    <3> QED
      BY <1>3, <3>1
  <2>8. /\ rsp.status \notin R!BodilessStatus /\ req.method # "HEAD"
        /\ R!accepts_gzip_encoding(req.accept)
        /\ rsp.headers["content-encoding"] = <<>>
    BY <1>3, <1>4, <1>5, <1>8 DEF R!should_compress_response, R!Contains
  <2> HIDE DEF after
  <2> QED
    BY <1>1, <2>5, <2>6, <2>7, <2>8
<1> QED
  BY <1>6, <1>7, <1>8

\* An HttpError has an error's status, and hides its message if it is the
\* server's fault.
LEMMA HttpErrorFacts ==
  ASSUME NEW e, R!IsHttpError(e)
  PROVE  /\ e.status_code \in 400 .. 599
         /\ R!is_server_error(e.status_code) => e.external_message = "reason"
<1> DEFINE message == e.internal_message
<1>1. CASE \E new \in {R!for_internal_error(message), R!for_unavail(message),
                       R!for_not_found(message)} :
             e = [new EXCEPT !.headers = e.headers]
  BY <1>1 DEF R!for_internal_error, R!for_unavail, R!for_not_found, R!is_server_error
<1>2. CASE R!as_client_error(e.status_code) # <<>>
  BY <1>2 DEF R!as_client_error, R!is_client_error, R!is_server_error
<1> QED
  BY <1>1, <1>2 DEF R!IsHttpError

\* for_internal_error() makes an HttpError.
LEMMA InternalErrorIsHttpError ==
  ASSUME NEW message
  PROVE  R!IsHttpError(R!for_internal_error(message))
<1> DEFINE e == R!for_internal_error(message)
<1>1. e = [e EXCEPT !.headers = e.headers] /\ e.internal_message = message
  BY DEF R!for_internal_error
<1>2. R!IsHeaderMap(R!NoHeaders)
  BY DEF R!IsHeaderMap, R!NoHeaders, R!Values
<1>3. e.headers = R!NoHeaders
  BY DEF R!for_internal_error
<1> HIDE DEF e
<1>4. e \in {R!for_internal_error(message), R!for_unavail(message), R!for_not_found(message)}
  BY DEF e
<1> QED
  BY <1>1, <1>2, <1>3, <1>4 DEF R!IsHttpError, e

\* An error response of an endpoint's own type.
OwnResponseOK(rsp, e) ==
  /\ rsp = [status |-> e.status, no_compression |-> FALSE, headers |-> rsp.headers,
            body |-> rsp.body]
  /\ DOMAIN rsp.headers = R!HeaderNames /\ rsp.headers = [n \in R!HeaderNames |-> rsp.headers[n]]
  /\ rsp.body.coding = <<>> /\ rsp.body.message = e.message

LEMMA HandlerErrorFacts ==
  ASSUME NEW e, e.type = "custom", e.serializes
  PROVE  LET r == R!HandlerError(e)
         IN  r.ok = FALSE /\ r.dropshot = FALSE /\ OwnResponseOK(r.rsp, e)
<1> DEFINE rsp == R!HttpResponseOk([kind |-> "json", size |-> 100, exact |-> TRUE]).rsp
           own == [rsp EXCEPT !.status = e.status, !.body.message = e.message]
<1>1. rsp = [status |-> 200, no_compression |-> FALSE,
             headers |-> [R!NoHeaders EXCEPT !["content-type"] = <<"application/json">>],
             body |-> [size |-> 100, exact |-> TRUE, coding |-> <<>>, message |-> "",
                       request_id |-> <<>>]]
  BY DEF R!HttpResponseOk, R!for_object, R!Ok, R!ContentType
<1>2. R!HandlerError(e) = [ok |-> FALSE, dropshot |-> FALSE, rsp |-> own]
  BY DEF R!HandlerError
<1> HIDE DEF rsp
<1>3. own.headers = rsp.headers /\ own.body.coding = <<>> /\ own.body.message = e.message
      /\ own = [status |-> e.status, no_compression |-> FALSE, headers |-> own.headers,
                body |-> own.body]
  <2> DEFINE b == [rsp.body EXCEPT !.message = e.message]
  <2>1. b.coding = <<>> /\ b.message = e.message
    BY <1>1
  <2> HIDE DEF b
  <2>2. PICK hd, bd : rsp = [status |-> 200, no_compression |-> FALSE, headers |-> hd, body |-> bd]
    BY <1>1
  <2>3. own = [status |-> e.status, no_compression |-> FALSE, headers |-> rsp.headers,
               body |-> b]
    <3> DEFINE half == [rsp EXCEPT !.status = e.status]
    <3>1. half = [status |-> e.status, no_compression |-> FALSE, headers |-> hd, body |-> bd]
          /\ rsp.headers = hd /\ rsp.body = bd
      <4>1. /\ DOMAIN half = {"status", "no_compression", "headers", "body"}
            /\ half.status = e.status /\ half.no_compression = FALSE
            /\ half.headers = hd /\ half.body = bd
        BY <2>2
      <4>2. half = [i \in {"status", "no_compression", "headers", "body"} |-> half[i]]
        BY <2>2
      <4> HIDE DEF half
      <4> QED
        BY <2>2, <4>1, <4>2
    <3>2. own = [half EXCEPT !.body = [half.body EXCEPT !.message = e.message]]
      OBVIOUS
    <3> HIDE DEF half, own
    <3>3. half.body = rsp.body
      BY <3>1
    <3>4. own = [half EXCEPT !.body = b]
      BY <3>2, <3>3 DEF b
    <3> QED
      BY <3>1, <3>4
  <2> HIDE DEF own
  <2> QED
    BY <2>1, <2>3
<1>4. rsp.headers = [n \in R!HeaderNames |-> rsp.headers[n]]
  BY <1>1 DEF R!NoHeaders
<1> HIDE DEF own
<1>5. OwnResponseOK(own, e)
  BY <1>3, <1>4 DEF OwnResponseOK
<1> QED
  BY <1>2, <1>5

Succeeded(v) == v.ok /\ v.value.ok

\* The endpoint's own error e says no more of v than it may.
OwnErrorOK(v, e) ==
  /\ e.status \in 400 .. 599
  /\ \/ R!is_server_error(e.status) => e.message = "reason"
     \/ ~v.ok /\ R!OwnError(v.error)

ErrorResultOK(v, r) ==
  /\ r.ok = FALSE
  /\ \/ r.dropshot = TRUE /\ R!IsHttpError(r.error)
     \/ r.dropshot = FALSE /\ \E e : OwnResponseOK(r.rsp, e) /\ OwnErrorOK(v, e)

\* What http_request_handle() makes of a handler's result: the response of a
\* handler that succeeded, or an error.
LEMMA ResultFacts ==
  ASSUME NEW v, R!IsReturned(v)
  PROVE  /\ Succeeded(v) => R!HandlerResult(v) = v.value /\ R!IsResponse(v.value.rsp)
         /\ ~Succeeded(v) => ErrorResultOK(v, R!HandlerResult(v))
<1> DEFINE r == R!HandlerResult(v)
<1> USE DEF Succeeded
<1>1. CASE v.ok /\ v.value.ok
  BY <1>1 DEF R!HandlerResult, R!IsReturned
<1>2. CASE v.ok /\ ~v.value.ok /\ v.custom
  <2> DEFINE e == R!ThingyError(v.value.error)
  <2>1. R!IsHttpError(v.value.error)
    BY <1>2 DEF R!IsReturned
  <2>2. /\ e.type = "custom" /\ e.serializes /\ e.status = v.value.error.status_code
        /\ e.message = v.value.error.external_message
    BY DEF R!ThingyError
  <2>3. r = R!HandlerError(e)
    BY <1>2 DEF R!HandlerResult
  <2> HIDE DEF e, r
  <2>4. r.ok = FALSE /\ r.dropshot = FALSE /\ OwnResponseOK(r.rsp, e)
    BY <2>2, <2>3, HandlerErrorFacts
  <2>5. e.status \in 400 .. 599 /\ (R!is_server_error(e.status) => e.message = "reason")
    BY <2>1, <2>2, HttpErrorFacts
  <2> QED
    BY <1>2, <2>4, <2>5 DEF r, ErrorResultOK, OwnErrorOK
<1>3. CASE v.ok /\ ~v.value.ok /\ ~v.custom
  <2>1. R!IsHttpError(v.value.error)
    BY <1>3 DEF R!IsReturned
  <2>2. r = [ok |-> FALSE, dropshot |-> TRUE, error |-> v.value.error]
    BY <1>3 DEF R!HandlerResult, R!HandlerError
  <2> QED
    BY <1>3, <2>1, <2>2 DEF ErrorResultOK
<1>4. CASE ~v.ok /\ v.error.type = "HttpError"
  <2>1. R!IsHttpError(v.error.error)
    BY <1>4 DEF R!IsReturned
  <2>2. r = [ok |-> FALSE, dropshot |-> TRUE, error |-> v.error.error]
    BY <1>4 DEF R!HandlerResult, R!HandlerError
  <2> QED
    BY <1>4, <2>1, <2>2 DEF ErrorResultOK
<1>5. CASE ~v.ok /\ v.error.type = "custom" /\ v.error.serializes
  <2>1. r = R!HandlerError(v.error)
    BY <1>5 DEF R!HandlerResult
  <2> HIDE DEF r
  <2>2. r.ok = FALSE /\ r.dropshot = FALSE /\ OwnResponseOK(r.rsp, v.error)
    BY <1>5, <2>1, HandlerErrorFacts
  <2>3. v.error.status \in 400 .. 599
    BY <1>5 DEF R!IsReturned, R!IsErrorStatusCode, R!from_status, R!is_client_error,
                R!is_server_error
  <2> QED
    BY <1>5, <2>2, <2>3 DEF r, R!OwnError, ErrorResultOK, OwnErrorOK
<1>6. CASE ~v.ok /\ v.error.type = "custom" /\ ~v.error.serializes
  <2>1. r = [ok |-> FALSE, dropshot |-> TRUE, error |-> R!for_internal_error("serde")]
    BY <1>6 DEF R!HandlerResult, R!HandlerError
  <2> QED
    BY <1>6, <2>1, InternalErrorIsHttpError DEF ErrorResultOK
<1> QED
  BY <1>1, <1>2, <1>3, <1>4, <1>5, <1>6 DEF R!IsReturned

\* HttpError::into_response(): the headers of the error are kept, and the id
\* comes last.
LEMMA ErrorResponseFacts ==
  ASSUME NEW e, R!IsHttpError(e), NEW id
  PROVE  LET after == R!HttpErrorIntoResponse(e, id)
             ids   == after.headers["x-request-id"]
         IN  /\ after.status = e.status_code
             /\ after.body.coding = <<>> /\ after.body.message = e.external_message
             /\ DOMAIN after.headers = R!HeaderNames
             /\ \A n \in R!HeaderNames : R!Values(e.headers, n) \subseteq R!Values(after.headers, n)
             /\ ids # <<>> /\ ids[Len(ids)] = id
             /\ Len(ids) = 1 \/ R!Contains(e.headers, "x-request-id")
<1> DEFINE h == [[e.headers EXCEPT !["content-type"] = Append(@, "application/json")]
                   EXCEPT !["x-request-id"] = Append(@, id)]
           after == R!HttpErrorIntoResponse(e, id)
<1>1. /\ after.status = e.status_code /\ after.headers = h
      /\ after.body.coding = <<>> /\ after.body.message = e.external_message
  BY DEF R!HttpErrorIntoResponse, R!AppendValue
<1>2. /\ e.headers = [n \in R!HeaderNames |-> e.headers[n]]
      /\ \A n \in R!HeaderNames : e.headers[n] \in Seq(R!Values(e.headers, n))
      /\ {"content-type", "x-request-id"} \subseteq R!HeaderNames
  BY DEF R!IsHttpError, R!IsHeaderMap, R!HeaderNames
<1>3. /\ DOMAIN h = R!HeaderNames
      /\ h["x-request-id"] = Append(e.headers["x-request-id"], id)
      /\ h["content-type"] = Append(e.headers["content-type"], "application/json")
      /\ \A n \in R!HeaderNames \ {"content-type", "x-request-id"} : h[n] = e.headers[n]
  BY <1>2
<1> HIDE DEF h, after
<1>4. ASSUME NEW n \in R!HeaderNames
      PROVE  R!Values(e.headers, n) \subseteq R!Values(h, n)
  <2>1. CASE n \in {"content-type", "x-request-id"}
    <3>1. PICK x : h[n] = Append(e.headers[n], x)
      BY <1>3, <2>1
    <3>2. e.headers[n] \in Seq(R!Values(e.headers, n))
      BY <1>2
    <3>3. \A i \in DOMAIN e.headers[n] : i \in DOMAIN h[n] /\ h[n][i] = e.headers[n][i]
      BY <3>1, <3>2
    <3> QED
      BY <3>3 DEF R!Values
  <2>2. CASE n \notin {"content-type", "x-request-id"}
    BY <1>3, <2>2 DEF R!Values
  <2> QED
    BY <2>1, <2>2
<1>5. LET ids == h["x-request-id"]
      IN  /\ ids # <<>> /\ ids[Len(ids)] = id
          /\ Len(ids) = 1 \/ e.headers["x-request-id"] # <<>>
  <2> DEFINE s == e.headers["x-request-id"]
  <2>1. h["x-request-id"] = Append(s, id) /\ s \in Seq(R!Values(e.headers, "x-request-id"))
    BY <1>2, <1>3
  <2> HIDE DEF s
  <2>2. Len(Append(s, id)) = Len(s) + 1 /\ Append(s, id)[Len(s) + 1] = id
        /\ Append(s, id) # <<>>
    BY <2>1
  <2>3. s = <<>> => Len(s) = 0
    OBVIOUS
  <2> QED
    BY <2>1, <2>2, <2>3 DEF s
<1> QED
  BY <1>1, <1>3, <1>4, <1>5 DEF R!Contains, after

\* What is answered is a status, has headers, and is not compressed unless the
\* client asked for it.
LEMMA AnswerFacts ==
  ASSUME NEW c, ResultOf(c)
  PROVE  AnswerOK(rs_request[c].accept, AnswerOf(c))
<1> DEFINE v == returned[c]
           r == result[c]
<1>1. R!IsReturned(v) /\ r = R!HandlerResult(v)
  BY RequestAssumption DEF ResultOf
<1>2. AnswerOf(c) = IF r.ok THEN R!FinishResponse(r.rsp, rs_request[c], c)
                    ELSE R!IntoResponse(r, c)
  BY DEF AnswerOf
<1> HIDE DEF v, r
<1>3. CASE Succeeded(v)
  <2> DEFINE after == R!FinishResponse(r.rsp, rs_request[c], c)
  <2>1. r.ok /\ R!IsResponse(r.rsp)
    BY <1>1, <1>3, ResultFacts DEF Succeeded
  <2>2. /\ after.status = r.rsp.status /\ DOMAIN after.headers = R!HeaderNames
        /\ \/ after.body = r.rsp.body
           \/ /\ R!accepts_gzip_encoding(rs_request[c].accept)
              /\ {"*", "accept-encoding"} \cap R!Values(after.headers, "vary") # {}
    BY <2>1, FinishFacts
  <2>3. r.rsp.status \in 100 .. 999 /\ r.rsp.body.coding = <<>>
    <3> DEFINE rsp == r.rsp
    <3> HIDE DEF rsp
    <3>1. R!IsResponse(rsp)
      BY <2>1 DEF rsp
    <3>2. rsp.status \in 100 .. 999 /\ rsp.body.coding = <<>>
      BY <3>1 DEF R!IsResponse
    <3> QED
      BY <3>2 DEF rsp
  <2>4. AnswerOf(c) = after
    BY <1>2, <2>1
  <2> HIDE DEF after
  <2> QED
    BY <2>2, <2>3, <2>4 DEF AnswerOK
<1>4. CASE ~Succeeded(v)
  <2>1. ErrorResultOK(v, r)
    BY <1>1, <1>4, ResultFacts
  <2>2. r.ok = FALSE /\ AnswerOf(c) = R!IntoResponse(r, c)
    BY <1>2, <2>1 DEF ErrorResultOK
  <2>3. CASE r.dropshot = TRUE /\ R!IsHttpError(r.error)
    <3> DEFINE e == r.error
               after == R!HttpErrorIntoResponse(e, c)
    <3>1. AnswerOf(c) = after /\ R!IsHttpError(e)
      BY <2>2, <2>3 DEF R!IntoResponse
    <3> HIDE DEF e
    <3>2. after.status = e.status_code /\ after.body.coding = <<>>
          /\ DOMAIN after.headers = R!HeaderNames
      BY <3>1, ErrorResponseFacts
    <3>3. e.status_code \in 400 .. 599
      BY <3>1, HttpErrorFacts
    <3> HIDE DEF after
    <3>4. after.status \in 100 .. 999
      BY <3>2, <3>3
    <3> QED
      BY <3>1, <3>2, <3>4 DEF AnswerOK
  <2>4. ASSUME r.dropshot = FALSE, NEW e, OwnResponseOK(r.rsp, e), OwnErrorOK(v, e)
        PROVE  AnswerOK(rs_request[c].accept, AnswerOf(c))
    <3>1. AnswerOf(c) = [r.rsp EXCEPT !.headers = [@ EXCEPT !["x-request-id"] = <<c>>]]
      BY <2>2, <2>4 DEF R!IntoResponse, R!Insert
    <3>2. AnswerOf(c).status = e.status /\ AnswerOf(c).body.coding = <<>>
          /\ DOMAIN AnswerOf(c).headers = R!HeaderNames
      BY <2>4, <3>1 DEF OwnResponseOK
    <3>3. e.status \in 100 .. 999
      BY <2>4 DEF OwnErrorOK
    <3> QED
      BY <3>2, <3>3 DEF AnswerOK
  <2> QED
    BY <2>1, <2>3, <2>4 DEF ErrorResultOK
<1> QED
  BY <1>3, <1>4

LEMMA InitResponses == R!Init => ResponsesInv
BY DEF R!Init, ResponsesInv, R!Received, R!Answered

LEMMA StepResponses == ResponsesInv /\ [R!Next]_rsVars => ResponsesInv'
<1> SUFFICES ASSUME ResponsesInv, [R!Next]_rsVars PROVE ResponsesInv'
  OBVIOUS
<1> USE DEF R!Received, R!Answered
<1>1. CASE UNCHANGED rsVars
  BY <1>1 DEF rsVars, ResponsesInv, ResultOf, AnswerOf
<1>2. ASSUME NEW c \in Clients, NEW accept, NEW method, R!Send(c, accept, method)
      PROVE  ResponsesInv'
  BY <1>2 DEF R!Send, ResponsesInv, ResultOf, AnswerOf
<1>3. ASSUME NEW c \in Clients, NEW v \in Returned, R!HandlerReturns(c, v)
      PROVE  ResponsesInv'
  BY <1>3 DEF R!HandlerReturns, ResponsesInv, ResultOf, AnswerOf
<1>4. ASSUME NEW c \in Clients, R!Respond(c)
      PROVE  ResponsesInv'
  <2>1. /\ pc[c] = "returned" /\ pc' = [pc EXCEPT ![c] = "received"]
        /\ rs_response' = [rs_response EXCEPT ![c] = AnswerOf(c)]
        /\ UNCHANGED <<rs_request, result, returned, cache>>
    BY <1>4 DEF R!Respond, AnswerOf
  <2>2. ResultOf(c) /\ AnswerOK(rs_request[c].accept, AnswerOf(c))
    BY <2>1, AnswerFacts DEF ResponsesInv
  <2>3. \A d : (ResultOf(d)' <=> ResultOf(d)) /\ AnswerOf(d)' = AnswerOf(d)
    BY <2>1 DEF ResultOf, AnswerOf
  <2> QED
    BY <2>1, <2>2, <2>3 DEF ResponsesInv
<1>5. ASSUME NEW c \in Clients, R!CacheHit(c)
      PROVE  ResponsesInv'
  <2>1. PICK stored \in cache :
          /\ "*" \notin R!Values(stored.response.headers, "vary")
          /\ "accept-encoding" \in R!Values(stored.response.headers, "vary")
               => stored.accept = rs_request[c].accept
          /\ rs_response' = [rs_response EXCEPT ![c] = stored.response]
    BY <1>5 DEF R!CacheHit
  <2>2. /\ pc[c] = "sent" /\ pc' = [pc EXCEPT ![c] = "received"]
        /\ UNCHANGED <<rs_request, result, returned, cache>>
    BY <1>5 DEF R!CacheHit
  <2>3. AnswerOK(rs_request[c].accept, stored.response)
    BY <2>1 DEF ResponsesInv, AnswerOK
  <2>4. \A d : (ResultOf(d)' <=> ResultOf(d)) /\ AnswerOf(d)' = AnswerOf(d)
    BY <2>2 DEF ResultOf, AnswerOf
  <2> QED
    BY <2>1, <2>2, <2>3, <2>4 DEF ResponsesInv
<1>6. ASSUME NEW c \in Clients, R!CacheStores(c)
      PROVE  ResponsesInv'
  <2>1. /\ pc[c] = "received" /\ UNCHANGED <<pc, rs_request, result, returned, rs_response>>
        /\ cache' = cache \cup {[accept |-> rs_request[c].accept, response |-> rs_response[c]]}
    BY <1>6 DEF R!CacheStores
  <2>2. AnswerOK(rs_request[c].accept, rs_response[c])
    BY <2>1 DEF ResponsesInv
  <2>3. \A d : (ResultOf(d)' <=> ResultOf(d)) /\ AnswerOf(d)' = AnswerOf(d)
    BY <2>1 DEF ResultOf, AnswerOf
  <2> QED
    BY <2>1, <2>2, <2>3 DEF ResponsesInv
<1> QED
  BY <1>1, <1>2, <1>3, <1>4, <1>5, <1>6 DEF R!Next

\* Every answer that a client or the cache holds is the one that its request and
\* the handler's result call for (server.rs, handler.rs, compression.rs).
THEOREM ResponsesInvariant == RequestSpec => []ResponsesInv
<1>1. RequestInit => ResponsesInv
  BY InitResponses DEF RequestInit
<1>2. ResponsesInv /\ [RequestNext]_allVars => ResponsesInv'
  <2> SUFFICES ASSUME ResponsesInv, [RequestNext]_allVars PROVE ResponsesInv'
    OBVIOUS
  <2>1. [R!Next]_rsVars
    BY DEF RequestNext, allVars
  <2> QED
    BY <2>1, StepResponses
<1> QED
  BY <1>1, <1>2, PTL DEF RequestSpec

-----------------------------------------------------------------------------
\* Whatever clients accept, handlers return and a shared cache keeps: only a
\* client that accepts gzip gets a compressed body, and what an answer says of
\* its body is true (compression.rs, server.rs:1005-1021).
THEOREM CompressionIsSound == RequestSpec => []CompressionSound
<1>1. ResponsesInv => CompressionSound
  <2> SUFFICES ASSUME ResponsesInv PROVE R!GzipOnlyIfAccepted /\ R!EncodingHonest
    BY DEF CompressionSound, R!CompressionSound
  <2>1. R!GzipOnlyIfAccepted
    BY DEF ResponsesInv, AnswerOK, R!GzipOnlyIfAccepted, R!accepts_gzip_encoding, R!Qualities
  <2>2. ASSUME NEW c \in Clients, R!Answered(c), result[c].ok
        PROVE  LET before == result[c].rsp
                   after  == rs_response[c]
                   gzip   == after.body.coding = <<"gzip">>
               IN  /\ gzip \/ after.body = before.body
                   /\ gzip => /\ after.headers["content-encoding"] = <<"gzip">>
                              /\ ~R!Contains(before.headers, "content-encoding")
                              /\ ~R!Contains(after.headers, "content-length")
                              /\ ~R!Contains(after.headers, "accept-ranges")
                              /\ after.status \notin R!BodilessStatus
                              /\ rs_request[c].method # "HEAD"
                   /\ ~gzip => after.headers["content-encoding"] =
                                 before.headers["content-encoding"]
    <3> DEFINE before == result[c].rsp
               after == R!FinishResponse(before, rs_request[c], c)
    <3>1. R!IsReturned(returned[c]) /\ result[c] = R!HandlerResult(returned[c])
          /\ rs_response[c] = after
      BY <2>2, RequestAssumption DEF ResponsesInv, ResultOf, AnswerOf
    <3>2. R!IsResponse(before)
      BY <2>2, <3>1, ResultFacts DEF ErrorResultOK
    <3>3. before.body.coding = <<>>
      BY <3>2 DEF R!IsResponse
    <3>4. \/ /\ after.body = before.body
             /\ after.headers["content-encoding"] = before.headers["content-encoding"]
          \/ /\ after.body.coding = <<"gzip">>
             /\ after.headers["content-encoding"] = <<"gzip">>
             /\ before.headers["content-encoding"] = <<>>
             /\ after.headers["content-length"] = <<>>
             /\ after.headers["accept-ranges"] = <<>>
             /\ after.status \notin R!BodilessStatus /\ rs_request[c].method # "HEAD"
      BY <3>2, FinishFacts
    <3> HIDE DEF before, after
    <3>5. <<>> # <<"gzip">>
      OBVIOUS
    <3> QED
      BY <3>1, <3>3, <3>4, <3>5 DEF R!Contains, before
  <2> QED
    BY <2>1, <2>2 DEF R!EncodingHonest
<1> QED
  BY <1>1, ResponsesInvariant, PTL

\* Whatever a handler returns: the status tells success from failure, a
\* failure of the server keeps its message to itself, the error's headers
\* arrive, and the answer carries its request's id (handler.rs:366-378,
\* error.rs:225-243, 383-423, server.rs:1022-1026).
THEOREM AnswersAreTruthful == RequestSpec => []AnswersTruthful
<1>1. ASSUME ResponsesInv PROVE R!TypeOK
  BY <1>1 DEF ResponsesInv, AnswerOK, R!TypeOK, R!Received
<1>2. ASSUME ResponsesInv, NEW c \in Clients, R!Answered(c)
      PROVE  LET ids == rs_response[c].headers["x-request-id"]
             IN  /\ IF returned[c].ok /\ returned[c].value.ok
                      THEN rs_response[c].status = returned[c].value.rsp.status
                      ELSE rs_response[c].status \in 400 .. 599
                 /\ ~result[c].ok /\ R!is_server_error(rs_response[c].status)
                      => \/ rs_response[c].body.message = "reason"
                         \/ ~returned[c].ok /\ R!OwnError(returned[c].error)
                 /\ ~result[c].ok /\ result[c].dropshot =>
                      \A n \in R!HeaderNames :
                        R!Values(result[c].error.headers, n) \subseteq
                          R!Values(rs_response[c].headers, n)
                 /\ ids # <<>> /\ ids[Len(ids)] = c
                 /\ \/ Len(ids) = 1
                    \/ ~result[c].ok /\ result[c].dropshot
                         /\ R!Contains(result[c].error.headers, "x-request-id")
  <2> DEFINE v == returned[c]
             r == result[c]
             rsp == rs_response[c]
  <2>1. R!IsReturned(v) /\ r = R!HandlerResult(v) /\ rsp = AnswerOf(c)
    BY <1>2, RequestAssumption DEF ResponsesInv, ResultOf
  <2>2. <<c>> # <<>> /\ Len(<<c>>) = 1 /\ <<c>>[1] = c
    OBVIOUS
  <2>3. CASE Succeeded(v)
    <3>1. r = v.value /\ r.ok /\ R!IsResponse(r.rsp)
      BY <2>1, <2>3, ResultFacts DEF Succeeded
    <3>2. rsp = R!FinishResponse(r.rsp, rs_request[c], c)
      BY <2>1, <3>1 DEF AnswerOf
    <3>3. rsp.status = r.rsp.status /\ rsp.headers["x-request-id"] = <<c>>
      BY <3>1, <3>2, FinishFacts
    <3> QED
      BY <2>2, <2>3, <3>1, <3>3 DEF Succeeded
  <2>4. CASE ~Succeeded(v) /\ r.dropshot = TRUE /\ R!IsHttpError(r.error)
    <3>1. r.ok = FALSE
      BY <2>1, <2>4, ResultFacts DEF ErrorResultOK
    <3> DEFINE e == r.error
               after == R!HttpErrorIntoResponse(e, c)
               ids == after.headers["x-request-id"]
    <3>2. rsp = after /\ R!IsHttpError(e)
      BY <2>1, <2>4, <3>1 DEF AnswerOf, R!IntoResponse
    <3> HIDE DEF e
    <3>3. /\ after.status = e.status_code /\ after.body.message = e.external_message
          /\ \A n \in R!HeaderNames : R!Values(e.headers, n) \subseteq R!Values(after.headers, n)
          /\ ids # <<>> /\ ids[Len(ids)] = c
          /\ Len(ids) = 1 \/ R!Contains(e.headers, "x-request-id")
      BY <3>2, ErrorResponseFacts
    <3>4. /\ e.status_code \in 400 .. 599
          /\ R!is_server_error(e.status_code) => e.external_message = "reason"
      BY <3>2, HttpErrorFacts
    <3> HIDE DEF after
    <3> QED
      BY <2>4, <3>1, <3>2, <3>3, <3>4 DEF Succeeded, e
  <2>5. ASSUME ~Succeeded(v), r.dropshot = FALSE, NEW e, OwnResponseOK(r.rsp, e)
        PROVE  /\ r.ok = FALSE /\ rsp.status = e.status /\ rsp.body.message = e.message
               /\ rsp.headers["x-request-id"] = <<c>>
    <3>1. r.ok = FALSE
      BY <2>1, <2>5, ResultFacts DEF ErrorResultOK
    <3>2. rsp = [r.rsp EXCEPT !.headers = [@ EXCEPT !["x-request-id"] = <<c>>]]
      BY <2>1, <2>5, <3>1 DEF AnswerOf, R!IntoResponse, R!Insert
    <3>3. "x-request-id" \in R!HeaderNames
      BY DEF R!HeaderNames
    <3> QED
      BY <2>5, <3>1, <3>2, <3>3 DEF OwnResponseOK
  <2>6. CASE ~Succeeded(v) /\ ~(r.dropshot = TRUE /\ R!IsHttpError(r.error))
    <3>1. PICK e : r.dropshot = FALSE /\ OwnResponseOK(r.rsp, e) /\ OwnErrorOK(v, e)
      BY <2>1, <2>6, ResultFacts DEF ErrorResultOK
    <3>2. /\ r.ok = FALSE /\ rsp.status = e.status /\ rsp.body.message = e.message
          /\ rsp.headers["x-request-id"] = <<c>>
      BY <2>5, <2>6, <3>1
    <3> QED
      BY <2>2, <2>6, <3>1, <3>2 DEF Succeeded, OwnErrorOK
  <2> QED
    BY <2>3, <2>4, <2>6
<1>3. ResponsesInv => AnswersTruthful
  <2> SUFFICES ASSUME ResponsesInv PROVE R!AnswersTruthful
    BY DEF AnswersTruthful
  <2>1. R!TypeOK
    BY <1>1
  <2> QED
    BY <1>2, <2>1 DEF R!AnswersTruthful, R!StatusTruthful,
                      R!InternalStaysInside, R!ErrorHeadersArrive, R!RequestIdReported
<1> QED
  BY <1>3, ResponsesInvariant, PTL

=============================================================================
