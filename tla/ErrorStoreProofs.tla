-------------------------- MODULE ErrorStoreProofs --------------------------
(***************************************************************************)
(* For any number of sinks and errors: a sink of the macros' error store   *)
(* has_errors() exactly when it or a descendant was pushed to.             *)
(***************************************************************************)
EXTENDS ErrorStore, SequenceTheorems, TLAPS

\* The ancestors of a sink are itself and those of its parent.
AboveOK ==
  /\ above \in Seq(SUBSET Nat)
  /\ \A i \in Sinks :
       above[i] = IF sinks[i].parent = 0 THEN {i}
                  ELSE above[sinks[i].parent] \union {i}

\* While push() climbs, the sinks it has not reached yet are the ancestors of
\* curr above curr itself, and only they may lag behind.
Pending == IF curr = 0 THEN {} ELSE above[curr] \ {curr}

Attributed(i) == \E k \in DOMAIN origin : i \in above[origin[k]]

LoopOK ==
  /\ \A i \in Sinks : sinks[i].has_errors => Attributed(i)
  /\ \A i \in Sinks : Attributed(i) => sinks[i].has_errors \/ i \in Pending
  /\ curr # 0 => \A i \in above[curr] : Attributed(i)

Inv == TypeOK /\ AboveOK /\ LoopOK

\* What a sink is, and where its parent can be.
SinkType == [parent: Nat, has_errors: BOOLEAN]

LEMMA SinkFacts ==
  ASSUME Inv
  PROVE  /\ Len(sinks) \in Nat
         /\ DOMAIN sinks = 1..Len(sinks) /\ DOMAIN above = 1..Len(sinks)
         /\ sinks \in Seq(SinkType)
         /\ \A i \in 1..Len(sinks) :
              /\ sinks[i] \in SinkType
              /\ sinks[i].parent \in Nat /\ sinks[i].parent < i
              /\ sinks[i].parent = 0 \/ sinks[i].parent \in 1..Len(sinks)
              /\ above[i] = IF sinks[i].parent = 0 THEN {i}
                            ELSE above[sinks[i].parent] \union {i}
              /\ above[i] \subseteq 1..i
<1>1. sinks \in Seq(SinkType) /\ above \in Seq(SUBSET Nat)
  BY DEF Inv, TypeOK, AboveOK, SinkType
<1>2. /\ Len(sinks) \in Nat
      /\ DOMAIN sinks = 1..Len(sinks) /\ DOMAIN above = 1..Len(sinks)
  BY <1>1 DEF Inv, TypeOK
<1>3. \A i \in 1..Len(sinks) : sinks[i] \in SinkType
  BY <1>1, ElementOfSeq
<1>4. \A i \in 1..Len(sinks) : sinks[i].parent \in Nat
  BY <1>3 DEF SinkType
<1>5. \A i \in 1..Len(sinks) : sinks[i].parent < i /\ above[i] \subseteq 1..i
  BY <1>2 DEF Inv, TypeOK, Sinks
<1>6. \A i \in 1..Len(sinks) :
        sinks[i].parent = 0 \/ sinks[i].parent \in 1..Len(sinks)
  BY <1>2, <1>4, <1>5
<1>7. \A i \in 1..Len(sinks) :
        above[i] = IF sinks[i].parent = 0 THEN {i}
                   ELSE above[sinks[i].parent] \union {i}
  BY <1>2 DEF Inv, AboveOK, Sinks
<1> QED
  BY <1>1, <1>2, <1>3, <1>4, <1>5, <1>6, <1>7

\* Marking a sink changes neither the shape of the tree nor the other sinks.
LEMMA MarkSink ==
  ASSUME Inv, NEW id \in 1..Len(sinks),
         sinks' = [sinks EXCEPT ![id].has_errors = TRUE]
  PROVE  /\ Len(sinks') = Len(sinks) /\ DOMAIN sinks' = 1..Len(sinks)
         /\ sinks' \in Seq(SinkType)
         /\ \A i \in 1..Len(sinks) : sinks'[i].parent = sinks[i].parent
         /\ \A i \in 1..Len(sinks) \ {id} : sinks'[i] = sinks[i]
         /\ sinks'[id].has_errors = TRUE
<1>1. sinks[id] \in SinkType /\ DOMAIN sinks = 1..Len(sinks) /\ sinks \in Seq(SinkType)
  BY SinkFacts
<1> DEFINE v == [sinks[id] EXCEPT !.has_errors = TRUE]
<1>2. v \in SinkType /\ v.parent = sinks[id].parent /\ v.has_errors = TRUE
  BY <1>1 DEF SinkType
<1>3. sinks' = [sinks EXCEPT ![id] = v]
  OBVIOUS
<1> HIDE DEF v
<1>4. sinks' \in Seq(SinkType) /\ Len(sinks') = Len(sinks)
      /\ \A i \in 1..Len(sinks) : sinks'[i] = IF i = id THEN v ELSE sinks[i]
  <2> DEFINE t == [sinks EXCEPT ![id] = v]
  <2>1. t \in Seq(SinkType) /\ Len(t) = Len(sinks)
        /\ \A i \in 1..Len(sinks) : t[i] = IF i = id THEN v ELSE sinks[i]
    <3> HIDE DEF t
    <3>1. v \in SinkType
      BY <1>2
    <3>2. sinks \in Seq(SinkType)
      BY <1>1
    <3> QED
      BY <3>1, <3>2, ExceptSeq DEF t
  <2> HIDE DEF t
  <2>2. sinks' = t
    BY <1>3 DEF t
  <2> QED
    BY <2>1, <2>2
<1>5. DOMAIN sinks' = 1..Len(sinks)
  BY <1>4
<1> QED
  BY <1>2, <1>4, <1>5

\* Creating a sink attributes nothing to it and changes nothing for the others.
LEMMA RegisterPreserves ==
  ASSUME Inv, NEW p \in 0..Len(sinks), curr = 0, register_sink(p),
         above' = Append(above, IF p = 0 THEN {Len(sinks) + 1}
                                ELSE above[p] \union {Len(sinks) + 1})
  PROVE  Inv'
<1> DEFINE n == Len(sinks)
<1>1. /\ n \in Nat /\ DOMAIN sinks = 1..n /\ DOMAIN above = 1..n
      /\ Len(sinks') = n + 1 /\ Len(above') = n + 1
      /\ DOMAIN sinks' = 1..(n + 1)
  BY DEF Inv, TypeOK, AboveOK, Sinks, register_sink
<1>2. /\ \A i \in 1..n : sinks'[i] = sinks[i] /\ above'[i] = above[i]
      /\ sinks'[n + 1] = [parent |-> p, has_errors |-> FALSE]
      /\ above'[n + 1] = IF p = 0 THEN {n + 1} ELSE above[p] \union {n + 1}
  BY <1>1 DEF Inv, TypeOK, AboveOK, Sinks, register_sink
<1>3. \A i \in 1..n : above[i] \subseteq 1..i
  BY <1>1 DEF Inv, TypeOK, Sinks
<1>4. TypeOK'
  <2>1. sinks' \in Seq([parent: Nat, has_errors: BOOLEAN])
    BY <1>1 DEF Inv, TypeOK, register_sink
  <2>2. \A i \in 1..(n + 1) : sinks'[i].parent < i
    <3> SUFFICES ASSUME NEW i \in 1..(n + 1) PROVE sinks'[i].parent < i
      OBVIOUS
    <3>1. CASE i \in 1..n
      BY <3>1, <1>1, <1>2 DEF Inv, TypeOK, Sinks
    <3>2. CASE i = n + 1
      BY <3>2, <1>1, <1>2
    <3> QED
      BY <3>1, <3>2, <1>1
  <2>3. \A i \in 1..(n + 1) : above'[i] \subseteq 1..i
    <3> SUFFICES ASSUME NEW i \in 1..(n + 1) PROVE above'[i] \subseteq 1..i
      OBVIOUS
    <3>1. CASE i \in 1..n
      BY <3>1, <1>2, <1>3
    <3>2. CASE i = n + 1 /\ p = 0
      BY <3>2, <1>1, <1>2
    <3>3. CASE i = n + 1 /\ p # 0
      <4>1. p \in 1..n /\ above[p] \subseteq 1..p
        BY <3>3, <1>1, <1>3
      <4> QED
        BY <3>3, <4>1, <1>1, <1>2
    <3> QED
      BY <3>1, <3>2, <3>3, <1>1
  <2>4. origin' \in Seq(1..(n + 1))
    BY <1>1 DEF Inv, TypeOK, Sinks, register_sink
  <2> QED
    BY <1>1, <2>1, <2>2, <2>3, <2>4 DEF Inv, TypeOK, Sinks, register_sink
<1>5. AboveOK'
  <2>1. above' \in Seq(SUBSET Nat)
    <3>1. (IF p = 0 THEN {n + 1} ELSE above[p] \union {n + 1}) \in SUBSET Nat
      <4>1. CASE p = 0
        BY <4>1, <1>1
      <4>2. CASE p # 0
        BY <4>2, <1>1, <1>3
      <4> QED
        BY <4>1, <4>2
    <3> QED
      BY <3>1 DEF Inv, AboveOK
  <2>2. \A i \in 1..n : sinks'[i].parent = 0 \/ sinks'[i].parent \in 1..n
    BY <1>2, SinkFacts
  <2>3. \A i \in 1..n :
          above'[i] = IF sinks'[i].parent = 0 THEN {i}
                      ELSE above'[sinks'[i].parent] \union {i}
    <3> SUFFICES ASSUME NEW i \in 1..n
                 PROVE  above'[i] = IF sinks'[i].parent = 0 THEN {i}
                                    ELSE above'[sinks'[i].parent] \union {i}
      OBVIOUS
    <3>1. /\ above'[i] = above[i] /\ sinks'[i].parent = sinks[i].parent
          /\ above[i] = IF sinks[i].parent = 0 THEN {i}
                        ELSE above[sinks[i].parent] \union {i}
      BY <1>2, SinkFacts
    <3>2. sinks[i].parent \in 1..n => above'[sinks[i].parent] = above[sinks[i].parent]
      BY <1>2
    <3> QED
      BY <2>2, <3>1, <3>2, Zenon
  <2>4. p # 0 => above'[p] = above[p]
    BY <1>1, <1>2
  <2>5. above'[n + 1] = IF sinks'[n + 1].parent = 0 THEN {n + 1}
                        ELSE above'[sinks'[n + 1].parent] \union {n + 1}
    <3>1. sinks'[n + 1].parent = p
      BY <1>2
    <3> QED
      BY <3>1, <2>4, <1>2
  <2>6. \A i \in 1..(n + 1) : i \in 1..n \/ i = n + 1
    BY <1>1
  <2> QED
    BY <1>1, <2>1, <2>3, <2>5, <2>6 DEF AboveOK, Sinks
<1>6. LoopOK'
  <2>1. /\ origin' = origin /\ curr' = 0
        /\ \A k \in DOMAIN origin : origin[k] \in 1..n
    BY <1>1 DEF Inv, TypeOK, Sinks, register_sink
  <2>2. \A i : Attributed(i)' <=> Attributed(i)
    BY <2>1, <1>2 DEF Attributed
  <2>3. ~Attributed(n + 1)
    BY <2>1, <1>1, <1>3 DEF Attributed
  <2>4. \A i \in 1..n : sinks[i].has_errors <=> Attributed(i)
    BY <1>1 DEF Inv, LoopOK, Pending, Sinks
  <2>5. \A i \in 1..(n + 1) : sinks'[i].has_errors <=> Attributed(i)
    BY <2>3, <2>4, <1>1, <1>2
  <2> QED
    BY <1>1, <2>1, <2>2, <2>5 DEF LoopOK, Pending, Sinks
<1> QED
  BY <1>4, <1>5, <1>6 DEF Inv

LEMMA InitInv == Init => Inv
<1> SUFFICES ASSUME Init PROVE Inv
  OBVIOUS
<1>1. sinks = <<>> /\ above = <<>> /\ origin = <<>> /\ errors = <<>>
      /\ curr = 0 /\ taken = FALSE
  BY DEF Init
<1>2. DOMAIN sinks = {} /\ DOMAIN origin = {} /\ Len(sinks) = 0 /\ Len(above) = 0
  BY <1>1
<1>3. TypeOK
  <2>1. /\ errors \in Seq(Errors) /\ origin \in Seq(Sinks)
        /\ sinks \in Seq([parent: Nat, has_errors: BOOLEAN])
    BY <1>1, EmptySeq, Zenon
  <2>2. curr \in 0..Len(sinks)
    BY <1>1, <1>2
  <2>3. taken \in BOOLEAN
    BY <1>1, Zenon
  <2> QED
    BY <1>2, <2>1, <2>2, <2>3 DEF TypeOK, Sinks
<1>4. AboveOK
  BY <1>1, <1>2 DEF AboveOK, Sinks
<1>5. LoopOK
  BY <1>1, <1>2 DEF LoopOK, Pending, Attributed, Sinks
<1> QED
  BY <1>3, <1>4, <1>5 DEF Inv

\* The step that starts the climb and every turn of it.
LEMMA PushPreserves ==
  ASSUME Inv, NEW id \in Sinks, NEW e \in Errors, push(id, e)
  PROVE  Inv'
<1> DEFINE n == Len(sinks)
<1>1. /\ n \in Nat /\ DOMAIN sinks = 1..n /\ id \in 1..n
      /\ sinks' = [sinks EXCEPT ![id].has_errors = TRUE]
      /\ curr = 0 /\ curr' = id /\ above' = above
  BY SinkFacts DEF Sinks, push
<1>2. /\ Len(sinks') = n /\ DOMAIN sinks' = 1..n
      /\ sinks' \in Seq(SinkType)
      /\ \A i \in 1..n : sinks'[i].parent = sinks[i].parent
      /\ \A i \in 1..n \ {id} : sinks'[i] = sinks[i]
      /\ sinks'[id].has_errors = TRUE
  BY <1>1, MarkSink
<1>3. TypeOK'
  <2>1. sinks' \in Seq([parent: Nat, has_errors: BOOLEAN])
    BY <1>2 DEF SinkType
  <2>2. errors' \in Seq(Errors) /\ origin' \in Seq(1..n) /\ taken' \in BOOLEAN
    BY <1>1 DEF Inv, TypeOK, Sinks, push
  <2> QED
    BY <1>1, <1>2, <2>1, <2>2 DEF Inv, TypeOK, Sinks
<1>4. AboveOK'
  <2>1. \A i \in 1..n : above[i] = IF sinks'[i].parent = 0 THEN {i}
                                  ELSE above[sinks'[i].parent] \union {i}
    BY <1>2, SinkFacts
  <2> QED
    BY <1>1, <1>2, <2>1 DEF Inv, AboveOK, Sinks
<1>5. LoopOK'
  <2>1. id \in above[id]
    BY <1>1 DEF Inv, AboveOK, Sinks
  <2>2. \A i : Attributed(i)' <=> Attributed(i) \/ i \in above[id]
    <3>1. origin \in Seq(1..n) /\ origin' = Append(origin, id)
      BY <1>1 DEF Inv, TypeOK, Sinks, push
    <3>2. /\ Len(origin) \in Nat
          /\ DOMAIN origin = 1..Len(origin)
          /\ DOMAIN origin' = 1..(Len(origin) + 1)
          /\ \A k \in 1..Len(origin) : origin'[k] = origin[k]
          /\ origin'[Len(origin) + 1] = id
      BY <3>1
    <3> QED
      BY <3>2, <1>1 DEF Attributed
  <2>3. \A i \in 1..n : sinks[i].has_errors <=> Attributed(i)
    BY <1>1 DEF Inv, LoopOK, Pending, Sinks
  <2> QED
    BY <1>1, <1>2, <2>1, <2>2, <2>3 DEF LoopOK, Pending, Sinks
<1> QED
  BY <1>3, <1>4, <1>5 DEF Inv

LEMMA PropagatePreserves ==
  ASSUME Inv, Propagate
  PROVE  Inv'
<1> DEFINE n == Len(sinks)
           parent == sinks[curr].parent
<1>1. /\ n \in Nat /\ DOMAIN sinks = 1..n /\ curr \in 1..n
      /\ above' = above /\ origin' = origin /\ errors' = errors /\ taken' = taken
      /\ parent \in Nat /\ parent < curr
  <2>1. /\ n \in Nat /\ DOMAIN sinks = 1..n /\ curr \in 1..n
        /\ above' = above /\ origin' = origin /\ errors' = errors /\ taken' = taken
    BY SinkFacts DEF Inv, TypeOK, Propagate
  <2> QED
    BY <2>1, SinkFacts
<1>2. above[curr] = IF parent = 0 THEN {curr} ELSE above[parent] \union {curr}
  BY <1>1 DEF Inv, AboveOK, Sinks
<1>3. \A i : Attributed(i)' <=> Attributed(i)
  BY <1>1 DEF Attributed
<1>4. CASE parent = 0
  <2>1. sinks' = sinks /\ curr' = 0
    BY <1>4 DEF Propagate
  <2>2. Pending = {}
    BY <1>1, <1>2, <1>4 DEF Pending
  <2>3. TypeOK'
    BY <2>1, <1>1 DEF Inv, TypeOK, Sinks
  <2>5. AboveOK'
    BY <2>1, <1>1 DEF Inv, AboveOK, Sinks
  <2>4. LoopOK'
    BY <2>1, <2>2, <1>3 DEF Inv, LoopOK, Pending, Sinks
  <2> QED
    BY <2>3, <2>4, <2>5 DEF Inv
<1>5. CASE parent # 0
  <2>1. /\ sinks' = [sinks EXCEPT ![parent].has_errors = TRUE]
        /\ curr' = parent /\ parent \in 1..n
    BY <1>5, <1>1 DEF Propagate
  <2>2. /\ Len(sinks') = n /\ DOMAIN sinks' = 1..n
        /\ sinks' \in Seq(SinkType)
        /\ \A i \in 1..n : sinks'[i].parent = sinks[i].parent
        /\ \A i \in 1..n \ {parent} : sinks'[i] = sinks[i]
        /\ sinks'[parent].has_errors = TRUE
    <3> HIDE DEF parent
    <3> QED
      BY <2>1, MarkSink
  <2>3. TypeOK'
    BY <2>1, <2>2, <1>1 DEF Inv, TypeOK, Sinks, SinkType
  <2>4. AboveOK'
    <3>1. \A i \in 1..n : above[i] = IF sinks'[i].parent = 0 THEN {i}
                                    ELSE above[sinks'[i].parent] \union {i}
      BY <2>2, SinkFacts
    <3> QED
      BY <1>1, <2>2, <3>1 DEF Inv, AboveOK, Sinks
  <2>5. curr \notin above[parent]
    <3>1. above[parent] \subseteq 1..parent
      BY <2>1, SinkFacts
    <3> QED
      BY <3>1, <1>1
  <2>6. Pending = above[parent] /\ Pending' = above[parent] \ {parent}
    <3>1. above[curr] = above[parent] \union {curr} /\ curr # 0
      BY <1>1, <1>2, <1>5
    <3>2. Pending = above[parent]
      BY <3>1, <2>5 DEF Pending
    <3>3. curr' # 0 /\ above'[curr'] = above[parent]
      BY <2>1, <1>1, <1>5
    <3>4. Pending' = above[parent] \ {parent}
      BY <3>3, <2>1 DEF Pending
    <3> QED
      BY <3>2, <3>4
  <2>7. \A i \in above[parent] : Attributed(i)
    BY <1>1, <1>2, <1>5 DEF Inv, LoopOK
  <2>8. parent \in above[parent]
    BY <2>1, <1>1 DEF Inv, AboveOK, Sinks
  <2>9. LoopOK'
    <3>1. \A i \in 1..n : sinks'[i].has_errors => Attributed(i)
      BY <2>2, <2>7, <2>8, <1>1 DEF Inv, LoopOK, Sinks
    <3>2. \A i \in 1..n : Attributed(i) => sinks'[i].has_errors \/ i \in Pending'
      BY <2>2, <2>6, <1>1 DEF Inv, LoopOK, Sinks
    <3> QED
      BY <3>1, <3>2, <2>1, <2>2, <2>7, <1>1, <1>3 DEF LoopOK, Sinks
  <2> QED
    BY <2>3, <2>4, <2>9 DEF Inv
<1> QED
  BY <1>4, <1>5

LEMMA StepInv == Inv /\ [Next]_vars => Inv'
<1> SUFFICES ASSUME Inv, [Next]_vars PROVE Inv'
  OBVIOUS
<1>1. CASE sink
  <2>1. 0 \in 0..Len(sinks)
    BY DEF Inv, TypeOK
  <2> QED
    BY <1>1, <2>1, RegisterPreserves DEF sink
<1>2. ASSUME NEW id \in Sinks, new(id) PROVE Inv'
  <2>1. id \in 0..Len(sinks) /\ id # 0
    BY DEF Inv, TypeOK, Sinks
  <2> QED
    BY <1>2, <2>1, RegisterPreserves DEF new
<1>3. ASSUME NEW id \in Sinks, NEW e \in Errors, push(id, e) PROVE Inv'
  BY <1>3, PushPreserves
<1>4. CASE Propagate
  BY <1>4, PropagatePreserves
<1>5. CASE into_inner
  BY <1>5 DEF into_inner, Inv, TypeOK, AboveOK, LoopOK, Pending, Attributed, Sinks
<1>6. CASE UNCHANGED vars
  BY <1>6 DEF vars, Inv, TypeOK, AboveOK, LoopOK, Pending, Attributed, Sinks
<1> QED
  BY <1>1, <1>2, <1>3, <1>4, <1>5, <1>6 DEF Next

LEMMA Invariance == Spec => []Inv
BY InitInv, StepInv, PTL DEF Spec

\* The store stays well formed, a parent before its child, and has_errors()
\* of error_store.rs:107-112 is exact in every tree of sinks: a sink has
\* errors if and only if one was pushed to it or to a descendant.
THEOREM SinksAreExact == Spec => []SinksExact
<1>1. Inv => SinksExact
  BY DEF Inv, LoopOK, Pending, SinksExact, HasErrorsExact, Attributed
<1> QED
  BY Invariance, <1>1, PTL
=============================================================================
