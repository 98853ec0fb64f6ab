--------------------------- MODULE OpenApiProofs ----------------------------
(***************************************************************************)
(* Proofs about module OpenApi, for any endpoints, in any number, whatever *)
(* their types are called and refer to: the finished document is whole.    *)
(*                                                                         *)
(* The argument: the common generator gives every type a name of its own   *)
(* and only grows, so that a reference made early stays right; generator   *)
(* and definitions are each closed under references after every schema;    *)
(* and in components.schemas the generator's schemas come before all       *)
(* others of the same name.                                                *)
(***************************************************************************)
EXTENDS OpenApi, FiniteSetTheorems, SequenceTheorems, TLAPS

-----------------------------------------------------------------------------
(* Numbers.                                                                *)

\* A set of numbers has a least one.
LEMMA LeastNumber ==
  ASSUME NEW S, S \subseteq Nat, S # {}
  PROVE  \E n \in S : \A m \in S : n <= m
<1> DEFINE R == OpToRel(<, Nat)
<1>1. IsWellFoundedOn(R, Nat)
  BY NatLessThanWellFounded
<1>2. PICK n \in S : \A m \in S : ~(<<m, n>> \in R)
  <2> HIDE DEF R
  <2> QED
    BY <1>1, WFMin
<1>3. \A m \in S : ~(m < n)
  BY <1>2 DEF OpToRel
<1> QED
  BY <1>3

\* Induction up to n, for the numbers in a set.
LEMMA UpTo ==
  ASSUME NEW n \in Nat, NEW S, 0 \in S,
         \A i \in 1 .. n : i - 1 \in S => i \in S
  PROVE  \A i \in 0 .. n : i \in S
<1> DEFINE T == {i \in 0 .. n : i \notin S}
<1> SUFFICES ASSUME T # {} PROVE FALSE
  OBVIOUS
<1>1. PICK k \in T : \A m \in T : k <= m
  <2>1. T \subseteq Nat
    OBVIOUS
  <2> HIDE DEF T
  <2> QED
    BY <2>1, LeastNumber
<1>2. k \in 1 .. n /\ k - 1 \in 0 .. n /\ k \notin S
  OBVIOUS
<1>3. k - 1 \notin T
  BY <1>1, <1>2
<1> QED
  BY <1>2, <1>3

-----------------------------------------------------------------------------
(* The generator.                                                          *)

HasType(g, t) == \E d \in g : d.type = t

\* Types and names are one to one.
GenOK(g) ==
  /\ \A d \in g : d.type \in Types
  /\ \A d, e \in g : (d.name = e.name) <=> (d.type = e.type)

\* What a type of the generator refers to, the generator has met.
Closed(g) == \A d \in g : \A t \in Range(d.type.deps) : HasType(g, t)

\* There are no more names than types.
LEMMA UsedNames ==
  ASSUME NEW g, GenOK(g)
  PROVE  LET used == {d.name : d \in g}
         IN  /\ IsFiniteSet(used) /\ Cardinality(used) \in Nat
             /\ Cardinality(Types) \in Nat /\ Cardinality(used) <= Cardinality(Types)
<1> DEFINE used == {d.name : d \in g}
           by(n) == CHOOSE d \in g : d.name = n
           f == [n \in used |-> by(n).type]
<1>1. \A n \in used : by(n) \in g /\ by(n).name = n
  OBVIOUS
<1>2. f \in [used -> Types]
  BY <1>1 DEF GenOK
<1>3. \A m, n \in used : f[m] = f[n] => m = n
  <2> SUFFICES ASSUME NEW m \in used, NEW n \in used, f[m] = f[n] PROVE m = n
    OBVIOUS
  <2>1. by(m).type = by(n).type
    OBVIOUS
  <2> HIDE DEF by
  <2> QED
    BY <1>1, <2>1 DEF GenOK
<1>4. f \in Injection(used, Types)
  <2> HIDE DEF f, used
  <2> QED
    BY <1>2, <1>3 DEF Injection, IsInjective
<1>5. IsFiniteSet(Types)
  BY DocumentAssumption
<1> HIDE DEF f, used
<1>6. IsFiniteSet(used) /\ Cardinality(used) <= Cardinality(Types)
  BY <1>4, <1>5, FS_Injection
<1> QED
  BY <1>5, <1>6, FS_CardinalityType DEF used

\* There is always a number that makes a name free.
LEMMA NumberFree ==
  ASSUME NEW g, GenOK(g), NEW t \in Types
  PROVE  LET used == {d.name : d \in g}
             free == {n \in 2..(Cardinality(used) + 2) : Numbered(t.name, n) \notin used}
         IN  \E n \in free : \A k \in free : n <= k
<1> DEFINE used == {d.name : d \in g}
           c == Cardinality(used)
           free == {n \in 2..(c + 2) : Numbered(t.name, n) \notin used}
           f == [n \in 2..(c + 2) |-> Numbered(t.name, n)]
<1>1. IsFiniteSet(used) /\ c \in Nat /\ Cardinality(Types) \in Nat /\ c <= Cardinality(Types)
  BY UsedNames
<1>2. free # {}
  <2> SUFFICES ASSUME free = {} PROVE FALSE
    OBVIOUS
  <2>1. \A n \in 2..(c + 2) : Numbered(t.name, n) \in used
    OBVIOUS
  <2>2. f \in [2..(c + 2) -> used]
    BY <2>1
  <2> HIDE DEF used, c
  <2>3. \A m, n \in 2..(c + 2) : f[m] = f[n] => m = n
    <3>1. \A m, n \in 2..(c + 2) : m \in 2..(Cardinality(Types) + 2)
      BY <1>1
    <3> QED
      BY <3>1, DocumentAssumption
  <2>4. IsFiniteSet(2..(c + 2)) /\ Cardinality(2..(c + 2)) = c + 1
    <3>1. 2 \in Int /\ c + 2 \in Int /\ ~(2 > c + 2) /\ (c + 2) - 2 + 1 = c + 1
      BY <1>1
    <3> QED
      BY <3>1, FS_Interval
  <2>5. Cardinality(used) < Cardinality(2..(c + 2))
    BY <1>1, <2>4 DEF c
  <2> HIDE DEF f
  <2>6. \E m, n \in 2..(c + 2) : m # n /\ f[m] = f[n]
    BY <1>1, <2>2, <2>4, <2>5, FS_PigeonHole
  <2> QED
    BY <2>3, <2>6
<1>3. free \subseteq Nat
  BY <1>1
<1> HIDE DEF free
<1> QED
  BY <1>2, <1>3, LeastNumber DEF free, c, used

\* A type gets a name of its own, and the others keep theirs.
LEMMA ReserveFacts ==
  ASSUME NEW g, GenOK(g), NEW t \in Types
  PROVE  /\ GenOK(Reserve(g, t)) /\ g \subseteq Reserve(g, t)
         /\ HasType(Reserve(g, t), t)
         /\ \A d \in Reserve(g, t) : d \in g \/ d.type = t
<1>1. CASE HasType(g, t)
  BY <1>1 DEF Reserve, HasType
<1>2. CASE ~HasType(g, t)
  <2> DEFINE used == {d.name : d \in g}
             free == {n \in 2..(Cardinality(used) + 2) : Numbered(t.name, n) \notin used}
             num == CHOOSE n \in free : \A k \in free : n <= k
             new == IF t.name \notin used THEN t.name ELSE Numbered(t.name, num)
             d0 == [type |-> t, name |-> new]
  <2>1. num \in free
    <3>1. \E n \in free : \A k \in free : n <= k
      BY NumberFree
    <3> HIDE DEF free
    <3> QED
      BY <3>1
  <2>2. new \notin used
    BY <2>1
  <2>3. Reserve(g, t) = g \cup {d0}
    BY <1>2 DEF Reserve, HasType
  <2>4. \A d \in g : d.name # new /\ d.type # t
    BY <1>2, <2>2 DEF HasType
  <2>5. d0.name = new /\ d0.type = t
    OBVIOUS
  <2> HIDE DEF d0, new
  <2> QED
    BY <2>3, <2>4, <2>5 DEF GenOK, HasType
<1> QED
  BY <1>1, <1>2

\* One turn of the recursive function in subschema_for(), and the function.
Meet(met, g, t, k) == IF k = 0 THEN Reserve(g, t) ELSE Reserve(met[k - 1], t.deps[k])

IsMeeting(met, g, t, n) == met = [k \in 0 .. n |-> Meet(met, g, t, k)]

MetBy(g, t) == CHOOSE met : IsMeeting(met, g, t, Len(t.deps))

\* The function exists.
LEMMA MeetingExists ==
  ASSUME NEW g, NEW t, NEW n \in Nat
  PROVE  \E f : IsMeeting(f, g, t, n)
<1> DEFINE S == {k \in Nat : ~ \E f : IsMeeting(f, g, t, k)}
<1> SUFFICES ASSUME S # {} PROVE FALSE
  OBVIOUS
<1>1. PICK k \in S : \A m \in S : k <= m
  <2>1. S \subseteq Nat
    OBVIOUS
  <2> HIDE DEF S
  <2> QED
    BY <2>1, LeastNumber
<1>2. k \in Nat /\ ~ \E f : IsMeeting(f, g, t, k)
  OBVIOUS
<1>3. CASE k = 0
  <2> DEFINE f == [i \in 0 .. 0 |-> Reserve(g, t)]
  <2>1. \A i \in 0 .. 0 : Meet(f, g, t, i) = Reserve(g, t)
    BY DEF Meet
  <2>2. f = [i \in 0 .. 0 |-> Meet(f, g, t, i)]
    BY <2>1
  <2> HIDE DEF f
  <2>3. IsMeeting(f, g, t, 0)
    BY <2>2 DEF IsMeeting
  <2> QED
    BY <1>2, <1>3, <2>3
<1>4. CASE k > 0
  <2>1. k - 1 \in Nat /\ k - 1 \notin S
    BY <1>1, <1>2, <1>4
  <2>2. PICK f : IsMeeting(f, g, t, k - 1)
    BY <2>1
  <2> DEFINE h == [i \in 0 .. k |-> IF i = k THEN Meet(f, g, t, k) ELSE f[i]]
  <2>3. \A i \in 0 .. (k - 1) : h[i] = f[i]
    BY <2>1
  <2>4. \A i \in 0 .. k : Meet(h, g, t, i) = Meet(f, g, t, i)
    <3> SUFFICES ASSUME NEW i \in 0 .. k PROVE Meet(h, g, t, i) = Meet(f, g, t, i)
      OBVIOUS
    <3>1. i # 0 => h[i - 1] = f[i - 1]
      BY <2>1, <2>3
    <3> HIDE DEF h
    <3> QED
      BY <3>1, Zenon DEF Meet
  <2>5. \A i \in 0 .. (k - 1) : f[i] = Meet(f, g, t, i)
    <3> DEFINE j == [i \in 0 .. (k - 1) |-> Meet(f, g, t, i)]
    <3>1. f = j
      BY <2>2, Zenon DEF IsMeeting
    <3>2. \A i \in 0 .. (k - 1) : j[i] = Meet(f, g, t, i)
      OBVIOUS
    <3> QED
      BY <3>1, <3>2, Zenon
  <2>6. h = [i \in 0 .. k |-> Meet(h, g, t, i)]
    <3>1. \A i \in 0 .. k : h[i] = Meet(h, g, t, i)
      BY <2>1, <2>4, <2>5
    <3>2. DOMAIN h = 0 .. k /\ h = [i \in 0 .. k |-> h[i]]
      OBVIOUS
    <3> HIDE DEF h
    <3> QED
      BY <3>1, <3>2
  <2> HIDE DEF h
  <2>7. IsMeeting(h, g, t, k)
    BY <2>6, Zenon DEF IsMeeting
  <2> QED
    BY <1>2, <2>7
<1> QED
  BY <1>2, <1>3, <1>4

\* A generator meets one type after the other.
LEMMA MeetingUnfolds ==
  ASSUME NEW g, NEW t, Len(t.deps) \in Nat
  PROVE  /\ subschema_for(g, t) = MetBy(g, t)[Len(t.deps)]
         /\ \A i \in 0 .. Len(t.deps) : MetBy(g, t)[i] = Meet(MetBy(g, t), g, t, i)
<1>1. IsMeeting(MetBy(g, t), g, t, Len(t.deps))
  BY MeetingExists, Zenon DEF MetBy
<1>2. subschema_for(g, t) = MetBy(g, t)[Len(t.deps)]
  BY Zenon DEF subschema_for, MetBy, IsMeeting, Meet
<1> DEFINE w == MetBy(g, t)
           j == [i \in 0 .. Len(t.deps) |-> Meet(w, g, t, i)]
<1>3. w = j
  BY <1>1, Zenon DEF IsMeeting
<1>4. \A i \in 0 .. Len(t.deps) : j[i] = Meet(w, g, t, i)
  OBVIOUS
<1> QED
  BY <1>2, <1>3, <1>4, Zenon

\* A generator that has met a type has met all that it refers to, and still
\* gives each its own name.
LEMMA SubschemaFacts ==
  ASSUME NEW g, GenOK(g), Closed(g), NEW t \in Types
  PROVE  /\ GenOK(subschema_for(g, t)) /\ Closed(subschema_for(g, t))
         /\ g \subseteq subschema_for(g, t) /\ HasType(subschema_for(g, t), t)
<1> DEFINE met == MetBy(g, t)
           n == Len(t.deps)
           Met(k) == {t} \cup {t.deps[i] : i \in 1 .. k}
           OK(k) == /\ GenOK(met[k]) /\ g \subseteq met[k]
                    /\ \A u \in Met(k) : HasType(met[k], u)
                    /\ \A d \in met[k] : d \in g \/ d.type \in Met(k)
           S == {k \in 0 .. n : OK(k)}
<1>1. t.deps \in Seq(Types) /\ n \in Nat /\ DOMAIN t.deps = 1 .. n
      /\ \A u \in Range(t.deps) : Range(u.deps) \subseteq Range(t.deps)
  <2>1. t.deps \in Seq(Types) /\ \A u \in Range(t.deps) : Range(u.deps) \subseteq Range(t.deps)
    BY DocumentAssumption
  <2> QED
    BY <2>1
<1>2. \A k \in 0 .. n : met[k] = Meet(met, g, t, k)
  BY <1>1, MeetingUnfolds
<1>3. subschema_for(g, t) = met[n]
  BY <1>1, MeetingUnfolds
<1> HIDE DEF met
<1>4. 0 \in S
  <2>1. met[0] = Reserve(g, t)
    BY <1>1, <1>2 DEF Meet
  <2> QED
    BY <1>1, <2>1, ReserveFacts
<1>5. ASSUME NEW k \in 1 .. n, k - 1 \in S PROVE k \in S
  <2>1. met[k] = Reserve(met[k - 1], t.deps[k]) /\ t.deps[k] \in Types
    BY <1>1, <1>2 DEF Meet
  <2>2. OK(k - 1)
    BY <1>5
  <2>3. /\ GenOK(met[k]) /\ met[k - 1] \subseteq met[k] /\ HasType(met[k], t.deps[k])
        /\ \A d \in met[k] : d \in met[k - 1] \/ d.type = t.deps[k]
    BY <2>1, <2>2, ReserveFacts
  <2>4. Met(k) = Met(k - 1) \cup {t.deps[k]}
    <3>1. 1 .. k = (1 .. (k - 1)) \cup {k}
      BY <1>1
    <3> QED
      BY <3>1
  <2> HIDE DEF Met
  <2>5. OK(k)
    BY <2>2, <2>3, <2>4 DEF HasType
  <2> QED
    BY <2>5
<1> HIDE DEF OK
<1>6. n \in S
  <2>1. 0 \in S /\ \A k \in 1 .. n : k - 1 \in S => k \in S
    BY <1>4, <1>5
  <2>2. n \in Nat /\ n \in 0 .. n
    BY <1>1
  <2> HIDE DEF S, n
  <2>3. \A k \in 0 .. n : k \in S
    BY <2>1, <2>2, UpTo
  <2> QED
    BY <2>2, <2>3
<1>7. Met(n) = {t} \cup Range(t.deps)
  BY <1>1 DEF Range
<1>8. OK(n)
  BY <1>6
<1>9. \A u \in Met(n) : Range(u.deps) \subseteq Met(n)
  BY <1>1, <1>7
<1> HIDE DEF Met
<1>10. Closed(met[n])
  <2> SUFFICES ASSUME NEW d \in met[n], NEW u \in Range(d.type.deps) PROVE HasType(met[n], u)
    BY DEF Closed
  <2>1. CASE d \in g
    BY <1>8, <2>1 DEF OK, Closed, HasType
  <2>2. CASE d.type \in Met(n)
    BY <1>8, <1>9, <2>2 DEF OK
  <2> QED
    BY <1>8, <2>1, <2>2 DEF OK
<1> QED
  BY <1>3, <1>7, <1>8, <1>10 DEF OK

-----------------------------------------------------------------------------
(* References.                                                             *)

\* A reference to a schema of a generator, meant for the type it describes.
GenRef(g, r) == \E d \in g : r.name = d.name /\ r.type = d.type.id

\* A type that a generator has met is referred to by its own name.
LEMMA NameInFacts ==
  ASSUME NEW g, NEW t, HasType(g, t)
  PROVE  GenRef(g, Ref(NameIn(g, t), t))
<1> DEFINE d == CHOOSE e \in g : e.type = t
<1>1. d \in g /\ d.type = t
  BY DEF HasType
<1>2. NameIn(g, t) = d.name
  BY DEF NameIn
<1> HIDE DEF d
<1> QED
  BY <1>1, <1>2 DEF GenRef, Ref

\* So is the type of a source.
LEMMA RefersFacts ==
  ASSUME NEW g, NEW source, HasType(g, source.type)
  PROVE  GenRef(g, Refers(g, source))
<1>1. GenRef(g, Ref(NameIn(g, source.type), source.type))
  BY NameInFacts
<1>2. /\ Refers(g, source).name = Ref(NameIn(g, source.type), source.type).name
      /\ Refers(g, source).type = Ref(NameIn(g, source.type), source.type).type
  BY DEF Refers, Ref
<1> QED
  BY <1>1, <1>2 DEF GenRef

\* A generator that grows keeps its references.
LEMMA GenRefGrows ==
  ASSUME NEW g, NEW h, g \subseteq h, NEW r, GenRef(g, r)
  PROVE  GenRef(h, r)
BY DEF GenRef

\* A generator defines what a reference to it is meant for, and all that this
\* refers to in turn.
LEMMA DefinitionsFacts ==
  ASSUME NEW g, GenOK(g), Closed(g)
  PROVE  /\ DOMAIN Definitions(g) = {d.name : d \in g}
         /\ \A r : GenRef(g, r) => /\ r.name \in DOMAIN Definitions(g)
                                   /\ Definitions(g)[r.name].type = r.type
         /\ \A n \in DOMAIN Definitions(g) : \A r \in Definitions(g)[n].refs : GenRef(g, r)
<1> DEFINE names == {d.name : d \in g}
           by(n) == CHOOSE d \in g : d.name = n
           def(n) == [type |-> by(n).type.id,
                      refs |-> {Ref(NameIn(g, t), t) : t \in Range(by(n).type.deps)}]
<1>1. Definitions(g) = [n \in names |-> def(n)]
  BY DEF Definitions
<1>2. DOMAIN Definitions(g) = names /\ \A n \in names : Definitions(g)[n] = def(n)
  <2> HIDE DEF def, names
  <2> QED
    BY <1>1
<1>3. \A n \in names : by(n) \in g /\ by(n).name = n
  OBVIOUS
<1> HIDE DEF by
<1>4. ASSUME NEW r, GenRef(g, r)
      PROVE  r.name \in names /\ def(r.name).type = r.type
  <2>1. PICK d \in g : r.name = d.name /\ r.type = d.type.id
    BY <1>4 DEF GenRef
  <2>2. r.name \in names
    BY <2>1
  <2>3. by(r.name).type = d.type
    BY <1>3, <2>1, <2>2 DEF GenOK
  <2> QED
    BY <2>1, <2>2, <2>3
<1>5. ASSUME NEW n \in names, NEW r \in def(n).refs PROVE GenRef(g, r)
  <2>1. PICK t \in Range(by(n).type.deps) : r = Ref(NameIn(g, t), t)
    OBVIOUS
  <2>2. HasType(g, t)
    BY <1>3, <2>1 DEF Closed
  <2> QED
    BY <2>1, <2>2, NameInFacts
<1> HIDE DEF def, names
<1>6. \A r : GenRef(g, r) => r.name \in names /\ def(r.name).type = r.type
  BY <1>4
<1>7. \A n \in names : \A r \in def(n).refs : GenRef(g, r)
  BY <1>5
<1> QED
  BY <1>2, <1>6, <1>7 DEF names

\* Generator and definitions, and what both know.
StOK(s) ==
  /\ s = [generator |-> s.generator, definitions |-> s.definitions]
  /\ GenOK(s.generator) /\ Closed(s.generator)
  /\ \A n \in DOMAIN s.definitions :
       \A r \in s.definitions[n].refs : r.name \in DOMAIN s.definitions

Known(s, r) == GenRef(s.generator, r) \/ r.name \in DOMAIN s.definitions

Grows(s, u) ==
  s.generator \subseteq u.generator /\ DOMAIN s.definitions \subseteq DOMAIN u.definitions

\* References are never forgotten.
LEMMA KnownGrows ==
  ASSUME NEW s, NEW u, Grows(s, u), NEW r, Known(s, r)
  PROVE  Known(u, r)
BY GenRefGrows DEF Grows, Known

\* Definitions that are closed stay so when closed ones replace some of them.
LEMMA ExtendClosed ==
  ASSUME NEW f, \A n \in DOMAIN f : \A r \in f[n].refs : r.name \in DOMAIN f,
         NEW g, \A n \in DOMAIN g : \A r \in g[n].refs : r.name \in DOMAIN g
  PROVE  /\ DOMAIN Extend(f, g) = DOMAIN f \cup DOMAIN g
         /\ \A n \in DOMAIN Extend(f, g) :
              \A r \in Extend(f, g)[n].refs : r.name \in DOMAIN Extend(f, g)
<1> DEFINE D == DOMAIN f \cup DOMAIN g
           e == Extend(f, g)
<1>1. DOMAIN e = D /\ \A n \in D : e[n] = IF n \in DOMAIN g THEN g[n] ELSE f[n]
  BY DEF Extend
<1> HIDE DEF e
<1>2. ASSUME NEW n \in D, NEW r \in e[n].refs PROVE r.name \in D
  <2>1. CASE n \in DOMAIN g
    BY <1>1, <2>1
  <2>2. CASE n \notin DOMAIN g
    BY <1>1, <2>2
  <2> QED
    BY <2>1, <2>2
<1> QED
  BY <1>1, <1>2 DEF e

\* A sequence of references that are all known, and the generator's own unless
\* they are those of a pre-generated schema.
RefsOK(u) ==
  /\ u.refs \in Seq(Range(u.refs))
  /\ \A r \in Range(u.refs) : Known(u.st, r)
  /\ \A r \in Range(u.refs) : r.kind = "Gen" => GenRef(u.st.generator, r)

\* Range(<<r>>) is {r}.
LEMMA RangeOne ==
  ASSUME NEW r
  PROVE  <<r>> \in Seq(Range(<<r>>)) /\ Range(<<r>>) = {r}
<1>1. DOMAIN <<r>> = {1} /\ <<r>>[1] = r
  OBVIOUS
<1>2. Range(<<r>>) = {r}
  BY <1>1 DEF Range
<1> QED
  BY <1>2

\* Range(<<>>) is empty.
LEMMA RangeNone == Range(<<>>) = {} /\ <<>> \in Seq(Range(<<>>))
BY DEF Range

\* The effect of Use().
LEMMA UseFacts ==
  ASSUME NEW s, StOK(s), NEW source \in AllSources
  PROVE  LET u == Use(s, source)
         IN  StOK(u.st) /\ Grows(s, u.st) /\ RefsOK(u)
<1> DEFINE t == source.type
           g == subschema_for(s.generator, t)
           h == subschema_for({}, t)
           u == Use(s, source)
<1>1. t \in Types
  BY DEF Types
<1>2. GenOK(s.generator) /\ Closed(s.generator) /\ GenOK({}) /\ Closed({})
  BY DEF StOK, GenOK, Closed
<1>3. GenOK(g) /\ Closed(g) /\ s.generator \subseteq g /\ HasType(g, t)
  BY <1>1, <1>2, SubschemaFacts
<1>4. GenOK(h) /\ Closed(h) /\ HasType(h, t)
  BY <1>1, <1>2, SubschemaFacts
<1> HIDE DEF g, h
<1>5. CASE source.kind = "Gen"
  <2> DEFINE r == Refers(g, source)
  <2>1. u = [st |-> [s EXCEPT !.generator = g], refs |-> <<r>>]
    BY <1>5 DEF Use, g
  <2>2. u.st = [generator |-> g, definitions |-> s.definitions] /\ u.refs = <<r>>
    BY <2>1 DEF StOK
  <2>3. GenRef(g, r)
    BY <1>3, RefersFacts
  <2>4. StOK(u.st) /\ Grows(s, u.st)
    BY <1>3, <2>2 DEF StOK, Grows
  <2>5. RefsOK(u)
    <3> HIDE DEF u, r
    <3>1. u.refs \in Seq(Range(u.refs)) /\ Range(u.refs) = {r}
      BY <2>2, RangeOne
    <3>2. u.st.generator = g
      BY <2>2
    <3> QED
      BY <2>3, <3>1, <3>2 DEF RefsOK, Known
  <2> QED
    BY <2>4, <2>5
<1>6. CASE source.kind = "Static"
  <2> DEFINE r == Refers(h, source)
             new == Extend(s.definitions, Definitions(h))
  <2>1. u = [st |-> [s EXCEPT !.definitions = new], refs |-> <<r>>]
    BY <1>6 DEF Use, h
  <2> HIDE DEF new
  <2>2. u.st = [generator |-> s.generator, definitions |-> new] /\ u.refs = <<r>>
    BY <2>1 DEF StOK
  <2>3. r.name \in DOMAIN Definitions(h)
        /\ \A n \in DOMAIN Definitions(h) : \A q \in Definitions(h)[n].refs : q.name \in DOMAIN Definitions(h)
    BY <1>4, RefersFacts, DefinitionsFacts
  <2>4. /\ DOMAIN new = DOMAIN s.definitions \cup DOMAIN Definitions(h)
        /\ \A n \in DOMAIN new : \A q \in new[n].refs : q.name \in DOMAIN new
    BY <2>3, ExtendClosed DEF new, StOK
  <2>5. StOK(u.st) /\ Grows(s, u.st)
    <3> HIDE DEF u
    <3> QED
      BY <1>2, <2>2, <2>4 DEF StOK, Grows
  <2>6. RefsOK(u)
    <3> HIDE DEF u, r
    <3>1. u.refs \in Seq(Range(u.refs)) /\ Range(u.refs) = {r}
      BY <2>2, RangeOne
    <3>2. r.name \in DOMAIN u.st.definitions
      BY <2>2, <2>3, <2>4
    <3>3. r.kind = "Static"
      BY <1>6 DEF r, Refers
    <3> QED
      BY <3>1, <3>2, <3>3 DEF RefsOK, Known
  <2> QED
    BY <1>6, <2>5, <2>6
<1>7. CASE source.kind \notin {"Gen", "Static"}
  <2>1. u = [st |-> s, refs |-> <<>>]
    BY <1>7 DEF Use
  <2>2. u.st = s /\ u.refs = <<>>
    BY <2>1
  <2> HIDE DEF u
  <2>3. Range(u.refs) = {} /\ u.refs \in Seq(Range(u.refs))
    BY <2>2, RangeNone
  <2> QED
    BY <2>2, <2>3 DEF RefsOK, Grows, u
<1> QED
  BY <1>5, <1>6, <1>7

\* One turn of the recursive function in UseAll(), and the function.
Turn(acc, s, sources, k) ==
  IF k = 0 THEN [st |-> s, refs |-> <<>>]
  ELSE LET u == Use(acc[k - 1].st, sources[k])
       IN [st |-> u.st, refs |-> acc[k - 1].refs \o u.refs]

IsUsing(acc, s, sources, n) == acc = [k \in 0 .. n |-> Turn(acc, s, sources, k)]

UsedBy(s, sources) == CHOOSE acc : IsUsing(acc, s, sources, Len(sources))

\* The function exists.
LEMMA UsingExists ==
  ASSUME NEW s, NEW sources, NEW n \in Nat
  PROVE  \E f : IsUsing(f, s, sources, n)
<1> DEFINE S == {k \in Nat : ~ \E f : IsUsing(f, s, sources, k)}
<1> SUFFICES ASSUME S # {} PROVE FALSE
  OBVIOUS
<1>1. PICK k \in S : \A m \in S : k <= m
  <2>1. S \subseteq Nat
    OBVIOUS
  <2> HIDE DEF S
  <2> QED
    BY <2>1, LeastNumber
<1>2. k \in Nat /\ ~ \E f : IsUsing(f, s, sources, k)
  OBVIOUS
<1>3. CASE k = 0
  <2> DEFINE f == [i \in 0 .. 0 |-> [st |-> s, refs |-> <<>>]]
  <2>1. \A i \in 0 .. 0 : Turn(f, s, sources, i) = [st |-> s, refs |-> <<>>]
    BY DEF Turn
  <2>2. f = [i \in 0 .. 0 |-> Turn(f, s, sources, i)]
    BY <2>1
  <2> HIDE DEF f
  <2>3. IsUsing(f, s, sources, 0)
    BY <2>2 DEF IsUsing
  <2> QED
    BY <1>2, <1>3, <2>3
<1>4. CASE k > 0
  <2>1. k - 1 \in Nat /\ k - 1 \notin S
    BY <1>1, <1>2, <1>4
  <2>2. PICK f : IsUsing(f, s, sources, k - 1)
    BY <2>1
  <2> DEFINE h == [i \in 0 .. k |-> IF i = k THEN Turn(f, s, sources, k) ELSE f[i]]
  <2>3. \A i \in 0 .. (k - 1) : h[i] = f[i]
    BY <2>1
  <2>4. \A i \in 0 .. k : Turn(h, s, sources, i) = Turn(f, s, sources, i)
    <3> SUFFICES ASSUME NEW i \in 0 .. k PROVE Turn(h, s, sources, i) = Turn(f, s, sources, i)
      OBVIOUS
    <3>1. i # 0 => h[i - 1] = f[i - 1]
      BY <2>1, <2>3
    <3> HIDE DEF h
    <3> QED
      BY <3>1, Zenon DEF Turn
  <2>5. \A i \in 0 .. (k - 1) : f[i] = Turn(f, s, sources, i)
    <3> DEFINE j == [i \in 0 .. (k - 1) |-> Turn(f, s, sources, i)]
    <3>1. f = j
      BY <2>2, Zenon DEF IsUsing
    <3>2. \A i \in 0 .. (k - 1) : j[i] = Turn(f, s, sources, i)
      OBVIOUS
    <3> QED
      BY <3>1, <3>2, Zenon
  <2>6. h = [i \in 0 .. k |-> Turn(h, s, sources, i)]
    <3>1. \A i \in 0 .. k : h[i] = Turn(h, s, sources, i)
      BY <2>1, <2>4, <2>5
    <3>2. DOMAIN h = 0 .. k /\ h = [i \in 0 .. k |-> h[i]]
      OBVIOUS
    <3> HIDE DEF h
    <3> QED
      BY <3>1, <3>2
  <2> HIDE DEF h
  <2>7. IsUsing(h, s, sources, k)
    BY <2>6, Zenon DEF IsUsing
  <2> QED
    BY <1>2, <2>7
<1> QED
  BY <1>2, <1>3, <1>4

\* Schemas are put to use one after the other.
LEMMA UsingUnfolds ==
  ASSUME NEW s, NEW sources, Len(sources) \in Nat
  PROVE  /\ UseAll(s, sources) = UsedBy(s, sources)[Len(sources)]
         /\ \A i \in 0 .. Len(sources) : UsedBy(s, sources)[i] = Turn(UsedBy(s, sources), s, sources, i)
<1>1. IsUsing(UsedBy(s, sources), s, sources, Len(sources))
  BY UsingExists, Zenon DEF UsedBy
<1>2. UseAll(s, sources) = UsedBy(s, sources)[Len(sources)]
  BY Zenon DEF UseAll, UsedBy, IsUsing, Turn
<1> DEFINE w == UsedBy(s, sources)
           j == [i \in 0 .. Len(sources) |-> Turn(w, s, sources, i)]
<1>3. w = j
  BY <1>1, Zenon DEF IsUsing
<1>4. \A i \in 0 .. Len(sources) : j[i] = Turn(w, s, sources, i)
  OBVIOUS
<1> QED
  BY <1>2, <1>3, <1>4, Zenon

\* The references of two parts, when the second was made after the first.
LEMMA RefsJoin ==
  ASSUME NEW u, NEW v, RefsOK(u), RefsOK(v), Grows(u.st, v.st)
  PROVE  /\ Range(u.refs \o v.refs) = Range(u.refs) \cup Range(v.refs)
         /\ RefsOK([st |-> v.st, refs |-> u.refs \o v.refs])
<1> DEFINE S == Range(u.refs) \cup Range(v.refs)
           w == [st |-> v.st, refs |-> u.refs \o v.refs]
<1>1. u.refs \in Seq(S) /\ v.refs \in Seq(S)
  <2>1. u.refs \in Seq(Range(u.refs)) /\ v.refs \in Seq(Range(v.refs))
    BY DEF RefsOK
  <2> QED
    BY <2>1, SeqMonotonic
<1>2. u.refs \o v.refs \in Seq(S) /\ Range(u.refs \o v.refs) = S
  BY <1>1, RangeConcatenation, ConcatProperties
<1>3. w.st = v.st /\ w.refs = u.refs \o v.refs
  OBVIOUS
<1> HIDE DEF w
<1>4. w.refs \in Seq(Range(w.refs)) /\ Range(w.refs) = S
  BY <1>2, <1>3
<1>5. \A r \in S : Known(v.st, r)
  BY KnownGrows DEF RefsOK
<1>6. \A r \in S : r.kind = "Gen" => GenRef(v.st.generator, r)
  BY GenRefGrows DEF RefsOK, Grows
<1> HIDE DEF S
<1>7. RefsOK(w)
  BY <1>3, <1>4, <1>5, <1>6 DEF RefsOK
<1> QED
  BY <1>2, <1>7 DEF S, w

\* The effect of UseAll().
LEMMA UseAllFacts ==
  ASSUME NEW s, StOK(s), NEW sources \in Seq(AllSources)
  PROVE  LET u == UseAll(s, sources)
         IN  StOK(u.st) /\ Grows(s, u.st) /\ RefsOK(u)
<1> DEFINE acc == UsedBy(s, sources)
           n == Len(sources)
           OK(k) == StOK(acc[k].st) /\ Grows(s, acc[k].st) /\ RefsOK(acc[k])
           S == {k \in 0 .. n : OK(k)}
<1>1. n \in Nat /\ DOMAIN sources = 1 .. n /\ \A k \in 1 .. n : sources[k] \in AllSources
  OBVIOUS
<1>2. UseAll(s, sources) = acc[n] /\ \A k \in 0 .. n : acc[k] = Turn(acc, s, sources, k)
  BY <1>1, UsingUnfolds
<1> HIDE DEF acc
<1>3. 0 \in S
  <2>1. acc[0] = [st |-> s, refs |-> <<>>]
    <3>1. 0 \in 0 .. n
      BY <1>1
    <3> QED
      BY <1>2, <3>1, Zenon DEF Turn
  <2>2. acc[0].st = s /\ acc[0].refs = <<>>
    BY <2>1
  <2>3. OK(0)
    BY <2>2, RangeNone DEF RefsOK, Grows
  <2> HIDE DEF OK
  <2> QED
    BY <1>1, <2>3
<1>4. ASSUME NEW k \in 1 .. n, k - 1 \in S PROVE k \in S
  <2> DEFINE p == acc[k - 1]
             u == Use(p.st, sources[k])
             w == [st |-> u.st, refs |-> p.refs \o u.refs]
  <2>1. acc[k] = w
    <3>1. k \in 0 .. n /\ k # 0
      BY <1>1
    <3> QED
      BY <1>2, <3>1, Zenon DEF Turn
  <2>2. OK(k - 1)
    BY <1>4
  <2>3. StOK(u.st) /\ Grows(p.st, u.st) /\ RefsOK(u)
    BY <1>1, <2>2, UseFacts
  <2>5. w.st = u.st
    OBVIOUS
  <2> HIDE DEF u, p
  <2>6. RefsOK(w)
    BY <2>2, <2>3, RefsJoin DEF p
  <2>7. Grows(s, w.st)
    BY <2>2, <2>3, <2>5 DEF Grows, p
  <2> HIDE DEF w
  <2>8. OK(k)
    BY <2>1, <2>3, <2>5, <2>6, <2>7
  <2> QED
    BY <2>8
<1> HIDE DEF OK
<1>5. n \in S
  <2>1. 0 \in S /\ \A k \in 1 .. n : k - 1 \in S => k \in S
    BY <1>3, <1>4
  <2>2. n \in Nat /\ n \in 0 .. n
    BY <1>1
  <2> HIDE DEF S, n
  <2>3. \A k \in 0 .. n : k \in S
    BY <2>1, <2>2, UpTo
  <2> QED
    BY <2>2, <2>3
<1>6. OK(n)
  BY <1>5
<1> QED
  BY <1>2, <1>6 DEF OK

-----------------------------------------------------------------------------
(* The invariant.                                                          *)

\* An error response is known to refer to what there is, by the generator's
\* names unless the error's schema was generated before.
RespOK(r, s) ==
  /\ \A q \in Range(r.refs) : Known(s, q)
  /\ \A q \in Range(r.refs) : q.kind = "Gen" => GenRef(s.generator, q)

\* So is an operation; and its error response is the one of its own error.
PathOK(p, s, errors, listed) ==
  /\ p.endpoint \in Endpoints /\ Range(p.endpoint.tags) \subseteq listed
  /\ \A r \in Range(p.static) \cup Range(p.common) :
       Known(s, r) /\ (r.kind = "Gen" => GenRef(s.generator, r))
  /\ p.error # None =>
       /\ p.endpoint.error # None
       /\ \E j \in DOMAIN errors : /\ errors[j].name = p.error
                                   /\ errors[j].type = p.endpoint.error.type.id

\* Where the loops are.
ProgressOK ==
  /\ pc \in {"tags", "endpoints", "responses", "done", "panic"}
  /\ api \in Seq(Endpoints) /\ Len(api) <= MaxEndpoints
  /\ paths \in Seq(Range(paths)) /\ error_responses \in Seq(Range(error_responses))
  /\ next \in Nat \ {0}
  /\ pc \in {"tags", "endpoints"} => next <= Len(api) + 1 /\ Len(paths) <= next - 1
  /\ next <= MaxEndpoints + 1
  /\ Len(paths) <= Len(api) /\ Len(error_responses) <= Len(paths)

\* All tags have been gathered.
TagsOK ==
  IF pc = "tags" THEN tags = <<>> /\ paths = <<>>
  ELSE /\ IsInjective(tags) /\ Range(TagConfig) \subseteq Range(tags)
       /\ \A k \in DOMAIN api : Range(api[k].tags) \subseteq Range(tags)

\* What has been written into the components.
ComponentsOK ==
  /\ components = [schemas |-> components.schemas, responses |-> components.responses]
  /\ pc \in {"tags", "endpoints"} => components.responses = <<>>
  /\ pc \in {"responses", "done"} =>
       /\ components.schemas = Extend(st.definitions, Definitions(st.generator))
       /\ next <= Len(error_responses) + 1
       /\ \A n \in DOMAIN components.responses :
            \E j \in DOMAIN error_responses : components.responses[n] = error_responses[j]
       /\ \A j \in 1 .. (next - 1) :
            LET r == error_responses[j]
            IN r.name \in DOMAIN components.responses /\ components.responses[r.name] = r
  /\ pc = "done" => next > Len(error_responses)

DocInv ==
  /\ ProgressOK /\ StOK(st)
  /\ \A k \in DOMAIN paths : PathOK(paths[k], st, error_responses, Range(tags))
  /\ \A j \in DOMAIN error_responses : RespOK(error_responses[j], st)
  /\ TagsOK /\ ComponentsOK

\* Nothing is written at first.
LEMMA DocInit == Init => DocInv
<1> SUFFICES ASSUME Init PROVE DocInv
  OBVIOUS
<1> USE DEF Init
<1>1. PICK n \in 0 .. MaxEndpoints : api \in [1 .. n -> Endpoints]
  OBVIOUS
<1>2. MaxEndpoints \in Nat
  BY DocumentAssumption
<1>3. api \in Seq(Endpoints) /\ Len(api) = n
  BY <1>1, <1>2
<1>4. Range(<<>>) = {} /\ <<>> \in Seq(Range(<<>>)) /\ Len(<<>>) = 0 /\ DOMAIN <<>> = {}
  BY RangeNone
<1>5. ProgressOK
  BY <1>1, <1>2, <1>3, <1>4 DEF ProgressOK
<1>6. StOK(st)
  BY <1>4 DEF StOK, GenOK, Closed
<1>7. TagsOK /\ ComponentsOK
  BY DEF TagsOK, ComponentsOK
<1> QED
  BY <1>4, <1>5, <1>6, <1>7 DEF DocInv

\* An endpoint uses schemas that the program has.
LEMMA EndpointSources ==
  ASSUME NEW e \in Endpoints
  PROVE  /\ e.parameters \in Seq(AllSources) /\ e.body \in Seq(AllSources)
         /\ e.response \in Seq(AllSources) /\ e.headers \in Seq(AllSources)
         /\ e.tags \in Seq(Range(e.tags))
         /\ e.error # None => e.error \in AllSources
<1>1. e.error # None => e.error \in AllSources
  BY DEF AllSources, Sources
<1> QED
  BY <1>1, DocumentAssumption

\* The tags of all endpoints are finitely many.
LEMMA TagsFinite ==
  ASSUME ProgressOK
  PROVE  IsFiniteSet(UNION {Range(api[k].tags) : k \in DOMAIN api})
<1> DEFINE n == Len(api)
           U(k) == UNION {Range(api[i].tags) : i \in 1 .. k}
           S == {k \in 0 .. n : IsFiniteSet(U(k))}
<1>1. n \in Nat /\ DOMAIN api = 1 .. n /\ \A k \in 1 .. n : api[k] \in Endpoints
  BY DEF ProgressOK
<1>2. 0 \in S
  <2>1. U(0) = {}
    BY <1>1
  <2> QED
    BY <1>1, <2>1, FS_EmptySet
<1>3. ASSUME NEW k \in 1 .. n, k - 1 \in S PROVE k \in S
  <2>1. U(k) = U(k - 1) \cup Range(api[k].tags)
    <3>1. 1 .. k = (1 .. (k - 1)) \cup {k}
      BY <1>1
    <3> QED
      BY <3>1
  <2>2. IsFiniteSet(Range(api[k].tags))
    <3> DEFINE t == api[k].tags
    <3>1. t \in Seq(Range(t))
      BY <1>1, EndpointSources
    <3> HIDE DEF t
    <3>2. DOMAIN t = 1 .. Len(t) /\ Len(t) \in Nat
      BY <3>1
    <3>3. t \in Surjection(DOMAIN t, Range(t))
      BY <3>1 DEF Surjection, Range
    <3>4. IsFiniteSet(DOMAIN t)
      BY <3>2, FS_Interval
    <3>5. IsFiniteSet(Range(t))
      BY <3>3, <3>4, FS_Surjection
    <3> QED
      BY <3>5 DEF t
  <2>3. IsFiniteSet(U(k - 1))
    BY <1>3
  <2> HIDE DEF U
  <2>4. IsFiniteSet(U(k))
    <3> DEFINE a == U(k - 1)
               b == Range(api[k].tags)
    <3> HIDE DEF a, b
    <3>1. IsFiniteSet(a) /\ IsFiniteSet(b)
      BY <2>2, <2>3 DEF a, b
    <3>2. IsFiniteSet(a \cup b)
      BY ONLY <3>1, FS_Union
    <3> QED
      BY <2>1, <3>2, Zenon DEF a, b
  <2> QED
    BY <1>1, <2>4
<1>4. n \in S
  <2>1. 0 \in S /\ \A k \in 1 .. n : k - 1 \in S => k \in S
    BY <1>2, <1>3
  <2>2. n \in Nat /\ n \in 0 .. n
    BY <1>1
  <2> HIDE DEF S, n
  <2>3. \A k \in 0 .. n : k \in S
    BY <2>1, <2>2, UpTo
  <2> QED
    BY <2>2, <2>3
<1> QED
  BY <1>1, <1>4

\* The elements of a finite set, each once, in some order.
LEMMA SetToSeqFacts ==
  ASSUME NEW S, IsFiniteSet(S)
  PROVE  /\ SetToSeq(S) \in Seq(S) /\ IsInjective(SetToSeq(S))
         /\ Range(SetToSeq(S)) = S
<1> DEFINE n == Cardinality(S)
           f == SetToSeq(S)
<1>1. n \in Nat /\ ExistsBijection(1 .. n, S)
  BY FS_CardinalityType
<1>2. \E h \in [1 .. n -> S] : IsInjective(h)
  BY <1>1 DEF ExistsBijection, Bijection, Injection
<1>3. f \in [1 .. n -> S] /\ IsInjective(f)
  BY <1>2, Zenon DEF SetToSeq
<1> HIDE DEF f
<1>4. f \in Injection(1 .. n, S)
  BY <1>3 DEF Injection
<1>5. Cardinality(1 .. n) = n
  BY <1>1, FS_Interval
<1> HIDE DEF n
<1>6. f \in Surjection(1 .. n, S)
  BY <1>4, <1>5, FS_Injection DEF n
<1>7. Range(f) = S
  BY <1>3, <1>6 DEF Range, Surjection
<1>8. f \in Seq(S)
  BY <1>1, <1>3
<1> QED
  BY <1>3, <1>7, <1>8 DEF f

\* Every tag is gathered once.
LEMMA GatherTagsStep ==
  ASSUME DocInv, GatherTags
  PROVE  DocInv'
<1> DEFINE used == UNION {Range(api[k].tags) : k \in DOMAIN api}
           adhoc == used \ Range(TagConfig)
           more == SetToSeq(adhoc)
           T == used \cup Range(TagConfig)
<1>1. tags' = TagConfig \o more /\ pc = "tags" /\ pc' = "endpoints"
      /\ UNCHANGED <<api, next, st, error_responses, error_response_names, paths, components>>
  <2>1. tags' = TagConfig \o more
    BY Zenon DEF GatherTags
  <2>2. pc = "tags" /\ pc' = "endpoints"
        /\ UNCHANGED <<api, next, st, error_responses, error_response_names, paths, components>>
    BY DEF GatherTags
  <2> QED
    BY <2>1, <2>2, Zenon
<1>2. IsFiniteSet(adhoc)
  <2>1. IsFiniteSet(used)
    BY TagsFinite DEF DocInv
  <2> HIDE DEF used
  <2>2. adhoc \in SUBSET used
    OBVIOUS
  <2> QED
    BY <2>1, <2>2, FS_Subset
<1>3. more \in Seq(adhoc) /\ IsInjective(more) /\ Range(more) = adhoc
  <2> HIDE DEF adhoc
  <2> QED
    BY <1>2, SetToSeqFacts
<1>4. TagConfig \in Seq(Range(TagConfig)) /\ IsInjective(TagConfig)
  BY DocumentAssumption
<1>5. TagConfig \in Seq(T) /\ more \in Seq(T)
  BY <1>3, <1>4, SeqMonotonic
<1>6. \A k \in DOMAIN api : Range(api[k].tags) \subseteq used
  OBVIOUS
<1> HIDE DEF used, more
<1>7. Range(tags') = T
  BY <1>1, <1>3, <1>5, RangeConcatenation
<1>8. IsInjective(tags')
  <2> DEFINE m == Len(TagConfig)
             n == Len(more)
             c == TagConfig \o more
  <2>1. m \in Nat /\ n \in Nat /\ DOMAIN c = 1 .. (m + n)
        /\ DOMAIN TagConfig = 1 .. m /\ DOMAIN more = 1 .. n
    BY <1>5
  <2>2. \A i \in 1 .. (m + n) : c[i] = IF i <= m THEN TagConfig[i] ELSE more[i - m]
    BY <1>5
  <2>3. \A i \in 1 .. m : c[i] \in Range(TagConfig)
    BY <2>1, <2>2 DEF Range
  <2>4. \A i \in (m + 1) .. (m + n) : i - m \in DOMAIN more /\ c[i] = more[i - m] /\ c[i] \in adhoc
    <3> SUFFICES ASSUME NEW i \in (m + 1) .. (m + n)
                 PROVE  i - m \in DOMAIN more /\ c[i] = more[i - m] /\ c[i] \in adhoc
      OBVIOUS
    <3>1. i - m \in 1 .. n /\ c[i] = more[i - m]
      BY <2>1, <2>2
    <3> HIDE DEF adhoc, c, m, n
    <3> QED
      BY <1>3, <2>1, <3>1 DEF Range
  <2> HIDE DEF c
  <2>5. ASSUME NEW i \in 1 .. (m + n), NEW j \in 1 .. (m + n), c[i] = c[j] PROVE i = j
    <3>1. CASE i \in 1 .. m /\ j \in 1 .. m
      BY <1>4, <2>1, <2>2, <2>5, <3>1 DEF IsInjective
    <3>2. CASE i \in (m + 1) .. (m + n) /\ j \in (m + 1) .. (m + n)
      <4>1. i - m = j - m
        BY <1>3, <2>4, <2>5, <3>2 DEF IsInjective
      <4> QED
        BY <2>1, <4>1
    <3>3. (i \in 1 .. m /\ j \in (m + 1) .. (m + n)) \/ (j \in 1 .. m /\ i \in (m + 1) .. (m + n)) => FALSE
      BY <2>3, <2>4, <2>5
    <3> QED
      BY <2>1, <3>1, <3>2, <3>3
  <2> QED
    BY <1>1, <2>1, <2>5 DEF IsInjective, c
<1>9. paths = <<>>
  BY <1>1 DEF DocInv, TagsOK
<1>10. ProgressOK' /\ ComponentsOK' /\ StOK(st)'
  BY <1>1 DEF DocInv, ProgressOK, ComponentsOK
<1>11. TagsOK'
  BY <1>1, <1>6, <1>7, <1>8 DEF TagsOK
<1>12. \A j \in DOMAIN error_responses' : RespOK(error_responses'[j], st')
  BY <1>1 DEF DocInv
<1>13. DOMAIN paths' = {}
  BY <1>1, <1>9
<1> QED
  BY <1>10, <1>11, <1>12, <1>13 DEF DocInv

\* An operation that is right stays right while more is put to use.
LEMMA PathGrows ==
  ASSUME NEW p, NEW s, NEW u, Grows(s, u), NEW errors, NEW more, NEW listed,
         \A j \in DOMAIN errors : j \in DOMAIN more /\ more[j] = errors[j],
         PathOK(p, s, errors, listed)
  PROVE  PathOK(p, u, more, listed)
<1>1. \A r \in Range(p.static) \cup Range(p.common) : Known(u, r)
  BY KnownGrows DEF PathOK
<1>2. \A r \in Range(p.static) \cup Range(p.common) : r.kind = "Gen" => GenRef(u.generator, r)
  BY GenRefGrows DEF PathOK, Grows
<1> QED
  BY <1>1, <1>2 DEF PathOK

\* So does an error response.
LEMMA RespGrows ==
  ASSUME NEW r, NEW s, NEW u, Grows(s, u), RespOK(r, s)
  PROVE  RespOK(r, u)
<1>1. \A q \in Range(r.refs) : Known(u, q)
  BY KnownGrows DEF RespOK
<1>2. \A q : GenRef(s.generator, q) => GenRef(u.generator, q)
  BY GenRefGrows DEF Grows
<1> QED
  BY <1>1, <1>2 DEF RespOK

\* The error response of an endpoint is an old one of the same type, or new.
LEMMA ErrorFacts ==
  ASSUME NEW s, StOK(s), NEW e \in Endpoints, e.error # None
  PROVE  LET err == ErrorResponse(s, e.error)
         IN  /\ StOK(err.st) /\ Grows(s, err.st)
             /\ \/ err.new = <<>> /\ \E j \in DOMAIN error_responses :
                     /\ error_responses[j].name = err.name
                     /\ error_responses[j].type = e.error.type.id
                \/ \E r : /\ err.new = <<r>> /\ r.name = err.name /\ r.type = e.error.type.id
                          /\ RespOK(r, err.st)
<1> DEFINE error == e.error
           err == ErrorResponse(s, error)
           same == {r \in Range(error_responses) : r.type = error.type.id}
           u == Use(s, error)
           want == error.type.name
           num == IF want \in DOMAIN error_response_names THEN error_response_names[want] + 1 ELSE 1
           name == IF num <= 1 THEN want ELSE Numbered(want, num)
           new == [type |-> error.type.id, name |-> name, refs |-> u.refs]
           picked == CHOOSE r \in same : TRUE
<1>1. StOK(u.st) /\ Grows(s, u.st) /\ RefsOK(u)
  BY EndpointSources, UseFacts
<1>2. CASE same # {}
  <2>1. err = [st |-> s, name |-> picked.name, new |-> <<>>, names |-> error_response_names]
    BY <1>2, Zenon DEF ErrorResponse
  <2>2. picked \in same
    <3> HIDE DEF same
    <3> QED
      BY <1>2
  <2>3. PICK j \in DOMAIN error_responses : error_responses[j] = picked
    BY <2>2 DEF Range
  <2>4. picked.type = error.type.id
    BY <2>2
  <2> HIDE DEF picked, same, error
  <2>5. err.st = s /\ err.name = picked.name /\ err.new = <<>>
    BY <2>1
  <2> QED
    BY <2>3, <2>4, <2>5 DEF Grows, error
<1>3. CASE same = {}
  <2>1. err = [st |-> u.st, name |-> name, new |-> <<new>>,
               names |-> Extend(error_response_names, [n \in {want} |-> num])]
    BY <1>3, Zenon DEF ErrorResponse
  <2> HIDE DEF u, name, want, num
  <2>2. err.st = u.st /\ err.name = name /\ err.new = <<new>>
    BY <2>1
  <2>3. new.name = name /\ new.type = error.type.id /\ new.refs = u.refs
    OBVIOUS
  <2> HIDE DEF new, err
  <2>4. RespOK(new, u.st)
    BY <1>1, <2>3 DEF RespOK, RefsOK
  <2> QED
    BY <1>1, <2>2, <2>3, <2>4 DEF err
<1> QED
  BY <1>2, <1>3

\* The schemas of the successful response and its headers.
LEMMA ResponseSources ==
  ASSUME NEW e \in Endpoints
  PROVE  (IF e.response = <<>> THEN <<>> ELSE e.response \o e.headers) \in Seq(AllSources)
<1> DEFINE r == e.response
           h == e.headers
<1>1. r \in Seq(AllSources) /\ h \in Seq(AllSources)
  BY EndpointSources
<1> HIDE DEF r, h
<1>2. r \o h \in Seq(AllSources) /\ <<>> \in Seq(AllSources)
  BY <1>1
<1> QED
  BY <1>2 DEF r, h

\* One more at the end of a sequence.
LEMMA AddLast ==
  ASSUME NEW s, s \in Seq(Range(s)), NEW x
  PROVE  LET t == s \o <<x>>
         IN  /\ t \in Seq(Range(t)) /\ t = Append(s, x) /\ Len(t) = Len(s) + 1
             /\ DOMAIN t = DOMAIN s \cup {Len(s) + 1} /\ t[Len(s) + 1] = x
             /\ \A j \in DOMAIN s : t[j] = s[j]
<1> DEFINE S == Range(s) \cup {x}
           t == s \o <<x>>
           n == Len(s)
<1>1. s \in Seq(S) /\ <<x>> \in Seq(S)
  BY SeqMonotonic
<1> HIDE DEF S
<1>2. t \in Seq(S) /\ t = Append(s, x) /\ Len(t) = n + 1 /\ DOMAIN t = 1 .. (n + 1)
      /\ n \in Nat /\ DOMAIN s = 1 .. n /\ t[n + 1] = x /\ \A j \in 1 .. n : t[j] = s[j]
  BY <1>1
<1>3. t \in Seq(Range(t))
  BY <1>2, SeqOfRange
<1>4. 1 .. (n + 1) = (1 .. n) \cup {n + 1}
  BY <1>2
<1> HIDE DEF t, n
<1> QED
  BY <1>2, <1>3, <1>4 DEF t, n

\* The operation of an endpoint is right, and spoils no other.
LEMMA DocumentStep ==
  ASSUME DocInv, Document
  PROVE  DocInv'
<1> DEFINE e      == api[next]
           params == Parameters(st, e)
           body   == RequestBody(params.st, e)
           ok     == Response(body.st, e)
           err    == IF e.success /\ e.error # None THEN ErrorResponse(ok.st, e.error)
                     ELSE [st |-> ok.st, name |-> None, new |-> <<>>, names |-> error_response_names]
           p      == [endpoint |-> e, static |-> params.refs,
                      common |-> body.refs \o ok.refs, error |-> err.name]
<1>1. /\ pc = "endpoints" /\ next <= Len(api) /\ next' = next + 1
      /\ st' = err.st /\ error_responses' = error_responses \o err.new
      /\ paths' = Append(paths, p)
      /\ UNCHANGED <<api, pc, tags, components>>
  BY Zenon DEF Document
<1> HIDE DEF params, body, ok, err, p
<1>2. /\ api \in Seq(Endpoints) /\ next \in DOMAIN api /\ e \in Endpoints /\ next \in Nat \ {0}
      /\ Range(e.tags) \subseteq Range(tags)
  <2>1. next <= Len(api) /\ pc # "tags"
    BY <1>1
  <2>2. ProgressOK /\ TagsOK
    BY DEF DocInv
  <2>3. api \in Seq(Endpoints) /\ next \in DOMAIN api /\ next \in Nat \ {0}
    BY <2>1, <2>2 DEF ProgressOK
  <2> QED
    BY <2>1, <2>2, <2>3 DEF TagsOK
<1> HIDE DEF e
<1> USE DEF params, body, ok, err, p
<1>3. StOK(params.st) /\ Grows(st, params.st) /\ RefsOK(params)
  <2>1. StOK(st) /\ e.parameters \in Seq(AllSources)
    BY <1>2, EndpointSources DEF DocInv
  <2> QED
    BY <2>1, UseAllFacts DEF Parameters
<1> HIDE DEF params
<1>4. StOK(body.st) /\ Grows(params.st, body.st) /\ RefsOK(body)
  <2>1. e.body \in Seq(AllSources)
    BY <1>2, EndpointSources
  <2> QED
    BY <1>3, <2>1, UseAllFacts DEF RequestBody
<1> HIDE DEF body
<1>5. StOK(ok.st) /\ Grows(body.st, ok.st) /\ RefsOK(ok)
  <2> DEFINE sources == IF e.response = <<>> THEN <<>> ELSE e.response \o e.headers
  <2>1. sources \in Seq(AllSources)
    BY <1>2, ResponseSources
  <2>2. ok = UseAll(body.st, sources)
    BY DEF Response
  <2> HIDE DEF sources, ok
  <2> QED
    BY <1>4, <2>1, <2>2, UseAllFacts
<1> HIDE DEF ok
<1>6. /\ StOK(err.st) /\ Grows(ok.st, err.st)
      /\ \/ err.new = <<>> /\ (err.name # None =>
              e.error # None /\ \E j \in DOMAIN error_responses :
                                  /\ error_responses[j].name = err.name
                                  /\ error_responses[j].type = e.error.type.id)
         \/ e.error # None /\ \E r : /\ err.new = <<r>> /\ r.name = err.name
                                     /\ r.type = e.error.type.id /\ RespOK(r, err.st)
  <2>1. CASE e.success /\ e.error # None
    <3>1. err = ErrorResponse(ok.st, e.error)
      BY <2>1
    <3> HIDE DEF err
    <3> QED
      BY <1>2, <1>5, <2>1, <3>1, ErrorFacts
  <2>2. CASE ~(e.success /\ e.error # None)
    <3>1. err.st = ok.st /\ err.name = None /\ err.new = <<>>
      BY <2>2
    <3> HIDE DEF err
    <3> QED
      BY <1>5, <3>1 DEF Grows
  <2> QED
    BY <2>1, <2>2
<1> HIDE DEF err
<1>7. Grows(st, err.st) /\ Grows(params.st, err.st) /\ Grows(ok.st, err.st)
  BY <1>3, <1>4, <1>5, <1>6 DEF Grows
<1>8. error_responses \in Seq(Range(error_responses)) /\ paths \in Seq(Range(paths))
  BY DEF DocInv, ProgressOK
<1>9. /\ error_responses' \in Seq(Range(error_responses'))
      /\ \A j \in DOMAIN error_responses :
           j \in DOMAIN error_responses' /\ error_responses'[j] = error_responses[j]
      /\ Len(error_responses') \in {Len(error_responses), Len(error_responses) + 1}
      /\ \A j \in DOMAIN error_responses' : RespOK(error_responses'[j], st')
      /\ err.name # None => e.error # None /\ \E j \in DOMAIN error_responses' :
           error_responses'[j].name = err.name /\ error_responses'[j].type = e.error.type.id
  <2>1. \A j \in DOMAIN error_responses : RespOK(error_responses[j], st')
    BY <1>1, <1>7, RespGrows DEF DocInv
  <2>2. CASE /\ err.new = <<>>
             /\ err.name # None => e.error # None /\ \E j \in DOMAIN error_responses :
                                     /\ error_responses[j].name = err.name
                                     /\ error_responses[j].type = e.error.type.id
    <3>1. error_responses' = error_responses
      BY <1>1, <1>8, <2>2
    <3> QED
      BY <1>8, <2>1, <2>2, <3>1
  <2>3. CASE e.error # None /\ \E r : /\ err.new = <<r>> /\ r.name = err.name
                                      /\ r.type = e.error.type.id /\ RespOK(r, err.st)
    <3>1. PICK r : /\ err.new = <<r>> /\ r.name = err.name
                   /\ r.type = e.error.type.id /\ RespOK(r, st')
      BY <1>1, <2>3
    <3>2. error_responses' = error_responses \o <<r>>
      BY <1>1, <3>1
    <3> DEFINE n == Len(error_responses)
    <3>3. /\ error_responses' \in Seq(Range(error_responses')) /\ Len(error_responses') = n + 1
          /\ DOMAIN error_responses' = DOMAIN error_responses \cup {n + 1}
          /\ error_responses'[n + 1] = r
          /\ \A j \in DOMAIN error_responses : error_responses'[j] = error_responses[j]
      BY <1>8, <3>2, AddLast
    <3> HIDE DEF n
    <3> QED
      BY <2>1, <2>3, <3>1, <3>3 DEF n
  <2> QED
    BY <1>6, <2>2, <2>3
<1>10. PathOK(p, st', error_responses', Range(tags'))
  <2>1. /\ p.endpoint = e /\ p.static = params.refs /\ p.common = body.refs \o ok.refs
        /\ p.error = err.name
    OBVIOUS
  <2> HIDE DEF p
  <2>2. \A r \in Range(p.static) : Known(st', r) /\ (r.kind = "Gen" => GenRef(st'.generator, r))
    BY <1>1, <1>3, <1>7, <2>1, KnownGrows, GenRefGrows DEF RefsOK, Grows
  <2> DEFINE w == [st |-> ok.st, refs |-> body.refs \o ok.refs]
  <2>3. RefsOK(w)
    BY <1>4, <1>5, RefsJoin
  <2>4. w.refs = p.common /\ w.st = ok.st
    BY <2>1
  <2> HIDE DEF w
  <2>5. \A r \in Range(p.common) : Known(st', r) /\ (r.kind = "Gen" => GenRef(st'.generator, r))
    BY <1>1, <1>7, <2>3, <2>4, KnownGrows, GenRefGrows DEF RefsOK, Grows
  <2> QED
    BY <1>1, <1>2, <1>9, <2>1, <2>2, <2>5 DEF PathOK
<1> HIDE DEF p
<1>11. /\ paths' \in Seq(Range(paths')) /\ Len(paths') = Len(paths) + 1
       /\ DOMAIN paths' = DOMAIN paths \cup {Len(paths) + 1} /\ paths'[Len(paths) + 1] = p
       /\ \A k \in DOMAIN paths : paths'[k] = paths[k]
  <2> DEFINE t == paths \o <<p>>
             n == Len(paths)
  <2>1. /\ t \in Seq(Range(t)) /\ t = Append(paths, p) /\ Len(t) = n + 1
        /\ DOMAIN t = DOMAIN paths \cup {n + 1} /\ t[n + 1] = p
        /\ \A k \in DOMAIN paths : t[k] = paths[k]
    BY <1>8, AddLast
  <2>2. paths' = t
    BY <1>1, <2>1, Zenon
  <2> HIDE DEF t, n
  <2> QED
    BY <2>1, <2>2, Zenon DEF n
<1>12. \A k \in DOMAIN paths' : PathOK(paths'[k], st', error_responses', Range(tags'))
  <2>1. \A k \in DOMAIN paths : PathOK(paths[k], st', error_responses', Range(tags'))
    <3>1. \A k \in DOMAIN paths : PathOK(paths[k], st, error_responses, Range(tags'))
      BY <1>1 DEF DocInv
    <3>2. Grows(st, st')
      BY <1>1, <1>7
    <3> QED
      BY <1>9, <3>1, <3>2, PathGrows
  <2> QED
    BY <1>10, <1>11, <2>1
<1>13. ProgressOK'
  <2>1. Len(paths) \in Nat /\ Len(error_responses) \in Nat /\ Len(api) \in Nat
    BY <1>2, <1>8
  <2>2. MaxEndpoints \in Nat
    BY DocumentAssumption
  <2> QED
    BY <1>1, <1>2, <1>9, <1>11, <2>1, <2>2 DEF DocInv, ProgressOK
<1>14. TagsOK' /\ ComponentsOK'
  BY <1>1 DEF DocInv, TagsOK, ComponentsOK
<1>15. StOK(st')
  BY <1>1, <1>6
<1> QED
  BY <1>9, <1>12, <1>13, <1>14, <1>15 DEF DocInv

\* A response is added under a name that no other has.
LEMMA AddResponseStep ==
  ASSUME DocInv, AddResponse
  PROVE  DocInv'
<1> DEFINE r == error_responses[next]
           old == components.responses
           new == Extend(old, [n \in {r.name} |-> r])
<1>1. /\ pc = "responses" /\ next <= Len(error_responses)
      /\ UNCHANGED <<api, tags, st, error_responses, error_response_names, paths>>
  BY DEF AddResponse
<1>2. next \in DOMAIN error_responses /\ next \in Nat /\ Len(error_responses) \in Nat
  BY <1>1 DEF DocInv, ProgressOK
<1>3. components = [schemas |-> components.schemas, responses |-> old]
  BY DEF DocInv, ComponentsOK
<1>4. CASE pc' = "panic" /\ UNCHANGED <<components, next>>
  BY <1>1, <1>4 DEF DocInv, ProgressOK, TagsOK, ComponentsOK
<1>5. CASE /\ r.name \notin DOMAIN old
           /\ components' = [components EXCEPT !.responses = new]
           /\ next' = next + 1 /\ UNCHANGED pc
  <2>1. DOMAIN new = DOMAIN old \cup {r.name} /\ new[r.name] = r /\ \A n \in DOMAIN old : new[n] = old[n]
    BY <1>5 DEF Extend
  <2> HIDE DEF new, r, old
  <2>2. components' = [schemas |-> components.schemas, responses |-> new]
    BY <1>3, <1>5
  <2>3. components'.responses = new /\ components'.schemas = components.schemas
    BY <2>2
  <2>4. \A n \in DOMAIN new : \E j \in DOMAIN error_responses : new[n] = error_responses[j]
    <3>1. \A n \in DOMAIN old : \E j \in DOMAIN error_responses : old[n] = error_responses[j]
      BY <1>1 DEF DocInv, ComponentsOK, old
    <3> QED
      BY <1>2, <2>1, <3>1 DEF r
  <2>5. \A j \in 1 .. (next' - 1) :
          error_responses[j].name \in DOMAIN new /\ new[error_responses[j].name] = error_responses[j]
    <3>1. \A j \in 1 .. (next - 1) :
            error_responses[j].name \in DOMAIN old /\ old[error_responses[j].name] = error_responses[j]
      BY <1>1 DEF DocInv, ComponentsOK, old
    <3>2. next' - 1 = next /\ \A j \in 1 .. next : j \in 1 .. (next - 1) \/ j = next
      BY <1>2, <1>5
    <3> QED
      BY <2>1, <3>1, <3>2 DEF r
  <2>6. ComponentsOK'
    <3>1. components.schemas = Extend(st.definitions, Definitions(st.generator))
      BY <1>1 DEF DocInv, ComponentsOK
    <3>2. next' <= Len(error_responses) + 1
      BY <1>1, <1>2, <1>5
    <3> QED
      BY <1>1, <1>5, <2>2, <2>3, <2>4, <2>5, <3>1, <3>2 DEF ComponentsOK
  <2>7. ProgressOK'
    <3>1. Len(paths) \in Nat /\ Len(api) \in Nat /\ MaxEndpoints \in Nat
      BY DocumentAssumption DEF DocInv, ProgressOK
    <3>2. next <= MaxEndpoints
      BY <1>1, <1>2, <3>1 DEF DocInv, ProgressOK
    <3> QED
      BY <1>1, <1>2, <1>5, <3>1, <3>2 DEF DocInv, ProgressOK
  <2>8. TagsOK'
    BY <1>1, <1>5 DEF DocInv, TagsOK
  <2> QED
    BY <1>1, <2>6, <2>7, <2>8 DEF DocInv
<1>6. (pc' = "panic" /\ UNCHANGED <<components, next>>)
      \/ /\ r.name \notin DOMAIN old
         /\ components' = [components EXCEPT !.responses = new]
         /\ next' = next + 1 /\ UNCHANGED pc
  BY Zenon DEF AddResponse
<1> QED
  BY <1>4, <1>5, <1>6

\* Every step keeps the invariant.
LEMMA DocStep == DocInv /\ [Next]_vars => DocInv'
<1> SUFFICES ASSUME DocInv, [Next]_vars PROVE DocInv'
  OBVIOUS
<1>1. CASE GatherTags
  BY <1>1, GatherTagsStep
<1>2. CASE Document
  BY <1>2, DocumentStep
<1>3. CASE AddResponse
  BY <1>3, AddResponseStep
<1>4. CASE Skip
  <2>1. Len(paths) \in Nat /\ Len(api) \in Nat /\ MaxEndpoints \in Nat
    BY DocumentAssumption DEF DocInv, ProgressOK
  <2>2. ProgressOK'
    BY <1>4, <2>1 DEF Skip, DocInv, ProgressOK
  <2> QED
    BY <1>4, <2>2 DEF Skip, DocInv, TagsOK, ComponentsOK
<1>5. CASE UnexpectedMethod
  BY <1>5 DEF UnexpectedMethod, DocInv, ProgressOK, TagsOK, ComponentsOK
<1>6. CASE InsertSchemas
  <2>1. /\ components'.schemas = Extend(st.definitions, Definitions(st.generator))
        /\ components'.responses = components.responses
        /\ components' = [schemas |-> components'.schemas, responses |-> components'.responses]
    <3>1. components = [schemas |-> components.schemas, responses |-> components.responses]
      BY DEF DocInv, ComponentsOK
    <3> QED
      BY <1>6, <3>1 DEF InsertSchemas
  <2>2. components.responses = <<>> /\ Len(error_responses) \in Nat
    BY <1>6 DEF InsertSchemas, DocInv, ComponentsOK, ProgressOK
  <2>3. ComponentsOK'
    BY <1>6, <2>1, <2>2 DEF InsertSchemas, ComponentsOK
  <2>4. ProgressOK'
    BY <1>6, DocumentAssumption DEF InsertSchemas, DocInv, ProgressOK
  <2> QED
    BY <1>6, <2>3, <2>4 DEF InsertSchemas, DocInv, TagsOK
<1>7. CASE Finish
  BY <1>7 DEF Finish, DocInv, ProgressOK, TagsOK, ComponentsOK
<1>8. CASE UNCHANGED vars
  BY <1>8 DEF vars, DocInv, ProgressOK, TagsOK, ComponentsOK
<1> QED
  BY <1>1, <1>2, <1>3, <1>4, <1>5, <1>6, <1>7, <1>8 DEF Next

\* What the components define, once they are written.
LEMMA SchemasFacts ==
  ASSUME DocInv, Done
  PROVE  /\ \A r : Known(st, r) => r.name \in DOMAIN components.schemas
         /\ \A n \in DOMAIN components.schemas :
              \A r \in components.schemas[n].refs : Known(st, r)
         /\ \A r : GenRef(st.generator, r) =>
              /\ components.schemas[r.name].type = r.type
              /\ \A q \in components.schemas[r.name].refs : GenRef(st.generator, q)
<1> DEFINE f == st.definitions
           g == Definitions(st.generator)
           c == components.schemas
<1>1. c = Extend(f, g)
  BY DEF DocInv, ComponentsOK, Done
<1>2. StOK(st)
  BY DEF DocInv
<1>3. /\ \A r : GenRef(st.generator, r) => r.name \in DOMAIN g /\ g[r.name].type = r.type
      /\ \A n \in DOMAIN g : \A r \in g[n].refs : GenRef(st.generator, r)
  BY <1>2, DefinitionsFacts DEF StOK
<1>4. \A n \in DOMAIN f : \A r \in f[n].refs : r.name \in DOMAIN f
  BY <1>2 DEF StOK
<1> HIDE DEF f, g, c
<1>5. DOMAIN c = DOMAIN f \cup DOMAIN g
      /\ \A n \in DOMAIN c : c[n] = IF n \in DOMAIN g THEN g[n] ELSE f[n]
  BY <1>1 DEF Extend
<1>6. \A r : Known(st, r) <=> GenRef(st.generator, r) \/ r.name \in DOMAIN f
  BY DEF Known, f
<1> QED
  BY <1>3, <1>4, <1>5, <1>6 DEF c

\* The finished document is whole, for any API: every reference, however deep,
\* resolves; to the schema of its own type when the common generator made it,
\* whereas one of a pre-generated (Static) schema may lead to another type of
\* the same name; and every tag is listed once (api_description.rs:681-717,
\* 794-942, 1025-1136).
THEOREM DocumentIsWhole == Spec => []DocumentWhole
<1>1. ASSUME DocInv PROVE DocumentWhole
  <2>1. TypeOK
    <3>1. \A d, e \in st.generator : (d.name = e.name) <=> (d.type = e.type)
      BY <1>1 DEF DocInv, StOK, GenOK
    <3>2. IsInjective(tags)
      BY <1>1 DEF DocInv, TagsOK, IsInjective
    <3>3. Len(api) \in Nat /\ MaxEndpoints \in Nat
      BY <1>1, DocumentAssumption DEF DocInv, ProgressOK
    <3> QED
      BY <1>1, <3>1, <3>2, <3>3 DEF TypeOK, DocInv, ProgressOK
  <2>2. ASSUME Done, NEW j \in DOMAIN error_responses
        PROVE  /\ error_responses[j].name \in DOMAIN components.responses
               /\ components.responses[error_responses[j].name] = error_responses[j]
    <3>1. j \in 1 .. (next - 1)
      BY <1>1, <2>2 DEF DocInv, ProgressOK, ComponentsOK, Done
    <3> QED
      BY <1>1, <2>2, <3>1 DEF DocInv, ComponentsOK, Done
  <2>3. RefsResolve
    <3> SUFFICES ASSUME Done
                 PROVE  /\ \A r \in AllRefs : r.name \in DOMAIN components.schemas
                        /\ \A k \in DOMAIN paths : paths[k].error # None =>
                             paths[k].error \in DOMAIN components.responses
      BY DEF RefsResolve
    <3>1. \A k \in DOMAIN paths : PathOK(paths[k], st, error_responses, Range(tags))
      BY <1>1 DEF DocInv
    <3>2. \A n \in DOMAIN components.responses :
            \A q \in Range(components.responses[n].refs) : Known(st, q)
      <4>1. \A n \in DOMAIN components.responses :
              \E j \in DOMAIN error_responses : components.responses[n] = error_responses[j]
        BY <1>1 DEF DocInv, ComponentsOK, Done
      <4>2. \A j \in DOMAIN error_responses : \A q \in Range(error_responses[j].refs) : Known(st, q)
        BY <1>1 DEF DocInv, RespOK
      <4> QED
        BY <4>1, <4>2
    <3>3. \A r \in AllRefs : Known(st, r)
      <4>1. \A k \in DOMAIN paths : \A r \in Range(paths[k].static) \cup Range(paths[k].common) : Known(st, r)
        BY <3>1 DEF PathOK
      <4>2. \A n \in DOMAIN components.schemas : \A r \in components.schemas[n].refs : Known(st, r)
        BY <1>1, SchemasFacts
      <4> SUFFICES ASSUME NEW r \in AllRefs PROVE Known(st, r)
        OBVIOUS
      <4>3. CASE \E k \in DOMAIN paths : r \in Range(paths[k].static) \cup Range(paths[k].common)
        BY <4>1, <4>3
      <4>4. CASE \E n \in DOMAIN components.schemas : r \in components.schemas[n].refs
        BY <4>2, <4>4
      <4>5. CASE \E n \in DOMAIN components.responses : r \in Range(components.responses[n].refs)
        BY <3>2, <4>5
      <4> QED
        BY <4>3, <4>4, <4>5, Zenon DEF AllRefs
    <3>4. \A k \in DOMAIN paths : paths[k].error # None => paths[k].error \in DOMAIN components.responses
      BY <2>2, <3>1 DEF PathOK
    <3> QED
      BY <1>1, <3>3, <3>4, SchemasFacts
  <2>4. GeneratedRefsExact
    <3> DEFINE exact(r) == components.schemas[r.name].type = r.type
               whole(refs) == \A r \in Range(refs) : r.kind = "Gen" =>
                                exact(r) /\ \A q \in components.schemas[r.name].refs : exact(q)
    <3> SUFFICES ASSUME Done, NEW k \in DOMAIN paths
                 PROVE  /\ whole(paths[k].static) /\ whole(paths[k].common)
                        /\ paths[k].error # None =>
                             LET r == components.responses[paths[k].error]
                             IN r.type = paths[k].endpoint.error.type.id /\ whole(r.refs)
      BY DEF GeneratedRefsExact
    <3>1. \A r : GenRef(st.generator, r) =>
            exact(r) /\ \A q \in components.schemas[r.name].refs : exact(q)
      BY <1>1, SchemasFacts
    <3> HIDE DEF exact
    <3>2. whole(paths[k].static) /\ whole(paths[k].common)
      BY <1>1, <3>1 DEF DocInv, PathOK
    <3>3. ASSUME paths[k].error # None
          PROVE  LET r == components.responses[paths[k].error]
                 IN r.type = paths[k].endpoint.error.type.id /\ whole(r.refs)
      <4>1. PICK j \in DOMAIN error_responses : /\ error_responses[j].name = paths[k].error
                                                /\ error_responses[j].type = paths[k].endpoint.error.type.id
        BY <1>1, <3>3 DEF DocInv, PathOK
      <4>2. components.responses[paths[k].error] = error_responses[j]
        BY <2>2, <4>1
      <4>3. whole(error_responses[j].refs)
        BY <1>1, <3>1 DEF DocInv, RespOK
      <4> QED
        BY <4>1, <4>2, <4>3
    <3> HIDE DEF whole
    <3> QED
      BY <3>2, <3>3
  <2>5. TagsListed
    <3> SUFFICES ASSUME Done PROVE TagsListed
      BY DEF TagsListed
    <3> QED
      BY <1>1 DEF DocInv, TagsOK, PathOK, TagsListed, Done
  <2> QED
    BY <2>1, <2>3, <2>4, <2>5 DEF DocumentWhole
<1> QED
  BY <1>1, DocInit, DocStep, PTL DEF Spec
=============================================================================
