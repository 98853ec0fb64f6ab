---------------------------- MODULE MacrosProofs ----------------------------
(***************************************************************************)
(* Proofs about modules Handlers and Macros, for any arguments, functions  *)
(* and traits of any size: the macros do not panic, what they generate     *)
(* without an error works, errors are laid at the right door, and the stub *)
(* describes the API that the real factory serves.                         *)
(*                                                                         *)
(* The argument: a validator turns something down exactly when it reports  *)
(* an error, and says of which item and which part.  So the state of the   *)
(* parser after some items of a trait can be told from these items alone,  *)
(* which is what the invariant says, and the rest is about operators.      *)
(***************************************************************************)
EXTENDS Macros, FiniteSetTheorems, SequenceTheorems, TLAPS

-----------------------------------------------------------------------------
(* Numbers and sequences.                                                  *)

\* A set of numbers has a least one.
LEMMA LeastNumber ==
  ASSUME NEW S, S \subseteq Nat, S # {}
  PROVE  \E n \in S : \A m \in S : n <= m
<1> DEFINE R == OpToRel(<, Nat)
<1>1. IsWellFoundedOn(R, Nat)
  BY NatLessThanWellFounded
<1>2. PICK n \in S : \A m \in S : ~(<<m, n>> \in R)
  <2> HIDE DEF R
  <2> QED
    BY <1>1, WFMin
<1>3. \A m \in S : ~(m < n)
  BY <1>2 DEF OpToRel
<1> QED
  BY <1>3

\* Induction up to n, for the numbers in a set.
LEMMA UpTo ==
  ASSUME NEW n \in Nat, NEW S, 0 \in S,
         \A i \in 1 .. n : i - 1 \in S => i \in S
  PROVE  \A i \in 0 .. n : i \in S
<1> DEFINE T == {i \in 0 .. n : i \notin S}
<1> SUFFICES ASSUME T # {} PROVE FALSE
  OBVIOUS
<1>1. PICK k \in T : \A m \in T : k <= m
  <2>1. T \subseteq Nat
    OBVIOUS
  <2> HIDE DEF T
  <2> QED
    BY <2>1, LeastNumber
<1>2. k \in 1 .. n /\ k - 1 \in 0 .. n /\ k \notin S
  OBVIOUS
<1>3. k - 1 \notin T
  BY <1>1, <1>2
<1> QED
  BY <1>2, <1>3

\* A sequence, of whatever it consists of.
IsSeq(s) == s \in Seq(Range(s))

\* What is known of any sequence.
LEMMA SeqFacts ==
  ASSUME NEW s, IsSeq(s)
  PROVE  /\ Len(s) \in Nat /\ DOMAIN s = 1 .. Len(s)
         /\ \A x \in Range(s) : \E k \in 1 .. Len(s) : s[k] = x
         /\ \A k \in 1 .. Len(s) : s[k] \in Range(s)
         /\ (s = <<>>) <=> (Range(s) = {})
         /\ (s = <<>>) <=> (Len(s) = 0)
<1>1. s \in Seq(Range(s))
  BY DEF IsSeq
<1>2. Len(s) \in Nat /\ DOMAIN s = 1 .. Len(s)
  BY <1>1
<1>3. /\ \A x \in Range(s) : \E k \in 1 .. Len(s) : s[k] = x
      /\ \A k \in 1 .. Len(s) : s[k] \in Range(s)
  BY <1>2 DEF Range
<1>4. (s = <<>>) <=> (Len(s) = 0)
  BY <1>1
<1>5. (Len(s) = 0) <=> (Range(s) = {})
  BY <1>2, <1>3
<1> QED
  BY <1>2, <1>3, <1>4, <1>5

\* A sequence over a set is one.
LEMMA SeqIsSeq ==
  ASSUME NEW S, NEW s \in Seq(S)
  PROVE  IsSeq(s) /\ Range(s) \subseteq S
BY SeqOfRange, RangeOfSeq DEF IsSeq

\* The empty one.
LEMMA EmptyIsSeq == IsSeq(<<>>) /\ Range(<<>>) = {} /\ Len(<<>>) = 0 /\ DOMAIN <<>> = {}
BY DEF IsSeq, Range

\* One of one element.
LEMMA OneIsSeq ==
  ASSUME NEW x
  PROVE  /\ IsSeq(<<x>>) /\ Range(<<x>>) = {x} /\ Len(<<x>>) = 1 /\ DOMAIN <<x>> = {1}
         /\ <<x>>[1] = x
<1>1. DOMAIN <<x>> = {1} /\ <<x>>[1] = x /\ Len(<<x>>) = 1
  OBVIOUS
<1>2. Range(<<x>>) = {x}
  BY <1>1 DEF Range
<1> QED
  BY <1>1, <1>2 DEF IsSeq

\* Two, one after the other.
LEMMA JoinFacts ==
  ASSUME NEW s, IsSeq(s), NEW t, IsSeq(t)
  PROVE  /\ IsSeq(s \o t) /\ Range(s \o t) = Range(s) \cup Range(t)
         /\ Len(s \o t) = Len(s) + Len(t)
         /\ \A i \in 1 .. Len(s) : (s \o t)[i] = s[i]
         /\ \A i \in 1 .. Len(t) : (s \o t)[Len(s) + i] = t[i]
<1> DEFINE S == Range(s) \cup Range(t)
<1>1. s \in Seq(S) /\ t \in Seq(S)
  <2>1. s \in Seq(Range(s)) /\ t \in Seq(Range(t))
    BY DEF IsSeq
  <2> QED
    BY <2>1, SeqMonotonic
<1>2. s \o t \in Seq(S) /\ Range(s \o t) = S
  BY <1>1, RangeConcatenation, ConcatProperties
<1> HIDE DEF S
<1>3. /\ Len(s \o t) = Len(s) + Len(t)
      /\ \A i \in 1 .. Len(s) : (s \o t)[i] = s[i]
      /\ \A i \in 1 .. Len(t) : (s \o t)[Len(s) + i] = t[i]
  BY <1>1
<1> QED
  BY <1>2, <1>3 DEF IsSeq, S

\* Append(), left unexpanded.
Added(s, x) == Append(s, x)

\* One more at the end.
LEMMA AddedFacts ==
  ASSUME NEW s, IsSeq(s), NEW x
  PROVE  /\ IsSeq(Added(s, x)) /\ Range(Added(s, x)) = Range(s) \cup {x}
         /\ Len(Added(s, x)) = Len(s) + 1 /\ Added(s, x) # <<>>
         /\ Added(s, x)[Len(s) + 1] = x
         /\ \A i \in 1 .. Len(s) : Added(s, x)[i] = s[i]
<1> DEFINE S == Range(s) \cup {x}
<1>1. s \in Seq(S) /\ x \in S
  <2>1. s \in Seq(Range(s))
    BY DEF IsSeq
  <2> QED
    BY <2>1, SeqMonotonic
<1> HIDE DEF S
<1>2. Added(s, x) = s \o <<x>> /\ Added(s, x) # <<>>
  BY <1>1 DEF Added
<1>3. /\ Len(Added(s, x)) = Len(s) + 1 /\ Added(s, x)[Len(s) + 1] = x
      /\ \A i \in 1 .. Len(s) : Added(s, x)[i] = s[i]
  BY <1>1 DEF Added
<1>4. IsSeq(s \o <<x>>) /\ Range(s \o <<x>>) = Range(s) \cup {x}
  BY OneIsSeq, JoinFacts
<1> QED
  BY <1>2, <1>3, <1>4

\* Two that agree everywhere are equal.
LEMMA SeqSame ==
  ASSUME NEW s, IsSeq(s), NEW t, IsSeq(t), Len(s) = Len(t),
         \A i \in 1 .. Len(s) : s[i] = t[i]
  PROVE  s = t
<1> DEFINE S == Range(s) \cup Range(t)
<1>1. s \in Seq(Range(s)) /\ t \in Seq(Range(t))
  BY DEF IsSeq
<1>2. s \in Seq(S) /\ t \in Seq(S)
  BY <1>1, SeqMonotonic
<1> HIDE DEF S
<1> QED
  BY <1>2, SeqEqual

-----------------------------------------------------------------------------
(* Filter.                                                                 *)

\* One turn of the recursive function in Kept(), and the function.
Turn(f, seq, set, k) ==
  IF k = 0 THEN <<>> ELSE IF seq[k] \in set THEN Append(f[k - 1], seq[k]) ELSE f[k - 1]

IsKeeping(f, seq, set, n) == f = [k \in 0 .. n |-> Turn(f, seq, set, k)]

\* The function exists.
LEMMA KeepingExists ==
  ASSUME NEW seq, NEW set, NEW n \in Nat
  PROVE  \E f : IsKeeping(f, seq, set, n)
<1> DEFINE S == {k \in Nat : ~ \E f : IsKeeping(f, seq, set, k)}
<1> SUFFICES ASSUME S # {} PROVE FALSE
  OBVIOUS
<1>1. PICK k \in S : \A m \in S : k <= m
  <2>1. S \subseteq Nat
    OBVIOUS
  <2> HIDE DEF S
  <2> QED
    BY <2>1, LeastNumber
<1>2. k \in Nat /\ ~ \E f : IsKeeping(f, seq, set, k)
  OBVIOUS
<1>3. CASE k = 0
  <2> DEFINE f == [i \in 0 .. 0 |-> <<>>]
  <2>1. \A i \in 0 .. 0 : Turn(f, seq, set, i) = <<>>
    BY DEF Turn
  <2>2. f = [i \in 0 .. 0 |-> Turn(f, seq, set, i)]
    BY <2>1
  <2> HIDE DEF f
  <2>3. IsKeeping(f, seq, set, 0)
    BY <2>2 DEF IsKeeping
  <2> QED
    BY <1>2, <1>3, <2>3
<1>4. CASE k > 0
  <2>1. k - 1 \in Nat /\ k - 1 \notin S
    BY <1>1, <1>2, <1>4
  <2>2. PICK f : IsKeeping(f, seq, set, k - 1)
    BY <2>1
  <2> DEFINE h == [i \in 0 .. k |-> IF i = k THEN Turn(f, seq, set, k) ELSE f[i]]
  <2>3. \A i \in 0 .. (k - 1) : h[i] = f[i]
    BY <2>1
  <2>4. \A i \in 0 .. k : Turn(h, seq, set, i) = Turn(f, seq, set, i)
    <3> SUFFICES ASSUME NEW i \in 0 .. k PROVE Turn(h, seq, set, i) = Turn(f, seq, set, i)
      OBVIOUS
    <3>1. i # 0 => h[i - 1] = f[i - 1]
      BY <2>1, <2>3
    <3> HIDE DEF h
    <3> QED
      BY <3>1, Zenon DEF Turn
  <2>5. \A i \in 0 .. (k - 1) : f[i] = Turn(f, seq, set, i)
    <3> DEFINE j == [i \in 0 .. (k - 1) |-> Turn(f, seq, set, i)]
    <3>1. f = j
      BY <2>2, Zenon DEF IsKeeping
    <3>2. \A i \in 0 .. (k - 1) : j[i] = Turn(f, seq, set, i)
      OBVIOUS
    <3> QED
      BY <3>1, <3>2, Zenon
  <2>6. h = [i \in 0 .. k |-> Turn(h, seq, set, i)]
    <3>1. \A i \in 0 .. k : h[i] = Turn(h, seq, set, i)
      BY <2>1, <2>4, <2>5
    <3>2. DOMAIN h = 0 .. k /\ h = [i \in 0 .. k |-> h[i]]
      OBVIOUS
    <3> HIDE DEF h
    <3> QED
      BY <3>1, <3>2
  <2> HIDE DEF h
  <2>7. IsKeeping(h, seq, set, k)
    BY <2>6, Zenon DEF IsKeeping
  <2> QED
    BY <1>2, <2>7
<1> QED
  BY <1>2, <1>3, <1>4

\* One element after the other.
LEMMA KeptUnfolds ==
  ASSUME NEW seq, NEW set, Len(seq) \in Nat
  PROVE  /\ Kept(seq, set)[0] = <<>>
         /\ \A k \in 1 .. Len(seq) :
              Kept(seq, set)[k] = IF seq[k] \in set THEN Added(Kept(seq, set)[k - 1], seq[k])
                                  ELSE Kept(seq, set)[k - 1]
<1> DEFINE w == Kept(seq, set)
           n == Len(seq)
           j == [i \in 0 .. n |-> Turn(w, seq, set, i)]
<1>1. \E f : IsKeeping(f, seq, set, n)
  BY KeepingExists
<1>2. w = CHOOSE f : IsKeeping(f, seq, set, n)
  BY Zenon DEF Kept, IsKeeping, Turn
<1>3. IsKeeping(w, seq, set, n)
  <2> HIDE DEF w
  <2> QED
    BY <1>1, <1>2, Zenon
<1>4. w = j
  BY <1>3, Zenon DEF IsKeeping
<1>5. \A i \in 0 .. n : j[i] = Turn(w, seq, set, i)
  OBVIOUS
<1>6. \A i \in 0 .. n : w[i] = Turn(w, seq, set, i)
  BY <1>4, <1>5, Zenon
<1>7. 0 \in 0 .. n /\ \A i \in 1 .. n : i \in 0 .. n /\ i # 0
  OBVIOUS
<1> HIDE DEF w, n, j
<1> QED
  BY <1>6, <1>7, Zenon DEF Turn, Added, w, n

\* The first k elements.
First(seq, k) == {seq[i] : i \in 1 .. k}

\* What is kept after k elements: those in the set, and no others.
LEMMA KeptFacts ==
  ASSUME NEW seq, IsSeq(seq), NEW set, NEW k \in 0 .. Len(seq)
  PROVE  /\ IsSeq(Kept(seq, set)[k]) /\ Len(Kept(seq, set)[k]) <= k
         /\ Range(Kept(seq, set)[k]) = First(seq, k) \cap set
<1> DEFINE n == Len(seq)
           w == Kept(seq, set)
           OK(i) == /\ IsSeq(w[i]) /\ Len(w[i]) <= i
                    /\ Range(w[i]) = First(seq, i) \cap set
           S == {i \in 0 .. n : OK(i)}
<1>1. n \in Nat
  BY SeqFacts
<1>2. /\ w[0] = <<>>
      /\ \A i \in 1 .. n : w[i] = IF seq[i] \in set THEN Added(w[i - 1], seq[i]) ELSE w[i - 1]
  BY <1>1, KeptUnfolds
<1> HIDE DEF w
<1>3. OK(0)
  <2>1. First(seq, 0) = {}
    BY DEF First
  <2> QED
    BY <1>2, <2>1, EmptyIsSeq
<1>4. ASSUME NEW i \in 1 .. n, OK(i - 1) PROVE OK(i)
  <2>1. First(seq, i) = First(seq, i - 1) \cup {seq[i]}
    <3>1. 1 .. i = (1 .. (i - 1)) \cup {i}
      BY <1>1
    <3> QED
      BY <3>1 DEF First
  <2>2. Len(w[i - 1]) \in Nat /\ i \in Nat
    BY <1>1, <1>4, SeqFacts
  <2>3. CASE seq[i] \in set
    <3>1. w[i] = Added(w[i - 1], seq[i])
      BY <1>2, <2>3
    <3>2. IsSeq(w[i]) /\ Len(w[i]) = Len(w[i - 1]) + 1 /\ Range(w[i]) = Range(w[i - 1]) \cup {seq[i]}
      BY <1>4, <3>1, AddedFacts
    <3> QED
      BY <1>4, <2>1, <2>2, <2>3, <3>2
  <2>4. CASE seq[i] \notin set
    <3>1. w[i] = w[i - 1]
      BY <1>2, <2>4
    <3> QED
      BY <1>4, <2>1, <2>2, <2>4, <3>1
  <2> QED
    BY <2>3, <2>4
<1>5. \A i \in 0 .. n : i \in S
  <2> HIDE DEF OK
  <2>1. 0 \in S /\ \A i \in 1 .. n : i - 1 \in S => i \in S
    BY <1>1, <1>3, <1>4
  <2> HIDE DEF S
  <2> QED
    BY <1>1, <2>1, UpTo
<1>6. OK(k)
  <2> HIDE DEF OK
  <2> QED
    BY <1>5
<1> QED
  BY <1>6 DEF w

\* The same, for the whole sequence.
LEMMA FilterFacts ==
  ASSUME NEW seq, IsSeq(seq), NEW set
  PROVE  /\ IsSeq(Filter(seq, set)) /\ Range(Filter(seq, set)) = Range(seq) \cap set
         /\ (Filter(seq, set) = <<>>) <=> (Range(seq) \cap set = {})
<1> DEFINE n == Len(seq)
           f == Filter(seq, set)
<1>1. n \in Nat /\ n \in 0 .. n /\ Range(seq) = First(seq, n)
  BY SeqFacts DEF Range, First
<1>2. f = Kept(seq, set)[n]
  BY DEF Filter
<1> HIDE DEF f
<1>3. IsSeq(f) /\ Range(f) = Range(seq) \cap set
  BY <1>1, <1>2, KeptFacts
<1>4. (f = <<>>) <=> (Range(f) = {})
  BY <1>3, SeqFacts
<1> QED
  BY <1>3, <1>4 DEF f

\* Two sequences that begin alike, filtered by sets that agree on the beginning.
LEMMA KeptSame ==
  ASSUME NEW s, IsSeq(s), NEW t, IsSeq(t), NEW S, NEW T, NEW n \in Nat,
         n <= Len(s), n <= Len(t),
         \A i \in 1 .. n : s[i] = t[i] /\ (s[i] \in S <=> t[i] \in T)
  PROVE  \A i \in 0 .. n : Kept(s, S)[i] = Kept(t, T)[i]
<1> DEFINE v == Kept(s, S)
           w == Kept(t, T)
           P == {i \in 0 .. n : v[i] = w[i]}
<1>1. Len(s) \in Nat /\ Len(t) \in Nat
  BY SeqFacts
<1>2. /\ v[0] = <<>>
      /\ \A i \in 1 .. Len(s) : v[i] = IF s[i] \in S THEN Added(v[i - 1], s[i]) ELSE v[i - 1]
  BY <1>1, KeptUnfolds
<1>3. /\ w[0] = <<>>
      /\ \A i \in 1 .. Len(t) : w[i] = IF t[i] \in T THEN Added(w[i - 1], t[i]) ELSE w[i - 1]
  BY <1>1, KeptUnfolds
<1> HIDE DEF v, w
<1>4. 0 \in P
  BY <1>2, <1>3
<1>5. ASSUME NEW i \in 1 .. n, i - 1 \in P PROVE i \in P
  <2>1. i \in 1 .. Len(s) /\ i \in 1 .. Len(t) /\ v[i - 1] = w[i - 1]
    BY <1>1, <1>5
  <2>2. v[i] = w[i]
    BY <1>2, <1>3, <2>1
  <2> QED
    BY <2>2
<1>6. \A i \in 0 .. n : i \in P
  <2>1. 0 \in P /\ \A i \in 1 .. n : i - 1 \in P => i \in P
    BY <1>4, <1>5
  <2> HIDE DEF P
  <2> QED
    BY <2>1, UpTo
<1> QED
  BY <1>6 DEF v, w

\* Only what the set says of the elements counts.
LEMMA FilterSame ==
  ASSUME NEW s, IsSeq(s), NEW S, NEW T, \A x \in Range(s) : x \in S <=> x \in T
  PROVE  Filter(s, S) = Filter(s, T)
<1>1. Len(s) \in Nat /\ Len(s) \in 0 .. Len(s) /\ \A i \in 1 .. Len(s) : s[i] \in S <=> s[i] \in T
  BY SeqFacts
<1>2. \A i \in 0 .. Len(s) : Kept(s, S)[i] = Kept(s, T)[i]
  BY <1>1, KeptSame
<1> QED
  BY <1>1, <1>2 DEF Filter

\* One more element.
LEMMA FilterAdded ==
  ASSUME NEW s, IsSeq(s), NEW x, NEW S
  PROVE  Filter(Added(s, x), S) = IF x \in S THEN Added(Filter(s, S), x) ELSE Filter(s, S)
<1> DEFINE t == Added(s, x)
           n == Len(s)
<1>1. /\ n \in Nat /\ IsSeq(t) /\ Len(t) = n + 1 /\ t[n + 1] = x
      /\ \A i \in 1 .. n : t[i] = s[i]
  <2>1. n \in Nat
    BY SeqFacts
  <2> QED
    BY <2>1, AddedFacts
<1> HIDE DEF t
<1>2. \A i \in 0 .. n : Kept(t, S)[i] = Kept(s, S)[i]
  BY <1>1, KeptSame
<1>3. n + 1 \in 1 .. Len(t) /\ Len(t) \in Nat /\ (n + 1) - 1 = n /\ n \in 0 .. n
  BY <1>1
<1> HIDE DEF n
<1>4. Kept(t, S)[n + 1] = IF x \in S THEN Added(Kept(t, S)[n], x) ELSE Kept(t, S)[n]
  BY <1>1, <1>3, KeptUnfolds
<1> QED
  BY <1>1, <1>2, <1>3, <1>4 DEF Filter, t, n

\* Nothing comes of nothing.
LEMMA FilterEmpty ==
  ASSUME NEW S
  PROVE  Filter(<<>>, S) = <<>>
BY EmptyIsSeq, FilterFacts

\* Everything may stay.
LEMMA FilterAll ==
  ASSUME NEW s, IsSeq(s), NEW S, Range(s) \subseteq S
  PROVE  Filter(s, S) = s
<1> DEFINE n == Len(s)
           w == Kept(s, S)
           OK(i) == IsSeq(w[i]) /\ Len(w[i]) = i /\ \A m \in 1 .. i : w[i][m] = s[m]
           P == {i \in 0 .. n : OK(i)}
<1>1. n \in Nat /\ n \in 0 .. n /\ \A i \in 1 .. n : s[i] \in S
  BY SeqFacts
<1>2. w[0] = <<>> /\ \A i \in 1 .. n : w[i] = Added(w[i - 1], s[i])
  BY <1>1, KeptUnfolds
<1>3. Filter(s, S) = w[n]
  BY DEF Filter
<1> HIDE DEF w
<1>4. OK(0)
  BY <1>2, EmptyIsSeq
<1>5. ASSUME NEW i \in 1 .. n, OK(i - 1) PROVE OK(i)
  <2>1. w[i] = Added(w[i - 1], s[i])
    BY <1>2
  <2>2. /\ IsSeq(w[i]) /\ Len(w[i]) = Len(w[i - 1]) + 1 /\ w[i][Len(w[i - 1]) + 1] = s[i]
        /\ \A m \in 1 .. Len(w[i - 1]) : w[i][m] = w[i - 1][m]
    BY <1>5, <2>1, AddedFacts
  <2>3. Len(w[i - 1]) = i - 1 /\ (i - 1) + 1 = i
    BY <1>1, <1>5
  <2>4. \A m \in 1 .. i : m \in 1 .. (i - 1) \/ m = i
    BY <1>1
  <2> QED
    BY <1>5, <2>2, <2>3, <2>4
<1>6. OK(n)
  <2> HIDE DEF OK
  <2>1. 0 \in P /\ \A i \in 1 .. n : i - 1 \in P => i \in P
    BY <1>1, <1>4, <1>5
  <2>2. \A i \in 0 .. n : i \in P
    <3> HIDE DEF P, n
    <3> QED
      BY <1>1, <2>1, UpTo
  <2> QED
    BY <1>1, <2>2
<1> QED
  BY <1>3, <1>6, SeqSame

\* A second filter only sees what the first let through.
LEMMA FilterTwice ==
  ASSUME NEW s, IsSeq(s), NEW S, NEW T
  PROVE  Filter(Filter(s, S), T) = Filter(s, S \cap T)
<1> DEFINE n == Len(s)
           v == Kept(s, S)
           w == Kept(s, S \cap T)
           OK(i) == Filter(v[i], T) = w[i]
           P == {i \in 0 .. n : OK(i)}
<1>1. n \in Nat /\ n \in 0 .. n
  BY SeqFacts
<1>2. v[0] = <<>> /\ \A i \in 1 .. n : v[i] = IF s[i] \in S THEN Added(v[i - 1], s[i]) ELSE v[i - 1]
  BY <1>1, KeptUnfolds
<1>3. w[0] = <<>> /\ \A i \in 1 .. n : w[i] = IF s[i] \in S \cap T THEN Added(w[i - 1], s[i]) ELSE w[i - 1]
  BY <1>1, KeptUnfolds
<1>4. Filter(s, S) = v[n] /\ Filter(s, S \cap T) = w[n]
  BY DEF Filter
<1>5. \A i \in 0 .. n : IsSeq(v[i])
  BY KeptFacts
<1> HIDE DEF v, w
<1>6. OK(0)
  BY <1>2, <1>3, FilterEmpty
<1>7. ASSUME NEW i \in 1 .. n, OK(i - 1) PROVE OK(i)
  <2>1. IsSeq(v[i - 1])
    BY <1>1, <1>5
  <2>2. CASE s[i] \in S
    <3>1. Filter(v[i], T) = IF s[i] \in T THEN Added(Filter(v[i - 1], T), s[i]) ELSE Filter(v[i - 1], T)
      BY <1>2, <2>1, <2>2, FilterAdded
    <3> QED
      BY <1>3, <1>7, <2>2, <3>1
  <2>3. CASE s[i] \notin S
    BY <1>2, <1>3, <1>7, <2>3
  <2> QED
    BY <2>2, <2>3
<1>8. OK(n)
  <2> HIDE DEF OK
  <2>1. 0 \in P /\ \A i \in 1 .. n : i - 1 \in P => i \in P
    BY <1>1, <1>6, <1>7
  <2>2. \A i \in 0 .. n : i \in P
    <3> HIDE DEF P, n
    <3> QED
      BY <1>1, <2>1, UpTo
  <2> QED
    BY <1>1, <2>2
<1> QED
  BY <1>4, <1>8

-----------------------------------------------------------------------------
(* Validators.                                                             *)

\* A sequence made from another, element by element.
LEMMA MapFacts ==
  ASSUME NEW s, IsSeq(s), NEW m, m = [k \in DOMAIN s |-> m[k]]
  PROVE  /\ IsSeq(m) /\ Len(m) = Len(s) /\ DOMAIN m = DOMAIN s
         /\ (m = <<>>) <=> (s = <<>>)
<1> DEFINE n == Len(s)
<1>1. n \in Nat /\ DOMAIN s = 1 .. n
  BY SeqFacts
<1>2. DOMAIN m = 1 .. n /\ m = [k \in 1 .. n |-> m[k]]
  BY <1>1
<1>3. \A k \in 1 .. n : m[k] \in Range(m)
  BY <1>2 DEF Range
<1>4. m \in [1 .. n -> Range(m)]
  BY <1>2, <1>3
<1>5. m \in Seq(Range(m)) /\ Len(m) = n
  BY <1>1, <1>4
<1>6. IsSeq(m)
  BY <1>5 DEF IsSeq
<1>7. ((m = <<>>) <=> (Len(m) = 0)) /\ ((s = <<>>) <=> (n = 0))
  BY <1>6, SeqFacts
<1> QED
  BY <1>1, <1>2, <1>5, <1>6, <1>7

\* Concatenation, left unexpanded.
Joined(s, t) == s \o t

\* What concatenation is.
LEMMA JoinedFacts ==
  ASSUME NEW s, IsSeq(s), NEW t, IsSeq(t)
  PROVE  /\ IsSeq(Joined(s, t)) /\ Range(Joined(s, t)) = Range(s) \cup Range(t)
         /\ Len(Joined(s, t)) = Len(s) + Len(t)
         /\ (Joined(s, t) = <<>>) <=> (s = <<>> /\ t = <<>>)
         /\ \A i \in 1 .. Len(s) : Joined(s, t)[i] = s[i]
<1> DEFINE j == s \o t
<1>1. /\ IsSeq(j) /\ Range(j) = Range(s) \cup Range(t) /\ Len(j) = Len(s) + Len(t)
      /\ \A i \in 1 .. Len(s) : j[i] = s[i]
      /\ \A i \in 1 .. Len(t) : j[Len(s) + i] = t[i]
  <2>1. IsSeq(j) /\ Range(j) = Range(s) \cup Range(t)
    BY JoinFacts, Zenon
  <2>2. s \in Seq(Range(s) \cup Range(t)) /\ t \in Seq(Range(s) \cup Range(t))
    <3>1. s \in Seq(Range(s)) /\ t \in Seq(Range(t))
      BY DEF IsSeq
    <3> QED
      BY <3>1, SeqMonotonic
  <2>3. /\ Len(j) = Len(s) + Len(t)
        /\ \A i \in 1 .. Len(s) : j[i] = s[i]
        /\ \A i \in 1 .. Len(t) : j[Len(s) + i] = t[i]
    BY <2>2
  <2> QED
    BY <2>1, <2>3, Zenon
<1> HIDE DEF j
<1>2. (j = <<>>) <=> (s = <<>> /\ t = <<>>)
  <2>1. (j = <<>>) <=> (Len(j) = 0)
    BY <1>1, SeqFacts
  <2>2. /\ (s = <<>>) <=> (Len(s) = 0)
        /\ (t = <<>>) <=> (Len(t) = 0)
        /\ Len(s) \in Nat /\ Len(t) \in Nat
    BY SeqFacts
  <2> QED
    BY <1>1, <2>1, <2>2
<1> QED
  BY <1>1, <1>2, Zenon DEF j, Joined

\* The elements of the second one.
LEMMA JoinedAt ==
  ASSUME NEW s, IsSeq(s), NEW t, IsSeq(t)
  PROVE  \A k \in (Len(s) + 1) .. (Len(s) + Len(t)) : Joined(s, t)[k] = t[k - Len(s)]
<1> DEFINE S == Range(s) \cup Range(t)
<1>1. s \in Seq(S) /\ t \in Seq(S)
  <2>1. s \in Seq(Range(s)) /\ t \in Seq(Range(t))
    BY DEF IsSeq
  <2> QED
    BY <2>1, SeqMonotonic
<1> HIDE DEF S
<1> QED
  BY <1>1 DEF Joined

\* Errors about one item and one part of it.
Blames(errs, name, part) ==
  IsSeq(errs) /\ \A e \in Range(errs) : e.about = name /\ e.part = part

\* A validator turns something down exactly when it says why.
Judged(j, name) ==
  /\ Blames(j.errs, name, "params")
  /\ (j.val = None) <=> (j.errs # <<>>)

\* No error, and one.
LEMMA BlamesFew ==
  ASSUME NEW name, NEW part, NEW msg
  PROVE  /\ Blames(<<>>, name, part) /\ Blames(<<Err(name, part, msg)>>, name, part)
         /\ <<Err(name, part, msg)>> # <<>>
<1> DEFINE e == Err(name, part, msg)
<1>1. e.about = name /\ e.part = part
  BY DEF Err
<1> HIDE DEF e
<1>2. IsSeq(<<e>>) /\ Range(<<e>>) = {e} /\ IsSeq(<<>>) /\ Range(<<>>) = {} /\ <<e>> # <<>>
  BY OneIsSeq, EmptyIsSeq
<1> QED
  BY <1>1, <1>2 DEF Blames, e

\* Errors about one item and one part, followed by more of them.
LEMMA BlamesJoined ==
  ASSUME NEW name, NEW part, NEW s, Blames(s, name, part), NEW t, Blames(t, name, part)
  PROVE  /\ Blames(Joined(s, t), name, part)
         /\ (Joined(s, t) = <<>>) <=> (s = <<>> /\ t = <<>>)
<1>1. IsSeq(s) /\ IsSeq(t)
  BY DEF Blames
<1>2. IsSeq(Joined(s, t)) /\ Range(Joined(s, t)) = Range(s) \cup Range(t)
  BY <1>1, JoinedFacts
<1>3. (Joined(s, t) = <<>>) <=> (s = <<>> /\ t = <<>>)
  BY <1>1, JoinedFacts, Zenon
<1> QED
  BY <1>2, <1>3 DEF Blames

\* Eight elements, as in FnRules.
LEMMA EightIsSeq ==
  ASSUME NEW a, NEW b, NEW c, NEW d, NEW e, NEW f, NEW g, NEW h
  PROVE  IsSeq(<<a, b, c, d, e, f, g, h>>)
<1> DEFINE s == <<a, b, c, d, e, f, g, h>>
           S == {a, b, c, d, e, f, g, h}
<1>1. DOMAIN s = 1 .. 8 /\ Len(s) = 8 /\ s = [k \in 1 .. 8 |-> s[k]]
  OBVIOUS
<1>2. /\ s[1] \in S /\ s[2] \in S /\ s[3] \in S /\ s[4] \in S
      /\ s[5] \in S /\ s[6] \in S /\ s[7] \in S /\ s[8] \in S
  OBVIOUS
<1> HIDE DEF s, S
<1>3. \A k \in 1 .. 8 : s[k] \in S
  BY <1>2
<1>4. s \in Seq(S)
  BY <1>1, <1>3
<1> QED
  BY <1>4, SeqIsSeq DEF s

\* validate_fn_ast() blames the function.
LEMMA FnAstBlames ==
  ASSUME NEW sig
  PROVE  Blames(validate_fn_ast(sig), sig.ident, "params")
<1> DEFINE found == Filter(FnRules, sig.quals)
           errs == [k \in DOMAIN found |-> Err(sig.ident, "params", <<found[k], "">>)]
<1>1. IsSeq(FnRules)
  BY EightIsSeq, Zenon DEF FnRules
<1>2. IsSeq(found)
  BY <1>1, FilterFacts
<1> HIDE DEF found
<1>3. errs = [k \in DOMAIN found |-> errs[k]] /\ DOMAIN errs = DOMAIN found
      /\ \A k \in DOMAIN found : errs[k].about = sig.ident /\ errs[k].part = "params"
  BY DEF Err
<1>4. validate_fn_ast(sig) = errs
  BY DEF validate_fn_ast, found
<1> HIDE DEF errs
<1>5. IsSeq(errs)
  BY <1>2, <1>3, MapFacts
<1> QED
  BY <1>3, <1>4, <1>5 DEF Blames, Range

\* A type passes as it is, or is turned down.
LEMMA TypeJudged ==
  ASSUME NEW ty, ty # None, IsSeq(ty.nodes), NEW kind, NEW name
  PROVE  LET j == validate_param_ty(ty, kind, name)
         IN  Judged(j, name) /\ (j.val # None => j.val = ty)
<1> DEFINE bad == Filter(ty.nodes, Range(ty.nodes) \ {"static"})
           errs == [k \in DOMAIN bad |-> Err(name, "params", <<bad[k], kind>>)]
           j == validate_param_ty(ty, kind, name)
<1>1. IsSeq(bad)
  BY FilterFacts
<1>2. j = [val |-> IF errs = <<>> THEN ty ELSE None, errs |-> errs]
  BY DEF validate_param_ty
<1> HIDE DEF bad, j
<1>3. errs = [k \in DOMAIN bad |-> errs[k]] /\ DOMAIN errs = DOMAIN bad
      /\ \A k \in DOMAIN bad : errs[k].about = name /\ errs[k].part = "params"
  BY DEF Err
<1> HIDE DEF errs
<1>4. IsSeq(errs)
  BY <1>1, <1>3, MapFacts
<1>5. Blames(errs, name, "params")
  BY <1>3, <1>4 DEF Blames, Range
<1>6. j.errs = errs /\ j.val = IF errs = <<>> THEN ty ELSE None
  BY <1>2
<1> QED
  BY <1>5, <1>6 DEF Judged, j

\* The kinds of context: a function's, or a trait's.
IsKind(kind) == kind = None \/ \E c : kind = [context |-> c]

\* A trait's context is a kind, and not that of a function.
LEMMA TraitKind == ASSUME NEW c PROVE IsKind([context |-> c]) /\ [context |-> c] # None
<1>1. DOMAIN [context |-> c] = {"context"} /\ DOMAIN None = {"none"}
  BY DEF None
<1> QED
  BY <1>1 DEF IsKind

\* A RequestContext passes, or is turned down; on a function it stays as it is.
LEMMA RqctxJudged ==
  ASSUME NEW name, NEW kind, NEW ty, IsType(ty)
  PROVE  LET j == RqctxTy(name, kind, ty)
         IN  Judged(j, name) /\ (j.val # None /\ kind = None => j.val.unit = ty)
<1> DEFINE found == extract_rqctx_param(ty)
           j == RqctxTy(name, kind, ty)
           whole == [orig |-> ty, unit |-> ty, server_impl |-> ty]
<1>1. \A x : /\ Blames(<<>>, name, "params")
             /\ Blames(<<Err(name, "params", x)>>, name, "params")
             /\ <<Err(name, "params", x)>> # <<>>
  BY BlamesFew
<1>2. \A o, u, s : [orig |-> o, unit |-> u, server_impl |-> s] # None
  <2> SUFFICES ASSUME NEW o, NEW u, NEW s PROVE [orig |-> o, unit |-> u, server_impl |-> s] # None
    OBVIOUS
  <2>1. DOMAIN [orig |-> o, unit |-> u, server_impl |-> s] = {"orig", "unit", "server_impl"}
        /\ DOMAIN None = {"none"}
    BY DEF None
  <2> QED
    BY <2>1
<1>3. CASE kind = None
  <2> DEFINE inner == validate_param_ty(found.arg, "RequestContext", name)
  <2>1. j = RqctxTyFunction(name, ty)
    BY <1>3 DEF RqctxTy
  <2>2. CASE ~found.ok
    <3>1. j = [val |-> None, errs |-> <<Err(name, "params", <<"not", "RequestContext">>)>>]
      BY <2>1, <2>2, Zenon DEF RqctxTyFunction
    <3> HIDE DEF j
    <3>2. j.val = None /\ j.errs = <<Err(name, "params", <<"not", "RequestContext">>)>>
      BY <3>1
    <3> QED
      BY <1>1, <3>2, Zenon DEF Judged, j
  <2>3. CASE found.ok /\ found.arg = None
    <3>1. j = [val |-> whole, errs |-> <<>>]
      BY <2>1, <2>3, Zenon DEF RqctxTyFunction
    <3>2. j.val = whole /\ j.errs = <<>> /\ whole.unit = ty
      BY <3>1
    <3> HIDE DEF j
    <3> QED
      BY <1>1, <1>2, <3>2, Zenon DEF Judged, j
  <2>4. CASE found.ok /\ found.arg # None
    <3>1. j = [val |-> IF inner.val = None THEN None ELSE whole, errs |-> inner.errs]
      BY <2>1, <2>4, Zenon DEF RqctxTyFunction
    <3>2. ty.form = "one" /\ found.arg = ty.arg
      BY <2>4 DEF extract_rqctx_param
    <3>3. Judged(inner, name)
      BY <2>4, <3>2, TypeJudged DEF IsType, IsSeq
    <3> HIDE DEF inner, found, j
    <3>4. j.errs = inner.errs /\ j.val = IF inner.val = None THEN None ELSE whole
      BY <3>1
    <3>5. whole # None /\ whole.unit = ty
      BY <1>2
    <3> HIDE DEF whole
    <3> QED
      BY <3>3, <3>4, <3>5 DEF Judged, j
  <2> QED
    BY <2>2, <2>3, <2>4
<1>4. CASE kind # None
  <2> DEFINE c == kind.context
             bad == \/ ~found.ok \/ found.arg = None
                    \/ found.arg.name \notin {<<"Self", c>>, <<"<Self>", c>>}
             good == [orig |-> ty, unit |-> [ty EXCEPT !.arg = UnitTy],
                      server_impl |-> [ty EXCEPT !.arg = Type("<ServerImpl>", c)]]
  <2>1. j = RqctxTyTrait(name, c, ty)
    BY <1>4 DEF RqctxTy
  <2>2. CASE bad
    <3>1. j = [val |-> None, errs |-> <<Err(name, "params", <<"not", "RequestContext">>)>>]
      BY <2>1, <2>2, Zenon DEF RqctxTyTrait
    <3> HIDE DEF j
    <3>2. j.val = None /\ j.errs = <<Err(name, "params", <<"not", "RequestContext">>)>>
      BY <3>1
    <3> QED
      BY <1>1, <3>2, Zenon DEF Judged, j
  <2>3. CASE ~bad
    <3>1. j = [val |-> good, errs |-> <<>>]
      BY <2>1, <2>3, Zenon DEF RqctxTyTrait
    <3>2. good # None
      BY <1>2
    <3> HIDE DEF j, good
    <3>3. j.val = good /\ j.errs = <<>>
      BY <3>1
    <3> QED
      BY <1>1, <1>4, <3>2, <3>3, Zenon DEF Judged, j
  <2> QED
    BY <2>2, <2>3
<1> QED
  BY <1>3, <1>4

\* One turn of the recursive function in rest_extractor_args(), and the
\* function.
Check(f, tys, name, k) ==
  IF k = 0 THEN [val |-> <<>>, errs |-> <<>>]
  ELSE LET ty == validate_param_ty(tys[k], "extractor", name)
       IN [val  |-> IF ty.val = None THEN f[k - 1].val ELSE Append(f[k - 1].val, ty.val),
           errs |-> f[k - 1].errs \o ty.errs]

IsChecking(f, tys, name, n) == f = [k \in 0 .. n |-> Check(f, tys, name, k)]

CheckedBy(tys, name) == CHOOSE f : IsChecking(f, tys, name, Len(tys))

\* The function exists.
LEMMA CheckingExists ==
  ASSUME NEW tys, NEW name, NEW n \in Nat
  PROVE  \E f : IsChecking(f, tys, name, n)
<1> DEFINE S == {k \in Nat : ~ \E f : IsChecking(f, tys, name, k)}
<1> SUFFICES ASSUME S # {} PROVE FALSE
  OBVIOUS
<1>1. PICK k \in S : \A m \in S : k <= m
  <2>1. S \subseteq Nat
    OBVIOUS
  <2> HIDE DEF S
  <2> QED
    BY <2>1, LeastNumber
<1>2. k \in Nat /\ ~ \E f : IsChecking(f, tys, name, k)
  OBVIOUS
<1>3. CASE k = 0
  <2> DEFINE f == [i \in 0 .. 0 |-> [val |-> <<>>, errs |-> <<>>]]
  <2>1. \A i \in 0 .. 0 : Check(f, tys, name, i) = [val |-> <<>>, errs |-> <<>>]
    BY DEF Check
  <2>2. f = [i \in 0 .. 0 |-> Check(f, tys, name, i)]
    BY <2>1
  <2> HIDE DEF f
  <2>3. IsChecking(f, tys, name, 0)
    BY <2>2 DEF IsChecking
  <2> QED
    BY <1>2, <1>3, <2>3
<1>4. CASE k > 0
  <2>1. k - 1 \in Nat /\ k - 1 \notin S
    BY <1>1, <1>2, <1>4
  <2>2. PICK f : IsChecking(f, tys, name, k - 1)
    BY <2>1
  <2> DEFINE h == [i \in 0 .. k |-> IF i = k THEN Check(f, tys, name, k) ELSE f[i]]
  <2>3. \A i \in 0 .. (k - 1) : h[i] = f[i]
    BY <2>1
  <2>4. \A i \in 0 .. k : Check(h, tys, name, i) = Check(f, tys, name, i)
    <3> SUFFICES ASSUME NEW i \in 0 .. k PROVE Check(h, tys, name, i) = Check(f, tys, name, i)
      OBVIOUS
    <3>1. i # 0 => h[i - 1] = f[i - 1]
      BY <2>1, <2>3
    <3> HIDE DEF h
    <3> QED
      BY <3>1, Zenon DEF Check
  <2>5. \A i \in 0 .. (k - 1) : f[i] = Check(f, tys, name, i)
    <3> DEFINE j == [i \in 0 .. (k - 1) |-> Check(f, tys, name, i)]
    <3>1. f = j
      BY <2>2, Zenon DEF IsChecking
    <3>2. \A i \in 0 .. (k - 1) : j[i] = Check(f, tys, name, i)
      OBVIOUS
    <3> QED
      BY <3>1, <3>2, Zenon
  <2>6. h = [i \in 0 .. k |-> Check(h, tys, name, i)]
    <3>1. \A i \in 0 .. k : h[i] = Check(h, tys, name, i)
      BY <2>1, <2>4, <2>5
    <3>2. DOMAIN h = 0 .. k /\ h = [i \in 0 .. k |-> h[i]]
      OBVIOUS
    <3> HIDE DEF h
    <3> QED
      BY <3>1, <3>2
  <2> HIDE DEF h
  <2>7. IsChecking(h, tys, name, k)
    BY <2>6, Zenon DEF IsChecking
  <2> QED
    BY <1>2, <2>7
<1> QED
  BY <1>2, <1>3, <1>4

\* One type after the other.
LEMMA CheckingUnfolds ==
  ASSUME NEW tys, NEW name, Len(tys) \in Nat
  PROVE  /\ rest_extractor_args(tys, name) = CheckedBy(tys, name)[Len(tys)]
         /\ \A i \in 0 .. Len(tys) : CheckedBy(tys, name)[i] = Check(CheckedBy(tys, name), tys, name, i)
<1>1. IsChecking(CheckedBy(tys, name), tys, name, Len(tys))
  BY CheckingExists, Zenon DEF CheckedBy
<1>2. rest_extractor_args(tys, name) = CheckedBy(tys, name)[Len(tys)]
  BY Zenon DEF rest_extractor_args, CheckedBy, IsChecking, Check
<1> DEFINE w == CheckedBy(tys, name)
           j == [i \in 0 .. Len(tys) |-> Check(w, tys, name, i)]
<1>3. w = j
  BY <1>1, Zenon DEF IsChecking
<1>4. \A i \in 0 .. Len(tys) : j[i] = Check(w, tys, name, i)
  OBVIOUS
<1> QED
  BY <1>2, <1>3, <1>4, Zenon

\* Without an error, all types have passed.
LEMMA RestJudged ==
  ASSUME NEW tys, IsSeq(tys), \A ty \in Range(tys) : IsType(ty), NEW name
  PROVE  LET j == rest_extractor_args(tys, name)
         IN  Blames(j.errs, name, "params") /\ (j.errs = <<>> => j.val = tys)
<1> DEFINE n == Len(tys)
           w == CheckedBy(tys, name)
           OK(k) == /\ Blames(w[k].errs, name, "params")
                    /\ w[k].errs = <<>> => /\ IsSeq(w[k].val) /\ Len(w[k].val) = k
                                           /\ \A i \in 1 .. k : w[k].val[i] = tys[i]
           S == {k \in 0 .. n : OK(k)}
<1>1. n \in Nat /\ n \in 0 .. n /\ \A k \in 1 .. n : IsType(tys[k])
  BY SeqFacts
<1>2. /\ rest_extractor_args(tys, name) = w[n]
      /\ \A k \in 0 .. n : w[k] = Check(w, tys, name, k)
  BY <1>1, CheckingUnfolds
<1> HIDE DEF w
<1>3. OK(0)
  <2>1. w[0] = [val |-> <<>>, errs |-> <<>>]
    <3>1. 0 \in 0 .. n
      BY <1>1
    <3> QED
      BY <1>2, <3>1, Zenon DEF Check
  <2>2. w[0].val = <<>> /\ w[0].errs = <<>>
    BY <2>1
  <2>3. Blames(<<>>, name, "params") /\ IsSeq(<<>>) /\ Len(<<>>) = 0
    BY EmptyIsSeq, BlamesFew
  <2> QED
    BY <2>2, <2>3
<1>4. ASSUME NEW k \in 1 .. n, OK(k - 1) PROVE OK(k)
  <2> DEFINE ty == validate_param_ty(tys[k], "extractor", name)
             p == w[k - 1]
  <2>1. w[k] = [val |-> IF ty.val = None THEN p.val ELSE Added(p.val, ty.val),
                errs |-> Joined(p.errs, ty.errs)]
    <3>1. k \in 0 .. n /\ k # 0
      BY <1>1
    <3> QED
      BY <1>2, <3>1, Zenon DEF Check, Added, Joined
  <2>2. Judged(ty, name) /\ (ty.val # None => ty.val = tys[k])
    BY <1>1, TypeJudged DEF IsType, IsSeq
  <2> HIDE DEF ty
  <2>3. w[k].errs = Joined(p.errs, ty.errs) /\ w[k].val = IF ty.val = None THEN p.val ELSE Added(p.val, ty.val)
    BY <2>1
  <2>4. /\ Blames(w[k].errs, name, "params")
        /\ (w[k].errs = <<>>) <=> (p.errs = <<>> /\ ty.errs = <<>>)
    BY <1>4, <2>2, <2>3, BlamesJoined DEF Judged
  <2>5. ASSUME w[k].errs = <<>>
        PROVE  IsSeq(w[k].val) /\ Len(w[k].val) = k /\ \A i \in 1 .. k : w[k].val[i] = tys[i]
    <3>1. p.errs = <<>> /\ ty.val = tys[k] /\ w[k].val = Added(p.val, tys[k])
      BY <2>2, <2>3, <2>4, <2>5 DEF Judged
    <3>2. IsSeq(p.val) /\ Len(p.val) = k - 1 /\ \A i \in 1 .. (k - 1) : p.val[i] = tys[i]
      BY <1>4, <3>1
    <3> HIDE DEF p
    <3>3. /\ IsSeq(w[k].val) /\ Len(w[k].val) = Len(p.val) + 1 /\ w[k].val[Len(p.val) + 1] = tys[k]
          /\ \A i \in 1 .. Len(p.val) : w[k].val[i] = p.val[i]
      BY <3>1, <3>2, AddedFacts
    <3>4. (k - 1) + 1 = k /\ \A i \in 1 .. k : i \in 1 .. (k - 1) \/ i = k
      BY <1>1
    <3> QED
      BY <3>2, <3>3, <3>4
  <2> QED
    BY <2>4, <2>5
<1>5. OK(n)
  <2> HIDE DEF OK
  <2>1. 0 \in S /\ \A i \in 1 .. n : i - 1 \in S => i \in S
    BY <1>1, <1>3, <1>4
  <2>2. \A i \in 0 .. n : i \in S
    <3> HIDE DEF S, n
    <3> QED
      BY <1>1, <2>1, UpTo
  <2> QED
    BY <1>1, <2>2
<1>6. w[n].errs = <<>> => w[n].val = tys
  BY <1>5, SeqSame
<1> QED
  BY <1>2, <1>5, <1>6

\* Part of a sequence, left unexpanded.
Part(s, m, n) == SubSeq(s, m, n)

\* What SubSeq is.
LEMMA PartFacts ==
  ASSUME NEW s, IsSeq(s), NEW m \in 1 .. (Len(s) + 1), NEW n \in (m - 1) .. Len(s)
  PROVE  /\ IsSeq(Part(s, m, n)) /\ Len(Part(s, m, n)) = n - m + 1
         /\ Range(Part(s, m, n)) \subseteq Range(s)
         /\ \A i \in 1 .. (n - m + 1) : Part(s, m, n)[i] = s[m + i - 1]
<1> DEFINE p == SubSeq(s, m, n)
<1>1. Len(s) \in Nat /\ DOMAIN s = 1 .. Len(s) /\ \A k \in 1 .. Len(s) : s[k] \in Range(s)
  BY SeqFacts
<1>2. m \in Int /\ n \in Int /\ \A i \in m .. n : s[i] \in Range(s)
  BY <1>1
<1>3. /\ p \in Seq(Range(s)) /\ Len(p) = IF m <= n THEN n - m + 1 ELSE 0
      /\ \A i \in 1 .. (n - m + 1) : p[i] = s[m + i - 1]
  <2> DEFINE S == Range(s)
  <2> HIDE DEF S
  <2>1. \A i \in m .. n : s[i] \in S
    BY <1>2 DEF S
  <2>2. p \in Seq(S) /\ Len(p) = IF m <= n THEN n - m + 1 ELSE 0
    BY <1>2, <2>1
  <2>3. \A i \in 1 .. (n - m + 1) : p[i] = s[m + i - 1]
    BY <1>2, <2>1
  <2> QED
    BY <2>2, <2>3, Zenon DEF S
<1> HIDE DEF p
<1>4. IsSeq(p) /\ Range(p) \subseteq Range(s)
  BY <1>3, SeqIsSeq
<1>5. Len(p) = n - m + 1
  BY <1>1, <1>3
<1> QED
  BY <1>3, <1>4, <1>5, Zenon DEF p, Part

\* All but the first element are a part.
LEMMA TailIsPart ==
  ASSUME NEW s, IsSeq(s), s # <<>>
  PROVE  Tail(s) = Part(s, 2, Len(s))
<1>1. s \in Seq(Range(s))
  BY DEF IsSeq
<1> QED
  BY <1>1, TailIsSubSeq, Zenon DEF Part

\* A sequence is all but its last element, and that one.
LEMMA FrontAndLast ==
  ASSUME NEW s, IsSeq(s), s # <<>>
  PROVE  /\ IsSeq(Front(s)) /\ Len(Front(s)) = Len(s) - 1
         /\ Joined(Front(s), <<Last(s)>>) = s
<1> DEFINE f == Front(s)
           l == Last(s)
<1>1. Len(s) \in Nat /\ Len(s) # 0
  BY SeqFacts
<1>2. f = Part(s, 1, Len(s) - 1)
  BY Zenon DEF Front, Part
<1>3. l = s[Len(s)]
  BY DEF Last
<1> HIDE DEF f, l
<1>4. 1 \in 1 .. (Len(s) + 1) /\ Len(s) - 1 \in (1 - 1) .. Len(s)
  BY <1>1
<1>5. /\ IsSeq(f) /\ Len(f) = (Len(s) - 1) - 1 + 1
      /\ \A i \in 1 .. ((Len(s) - 1) - 1 + 1) : f[i] = s[1 + i - 1]
  BY <1>2, <1>4, PartFacts
<1> DEFINE o == <<l>>
           j == Joined(f, o)
<1>6. IsSeq(o) /\ Len(o) = 1 /\ o[1] = l
  BY OneIsSeq
<1> HIDE DEF o
<1>7. IsSeq(j) /\ Len(j) = Len(f) + Len(o)
  BY <1>5, <1>6, JoinedFacts
<1>8. /\ \A i \in 1 .. Len(f) : j[i] = f[i]
      /\ \A i \in (Len(f) + 1) .. (Len(f) + Len(o)) : j[i] = o[i - Len(f)]
  BY <1>5, <1>6, JoinedFacts, JoinedAt
<1> HIDE DEF j
<1>9. Len(f) = Len(s) - 1 /\ Len(j) = Len(s)
  BY <1>1, <1>5, <1>6, <1>7
<1>10. ASSUME NEW i \in 1 .. Len(s) PROVE j[i] = s[i]
  <2>1. CASE i = Len(s)
    <3>1. j[i] = o[i - Len(f)]
      BY <1>1, <1>6, <1>8, <1>9, <2>1
    <3>2. i - Len(f) = 1
      BY <1>1, <1>9, <2>1
    <3> QED
      BY <1>3, <1>6, <2>1, <3>1, <3>2
  <2>2. CASE i # Len(s)
    <3>1. i \in 1 .. Len(f) /\ 1 + i - 1 = i
      BY <1>1, <1>9, <2>2
    <3> QED
      BY <1>5, <1>8, <1>9, <3>1
  <2> QED
    BY <2>1, <2>2
<1>11. j = s
  BY <1>7, <1>9, <1>10, SeqSame
<1> QED
  BY <1>5, <1>9, <1>11 DEF f, j, l, o

-----------------------------------------------------------------------------
(* Signatures.                                                             *)

\* What is known of a signature.
IsSig(sig) ==
  /\ IsSeq(sig.inputs) /\ \A ty \in Range(sig.inputs) : IsType(ty)
  /\ sig.output = None \/ IsType(sig.output)

\* What is no value, and no panic.
LEMMA Values ==
  ASSUME NEW r
  PROVE  /\ "none" \notin DOMAIN r => r # None
         /\ "panic" \notin DOMAIN r => r # Panic
         /\ None # Panic
<1>1. DOMAIN None = {"none"} /\ DOMAIN Panic = {"panic"}
  BY DEF None, Panic
<1> QED
  BY <1>1

\* The return type.
LEMMA ReturnJudged ==
  ASSUME NEW sig, IsSig(sig)
  PROVE  Judged(return_type(sig), sig.ident)
<1>1. CASE sig.output = None
  <2> DEFINE e == <<Err(sig.ident, "params", <<"no", "return type">>)>>
             j == return_type(sig)
  <2>1. j = [val |-> None, errs |-> e]
    BY <1>1, Zenon DEF return_type
  <2>2. Blames(e, sig.ident, "params") /\ e # <<>>
    BY BlamesFew
  <2> HIDE DEF e, j
  <2>3. j.val = None /\ j.errs = e
    BY <2>1
  <2> QED
    BY <2>2, <2>3, Zenon DEF Judged, j
<1>2. CASE sig.output # None
  <2>1. return_type(sig) = validate_param_ty(sig.output, "return type", sig.ident)
    BY <1>2, Zenon DEF return_type
  <2>2. IsSeq(sig.output.nodes)
    BY <1>2 DEF IsSig, IsType, IsSeq
  <2> QED
    BY <1>2, <2>1, <2>2, TypeJudged
<1> QED
  BY <1>1, <1>2

\* The receiver.
LEMMA SelfBlames ==
  ASSUME NEW sig
  PROVE  Blames(maybe_discard_self_arg(sig), sig.ident, "params")
BY BlamesFew, Zenon DEF maybe_discard_self_arg

\* What an accepted signature comes to, for an endpoint: the arguments after
\* the first are the extractors, and all types of a function stay as they are.
EndpointOf(p, sig, kind) ==
  /\ p.channel = FALSE
  /\ sig.inputs # <<>> /\ IsSeq(p.shared) /\ IsSeq(p.exclusive)
  /\ Joined(p.shared, p.exclusive) = Tail(sig.inputs)
  /\ kind = None => p.rqctx_ty.unit = sig.inputs[1]

\* EndpointParams::new() turns a signature down exactly when it reports an
\* error; so its unreachable!() is never reached.
LEMMA EndpointJudged ==
  ASSUME NEW sig, IsSig(sig), NEW kind
  PROVE  LET j == EndpointParams(sig, kind)
         IN  /\ Judged(j, sig.ident) /\ j.val # Panic
             /\ j.val # None => EndpointOf(j.val, sig, kind)
<1> DEFINE name == sig.ident
           ins   == sig.inputs
           rqctx == next_rqctx_arg(sig, kind)
           tys   == IF ins = <<>> THEN <<>> ELSE Tail(ins)
           rest  == rest_extractor_args(tys, name)
           ret   == return_type(sig)
           errs  == Joined(Joined(Joined(Joined(validate_fn_ast(sig), maybe_discard_self_arg(sig)),
                                         rqctx.errs), rest.errs), ret.errs)
           shared == IF rest.val = <<>> THEN <<>> ELSE Front(rest.val)
           exclusive == IF rest.val = <<>> THEN <<>> ELSE <<Last(rest.val)>>
           good  == [channel |-> FALSE, rqctx_ty |-> rqctx.val, ret_ty |-> ret.val,
                     shared |-> shared, exclusive |-> exclusive]
           j     == EndpointParams(sig, kind)
<1>1. j = [errs |-> errs,
           val |-> CASE errs # <<>> -> None
                     [] errs = <<>> /\ (rqctx.val = None \/ ret.val = None) -> Panic
                     [] OTHER -> good]
  BY Zenon DEF EndpointParams, Joined
<1>2. /\ IsSeq(ins) /\ Len(ins) \in Nat /\ \A ty \in Range(ins) : IsType(ty)
      /\ (ins = <<>>) <=> (Len(ins) = 0)
      /\ ins # <<>> => ins[1] \in Range(ins)
  BY SeqFacts DEF IsSig
<1>3. Judged(ret, name)
  BY ReturnJudged
<1>4. /\ Judged(rqctx, name)
      /\ ins = <<>> => rqctx.val = None
      /\ (ins # <<>> /\ rqctx.val # None /\ kind = None) => rqctx.val.unit = ins[1]
  <2>1. CASE ins = <<>>
    <3> DEFINE e == <<Err(name, "params", <<"no", "RequestContext">>)>>
    <3>1. rqctx = [val |-> None, errs |-> e]
      BY <2>1, Zenon DEF next_rqctx_arg
    <3>2. Blames(e, name, "params") /\ e # <<>>
      BY BlamesFew
    <3> HIDE DEF e, rqctx
    <3>3. rqctx.val = None /\ rqctx.errs = e
      BY <3>1
    <3> QED
      BY <2>1, <3>2, <3>3, Zenon DEF Judged
  <2>2. CASE ins # <<>>
    <3>1. rqctx = RqctxTy(name, kind, Head(ins))
      BY <2>2, Zenon DEF next_rqctx_arg
    <3>2. Head(ins) = ins[1]
      BY <1>2, <2>2 DEF IsSeq
    <3>3. rqctx = RqctxTy(name, kind, ins[1])
      BY <3>1, <3>2, Zenon
    <3> HIDE DEF rqctx
    <3>4. IsType(ins[1])
      BY <1>2, <2>2
    <3> QED
      BY <2>2, <3>3, <3>4, RqctxJudged
  <2> QED
    BY <2>1, <2>2
<1>5. IsSeq(tys) /\ \A ty \in Range(tys) : IsType(ty)
  <2>1. CASE ins = <<>>
    BY <2>1, EmptyIsSeq
  <2>2. CASE ins # <<>>
    <3>1. tys = Part(ins, 2, Len(ins))
      BY <1>2, <2>2, TailIsPart, Zenon
    <3> HIDE DEF tys
    <3>2. 2 \in 1 .. (Len(ins) + 1) /\ Len(ins) \in (2 - 1) .. Len(ins)
      BY <1>2, <2>2
    <3>3. IsSeq(tys) /\ Range(tys) \subseteq Range(ins)
      BY <1>2, <3>1, <3>2, PartFacts
    <3> QED
      BY <1>2, <3>3
  <2> QED
    BY <2>1, <2>2
<1> HIDE DEF rqctx, tys, ret
<1>6. Blames(rest.errs, name, "params") /\ (rest.errs = <<>> => rest.val = tys)
  BY <1>5, RestJudged
<1> HIDE DEF rest
<1>7. /\ Blames(errs, name, "params")
      /\ errs = <<>> => rqctx.errs = <<>> /\ rest.errs = <<>> /\ ret.errs = <<>>
  <2> DEFINE a == validate_fn_ast(sig)
             b == maybe_discard_self_arg(sig)
             c == Joined(a, b)
             d == Joined(c, rqctx.errs)
             e == Joined(d, rest.errs)
  <2>1. Blames(a, name, "params") /\ Blames(b, name, "params")
    BY FnAstBlames, SelfBlames
  <2> HIDE DEF a, b
  <2>2. Blames(c, name, "params")
    BY <2>1, BlamesJoined
  <2>3. Blames(rqctx.errs, name, "params") /\ Blames(ret.errs, name, "params")
    BY <1>3, <1>4 DEF Judged
  <2> HIDE DEF c
  <2>4. Blames(d, name, "params") /\ (d = <<>> => rqctx.errs = <<>>)
    BY <2>2, <2>3, BlamesJoined
  <2> HIDE DEF d
  <2>5. Blames(e, name, "params") /\ (e = <<>> => d = <<>> /\ rest.errs = <<>>)
    BY <1>6, <2>4, BlamesJoined
  <2> HIDE DEF e
  <2>6. errs = Joined(e, ret.errs)
    BY Zenon DEF a, b, c, d, e
  <2> HIDE DEF errs
  <2>7. Blames(errs, name, "params") /\ (errs = <<>> => e = <<>> /\ ret.errs = <<>>)
    BY <2>3, <2>5, <2>6, BlamesJoined
  <2> QED
    BY <2>4, <2>5, <2>7
<1> HIDE DEF errs
<1>8. CASE errs # <<>>
  <2>1. j = [errs |-> errs, val |-> None]
    BY <1>1, <1>8, Zenon
  <2> HIDE DEF j
  <2>2. j.errs = errs /\ j.val = None
    BY <2>1
  <2> QED
    BY <1>7, <1>8, <2>2, Values, Zenon DEF Judged, j
<1>9. CASE errs = <<>>
  <2>1. rqctx.val # None /\ ret.val # None /\ rest.val = tys
    BY <1>3, <1>4, <1>6, <1>7, <1>9 DEF Judged
  <2>2. j = [errs |-> errs, val |-> good]
    BY <1>1, <1>9, <2>1, Zenon
  <2>3. good # None /\ good # Panic
    BY Values
  <2>4. /\ good.channel = FALSE /\ good.rqctx_ty = rqctx.val
        /\ good.shared = shared /\ good.exclusive = exclusive
    OBVIOUS
  <2>5. ins # <<>> /\ tys = Tail(ins) /\ (kind = None => rqctx.val.unit = ins[1])
    BY <1>4, <2>1, Zenon DEF tys
  <2>6. IsSeq(shared) /\ IsSeq(exclusive) /\ Joined(shared, exclusive) = tys
    <3>1. CASE tys = <<>>
      <4>1. shared = <<>> /\ exclusive = <<>>
        BY <2>1, <3>1
      <4> HIDE DEF shared, exclusive
      <4> QED
        BY <3>1, <4>1, EmptyIsSeq, JoinedFacts
    <3>2. CASE tys # <<>>
      <4>1. shared = Front(tys) /\ exclusive = <<Last(tys)>>
        BY <2>1, <3>2, Zenon
      <4> HIDE DEF shared, exclusive
      <4>2. IsSeq(Front(tys)) /\ Joined(Front(tys), <<Last(tys)>>) = tys
        BY <1>5, <3>2, FrontAndLast, Zenon
      <4>3. IsSeq(<<Last(tys)>>)
        BY OneIsSeq, Zenon
      <4> QED
        BY <4>1, <4>2, <4>3, Zenon
    <3> QED
      BY <3>1, <3>2
  <2> HIDE DEF good, shared, exclusive, j
  <2>7. j.errs = errs /\ j.val = good
    BY <2>2
  <2>8. EndpointOf(good, sig, kind)
    BY <2>4, <2>5, <2>6, Zenon DEF EndpointOf
  <2> QED
    BY <1>7, <1>9, <2>3, <2>7, <2>8, Zenon DEF Judged, j
<1> QED
  BY <1>8, <1>9

\* The same for a channel: its extractors stand between the first argument
\* and the last, which is the connection.
ChannelOf(p, sig, kind) ==
  /\ p.channel = TRUE
  /\ Len(sig.inputs) >= 2
  /\ p.shared = Part(sig.inputs, 2, Len(sig.inputs) - 1)
  /\ p.exclusive = <<Last(sig.inputs)>>
  /\ kind = None => p.rqctx_ty.unit = sig.inputs[1]

\* ChannelParams::new() turns a signature down exactly when it reports an
\* error; so its unreachable!() is never reached either.
LEMMA ChannelJudged ==
  ASSUME NEW sig, IsSig(sig), NEW kind
  PROVE  LET j == ChannelParams(sig, kind)
         IN  /\ Judged(j, sig.ident) /\ j.val # Panic
             /\ j.val # None => ChannelOf(j.val, sig, kind)
<1> DEFINE name == sig.ident
           ins   == sig.inputs
           both  == next_rqctx_and_last_websocket_args(sig, kind)
           tys   == SubSeq(ins, 2, Len(ins) - 1)
           rest  == rest_extractor_args(tys, name)
           conn  == IF both.websocket = None THEN [val |-> None, errs |-> <<>>]
                    ELSE validate_param_ty(both.websocket, "WebsocketConnection", name)
           ret   == return_type(sig)
           errs  == Joined(Joined(Joined(Joined(Joined(
                      validate_fn_ast(sig), maybe_discard_self_arg(sig)),
                      both.rqctx.errs), rest.errs), conn.errs), ret.errs)
           good  == [channel |-> TRUE, rqctx_ty |-> both.rqctx.val, ret_ty |-> ret.val,
                     shared |-> rest.val, exclusive |-> <<conn.val>>]
           j     == ChannelParams(sig, kind)
<1>1. j = [errs |-> errs,
           val |-> CASE errs # <<>> -> None
                     [] errs = <<>> /\ None \in {both.rqctx.val, conn.val, ret.val} -> Panic
                     [] OTHER -> good]
  BY Zenon DEF ChannelParams, Joined
<1>2. /\ IsSeq(ins) /\ Len(ins) \in Nat /\ \A ty \in Range(ins) : IsType(ty)
      /\ \A k \in 1 .. Len(ins) : ins[k] \in Range(ins)
  BY SeqFacts DEF IsSig
<1>3. Judged(ret, name)
  BY ReturnJudged
<1>4. CASE Len(ins) < 2
  <2> DEFINE e == <<Err(name, "params", <<"fewer than", "two">>)>>
             q == [val |-> None, errs |-> e]
  <2>1. both = [rqctx |-> q, websocket |-> None]
    BY <1>4, Zenon DEF next_rqctx_and_last_websocket_args
  <2>2. Blames(e, name, "params") /\ e # <<>>
    BY BlamesFew
  <2> HIDE DEF e, both
  <2>3. both.rqctx.errs = e
    BY <2>1
  <2>4. both.websocket = None
    BY <2>1
  <2>5. conn = [val |-> None, errs |-> <<>>]
    BY <2>4, Zenon
  <2> HIDE DEF conn
  <2>6. conn.errs = <<>>
    BY <2>5
  <2>7. tys = <<>>
    BY <1>2, <1>4 DEF IsSeq
  <2> HIDE DEF tys
  <2>8. Blames(rest.errs, name, "params")
    BY <2>7, EmptyIsSeq, RestJudged
  <2> HIDE DEF rest
  <2>9. Blames(errs, name, "params") /\ errs # <<>>
    <3> DEFINE a == validate_fn_ast(sig)
               b == maybe_discard_self_arg(sig)
               c == Joined(a, b)
               d == Joined(c, both.rqctx.errs)
               f == Joined(d, rest.errs)
               g == Joined(f, conn.errs)
    <3>1. Blames(a, name, "params") /\ Blames(b, name, "params")
      BY FnAstBlames, SelfBlames
    <3> HIDE DEF a, b
    <3>2. Blames(c, name, "params")
      BY <3>1, BlamesJoined
    <3>3. Blames(ret.errs, name, "params") /\ Blames(conn.errs, name, "params")
      <4>1. Blames(<<>>, name, "params")
        BY BlamesFew
      <4> QED
        BY <1>3, <2>6, <4>1 DEF Judged
    <3> HIDE DEF c
    <3>4. Blames(d, name, "params") /\ d # <<>>
      BY <2>2, <2>3, <3>2, BlamesJoined
    <3> HIDE DEF d
    <3>5. Blames(f, name, "params") /\ f # <<>>
      BY <2>8, <3>4, BlamesJoined
    <3> HIDE DEF f
    <3>6. Blames(g, name, "params") /\ g # <<>>
      BY <3>3, <3>5, BlamesJoined
    <3> HIDE DEF g
    <3>7. errs = Joined(g, ret.errs)
      BY Zenon DEF a, b, c, d, f, g
    <3> HIDE DEF errs
    <3> QED
      BY <3>3, <3>6, <3>7, BlamesJoined
  <2> HIDE DEF errs
  <2>10. j = [errs |-> errs, val |-> None]
    BY <1>1, <2>9, Zenon
  <2> HIDE DEF j
  <2>11. j.errs = errs /\ j.val = None
    BY <2>10
  <2> QED
    BY <2>9, <2>11, Values, Zenon DEF Judged, j
<1>5. CASE ~(Len(ins) < 2)
  <2> DEFINE n == Len(ins)
             last == Last(ins)
  <2>1. both = [rqctx |-> RqctxTy(name, kind, Head(ins)), websocket |-> last]
    BY <1>5, Zenon DEF next_rqctx_and_last_websocket_args
  <2>2. 1 \in 1 .. n /\ n \in 1 .. n /\ Head(ins) = ins[1] /\ last = ins[n]
    BY <1>2, <1>5 DEF IsSeq, Last
  <2>3. IsType(ins[1]) /\ IsType(last)
    BY <1>2, <2>2
  <2>4. both.rqctx = RqctxTy(name, kind, ins[1]) /\ both.websocket = last
    <3> DEFINE r == RqctxTy(name, kind, ins[1])
    <3>1. both = [rqctx |-> r, websocket |-> last]
      BY <2>1, <2>2, Zenon
    <3> HIDE DEF r, both, last
    <3>2. both.rqctx = r /\ both.websocket = last
      BY <3>1
    <3> QED
      BY <3>2 DEF r
  <2> HIDE DEF both, last
  <2>5. Judged(both.rqctx, name) /\ (both.rqctx.val # None /\ kind = None => both.rqctx.val.unit = ins[1])
    BY <2>3, <2>4, RqctxJudged
  <2>6. Judged(conn, name) /\ (conn.val # None => conn.val = last)
    <3>1. last # None /\ IsSeq(last.nodes)
      BY <2>3 DEF IsType, IsSeq
    <3>2. conn = validate_param_ty(last, "WebsocketConnection", name)
      BY <2>4, <3>1, Zenon
    <3> HIDE DEF conn
    <3> QED
      BY <3>1, <3>2, TypeJudged
  <2>7. tys = Part(ins, 2, n - 1)
    BY Zenon DEF Part
  <2> HIDE DEF tys, conn
  <2>8. IsSeq(tys) /\ \A ty \in Range(tys) : IsType(ty)
    <3>1. 2 \in 1 .. (n + 1) /\ n - 1 \in (2 - 1) .. n
      BY <1>2, <1>5
    <3>2. IsSeq(tys) /\ Range(tys) \subseteq Range(ins)
      BY <1>2, <2>7, <3>1, PartFacts
    <3> QED
      BY <1>2, <3>2
  <2>9. Blames(rest.errs, name, "params") /\ (rest.errs = <<>> => rest.val = tys)
    BY <2>8, RestJudged
  <2> HIDE DEF rest, ret
  <2>10. /\ Blames(errs, name, "params")
         /\ errs = <<>> => both.rqctx.errs = <<>> /\ rest.errs = <<>> /\ conn.errs = <<>> /\ ret.errs = <<>>
    <3> DEFINE a == validate_fn_ast(sig)
               b == maybe_discard_self_arg(sig)
               c == Joined(a, b)
               d == Joined(c, both.rqctx.errs)
               f == Joined(d, rest.errs)
               g == Joined(f, conn.errs)
    <3>1. Blames(a, name, "params") /\ Blames(b, name, "params")
      BY FnAstBlames, SelfBlames
    <3> HIDE DEF a, b
    <3>2. Blames(c, name, "params")
      BY <3>1, BlamesJoined
    <3>3. Blames(both.rqctx.errs, name, "params") /\ Blames(conn.errs, name, "params")
          /\ Blames(ret.errs, name, "params")
      BY <1>3, <2>5, <2>6 DEF Judged
    <3> HIDE DEF c
    <3>4. Blames(d, name, "params") /\ (d = <<>> => both.rqctx.errs = <<>>)
      BY <3>2, <3>3, BlamesJoined
    <3> HIDE DEF d
    <3>5. Blames(f, name, "params") /\ (f = <<>> => d = <<>> /\ rest.errs = <<>>)
      BY <2>9, <3>4, BlamesJoined
    <3> HIDE DEF f
    <3>6. Blames(g, name, "params") /\ (g = <<>> => f = <<>> /\ conn.errs = <<>>)
      BY <3>3, <3>5, BlamesJoined
    <3> HIDE DEF g
    <3>7. errs = Joined(g, ret.errs)
      BY Zenon DEF a, b, c, d, f, g
    <3> HIDE DEF errs
    <3>8. Blames(errs, name, "params") /\ (errs = <<>> => g = <<>> /\ ret.errs = <<>>)
      BY <3>3, <3>6, <3>7, BlamesJoined
    <3> QED
      BY <3>4, <3>5, <3>6, <3>8
  <2> HIDE DEF errs
  <2>11. CASE errs # <<>>
    <3>1. j = [errs |-> errs, val |-> None]
      BY <1>1, <2>11, Zenon
    <3> HIDE DEF j
    <3>2. j.errs = errs /\ j.val = None
      BY <3>1
    <3> QED
      BY <2>10, <2>11, <3>2, Values, Zenon DEF Judged, j
  <2>12. CASE errs = <<>>
    <3>1. both.rqctx.val # None /\ ret.val # None /\ conn.val = last /\ rest.val = tys /\ conn.val # None
      BY <1>3, <2>5, <2>6, <2>9, <2>10, <2>12 DEF Judged
    <3>2. None \notin {both.rqctx.val, conn.val, ret.val}
      BY <3>1
    <3>3. j = [errs |-> errs, val |-> good]
      BY <1>1, <2>12, <3>2, Zenon
    <3>4. good # None /\ good # Panic
      BY Values
    <3>5. /\ good.channel = TRUE /\ good.rqctx_ty = both.rqctx.val
          /\ good.shared = rest.val /\ good.exclusive = <<conn.val>>
      OBVIOUS
    <3> HIDE DEF good, j
    <3>6. j.errs = errs /\ j.val = good
      BY <3>3
    <3>7. n >= 2 /\ (kind = None => both.rqctx.val.unit = ins[1])
      BY <1>2, <1>5, <2>5, <3>1
    <3>8. ChannelOf(good, sig, kind)
      BY <2>7, <3>1, <3>5, <3>7, Zenon DEF ChannelOf, last
    <3> QED
      BY <2>10, <2>12, <3>4, <3>6, <3>8, Zenon DEF Judged, j
  <2> QED
    BY <2>11, <2>12
<1> QED
  BY <1>4, <1>5

-----------------------------------------------------------------------------
(* Metadata.                                                               *)

\* The arguments of a macro are turned down exactly when an error says so,
\* and otherwise come with versions that can be built.
Rated(j, name) ==
  /\ Blames(j.errs, name, "metadata")
  /\ (j.val = None) <=> (j.errs # <<>>)
  /\ j.val # Panic
  /\ j.val # None => VersionsBuild(j.val.versions)

\* What the macro lets through, the generated code can build.
LEMMA VersionsAreBuilt ==
  ASSUME NEW meta, from_tokenstream(meta)
  PROVE  VersionsBuild(MetaVersions(meta))
<1>1. CASE meta.versions = None
  <2> DEFINE r == [from |-> None, until |-> None]
  <2>1. MetaVersions(meta) = r
    BY <1>1, Zenon DEF MetaVersions
  <2>2. r.from = None /\ r.until = None
    OBVIOUS
  <2> HIDE DEF r
  <2> QED
    BY <2>1, <2>2, Zenon DEF VersionsBuild, LiteralsPlain, RangeUnwraps
<1>2. CASE meta.versions # None
  <2>1. MetaVersions(meta) = meta.versions /\ VersionRangeOk(meta.versions)
    BY <1>2, Zenon DEF MetaVersions, from_tokenstream
  <2> QED
    BY <2>1, Zenon DEF VersionRangeOk, VersionsBuild, LiteralsPlain, RangeUnwraps, Identified,
                       VersionSpecifierOk, parse_semver, V!FromUntilOk
<1> QED
  BY <1>1, <1>2

\* EndpointMetadata::validate(); its unreachable!() is not reached.
LEMMA EndpointRated ==
  ASSUME NEW meta, from_tokenstream(meta), NEW name, NEW onTrait
  PROVE  Rated(EndpointValidate(meta, name, onTrait), name)
<1> DEFINE content_type == CASE meta.content_type = "none" -> "application/json"
                             [] meta.content_type = "bad" -> "none"
                             [] OTHER -> meta.content_type
           a == IF onTrait /\ meta.crate THEN <<Err(name, "metadata", <<"crate", "">>)>> ELSE <<>>
           b == IF meta.wildcard /\ ~meta.unpublished
                THEN <<Err(name, "metadata", <<"wildcard", "">>)>> ELSE <<>>
           c == IF content_type = "none"
                THEN <<Err(name, "metadata", <<"content type", "">>)>> ELSE <<>>
           errs == Joined(Joined(a, b), c)
           good == [operation_id |-> meta.operation_id, method |-> meta.method,
                    path |-> meta.path, unpublished |-> meta.unpublished,
                    max_bytes |-> meta.max_bytes, content_type |-> content_type,
                    versions |-> MetaVersions(meta)]
           j == EndpointValidate(meta, name, onTrait)
<1>1. j = [errs |-> errs,
           val |-> CASE errs # <<>> -> None
                     [] errs = <<>> /\ content_type = "none" -> Panic
                     [] OTHER -> good]
  BY Zenon DEF EndpointValidate, Joined
<1>2. /\ Blames(a, name, "metadata") /\ Blames(b, name, "metadata")
      /\ Blames(c, name, "metadata") /\ (content_type = "none" => c # <<>>)
  BY BlamesFew, Zenon
<1>3. VersionsBuild(MetaVersions(meta))
  BY VersionsAreBuilt
<1>4. good # None /\ good # Panic /\ good.versions = MetaVersions(meta)
  BY Values
<1> HIDE DEF a, b, c, good, content_type
<1>5. /\ Blames(errs, name, "metadata")
      /\ errs = <<>> => c = <<>>
  <2> DEFINE d == Joined(a, b)
  <2>1. Blames(d, name, "metadata")
    BY <1>2, BlamesJoined
  <2> HIDE DEF d
  <2>2. Blames(Joined(d, c), name, "metadata") /\ (Joined(d, c) = <<>> => c = <<>>)
    BY <1>2, <2>1, BlamesJoined
  <2> QED
    BY <2>2, Zenon DEF d
<1> HIDE DEF errs, j
<1>6. CASE errs # <<>>
  <2>1. j = [errs |-> errs, val |-> None]
    BY <1>1, <1>6, Zenon
  <2>2. j.errs = errs /\ j.val = None
    BY <2>1
  <2> QED
    BY <1>5, <1>6, <2>2, Values, Zenon DEF Rated, j
<1>7. CASE errs = <<>>
  <2>1. content_type # "none"
    BY <1>2, <1>5, <1>7
  <2>2. j = [errs |-> errs, val |-> good]
    BY <1>1, <1>7, <2>1, Zenon
  <2>3. j.errs = errs /\ j.val = good
    BY <2>2
  <2> QED
    BY <1>3, <1>4, <1>5, <1>7, <2>3, Zenon DEF Rated, j
<1> QED
  BY <1>6, <1>7

\* ChannelMetadata::validate()
LEMMA ChannelRated ==
  ASSUME NEW meta, from_tokenstream(meta), NEW name, NEW onTrait
  PROVE  Rated(ChannelValidate(meta, name, onTrait), name)
<1> DEFINE a == IF onTrait /\ meta.crate THEN <<Err(name, "metadata", <<"crate", "">>)>> ELSE <<>>
           b == IF meta.wildcard THEN <<Err(name, "metadata", <<"wildcard", "">>)>> ELSE <<>>
           errs == Joined(a, b)
           good == [operation_id |-> meta.operation_id, method |-> "GET",
                    path |-> meta.path, unpublished |-> meta.unpublished,
                    max_bytes |-> None, content_type |-> "application/json",
                    versions |-> MetaVersions(meta)]
           j == ChannelValidate(meta, name, onTrait)
<1>1. j = [errs |-> errs, val |-> IF errs # <<>> THEN None ELSE good]
  BY Zenon DEF ChannelValidate, Joined
<1>2. Blames(a, name, "metadata") /\ Blames(b, name, "metadata")
  BY BlamesFew, Zenon
<1>3. VersionsBuild(MetaVersions(meta))
  BY VersionsAreBuilt
<1>4. good # None /\ good # Panic /\ good.versions = MetaVersions(meta)
  BY Values
<1> HIDE DEF a, b, good
<1>5. Blames(errs, name, "metadata")
  BY <1>2, BlamesJoined
<1> HIDE DEF errs, j
<1>6. j.errs = errs /\ j.val = IF errs # <<>> THEN None ELSE good
  BY <1>1
<1> QED
  BY <1>3, <1>4, <1>5, <1>6, Values, Zenon DEF Rated, j

\* The arguments of a mark.
LEMMA MarkRated ==
  ASSUME NEW item, NEW attr
  PROVE  /\ Rated(parse_endpoint_metadata(item, attr), item.ident)
         /\ Rated(parse_channel_metadata(item, attr), item.ident)
<1> DEFINE name == item.ident
           listed == attr.meta.list
           read == from_tokenstream(attr.meta)
<1>1. ASSUME NEW m, read => Rated(m, name)
      PROVE  Rated(ParseMark(item, attr, m), name)
  <2> DEFINE j == ParseMark(item, attr, m)
             form == <<Err(name, "metadata", <<"form", "">>)>>
             bad == <<Err(name, "metadata", <<"bad", "">>)>>
  <2>1. /\ Blames(form, name, "metadata") /\ form # <<>>
        /\ Blames(bad, name, "metadata") /\ bad # <<>>
    BY BlamesFew, Zenon
  <2>2. CASE ~listed
    <3>1. j = [val |-> None, errs |-> form]
      BY <2>2, Zenon DEF ParseMark
    <3> HIDE DEF j, form
    <3>2. j.val = None /\ j.errs = form
      BY <3>1
    <3> QED
      BY <2>1, <3>2, Values, Zenon DEF Rated, j
  <2>3. CASE listed /\ ~read
    <3>1. j = [val |-> None, errs |-> bad]
      BY <2>3, Zenon DEF ParseMark
    <3> HIDE DEF j, bad
    <3>2. j.val = None /\ j.errs = bad
      BY <3>1
    <3> QED
      BY <2>1, <3>2, Values, Zenon DEF Rated, j
  <2>4. CASE listed /\ read
    <3>1. j = m
      BY <2>4, Zenon DEF ParseMark
    <3> QED
      BY <1>1, <2>4, <3>1, Zenon
  <2> QED
    BY <2>2, <2>3, <2>4, Zenon
<1>2. read => /\ Rated(EndpointValidate(attr.meta, name, TRUE), name)
              /\ Rated(ChannelValidate(attr.meta, name, TRUE), name)
  BY EndpointRated, ChannelRated
<1> QED
  BY <1>1, <1>2, Zenon DEF parse_endpoint_metadata, parse_channel_metadata

-----------------------------------------------------------------------------
(* The functions of a trait.                                               *)

IsFn(item) == IsSig(item.sig) /\ item.sig.ident = item.ident /\ IsSeq(item.attrs)

\* Whether parameters are at fault.
Faults(errs) == \E e \in Range(errs) : e.part = "params"

\* What the parser makes of a function with one mark, of the given kind.
MarkedAs(m, item, kind, meta, params) ==
  /\ m.api # Panic /\ m.api.item = item
  /\ IsSeq(m.errs)
  /\ \A e \in Range(m.errs) : e.about = item.ident /\ e.part \in {"marks", "metadata", "params"}
  /\ m.api.is \in {kind, "Invalid"}
  /\ (m.api.is = "Invalid") <=> (m.errs # <<>>)
  /\ m.api.is = kind => /\ m.api.metadata = meta.val /\ m.api.params = params.val
                        /\ meta.val # None /\ params.val # None
  /\ m.api.is = "Invalid" => m.api.kind = kind /\ (m.api.params <=> Faults(m.errs))

\* A marked function is taken exactly if neither its metadata nor its
\* parameters were turned down.
LEMMA MarkedFacts ==
  ASSUME NEW item, NEW kind, kind # "Invalid", NEW meta, Rated(meta, item.ident),
         NEW params, Judged(params, item.ident), params.val # Panic
  PROVE  MarkedAs(MarkedFn(item, kind, meta, params), item, kind, meta, params)
<1> DEFINE m == MarkedFn(item, kind, meta, params)
           errs == Joined(meta.errs, params.errs)
           good == [is |-> kind, item |-> item, metadata |-> meta.val, params |-> params.val]
           fault == (params.val = None)
           bad == [is |-> "Invalid", item |-> item, kind |-> kind, params |-> fault]
<1>1. Panic \notin {meta.val, params.val}
  BY DEF Rated
<1>2. m = [errs |-> errs, api |-> CASE Panic \in {meta.val, params.val} -> Panic
                                    [] {None, Panic} \cap {meta.val, params.val} = {} -> good
                                    [] OTHER -> bad]
  BY Zenon DEF MarkedFn, Joined
<1>3. /\ IsSeq(errs) /\ Range(errs) = Range(meta.errs) \cup Range(params.errs)
      /\ (errs = <<>>) <=> (meta.errs = <<>> /\ params.errs = <<>>)
  <2>1. IsSeq(meta.errs) /\ IsSeq(params.errs)
    BY DEF Rated, Judged, Blames
  <2>2. IsSeq(errs) /\ Range(errs) = Range(meta.errs) \cup Range(params.errs)
    BY <2>1, JoinedFacts
  <2>3. (errs = <<>>) <=> (meta.errs = <<>> /\ params.errs = <<>>)
    BY <2>1, JoinedFacts, Zenon
  <2> QED
    BY <2>2, <2>3
<1> HIDE DEF errs
<1>4. \A e \in Range(errs) : e.about = item.ident /\ e.part \in {"marks", "metadata", "params"}
  BY <1>3 DEF Rated, Judged, Blames
<1>5. Faults(errs) <=> (params.val = None)
  <2>1. (params.errs = <<>>) <=> (Range(params.errs) = {})
    BY SeqFacts DEF Judged, Blames
  <2>2. \A e \in Range(meta.errs) : e.part = "metadata"
    BY DEF Rated, Blames
  <2>3. \A e \in Range(params.errs) : e.part = "params"
    BY DEF Judged, Blames
  <2>4. Faults(errs) <=> (Range(params.errs) # {})
    BY <1>3, <2>2, <2>3 DEF Faults
  <2> QED
    BY <2>1, <2>4 DEF Judged
<1>6. CASE errs = <<>>
  <2>1. meta.val # None /\ params.val # None
    BY <1>3, <1>6 DEF Rated, Judged
  <2>2. {None, Panic} \cap {meta.val, params.val} = {}
    BY <1>1, <2>1
  <2>3. m = [errs |-> errs, api |-> good]
    BY <1>1, <1>2, <2>2, Zenon
  <2>4. /\ good # Panic /\ good.is = kind /\ good.item = item
        /\ good.metadata = meta.val /\ good.params = params.val
    BY Values
  <2> HIDE DEF m, good
  <2>5. m.errs = errs /\ m.api = good
    BY <2>3
  <2> QED
    BY <1>3, <1>4, <1>6, <2>1, <2>4, <2>5 DEF MarkedAs, m
<1>7. CASE errs # <<>>
  <2>1. meta.val = None \/ params.val = None
    BY <1>3, <1>7 DEF Rated, Judged
  <2>2. {None, Panic} \cap {meta.val, params.val} # {}
    BY <2>1
  <2>3. m = [errs |-> errs, api |-> bad]
    BY <1>1, <1>2, <2>2, Zenon
  <2> HIDE DEF fault
  <2>4. bad # Panic /\ bad.is = "Invalid" /\ bad.item = item /\ bad.kind = kind
    BY Values
  <2>5. bad.params = fault
    BY Zenon
  <2> HIDE DEF m, bad
  <2>6. m.errs = errs /\ m.api = bad
    BY <2>3
  <2>7. m.api.params <=> Faults(m.errs)
    BY <1>5, <2>5, <2>6, Zenon DEF fault
  <2> QED
    BY <1>3, <1>4, <1>7, <2>4, <2>6, <2>7, Zenon DEF MarkedAs, m
<1> QED
  BY <1>6, <1>7

\* What the parser makes of any function, and how it is blamed.
FnApi(api, errs, item) ==
  /\ api # Panic /\ api.item = item
  /\ IsSeq(errs)
  /\ \A e \in Range(errs) : e.about = item.ident /\ e.part \in {"marks", "metadata", "params"}
  /\ api.is \in {"Unmanaged", "endpoint", "channel", "Invalid"}
  /\ (api.is = "Unmanaged") <=> (Recognized(item.attrs) = <<>>)
  /\ (api.is = "Invalid") <=> (errs # <<>>)
  /\ api.is \in {"endpoint", "channel"} => VersionsBuild(api.metadata.versions)
  /\ api.is = "endpoint" => EndpointOf(api.params, item.sig, [context |-> ContextName])
  /\ api.is = "channel" => ChannelOf(api.params, item.sig, [context |-> ContextName])
  /\ api.is = "Invalid" => /\ api.params <=> Faults(errs)
                           /\ api.params => Paths(Recognized(item.attrs)) = <<api.kind>>

\* The marks of a function or another item.
LEMMA MarksFacts ==
  ASSUME NEW attrs, IsSeq(attrs)
  PROVE  /\ IsSeq(Recognized(attrs)) /\ \A a \in Range(Recognized(attrs)) : IsMark(a)
         /\ (Recognized(attrs) = <<>>) <=> (\A a \in Range(attrs) : ~IsMark(a))
<1> DEFINE marks == {a \in Range(attrs) : IsMark(a)}
<1>1. Recognized(attrs) = Filter(attrs, marks)
  BY Zenon DEF Recognized
<1>2. /\ IsSeq(Filter(attrs, marks)) /\ Range(Filter(attrs, marks)) = Range(attrs) \cap marks
      /\ (Filter(attrs, marks) = <<>>) <=> (Range(attrs) \cap marks = {})
  BY FilterFacts
<1> QED
  BY <1>1, <1>2

\* What becomes of a function of a trait, with no mark, one or several.
LEMMA FnItemFacts ==
  ASSUME NEW item, IsFn(item)
  PROVE  FnApi(ApiFnItem(item).api, ApiFnItem(item).errs, item)
<1> DEFINE m == ApiFnItem(item)
           marks == Recognized(item.attrs)
           c == [context |-> ContextName]
<1>1. IsSeq(marks) /\ \A a \in Range(marks) : IsMark(a)
  BY MarksFacts DEF IsFn
<1>2. Len(marks) \in Nat /\ ((marks = <<>>) <=> (Len(marks) = 0)) /\ DOMAIN marks = 1 .. Len(marks)
  BY <1>1, SeqFacts
<1> HIDE DEF marks
<1>3. CASE marks = <<>>
  <2> DEFINE un == [is |-> "Unmanaged", item |-> item]
  <2>1. m = [api |-> un, errs |-> <<>>]
    <3>1. Len(marks) # 1
      BY <1>2, <1>3
    <3> QED
      BY <1>3, <3>1, Zenon DEF ApiFnItem, marks
  <2>2. un # Panic /\ un.is = "Unmanaged" /\ un.item = item
    BY Values
  <2> HIDE DEF m, un
  <2>3. m.api = un /\ m.errs = <<>>
    BY <2>1
  <2>4. IsSeq(<<>>) /\ Range(<<>>) = {}
    BY EmptyIsSeq
  <2> QED
    BY <1>3, <2>2, <2>3, <2>4 DEF FnApi, m, marks
<1>4. CASE Len(marks) = 1
  <2> DEFINE attr == marks[1]
             path == attr.path
  <2>1. m = ApiMarked(item, attr)
    <3>1. marks # <<>>
      BY <1>2, <1>4
    <3> QED
      BY <1>4, <3>1, Zenon DEF ApiFnItem, marks
  <2>2. path \in {"endpoint", "channel"}
    BY <1>1, <1>4, SeqFacts DEF IsMark
  <2>3. Paths(marks) = <<path>>
    BY <1>2, <1>4 DEF Paths
  <2> HIDE DEF attr, path
  <2>4. PICK meta, params :
             /\ MarkedAs(m, item, path, meta, params)
             /\ Rated(meta, item.ident)
             /\ path = "endpoint" => EndpointOf(params.val, item.sig, c) \/ params.val = None
             /\ path = "channel" => ChannelOf(params.val, item.sig, c) \/ params.val = None
    <3>1. IsSig(item.sig) /\ item.sig.ident = item.ident
      BY DEF IsFn
    <3>2. CASE path = "channel"
      <4> DEFINE meta == parse_channel_metadata(item, attr)
                 params == ChannelParams(item.sig, c)
      <4>1. Rated(meta, item.ident)
        BY MarkRated
      <4>2. Judged(params, item.ident) /\ params.val # Panic
            /\ (params.val # None => ChannelOf(params.val, item.sig, c))
        BY <3>1, ChannelJudged
      <4>3. m = MarkedFn(item, "channel", meta, params)
        BY <2>1, <3>2, Zenon DEF ApiMarked, ApiChannel, path
      <4> HIDE DEF m, meta, params
      <4>4. MarkedAs(m, item, "channel", meta, params)
        BY <4>1, <4>2, <4>3, MarkedFacts
      <4> QED
        BY <3>2, <4>1, <4>2, <4>4
    <3>3. CASE path = "endpoint"
      <4> DEFINE meta == parse_endpoint_metadata(item, attr)
                 params == EndpointParams(item.sig, c)
      <4>1. Rated(meta, item.ident)
        BY MarkRated
      <4>2. Judged(params, item.ident) /\ params.val # Panic
            /\ (params.val # None => EndpointOf(params.val, item.sig, c))
        BY <3>1, EndpointJudged
      <4>3. m = MarkedFn(item, "endpoint", meta, params)
        <5>1. path # "channel"
          BY <3>3
        <5> QED
          BY <2>1, <5>1, Zenon DEF ApiMarked, ApiEndpoint, path
      <4> HIDE DEF m, meta, params
      <4>4. MarkedAs(m, item, "endpoint", meta, params)
        BY <4>1, <4>2, <4>3, MarkedFacts
      <4> QED
        BY <3>3, <4>1, <4>2, <4>4
    <3> QED
      BY <2>2, <3>2, <3>3
  <2> HIDE DEF m, c
  <2>5. m.api.is \in {"endpoint", "channel"} =>
          /\ VersionsBuild(m.api.metadata.versions)
          /\ m.api.is = "endpoint" => EndpointOf(m.api.params, item.sig, c)
          /\ m.api.is = "channel" => ChannelOf(m.api.params, item.sig, c)
    BY <2>2, <2>4 DEF MarkedAs, Rated
  <2>6. m.api.is = "Invalid" => /\ m.api.params <=> Faults(m.errs)
                                /\ m.api.params => Paths(marks) = <<m.api.kind>>
    <3>1. m.api.is = "Invalid" => (m.api.params <=> Faults(m.errs)) /\ m.api.kind = path
      BY <2>4, Zenon DEF MarkedAs
    <3> QED
      BY <2>3, <3>1, Zenon
  <2>7. /\ m.api # Panic /\ m.api.item = item /\ IsSeq(m.errs)
        /\ \A e \in Range(m.errs) : e.about = item.ident /\ e.part \in {"marks", "metadata", "params"}
        /\ m.api.is \in {"endpoint", "channel", "Invalid"}
        /\ (m.api.is = "Invalid") <=> (m.errs # <<>>)
    BY <2>2, <2>4 DEF MarkedAs
  <2>8. m.api.is \in {"Unmanaged", "endpoint", "channel", "Invalid"} /\ m.api.is # "Unmanaged"
        /\ marks # <<>>
    BY <1>2, <1>4, <2>7
  <2> QED
    BY <2>5, <2>6, <2>7, <2>8, Zenon DEF FnApi, m, c, marks
<1>5. CASE marks # <<>> /\ Len(marks) # 1
  <2> DEFINE none == FALSE
             bad == [is |-> "Invalid", item |-> item, kind |-> "Unknown", params |-> none]
             errs == [k \in 1 .. (Len(marks) - 1) |->
                        Err(item.ident, "marks", <<marks[1].path, marks[k + 1].path>>)]
  <2>1. m = [api |-> bad, errs |-> errs]
    BY <1>5, Zenon DEF ApiFnItem, marks
  <2>2. bad # Panic /\ bad.is = "Invalid" /\ bad.item = item /\ ~bad.params
    BY Values
  <2>3. /\ \A k \in 1 .. (Len(marks) - 1) : errs[k].about = item.ident /\ errs[k].part = "marks"
        /\ errs = [k \in 1 .. (Len(marks) - 1) |-> errs[k]] /\ DOMAIN errs = 1 .. (Len(marks) - 1)
    BY DEF Err
  <2> HIDE DEF errs
  <2>4. \A e \in Range(errs) : e.about = item.ident /\ e.part = "marks"
    BY <2>3 DEF Range
  <2>5. Len(marks) - 1 \in Nat /\ Len(marks) - 1 # 0
    BY <1>2, <1>5
  <2>6. IsSeq(errs) /\ errs # <<>>
    <3>1. \A k \in 1 .. (Len(marks) - 1) : errs[k] \in Range(errs)
      BY <2>3 DEF Range
    <3>2. errs \in Seq(Range(errs))
      BY <2>3, <2>5, <3>1
    <3>3. 1 \in DOMAIN errs
      <4>1. 1 \in 1 .. (Len(marks) - 1)
        BY <1>2, <2>5
      <4> QED
        BY <2>3, <4>1, Zenon
    <3>4. DOMAIN <<>> = {}
      BY EmptyIsSeq
    <3> QED
      BY <3>2, <3>3, <3>4 DEF IsSeq
  <2>7. ~Faults(errs)
    BY <2>4 DEF Faults
  <2> HIDE DEF m, bad
  <2>8. m.api = bad /\ m.errs = errs
    BY <2>1
  <2> QED
    BY <1>5, <2>2, <2>4, <2>6, <2>7, <2>8 DEF FnApi, m, marks
<1> QED
  BY <1>3, <1>4, <1>5

\* An item that is not a function is blamed exactly when it is marked.
LEMMA NonFnFacts ==
  ASSUME NEW item, IsSeq(item.attrs)
  PROVE  /\ Blames(NonFnErrors(item), item.ident, "marks")
         /\ (NonFnErrors(item) = <<>>) <=> (Recognized(item.attrs) = <<>>)
<1> DEFINE attrs == item.attrs
           marked(path) == \E k \in DOMAIN attrs : attrs[k].path = path
           a == IF marked("endpoint") THEN <<Err(item.ident, "marks", <<"endpoint", "non fn">>)>> ELSE <<>>
           b == IF marked("channel") THEN <<Err(item.ident, "marks", <<"channel", "non fn">>)>> ELSE <<>>
<1>1. NonFnErrors(item) = Joined(a, b)
  BY Zenon DEF NonFnErrors, Joined
<1>2. /\ Blames(a, item.ident, "marks") /\ Blames(b, item.ident, "marks")
      /\ (a = <<>>) <=> ~marked("endpoint")
      /\ (b = <<>>) <=> ~marked("channel")
  BY BlamesFew, Zenon
<1> HIDE DEF a, b
<1>3. Blames(Joined(a, b), item.ident, "marks") /\ ((Joined(a, b) = <<>>) <=> (a = <<>> /\ b = <<>>))
  BY <1>2, BlamesJoined
<1>4. (Recognized(attrs) = <<>>) <=> ~marked("endpoint") /\ ~marked("channel")
  BY MarksFacts DEF IsMark, Range
<1> QED
  BY <1>1, <1>2, <1>3, <1>4

-----------------------------------------------------------------------------
(* The invariant.                                                          *)

\* What is known of an item of a trait.
IsItem(item) ==
  /\ {"what", "ident", "vis", "default", "generics", "attrs"} \subseteq DOMAIN item
  /\ IsSeq(item.attrs) /\ item.ident \notin NoItem
  /\ item.what = "fn" => IsFn(item) /\ {"sig", "body"} \subseteq DOMAIN item

\* The items of a trait: no function shares its identifier.
AreItems(list) ==
  /\ IsSeq(list) /\ \A k \in DOMAIN list : IsItem(list[k])
  /\ \A k, m \in DOMAIN list : (list[k].what = "fn" /\ list[k].ident = list[m].ident) => k = m

JobOK ==
  /\ job.args # None /\ job.macro \in {"endpoint", "channel", "api"}
  /\ OnFunction => /\ job.item.parses => IsSig(job.item.sig)
                   /\ job.item.parses => ~job.item.traitFn
  /\ ~OnFunction => AreItems(job.item.items)

\* What the parser makes of an item, and how it is blamed.
OtherItem(item) == [is |-> "Other", item |-> item]

ApiOf(item) == IF ItemKind(item) = "fn" THEN ApiFnItem(item).api ELSE OtherItem(item)

ErrsOf(item) ==
  IF ItemKind(item) = "fn" THEN ApiFnItem(item).errs
  ELSE IF ItemKind(item) = "verbatim" THEN <<>> ELSE NonFnErrors(item)

\* All items of the trait but the context's.
NotContext == {item \in Range(job.item.items) : ~IsContext(item)}

\* Those among them that have been looked at.
Looked == Kept(job.item.items, NotContext)[next - 1]

ContextOK ==
  LET found == ContextItems(job.item.items)
  IN IF found = <<>> THEN context.is = "Missing"
     ELSE context.is \in {"Invalid", "Valid"} /\ context.item = Head(found)

ItemsOK ==
  IF metadata = None
  THEN /\ next = 1
       /\ items = [k \in DOMAIN job.item.items |-> OtherItem(job.item.items[k])]
  ELSE /\ next \in 1 .. (Len(job.item.items) + 1) /\ ContextOK
       /\ IsSeq(items) /\ Len(items) = Len(Looked)
       /\ \A j \in 1 .. Len(items) : items[j] = ApiOf(Looked[j])

\* An error that is not about an item, nor about parameters or usage.
IsBase(e) == e.about \in NoItem /\ e.part \notin {"params", "usage"}

BaseErrs(errs) ==
  /\ IsSeq(errs) /\ \A e \in Range(errs) : IsBase(e)
  /\ (pc # "start" /\ metadata = None) => errs # <<>>
  /\ (pc = "context" /\ ~valid) => errs # <<>>

\* The errors are those of the items, and others that are not about an item.
TraitErrs(errs) ==
  /\ IsSeq(errs)
  /\ \A e \in Range(errs) :
       \/ IsBase(e)
       \/ metadata # None /\ \E k \in 1 .. (next - 1) : e \in Range(ErrsOf(job.item.items[k]))
  /\ metadata # None =>
       \A k \in 1 .. (next - 1) : \A e \in Range(ErrsOf(job.item.items[k])) : e \in Range(errs)
  /\ (metadata = None \/ ~valid \/ context.is # "Valid") => errs # <<>>

TraitOut ==
  [kind |-> "trait",
   dead_code |-> ~job.item.pub,
   items |-> make_context_trait_item
               \o [k \in DOMAIN items |-> to_out_trait_item(items[k])],
   module |-> make_module,
   endpoint |-> metadata # None /\ ParamErrors("endpoint"),
   channel |-> metadata # None /\ ParamErrors("channel")]

\* At the end, but for the usage messages.
TraitEnd(errs) ==
  IF job.item.parses
  THEN /\ ItemsOK /\ TraitErrs(errs) /\ out = TraitOut
       /\ metadata # None => next = Len(job.item.items) + 1
  ELSE /\ out = Nothing /\ items = <<>> /\ next = 1
       /\ BaseErrs(errs) /\ errs # <<>>

\* The usage messages.
TraitUsage ==
  Joined(IF out.channel THEN <<UsageErr("channel")>> ELSE <<>>,
         IF out.endpoint THEN <<UsageErr("endpoint")>> ELSE <<>>)

FnUsage == IF out.params THEN <<UsageErr(job.macro)>> ELSE <<>>

\* Where a macro panicked: before it looked at an item, because of a name it
\* was given, or after the last one, because of a method's.
Stuck ==
  \/ items = <<>> /\ next = 1 /\ (Unfit(job.args.module) \/ Unfit(job.args.context))
  \/ metadata # None /\ ItemsOK /\ next = Len(job.item.items) + 1 /\ RawEndpoint

TraitInv ==
  /\ pc \in {"start", "item", "context"} =>
       items = <<>> /\ next = 1 /\ out = Nothing /\ BaseErrs(errors)
  /\ pc \in {"context", "items", "output"} => job.item.parses
  /\ pc \in {"context", "items"} => metadata # None
  /\ pc \in {"items", "output"} => ItemsOK /\ TraitErrs(errors) /\ out = Nothing
  /\ (pc = "output" /\ metadata # None) => next = Len(job.item.items) + 1
  /\ pc = "panicked" => Stuck
  /\ pc = "usage" => TraitEnd(errors)
  /\ pc = "done" => \E e0 : /\ TraitEnd(e0)
                            /\ errors = Joined(IF job.item.parses THEN TraitUsage ELSE FnUsage, e0)

\* The parameters of the function.
FnParams ==
  IF job.macro = "channel" THEN ChannelParams(job.item.sig, None)
  ELSE EndpointParams(job.item.sig, None)

\* The output for a function that was taken apart.
StructOK(errs) ==
  /\ job.item.parses
  /\ out.params <=> Faults(errs)
  /\ Faults(errs) <=> (FnParams.val = None)
  /\ (out.from_impl = None) <=> (FnParams.val = None)
  /\ out.from_impl # None =>
       /\ out.from_impl.impl = to_impl_checks(FnParams.val)
       /\ job.macro = "channel" => out.from_impl.adapter = to_adapter_fn(FnParams.val)
  /\ errs = <<>> => /\ out.from_impl # None /\ out.construct # None
                    /\ VersionsBuild(out.construct.versions)

FunctionEnd(errs) ==
  /\ IsSeq(errs) /\ \A e \in Range(errs) : e.part # "usage"
  /\ out.kind \in {"item", "nothing", "struct"}
  /\ out.kind \in {"item", "nothing"} => ~out.params /\ errs # <<>> /\ ~Faults(errs)
  /\ out.kind = "struct" => StructOK(errs)

FunctionInv ==
  /\ pc \in {"start", "item", "usage", "done"} /\ items = <<>> /\ next = 1
  /\ pc \in {"start", "item"} => out = Nothing /\ BaseErrs(errors)
  /\ pc = "item" => ~job.item.traitFn
  /\ pc = "usage" => FunctionEnd(errors)
  /\ pc = "done" => \E e0 : FunctionEnd(e0) /\ errors = Joined(FnUsage, e0)

MacrosInv ==
  /\ JobOK
  /\ pc \in {"start", "item", "context", "items", "output", "usage", "done", "panicked"}
  /\ valid \in BOOLEAN /\ context.is \in {"Missing", "Invalid", "Valid"} /\ out # Panic
  /\ metadata # None => metadata = job.args /\ from_tokenstream(metadata)
  /\ pc = "start" => metadata = None /\ errors = <<>>
  /\ IF OnFunction THEN FunctionInv ELSE TraitInv

-----------------------------------------------------------------------------
(* The initial states.                                                     *)

\* An item in its place.
LEMMA PlacedItem ==
  ASSUME NEW item \in TraitItems, NEW ident \in Range(ItemIdents)
  PROVE  /\ item.what = "type" => IsItem(item) /\ item.ident \notin Range(ItemIdents)
         /\ item.what = "fn" =>
              LET p == [item EXCEPT !.ident = ident, !.sig.ident = ident]
              IN  IsItem(p) /\ p.what = "fn" /\ p.ident = ident
         /\ item.what \notin {"type", "fn"} =>
              LET p == [item EXCEPT !.ident = ident]
              IN  IsItem(p) /\ p.what = item.what /\ p.ident = ident
<1>1. /\ {"what", "ident", "vis", "default", "generics", "attrs"} \subseteq DOMAIN item
      /\ IsSeq(item.attrs)
      /\ item.what = "type" => item.ident \notin NoItem \cup Range(ItemIdents)
      /\ item.what = "fn" =>
            /\ {"sig", "body", "raw"} \subseteq DOMAIN item
            /\ DOMAIN item.sig = {"ident", "quals", "receiver", "inputs", "output"}
            /\ IsSeq(item.sig.inputs)
            /\ \A ty \in Range(item.sig.inputs) \cup ({item.sig.output} \ {None}) : IsType(ty)
  BY MacrosAssumption, Zenon DEF IsSeq
<1>2. ident \notin NoItem
  BY MacrosAssumption
<1>3. item.what = "type" => IsItem(item) /\ item.ident \notin Range(ItemIdents)
  BY <1>1 DEF IsItem
<1>4. ASSUME item.what \notin {"type", "fn"}
      PROVE  LET p == [item EXCEPT !.ident = ident]
             IN  IsItem(p) /\ p.what = item.what /\ p.ident = ident
  <2> DEFINE p == [item EXCEPT !.ident = ident]
  <2>1. DOMAIN p = DOMAIN item /\ p.what = item.what /\ p.ident = ident /\ p.attrs = item.attrs
    BY <1>1
  <2> HIDE DEF p
  <2>2. IsItem(p)
    BY <1>1, <1>2, <1>4, <2>1 DEF IsItem
  <2> QED
    BY <2>1, <2>2 DEF p
<1>5. ASSUME item.what = "fn"
      PROVE  LET p == [item EXCEPT !.ident = ident, !.sig.ident = ident]
             IN  IsItem(p) /\ p.what = "fn" /\ p.ident = ident
  <2> DEFINE sig == [item.sig EXCEPT !.ident = ident]
             p == [item EXCEPT !.ident = ident, !.sig.ident = ident]
  <2>1. sig.ident = ident /\ sig.inputs = item.sig.inputs /\ sig.output = item.sig.output
    BY <1>1, <1>5
  <2>2. /\ DOMAIN p = DOMAIN item /\ p.what = item.what /\ p.ident = ident
        /\ p.attrs = item.attrs /\ p.sig = sig
    BY <1>1, <1>5
  <2> HIDE DEF p, sig
  <2>3. IsSig(sig)
    BY <1>1, <1>5, <2>1 DEF IsSig
  <2>4. IsFn(p)
    BY <1>1, <2>1, <2>2, <2>3 DEF IsFn
  <2>5. IsItem(p)
    BY <1>1, <1>2, <1>5, <2>2, <2>4 DEF IsItem
  <2> QED
    BY <1>5, <2>2, <2>5 DEF p
<1> QED
  BY <1>3, <1>4, <1>5

\* The items of a trait, as they are put together.
LEMMA PlacedFacts ==
  ASSUME NEW n \in 0 .. MaxItems, NEW seq \in [1 .. n -> TraitItems]
  PROVE  AreItems(Placed(seq))
<1> DEFINE p == Placed(seq)
           ids == ItemIdents
<1>1. n \in Nat /\ DOMAIN seq = 1 .. n /\ \A k \in 1 .. n : seq[k] \in TraitItems
  BY MacrosAssumption
<1>2. /\ \A k \in 1 .. n : k \in DOMAIN ids /\ ids[k] \in Range(ids)
      /\ \A k, m \in DOMAIN ids : ids[k] = ids[m] => k = m
  <2>1. IsSeq(ids) /\ Len(ids) >= MaxItems /\ MaxItems \in Nat /\ IsInjective(ids)
    BY MacrosAssumption DEF IsSeq
  <2>2. DOMAIN ids = 1 .. Len(ids) /\ Len(ids) \in Nat /\ \A k \in 1 .. Len(ids) : ids[k] \in Range(ids)
    BY <2>1, SeqFacts
  <2>3. \A k \in 1 .. n : k \in 1 .. Len(ids)
    BY <2>1, <2>2
  <2> QED
    BY <2>1, <2>2, <2>3 DEF IsInjective
<1>3. DOMAIN p = 1 .. n /\ p = [k \in 1 .. n |-> p[k]]
  BY <1>1 DEF Placed
<1>4. ASSUME NEW k \in 1 .. n
      PROVE  /\ IsItem(p[k])
             /\ p[k].what = "fn" => p[k].ident = ids[k]
             /\ p[k].ident \in Range(ids) => p[k].ident = ids[k]
  <2> DEFINE item == seq[k]
             ident == ids[k]
  <2>1. item \in TraitItems /\ ident \in Range(ids)
    BY <1>1, <1>2
  <2>2. p[k] = CASE item.what = "type" -> item
                 [] item.what = "fn"   -> [item EXCEPT !.ident = ident, !.sig.ident = ident]
                 [] OTHER              -> [item EXCEPT !.ident = ident]
    <3> DEFINE q == [i \in DOMAIN seq |->
                      CASE seq[i].what = "type" -> seq[i]
                        [] seq[i].what = "fn"   -> [seq[i] EXCEPT !.ident = ids[i], !.sig.ident = ids[i]]
                        [] OTHER                -> [seq[i] EXCEPT !.ident = ids[i]]]
    <3>1. p = q
      BY Zenon DEF Placed
    <3>2. k \in DOMAIN seq
      BY <1>1
    <3>3. q[k] = CASE item.what = "type" -> item
                   [] item.what = "fn"   -> [item EXCEPT !.ident = ident, !.sig.ident = ident]
                   [] OTHER              -> [item EXCEPT !.ident = ident]
      BY <3>2, Zenon
    <3> QED
      BY <3>1, <3>3, Zenon
  <2> HIDE DEF p, item, ident
  <2>3. CASE item.what = "type"
    <3>1. p[k] = item
      <4>1. item.what # "fn"
        BY <2>3
      <4> QED
        BY <2>2, <2>3, <4>1, Zenon
    <3>2. IsItem(item) /\ item.ident \notin Range(ids)
      BY <2>1, <2>3, PlacedItem
    <3> QED
      BY <2>3, <3>1, <3>2
  <2>4. CASE item.what = "fn"
    <3>1. p[k] = [item EXCEPT !.ident = ident, !.sig.ident = ident]
      <4>1. item.what # "type"
        BY <2>4
      <4> QED
        BY <2>2, <2>4, <4>1, Zenon
    <3> DEFINE q == [item EXCEPT !.ident = ident, !.sig.ident = ident]
    <3>2. IsItem(q) /\ q.ident = ident
      BY <2>1, <2>4, PlacedItem
    <3> HIDE DEF q
    <3>3. p[k] = q
      BY <3>1 DEF q
    <3> QED
      BY <3>2, <3>3 DEF ident
  <2>5. CASE item.what \notin {"type", "fn"}
    <3>1. p[k] = [item EXCEPT !.ident = ident]
      <4>1. item.what # "type" /\ item.what # "fn"
        BY <2>5
      <4> QED
        BY <2>2, <4>1, Zenon
    <3> DEFINE q == [item EXCEPT !.ident = ident]
    <3>2. IsItem(q) /\ q.ident = ident
      BY <2>1, <2>5, PlacedItem
    <3> HIDE DEF q
    <3>3. p[k] = q
      BY <3>1 DEF q
    <3> QED
      BY <3>2, <3>3 DEF ident
  <2> QED
    BY <2>3, <2>4, <2>5
<1> HIDE DEF p
<1>5. IsSeq(p)
  <2>1. \A k \in 1 .. n : p[k] \in Range(p)
    BY <1>3 DEF Range
  <2>2. p \in Seq(Range(p))
    BY <1>1, <1>3, <2>1
  <2> QED
    BY <2>2 DEF IsSeq
<1>6. ASSUME NEW k \in 1 .. n, NEW m \in 1 .. n, p[k].what = "fn", p[k].ident = p[m].ident
      PROVE  k = m
  <2>1. p[k].ident = ids[k] /\ ids[k] \in Range(ids)
    BY <1>2, <1>4, <1>6
  <2>2. p[m].ident = ids[m]
    BY <1>4, <1>6, <2>1
  <2> QED
    BY <1>2, <1>6, <2>1, <2>2
<1> QED
  BY <1>3, <1>4, <1>5, <1>6 DEF AreItems, p

\* The invariant holds before a macro has begun.
LEMMA InitInv == Init => MacrosInv
<1> SUFFICES ASSUME Init PROVE MacrosInv
  OBVIOUS
<1>1. JobOK
  <2>1. CASE FunctionJob
    <3>1. ASSUME NEW macro \in {"endpoint", "channel"}, NEW args \in FnArgs,
                 NEW q, NEW r, NEW o \in Outputs, NEW n \in 0 .. MaxInputs,
                 NEW i \in [1 .. n -> InputTypes],
                 job = [macro |-> macro, args |-> args,
                        item |-> [traitFn |-> FALSE, parses |-> TRUE,
                                  sig |-> [ident |-> "f", quals |-> q, receiver |-> r,
                                           inputs |-> i, output |-> o]]]
          PROVE  JobOK
      <4>1. job.macro = macro /\ job.args = args /\ job.item.parses /\ ~job.item.traitFn
            /\ job.item.sig.inputs = i /\ job.item.sig.output = o
        BY <3>1
      <4>2. n \in Nat /\ args # None /\ \A ty \in InputTypes \cup (Outputs \ {None}) : IsType(ty)
        BY MacrosAssumption
      <4>3. IsSeq(i) /\ Range(i) \subseteq InputTypes
        <5>1. i \in Seq(InputTypes)
          BY <4>2
        <5> QED
          BY <5>1, SeqIsSeq
      <4>4. IsSig(job.item.sig)
        BY <4>1, <4>2, <4>3 DEF IsSig
      <4> QED
        BY <4>1, <4>2, <4>4 DEF JobOK, OnFunction
    <3>2. ASSUME NEW macro \in {"endpoint", "channel"}, NEW args \in FnArgs, NEW t,
                 job = [macro |-> macro, args |-> args, item |-> [traitFn |-> t, parses |-> FALSE]]
          PROVE  JobOK
      <4>1. job.macro = macro /\ job.args = args /\ ~job.item.parses
        BY <3>2
      <4>2. args # None
        BY MacrosAssumption
      <4> QED
        BY <4>1, <4>2 DEF JobOK, OnFunction
    <3> QED
      BY <2>1, <3>1, <3>2, Zenon DEF FunctionJob
  <2>2. CASE TraitJob
    <3>1. ASSUME NEW args \in ApiArgs, NEW q, NEW n \in 0 .. MaxItems,
                 NEW seq \in [1 .. n -> TraitItems],
                 job = [macro |-> "api", args |-> args,
                        item |-> [parses |-> TRUE, quals |-> q, pub |-> q = {}, items |-> Placed(seq)]]
          PROVE  JobOK
      <4> DEFINE list == Placed(seq)
                 b == (q = {})
      <4>1. AreItems(list)
        BY PlacedFacts
      <4>2. job = [macro |-> "api", args |-> args,
                   item |-> [parses |-> TRUE, quals |-> q, pub |-> b, items |-> list]]
        BY <3>1, Zenon
      <4> HIDE DEF list, b
      <4>3. job.macro = "api" /\ job.args = args /\ job.item.items = list
        BY <4>2
      <4>4. args # None
        BY MacrosAssumption
      <4> QED
        BY <4>1, <4>3, <4>4 DEF JobOK, OnFunction
    <3>2. ASSUME NEW args \in ApiArgs,
                 job = [macro |-> "api", args |-> args, item |-> [parses |-> FALSE, items |-> <<>>]]
          PROVE  JobOK
      <4>1. job.macro = "api" /\ job.args = args /\ job.item.items = <<>>
        BY <3>2
      <4>2. args # None
        BY MacrosAssumption
      <4>3. AreItems(<<>>)
        BY EmptyIsSeq DEF AreItems
      <4> QED
        BY <4>1, <4>2, <4>3 DEF JobOK, OnFunction
    <3> QED
      BY <2>2, <3>1, <3>2, Zenon DEF TraitJob
  <2> QED
    BY <2>1, <2>2 DEF Init
<1>2. out # Panic /\ out = Nothing
  <2>1. Nothing # Panic
    BY Values DEF Nothing
  <2> QED
    BY <2>1 DEF Init
<1>3. /\ pc = "start" /\ metadata = None /\ valid = FALSE /\ context.is = "Missing"
      /\ items = <<>> /\ next = 1 /\ errors = <<>>
  BY DEF Init
<1>4. BaseErrs(errors)
  BY <1>3, EmptyIsSeq DEF BaseErrs
<1>5. FunctionInv /\ TraitInv
  BY <1>2, <1>3, <1>4 DEF FunctionInv, TraitInv
<1> QED
  BY <1>1, <1>2, <1>3, <1>5 DEF MacrosInv

-----------------------------------------------------------------------------
(* What does not change while its variables do not.                        *)

LEMMA ItemFrame ==
  ASSUME metadata' = metadata, NEW item
  PROVE  /\ IsContext(item)' <=> IsContext(item)
         /\ ApiFnItem(item)' = ApiFnItem(item)
         /\ ApiOf(item)' = ApiOf(item) /\ ErrsOf(item)' = ErrsOf(item)
<1>1. ContextName' = ContextName
  BY DEF ContextName
<1>2. IsContext(item)' <=> IsContext(item)
  BY <1>1 DEF IsContext
<1>3. ApiFnItem(item)' = ApiFnItem(item)
  <2>1. \A attr : ApiMarked(item, attr)' = ApiMarked(item, attr)
    BY <1>1, Zenon DEF ApiMarked, ApiChannel, ApiEndpoint
  <2>2. ApiMarked(item, Recognized(item.attrs)[1])' = ApiMarked(item, Recognized(item.attrs)[1])
    BY <2>1, Zenon
  <2> QED
    BY <2>2, Zenon DEF ApiFnItem
<1>4. ApiOf(item)' = ApiOf(item) /\ ErrsOf(item)' = ErrsOf(item)
  BY <1>3, Zenon DEF ApiOf, ErrsOf
<1> QED
  BY <1>2, <1>3, <1>4

\* The context and the other items depend on the trait and its arguments only.
LEMMA ListFrame ==
  ASSUME job' = job, metadata' = metadata
  PROVE  /\ NotContext' = NotContext
         /\ \A list : ContextItems(list)' = ContextItems(list)
<1>1. \A item : IsContext(item)' <=> IsContext(item)
  BY ItemFrame
<1>2. NotContext' = NotContext
  BY <1>1 DEF NotContext
<1>3. ASSUME NEW list PROVE ContextItems(list)' = ContextItems(list)
  <2> DEFINE a == {item \in Range(list) : IsContext(item)}
             b == {item \in Range(list) : IsContext(item)'}
  <2>1. a = b
    BY <1>1
  <2>2. ContextItems(list) = Filter(list, a) /\ ContextItems(list)' = Filter(list, b)
    BY Zenon DEF ContextItems
  <2> HIDE DEF a, b
  <2> QED
    BY <2>1, <2>2
<1> QED
  BY <1>2, <1>3

LEMMA ContextFrame ==
  ASSUME job' = job, metadata' = metadata, context' = context
  PROVE  ContextOK' <=> ContextOK
<1>1. ContextItems(job.item.items)' = ContextItems(job.item.items)
  <2>1. PICK list : list = job.item.items
    OBVIOUS
  <2>2. ContextItems(list)' = ContextItems(list)
    BY ListFrame
  <2>3. ContextItems(job.item.items) = ContextItems(list)
    BY <2>1
  <2>4. ContextItems(job.item.items)' = ContextItems(list)'
    BY <2>1, Zenon DEF ContextItems
  <2> QED
    BY <2>2, <2>3, <2>4, Zenon
<1> QED
  BY <1>1, Zenon DEF ContextOK

LEMMA ItemsFrame ==
  ASSUME UNCHANGED <<job, metadata, context, items, next>>
  PROVE  ItemsOK' <=> ItemsOK
<1>1. Looked' = Looked
  BY ListFrame DEF Looked
<1>2. ContextOK' <=> ContextOK
  BY ContextFrame
<1>3. \A item : ApiOf(item)' = ApiOf(item)
  BY ItemFrame
<1>4. \A j : ApiOf(Looked[j])' = ApiOf(Looked[j])
  <2> SUFFICES ASSUME NEW j PROVE ApiOf(Looked[j])' = ApiOf(Looked[j])
    OBVIOUS
  <2>1. PICK item : item = Looked[j]
    OBVIOUS
  <2>2. ApiOf(item)' = ApiOf(item)
    BY <1>3
  <2> QED
    BY <1>1, <2>1, <2>2, Zenon
<1>5. CASE metadata = None
  BY <1>5 DEF ItemsOK
<1>6. CASE metadata # None
  BY <1>1, <1>2, <1>4, <1>6, Zenon DEF ItemsOK
<1> QED
  BY <1>5, <1>6

LEMMA ErrsFrame ==
  ASSUME UNCHANGED <<job, metadata, valid, context, next>>, NEW errs
  PROVE  TraitErrs(errs)' <=> TraitErrs(errs)
<1>1. \A k : ErrsOf(job.item.items[k])' = ErrsOf(job.item.items[k])
  <2> SUFFICES ASSUME NEW k PROVE ErrsOf(job.item.items[k])' = ErrsOf(job.item.items[k])
    OBVIOUS
  <2>1. PICK item : item = job.item.items[k]
    OBVIOUS
  <2>2. ErrsOf(item)' = ErrsOf(item)
    BY ItemFrame
  <2>3. ErrsOf(job.item.items[k])' = ErrsOf(item)'
    BY <2>1, Zenon DEF ErrsOf
  <2> QED
    BY <2>1, <2>2, <2>3, Zenon
<1> QED
  BY <1>1, Zenon DEF TraitErrs

LEMMA OutFrame ==
  ASSUME UNCHANGED <<job, metadata, valid, context, items>>
  PROVE  TraitOut' = TraitOut
<1>1. make_context_trait_item' = make_context_trait_item /\ (HasInvalidFnItems' <=> HasInvalidFnItems)
  BY Zenon DEF make_context_trait_item, HasInvalidFnItems
<1>2. \A kind : ParamErrors(kind)' <=> ParamErrors(kind)
  BY Zenon DEF ParamErrors
<1>3. \A stub : make_api_factory_body(stub)' = make_api_factory_body(stub)
  <2>1. make_tag_config' = make_tag_config
    BY Zenon DEF make_tag_config
  <2> QED
    BY <1>1, <2>1, Zenon DEF make_api_factory_body
<1>4. make_type_checks' = make_type_checks
  BY Zenon DEF make_type_checks
<1>5. make_module' = make_module
  <2>1. /\ make_api_factory_body(TRUE)' = make_api_factory_body(TRUE)
        /\ make_api_factory_body(FALSE)' = make_api_factory_body(FALSE)
    BY <1>3, Zenon
  <2> QED
    BY <1>1, <1>4, <2>1, Zenon DEF make_module
<1>6. /\ ParamErrors("endpoint")' <=> ParamErrors("endpoint")
      /\ ParamErrors("channel")' <=> ParamErrors("channel")
  BY <1>2, Zenon
<1> QED
  BY <1>1, <1>5, <1>6, Zenon DEF TraitOut

LEMMA TraitEndFrame ==
  ASSUME UNCHANGED <<job, metadata, valid, context, items, next, out>>,
         NEW errs, TraitEnd(errs), pc' \in {"usage", "done"}, ~OnFunction
  PROVE  TraitEnd(errs)'
<1>1. CASE job.item.parses
  <2>1. ItemsOK' <=> ItemsOK
    BY ItemsFrame
  <2>2. TraitErrs(errs)' <=> TraitErrs(errs)
    BY ErrsFrame
  <2>3. TraitOut' = TraitOut
    BY OutFrame
  <2> QED
    BY <1>1, <2>1, <2>2, <2>3 DEF TraitEnd
<1>2. CASE ~job.item.parses
  BY <1>2 DEF TraitEnd, BaseErrs, Nothing
<1> QED
  BY <1>1, <1>2

LEMMA FunctionEndFrame ==
  ASSUME UNCHANGED <<job, out>>, NEW errs, FunctionEnd(errs)
  PROVE  FunctionEnd(errs)'
<1>1. FnParams' = FnParams
  BY DEF FnParams
<1>2. StructOK(errs)' <=> StructOK(errs)
  BY <1>1, Zenon DEF StructOK
<1> QED
  BY <1>2, Zenon DEF FunctionEnd

LEMMA JobFrame ==
  ASSUME JobOK, job' = job
  PROVE  JobOK' /\ (OnFunction' <=> OnFunction)
BY DEF JobOK, OnFunction

\* Nothing in front.
LEMMA JoinedEmpty ==
  ASSUME NEW s, IsSeq(s)
  PROVE  Joined(<<>>, s) = s
<1>1. s \in Seq(Range(s))
  BY DEF IsSeq
<1> QED
  BY <1>1 DEF Joined

-----------------------------------------------------------------------------
(* Steps of a macro on a function.                                         *)

LEMMA StutterStep ==
  ASSUME MacrosInv, UNCHANGED vars
  PROVE  MacrosInv'
<1>1. JobOK' /\ (OnFunction' <=> OnFunction)
  BY JobFrame DEF MacrosInv, vars
<1>2. CASE OnFunction
  <2>1. FunctionInv
    BY <1>2 DEF MacrosInv
  <2>2. \A errs : FunctionEnd(errs) => FunctionEnd(errs)'
    BY FunctionEndFrame DEF vars
  <2>3. FnUsage' = FnUsage
    BY DEF FnUsage, vars
  <2>4. BaseErrs(errors)' <=> BaseErrs(errors)
    BY DEF BaseErrs, vars
  <2>5. FunctionEnd(errors) => FunctionEnd(errors)'
    <3>1. PICK e : e = errors
      OBVIOUS
    <3>2. FunctionEnd(e) => FunctionEnd(e)'
      BY <2>2
    <3> QED
      BY <3>1, <3>2, Zenon DEF vars
  <2>6. FunctionInv'
    <3>1. /\ pc' = pc /\ job' = job /\ items' = items /\ next' = next /\ out' = out /\ errors' = errors
      BY DEF vars
    <3>2. ASSUME pc = "done" PROVE (\E e0 : FunctionEnd(e0) /\ errors = Joined(FnUsage, e0))'
      <4>1. PICK e0 : FunctionEnd(e0) /\ errors = Joined(FnUsage, e0)
        BY <2>1, <3>2 DEF FunctionInv
      <4>2. FunctionEnd(e0)'
        BY <2>2, <4>1
      <4> QED
        BY <2>3, <3>1, <4>1, <4>2
    <3> QED
      BY <2>1, <2>4, <2>5, <3>1, <3>2 DEF FunctionInv
  <2> QED
    BY <1>1, <1>2, <2>6 DEF MacrosInv, vars
<1>3. CASE ~OnFunction
  <2>1. TraitInv
    BY <1>3 DEF MacrosInv
  <2>2. \A errs : TraitEnd(errs) /\ pc \in {"usage", "done"} => TraitEnd(errs)'
    BY <1>3, TraitEndFrame DEF vars
  <2>3. TraitUsage' = TraitUsage /\ FnUsage' = FnUsage
    BY DEF TraitUsage, FnUsage, vars
  <2>4. BaseErrs(errors)' <=> BaseErrs(errors)
    BY DEF BaseErrs, vars
  <2>5. TraitEnd(errors) /\ pc = "usage" => TraitEnd(errors)'
    <3>1. PICK e : e = errors
      OBVIOUS
    <3>2. TraitEnd(e) /\ pc = "usage" => TraitEnd(e)'
      BY <2>2
    <3> QED
      BY <3>1, <3>2, Zenon DEF vars
  <2>6. ItemsOK' <=> ItemsOK
    BY ItemsFrame DEF vars
  <2>7. TraitErrs(errors)' <=> TraitErrs(errors)
    <3>1. PICK e : e = errors
      OBVIOUS
    <3>2. TraitErrs(e)' <=> TraitErrs(e)
      BY ErrsFrame DEF vars
    <3> QED
      BY <3>1, <3>2, Zenon DEF vars
  <2>8. TraitInv'
    <3>1. /\ pc' = pc /\ job' = job /\ items' = items /\ next' = next /\ out' = out
          /\ errors' = errors /\ metadata' = metadata
      BY DEF vars
    <3>2. ASSUME pc = "done"
          PROVE  (\E e0 : /\ TraitEnd(e0)
                          /\ errors = Joined(IF job.item.parses THEN TraitUsage ELSE FnUsage, e0))'
      <4>1. PICK e0 : /\ TraitEnd(e0)
                      /\ errors = Joined(IF job.item.parses THEN TraitUsage ELSE FnUsage, e0)
        BY <2>1, <3>2 DEF TraitInv
      <4>2. TraitEnd(e0)'
        BY <2>2, <3>2, <4>1
      <4> QED
        BY <2>3, <3>1, <4>1, <4>2
    <3>3. Stuck => Stuck'
      BY <2>6, <3>1 DEF Stuck, RawEndpoint, Unfit
    <3> QED
      BY <2>1, <2>4, <2>5, <2>6, <2>7, <3>1, <3>2, <3>3 DEF TraitInv
  <2> QED
    BY <1>1, <1>3, <2>8 DEF MacrosInv, vars
<1> QED
  BY <1>2, <1>3

\* One error that is not about an item.
LEMMA BaseErr ==
  ASSUME NEW about \in NoItem, NEW part, part \notin {"params", "usage"}, NEW msg,
         NEW errs, IsSeq(errs), \A e \in Range(errs) : IsBase(e)
  PROVE  /\ IsSeq(Added(errs, Err(about, part, msg))) /\ Added(errs, Err(about, part, msg)) # <<>>
         /\ \A e \in Range(Added(errs, Err(about, part, msg))) : IsBase(e)
<1> DEFINE x == Err(about, part, msg)
<1>1. x.about = about /\ x.part = part
  BY DEF Err
<1> HIDE DEF x
<1>2. IsSeq(Added(errs, x)) /\ Range(Added(errs, x)) = Range(errs) \cup {x} /\ Added(errs, x) # <<>>
  BY AddedFacts
<1>3. \A e \in Range(Added(errs, x)) : IsBase(e)
  BY <1>1, <1>2 DEF IsBase
<1> QED
  BY <1>2, <1>3 DEF x

LEMMA TraitFunctionStep ==
  ASSUME MacrosInv, TraitFunction
  PROVE  MacrosInv'
<1> DEFINE e == <<Err("item", "item", <<"trait function", "">>)>>
           o == [kind |-> "item", params |-> FALSE]
<1>1. /\ OnFunction /\ errors' = e /\ out' = o /\ pc' = "done"
      /\ UNCHANGED <<job, metadata, valid, context, items, next>>
  BY DEF TraitFunction
<1>2. JobOK' /\ OnFunction' /\ FunctionInv
  BY <1>1, JobFrame DEF MacrosInv
<1>3. o.kind = "item" /\ ~o.params /\ o # Panic
  BY Values
<1>4. Blames(e, "item", "item") /\ e # <<>>
  BY BlamesFew
<1> HIDE DEF e, o
<1>5. FunctionEnd(e)'
  BY <1>1, <1>3, <1>4 DEF FunctionEnd, Blames, Faults
<1>6. FnUsage' = <<>>
  BY <1>1, <1>3, Zenon DEF FnUsage
<1>7. errors' = Joined(FnUsage', e)
  BY <1>1, <1>4, <1>6, JoinedEmpty DEF Blames
<1>8. (\E e0 : FunctionEnd(e0) /\ errors = Joined(FnUsage, e0))'
  BY <1>5, <1>7
<1>9. FunctionInv'
  BY <1>1, <1>2, <1>8 DEF FunctionInv
<1> QED
  BY <1>1, <1>2, <1>3, <1>9 DEF MacrosInv

LEMMA ParseArgsStep ==
  ASSUME MacrosInv, ParseArgs
  PROVE  MacrosInv'
<1> DEFINE x == Err("args", "args", <<"bad", "">>)
<1>1. /\ pc = "start" /\ (OnFunction => ~job.item.traitFn) /\ pc' = "item"
      /\ UNCHANGED <<job, valid, context, items, next, out>>
  BY DEF ParseArgs
<1>2. IF from_tokenstream(job.args) THEN metadata' = job.args /\ errors' = errors
      ELSE metadata' = None /\ errors' = Added(errors, x)
  BY Zenon DEF ParseArgs, Added
<1>3. JobOK' /\ (OnFunction' <=> OnFunction)
  BY <1>1, JobFrame DEF MacrosInv
<1>4. errors = <<>> /\ metadata = None /\ job.args # None
  BY <1>1 DEF MacrosInv, JobOK
<1>5. IsSeq(errors) /\ \A e \in Range(errors) : IsBase(e)
  BY <1>4, EmptyIsSeq
<1>6. IsSeq(Added(errors, x)) /\ Added(errors, x) # <<>> /\ \A e \in Range(Added(errors, x)) : IsBase(e)
  BY <1>5, BaseErr DEF NoItem
<1> HIDE DEF x
<1>7. BaseErrs(errors)'
  BY <1>1, <1>2, <1>4, <1>5, <1>6 DEF BaseErrs
<1>8. metadata' # None => metadata' = job'.args /\ from_tokenstream(metadata')
  BY <1>1, <1>2
<1>9. CASE OnFunction
  <2>1. FunctionInv
    BY <1>9 DEF MacrosInv
  <2>2. FunctionInv'
    BY <1>1, <1>7, <1>9, <2>1 DEF FunctionInv
  <2> QED
    BY <1>1, <1>3, <1>8, <1>9, <2>2 DEF MacrosInv
<1>10. CASE ~OnFunction
  <2>1. TraitInv
    BY <1>10 DEF MacrosInv
  <2>2. TraitInv'
    BY <1>1, <1>7, <2>1 DEF TraitInv
  <2> QED
    BY <1>1, <1>3, <1>8, <1>10, <2>2 DEF MacrosInv
<1> QED
  BY <1>9, <1>10

LEMMA ItemUnparsableStep ==
  ASSUME MacrosInv, ItemUnparsable
  PROVE  MacrosInv'
<1> DEFINE x == Err("item", "item", <<"unparsable", "">>)
<1>1. /\ pc = "item" /\ ~job.item.parses /\ out' = Nothing /\ pc' = "usage"
      /\ UNCHANGED <<job, metadata, valid, context, items, next>>
  BY DEF ItemUnparsable
<1>2. errors' = Added(errors, x)
  BY Zenon DEF ItemUnparsable, Added
<1>3. JobOK' /\ (OnFunction' <=> OnFunction)
  BY <1>1, JobFrame DEF MacrosInv
<1>4. items = <<>> /\ next = 1 /\ out = Nothing /\ BaseErrs(errors)
  BY <1>1 DEF MacrosInv, FunctionInv, TraitInv
<1>5. IsSeq(errors') /\ errors' # <<>> /\ \A e \in Range(errors') : IsBase(e)
  BY <1>2, <1>4, BaseErr DEF NoItem, BaseErrs
<1> HIDE DEF x
<1>6. BaseErrs(errors)'
  BY <1>1, <1>5 DEF BaseErrs
<1>7. Nothing.kind = "nothing" /\ ~Nothing.params
  BY DEF Nothing
<1>8. CASE OnFunction
  <2>1. FunctionEnd(errors)'
    BY <1>1, <1>5, <1>7 DEF FunctionEnd, Faults, IsBase
  <2>2. FunctionInv'
    BY <1>1, <1>4, <2>1 DEF FunctionInv
  <2> QED
    BY <1>1, <1>3, <1>4, <1>8, <2>2 DEF MacrosInv
<1>9. CASE ~OnFunction
  <2>1. TraitEnd(errors)'
    BY <1>1, <1>4, <1>5, <1>6 DEF TraitEnd
  <2>2. TraitInv'
    BY <1>1, <2>1 DEF TraitInv
  <2> QED
    BY <1>1, <1>3, <1>4, <1>9, <2>2 DEF MacrosInv
<1> QED
  BY <1>8, <1>9

LEMMA FunctionAsIsStep ==
  ASSUME MacrosInv, FunctionAsIs
  PROVE  MacrosInv'
<1> DEFINE o == [kind |-> "item", params |-> FALSE]
<1>1. /\ pc = "item" /\ OnFunction /\ metadata = None /\ out' = o /\ pc' = "usage"
      /\ UNCHANGED <<job, metadata, valid, context, items, next, errors>>
  BY DEF FunctionAsIs
<1>2. JobOK' /\ OnFunction' /\ FunctionInv
  BY <1>1, JobFrame DEF MacrosInv
<1>3. o.kind = "item" /\ ~o.params /\ o # Panic
  BY Values
<1> HIDE DEF o
<1>4. IsSeq(errors) /\ errors # <<>> /\ \A e \in Range(errors) : IsBase(e)
  BY <1>1, <1>2 DEF FunctionInv, BaseErrs
<1>5. FunctionEnd(errors)'
  BY <1>1, <1>3, <1>4 DEF FunctionEnd, Faults, IsBase
<1>6. FunctionInv'
  BY <1>1, <1>2, <1>5 DEF FunctionInv
<1> QED
  BY <1>1, <1>2, <1>3, <1>6 DEF MacrosInv

\* Three sequences.
LEMMA JoinedTwice ==
  ASSUME NEW a, IsSeq(a), NEW b, IsSeq(b), NEW c, IsSeq(c)
  PROVE  /\ IsSeq(Joined(Joined(a, b), c))
         /\ Range(Joined(Joined(a, b), c)) = Range(a) \cup Range(b) \cup Range(c)
         /\ (Joined(Joined(a, b), c) = <<>>) <=> (a = <<>> /\ b = <<>> /\ c = <<>>)
<1> DEFINE d == Joined(a, b)
<1>1. IsSeq(d) /\ Range(d) = Range(a) \cup Range(b)
  BY JoinedFacts
<1>2. (d = <<>>) <=> (a = <<>> /\ b = <<>>)
  BY JoinedFacts, Zenon
<1> HIDE DEF d
<1>3. IsSeq(Joined(d, c)) /\ Range(Joined(d, c)) = Range(d) \cup Range(c)
  BY <1>1, JoinedFacts
<1>4. (Joined(d, c) = <<>>) <=> (d = <<>> /\ c = <<>>)
  BY <1>1, JoinedFacts, Zenon
<1> QED
  BY <1>1, <1>2, <1>3, <1>4 DEF d

\* The two verdicts on a function, and what is made of them.
LEMMA InnerStep ==
  ASSUME MacrosInv, pc = "item", OnFunction, job.item.parses, metadata # None,
         NEW meta, Rated(meta, job.item.sig.ident),
         NEW params, params = FnParams, Judged(params, job.item.sig.ident), params.val # Panic,
         NEW from, from # None, from.impl = to_impl_checks(params.val),
         job.macro = "channel" => from.adapter = to_adapter_fn(params.val),
         NEW con, con # None, con.versions = meta.val.versions,
         errors' = Joined(Joined(errors, meta.errs), params.errs),
         out' = IF Panic \in {meta.val, params.val} THEN Panic
                ELSE [kind |-> "struct", params |-> params.val = None,
                      from_impl |-> IF params.val = None THEN None ELSE from,
                      construct |-> IF None \in {meta.val, params.val} THEN None ELSE con],
         pc' = IF out' = Panic THEN "done" ELSE "usage",
         UNCHANGED <<job, metadata, valid, context, items, next>>
  PROVE  MacrosInv'
<1>1. JobOK' /\ OnFunction' /\ FunctionInv
  BY JobFrame DEF MacrosInv
<1> DEFINE fault == (params.val = None)
           f == IF fault THEN None ELSE from
           c == IF None \in {meta.val, params.val} THEN None ELSE con
           o == [kind |-> "struct", params |-> fault, from_impl |-> f, construct |-> c]
<1>2. out' = o
  <2>1. Panic \notin {meta.val, params.val}
    BY DEF Rated
  <2> QED
    BY <2>1, Zenon
<1>3. o # Panic /\ o.kind = "struct" /\ o.from_impl = f /\ o.construct = c /\ o.params = fault
  <2> HIDE DEF fault, f, c
  <2> QED
    BY Values
<1> HIDE DEF o
<1>4. pc' = "usage"
  BY <1>2, <1>3
<1>5. IsSeq(errors) /\ \A e \in Range(errors) : IsBase(e)
  BY <1>1 DEF FunctionInv, BaseErrs
<1>6. IsSeq(meta.errs) /\ IsSeq(params.errs)
  BY DEF Rated, Judged, Blames
<1>7. PICK errs : errs = Joined(Joined(errors, meta.errs), params.errs)
  OBVIOUS
<1>8. /\ IsSeq(errs) /\ Range(errs) = Range(errors) \cup Range(meta.errs) \cup Range(params.errs)
      /\ errs = <<>> => meta.errs = <<>> /\ params.errs = <<>>
  <2> DEFINE j == Joined(Joined(errors, meta.errs), params.errs)
  <2>1. /\ IsSeq(j) /\ Range(j) = Range(errors) \cup Range(meta.errs) \cup Range(params.errs)
        /\ j = <<>> => meta.errs = <<>> /\ params.errs = <<>>
    BY ONLY <1>5, <1>6, JoinedTwice
  <2> QED
    BY ONLY <1>7, <2>1, Zenon
<1>9. errors' = errs
  BY <1>7, Zenon
<1>10. /\ \A e \in Range(errors) : e.part \notin {"usage", "params"}
       /\ \A e \in Range(meta.errs) : e.part = "metadata"
       /\ \A e \in Range(params.errs) : e.part = "params"
  BY <1>5 DEF IsBase, Rated, Judged, Blames
<1>11. \A e \in Range(errs) : e.part # "usage"
  BY <1>8, <1>10
<1>12. Faults(errs) <=> fault
  <2>1. Faults(errs) <=> (Range(params.errs) # {})
    BY <1>8, <1>10 DEF Faults
  <2>2. (params.errs = <<>>) <=> (Range(params.errs) = {})
    BY <1>6, SeqFacts
  <2> QED
    BY <2>1, <2>2 DEF Judged
<1>13. FnParams' = params
  BY DEF FnParams
<1>14. /\ (f = None) <=> fault
       /\ f # None => f = from
  OBVIOUS
<1>15. errs = <<>> => f # None /\ c # None /\ VersionsBuild(c.versions)
  <2>1. errs = <<>> => meta.val # None /\ params.val # None
    BY <1>8 DEF Rated, Judged
  <2>2. (meta.val # None /\ params.val # None) => c = con /\ f = from
    OBVIOUS
  <2> HIDE DEF c, f
  <2> QED
    BY <2>1, <2>2 DEF Rated
<1>16. StructOK(errs)'
  <2>1. out'.params <=> Faults(errs)
    BY <1>2, <1>3, <1>12, Zenon
  <2>2. (out'.from_impl = None) <=> (params.val = None)
    BY <1>2, <1>3, <1>14, Zenon
  <2>3. out'.from_impl # None => /\ out'.from_impl.impl = to_impl_checks(params.val)
                                 /\ job.macro = "channel" => out'.from_impl.adapter = to_adapter_fn(params.val)
    BY <1>2, <1>3, <1>14, Zenon
  <2>4. errs = <<>> => /\ out'.from_impl # None /\ out'.construct # None
                       /\ VersionsBuild(out'.construct.versions)
    BY <1>2, <1>3, <1>15, Zenon
  <2>5. job'.item.parses /\ job'.macro = job.macro
    OBVIOUS
  <2> QED
    BY <1>12, <1>13, <2>1, <2>2, <2>3, <2>4, <2>5, Zenon DEF StructOK
<1>17. FunctionEnd(errs)'
  BY <1>2, <1>3, <1>8, <1>11, <1>16 DEF FunctionEnd
<1>18. FunctionEnd(errors)'
  BY <1>9, <1>17, Zenon
<1>19. FunctionInv'
  BY <1>1, <1>4, <1>18 DEF FunctionInv
<1> QED
  BY <1>1, <1>2, <1>3, <1>4, <1>19 DEF MacrosInv

LEMMA EndpointInnerStep ==
  ASSUME MacrosInv, do_endpoint_inner
  PROVE  MacrosInv'
<1> DEFINE sig == job.item.sig
           params == EndpointParams(sig, None)
           p == params.val
           meta == EndpointValidate(metadata, sig.ident, FALSE)
           checks == EndpointTypeChecks(p)
           impl == to_impl_checks(p)
           from == [checks |-> checks, impl |-> impl, adapter |-> None]
           con == to_api_endpoint_fn(meta.val, sig.ident, "fn", <<>>)
<1>1. pc = "item" /\ job.macro = "endpoint" /\ job.item.parses /\ metadata # None
  BY DEF do_endpoint_inner, ReadyFor
<1>2. /\ errors' = Joined(Joined(errors, meta.errs), params.errs)
      /\ out' = IF Panic \in {meta.val, params.val} THEN Panic
                ELSE [kind |-> "struct", params |-> params.val = None,
                      from_impl |-> IF params.val = None THEN None ELSE from,
                      construct |-> IF None \in {meta.val, params.val} THEN None ELSE con]
      /\ pc' = IF out' = Panic THEN "done" ELSE "usage"
      /\ UNCHANGED <<job, metadata, valid, context, items, next>>
  BY Zenon DEF do_endpoint_inner, Inner, Joined
<1>3. OnFunction
  BY <1>1 DEF OnFunction
<1>4. IsSig(sig) /\ from_tokenstream(metadata)
  BY <1>1, <1>3 DEF MacrosInv, JobOK
<1>5. Rated(meta, sig.ident)
  BY <1>4, EndpointRated
<1>6. Judged(params, sig.ident) /\ params.val # Panic /\ params = FnParams
  <2>1. params = FnParams
    BY <1>1 DEF FnParams
  <2> QED
    BY <1>4, <2>1, EndpointJudged
<1>7. con # None /\ con.versions = meta.val.versions
  <2> HIDE DEF meta
  <2> QED
    BY Values DEF to_api_endpoint_fn
<1>8. from # None /\ from.impl = impl /\ job.macro # "channel"
  <2> HIDE DEF checks, impl
  <2> QED
    BY <1>1, Values
<1> HIDE DEF meta, params, from, con
<1> QED
  BY <1>1, <1>2, <1>3, <1>5, <1>6, <1>7, <1>8, InnerStep, Zenon

LEMMA ChannelInnerStep ==
  ASSUME MacrosInv, do_channel_inner
  PROVE  MacrosInv'
<1> DEFINE sig == job.item.sig
           params == ChannelParams(sig, None)
           p == params.val
           meta == ChannelValidate(metadata, sig.ident, FALSE)
           checks == ChannelTypeChecks(p)
           impl == to_impl_checks(p)
           adapter == to_adapter_fn(p)
           from == [checks |-> checks, impl |-> impl, adapter |-> adapter]
           con == to_api_endpoint_fn(meta.val, sig.ident, "adapter", <<>>)
<1>1. pc = "item" /\ job.macro = "channel" /\ job.item.parses /\ metadata # None
  BY DEF do_channel_inner, ReadyFor
<1>2. /\ errors' = Joined(Joined(errors, meta.errs), params.errs)
      /\ out' = IF Panic \in {meta.val, params.val} THEN Panic
                ELSE [kind |-> "struct", params |-> params.val = None,
                      from_impl |-> IF params.val = None THEN None ELSE from,
                      construct |-> IF None \in {meta.val, params.val} THEN None ELSE con]
      /\ pc' = IF out' = Panic THEN "done" ELSE "usage"
      /\ UNCHANGED <<job, metadata, valid, context, items, next>>
  BY Zenon DEF do_channel_inner, Inner, Joined
<1>3. OnFunction
  BY <1>1 DEF OnFunction
<1>4. IsSig(sig) /\ from_tokenstream(metadata)
  BY <1>1, <1>3 DEF MacrosInv, JobOK
<1>5. Rated(meta, sig.ident)
  BY <1>4, ChannelRated
<1>6. Judged(params, sig.ident) /\ params.val # Panic /\ params = FnParams
  <2>1. params = FnParams
    BY <1>1 DEF FnParams
  <2> QED
    BY <1>4, <2>1, ChannelJudged
<1>7. con # None /\ con.versions = meta.val.versions
  <2> HIDE DEF meta
  <2> QED
    BY Values DEF to_api_endpoint_fn
<1>8. from # None /\ from.impl = impl /\ from.adapter = adapter
  <2> HIDE DEF checks, impl, adapter
  <2> QED
    BY Values
<1> HIDE DEF meta, params, from, con
<1> QED
  BY <1>1, <1>2, <1>3, <1>5, <1>6, <1>7, <1>8, InnerStep, Zenon

-----------------------------------------------------------------------------
(* Steps of the macro on a trait.                                          *)

LEMMA ApiItemTraitStep ==
  ASSUME MacrosInv, ApiItemTrait
  PROVE  MacrosInv'
<1> DEFINE bad == Filter(TraitRules, job.item.quals)
           msgs == [k \in DOMAIN bad |-> Err("trait", "trait", <<bad[k], "">>)]
           list == job.item.items
<1>1. /\ pc = "item" /\ ~OnFunction /\ job.item.parses
      /\ errors' = Joined(errors, msgs) /\ valid' = (bad = <<>>)
      /\ UNCHANGED <<job, metadata, context, next, out>>
  BY Zenon DEF ApiItemTrait, Joined
<1>2. IF metadata = None
      THEN items' = [k \in DOMAIN list |-> OtherItem(list[k])] /\ pc' = "output"
      ELSE pc' = "context" /\ items' = items
  BY Zenon DEF ApiItemTrait, OtherItem
<1>3. JobOK' /\ ~OnFunction' /\ TraitInv /\ AreItems(list)
  BY <1>1, JobFrame DEF MacrosInv, JobOK
<1>4. items = <<>> /\ next = 1 /\ out = Nothing /\ BaseErrs(errors)
  BY <1>1, <1>3 DEF TraitInv
<1>5. IsSeq(bad)
  <2>1. IsSeq(TraitRules)
    <3>1. \A a, b, c, d : IsSeq(<<a, b, c, d>>)
      BY DEF IsSeq, Range
    <3> QED
      BY <3>1, Zenon DEF TraitRules
  <2> QED
    BY <2>1, FilterFacts
<1> HIDE DEF bad
<1>6. IsSeq(msgs) /\ ((msgs = <<>>) <=> (bad = <<>>)) /\ \A e \in Range(msgs) : IsBase(e)
  <2>1. /\ msgs = [k \in DOMAIN bad |-> msgs[k]] /\ DOMAIN msgs = DOMAIN bad
        /\ \A k \in DOMAIN bad : msgs[k].about = "trait" /\ msgs[k].part = "trait"
    BY DEF Err
  <2> HIDE DEF msgs
  <2>2. IsSeq(msgs) /\ ((msgs = <<>>) <=> (bad = <<>>))
    BY <1>5, <2>1, MapFacts
  <2>3. \A e \in Range(msgs) : IsBase(e)
    BY <2>1 DEF Range, IsBase, NoItem
  <2> QED
    BY <2>2, <2>3
<1> HIDE DEF msgs
<1>7. PICK e1 : e1 = Joined(errors, msgs)
  OBVIOUS
<1>8. IsSeq(errors) /\ (\A e \in Range(errors) : IsBase(e)) /\ (metadata = None => errors # <<>>)
  BY <1>1, <1>4 DEF BaseErrs
<1>9. /\ IsSeq(e1) /\ \A e \in Range(e1) : IsBase(e)
      /\ bad # <<>> => e1 # <<>>
      /\ metadata = None => e1 # <<>>
  <2>1. IsSeq(e1) /\ Range(e1) = Range(errors) \cup Range(msgs)
    BY <1>6, <1>7, <1>8, JoinedFacts
  <2>2. (e1 = <<>>) <=> (errors = <<>> /\ msgs = <<>>)
    BY <1>6, <1>7, <1>8, JoinedFacts, Zenon
  <2> QED
    BY <1>6, <1>8, <2>1, <2>2
<1>10. errors' = e1 /\ valid' \in BOOLEAN /\ (~valid' => bad # <<>>)
  BY <1>1, <1>7, Zenon
<1>11. CASE metadata = None
  <2>1. ItemsOK'
    BY <1>1, <1>2, <1>4, <1>11, Zenon DEF ItemsOK
  <2>2. TraitErrs(e1)'
    BY <1>1, <1>9, <1>11 DEF TraitErrs
  <2>3. TraitInv'
    BY <1>1, <1>2, <1>4, <1>10, <1>11, <2>1, <2>2 DEF TraitInv
  <2> QED
    BY <1>1, <1>2, <1>3, <1>10, <1>11, <2>3 DEF MacrosInv
<1>12. CASE metadata # None
  <2>1. BaseErrs(e1)'
    BY <1>1, <1>9, <1>10, <1>12 DEF BaseErrs
  <2>2. TraitInv'
    BY <1>1, <1>2, <1>4, <1>10, <1>12, <2>1 DEF TraitInv
  <2> QED
    BY <1>1, <1>2, <1>3, <1>10, <1>12, <2>2 DEF MacrosInv
<1> QED
  BY <1>11, <1>12

LEMMA FindContextStep ==
  ASSUME MacrosInv, FindContext
  PROVE  MacrosInv'
<1> DEFINE list == job.item.items
           found == ContextItems(list)
           missing == Err("context", "trait", <<"missing", "">>)
           generics == Err("context", "trait", <<"generics", "">>)
           cx == IF found = <<>> THEN [is |-> "Missing"]
                 ELSE [is |-> IF Head(found).generics THEN "Invalid" ELSE "Valid", item |-> Head(found)]
           er == IF found = <<>> THEN Added(errors, missing)
                 ELSE IF Head(found).generics THEN Added(errors, generics) ELSE errors
<1>1. /\ pc = "context" /\ pc' = "items"
      /\ UNCHANGED <<job, metadata, valid, items, next, out>>
  BY DEF FindContext
<1>2. context' = cx /\ errors' = er
  BY Zenon DEF FindContext, Added
<1>3. ~OnFunction
  BY <1>1 DEF MacrosInv, FunctionInv
<1>4. JobOK' /\ ~OnFunction' /\ TraitInv /\ AreItems(list)
  BY <1>1, <1>3, JobFrame DEF MacrosInv, JobOK
<1>5. items = <<>> /\ next = 1 /\ out = Nothing /\ BaseErrs(errors) /\ job.item.parses /\ metadata # None
  BY <1>1, <1>4 DEF TraitInv
<1>6. IsSeq(errors) /\ (\A e \in Range(errors) : IsBase(e)) /\ (~valid => errors # <<>>)
  BY <1>1, <1>5 DEF BaseErrs
<1>7. /\ IsSeq(Added(errors, missing)) /\ Added(errors, missing) # <<>>
      /\ \A e \in Range(Added(errors, missing)) : IsBase(e)
      /\ IsSeq(Added(errors, generics)) /\ Added(errors, generics) # <<>>
      /\ \A e \in Range(Added(errors, generics)) : IsBase(e)
  BY <1>6, BaseErr DEF NoItem
<1>8. /\ IF found = <<>> THEN cx.is = "Missing"
         ELSE cx.is \in {"Invalid", "Valid"} /\ cx.item = Head(found)
      /\ cx.is \in {"Missing", "Invalid", "Valid"}
      /\ cx.is # "Valid" => found = <<>> \/ Head(found).generics
  <2>1. CASE found = <<>>
    BY <2>1
  <2>2. CASE found # <<>>
    <3> DEFINE b == Head(found).generics
               h == Head(found)
    <3>1. cx = [is |-> IF b THEN "Invalid" ELSE "Valid", item |-> h]
      BY <2>2, Zenon
    <3> HIDE DEF b, cx, h
    <3>2. cx.is = (IF b THEN "Invalid" ELSE "Valid") /\ cx.item = h
      BY <3>1
    <3> QED
      BY <2>2, <3>2 DEF b, h
  <2> QED
    BY <2>1, <2>2
<1>9. PICK e1 : e1 = er
  OBVIOUS
<1>10. /\ IsSeq(e1) /\ \A e \in Range(e1) : IsBase(e)
       /\ (~valid \/ cx.is # "Valid") => e1 # <<>>
  <2> HIDE DEF cx, found, missing, generics
  <2> QED
    BY <1>6, <1>7, <1>8, <1>9
<1> HIDE DEF cx, er
<1>11. ContextOK'
  <2>1. ContextItems(list)' = found
    <3>1. PICK l : l = list
      OBVIOUS
    <3>2. ContextItems(l)' = ContextItems(l)
      BY <1>1, ListFrame
    <3>3. ContextItems(list)' = ContextItems(l)'
      BY <1>1, <3>1, Zenon DEF ContextItems
    <3> QED
      BY <3>1, <3>2, <3>3, Zenon
  <2> HIDE DEF found
  <2> QED
    BY <1>1, <1>2, <1>8, <2>1, Zenon DEF ContextOK
<1>12. Looked' = <<>>
  <2>1. Len(list) \in Nat
    BY <1>4, SeqFacts DEF AreItems
  <2>2. Kept(list, NotContext')[0] = <<>>
    BY <2>1, KeptUnfolds
  <2> QED
    BY <1>1, <1>5, <2>2 DEF Looked
<1>13. ItemsOK'
  <2>1. Len(list) \in Nat
    BY <1>4, SeqFacts DEF AreItems
  <2> QED
    BY <1>1, <1>5, <1>11, <1>12, <2>1, EmptyIsSeq DEF ItemsOK
<1>14. TraitErrs(e1)'
  BY <1>1, <1>2, <1>5, <1>10 DEF TraitErrs
<1>15. TraitErrs(errors)'
  BY <1>2, <1>9, <1>14, Zenon
<1>16. TraitInv'
  BY <1>1, <1>5, <1>13, <1>15 DEF TraitInv
<1> QED
  BY <1>1, <1>2, <1>4, <1>8, <1>16 DEF MacrosInv

\* What the parser makes of any item, and how it is blamed.
LEMMA ItemFacts ==
  ASSUME NEW item, IsItem(item)
  PROVE  /\ ItemKind(item) = "fn" => item.what = "fn" /\ FnApi(ApiOf(item), ErrsOf(item), item)
         /\ ItemKind(item) # "fn" => ApiOf(item) = OtherItem(item)
         /\ ItemKind(item) = "verbatim" => ErrsOf(item) = <<>>
         /\ ItemKind(item) \notin {"fn", "verbatim"} =>
              /\ Blames(ErrsOf(item), item.ident, "marks")
              /\ (ErrsOf(item) = <<>>) <=> (Recognized(item.attrs) = <<>>)
         /\ IsSeq(ErrsOf(item)) /\ ApiOf(item).item = item
<1>1. CASE ItemKind(item) = "fn"
  <2>1. item.what = "fn"
    BY <1>1 DEF ItemKind
  <2>2. FnApi(ApiFnItem(item).api, ApiFnItem(item).errs, item)
    BY <2>1, FnItemFacts DEF IsItem
  <2>3. ApiOf(item) = ApiFnItem(item).api /\ ErrsOf(item) = ApiFnItem(item).errs
    BY <1>1, Zenon DEF ApiOf, ErrsOf
  <2> QED
    BY <1>1, <2>1, <2>2, <2>3 DEF FnApi
<1>2. CASE ItemKind(item) # "fn"
  <2>1. ApiOf(item) = OtherItem(item) /\ OtherItem(item).item = item
    BY <1>2 DEF ApiOf, OtherItem
  <2>2. CASE ItemKind(item) = "verbatim"
    <3>1. ErrsOf(item) = <<>>
      BY <2>2 DEF ErrsOf
    <3> QED
      BY <1>2, <2>1, <2>2, <3>1, EmptyIsSeq
  <2>3. CASE ItemKind(item) # "verbatim"
    <3>1. ErrsOf(item) = NonFnErrors(item)
      BY <1>2, <2>3, Zenon DEF ErrsOf
    <3>2. /\ Blames(NonFnErrors(item), item.ident, "marks")
          /\ (NonFnErrors(item) = <<>>) <=> (Recognized(item.attrs) = <<>>)
      BY NonFnFacts DEF IsItem
    <3>3. IsSeq(NonFnErrors(item))
      BY <3>2 DEF Blames
    <3> QED
      BY <1>2, <2>1, <2>3, <3>1, <3>2, <3>3
  <2> QED
    BY <2>2, <2>3
<1> QED
  BY <1>1, <1>2

\* Nothing behind.
LEMMA JoinedNothing ==
  ASSUME NEW s, IsSeq(s)
  PROVE  Joined(s, <<>>) = s
<1>1. s \in Seq(Range(s))
  BY DEF IsSeq
<1> QED
  BY <1>1 DEF Joined

\* One turn of the second pass: what becomes of the next item, whatever it is.
LEMMA ParseItemEffect ==
  ASSUME MacrosInv, ParseItem
  PROVE  LET item == job.item.items[next]
         IN  /\ ~OnFunction /\ IsItem(item)
             /\ errors' = Joined(errors, ErrsOf(item))
             /\ items' = IF IsContext(item) THEN items ELSE Added(items, ApiOf(item))
             /\ pc' = "items" /\ out' = out
<1> DEFINE list == job.item.items
           item == list[next]
           kind == ItemKind(item)
           fn == ApiFnItem(item)
<1>1. pc = "items" /\ next <= Len(list)
  BY DEF ParseItem
<1>2. ~OnFunction
  BY <1>1 DEF MacrosInv, FunctionInv
<1>3. TraitInv /\ AreItems(list)
  BY <1>2 DEF MacrosInv, JobOK
<1>4. metadata # None /\ ItemsOK /\ TraitErrs(errors)
  BY <1>1, <1>3 DEF TraitInv
<1>5. next \in 1 .. Len(list) /\ DOMAIN list = 1 .. Len(list)
  <2>1. Len(list) \in Nat /\ DOMAIN list = 1 .. Len(list)
    BY <1>3, SeqFacts DEF AreItems
  <2> QED
    BY <1>1, <1>4, <2>1 DEF ItemsOK
<1>6. IsItem(item)
  BY <1>3, <1>5 DEF AreItems
<1>7. IsSeq(errors)
  BY <1>4 DEF TraitErrs
<1>8. \/ /\ kind = "fn" /\ errors' = Joined(errors, fn.errs) /\ items' = Added(items, fn.api)
         /\ pc' = IF fn.api = Panic THEN "done" ELSE pc
         /\ out' = IF fn.api = Panic THEN Panic ELSE out
      \/ /\ kind # "fn"
         /\ errors' = IF kind = "verbatim" THEN errors ELSE Joined(errors, NonFnErrors(item))
         /\ items' = IF IsContext(item) THEN items ELSE Added(items, OtherItem(item))
         /\ pc' = pc /\ out' = out
  BY Zenon DEF ParseItem, Joined, Added, OtherItem
<1>9. CASE kind = "fn"
  <2>1. ApiOf(item) = fn.api /\ ErrsOf(item) = fn.errs
    BY <1>9, Zenon DEF ApiOf, ErrsOf
  <2>2. fn.api # Panic
    BY <1>6, <1>9, <2>1, ItemFacts DEF FnApi
  <2>3. ~IsContext(item)
    BY <1>9 DEF IsContext
  <2> QED
    BY <1>1, <1>2, <1>6, <1>8, <1>9, <2>1, <2>2, <2>3, Zenon
<1>10. CASE kind # "fn"
  <2>1. ApiOf(item) = OtherItem(item)
    BY <1>6, <1>10, ItemFacts
  <2>2. errors' = Joined(errors, ErrsOf(item))
    <3>1. CASE kind = "verbatim"
      <4>1. ErrsOf(item) = <<>> /\ errors' = errors
        BY <1>8, <1>10, <3>1, Zenon DEF ErrsOf
      <4>2. Joined(errors, <<>>) = errors
        BY <1>7, JoinedNothing
      <4> QED
        BY <4>1, <4>2, Zenon
    <3>2. CASE kind # "verbatim"
      BY <1>8, <1>10, <3>2, Zenon DEF ErrsOf
    <3> QED
      BY <3>1, <3>2
  <2> QED
    BY <1>1, <1>2, <1>6, <1>8, <1>10, <2>1, <2>2, Zenon
<1> QED
  BY <1>9, <1>10

LEMMA ParseItemStep ==
  ASSUME MacrosInv, ParseItem
  PROVE  MacrosInv'
<1> DEFINE list == job.item.items
           item == list[next]
<1>1. /\ ~OnFunction /\ IsItem(item)
      /\ errors' = Joined(errors, ErrsOf(item))
      /\ items' = IF IsContext(item) THEN items ELSE Added(items, ApiOf(item))
      /\ pc' = "items" /\ out' = out
  BY ParseItemEffect
<1>2. /\ pc = "items" /\ next <= Len(list) /\ next' = next + 1
      /\ UNCHANGED <<job, metadata, valid, context>>
  BY DEF ParseItem
<1>3. JobOK' /\ ~OnFunction' /\ TraitInv /\ AreItems(list)
  BY <1>1, <1>2, JobFrame DEF MacrosInv, JobOK
<1>4. metadata # None /\ ItemsOK /\ TraitErrs(errors) /\ job.item.parses /\ out = Nothing
  BY <1>2, <1>3 DEF TraitInv
<1>5. /\ Len(list) \in Nat /\ IsSeq(list) /\ next \in 1 .. Len(list) /\ next \in Nat
      /\ next' \in 1 .. (Len(list) + 1) /\ next' - 1 = next /\ next - 1 \in 0 .. Len(list)
  <2>1. Len(list) \in Nat /\ IsSeq(list)
    BY <1>3, SeqFacts DEF AreItems
  <2> QED
    BY <1>2, <1>4, <2>1 DEF ItemsOK
<1>6. /\ ContextOK /\ IsSeq(items) /\ Len(items) = Len(Looked)
      /\ \A j \in 1 .. Len(items) : items[j] = ApiOf(Looked[j])
  BY <1>4, Zenon DEF ItemsOK
<1>7. /\ IsSeq(Looked)
      /\ Looked' = IF IsContext(item) THEN Looked ELSE Added(Looked, item)
  <2> DEFINE set == NotContext
  <2>1. NotContext' = set /\ job' = job
    BY <1>2, ListFrame
  <2>2. Looked = Kept(list, set)[next - 1] /\ Looked' = Kept(list, set)[next]
    BY <1>5, <2>1 DEF Looked
  <2>3. item \in set <=> ~IsContext(item)
    <3>1. item \in Range(list)
      BY <1>5, SeqFacts
    <3> QED
      BY <3>1 DEF NotContext
  <2> HIDE DEF set
  <2>4. IsSeq(Kept(list, set)[next - 1])
    BY <1>5, KeptFacts
  <2>5. Kept(list, set)[next] = IF item \in set THEN Added(Kept(list, set)[next - 1], item)
                                ELSE Kept(list, set)[next - 1]
    BY <1>5, KeptUnfolds
  <2> QED
    BY <2>2, <2>3, <2>4, <2>5, Zenon
<1>8. ItemsOK'
  <2>1. ContextOK'
    BY <1>2, <1>6, ContextFrame
  <2>2. \A x : ApiOf(x)' = ApiOf(x)
    BY <1>2, ItemFrame
  <2>3. PICK lk : lk = Looked'
    OBVIOUS
  <2>4. PICK it : it = items'
    OBVIOUS
  <2>5. IsSeq(it) /\ Len(it) = Len(lk) /\ \A j \in 1 .. Len(it) : it[j] = ApiOf(lk[j])
    <3>1. CASE IsContext(item)
      BY <1>1, <1>6, <1>7, <2>3, <2>4, <3>1
    <3>2. CASE ~IsContext(item)
      <4> DEFINE s == items
                 l == Looked
                 n == Len(s)
      <4>1. it = Added(s, ApiOf(item)) /\ lk = Added(l, item)
        BY <1>1, <1>7, <2>3, <2>4, <3>2, Zenon
      <4>2. IsSeq(s) /\ IsSeq(l) /\ Len(l) = n /\ n \in Nat /\ \A j \in 1 .. n : s[j] = ApiOf(l[j])
        <5>1. IsSeq(s) /\ IsSeq(l) /\ Len(l) = n /\ \A j \in 1 .. n : s[j] = ApiOf(l[j])
          BY <1>6, <1>7, Zenon
        <5> QED
          BY <5>1, SeqFacts
      <4> HIDE DEF s, l
      <4>3. /\ IsSeq(it) /\ Len(it) = n + 1 /\ it[n + 1] = ApiOf(item)
            /\ \A j \in 1 .. n : it[j] = s[j]
        BY <4>1, <4>2, AddedFacts
      <4>4. Len(lk) = n + 1 /\ lk[n + 1] = item /\ \A j \in 1 .. n : lk[j] = l[j]
        BY <4>1, <4>2, AddedFacts
      <4>5. \A j \in 1 .. (n + 1) : j \in 1 .. n \/ j = n + 1
        BY <4>2
      <4> HIDE DEF item, n
      <4> QED
        BY <4>2, <4>3, <4>4, <4>5
    <3> QED
      BY <3>1, <3>2
  <2>6. ASSUME NEW j \in 1 .. Len(it) PROVE items'[j] = ApiOf(Looked[j])'
    <3>1. PICK x : x = lk[j]
      OBVIOUS
    <3>2. ApiOf(x)' = ApiOf(x) /\ it[j] = ApiOf(x)
      BY <2>2, <2>5, <2>6, <3>1
    <3>3. ApiOf(Looked[j])' = ApiOf(x)'
      BY <2>3, <3>1, Zenon DEF ApiOf
    <3> QED
      BY <2>4, <3>2, <3>3, Zenon
  <2>7. IsSeq(items') /\ Len(items') = Len(Looked') /\ Len(items') = Len(it)
    BY <2>3, <2>4, <2>5
  <2>8. \A j \in 1 .. Len(items') : items'[j] = ApiOf(Looked[j])'
    BY <2>6, <2>7
  <2> QED
    BY <1>2, <1>4, <1>5, <2>1, <2>7, <2>8, Zenon DEF ItemsOK
<1>9. TraitErrs(errors)'
  <2> DEFINE msgs == ErrsOf(item)
  <2>1. IsSeq(msgs)
    BY <1>1, ItemFacts
  <2>2. IsSeq(errors) /\ ((~valid \/ context.is # "Valid") => errors # <<>>)
    BY <1>4 DEF TraitErrs
  <2> HIDE DEF msgs
  <2>3. PICK e1 : e1 = errors'
    OBVIOUS
  <2>4. IsSeq(e1) /\ Range(e1) = Range(errors) \cup Range(msgs)
    BY <1>1, <2>1, <2>2, <2>3, JoinedFacts DEF msgs
  <2>5. (~valid \/ context.is # "Valid") => e1 # <<>>
    <3>1. e1 = <<>> => errors = <<>>
      BY <1>1, <2>1, <2>2, <2>3, JoinedFacts, Zenon DEF msgs
    <3> QED
      BY <2>2, <3>1
  <2>6. \A k : ErrsOf(list[k])' = ErrsOf(list[k])
    <3> SUFFICES ASSUME NEW k PROVE ErrsOf(list[k])' = ErrsOf(list[k])
      OBVIOUS
    <3>1. PICK x : x = list[k]
      OBVIOUS
    <3>2. ErrsOf(x)' = ErrsOf(x)
      BY <1>2, ItemFrame
    <3>3. ErrsOf(list[k])' = ErrsOf(x)'
      BY <1>2, <3>1, Zenon DEF ErrsOf
    <3> QED
      BY <3>1, <3>2, <3>3, Zenon
  <2>7. \A k \in 1 .. (next' - 1) : k \in 1 .. (next - 1) \/ k = next
    BY <1>2, <1>5
  <2>8. next \in 1 .. (next' - 1) /\ \A k \in 1 .. (next - 1) : k \in 1 .. (next' - 1)
    BY <1>2, <1>5
  <2>9. ASSUME NEW e \in Range(e1)
        PROVE  IsBase(e) \/ \E k \in 1 .. (next' - 1) : e \in Range(ErrsOf(list[k]))
    <3>1. CASE e \in Range(errors)
      <4>1. IsBase(e) \/ \E k \in 1 .. (next - 1) : e \in Range(ErrsOf(list[k]))
        BY <1>4, <3>1, Zenon DEF TraitErrs
      <4> QED
        BY <2>8, <4>1
    <3>2. CASE e \in Range(msgs)
      BY <2>8, <3>2 DEF msgs
    <3> QED
      BY <2>4, <2>9, <3>1, <3>2
  <2>10. ASSUME NEW k \in 1 .. (next' - 1), NEW e \in Range(ErrsOf(list[k]))
         PROVE  e \in Range(e1)
    <3>1. CASE k = next
      BY <2>4, <2>10, <3>1 DEF msgs
    <3>2. CASE k \in 1 .. (next - 1)
      <4>1. e \in Range(errors)
        BY <1>4, <2>10, <3>2, Zenon DEF TraitErrs
      <4> QED
        BY <2>4, <4>1
    <3> QED
      BY <2>7, <2>10, <3>1, <3>2
  <2>11. TraitErrs(e1)'
    BY <1>2, <1>4, <2>4, <2>5, <2>6, <2>9, <2>10, Zenon DEF TraitErrs
  <2> QED
    BY <2>3, <2>11, Zenon
<1>10. TraitInv'
  BY <1>1, <1>2, <1>4, <1>8, <1>9 DEF TraitInv
<1> QED
  BY <1>1, <1>2, <1>3, <1>10 DEF MacrosInv

LEMMA ItemsDoneStep ==
  ASSUME MacrosInv, ItemsDone
  PROVE  MacrosInv'
<1> DEFINE list == job.item.items
<1>1. /\ pc = "items" /\ next > Len(list) /\ pc' = "output"
      /\ UNCHANGED <<job, metadata, valid, context, items, next, errors, out>>
  BY DEF ItemsDone
<1>2. ~OnFunction
  BY <1>1 DEF MacrosInv, FunctionInv
<1>3. JobOK' /\ ~OnFunction' /\ TraitInv /\ AreItems(list)
  BY <1>1, <1>2, JobFrame DEF MacrosInv, JobOK
<1>4. ItemsOK /\ TraitErrs(errors) /\ job.item.parses /\ out = Nothing /\ metadata # None
  BY <1>1, <1>3 DEF TraitInv
<1>5. next = Len(list) + 1
  <2>1. Len(list) \in Nat
    BY <1>3, SeqFacts DEF AreItems
  <2> QED
    BY <1>1, <1>4, <2>1 DEF ItemsOK
<1>6. ItemsOK'
  BY <1>1, <1>4, ItemsFrame
<1>7. TraitErrs(errors)'
  <2>1. PICK e : e = errors
    OBVIOUS
  <2>2. TraitErrs(e)' <=> TraitErrs(e)
    BY <1>1, ErrsFrame
  <2> QED
    BY <1>1, <1>4, <2>1, <2>2, Zenon
<1>8. TraitInv'
  BY <1>1, <1>4, <1>5, <1>6, <1>7 DEF TraitInv
<1> QED
  BY <1>1, <1>3, <1>8 DEF MacrosInv

\* to_output() gives a trait.
LEMMA OutIsTrait == TraitOut.kind = "trait" /\ TraitOut # Panic
<1> DEFINE a == ~job.item.pub
           b == make_context_trait_item \o [k \in DOMAIN items |-> to_out_trait_item(items[k])]
           c == make_module
           d == metadata # None /\ ParamErrors("endpoint")
           e == metadata # None /\ ParamErrors("channel")
           o == [kind |-> "trait", dead_code |-> a, items |-> b, module |-> c,
                 endpoint |-> d, channel |-> e]
<1>1. TraitOut = o
  BY Zenon DEF TraitOut
<1> HIDE DEF a, b, c, d, e
<1>2. o.kind = "trait" /\ o # Panic
  BY Values
<1> QED
  BY <1>1, <1>2, Zenon

LEMMA ToOutputStep ==
  ASSUME MacrosInv, to_output
  PROVE  MacrosInv'
<1> DEFINE list == job.item.items
<1>1. /\ pc = "output" /\ pc' = "usage" /\ out' = TraitOut
      /\ UNCHANGED <<job, metadata, valid, context, items, next, errors>>
  BY Zenon DEF to_output, TraitOut
<1>2. ~OnFunction
  BY <1>1 DEF MacrosInv, FunctionInv
<1>3. JobOK' /\ ~OnFunction' /\ TraitInv
  BY <1>1, <1>2, JobFrame DEF MacrosInv
<1>4. ItemsOK /\ TraitErrs(errors) /\ job.item.parses /\ (metadata # None => next = Len(list) + 1)
  BY <1>1, <1>3 DEF TraitInv
<1>5. ItemsOK'
  BY <1>1, <1>4, ItemsFrame
<1>6. TraitErrs(errors)'
  <2>1. PICK e : e = errors
    OBVIOUS
  <2>2. TraitErrs(e)' <=> TraitErrs(e)
    BY <1>1, ErrsFrame
  <2> QED
    BY <1>1, <1>4, <2>1, <2>2, Zenon
<1>7. out' = TraitOut'
  BY <1>1, OutFrame
<1>8. TraitEnd(errors)'
  BY <1>1, <1>4, <1>5, <1>6, <1>7 DEF TraitEnd
<1>9. TraitInv'
  BY <1>1, <1>8 DEF TraitInv
<1>10. out' # Panic
  BY <1>1, OutIsTrait
<1> QED
  BY <1>1, <1>3, <1>9, <1>10 DEF MacrosInv

\* Both ways to panic leave everything as it was.
LEMMA PanicStep ==
  ASSUME MacrosInv, ~OnFunction, Panics, Stuck'
  PROVE  MacrosInv'
<1>1. pc' = "panicked" /\ UNCHANGED <<job, metadata, valid, context, items, next, errors, out>>
  BY DEF Panics
<1>2. JobOK' /\ ~OnFunction'
  BY <1>1, JobFrame DEF MacrosInv
<1>3. TraitInv'
  BY <1>1 DEF TraitInv
<1> QED
  BY <1>1, <1>2, <1>3 DEF MacrosInv

LEMMA ContextPanicsStep ==
  ASSUME MacrosInv, ContextPanics
  PROVE  MacrosInv'
<1>1. pc = "context" /\ NamesUnfit /\ Panics
  BY DEF ContextPanics
<1>2. ~OnFunction
  BY <1>1 DEF MacrosInv, FunctionInv
<1>3. items = <<>> /\ next = 1 /\ metadata = job.args
  BY <1>1, <1>2 DEF MacrosInv, TraitInv
<1>4. Unfit(job.args.module) \/ Unfit(job.args.context)
  BY <1>1, <1>3, Zenon DEF NamesUnfit
<1>5. Stuck'
  BY <1>1, <1>3, <1>4 DEF Stuck, Panics, Unfit
<1> QED
  BY <1>1, <1>2, <1>5, PanicStep

LEMMA OutputPanicsStep ==
  ASSUME MacrosInv, OutputPanics
  PROVE  MacrosInv'
<1>1. pc = "output" /\ metadata # None /\ RawEndpoint /\ Panics
  BY DEF OutputPanics, OutputUnfit
<1>2. ~OnFunction
  BY <1>1 DEF MacrosInv, FunctionInv
<1>3. ItemsOK /\ next = Len(job.item.items) + 1
  BY <1>1, <1>2 DEF MacrosInv, TraitInv
<1>4. UNCHANGED <<job, metadata, context, items, next>>
  BY <1>1 DEF Panics
<1>5. ItemsOK'
  BY <1>3, <1>4, ItemsFrame
<1>6. Stuck'
  BY <1>1, <1>3, <1>4, <1>5 DEF Stuck, RawEndpoint
<1> QED
  BY <1>1, <1>2, <1>6, PanicStep

LEMMA UsageStep ==
  ASSUME MacrosInv, Usage
  PROVE  MacrosInv'
<1> DEFINE ch == IF out.channel THEN <<UsageErr("channel")>> ELSE <<>>
           ep == IF out.endpoint THEN <<UsageErr("endpoint")>> ELSE <<>>
<1>1. /\ pc = "usage" /\ pc' = "done"
      /\ UNCHANGED <<job, metadata, valid, context, items, next, out>>
      /\ errors' = IF out.kind = "trait" THEN Joined(Joined(ch, ep), errors) ELSE Joined(FnUsage, errors)
  BY Zenon DEF Usage, Joined, FnUsage
<1>2. JobOK' /\ (OnFunction' <=> OnFunction)
  BY <1>1, JobFrame DEF MacrosInv
<1>3. FnUsage' = FnUsage /\ TraitUsage' = TraitUsage /\ TraitUsage = Joined(ch, ep)
  BY <1>1, Zenon DEF FnUsage, TraitUsage
<1> HIDE DEF ch, ep
<1>4. PICK e0 : e0 = errors
  OBVIOUS
<1>5. CASE OnFunction
  <2>1. FunctionInv
    BY <1>5 DEF MacrosInv
  <2>2. FunctionEnd(e0) /\ out.kind # "trait"
    BY <1>1, <1>4, <2>1 DEF FunctionInv, FunctionEnd
  <2>3. FunctionEnd(e0)'
    BY <1>1, <2>2, FunctionEndFrame
  <2>4. errors' = Joined(FnUsage', e0)
    BY <1>1, <1>3, <1>4, <2>2, Zenon
  <2>5. (\E x : FunctionEnd(x) /\ errors = Joined(FnUsage, x))'
    BY <2>3, <2>4
  <2>6. FunctionInv'
    BY <1>1, <2>1, <2>5 DEF FunctionInv
  <2> QED
    BY <1>1, <1>2, <1>5, <2>6 DEF MacrosInv
<1>6. CASE ~OnFunction
  <2>1. TraitInv
    BY <1>6 DEF MacrosInv
  <2>2. TraitEnd(e0)
    BY <1>1, <1>4, <2>1 DEF TraitInv
  <2>3. TraitEnd(e0)'
    BY <1>1, <1>6, <2>2, TraitEndFrame
  <2>4. errors' = Joined(IF job'.item.parses THEN TraitUsage' ELSE FnUsage', e0)
    <3>1. CASE job.item.parses
      <4>1. out.kind = "trait"
        BY <2>2, <3>1, OutIsTrait DEF TraitEnd
      <4> QED
        BY <1>1, <1>3, <1>4, <3>1, <4>1, Zenon
    <3>2. CASE ~job.item.parses
      <4>1. out.kind # "trait"
        BY <2>2, <3>2 DEF TraitEnd, Nothing
      <4> QED
        BY <1>1, <1>3, <1>4, <3>2, <4>1, Zenon
    <3> QED
      BY <3>1, <3>2
  <2>5. (\E x : /\ TraitEnd(x)
                /\ errors = Joined(IF job.item.parses THEN TraitUsage ELSE FnUsage, x))'
    BY <2>3, <2>4
  <2>6. TraitInv'
    BY <1>1, <2>5 DEF TraitInv
  <2> QED
    BY <1>1, <1>2, <1>6, <2>6 DEF MacrosInv
<1> QED
  BY <1>5, <1>6

\* The invariant holds of every use of a macro.
LEMMA InvHolds == Spec => []MacrosInv
<1>1. MacrosInv /\ [Next]_vars => MacrosInv'
  <2> SUFFICES ASSUME MacrosInv, [Next]_vars PROVE MacrosInv'
    OBVIOUS
  <2> QED
    BY StutterStep, TraitFunctionStep, ParseArgsStep, ItemUnparsableStep, FunctionAsIsStep,
       EndpointInnerStep, ChannelInnerStep, ApiItemTraitStep, FindContextStep, ContextPanicsStep,
       ParseItemStep, ItemsDoneStep, ToOutputStep, OutputPanicsStep, UsageStep DEF Next
<1> QED
  BY InitInv, <1>1, PTL DEF Spec

-----------------------------------------------------------------------------
(* What the invariant says of the items of a trait at the end.             *)

\* The trait has been parsed to its end, with metadata.
Parsed ==
  /\ ~OnFunction /\ AreItems(job.item.items) /\ metadata # None
  /\ ItemsOK /\ next = Len(job.item.items) + 1

\* Two sequences of which the second one has the items of the first one.
LEMMA FilterMapped ==
  ASSUME NEW m, IsSeq(m), NEW s, IsSeq(s), Len(m) = Len(s), NEW G, NEW S,
         \A i \in 1 .. Len(s) : m[i].item = s[i] /\ (m[i] \in G <=> s[i] \in S)
  PROVE  /\ Len(Filter(m, G)) = Len(Filter(s, S))
         /\ \A j \in 1 .. Len(Filter(s, S)) : Filter(m, G)[j].item = Filter(s, S)[j]
<1> DEFINE n == Len(s)
           v == Kept(m, G)
           w == Kept(s, S)
           OK(i) == /\ IsSeq(v[i]) /\ IsSeq(w[i]) /\ Len(v[i]) = Len(w[i])
                    /\ \A j \in 1 .. Len(w[i]) : v[i][j].item = w[i][j]
           P == {i \in 0 .. n : OK(i)}
<1>1. n \in Nat /\ n \in 0 .. n
  BY SeqFacts
<1>2. v[0] = <<>> /\ \A i \in 1 .. n : v[i] = IF m[i] \in G THEN Added(v[i - 1], m[i]) ELSE v[i - 1]
  BY <1>1, KeptUnfolds
<1>3. w[0] = <<>> /\ \A i \in 1 .. n : w[i] = IF s[i] \in S THEN Added(w[i - 1], s[i]) ELSE w[i - 1]
  BY <1>1, KeptUnfolds
<1>4. Filter(m, G) = v[n] /\ Filter(s, S) = w[n]
  BY DEF Filter
<1> HIDE DEF v, w
<1>5. OK(0)
  BY <1>2, <1>3, EmptyIsSeq
<1>6. ASSUME NEW i \in 1 .. n, OK(i - 1) PROVE OK(i)
  <2>1. CASE s[i] \in S
    <3> DEFINE a == v[i - 1]
               b == w[i - 1]
               l == Len(b)
    <3>1. v[i] = Added(a, m[i]) /\ w[i] = Added(b, s[i]) /\ m[i].item = s[i]
      BY <1>2, <1>3, <2>1
    <3>2. IsSeq(a) /\ IsSeq(b) /\ Len(a) = l /\ l \in Nat /\ \A j \in 1 .. l : a[j].item = b[j]
      BY <1>6, SeqFacts
    <3> HIDE DEF a, b
    <3>3. /\ IsSeq(v[i]) /\ Len(v[i]) = l + 1 /\ v[i][l + 1] = m[i]
          /\ \A j \in 1 .. l : v[i][j] = a[j]
      BY <3>1, <3>2, AddedFacts
    <3>4. /\ IsSeq(w[i]) /\ Len(w[i]) = l + 1 /\ w[i][l + 1] = s[i]
          /\ \A j \in 1 .. l : w[i][j] = b[j]
      BY <3>1, <3>2, AddedFacts
    <3>5. \A j \in 1 .. (l + 1) : j \in 1 .. l \/ j = l + 1
      BY <3>2
    <3> QED
      BY <3>1, <3>2, <3>3, <3>4, <3>5
  <2>2. CASE s[i] \notin S
    <3>1. v[i] = v[i - 1] /\ w[i] = w[i - 1]
      BY <1>2, <1>3, <2>2
    <3> QED
      BY <1>6, <3>1
  <2> QED
    BY <2>1, <2>2
<1>7. OK(n)
  <2> HIDE DEF OK
  <2>1. 0 \in P /\ \A i \in 1 .. n : i - 1 \in P => i \in P
    BY <1>1, <1>5, <1>6
  <2>2. \A i \in 0 .. n : i \in P
    <3> HIDE DEF P, n
    <3> QED
      BY <1>1, <2>1, UpTo
  <2> QED
    BY <1>1, <2>2
<1> QED
  BY <1>4, <1>7

\* All items but the context's have been looked at, in their order.
LEMMA ParsedFacts ==
  ASSUME Parsed
  PROVE  LET list == job.item.items
             kept == Filter(list, NotContext)
         IN  /\ IsSeq(items) /\ IsSeq(kept) /\ Len(items) = Len(kept)
             /\ Range(kept) = NotContext
             /\ \A j \in 1 .. Len(items) :
                  /\ items[j] = ApiOf(kept[j]) /\ items[j].item = kept[j]
                  /\ kept[j] \in Range(list) /\ IsItem(kept[j])
             /\ \A x \in Range(list) : IsItem(x)
             /\ \A x \in Range(list) : ~IsContext(x) => \E j \in 1 .. Len(items) : items[j] = ApiOf(x)
<1> DEFINE list == job.item.items
           kept == Filter(list, NotContext)
<1>1. /\ IsSeq(list) /\ \A x \in Range(list) : IsItem(x)
      /\ Len(list) \in Nat
  <2>1. IsSeq(list) /\ \A k \in DOMAIN list : IsItem(list[k])
    BY DEF Parsed, AreItems
  <2> QED
    BY <2>1, SeqFacts
<1>2. Looked = kept
  <2>1. next - 1 = Len(list)
    BY <1>1 DEF Parsed
  <2> QED
    BY <2>1 DEF Looked, Filter
<1>3. IsSeq(kept) /\ Range(kept) = Range(list) \cap NotContext
  BY <1>1, FilterFacts
<1>4. Range(kept) = NotContext
  BY <1>3 DEF NotContext
<1>5. IsSeq(items) /\ Len(items) = Len(kept) /\ \A j \in 1 .. Len(items) : items[j] = ApiOf(kept[j])
  BY <1>2, Zenon DEF Parsed, ItemsOK
<1> HIDE DEF kept
<1>6. \A j \in 1 .. Len(items) : kept[j] \in Range(list) /\ IsItem(kept[j])
  <2>1. \A j \in 1 .. Len(kept) : kept[j] \in Range(kept)
    BY <1>3, SeqFacts
  <2> QED
    BY <1>1, <1>3, <1>5, <2>1
<1>7. \A j \in 1 .. Len(items) : items[j].item = kept[j]
  BY <1>5, <1>6, ItemFacts
<1>8. ASSUME NEW x \in Range(list), ~IsContext(x)
      PROVE  \E j \in 1 .. Len(items) : items[j] = ApiOf(x)
  <2>1. x \in Range(kept)
    BY <1>4, <1>8 DEF NotContext
  <2>2. PICK j \in 1 .. Len(kept) : kept[j] = x
    BY <1>3, <2>1, SeqFacts
  <2> QED
    BY <1>5, <2>2
<1> QED
  BY <1>1, <1>3, <1>4, <1>5, <1>6, <1>7, <1>8 DEF kept

\* An endpoint or channel is what became of a function of the trait.
LEMMA ManagedFacts ==
  ASSUME Parsed, NEW a \in Range(items), a.is \in {"endpoint", "channel", "Invalid"}
  PROVE  /\ a.item \in Range(job.item.items) /\ IsItem(a.item)
         /\ ItemKind(a.item) = "fn" /\ a.item.what = "fn"
         /\ a = ApiOf(a.item) /\ FnApi(a, ErrsOf(a.item), a.item)
<1>1. IsSeq(items)
  BY ParsedFacts
<1>2. PICK j \in 1 .. Len(items) : items[j] = a
  BY <1>1, SeqFacts
<1>3. PICK x : items[j] = ApiOf(x) /\ items[j].item = x /\ x \in Range(job.item.items) /\ IsItem(x)
  BY <1>2, ParsedFacts
<1>4. ItemKind(x) = "fn"
  <2>1. ItemKind(x) # "fn" => a.is = "Other"
    BY <1>2, <1>3, ItemFacts DEF OtherItem
  <2> QED
    BY <2>1
<1> QED
  BY <1>2, <1>3, <1>4, ItemFacts

\* The parts of the output for a trait.
LEMMA OutFields ==
  /\ TraitOut.module = make_module
  /\ TraitOut.items = Joined(make_context_trait_item,
                             [k \in DOMAIN items |-> to_out_trait_item(items[k])])
  /\ TraitOut.endpoint <=> (metadata # None /\ ParamErrors("endpoint"))
  /\ TraitOut.channel <=> (metadata # None /\ ParamErrors("channel"))
<1> DEFINE a == ~job.item.pub
           b == Joined(make_context_trait_item, [k \in DOMAIN items |-> to_out_trait_item(items[k])])
           c == make_module
           d == metadata # None /\ ParamErrors("endpoint")
           e == metadata # None /\ ParamErrors("channel")
           o == [kind |-> "trait", dead_code |-> a, items |-> b, module |-> c,
                 endpoint |-> d, channel |-> e]
<1>1. TraitOut = o
  BY Zenon DEF TraitOut, Joined
<1> HIDE DEF a, b, c, d, e
<1>2. o.module = c /\ o.items = b /\ o.endpoint = d /\ o.channel = e
  OBVIOUS
<1> HIDE DEF o
<1>3. TraitOut.module = c /\ TraitOut.items = b /\ TraitOut.endpoint = d /\ TraitOut.channel = e
  BY <1>1, <1>2, Zenon
<1> QED
  BY <1>3, Zenon DEF b, c, d, e

\* What the factories register.
Managed == Filter(items, {a \in Range(items) : a.is \in {"endpoint", "channel"}})

Registered(stub) ==
  [k \in DOMAIN Managed |-> IF stub THEN StubEndpoint(Managed[k]) ELSE RegularEndpoint(Managed[k])]

\* The factories, when no function is invalid.
LEMMA FactoryFields ==
  ASSUME NEW stub
  PROVE  /\ HasInvalidFnItems => make_api_factory_body(stub) = Panic
         /\ ~HasInvalidFnItems => /\ make_api_factory_body(stub) # Panic
                                  /\ make_api_factory_body(stub).tag_config = make_tag_config
                                  /\ make_api_factory_body(stub).register = Registered(stub)
<1> DEFINE tags == make_tag_config
           list == Registered(stub)
           body == [tag_config |-> tags, register |-> list]
<1>1. HasInvalidFnItems => make_api_factory_body(stub) = Panic
  BY Zenon DEF make_api_factory_body
<1>2. ~HasInvalidFnItems => make_api_factory_body(stub) = body
  BY Zenon DEF make_api_factory_body, Registered, Managed
<1> HIDE DEF tags, list
<1>3. body.tag_config = tags /\ body.register = list /\ body # Panic
  BY Values
<1> HIDE DEF body
<1> QED
  BY <1>1, <1>2, <1>3, Zenon DEF tags, list

\* The module, and when there is one.
LEMMA ModuleFields ==
  /\ metadata = None => make_module = None
  /\ (metadata # None /\ ~(valid /\ context.is = "Valid")) => make_module.empty
  /\ (metadata # None /\ valid /\ context.is = "Valid") =>
       /\ make_module # None /\ ~make_module.empty
       /\ make_module.invalid_docs <=> HasInvalidFnItems
       /\ make_module.stub = make_api_factory_body(TRUE)
       /\ make_module.api = make_api_factory_body(FALSE)
<1> DEFINE a == HasInvalidFnItems
           b == make_type_checks
           c == make_api_factory_body(TRUE)
           d == make_api_factory_body(FALSE)
           empty == [empty |-> TRUE]
           full == [empty |-> FALSE, invalid_docs |-> a, checks |-> b, stub |-> c, api |-> d]
<1>1. metadata = None => make_module = None
  BY Zenon DEF make_module
<1>2. (metadata # None /\ ~(valid /\ context.is = "Valid")) => make_module = empty
  BY Zenon DEF make_module
<1>3. (metadata # None /\ valid /\ context.is = "Valid") => make_module = full
  BY Zenon DEF make_module
<1> HIDE DEF a, b, c, d
<1>4. /\ empty.empty /\ ~full.empty /\ full # None
      /\ full.invalid_docs = a /\ full.stub = c /\ full.api = d
  BY Values
<1> HIDE DEF empty, full
<1>5. (metadata # None /\ ~(valid /\ context.is = "Valid")) => make_module.empty
  BY <1>2, <1>4, Zenon
<1>6. (metadata # None /\ valid /\ context.is = "Valid") =>
         /\ make_module # None /\ ~make_module.empty
         /\ make_module.invalid_docs = a
         /\ make_module.stub = c /\ make_module.api = d
  BY <1>3, <1>4, Zenon
<1> QED
  BY <1>1, <1>5, <1>6, Zenon DEF a, c, d

\* A macro has only panicked on a name that is no identifier.
LEMMA InvPanic ==
  ASSUME MacrosInv
  PROVE  NoPanic
<1> DEFINE list == job.item.items
<1>1. out # Panic
  BY DEF MacrosInv
<1>2. ASSUME pc = "panicked" PROVE ~OnFunction /\ Stuck /\ AreItems(list)
  BY <1>2 DEF MacrosInv, FunctionInv, TraitInv, JobOK
<1>3. ASSUME pc = "panicked", metadata # None, ItemsOK, next = Len(list) + 1, RawEndpoint
      PROVE  \E k \in DOMAIN list : IsMarked(list[k]) /\ list[k].raw
  <2>1. Parsed /\ IsSeq(list)
    BY <1>2, <1>3 DEF Parsed, AreItems
  <2>2. IsSeq(items) /\ DOMAIN items = 1 .. Len(items) /\ \A k \in DOMAIN items : items[k] \in Range(items)
    BY <2>1, ParsedFacts, SeqFacts
  <2>3. PICK a \in Range(items) : a.is \in {"endpoint", "channel"} /\ a.item.raw
    BY <1>3, <2>2 DEF RawEndpoint
  <2>4. /\ a.item \in Range(list) /\ ItemKind(a.item) = "fn" /\ FnApi(a, ErrsOf(a.item), a.item)
    BY <2>1, <2>3, ManagedFacts
  <2>5. Recognized(a.item.attrs) # <<>>
    BY <2>3, <2>4 DEF FnApi
  <2>6. PICK k \in DOMAIN list : list[k] = a.item
    BY <2>1, <2>4, SeqFacts
  <2> QED
    BY <2>3, <2>4, <2>5, <2>6 DEF IsMarked
<1> QED
  BY <1>1, <1>2, <1>3 DEF NoPanic, Stuck

\* The types of the state, and no panic.
LEMMA InvTypes ==
  ASSUME MacrosInv
  PROVE  TypeOK /\ NoPanic
<1> DEFINE list == job.item.items
<1>1. /\ job.macro \in {"endpoint", "channel", "api"} /\ NoPanic /\ valid \in BOOLEAN
      /\ pc \in {"start", "item", "context", "items", "output", "usage", "done", "panicked"}
      /\ context.is \in {"Missing", "Invalid", "Valid"}
  BY InvPanic DEF MacrosInv, JobOK
<1>2. CASE OnFunction
  <2>1. items = <<>> /\ next = 1
    BY <1>2 DEF MacrosInv, FunctionInv
  <2> QED
    BY <1>1, <1>2, <2>1, EmptyIsSeq DEF TypeOK
<1>3. CASE ~OnFunction
  <2>1. TraitInv /\ IsSeq(list)
    BY <1>3 DEF MacrosInv, JobOK, AreItems
  <2>2. Len(list) \in Nat
    BY <2>1, SeqFacts
  <2>3. (items = <<>> /\ next = 1) \/ ItemsOK
    BY <1>1, <2>1 DEF TraitInv, TraitEnd, Stuck
  <2>4. next \in 1 .. (Len(list) + 1) /\ (Len(items) < next \/ metadata = None)
    <3>1. CASE items = <<>> /\ next = 1
      BY <2>2, <3>1, EmptyIsSeq
    <3>2. CASE ItemsOK /\ metadata = None
      BY <2>2, <3>2 DEF ItemsOK
    <3>3. CASE ItemsOK /\ metadata # None
      <4>1. next \in 1 .. (Len(list) + 1) /\ Len(items) = Len(Looked) /\ IsSeq(items)
        BY <3>3 DEF ItemsOK
      <4>2. next - 1 \in 0 .. Len(list)
        BY <2>2, <4>1
      <4>3. Len(Looked) <= next - 1
        BY <2>1, <4>2, KeptFacts DEF Looked
      <4>4. Len(items) \in Nat
        BY <4>1, SeqFacts
      <4> QED
        BY <2>2, <4>1, <4>3, <4>4
    <3> QED
      BY <2>3, <3>1, <3>2, <3>3
  <2> QED
    BY <1>1, <1>3, <2>4 DEF TypeOK
<1> QED
  BY <1>2, <1>3

\* The generated registrations.
LEMMA EndpointFields ==
  ASSUME NEW api
  PROVE  /\ RegularEndpoint(api).name = api.item.ident
         /\ StubEndpoint(api).name = api.item.ident
         /\ api.is = "channel" =>
              /\ RegularEndpoint(api).adapter = to_adapter_fn(api.params)
              /\ RegularEndpoint(api).endpoint =
                   to_api_endpoint_fn(api.metadata, api.item.ident, "adapter", <<>>)
              /\ StubEndpoint(api).endpoint =
                   to_api_endpoint_fn(api.metadata, api.item.ident, "stub",
                                      Joined(extractor_types(api.params), <<EndpointResult>>))
         /\ api.is # "channel" =>
              /\ RegularEndpoint(api).adapter = None
              /\ RegularEndpoint(api).endpoint =
                   to_api_endpoint_fn(api.metadata, api.item.ident, "method", <<>>)
              /\ StubEndpoint(api).endpoint =
                   to_api_endpoint_fn(api.metadata, api.item.ident, "stub",
                                      Joined(extractor_types(api.params), <<api.params.ret_ty>>))
<1> DEFINE name == api.item.ident
           method == to_api_endpoint_fn(api.metadata, name, "method", <<>>)
           wrapped == to_api_endpoint_fn(api.metadata, name, "adapter", <<>>)
           ofMethod == to_api_endpoint_fn(api.metadata, name, "stub",
                         Joined(extractor_types(api.params), <<api.params.ret_ty>>))
           ofAdapter == to_api_endpoint_fn(api.metadata, name, "stub",
                          Joined(extractor_types(api.params), <<EndpointResult>>))
           adapter == to_adapter_fn(api.params)
           r(a, e) == [name |-> name, adapter |-> a, endpoint |-> e]
<1>1. /\ api.is = "channel" => RegularEndpoint(api) = r(adapter, wrapped)
      /\ api.is # "channel" => RegularEndpoint(api) = r(None, method)
      /\ api.is = "channel" => StubEndpoint(api) = r(None, ofAdapter)
      /\ api.is # "channel" => StubEndpoint(api) = r(None, ofMethod)
  BY Zenon DEF RegularEndpoint, StubEndpoint, ChannelRegular, EndpointRegular, ChannelStub,
               EndpointStub, Joined
<1> HIDE DEF name, method, wrapped, ofMethod, ofAdapter, adapter
<1>2. \A a, e : r(a, e).name = name /\ r(a, e).adapter = a /\ r(a, e).endpoint = e
  OBVIOUS
<1> HIDE DEF r
<1> DEFINE R == RegularEndpoint(api)
           S == StubEndpoint(api)
<1> HIDE DEF R, S
<1>3. /\ api.is = "channel" => R.name = name /\ R.adapter = adapter /\ R.endpoint = wrapped
      /\ api.is # "channel" => R.name = name /\ R.adapter = None /\ R.endpoint = method
      /\ api.is = "channel" => S.name = name /\ S.endpoint = ofAdapter
      /\ api.is # "channel" => S.name = name /\ S.endpoint = ofMethod
  <2>1. /\ api.is = "channel" => R = r(adapter, wrapped)
        /\ api.is # "channel" => R = r(None, method)
        /\ api.is = "channel" => S = r(None, ofAdapter)
        /\ api.is # "channel" => S = r(None, ofMethod)
    BY <1>1, Zenon DEF R, S
  <2> QED
    BY <1>2, <2>1
<1>4. R.name = name /\ S.name = name
  BY <1>3
<1> QED
  BY <1>3, <1>4, Zenon DEF R, S, name, method, wrapped, ofMethod, ofAdapter, adapter

\* The builder has the versions and the types it was given.
LEMMA BuilderFields ==
  ASSUME NEW meta, NEW name, NEW handler, NEW types
  PROVE  /\ to_api_endpoint_fn(meta, name, handler, types).versions = meta.versions
         /\ to_api_endpoint_fn(meta, name, handler, types).types = types
BY DEF to_api_endpoint_fn

\* The functions of a trait that are marked.
MarkedFns(list) == {i \in Range(list) : IsMarked(i)}

\* When no function is invalid, the managed ones are the marked ones, in order.
LEMMA ManagedAreMarked ==
  ASSUME Parsed, ~HasInvalidFnItems
  PROVE  LET list == job.item.items
             marked == Filter(list, MarkedFns(list))
         IN  /\ IsSeq(Managed) /\ IsSeq(marked) /\ Len(Managed) = Len(marked)
             /\ \A j \in 1 .. Len(marked) : Managed[j].item = marked[j]
             /\ \A j \in 1 .. Len(Managed) :
                  Managed[j] \in Range(items) /\ Managed[j].is \in {"endpoint", "channel"}
<1> DEFINE list == job.item.items
           kept == Filter(list, NotContext)
           M == MarkedFns(list)
           G == {a \in Range(items) : a.is \in {"endpoint", "channel"}}
<1>1. /\ IsSeq(items) /\ IsSeq(kept) /\ Len(items) = Len(kept)
      /\ \A j \in 1 .. Len(items) :
           /\ items[j] = ApiOf(kept[j]) /\ items[j].item = kept[j]
           /\ kept[j] \in Range(list) /\ IsItem(kept[j])
  BY ParsedFacts
<1>2. IsSeq(list)
  BY DEF Parsed, AreItems
<1>3. DOMAIN items = 1 .. Len(items) /\ \A j \in 1 .. Len(items) : items[j] \in Range(items)
  BY <1>1, SeqFacts
<1> HIDE DEF kept
<1>4. ASSUME NEW j \in 1 .. Len(items)
      PROVE  items[j] \in G <=> kept[j] \in M
  <2>1. items[j].is # "Invalid"
    BY <1>3 DEF HasInvalidFnItems
  <2>2. ItemKind(kept[j]) = "fn" => (items[j].is \in {"endpoint", "channel"} <=> Recognized(kept[j].attrs) # <<>>)
    BY <1>1, <2>1, ItemFacts DEF FnApi
  <2>3. ItemKind(kept[j]) # "fn" => items[j].is = "Other"
    BY <1>1, ItemFacts DEF OtherItem
  <2> QED
    BY <1>1, <1>3, <2>2, <2>3 DEF MarkedFns, IsMarked
<1>5. /\ Len(Filter(items, G)) = Len(Filter(kept, M))
      /\ \A j \in 1 .. Len(Filter(kept, M)) : Filter(items, G)[j].item = Filter(kept, M)[j]
  BY <1>1, <1>4, FilterMapped
<1>6. Filter(kept, M) = Filter(list, M)
  <2>1. Filter(kept, M) = Filter(list, NotContext \cap M)
    BY <1>2, FilterTwice DEF kept
  <2>2. \A x \in Range(list) : x \in NotContext \cap M <=> x \in M
    BY DEF NotContext, MarkedFns, IsMarked, IsContext
  <2> QED
    BY <1>2, <2>1, <2>2, FilterSame
<1>7. /\ IsSeq(Filter(items, G)) /\ Range(Filter(items, G)) = Range(items) \cap G
      /\ IsSeq(Filter(list, M))
  BY <1>1, <1>2, FilterFacts
<1>8. Managed = Filter(items, G)
  BY Zenon DEF Managed
<1>9. \A j \in 1 .. Len(Managed) : Managed[j] \in Range(Managed)
  BY <1>7, <1>8, SeqFacts
<1> QED
  BY <1>5, <1>6, <1>7, <1>8, <1>9

\* What is registered, by the real factory and by the stub.
LEMMA RegisteredFacts ==
  ASSUME Parsed, ~HasInvalidFnItems, NEW stub
  PROVE  /\ DOMAIN Registered(stub) = DOMAIN Managed
         /\ DOMAIN Managed = 1 .. Len(Managed) /\ Len(Registered(stub)) = Len(Managed)
         /\ \A k \in DOMAIN Managed :
              Registered(stub)[k] = IF stub THEN StubEndpoint(Managed[k]) ELSE RegularEndpoint(Managed[k])
<1> DEFINE r == Registered(stub)
<1>1. IsSeq(Managed)
  BY ManagedAreMarked
<1>2. /\ DOMAIN r = DOMAIN Managed
      /\ \A k \in DOMAIN Managed : r[k] = IF stub THEN StubEndpoint(Managed[k]) ELSE RegularEndpoint(Managed[k])
  BY DEF Registered
<1>3. r = [k \in DOMAIN Managed |-> r[k]]
  BY DEF Registered
<1> HIDE DEF r
<1>4. Len(r) = Len(Managed) /\ DOMAIN Managed = 1 .. Len(Managed)
  BY <1>1, <1>3, MapFacts, SeqFacts
<1> QED
  BY <1>2, <1>4 DEF r

\* If no function of the trait was turned down, those that are registered
\* are the marked ones, in order (api_trait.rs:739-781).
LEMMA NamesAreMarked ==
  ASSUME Parsed, ~HasInvalidFnItems, NEW stub \in BOOLEAN
  PROVE  Names(Registered(stub)) = MarkedIdents(job.item.items)
<1> DEFINE list == job.item.items
           marked == Filter(list, MarkedFns(list))
           r == Registered(stub)
<1>1. IsSeq(marked) /\ Len(Managed) = Len(marked) /\ \A j \in 1 .. Len(marked) : Managed[j].item = marked[j]
  BY ManagedAreMarked
<1>2. DOMAIN r = DOMAIN marked /\ DOMAIN marked = 1 .. Len(marked)
  BY <1>1, RegisteredFacts, SeqFacts
<1>3. ASSUME NEW k \in DOMAIN marked
      PROVE  r[k].name = marked[k].ident
  <2>1. r[k] = StubEndpoint(Managed[k]) \/ r[k] = RegularEndpoint(Managed[k])
    BY <1>1, <1>2, RegisteredFacts
  <2>2. r[k].name = Managed[k].item.ident
    BY <2>1, EndpointFields
  <2> QED
    BY <1>1, <1>2, <2>2
<1>4. MarkedIdents(list) = [k \in DOMAIN marked |-> marked[k].ident]
  BY Zenon DEF MarkedIdents, MarkedFns
<1> HIDE DEF r, marked
<1>5. Names(r) = [k \in DOMAIN marked |-> marked[k].ident]
  BY <1>2, <1>3 DEF Names
<1> QED
  BY <1>4, <1>5 DEF r

\* The usage messages are sequences.
LEMMA UsageIsSeq == IsSeq(FnUsage) /\ IsSeq(TraitUsage)
<1>1. \A x : IsSeq(<<x>>)
  BY OneIsSeq
<1>2. IsSeq(FnUsage)
  BY <1>1, EmptyIsSeq, Zenon DEF FnUsage
<1> DEFINE a == IF out.channel THEN <<UsageErr("channel")>> ELSE <<>>
           b == IF out.endpoint THEN <<UsageErr("endpoint")>> ELSE <<>>
<1>3. IsSeq(a) /\ IsSeq(b)
  BY <1>1, EmptyIsSeq, Zenon
<1>4. TraitUsage = Joined(a, b)
  BY Zenon DEF TraitUsage
<1> HIDE DEF a, b
<1> QED
  BY <1>2, <1>3, <1>4, JoinedFacts

\* Nothing comes of two only if there was nothing.
LEMMA BothEmpty ==
  ASSUME NEW s, IsSeq(s), NEW t, IsSeq(t), Joined(s, t) = <<>>
  PROVE  s = <<>> /\ t = <<>>
BY JoinedFacts, Zenon

\* A trait that has been expanded, with the errors but for the usage messages.
LEMMA TraitDone ==
  ASSUME MacrosInv, Done, ~OnFunction, job.item.parses
  PROVE  \E e0 : /\ ItemsOK /\ TraitErrs(e0) /\ out = TraitOut
                 /\ errors = Joined(TraitUsage, e0)
                 /\ AreItems(job.item.items)
                 /\ metadata # None => Parsed
<1>1. TraitInv /\ AreItems(job.item.items)
  BY DEF MacrosInv, JobOK
<1>2. PICK e0 : /\ TraitEnd(e0)
                /\ errors = Joined(IF job.item.parses THEN TraitUsage ELSE FnUsage, e0)
  BY <1>1 DEF TraitInv, Done
<1>3. errors = Joined(TraitUsage, e0)
  BY <1>2, Zenon
<1> QED
  BY <1>1, <1>2, <1>3 DEF TraitEnd, Parsed

\* An expansion without errors.
LEMMA InvClean ==
  ASSUME MacrosInv
  PROVE  CleanMeansWorking
<1> SUFFICES ASSUME Done, errors = <<>>
             PROVE  IF OnFunction
                    THEN /\ out.kind = "struct" /\ out.from_impl # None
                         /\ out.construct # None /\ VersionsBuild(out.construct.versions)
                    ELSE /\ out.module # None /\ ~out.module.empty /\ ~out.module.invalid_docs
                         /\ Panic \notin {out.module.api, out.module.stub}
                         /\ Names(out.module.api.register) = MarkedIdents(job.item.items)
                         /\ Names(out.module.stub.register) = MarkedIdents(job.item.items)
                         /\ \A k \in DOMAIN out.module.api.register :
                              VersionsBuild(out.module.api.register[k].endpoint.versions)
                         /\ \A k \in DOMAIN job.item.items :
                              (ItemKind(job.item.items[k]) \notin {"fn", "verbatim"}) =>
                                Recognized(job.item.items[k].attrs) = <<>>
  BY Zenon DEF CleanMeansWorking
<1> DEFINE list == job.item.items
<1>1. CASE OnFunction
  <2>1. PICK e0 : FunctionEnd(e0) /\ errors = Joined(FnUsage, e0)
    BY <1>1 DEF MacrosInv, FunctionInv, Done
  <2>2. IsSeq(e0)
    BY <2>1 DEF FunctionEnd
  <2>3. e0 = <<>>
    <3>1. Joined(FnUsage, e0) = <<>> /\ IsSeq(FnUsage)
      BY <2>1, UsageIsSeq
    <3> QED
      BY <2>2, <3>1, BothEmpty
  <2> QED
    BY <1>1, <2>1, <2>3 DEF FunctionEnd, StructOK
<1>2. CASE ~OnFunction
  <2>1. job.item.parses
    <3> SUFFICES ASSUME ~job.item.parses PROVE FALSE
      OBVIOUS
    <3>1. PICK e0 : TraitEnd(e0) /\ errors = Joined(FnUsage, e0)
      BY <1>2, Zenon DEF MacrosInv, TraitInv, Done
    <3>2. IsSeq(e0) /\ e0 # <<>>
      BY <3>1 DEF TraitEnd, BaseErrs
    <3>3. Joined(FnUsage, e0) = <<>> /\ IsSeq(FnUsage)
      BY <3>1, UsageIsSeq
    <3> QED
      BY <3>2, <3>3, BothEmpty
  <2>2. PICK e0 : /\ ItemsOK /\ TraitErrs(e0) /\ out = TraitOut
                  /\ errors = Joined(TraitUsage, e0)
                  /\ AreItems(list)
                  /\ metadata # None => Parsed
    BY <1>2, <2>1, TraitDone
  <2>3. e0 = <<>>
    <3>1. IsSeq(e0)
      BY <2>2 DEF TraitErrs
    <3>2. Joined(TraitUsage, e0) = <<>> /\ IsSeq(TraitUsage)
      BY <2>2, UsageIsSeq
    <3> QED
      BY <3>1, <3>2, BothEmpty
  <2>4. metadata # None /\ valid /\ context.is = "Valid" /\ Parsed
    BY <2>2, <2>3 DEF TraitErrs
  <2>5. IsSeq(list) /\ Len(list) \in Nat /\ DOMAIN list = 1 .. Len(list) /\ \A k \in DOMAIN list : IsItem(list[k])
    BY <2>2, SeqFacts DEF AreItems
  <2>6. \A k \in DOMAIN list : ErrsOf(list[k]) = <<>>
    <3> SUFFICES ASSUME NEW k \in DOMAIN list PROVE ErrsOf(list[k]) = <<>>
      OBVIOUS
    <3>1. k \in 1 .. (next - 1)
      BY <2>4, <2>5 DEF Parsed
    <3>2. \A e \in Range(ErrsOf(list[k])) : e \in Range(<<>>)
      BY <2>2, <2>3, <2>4, <3>1 DEF TraitErrs
    <3>3. IsSeq(ErrsOf(list[k]))
      BY <2>5, ItemFacts
    <3> QED
      BY <3>2, <3>3, EmptyIsSeq, SeqFacts
  <2>7. ~HasInvalidFnItems
    <3> SUFFICES ASSUME NEW j \in DOMAIN items, items[j].is = "Invalid" PROVE FALSE
      BY DEF HasInvalidFnItems
    <3>1. items[j] \in Range(items)
      BY DEF Range
    <3>2. items[j].item \in Range(list) /\ FnApi(items[j], ErrsOf(items[j].item), items[j].item)
      BY <2>4, <3>1, ManagedFacts
    <3>3. ErrsOf(items[j].item) = <<>>
      BY <2>6, <3>2 DEF Range
    <3> QED
      BY <3>2, <3>3 DEF FnApi
  <2>8. /\ out.module = make_module /\ make_module # None /\ ~make_module.empty /\ ~make_module.invalid_docs
        /\ make_module.stub = make_api_factory_body(TRUE) /\ make_module.api = make_api_factory_body(FALSE)
    BY <2>2, <2>4, <2>7, OutFields, ModuleFields, Zenon
  <2>9. /\ make_api_factory_body(TRUE) # Panic /\ make_api_factory_body(TRUE).register = Registered(TRUE)
        /\ make_api_factory_body(FALSE) # Panic /\ make_api_factory_body(FALSE).register = Registered(FALSE)
    BY <2>7, FactoryFields, Zenon
  <2>10. Names(Registered(TRUE)) = MarkedIdents(list) /\ Names(Registered(FALSE)) = MarkedIdents(list)
    BY <2>4, <2>7, NamesAreMarked
  <2>11. ASSUME NEW k \in DOMAIN Registered(FALSE)
         PROVE  VersionsBuild(Registered(FALSE)[k].endpoint.versions)
    <3> DEFINE a == Managed[k]
    <3>1. k \in 1 .. Len(Managed) /\ Registered(FALSE)[k] = RegularEndpoint(a)
      BY <2>4, <2>7, RegisteredFacts
    <3>2. a \in Range(items) /\ a.is \in {"endpoint", "channel"}
      BY <2>4, <2>7, <3>1, ManagedAreMarked
    <3>3. VersionsBuild(a.metadata.versions)
      BY <2>4, <3>2, ManagedFacts DEF FnApi
    <3>4. RegularEndpoint(a).endpoint.versions = a.metadata.versions
      <4>1. PICK h : RegularEndpoint(a).endpoint = to_api_endpoint_fn(a.metadata, a.item.ident, h, <<>>)
        <5>1. CASE a.is = "channel"
          BY <5>1, EndpointFields
        <5>2. CASE a.is # "channel"
          BY <5>2, EndpointFields
        <5> QED
          BY <5>1, <5>2
      <4> QED
        BY <4>1, BuilderFields
    <3> QED
      BY <3>1, <3>3, <3>4
  <2>12. \A k \in DOMAIN list : ItemKind(list[k]) \notin {"fn", "verbatim"} => Recognized(list[k].attrs) = <<>>
    BY <2>5, <2>6, ItemFacts
  <2> QED
    BY <1>2, <2>8, <2>9, <2>10, <2>11, <2>12
<1> QED
  BY <1>1, <1>2

-----------------------------------------------------------------------------
(* The wrappers that are generated around a handler.                       *)

\* One before a sequence.
LEMMA OneBefore ==
  ASSUME NEW x, NEW s, IsSeq(s)
  PROVE  /\ IsSeq(Joined(<<x>>, s)) /\ Len(Joined(<<x>>, s)) = Len(s) + 1
         /\ Joined(<<x>>, s)[1] = x
         /\ \A k \in 2 .. (Len(s) + 1) : Joined(<<x>>, s)[k] = s[k - 1]
<1> DEFINE S == Range(s) \cup {x}
<1>1. s \in Seq(S) /\ x \in S
  <2>1. s \in Seq(Range(s))
    BY DEF IsSeq
  <2> QED
    BY <2>1, SeqMonotonic
<1>2. IsSeq(Joined(<<x>>, s))
  BY OneIsSeq, JoinedFacts
<1> HIDE DEF S
<1>3. /\ Len(Joined(<<x>>, s)) = Len(s) + 1 /\ Joined(<<x>>, s)[1] = x
      /\ \A k \in 2 .. (Len(s) + 1) : Joined(<<x>>, s)[k] = s[k - 1]
  BY <1>1 DEF Joined
<1> QED
  BY <1>2, <1>3

\* One behind a sequence, and the sequence without it.
LEMMA OneBehind ==
  ASSUME NEW x, NEW s, IsSeq(s)
  PROVE  /\ IsSeq(Joined(s, <<x>>)) /\ Len(Joined(s, <<x>>)) = Len(s) + 1
         /\ Joined(s, <<x>>)[Len(s) + 1] = x
         /\ \A k \in 1 .. Len(s) : Joined(s, <<x>>)[k] = s[k]
         /\ Front(Joined(s, <<x>>)) = s
<1> DEFINE j == Joined(s, <<x>>)
           S == Range(s) \cup {x}
<1>1. s \in Seq(S) /\ x \in S
  <2>1. s \in Seq(Range(s))
    BY DEF IsSeq
  <2> QED
    BY <2>1, SeqMonotonic
<1>2. IsSeq(j)
  BY OneIsSeq, JoinedFacts
<1> HIDE DEF S
<1>3. /\ Len(j) = Len(s) + 1 /\ j[Len(s) + 1] = x
      /\ \A k \in 1 .. Len(s) : j[k] = s[k]
  BY <1>1 DEF Joined
<1>4. Len(s) \in Nat
  BY <1>1
<1>5. Front(j) = Part(j, 1, Len(j) - 1)
  BY Zenon DEF Front, Part
<1> HIDE DEF j
<1>6. 1 \in 1 .. (Len(j) + 1) /\ Len(j) - 1 \in (1 - 1) .. Len(j) /\ (Len(j) - 1) - 1 + 1 = Len(s)
  BY <1>3, <1>4
<1>7. /\ IsSeq(Front(j)) /\ Len(Front(j)) = Len(s)
      /\ \A i \in 1 .. Len(s) : Front(j)[i] = j[1 + i - 1]
  <2> DEFINE m == 1
             n == Len(j) - 1
  <2>1. m \in 1 .. (Len(j) + 1) /\ n \in (m - 1) .. Len(j)
    BY <1>6
  <2>2. n - m + 1 = Len(s)
    BY <1>6
  <2> HIDE DEF m, n
  <2>3. /\ IsSeq(Part(j, m, n)) /\ Len(Part(j, m, n)) = n - m + 1
        /\ \A i \in 1 .. (n - m + 1) : Part(j, m, n)[i] = j[m + i - 1]
    BY <1>2, <2>1, PartFacts, Zenon
  <2>4. /\ IsSeq(Part(j, m, n)) /\ Len(Part(j, m, n)) = Len(s)
        /\ \A i \in 1 .. Len(s) : Part(j, m, n)[i] = j[m + i - 1]
    BY <2>2, <2>3, Zenon
  <2> QED
    BY <1>5, <2>4, Zenon DEF m, n
<1>8. \A i \in 1 .. Len(s) : Front(j)[i] = s[i]
  <2>1. \A i \in 1 .. Len(s) : 1 + i - 1 = i
    BY <1>4
  <2> QED
    BY <1>3, <1>7, <2>1
<1>9. Front(j) = s
  BY <1>7, <1>8, SeqSame
<1> QED
  BY <1>2, <1>3, <1>9 DEF j

\* All but the first one.
LEMMA TailFacts ==
  ASSUME NEW s, IsSeq(s), s # <<>>
  PROVE  /\ IsSeq(Tail(s)) /\ Len(Tail(s)) = Len(s) - 1 /\ Len(s) \in Nat /\ Len(s) >= 1
         /\ \A k \in 1 .. (Len(s) - 1) : Tail(s)[k] = s[k + 1]
<1>1. Len(s) \in Nat /\ Len(s) # 0
  BY SeqFacts
<1> DEFINE m == 2
           n == Len(s)
<1>3. m \in 1 .. (Len(s) + 1) /\ n \in (m - 1) .. Len(s) /\ n - m + 1 = Len(s) - 1
  BY <1>1
<1>4. \A i \in 1 .. (Len(s) - 1) : m + i - 1 = i + 1
  BY <1>1
<1>5. Tail(s) = Part(s, m, n)
  BY TailIsPart, Zenon
<1>6. Len(s) >= 1
  BY <1>1
<1> HIDE DEF m, n
<1>7. /\ IsSeq(Part(s, m, n)) /\ Len(Part(s, m, n)) = n - m + 1
      /\ \A i \in 1 .. (n - m + 1) : Part(s, m, n)[i] = s[m + i - 1]
  BY <1>3, PartFacts, Zenon
<1>8. /\ IsSeq(Tail(s)) /\ Len(Tail(s)) = Len(s) - 1
      /\ \A i \in 1 .. (Len(s) - 1) : Tail(s)[i] = s[m + i - 1]
  BY <1>3, <1>5, <1>7, Zenon
<1>9. \A i \in 1 .. (Len(s) - 1) : Tail(s)[i] = s[i + 1]
  BY <1>4, <1>8, Zenon
<1> QED
  BY <1>1, <1>6, <1>8, <1>9, Zenon

\* It does not matter which two are joined first.
LEMMA JoinedThree ==
  ASSUME NEW a, IsSeq(a), NEW b, IsSeq(b), NEW c, IsSeq(c)
  PROVE  Joined(Joined(a, b), c) = Joined(a, Joined(b, c))
<1> DEFINE S == Range(a) \cup Range(b) \cup Range(c)
<1>1. a \in Seq(S) /\ b \in Seq(S) /\ c \in Seq(S)
  <2>1. a \in Seq(Range(a)) /\ b \in Seq(Range(b)) /\ c \in Seq(Range(c))
    BY DEF IsSeq
  <2> QED
    BY <2>1, SeqMonotonic
<1> HIDE DEF S
<1> QED
  BY <1>1 DEF Joined

\* As many names as types: nothing is dropped.
LEMMA ZipFacts ==
  ASSUME NEW a, IsSeq(a), NEW b, IsSeq(b), Len(a) = Len(b)
  PROVE  /\ IsSeq(QuoteZip(a, b)) /\ Len(QuoteZip(a, b)) = Len(a)
         /\ \A k \in 1 .. Len(a) : QuoteZip(a, b)[k][1] = a[k] /\ QuoteZip(a, b)[k][2] = b[k]
         /\ a = [k \in DOMAIN QuoteZip(a, b) |-> QuoteZip(a, b)[k][1]]
<1> DEFINE z == QuoteZip(a, b)
           n == Len(a)
<1>1. n \in Nat /\ DOMAIN a = 1 .. n /\ a = [k \in 1 .. n |-> a[k]]
  BY SeqFacts DEF IsSeq
<1>2. z = [i \in 1 .. n |-> <<a[i], b[i]>>]
  BY <1>1 DEF QuoteZip
<1>3. DOMAIN z = DOMAIN a /\ \A k \in 1 .. n : z[k][1] = a[k] /\ z[k][2] = b[k]
  BY <1>1, <1>2
<1>4. z = [k \in DOMAIN a |-> z[k]]
  BY <1>1, <1>2
<1> HIDE DEF z
<1>5. IsSeq(z) /\ Len(z) = n
  BY <1>4, MapFacts
<1>6. a = [k \in DOMAIN z |-> z[k][1]]
  BY <1>1, <1>3
<1> QED
  BY <1>3, <1>5, <1>6 DEF z

\* Names that are all different are as many as they are long.
LEMMA NamesCount ==
  ASSUME NEW s, IsSeq(s), \A i, j \in 1 .. Len(s) : s[i] = s[j] => i = j
  PROVE  Cardinality({s[k] : k \in DOMAIN s}) = Len(s)
<1> DEFINE n == Len(s)
           S == {s[k] : k \in DOMAIN s}
<1>1. n \in Nat /\ DOMAIN s = 1 .. n /\ s \in [1 .. n -> Range(s)]
  BY SeqFacts DEF IsSeq
<1>2. s \in [1 .. n -> S]
  BY <1>1
<1>3. s \in Injection(1 .. n, S)
  BY <1>1, <1>2 DEF Injection, IsInjective
<1>4. s \in Surjection(1 .. n, S)
  BY <1>1, <1>2 DEF Surjection
<1>5. ExistsBijection(1 .. n, S)
  BY <1>3, <1>4 DEF ExistsBijection, Bijection
<1> HIDE DEF S
<1> QED
  BY <1>1, <1>5, FS_CountingElements DEF S

\* The wrapper has all arguments of the signature, and passes them on.
Full(w, sig) ==
  /\ Len(w.params) = Len(sig.inputs)
  /\ w.call = [k \in DOMAIN w.params |-> w.params[k][1]]
  /\ Cardinality({w.call[k] : k \in DOMAIN w.call}) = Len(w.call)

Adapts(w, sig) ==
  /\ Full(w, sig)
  /\ Last(w.params)[2] = WebsocketUpgrade
  /\ w.conn = Last(sig.inputs)
  /\ \A k \in 2..(Len(w.params) - 1) : w.params[k][2] = sig.inputs[k]

\* The names of the arguments are as many as the arguments, and differ.
AreNames(names, n) ==
  IsSeq(names) /\ Len(names) = n /\ \A i, j \in 1 .. n : names[i] = names[j] => i = j

\* A wrapper made of names and types, one of each for every argument.
Zipped(w, sig, names, types) ==
  /\ AreNames(names, Len(sig.inputs)) /\ IsSeq(types) /\ Len(types) = Len(sig.inputs)
  /\ w.params = QuoteZip(names, types) /\ w.call = names

\* Such a wrapper is full.
LEMMA FullFacts ==
  ASSUME NEW sig, NEW w, NEW names, NEW types, Zipped(w, sig, names, types)
  PROVE  Full(w, sig) /\ \A k \in 1 .. Len(sig.inputs) : w.params[k][2] = types[k]
<1> DEFINE n == Len(sig.inputs)
<1>1. /\ IsSeq(names) /\ Len(names) = n /\ \A i, j \in 1 .. Len(names) : names[i] = names[j] => i = j
      /\ IsSeq(types) /\ Len(types) = n /\ w.params = QuoteZip(names, types) /\ w.call = names
  BY DEF AreNames, Zipped
<1>2. /\ Len(w.params) = n /\ \A k \in 1 .. n : w.params[k][2] = types[k]
      /\ names = [k \in DOMAIN w.params |-> w.params[k][1]]
  BY <1>1, ZipFacts
<1>3. Cardinality({names[k] : k \in DOMAIN names}) = Len(names)
  BY <1>1, NamesCount
<1> QED
  BY <1>1, <1>2, <1>3 DEF Full

\* The arguments of an endpoint.
LEMMA EndpointArgs ==
  ASSUME NEW p, NEW sig, IsSeq(sig.inputs), NEW kind, EndpointOf(p, sig, kind)
  PROVE  /\ AreNames(arg_names(p), Len(sig.inputs))
         /\ arg_types(p) = Joined(<<p.rqctx_ty.unit>>, Tail(sig.inputs))
         /\ extractor_types(p) = Tail(sig.inputs)
<1> DEFINE s == p.shared
           e == p.exclusive
           n == Len(sig.inputs)
<1>1. /\ p.channel = FALSE /\ sig.inputs # <<>> /\ IsSeq(s) /\ IsSeq(e)
      /\ Joined(s, e) = Tail(sig.inputs)
  BY DEF EndpointOf
<1>2. Len(Tail(sig.inputs)) = n - 1 /\ n \in Nat /\ n >= 1
  BY <1>1, TailFacts
<1> HIDE DEF s, e, n
<1>3. Len(s) \in Nat /\ Len(e) \in Nat /\ Len(s) + Len(e) = n - 1
  <2>1. Len(s) \in Nat /\ Len(e) \in Nat
    BY <1>1, SeqFacts
  <2>2. Len(Joined(s, e)) = Len(s) + Len(e)
    BY <1>1, JoinedFacts, Zenon
  <2> QED
    BY <1>1, <1>2, <2>1, <2>2
<1>4. arg_names(p) = [k \in 1 .. (1 + Len(s) + Len(e)) |-> <<"arg", k - 1>>]
  BY <1>1, Zenon DEF arg_names, EndpointArgNames, s, e
<1>5. 1 + Len(s) + Len(e) = n
  BY <1>2, <1>3
<1>6. AreNames(arg_names(p), n)
  <2> DEFINE a == [k \in 1 .. n |-> <<"arg", k - 1>>]
  <2>1. arg_names(p) = a
    BY <1>4, <1>5, Zenon
  <2>2. IsSeq(sig.inputs) /\ DOMAIN sig.inputs = 1 .. n /\ Len(sig.inputs) = n
    BY SeqFacts DEF n
  <2>3. /\ a = [k \in DOMAIN sig.inputs |-> a[k]]
        /\ \A i, j \in 1 .. n : a[i] = a[j] => i = j
    BY <1>2, <2>2
  <2> HIDE DEF a
  <2>4. IsSeq(a) /\ Len(a) = n
    BY <2>2, <2>3, MapFacts
  <2> QED
    BY <2>1, <2>3, <2>4, Zenon DEF AreNames
<1>7. arg_types(p) = Joined(Joined(<<p.rqctx_ty.unit>>, s), e)
  BY Zenon DEF arg_types, Joined, s, e
<1>8. arg_types(p) = Joined(<<p.rqctx_ty.unit>>, Joined(s, e))
  <2> DEFINE u == <<p.rqctx_ty.unit>>
  <2>1. IsSeq(u)
    BY OneIsSeq
  <2> HIDE DEF u
  <2>2. Joined(Joined(u, s), e) = Joined(u, Joined(s, e))
    <3>1. IsSeq(s) /\ IsSeq(e)
      BY <1>1
    <3> QED
      BY ONLY <2>1, <3>1, JoinedThree
  <2> QED
    BY <1>7, <2>2, Zenon DEF u
<1>9. extractor_types(p) = Joined(s, e)
  BY <1>1, Zenon DEF extractor_types, Joined, s, e
<1> QED
  BY <1>1, <1>6, <1>8, <1>9, Zenon DEF n

\* The arguments of a channel, and those of its adapter.
LEMMA ChannelArgs ==
  ASSUME NEW p, NEW sig, IsSeq(sig.inputs), NEW kind, ChannelOf(p, sig, kind)
  PROVE  LET n == Len(sig.inputs)
             e == extractor_types(p)
         IN  /\ n \in Nat /\ n >= 2
             /\ AreNames(arg_names(p), n)
             /\ arg_types(p) = Joined(<<p.rqctx_ty.unit>>, Tail(sig.inputs))
             /\ IsSeq(e) /\ Len(e) = n - 1 /\ e[n - 1] = WebsocketUpgrade
             /\ \A k \in 1 .. (n - 2) : e[k] = sig.inputs[k + 1]
             /\ adapter_arg_types(p) = Joined(<<p.rqctx_ty.server_impl>>, e)
             /\ Last(p.exclusive) = Last(sig.inputs)
<1> DEFINE ins == sig.inputs
           s == p.shared
           n == Len(ins)
           last == Last(ins)
           e == extractor_types(p)
<1>1. /\ p.channel = TRUE /\ n >= 2 /\ s = Part(ins, 2, n - 1) /\ p.exclusive = <<last>>
  BY DEF ChannelOf
<1>2. n \in Nat /\ ins # <<>> /\ DOMAIN ins = 1 .. n /\ last = ins[n]
  BY <1>1, SeqFacts DEF Last
<1> HIDE DEF last
<1>3. IsSeq(s) /\ Len(s) = n - 2 /\ \A k \in 1 .. (n - 2) : s[k] = ins[k + 1]
  <2> DEFINE a == 2
             b == n - 1
  <2>1. a \in 1 .. (n + 1) /\ b \in (a - 1) .. n /\ b - a + 1 = n - 2
    BY <1>1, <1>2
  <2>2. \A k \in 1 .. (n - 2) : a + k - 1 = k + 1
    BY <1>2
  <2>3. s = Part(ins, a, b)
    BY <1>1, Zenon
  <2> HIDE DEF a, b
  <2>4. /\ IsSeq(Part(ins, a, b)) /\ Len(Part(ins, a, b)) = b - a + 1
        /\ \A i \in 1 .. (b - a + 1) : Part(ins, a, b)[i] = ins[a + i - 1]
    BY <2>1, PartFacts, Zenon
  <2>5. /\ IsSeq(s) /\ Len(s) = n - 2
        /\ \A i \in 1 .. (n - 2) : s[i] = ins[a + i - 1]
    BY <2>1, <2>3, <2>4, Zenon
  <2> QED
    BY <2>2, <2>5, Zenon
<1>4. /\ e = Joined(s, <<WebsocketUpgrade>>)
      /\ adapter_arg_types(p) = Joined(<<p.rqctx_ty.server_impl>>, e)
  <2>1. e = ChannelExtractorTypes(p) /\ ChannelExtractorTypes(p) = Joined(s, <<WebsocketUpgrade>>)
    BY <1>1, Zenon DEF extractor_types, ChannelExtractorTypes, Joined
  <2> QED
    BY <2>1, Zenon DEF adapter_arg_types, Joined
<1>5. IsSeq(e) /\ Len(e) = n - 1 /\ e[n - 1] = WebsocketUpgrade
      /\ \A k \in 1 .. (n - 2) : e[k] = ins[k + 1]
  <2> DEFINE x == WebsocketUpgrade
  <2> HIDE DEF x
  <2>1. e = Joined(s, <<x>>)
    BY <1>4, Zenon DEF x
  <2>2. /\ IsSeq(e) /\ Len(e) = Len(s) + 1 /\ e[Len(s) + 1] = x
        /\ \A k \in 1 .. Len(s) : e[k] = s[k]
    <3> DEFINE j == Joined(s, <<x>>)
    <3>1. IsSeq(s)
      BY <1>3
    <3> HIDE DEF s, e
    <3>2. /\ IsSeq(j) /\ Len(j) = Len(s) + 1 /\ j[Len(s) + 1] = x
          /\ \A k \in 1 .. Len(s) : j[k] = s[k]
      BY ONLY <3>1, OneBehind
    <3>3. e = j
      BY <2>1
    <3> HIDE DEF j
    <3> QED
      BY ONLY <3>2, <3>3
  <2>3. (n - 2) + 1 = n - 1
    BY <1>2
  <2> HIDE DEF e
  <2>4. IsSeq(e) /\ Len(e) = n - 1 /\ e[n - 1] = x /\ \A k \in 1 .. (n - 2) : e[k] = s[k]
    BY <1>2, <1>3, <2>2, <2>3
  <2> QED
    BY <1>3, <2>4, Zenon DEF x, e
<1>6. arg_types(p) = Joined(<<p.rqctx_ty.unit>>, Tail(ins))
  <2>1. arg_types(p) = Joined(Joined(<<p.rqctx_ty.unit>>, s), <<last>>)
    BY <1>1, Zenon DEF arg_types, Joined
  <2>2. arg_types(p) = Joined(<<p.rqctx_ty.unit>>, Joined(s, <<last>>))
    BY <1>3, <2>1, OneIsSeq, JoinedThree
  <2> DEFINE t == Joined(s, <<last>>)
  <2>3. /\ IsSeq(t) /\ Len(t) = Len(s) + 1 /\ t[Len(s) + 1] = last
        /\ \A k \in 1 .. Len(s) : t[k] = s[k]
    <3>1. IsSeq(s)
      BY <1>3
    <3> HIDE DEF s, last
    <3> QED
      BY ONLY <3>1, OneBehind
  <2> HIDE DEF t
  <2>4. /\ IsSeq(Tail(ins)) /\ Len(Tail(ins)) = n - 1
        /\ \A k \in 1 .. (n - 1) : Tail(ins)[k] = ins[k + 1]
    BY <1>2, TailFacts
  <2>5. Len(t) = n - 1 /\ t[n - 1] = ins[n] /\ \A k \in 1 .. (n - 2) : t[k] = ins[k + 1]
    BY <1>2, <1>3, <2>3
  <2>6. \A k \in 1 .. (n - 1) : t[k] = ins[k + 1]
    <3>1. \A k \in 1 .. (n - 1) : k \in 1 .. (n - 2) \/ (k = n - 1 /\ k + 1 = n)
      BY <1>2
    <3> QED
      BY <2>5, <3>1
  <2>7. \A k \in 1 .. (n - 1) : t[k] = Tail(ins)[k]
    BY <2>4, <2>6
  <2>8. t = Tail(ins)
    BY <2>3, <2>4, <2>5, <2>7, SeqSame
  <2> QED
    BY <2>2, <2>8, Zenon DEF t
<1>7. AreNames(arg_names(p), n)
  <2> DEFINE ws == <<"__dropshot_websocket", 0>>
             a == [k \in 1 .. (1 + Len(s)) |-> <<"arg", k - 1>>]
             m == n - 1
             names == Joined(a, <<ws>>)
  <2>1. arg_names(p) = names
    BY <1>1, Zenon DEF arg_names, ChannelArgNames, Joined
  <2>2. 1 + Len(s) = m /\ m \in Nat /\ m >= 1 /\ m + 1 = n
    BY <1>1, <1>2, <1>3
  <2>3. IsSeq(e) /\ DOMAIN e = 1 .. m
    BY <1>5, SeqFacts
  <2>4. /\ a = [k \in 1 .. m |-> a[k]]
        /\ \A i, j \in 1 .. m : a[i] = a[j] => i = j
        /\ \A i \in 1 .. m : a[i] # ws
    BY <2>2
  <2> HIDE DEF a, ws, m, e
  <2>5. IsSeq(a) /\ Len(a) = m
    <3>1. a = [k \in DOMAIN e |-> a[k]]
      BY <2>3, <2>4
    <3>2. Len(e) = m
      BY <1>5 DEF e, m
    <3> QED
      BY <2>3, <3>1, <3>2, MapFacts
  <2>6. IsSeq(names) /\ Len(names) = m + 1 /\ names[m + 1] = ws /\ \A k \in 1 .. m : names[k] = a[k]
    BY <2>5, OneBehind
  <2> HIDE DEF names
  <2>7. \A k \in 1 .. (m + 1) : k \in 1 .. m \/ k = m + 1
    BY <2>2
  <2>8. \A i, j \in 1 .. (m + 1) : names[i] = names[j] => i = j
    BY <2>4, <2>6, <2>7
  <2> QED
    BY <2>1, <2>2, <2>6, <2>8, Zenon DEF AreNames
<1>8. Last(p.exclusive) = last
  <2>1. Last(<<last>>) = last
    BY DEF Last
  <2> QED
    BY <1>1, <2>1, Zenon
<1> QED
  BY <1>1, <1>2, <1>4, <1>5, <1>6, <1>7, <1>8, Zenon DEF last

\* The parts of the wrappers.
LEMMA WrapperFields ==
  ASSUME NEW p
  PROVE  /\ to_impl_checks(p).params = QuoteZip(arg_names(p), arg_types(p))
         /\ to_impl_checks(p).call = arg_names(p)
         /\ to_adapter_fn(p).params = QuoteZip(arg_names(p), adapter_arg_types(p))
         /\ to_adapter_fn(p).call = arg_names(p)
         /\ to_adapter_fn(p).conn = Last(p.exclusive)
         /\ to_adapter_fn(p) # None
<1> DEFINE a == QuoteZip(arg_names(p), arg_types(p))
           b == QuoteZip(arg_names(p), adapter_arg_types(p))
           c == arg_names(p)
           d == Last(p.exclusive)
           e == EndpointResult
           i == [params |-> a, call |-> c]
           f == [params |-> b, result |-> e, conn |-> d, call |-> c]
<1>1. to_impl_checks(p) = i /\ to_adapter_fn(p) = f
  BY Zenon DEF to_impl_checks, to_adapter_fn
<1> HIDE DEF a, b, c, d, e
<1>2. i.params = a /\ i.call = c /\ f.params = b /\ f.call = c /\ f.conn = d /\ f # None
  BY Values
<1> HIDE DEF i, f
<1>3. /\ to_impl_checks(p).params = a /\ to_impl_checks(p).call = c
      /\ to_adapter_fn(p).params = b /\ to_adapter_fn(p).call = c
      /\ to_adapter_fn(p).conn = d /\ to_adapter_fn(p) # None
  BY <1>1, <1>2, Zenon
<1> QED
  BY <1>3, Zenon DEF a, b, c, d

\* The check of a handler's future, when the types are those of the signature.
LEMMA ImplIsFull ==
  ASSUME NEW p, NEW sig, IsSeq(sig.inputs), sig.inputs # <<>>,
         AreNames(arg_names(p), Len(sig.inputs)),
         arg_types(p) = Joined(<<p.rqctx_ty.unit>>, Tail(sig.inputs)),
         p.rqctx_ty.unit = sig.inputs[1]
  PROVE  /\ Full(to_impl_checks(p), sig)
         /\ \A k \in DOMAIN sig.inputs : to_impl_checks(p).params[k][2] = sig.inputs[k]
<1> DEFINE ins == sig.inputs
           n == Len(ins)
           types == arg_types(p)
           w == to_impl_checks(p)
           names == arg_names(p)
<1>1. /\ IsSeq(Tail(ins)) /\ Len(Tail(ins)) = n - 1 /\ n \in Nat /\ n >= 1
      /\ \A k \in 1 .. (n - 1) : Tail(ins)[k] = ins[k + 1]
  BY TailFacts
<1>2. /\ IsSeq(types) /\ Len(types) = n /\ types[1] = ins[1]
      /\ \A k \in 2 .. n : types[k] = Tail(ins)[k - 1]
  <2> DEFINE u == p.rqctx_ty.unit
             s == Tail(ins)
  <2>1. types = Joined(<<u>>, s) /\ u = ins[1]
    BY Zenon
  <2> HIDE DEF types, u, s
  <2>2. IsSeq(s) /\ Len(s) = n - 1
    BY <1>1, Zenon DEF s
  <2>3. /\ IsSeq(types) /\ Len(types) = Len(s) + 1 /\ types[1] = u
        /\ \A k \in 2 .. (Len(s) + 1) : types[k] = s[k - 1]
    BY ONLY <2>1, <2>2, OneBefore
  <2>4. Len(s) + 1 = n
    BY <1>1, <2>2
  <2> QED
    BY <2>1, <2>3, <2>4, Zenon DEF s
<1>3. \A k \in 1 .. n : types[k] = ins[k]
  <2>1. \A k \in 1 .. n : k = 1 \/ (k \in 2 .. n /\ k - 1 \in 1 .. (n - 1) /\ (k - 1) + 1 = k)
    BY <1>1
  <2> HIDE DEF types
  <2> QED
    BY <1>1, <1>2, <2>1
<1>4. w.params = QuoteZip(names, types) /\ w.call = names
  BY WrapperFields, Zenon
<1> HIDE DEF types, w, names
<1>5. Full(w, sig) /\ \A k \in 1 .. n : w.params[k][2] = types[k]
  <2>1. AreNames(names, Len(sig.inputs))
    BY DEF names
  <2>2. Zipped(w, sig, names, types)
    BY <1>2, <1>4, <2>1, Zenon DEF Zipped
  <2> QED
    BY ONLY <2>2, FullFacts
<1>6. DOMAIN ins = 1 .. n
  BY SeqFacts
<1> QED
  BY <1>3, <1>5, <1>6 DEF w

\* The adapter of a channel.
LEMMA AdapterAdapts ==
  ASSUME NEW p, NEW sig, IsSeq(sig.inputs), NEW kind, ChannelOf(p, sig, kind)
  PROVE  /\ Adapts(to_adapter_fn(p), sig)
         /\ extractor_types(p) = [j \in 1 .. (Len(to_adapter_fn(p).params) - 1) |->
                                    to_adapter_fn(p).params[j + 1][2]]
<1> DEFINE ins == sig.inputs
           n == Len(ins)
           e == extractor_types(p)
           types == adapter_arg_types(p)
           w == to_adapter_fn(p)
           names == arg_names(p)
<1>1. /\ n \in Nat /\ n >= 2 /\ AreNames(names, n)
      /\ IsSeq(e) /\ Len(e) = n - 1 /\ e[n - 1] = WebsocketUpgrade
      /\ \A k \in 1 .. (n - 2) : e[k] = ins[k + 1]
      /\ types = Joined(<<p.rqctx_ty.server_impl>>, e)
      /\ Last(p.exclusive) = Last(ins)
  BY ChannelArgs, Zenon
<1> HIDE DEF e, types, names
<1>2. IsSeq(types) /\ Len(types) = n /\ \A k \in 2 .. n : types[k] = e[k - 1]
  <2> DEFINE u == p.rqctx_ty.server_impl
  <2>1. types = Joined(<<u>>, e) /\ IsSeq(e)
    BY <1>1, Zenon
  <2> HIDE DEF u
  <2>2. /\ IsSeq(types) /\ Len(types) = Len(e) + 1
        /\ \A k \in 2 .. (Len(e) + 1) : types[k] = e[k - 1]
    BY ONLY <2>1, OneBefore
  <2>3. Len(e) + 1 = n
    BY <1>1
  <2> QED
    BY <2>2, <2>3, Zenon
<1>3. w.params = QuoteZip(names, types) /\ w.call = names /\ w.conn = Last(ins)
  BY <1>1, WrapperFields, Zenon DEF names, types
<1> HIDE DEF w
<1>4. Full(w, sig) /\ \A k \in 1 .. n : w.params[k][2] = types[k]
  <2>1. Zipped(w, sig, names, types)
    BY <1>1, <1>2, <1>3, Zenon DEF Zipped
  <2> QED
    BY ONLY <2>1, FullFacts
<1>5. Len(w.params) = n
  BY <1>4 DEF Full
<1>6. Last(w.params)[2] = WebsocketUpgrade
  <2>1. Last(w.params) = w.params[n]
    BY <1>5 DEF Last
  <2>2. n \in 1 .. n /\ n \in 2 .. n
    BY <1>1
  <2> QED
    BY <1>1, <1>2, <1>4, <2>1, <2>2
<1>7. \A k \in 2 .. (Len(w.params) - 1) : w.params[k][2] = ins[k]
  <2> SUFFICES ASSUME NEW k \in 2 .. (n - 1) PROVE w.params[k][2] = ins[k]
    BY <1>5
  <2>1. k \in 1 .. n /\ k \in 2 .. n /\ k - 1 \in 1 .. (n - 2) /\ (k - 1) + 1 = k
    BY <1>1
  <2>2. w.params[k][2] = types[k] /\ types[k] = e[k - 1] /\ e[k - 1] = ins[(k - 1) + 1]
    BY <1>1, <1>2, <1>4, <2>1, Zenon
  <2> QED
    BY <2>1, <2>2, Zenon
<1>8. Adapts(w, sig)
  BY <1>3, <1>4, <1>6, <1>7, Zenon DEF Adapts
<1>9. e = [j \in 1 .. (Len(w.params) - 1) |-> w.params[j + 1][2]]
  <2>1. e = [j \in 1 .. (n - 1) |-> e[j]]
    <3>1. e = [j \in 1 .. Len(e) |-> e[j]]
      BY ONLY <1>1 DEF IsSeq
    <3> QED
      BY <1>1, <3>1, Zenon
  <2>2. \A j \in 1 .. (n - 1) : j + 1 \in 1 .. n /\ j + 1 \in 2 .. n /\ (j + 1) - 1 = j
    BY <1>1
  <2>3. \A j \in 1 .. (n - 1) : w.params[j + 1][2] = e[j]
    BY <1>2, <1>4, <2>2
  <2> QED
    BY <1>5, <2>1, <2>3
<1> QED
  BY <1>8, <1>9, Zenon DEF w, e

\* The wrappers are complete.
LEMMA InvWrappers ==
  ASSUME MacrosInv
  PROVE  WrappersComplete
<1> SUFFICES ASSUME Done, out # Panic
             PROVE  /\ (OnFunction /\ out.kind = "struct") => (out.from_impl # None =>
                         /\ Full(out.from_impl.impl, job.item.sig)
                         /\ \A k \in DOMAIN job.item.sig.inputs :
                              out.from_impl.impl.params[k][2] = job.item.sig.inputs[k]
                         /\ job.macro = "channel" => Adapts(out.from_impl.adapter, job.item.sig))
                    /\ ~OnFunction => \A j \in DOMAIN items : items[j].is = "channel" =>
                         Adapts(RegularEndpoint(items[j]).adapter, items[j].item.sig)
  BY Zenon DEF WrappersComplete, Full, Adapts
<1>1. ASSUME OnFunction, out.kind = "struct", out.from_impl # None
      PROVE  /\ Full(out.from_impl.impl, job.item.sig)
             /\ \A k \in DOMAIN job.item.sig.inputs :
                  out.from_impl.impl.params[k][2] = job.item.sig.inputs[k]
             /\ job.macro = "channel" => Adapts(out.from_impl.adapter, job.item.sig)
  <2> DEFINE sig == job.item.sig
             p == FnParams.val
  <2>1. PICK e0 : FunctionEnd(e0)
    BY <1>1 DEF MacrosInv, FunctionInv, Done
  <2>2. StructOK(e0)
    BY <1>1, <2>1 DEF FunctionEnd
  <2>3. /\ p # None /\ out.from_impl.impl = to_impl_checks(p) /\ job.item.parses
        /\ job.macro = "channel" => out.from_impl.adapter = to_adapter_fn(p)
    BY <1>1, <2>2 DEF StructOK
  <2>4. IsSig(sig)
    BY <1>1, <2>3 DEF MacrosInv, JobOK
  <2>5. IsSeq(sig.inputs)
    BY <2>4 DEF IsSig
  <2>6. CASE job.macro = "channel"
    <3>1. FnParams = ChannelParams(sig, None)
      BY <2>6, Zenon DEF FnParams
    <3>2. ChannelOf(p, sig, None)
      BY <2>3, <2>4, <3>1, ChannelJudged
    <3>3. /\ AreNames(arg_names(p), Len(sig.inputs)) /\ Len(sig.inputs) \in Nat /\ Len(sig.inputs) >= 2
          /\ arg_types(p) = Joined(<<p.rqctx_ty.unit>>, Tail(sig.inputs))
      BY <2>5, <3>2, ChannelArgs
    <3>4. sig.inputs # <<>> /\ p.rqctx_ty.unit = sig.inputs[1]
      BY <2>5, <3>2, <3>3, EmptyIsSeq DEF ChannelOf
    <3>5. /\ Full(to_impl_checks(p), sig)
          /\ \A k \in DOMAIN sig.inputs : to_impl_checks(p).params[k][2] = sig.inputs[k]
      BY <2>5, <3>3, <3>4, ImplIsFull
    <3>6. Adapts(to_adapter_fn(p), sig)
      BY <2>5, <3>2, AdapterAdapts
    <3> QED
      BY <2>3, <2>6, <3>5, <3>6
  <2>7. CASE job.macro # "channel"
    <3>1. FnParams = EndpointParams(sig, None)
      BY <2>7, Zenon DEF FnParams
    <3>2. EndpointOf(p, sig, None)
      BY <2>3, <2>4, <3>1, EndpointJudged
    <3>3. /\ AreNames(arg_names(p), Len(sig.inputs))
          /\ arg_types(p) = Joined(<<p.rqctx_ty.unit>>, Tail(sig.inputs))
      BY <2>5, <3>2, EndpointArgs
    <3>4. sig.inputs # <<>> /\ p.rqctx_ty.unit = sig.inputs[1]
      BY <3>2 DEF EndpointOf
    <3>5. /\ Full(to_impl_checks(p), sig)
          /\ \A k \in DOMAIN sig.inputs : to_impl_checks(p).params[k][2] = sig.inputs[k]
      BY <2>5, <3>3, <3>4, ImplIsFull
    <3> QED
      BY <2>3, <2>7, <3>5
  <2> QED
    BY <2>6, <2>7
<1>2. ASSUME ~OnFunction, NEW j \in DOMAIN items, items[j].is = "channel"
      PROVE  Adapts(RegularEndpoint(items[j]).adapter, items[j].item.sig)
  <2> DEFINE a == items[j]
  <2>1. Parsed
    <3>1. job.item.parses
      <4> SUFFICES ASSUME ~job.item.parses PROVE FALSE
        OBVIOUS
      <4>1. PICK e0 : TraitEnd(e0)
        BY <1>2 DEF MacrosInv, TraitInv, Done
      <4>2. items = <<>>
        BY <4>1 DEF TraitEnd
      <4> QED
        BY <4>2, EmptyIsSeq
    <3>2. ItemsOK /\ (metadata # None => Parsed)
      BY <1>2, <3>1, TraitDone
    <3>3. metadata # None
      <4> SUFFICES ASSUME metadata = None PROVE FALSE
        OBVIOUS
      <4>1. items = [k \in DOMAIN job.item.items |-> OtherItem(job.item.items[k])]
        BY <3>2 DEF ItemsOK
      <4>2. a.is = "Other"
        BY <4>1 DEF OtherItem
      <4> QED
        BY <1>2, <4>2
    <3> QED
      BY <3>2, <3>3
  <2>2. a \in Range(items)
    BY DEF Range
  <2>3. IsItem(a.item) /\ a.item.what = "fn" /\ FnApi(a, ErrsOf(a.item), a.item)
    BY <1>2, <2>1, <2>2, ManagedFacts
  <2>4. IsSeq(a.item.sig.inputs) /\ ChannelOf(a.params, a.item.sig, [context |-> ContextName])
    BY <1>2, <2>3 DEF IsItem, IsFn, IsSig, FnApi
  <2>5. RegularEndpoint(a).adapter = to_adapter_fn(a.params)
    BY <1>2, EndpointFields, Zenon
  <2>6. Adapts(to_adapter_fn(a.params), a.item.sig)
    BY <2>4, AdapterAdapts
  <2> QED
    BY <2>5, <2>6
<1> QED
  BY <1>1, <1>2

\* On every function or trait the macros panic on nothing but the name of a
\* module, context or marked method of which format_ident! can make no
\* identifier (api_trait.rs:264, 642, 1390, 1553); what they generate without
\* reporting an error registers every marked function, builds its versions,
\* unless an end of the range is a named constant, and passes every argument
\* on (endpoint.rs:171-337, channel.rs:323-525, api_trait.rs:739-781).
THEOREM ExpansionAlwaysWorks == Spec => []ExpansionWorks
<1>1. MacrosInv => ExpansionWorks
  BY InvTypes, InvClean, InvWrappers DEF ExpansionWorks
<1> QED
  BY InvHolds, <1>1, PTL

-----------------------------------------------------------------------------
(* The stub.                                                               *)

\* A registration without its handler and types.
Blank(e) == [e EXCEPT !.handler = "", !.types = <<>>]

\* But for the handler and its types, the builder depends on nothing else.
LEMMA BuilderSame ==
  ASSUME NEW meta, NEW name, NEW h1, NEW t1, NEW h2, NEW t2
  PROVE  Blank(to_api_endpoint_fn(meta, name, h1, t1)) = Blank(to_api_endpoint_fn(meta, name, h2, t2))
<1> DEFINE id == IF meta.operation_id = None THEN name ELSE meta.operation_id.id
           m == meta.method
           c == meta.content_type
           p == meta.path
           v == meta.versions
           pub == ~meta.unpublished
           b == meta.max_bytes
           r(h, t) == [operation_id |-> id, method |-> m, content_type |-> c, path |-> p,
                       versions |-> v, visible |-> pub, max_bytes |-> b,
                       handler |-> h, types |-> t]
<1>1. to_api_endpoint_fn(meta, name, h1, t1) = r(h1, t1) /\ to_api_endpoint_fn(meta, name, h2, t2) = r(h2, t2)
  BY Zenon DEF to_api_endpoint_fn
<1> HIDE DEF id, m, c, p, v, pub, b
<1> DEFINE D == {"operation_id", "method", "content_type", "path", "versions", "visible",
                 "max_bytes", "handler", "types"}
           a == [r(h1, t1) EXCEPT !.handler = "", !.types = <<>>]
           d == [r(h2, t2) EXCEPT !.handler = "", !.types = <<>>]
<1>2. /\ a = [f \in D |-> a[f]]
      /\ d = [f \in D |-> d[f]]
  OBVIOUS
<1>3. /\ a["operation_id"] = id /\ a["method"] = m /\ a["content_type"] = c /\ a["path"] = p
      /\ a["versions"] = v /\ a["visible"] = pub /\ a["max_bytes"] = b
      /\ a["handler"] = "" /\ a["types"] = <<>>
  OBVIOUS
<1>4. /\ d["operation_id"] = id /\ d["method"] = m /\ d["content_type"] = c /\ d["path"] = p
      /\ d["versions"] = v /\ d["visible"] = pub /\ d["max_bytes"] = b
      /\ d["handler"] = "" /\ d["types"] = <<>>
  OBVIOUS
<1> HIDE DEF a, d
<1>5. \A f \in D : a[f] = d[f]
  BY <1>3, <1>4
<1>6. a = d
  BY <1>2, <1>5
<1> HIDE DEF r
<1> QED
  BY <1>1, <1>6, Zenon DEF a, d, Blank

\* One registration of each kind for one function.
SameEndpoint(a, s, list) ==
  LET user == CHOOSE i \in Range(list) : i.ident = a.name
  IN /\ Blank(a.endpoint) = Blank(s.endpoint)
     /\ Front(s.endpoint.types) =
          IF a.adapter = None THEN Tail(user.sig.inputs)
          ELSE [j \in 1..(Len(a.adapter.params) - 1) |-> a.adapter.params[j + 1][2]]

\* A function is found by its identifier.
LEMMA UserIsItem ==
  ASSUME NEW list, AreItems(list), NEW item \in Range(list), item.what = "fn"
  PROVE  (CHOOSE i \in Range(list) : i.ident = item.ident) = item
<1>1. IsSeq(list) /\ \A k, m \in DOMAIN list : (list[k].what = "fn" /\ list[k].ident = list[m].ident) => k = m
  BY DEF AreItems
<1>2. PICK k \in DOMAIN list : list[k] = item
  BY DEF Range
<1>3. \A i \in Range(list) : i.ident = item.ident => i = item
  BY <1>1, <1>2 DEF Range
<1> QED
  BY <1>3

\* A managed item is described by the stub as the real factory serves it.
LEMMA ManagedSame ==
  ASSUME Parsed, NEW m \in Range(items), m.is \in {"endpoint", "channel"}
  PROVE  SameEndpoint(RegularEndpoint(m), StubEndpoint(m), job.item.items)
<1> DEFINE a == RegularEndpoint(m)
           s == StubEndpoint(m)
           list == job.item.items
           user == CHOOSE i \in Range(list) : i.ident = a.name
           sig == m.item.sig
           types == extractor_types(m.params)
<1>1. /\ m.item \in Range(list) /\ IsItem(m.item) /\ m.item.what = "fn"
      /\ FnApi(m, ErrsOf(m.item), m.item)
  BY ManagedFacts
<1>2. IsSeq(sig.inputs)
  BY <1>1 DEF IsItem, IsFn, IsSig
<1>3. user = m.item
  <2>1. AreItems(list) /\ a.name = m.item.ident
    BY EndpointFields DEF Parsed
  <2> QED
    BY <1>1, <2>1, UserIsItem
<1>4. PICK h, r : /\ a.endpoint = to_api_endpoint_fn(m.metadata, m.item.ident, h, <<>>)
                  /\ s.endpoint = to_api_endpoint_fn(m.metadata, m.item.ident, "stub", Joined(types, <<r>>))
  <2>1. CASE m.is = "channel"
    BY <2>1, EndpointFields
  <2>2. CASE m.is # "channel"
    BY <2>2, EndpointFields
  <2> QED
    BY <2>1, <2>2
<1>5. Blank(a.endpoint) = Blank(s.endpoint)
  BY <1>4, BuilderSame
<1>6. s.endpoint.types = Joined(types, <<r>>)
  BY <1>4, BuilderFields
<1>7. CASE m.is = "channel"
  <2> DEFINE w == to_adapter_fn(m.params)
             passed == [j \in 1..(Len(w.params) - 1) |-> w.params[j + 1][2]]
  <2>1. ChannelOf(m.params, sig, [context |-> ContextName])
    BY <1>1, <1>7 DEF FnApi
  <2>2. types = passed
    BY <1>2, <2>1, AdapterAdapts, Zenon
  <2>3. IsSeq(types)
    BY <1>2, <2>1, ChannelArgs, Zenon
  <2>4. a.adapter = w /\ w # None
    BY <1>7, EndpointFields, WrapperFields
  <2> HIDE DEF types, w
  <2>5. Front(Joined(types, <<r>>)) = types
    BY ONLY <2>3, OneBehind
  <2>6. Front(s.endpoint.types) = [j \in 1..(Len(a.adapter.params) - 1) |-> a.adapter.params[j + 1][2]]
    BY <1>6, <2>2, <2>4, <2>5, Zenon
  <2>7. a.adapter # None
    BY <2>4
  <2> QED
    BY <1>5, <2>6, <2>7, Zenon DEF SameEndpoint
<1>8. CASE m.is # "channel"
  <2>1. EndpointOf(m.params, sig, [context |-> ContextName])
    BY <1>1, <1>8 DEF FnApi
  <2>2. types = Tail(sig.inputs)
    BY <1>2, <2>1, EndpointArgs, Zenon
  <2>3. IsSeq(types)
    BY <1>2, <2>1, <2>2, TailFacts DEF EndpointOf
  <2>4. a.adapter = None
    BY <1>8, EndpointFields
  <2> HIDE DEF types
  <2>5. Front(Joined(types, <<r>>)) = types
    BY ONLY <2>3, OneBehind
  <2>6. Front(s.endpoint.types) = Tail(user.sig.inputs)
    BY <1>3, <1>6, <2>2, <2>5, Zenon
  <2> QED
    BY <1>5, <2>4, <2>6, Zenon DEF SameEndpoint
<1> QED
  BY <1>7, <1>8

\* The two factories agree.
LEMMA InvStub ==
  ASSUME MacrosInv
  PROVE  StubAgrees
<1> SUFFICES ASSUME Done, out # Panic, out.kind = "trait", out.module # None, ~out.module.empty
             PROVE  \/ out.module.api = Panic /\ out.module.stub = Panic
                    \/ /\ out.module.api.tag_config = out.module.stub.tag_config
                       /\ Len(out.module.api.register) = Len(out.module.stub.register)
                       /\ \A k \in DOMAIN out.module.api.register :
                            SameEndpoint(out.module.api.register[k], out.module.stub.register[k],
                                         job.item.items)
  BY Zenon DEF StubAgrees, SameEndpoint, Blank
<1>1. ~OnFunction
  BY DEF MacrosInv, FunctionInv, FunctionEnd, Done
<1>2. job.item.parses
  BY <1>1 DEF MacrosInv, TraitInv, TraitEnd, Done, Nothing
<1>3. out = TraitOut /\ (metadata # None => Parsed)
  BY <1>1, <1>2, TraitDone
<1>4. out.module = make_module
  BY <1>3, OutFields, Zenon
<1>5. metadata # None
  BY <1>4, ModuleFields, Zenon
<1>6. valid /\ context.is = "Valid"
  BY <1>4, <1>5, ModuleFields, Zenon
<1>7. Parsed
  BY <1>3, <1>5
<1>8. out.module.stub = make_api_factory_body(TRUE) /\ out.module.api = make_api_factory_body(FALSE)
  BY <1>4, <1>5, <1>6, ModuleFields, Zenon
<1>9. CASE HasInvalidFnItems
  BY <1>8, <1>9, FactoryFields, Zenon
<1>10. CASE ~HasInvalidFnItems
  <2> DEFINE A == Registered(FALSE)
             S == Registered(TRUE)
  <2>1. /\ make_api_factory_body(TRUE).tag_config = make_tag_config
        /\ make_api_factory_body(TRUE).register = S
        /\ make_api_factory_body(FALSE).tag_config = make_tag_config
        /\ make_api_factory_body(FALSE).register = A
    BY <1>10, FactoryFields, Zenon
  <2>2. /\ out.module.api.tag_config = out.module.stub.tag_config
        /\ out.module.api.register = A /\ out.module.stub.register = S
    BY <1>8, <2>1
  <2>3. Len(A) = Len(S) /\ DOMAIN A = DOMAIN Managed /\ DOMAIN Managed = 1 .. Len(Managed)
    BY <1>7, <1>10, RegisteredFacts
  <2>4. ASSUME NEW k \in DOMAIN A
        PROVE  SameEndpoint(A[k], S[k], job.item.items)
    <3>1. A[k] = RegularEndpoint(Managed[k]) /\ S[k] = StubEndpoint(Managed[k])
      BY <1>7, <1>10, <2>3, RegisteredFacts
    <3>2. Managed[k] \in Range(items) /\ Managed[k].is \in {"endpoint", "channel"}
      BY <1>7, <1>10, <2>3, ManagedAreMarked
    <3>3. SameEndpoint(RegularEndpoint(Managed[k]), StubEndpoint(Managed[k]), job.item.items)
      BY <1>7, <3>2, ManagedSame
    <3> QED
      BY <3>1, <3>3, Zenon
  <2> HIDE DEF A, S
  <2> QED
    BY <2>2, <2>3, <2>4, Zenon
<1> QED
  BY <1>9, <1>10

\* For every trait, the stub from which the OpenAPI document is made describes
\* the API that the real factory serves: the same endpoints, with the same
\* metadata and the types of the same arguments (api_trait.rs:1336-1368,
\* 1487-1531).
THEOREM StubAlwaysAgrees == Spec => []StubAgrees
<1>1. MacrosInv => StubAgrees
  BY InvStub
<1> QED
  BY InvHolds, <1>1, PTL

-----------------------------------------------------------------------------
(* Errors are laid at the right door.                                      *)

\* The function became an endpoint or a channel.
Taken(item) == \E j \in DOMAIN items : items[j].is \in {"endpoint", "channel"} /\ items[j].item = item

\* How an item of the trait is blamed, and when.
LEMMA ItemBlamed ==
  ASSUME Parsed, NEW item \in Range(job.item.items)
  PROVE  /\ IsItem(item) /\ IsSeq(ErrsOf(item))
         /\ \A e \in Range(ErrsOf(item)) :
              /\ e.about = item.ident /\ e.part \in {"marks", "metadata", "params"}
              /\ e.part = "params" => ItemKind(item) = "fn"
         /\ (ErrsOf(item) # <<>>) <=> /\ ItemKind(item) # "verbatim"
                                     /\ Recognized(item.attrs) # <<>>
                                     /\ ~Taken(item)
<1> DEFINE list == job.item.items
           kept == Filter(list, NotContext)
           errs == ErrsOf(item)
<1>1. IsItem(item)
  BY ParsedFacts
<1>2. /\ DOMAIN items = 1 .. Len(items)
      /\ \A j \in 1 .. Len(items) : items[j] = ApiOf(kept[j]) /\ items[j].item = kept[j]
  <2>1. IsSeq(items) /\ \A j \in 1 .. Len(items) : items[j] = ApiOf(kept[j]) /\ items[j].item = kept[j]
    BY ParsedFacts
  <2> QED
    BY <2>1, SeqFacts
<1>3. Taken(item) => ApiOf(item).is \in {"endpoint", "channel"}
  BY <1>2 DEF Taken
<1>4. CASE ItemKind(item) = "fn"
  <2>1. FnApi(ApiOf(item), errs, item)
    BY <1>1, <1>4, ItemFacts
  <2>2. ~IsContext(item)
    BY <1>4 DEF IsContext
  <2>3. PICK j \in 1 .. Len(items) : items[j] = ApiOf(item)
    BY <2>2, ParsedFacts
  <2>4. ApiOf(item).item = item
    BY <2>1 DEF FnApi
  <2>5. ApiOf(item).is \in {"endpoint", "channel"} => Taken(item)
    BY <1>2, <2>3, <2>4 DEF Taken
  <2>6. (errs # <<>>) <=> (Recognized(item.attrs) # <<>> /\ ~Taken(item))
    BY <1>3, <2>1, <2>5 DEF FnApi
  <2> QED
    BY <1>1, <1>4, <2>1, <2>6 DEF FnApi
<1>5. CASE ItemKind(item) # "fn"
  <2>1. ~Taken(item)
    <3>1. ApiOf(item).is = "Other"
      BY <1>1, <1>5, ItemFacts DEF OtherItem
    <3> QED
      BY <1>3, <3>1
  <2>2. CASE ItemKind(item) = "verbatim"
    <3>1. errs = <<>>
      BY <1>1, <2>2, ItemFacts
    <3> QED
      BY <1>1, <2>2, <3>1, EmptyIsSeq
  <2>3. CASE ItemKind(item) # "verbatim"
    <3>1. Blames(errs, item.ident, "marks") /\ ((errs = <<>>) <=> (Recognized(item.attrs) = <<>>))
      BY <1>1, <1>5, <2>3, ItemFacts
    <3> QED
      BY <1>1, <2>1, <2>3, <3>1 DEF Blames
  <2> QED
    BY <2>2, <2>3
<1> QED
  BY <1>4, <1>5

\* The errors of a parsed trait: those of its items, and others.
LEMMA TraitErrors ==
  ASSUME Parsed, NEW e0, TraitErrs(e0), errors = Joined(TraitUsage, e0)
  PROVE  /\ IsSeq(errors)
         /\ \A e \in Range(errors) :
              \/ e.about \in NoItem /\ e.part # "params"
              \/ \E item \in Range(job.item.items) : e \in Range(ErrsOf(item))
         /\ \A item \in Range(job.item.items) : Range(ErrsOf(item)) \subseteq Range(errors)
<1> DEFINE list == job.item.items
<1>1. IsSeq(list) /\ Len(list) \in Nat /\ DOMAIN list = 1 .. Len(list)
  BY SeqFacts DEF Parsed, AreItems
<1>2. IsSeq(e0)
  BY DEF TraitErrs
<1>3. IsSeq(errors) /\ Range(errors) = Range(TraitUsage) \cup Range(e0)
  BY <1>2, UsageIsSeq, JoinedFacts
<1>4. next - 1 = Len(list) /\ metadata # None
  BY <1>1 DEF Parsed
<1>5. ASSUME NEW e \in Range(e0)
      PROVE  \/ e.about \in NoItem /\ e.part # "params"
             \/ \E item \in Range(list) : e \in Range(ErrsOf(item))
  BY <1>1, <1>4 DEF TraitErrs, IsBase, Range
<1>6. ASSUME NEW e \in Range(TraitUsage)
      PROVE  e.about \in NoItem /\ e.part # "params"
  <2>1. \A k : UsageErr(k).about \in NoItem /\ UsageErr(k).part # "params"
    BY DEF UsageErr, Err, NoItem
  <2> DEFINE a == IF out.channel THEN <<UsageErr("channel")>> ELSE <<>>
             b == IF out.endpoint THEN <<UsageErr("endpoint")>> ELSE <<>>
  <2>2. TraitUsage = Joined(a, b)
    BY Zenon DEF TraitUsage
  <2>3. IsSeq(a) /\ Range(a) \subseteq {UsageErr("channel")}
    BY OneIsSeq, EmptyIsSeq
  <2>4. IsSeq(b) /\ Range(b) \subseteq {UsageErr("endpoint")}
    BY OneIsSeq, EmptyIsSeq
  <2> HIDE DEF a, b
  <2>5. Range(TraitUsage) = Range(a) \cup Range(b)
    BY <2>2, <2>3, <2>4, JoinedFacts
  <2> QED
    BY <2>1, <2>3, <2>4, <2>5
<1>7. ASSUME NEW item \in Range(list)
      PROVE  Range(ErrsOf(item)) \subseteq Range(errors)
  <2>1. PICK k \in 1 .. (next - 1) : item = list[k]
    BY <1>1, <1>4 DEF Range
  <2>2. \A e \in Range(ErrsOf(list[k])) : e \in Range(e0)
    BY <1>4, <2>1 DEF TraitErrs
  <2> QED
    BY <1>3, <2>1, <2>2
<1> QED
  BY <1>3, <1>5, <1>6, <1>7

\* Exactly the marked items that could not be taken are named by errors.
LEMMA InvBlame ==
  ASSUME MacrosInv
  PROVE  BlameExact
<1> SUFFICES ASSUME Done, ~OnFunction, metadata # None, job.item.parses,
                    NEW x \in {item.ident : item \in Range(job.item.items)}
             PROVE  (\E e \in 1..Len(errors) : errors[e].about = x)
                       <=> \E item \in Range(job.item.items) :
                             /\ item.ident = x
                             /\ ItemKind(item) # "verbatim"
                             /\ Recognized(item.attrs) # <<>>
                             /\ ~Taken(item)
  BY Zenon DEF BlameExact, Taken
<1> DEFINE all == Range(job.item.items)
<1>1. PICK e0 : TraitErrs(e0) /\ errors = Joined(TraitUsage, e0) /\ Parsed
  BY TraitDone
<1>2. /\ IsSeq(errors)
      /\ \A e \in Range(errors) :
           \/ e.about \in NoItem /\ e.part # "params"
           \/ \E item \in all : e \in Range(ErrsOf(item))
      /\ \A item \in all : Range(ErrsOf(item)) \subseteq Range(errors)
  BY <1>1, TraitErrors
<1>3. \A item \in all : ItemKind(item) # "verbatim" /\ Recognized(item.attrs) # <<>> /\ ~Taken(item)
                          <=> ErrsOf(item) # <<>>
  BY <1>1, ItemBlamed
<1>4. \A item \in all : \A e \in Range(ErrsOf(item)) : e.about = item.ident
  BY <1>1, ItemBlamed
<1>5. \A item \in all : (ErrsOf(item) # <<>>) <=> (\E e : e \in Range(ErrsOf(item)))
  <2> SUFFICES ASSUME NEW item \in all
               PROVE  (ErrsOf(item) # <<>>) <=> (\E e : e \in Range(ErrsOf(item)))
    OBVIOUS
  <2>1. IsSeq(ErrsOf(item))
    BY <1>1, ItemBlamed
  <2>2. (ErrsOf(item) = <<>>) <=> (Range(ErrsOf(item)) = {})
    BY <2>1, SeqFacts
  <2> QED
    BY <2>2
<1>6. x \notin NoItem
  <2>1. \A item \in all : item.ident \notin NoItem
    BY <1>1, ItemBlamed DEF IsItem
  <2> QED
    BY <2>1
<1>7. (\E e \in 1..Len(errors) : errors[e].about = x) <=> (\E e \in Range(errors) : e.about = x)
  BY <1>2, SeqFacts
<1>8. (\E e \in Range(errors) : e.about = x) <=> \E item \in all : item.ident = x /\ ErrsOf(item) # <<>>
  <2>1. ASSUME NEW e \in Range(errors), e.about = x
        PROVE  \E item \in all : item.ident = x /\ ErrsOf(item) # <<>>
    <3>1. PICK item \in all : e \in Range(ErrsOf(item))
      BY <1>2, <1>6, <2>1
    <3> QED
      BY <1>4, <1>5, <2>1, <3>1
  <2>2. ASSUME NEW item \in all, item.ident = x, ErrsOf(item) # <<>>
        PROVE  \E e \in Range(errors) : e.about = x
    <3>1. PICK e : e \in Range(ErrsOf(item))
      BY <1>5, <2>2
    <3> QED
      BY <1>2, <1>4, <2>2, <3>1
  <2> QED
    BY <2>1, <2>2
<1> QED
  BY <1>3, <1>7, <1>8

-----------------------------------------------------------------------------
(* The usage messages.                                                     *)

\* Which usage messages there are to be, and the errors that carry them.
UsageKinds(c, e) == Joined(IF c THEN <<"channel">> ELSE <<>>, IF e THEN <<"endpoint">> ELSE <<>>)

UsageErrs(c, e) ==
  Joined(IF c THEN <<UsageErr("channel")>> ELSE <<>>, IF e THEN <<UsageErr("endpoint")>> ELSE <<>>)

\* One and one.
LEMMA TwoJoined ==
  ASSUME NEW x, NEW y
  PROVE  Joined(<<x>>, <<y>>) = <<x, y>>
<1> DEFINE j == Joined(<<x>>, <<y>>)
           o == <<x>>
           p == <<x, y>>
<1>1. IsSeq(o) /\ Len(o) = 1 /\ o[1] = x
  BY OneIsSeq
<1>2. IsSeq(j) /\ Len(j) = 2 /\ j[1] = x /\ j[2] = y
  <2> HIDE DEF j, o
  <2>1. j = Joined(o, <<y>>)
    BY DEF j, o
  <2>2. IsSeq(j) /\ Len(j) = Len(o) + 1
    BY ONLY <1>1, <2>1, OneBehind
  <2>3. j[Len(o) + 1] = y
    BY ONLY <1>1, <2>1, OneBehind
  <2>4. \A k \in 1 .. Len(o) : j[k] = o[k]
    BY ONLY <1>1, <2>1, OneBehind
  <2>5. 1 \in 1 .. Len(o) /\ Len(o) + 1 = 2
    BY <1>1
  <2> QED
    BY <1>1, <2>2, <2>3, <2>4, <2>5
<1>3. Len(p) = 2 /\ p[1] = x /\ p[2] = y /\ p \in Seq({x, y})
  OBVIOUS
<1>4. IsSeq(p)
  BY <1>3, SeqIsSeq
<1> HIDE DEF j, o, p
<1>5. \A k \in 1 .. 2 : j[k] = p[k]
  BY <1>2, <1>3
<1>6. j = p
  BY <1>2, <1>3, <1>4, <1>5, SeqSame
<1> QED
  BY <1>6 DEF j, p

\* The usage messages are those of the kinds at fault, in order.
LEMMA UsageMapped ==
  ASSUME NEW c \in BOOLEAN, NEW e \in BOOLEAN
  PROVE  /\ IsSeq(UsageErrs(c, e)) /\ Len(UsageErrs(c, e)) = Len(UsageKinds(c, e))
         /\ [k \in 1..Len(UsageKinds(c, e)) |-> UsageErr(UsageKinds(c, e)[k])] = UsageErrs(c, e)
<1> DEFINE a == UsageErr("channel")
           b == UsageErr("endpoint")
<1>1. IsSeq(<<>>) /\ IsSeq(<<a>>) /\ IsSeq(<<b>>)
  BY OneIsSeq, EmptyIsSeq, Zenon
<1>2. IsSeq(UsageErrs(c, e))
  <2> DEFINE x == IF c THEN <<a>> ELSE <<>>
             y == IF e THEN <<b>> ELSE <<>>
  <2>1. IsSeq(x) /\ IsSeq(y)
    BY <1>1, Zenon
  <2>2. UsageErrs(c, e) = Joined(x, y)
    BY Zenon DEF UsageErrs
  <2> HIDE DEF x, y
  <2> QED
    BY <2>1, <2>2, JoinedFacts
<1>3. CASE c /\ e
  <2>1. UsageKinds(c, e) = Joined(<<"channel">>, <<"endpoint">>) /\ UsageErrs(c, e) = Joined(<<a>>, <<b>>)
    BY <1>3, Zenon DEF UsageKinds, UsageErrs
  <2>2. UsageKinds(c, e) = <<"channel", "endpoint">> /\ UsageErrs(c, e) = <<a, b>>
    BY <2>1, TwoJoined, Zenon
  <2>3. Len(UsageKinds(c, e)) = 2 /\ UsageKinds(c, e)[1] = "channel" /\ UsageKinds(c, e)[2] = "endpoint"
    BY <2>2
  <2>4. [k \in 1..2 |-> UsageErr(UsageKinds(c, e)[k])] = <<a, b>>
    BY <2>3
  <2>5. Len(<<a, b>>) = 2
    OBVIOUS
  <2> QED
    BY <1>2, <2>2, <2>3, <2>4, <2>5, Zenon
<1>4. CASE c /\ ~e
  <2>1. UsageKinds(c, e) = Joined(<<"channel">>, <<>>) /\ UsageErrs(c, e) = Joined(<<a>>, <<>>)
    BY <1>4, Zenon DEF UsageKinds, UsageErrs
  <2>2. UsageKinds(c, e) = <<"channel">> /\ UsageErrs(c, e) = <<a>>
    <3>1. IsSeq(<<"channel">>)
      BY OneIsSeq
    <3>2. Joined(<<"channel">>, <<>>) = <<"channel">>
      BY <3>1, JoinedNothing, Zenon
    <3>3. Joined(<<a>>, <<>>) = <<a>>
      BY <1>1, JoinedNothing, Zenon
    <3> QED
      BY <2>1, <3>2, <3>3, Zenon
  <2>3. Len(UsageKinds(c, e)) = 1 /\ UsageKinds(c, e)[1] = "channel"
    BY <2>2
  <2>4. [k \in 1..1 |-> UsageErr(UsageKinds(c, e)[k])] = <<a>>
    BY <2>3
  <2>5. Len(<<a>>) = 1
    OBVIOUS
  <2> QED
    BY <1>2, <2>2, <2>3, <2>4, <2>5, Zenon
<1>5. CASE ~c /\ e
  <2>1. UsageKinds(c, e) = Joined(<<>>, <<"endpoint">>) /\ UsageErrs(c, e) = Joined(<<>>, <<b>>)
    BY <1>5, Zenon DEF UsageKinds, UsageErrs
  <2>2. UsageKinds(c, e) = <<"endpoint">> /\ UsageErrs(c, e) = <<b>>
    <3>1. IsSeq(<<"endpoint">>)
      BY OneIsSeq
    <3> QED
      BY <1>1, <2>1, <3>1, JoinedEmpty
  <2>3. Len(UsageKinds(c, e)) = 1 /\ UsageKinds(c, e)[1] = "endpoint"
    BY <2>2
  <2>4. [k \in 1..1 |-> UsageErr(UsageKinds(c, e)[k])] = <<b>>
    BY <2>3
  <2>5. Len(<<b>>) = 1
    OBVIOUS
  <2> QED
    BY <1>2, <2>2, <2>3, <2>4, <2>5, Zenon
<1>6. CASE ~c /\ ~e
  <2>1. UsageKinds(c, e) = Joined(<<>>, <<>>) /\ UsageErrs(c, e) = Joined(<<>>, <<>>)
    BY <1>6, Zenon DEF UsageKinds, UsageErrs
  <2>2. UsageKinds(c, e) = <<>> /\ UsageErrs(c, e) = <<>>
    BY <1>1, <2>1, JoinedEmpty
  <2>3. Len(UsageKinds(c, e)) = 0
    BY <2>2
  <2>4. [k \in 1..0 |-> UsageErr(UsageKinds(c, e)[k])] = <<>>
    OBVIOUS
  <2> QED
    BY <1>2, <2>2, <2>3, <2>4, EmptyIsSeq, Zenon
<1> QED
  BY <1>3, <1>4, <1>5, <1>6

\* The errors begin with these usage messages, and have no others.
UsageShown(s, usage) ==
  /\ [k \in 1..Len(usage) |-> UsageErr(usage[k])] = SubSeq(s, 1, Len(usage))
  /\ \A i \in (Len(usage) + 1)..Len(s) : s[i].part # "usage"

\* The usage messages are the first ones.
LEMMA UsageFirst ==
  ASSUME NEW c \in BOOLEAN, NEW e \in BOOLEAN, NEW e0, IsSeq(e0),
         \A x \in Range(e0) : x.part # "usage",
         NEW s, s = Joined(UsageErrs(c, e), e0)
  PROVE  UsageShown(s, UsageKinds(c, e))
<1> DEFINE u == UsageErrs(c, e)
           n == Len(u)
<1>1. /\ IsSeq(u) /\ Len(UsageKinds(c, e)) = n
      /\ [k \in 1..n |-> UsageErr(UsageKinds(c, e)[k])] = u
  BY UsageMapped
<1> HIDE DEF u
<1>2. n \in Nat /\ Len(e0) \in Nat
  BY <1>1, SeqFacts
<1>3. IsSeq(s) /\ Len(s) = n + Len(e0) /\ \A i \in 1 .. n : s[i] = u[i]
  BY <1>1, JoinedFacts DEF u
<1>4. Part(s, 1, n) = u
  <2> DEFINE m == 1
  <2>1. m \in 1 .. (Len(s) + 1) /\ n \in (m - 1) .. Len(s) /\ n - m + 1 = n
    BY <1>2, <1>3
  <2>2. \A i \in 1 .. n : m + i - 1 = i
    BY <1>2
  <2> HIDE DEF m
  <2>3. /\ IsSeq(Part(s, m, n)) /\ Len(Part(s, m, n)) = n - m + 1
        /\ \A i \in 1 .. (n - m + 1) : Part(s, m, n)[i] = s[m + i - 1]
    BY <1>3, <2>1, PartFacts, Zenon
  <2>4. IsSeq(Part(s, m, n)) /\ Len(Part(s, m, n)) = n /\ \A i \in 1 .. n : Part(s, m, n)[i] = s[m + i - 1]
    BY <2>1, <2>3, Zenon
  <2>5. \A i \in 1 .. n : Part(s, m, n)[i] = u[i]
    BY <1>3, <2>2, <2>4
  <2>6. Part(s, m, n) = u
    BY <1>1, <2>4, <2>5, SeqSame
  <2> QED
    BY <2>6 DEF m
<1>5. \A i \in (n + 1) .. Len(s) : s[i].part # "usage"
  <2> SUFFICES ASSUME NEW i \in (n + 1) .. Len(s) PROVE s[i].part # "usage"
    OBVIOUS
  <2>1. i \in (n + 1) .. (n + Len(e0)) /\ i - n \in 1 .. Len(e0)
    BY <1>2, <1>3
  <2>2. \A k \in (n + 1) .. (n + Len(e0)) : Joined(u, e0)[k] = e0[k - n]
    BY <1>1, JoinedAt, Zenon
  <2>3. s[i] = e0[i - n]
    BY <2>1, <2>2 DEF u
  <2>4. e0[i - n] \in Range(e0)
    BY <2>1, SeqFacts
  <2> QED
    BY <2>3, <2>4
<1>6. SubSeq(s, 1, n) = u
  BY <1>4, Zenon DEF Part
<1> QED
  BY <1>1, <1>5, <1>6, Zenon DEF UsageShown

\* The parameters of a handler of this kind are at fault.
AtFault(kind) ==
  \E e \in 1..Len(errors) : errors[e].part = "params" /\
    IF OnFunction THEN job.macro = kind
    ELSE \E k \in DOMAIN job.item.items :
           /\ job.item.items[k].ident = errors[e].about
           /\ Paths(Recognized(job.item.items[k].attrs)) = <<kind>>

\* A fault of a function's parameters.
LEMMA FunctionFault ==
  ASSUME OnFunction, NEW e0, FunctionEnd(e0), errors = Joined(FnUsage, e0), NEW kind
  PROVE  AtFault(kind) <=> (out.params /\ job.macro = kind)
<1>1. IsSeq(e0)
  BY DEF FunctionEnd
<1>2. IsSeq(errors) /\ Range(errors) = Range(FnUsage) \cup Range(e0)
  BY <1>1, UsageIsSeq, JoinedFacts
<1>3. \A x \in Range(FnUsage) : x.part # "params"
  <2>1. \A k : UsageErr(k).part # "params"
    BY DEF UsageErr, Err
  <2>2. Range(FnUsage) \subseteq {UsageErr(job.macro)}
    BY OneIsSeq, EmptyIsSeq DEF FnUsage
  <2> QED
    BY <2>1, <2>2
<1>4. Faults(errors) <=> Faults(e0)
  BY <1>2, <1>3 DEF Faults
<1>5. out.params <=> Faults(e0)
  BY DEF FunctionEnd, StructOK
<1>6. AtFault(kind) <=> (Faults(errors) /\ job.macro = kind)
  <2>1. AtFault(kind) <=> \E e \in 1..Len(errors) : errors[e].part = "params" /\ job.macro = kind
    BY Zenon DEF AtFault
  <2>2. Faults(errors) <=> \E e \in 1..Len(errors) : errors[e].part = "params"
    BY <1>2, SeqFacts DEF Faults
  <2> QED
    BY <2>1, <2>2
<1> QED
  BY <1>4, <1>5, <1>6

\* A fault of the parameters of a trait's function.
LEMMA TraitFault ==
  ASSUME Parsed, NEW e0, TraitErrs(e0), errors = Joined(TraitUsage, e0), NEW kind
  PROVE  AtFault(kind) <=> ParamErrors(kind)
<1> DEFINE list == job.item.items
           all == Range(list)
<1>1. /\ IsSeq(errors)
      /\ \A e \in Range(errors) :
           \/ e.about \in NoItem /\ e.part # "params"
           \/ \E item \in all : e \in Range(ErrsOf(item))
      /\ \A item \in all : Range(ErrsOf(item)) \subseteq Range(errors)
  BY TraitErrors
<1>2. ~OnFunction /\ AreItems(list)
  BY DEF Parsed
<1>3. AtFault(kind) <=> \E e \in Range(errors) : /\ e.part = "params"
                                                /\ \E k \in DOMAIN list :
                                                     /\ list[k].ident = e.about
                                                     /\ Paths(Recognized(list[k].attrs)) = <<kind>>
  <2> DEFINE P(e) == /\ e.part = "params"
                     /\ \E k \in DOMAIN list : /\ list[k].ident = e.about
                                               /\ Paths(Recognized(list[k].attrs)) = <<kind>>
  <2>1. AtFault(kind) <=> \E i \in 1..Len(errors) : P(errors[i])
    BY <1>2, Zenon DEF AtFault
  <2>2. /\ \A x \in Range(errors) : \E i \in 1 .. Len(errors) : errors[i] = x
        /\ \A i \in 1 .. Len(errors) : errors[i] \in Range(errors)
    BY <1>1, SeqFacts
  <2> HIDE DEF P
  <2>3. (\E i \in 1..Len(errors) : P(errors[i])) <=> (\E e \in Range(errors) : P(e))
    BY <2>2
  <2> QED
    BY <2>1, <2>3, Zenon DEF P
<1>4. ASSUME NEW e \in Range(errors), e.part = "params",
             NEW k \in DOMAIN list, list[k].ident = e.about,
             Paths(Recognized(list[k].attrs)) = <<kind>>
      PROVE  ParamErrors(kind)
  <2>1. PICK item \in all : e \in Range(ErrsOf(item))
    BY <1>1, <1>4
  <2>2. /\ IsItem(item) /\ e.about = item.ident /\ ItemKind(item) = "fn" /\ IsSeq(ErrsOf(item))
    BY <1>4, <2>1, ItemBlamed
  <2>3. item.what = "fn" /\ FnApi(ApiOf(item), ErrsOf(item), item)
    BY <2>2, ItemFacts
  <2>4. item = list[k]
    <3>1. PICK m \in DOMAIN list : list[m] = item
      BY <2>1 DEF Range
    <3>2. \A i, j \in DOMAIN list : (list[i].what = "fn" /\ list[i].ident = list[j].ident) => i = j
      BY <1>2 DEF AreItems
    <3>3. m = k
      BY <1>4, <2>2, <2>3, <3>1, <3>2
    <3> QED
      BY <3>1, <3>3
  <2>5. ErrsOf(item) # <<>> /\ Faults(ErrsOf(item))
    BY <1>4, <2>1, EmptyIsSeq DEF Faults
  <2>6. /\ ApiOf(item).is = "Invalid" /\ ApiOf(item).params
        /\ Paths(Recognized(item.attrs)) = <<ApiOf(item).kind>>
    BY <2>3, <2>5 DEF FnApi
  <2>7. ApiOf(item).kind = kind
    <3>1. <<ApiOf(item).kind>> = <<kind>>
      BY <1>4, <2>4, <2>6
    <3> QED
      BY <3>1
  <2>8. PICK j \in 1 .. Len(items) : items[j] = ApiOf(item)
    <3>1. ~IsContext(item)
      BY <2>2 DEF IsContext
    <3> QED
      BY <3>1, ParsedFacts
  <2>9. j \in DOMAIN items
    BY <2>8, ParsedFacts, SeqFacts
  <2> QED
    BY <2>6, <2>7, <2>8, <2>9 DEF ParamErrors
<1>5. ASSUME NEW j \in DOMAIN items, items[j].is = "Invalid", items[j].kind = kind, items[j].params
      PROVE  \E e \in Range(errors) : /\ e.part = "params"
                                      /\ \E k \in DOMAIN list :
                                           /\ list[k].ident = e.about
                                           /\ Paths(Recognized(list[k].attrs)) = <<kind>>
  <2> DEFINE a == items[j]
  <2>1. a \in Range(items)
    BY DEF Range
  <2>2. a.item \in all /\ FnApi(a, ErrsOf(a.item), a.item)
    BY <1>5, <2>1, ManagedFacts
  <2>3. Faults(ErrsOf(a.item)) /\ Paths(Recognized(a.item.attrs)) = <<kind>>
    BY <1>5, <2>2 DEF FnApi
  <2>4. PICK e \in Range(ErrsOf(a.item)) : e.part = "params"
    BY <2>3 DEF Faults
  <2>5. e \in Range(errors) /\ e.about = a.item.ident
    BY <1>1, <2>2, <2>4 DEF FnApi
  <2>6. PICK k \in DOMAIN list : list[k] = a.item
    BY <2>2 DEF Range
  <2> QED
    BY <2>3, <2>4, <2>5, <2>6
<1> QED
  BY <1>3, <1>4, <1>5 DEF ParamErrors

\* The usage message of a function's macro.
LEMMA FnUsageIs ==
  ASSUME NEW c \in BOOLEAN, NEW e \in BOOLEAN, job.macro \in {"endpoint", "channel"},
         c <=> (out.params /\ job.macro = "channel"), e <=> (out.params /\ job.macro = "endpoint")
  PROVE  FnUsage = UsageErrs(c, e)
<1>1. \A x : IsSeq(<<>>) /\ IsSeq(<<x>>)
  BY OneIsSeq, EmptyIsSeq, Zenon
<1>2. CASE ~out.params
  <2>1. FnUsage = <<>>
    BY <1>2, Zenon DEF FnUsage
  <2>2. UsageErrs(c, e) = Joined(<<>>, <<>>)
    BY <1>2, Zenon DEF UsageErrs
  <2> QED
    BY <1>1, <2>1, <2>2, JoinedEmpty, Zenon
<1>3. CASE out.params /\ job.macro = "channel"
  <2>1. c /\ ~e
    BY <1>3
  <2>2. FnUsage = <<UsageErr("channel")>>
    BY <1>3, Zenon DEF FnUsage
  <2>3. UsageErrs(c, e) = Joined(<<UsageErr("channel")>>, <<>>)
    BY <2>1, Zenon DEF UsageErrs
  <2> QED
    BY <1>1, <2>2, <2>3, JoinedNothing, Zenon
<1>4. CASE out.params /\ job.macro = "endpoint"
  <2>1. ~c /\ e
    BY <1>4
  <2>2. FnUsage = <<UsageErr("endpoint")>>
    BY <1>4, Zenon DEF FnUsage
  <2>3. UsageErrs(c, e) = Joined(<<>>, <<UsageErr("endpoint")>>)
    BY <2>1, Zenon DEF UsageErrs
  <2> QED
    BY <1>1, <2>2, <2>3, JoinedEmpty, Zenon
<1> QED
  BY <1>2, <1>3, <1>4

\* Nothing is at fault when no error is about parameters.
LEMMA NoFault ==
  ASSUME NEW s, IsSeq(s), errors = s, \A x \in Range(s) : x.part # "params", NEW kind
  PROVE  ~AtFault(kind)
<1>1. \A i \in 1 .. Len(s) : s[i] \in Range(s)
  BY SeqFacts
<1>2. \A i \in 1 .. Len(errors) : errors[i].part # "params"
  BY <1>1
<1> QED
  BY <1>2, Zenon DEF AtFault

\* A usage message for each kind at fault, first of all.
LEMMA InvUsage ==
  ASSUME MacrosInv
  PROVE  UsageExact
<1> DEFINE usage == UsageKinds(AtFault("channel"), AtFault("endpoint"))
<1> SUFFICES ASSUME Done
             PROVE  UsageShown(errors, usage)
  BY Zenon DEF UsageExact, UsageKinds, AtFault, Joined, UsageShown
<1>1. AtFault("channel") \in BOOLEAN /\ AtFault("endpoint") \in BOOLEAN
  BY Zenon DEF AtFault
<1>2. PICK e0 : /\ IsSeq(e0) /\ \A x \in Range(e0) : x.part # "usage"
                /\ errors = Joined(UsageErrs(AtFault("channel"), AtFault("endpoint")), e0)
  <2>1. CASE OnFunction
    <3>1. PICK e0 : FunctionEnd(e0) /\ errors = Joined(FnUsage, e0)
      BY <2>1 DEF MacrosInv, FunctionInv, Done
    <3>2. \A kind : AtFault(kind) <=> (out.params /\ job.macro = kind)
      BY <2>1, <3>1, FunctionFault
    <3>3. job.macro \in {"endpoint", "channel"}
      BY <2>1 DEF OnFunction
    <3>4. FnUsage = UsageErrs(AtFault("channel"), AtFault("endpoint"))
      BY <1>1, <3>2, <3>3, FnUsageIs
    <3> QED
      BY <3>1, <3>4 DEF FunctionEnd
  <2>2. CASE ~OnFunction /\ job.item.parses
    <3>1. PICK e0 : /\ ItemsOK /\ TraitErrs(e0) /\ out = TraitOut
                    /\ errors = Joined(TraitUsage, e0)
                    /\ metadata # None => Parsed
      BY <2>2, TraitDone
    <3>2. IsSeq(e0)
      BY <3>1 DEF TraitErrs
    <3>3. /\ out.endpoint <=> (metadata # None /\ ParamErrors("endpoint"))
          /\ out.channel <=> (metadata # None /\ ParamErrors("channel"))
      BY <3>1, OutFields, Zenon
    <3>4. \A x \in Range(e0) : x.part # "usage"
      <4>1. CASE metadata = None
        BY <3>1, <4>1 DEF TraitErrs, IsBase
      <4>2. CASE metadata # None
        <5> SUFFICES ASSUME NEW x \in Range(e0) PROVE x.part # "usage"
          OBVIOUS
        <5>1. CASE IsBase(x)
          BY <5>1 DEF IsBase
        <5>2. CASE ~IsBase(x)
          <6>1. PICK k \in 1 .. (next - 1) : x \in Range(ErrsOf(job.item.items[k]))
            BY <3>1, <5>2 DEF TraitErrs
          <6>2. Parsed
            BY <3>1, <4>2
          <6>3. IsSeq(job.item.items) /\ next - 1 = Len(job.item.items)
            BY <6>2, SeqFacts DEF Parsed, AreItems
          <6>4. job.item.items[k] \in Range(job.item.items)
            BY <6>1, <6>3, SeqFacts
          <6> QED
            BY <6>1, <6>2, <6>4, ItemBlamed
        <5> QED
          BY <5>1, <5>2
      <4> QED
        BY <4>1, <4>2
    <3>5. (out.channel <=> AtFault("channel")) /\ (out.endpoint <=> AtFault("endpoint"))
      <4>1. CASE metadata = None
        <5>1. \A x \in Range(e0) : x.part # "params"
          BY <3>1, <4>1 DEF TraitErrs, IsBase
        <5>2. TraitUsage = Joined(<<>>, <<>>)
          BY <3>3, <4>1, Zenon DEF TraitUsage
        <5>3. errors = e0
          BY <3>1, <3>2, <5>2, EmptyIsSeq, JoinedEmpty
        <5>4. \A kind : ~AtFault(kind)
          BY <3>2, <5>1, <5>3, NoFault, Zenon
        <5> QED
          BY <3>3, <4>1, <5>4
      <4>2. CASE metadata # None
        <5>1. \A kind : AtFault(kind) <=> ParamErrors(kind)
          BY <3>1, <4>2, TraitFault
        <5> QED
          BY <3>3, <4>2, <5>1
      <4> QED
        BY <4>1, <4>2
    <3>6. TraitUsage = UsageErrs(AtFault("channel"), AtFault("endpoint"))
      BY <3>5, Zenon DEF TraitUsage, UsageErrs
    <3> QED
      BY <3>1, <3>2, <3>4, <3>6
  <2>3. CASE ~OnFunction /\ ~job.item.parses
    <3>1. PICK e0 : TraitEnd(e0) /\ errors = Joined(FnUsage, e0)
      BY <2>3, Zenon DEF MacrosInv, TraitInv, Done
    <3>2. IsSeq(e0) /\ out = Nothing /\ \A x \in Range(e0) : x.part \notin {"params", "usage"}
      BY <2>3, <3>1 DEF TraitEnd, BaseErrs, IsBase
    <3>3. FnUsage = <<>>
      BY <3>2 DEF FnUsage, Nothing
    <3>4. errors = e0
      BY <3>1, <3>2, <3>3, JoinedEmpty
    <3>5. ~AtFault("channel") /\ ~AtFault("endpoint")
      <4>1. \A x \in Range(e0) : x.part # "params"
        BY <3>2
      <4> QED
        BY <3>2, <3>4, <4>1, NoFault, Zenon
    <3>6. UsageErrs(AtFault("channel"), AtFault("endpoint")) = Joined(<<>>, <<>>)
      BY <3>5, Zenon DEF UsageErrs
    <3>7. UsageErrs(AtFault("channel"), AtFault("endpoint")) = <<>>
      BY <3>6, EmptyIsSeq, JoinedEmpty
    <3> QED
      BY <3>1, <3>2, <3>3, <3>7
  <2> QED
    BY <2>1, <2>2, <2>3
<1> DEFINE c == AtFault("channel")
           f == AtFault("endpoint")
<1> HIDE DEF c, f
<1>3. c \in BOOLEAN /\ f \in BOOLEAN /\ errors = Joined(UsageErrs(c, f), e0) /\ usage = UsageKinds(c, f)
  BY <1>1, <1>2, Zenon DEF c, f
<1> HIDE DEF usage
<1> QED
  BY <1>2, <1>3, UsageFirst

-----------------------------------------------------------------------------
(* Nothing is lost.                                                        *)

\* The outer attributes that are not the macro's.
Others(attrs) == Filter(attrs, {a \in Range(attrs) : ~a.inner /\ ~IsMark(a)})

\* They survive whatever leaves them alone.
LEMMA OthersKept ==
  ASSUME NEW s, IsSeq(s), NEW S, \A a \in Range(s) : ~a.inner /\ ~IsMark(a) => a \in S
  PROVE  Others(Filter(s, S)) = Others(s)
<1> DEFINE f == Filter(s, S)
           T == {a \in Range(f) : ~a.inner /\ ~IsMark(a)}
           U == {a \in Range(s) : ~a.inner /\ ~IsMark(a)}
<1>1. Range(f) = Range(s) \cap S
  BY FilterFacts
<1>2. \A x \in Range(s) : x \in S \cap T <=> x \in U
  BY <1>1
<1>3. Filter(f, T) = Filter(s, S \cap T)
  <2> HIDE DEF T
  <2> QED
    BY FilterTwice
<1>4. Filter(s, S \cap T) = Filter(s, U)
  <2> HIDE DEF T, U
  <2> QED
    BY <1>2, FilterSame
<1> QED
  BY <1>3, <1>4, Zenon DEF Others

\* Stripping the marks loses no other attribute.
LEMMA StripKeeps ==
  ASSUME NEW s, IsSeq(s)
  PROVE  IsSeq(strip_recognized_attrs(s)) /\ Others(strip_recognized_attrs(s)) = Others(s)
<1> DEFINE S == {a \in Range(s) : ~IsMark(a)}
<1>1. strip_recognized_attrs(s) = Filter(s, S)
  BY Zenon DEF strip_recognized_attrs
<1>2. \A a \in Range(s) : ~a.inner /\ ~IsMark(a) => a \in S
  OBVIOUS
<1> HIDE DEF S
<1> QED
  BY <1>1, <1>2, FilterFacts, OthersKept

\* What is printed of an item.
LEMMA PrintedFacts ==
  ASSUME NEW item, {"ident", "attrs"} \subseteq DOMAIN item, IsSeq(item.attrs)
  PROVE  Printed(item).ident = item.ident /\ Others(Printed(item).attrs) = Others(item.attrs)
<1>1. CASE ItemKind(item) # "fn"
  <2>1. Printed(item) = item
    BY <1>1, Zenon DEF Printed
  <2> QED
    BY <2>1
<1>2. CASE ItemKind(item) = "fn"
  <2> DEFINE S == {a \in Range(item.attrs) : ~a.inner}
             f == Filter(item.attrs, S)
             p == [item EXCEPT !.attrs = f]
  <2>1. Printed(item) = p
    BY <1>2, Zenon DEF Printed
  <2>2. Others(f) = Others(item.attrs)
    <3>1. \A a \in Range(item.attrs) : ~a.inner /\ ~IsMark(a) => a \in S
      OBVIOUS
    <3> HIDE DEF S
    <3> QED
      BY <3>1, OthersKept
  <2> HIDE DEF f
  <2>3. p.ident = item.ident /\ p.attrs = f
    OBVIOUS
  <2> HIDE DEF p
  <2> QED
    BY <2>1, <2>2, <2>3
<1> QED
  BY <1>1, <1>2

\* What becomes of an item keeps its identifier and the others' attributes.
LEMMA OutItemFacts ==
  ASSUME NEW api, IsItem(api.item), api.is \in {"endpoint", "channel"} => api.item.what = "fn"
  PROVE  /\ to_out_trait_item(api).ident = api.item.ident
         /\ Others(to_out_trait_item(api).attrs) = Others(api.item.attrs)
<1> DEFINE item == api.item
           st == strip_recognized_attrs(item.attrs)
<1>1. {"what", "ident", "vis", "default", "generics", "attrs"} \subseteq DOMAIN item /\ IsSeq(item.attrs)
  BY DEF IsItem
<1>2. IsSeq(st) /\ Others(st) = Others(item.attrs)
  BY <1>1, StripKeeps
<1> HIDE DEF st
<1>3. CASE api.is \in {"endpoint", "channel"}
  <2> DEFINE t == transform_signature(item)
  <2>2. to_out_trait_item(api) = Printed(t)
    BY <1>3, Zenon DEF to_out_trait_item
  <2>3. {"ident", "attrs"} \subseteq DOMAIN t /\ t.ident = item.ident /\ t.attrs = st
    BY <1>1 DEF transform_signature, st
  <2> HIDE DEF t
  <2>4. Printed(t).ident = t.ident /\ Others(Printed(t).attrs) = Others(t.attrs)
    BY <1>2, <2>3, PrintedFacts
  <2> QED
    BY <1>2, <2>2, <2>3, <2>4
<1>4. CASE api.is \notin {"endpoint", "channel"} /\ ItemKind(item) = "verbatim"
  <2>1. to_out_trait_item(api) = Printed(item)
    BY <1>4, Zenon DEF to_out_trait_item
  <2> QED
    BY <1>1, <2>1, PrintedFacts
<1>5. CASE api.is \notin {"endpoint", "channel"} /\ ItemKind(item) # "verbatim"
  <2> DEFINE t == [item EXCEPT !.attrs = st]
  <2>1. to_out_trait_item(api) = Printed(t)
    BY <1>5, Zenon DEF to_out_trait_item, st
  <2>2. {"ident", "attrs"} \subseteq DOMAIN t /\ t.ident = item.ident /\ t.attrs = st
    BY <1>1
  <2> HIDE DEF t
  <2>3. Printed(t).ident = t.ident /\ Others(Printed(t).attrs) = Others(t.attrs)
    BY <1>2, <2>2, PrintedFacts
  <2> QED
    BY <1>2, <2>1, <2>2, <2>3
<1> QED
  BY <1>3, <1>4, <1>5

\* Two lists of items with the same identifiers and other attributes.
Alike(s, t) ==
  /\ IsSeq(s) /\ IsSeq(t) /\ Len(s) = Len(t)
  /\ \A k \in 1 .. Len(t) : s[k].ident = t[k].ident /\ Others(s[k].attrs) = Others(t[k].attrs)

\* The same items in front of lists that are alike leave them alike.
LEMMA AlikeJoined ==
  ASSUME NEW a, IsSeq(a), NEW s, NEW t, Alike(s, t)
  PROVE  Alike(Joined(a, s), Joined(a, t))
<1> DEFINE n == Len(a)
           m == Len(t)
           x == Joined(a, s)
           y == Joined(a, t)
<1>1. IsSeq(s) /\ IsSeq(t) /\ Len(s) = m
  BY DEF Alike
<1>2. n \in Nat /\ m \in Nat
  BY <1>1, SeqFacts
<1>3. IsSeq(x) /\ Len(x) = n + m /\ \A i \in 1 .. n : x[i] = a[i]
  <2>1. IsSeq(x) /\ Len(x) = n + Len(s) /\ \A i \in 1 .. n : x[i] = a[i]
    BY <1>1, JoinedFacts, Zenon
  <2> HIDE DEF x, n, m
  <2> QED
    BY <1>1, <2>1
<1>4. IsSeq(y) /\ Len(y) = n + m /\ \A i \in 1 .. n : y[i] = a[i]
  BY <1>1, JoinedFacts, Zenon
<1>5. \A k \in (n + 1) .. (n + m) : x[k] = s[k - n] /\ y[k] = t[k - n]
  <2>1. \A k \in (n + 1) .. (n + Len(s)) : x[k] = s[k - n]
    BY <1>1, JoinedAt, Zenon
  <2>2. \A k \in (n + 1) .. (n + Len(t)) : y[k] = t[k - n]
    BY <1>1, JoinedAt, Zenon
  <2> QED
    BY <1>1, <2>1, <2>2, Zenon
<1> HIDE DEF x, y
<1>6. ASSUME NEW k \in 1 .. (n + m)
      PROVE  x[k].ident = y[k].ident /\ Others(x[k].attrs) = Others(y[k].attrs)
  <2>1. CASE k \in 1 .. n
    BY <1>3, <1>4, <2>1
  <2>2. CASE k \notin 1 .. n
    <3>1. k \in (n + 1) .. (n + m) /\ k - n \in 1 .. m
      BY <1>2, <2>2
    <3>2. x[k] = s[k - n] /\ y[k] = t[k - n]
      BY <1>5, <3>1, Zenon
    <3> QED
      BY <3>1, <3>2 DEF Alike
  <2> QED
    BY <2>1, <2>2
<1> QED
  BY <1>3, <1>4, <1>6 DEF Alike, x, y

\* What is printed is like what was written, but for the context that is first.
LEMMA OutItemsAlike ==
  ASSUME NEW s, IsSeq(s), IsSeq(items), Len(items) = Len(s),
         \A j \in 1 .. Len(s) :
           /\ items[j].item = s[j] /\ IsItem(s[j])
           /\ items[j].is \in {"endpoint", "channel"} => s[j].what = "fn"
  PROVE  Alike([k \in DOMAIN items |-> to_out_trait_item(items[k])], s)
<1> DEFINE m == [k \in DOMAIN items |-> to_out_trait_item(items[k])]
<1>1. DOMAIN items = 1 .. Len(s)
  BY SeqFacts
<1>2. m = [k \in DOMAIN items |-> m[k]] /\ \A k \in DOMAIN items : m[k] = to_out_trait_item(items[k])
  OBVIOUS
<1> HIDE DEF m
<1>3. IsSeq(m) /\ Len(m) = Len(s)
  BY <1>2, MapFacts
<1>4. \A k \in 1 .. Len(s) : m[k].ident = s[k].ident /\ Others(m[k].attrs) = Others(s[k].attrs)
  BY <1>1, <1>2, OutItemFacts
<1> QED
  BY <1>3, <1>4 DEF Alike, m

\* The context's types among the items, if a context is looked for.
OwnItems == {i \in Range(job.item.items) : metadata # None /\ IsContext(i)}

\* The items as they are expected in the output.
KeptItems ==
  Joined(IF Filter(job.item.items, OwnItems) = <<>> THEN <<>> ELSE <<Head(Filter(job.item.items, OwnItems))>>,
         Filter(job.item.items, Range(job.item.items) \ OwnItems))

\* The items of the output are those that are expected.
LEMMA OutIsKept ==
  ASSUME AreItems(job.item.items), ItemsOK, metadata # None => Parsed
  PROVE  Alike(TraitOut.items, KeptItems)
<1> DEFINE list == job.item.items
           all == Range(list)
           ctx == Filter(list, OwnItems)
           pre == IF ctx = <<>> THEN <<>> ELSE <<Head(ctx)>>
           s == Filter(list, all \ OwnItems)
           m == [k \in DOMAIN items |-> to_out_trait_item(items[k])]
<1>1. /\ IsSeq(list) /\ DOMAIN list = 1 .. Len(list) /\ \A k \in 1 .. Len(list) : IsItem(list[k])
  BY SeqFacts DEF AreItems
<1>2. IsSeq(pre)
  BY OneIsSeq, EmptyIsSeq, Zenon
<1>3. make_context_trait_item = pre /\ Alike(m, s)
  <2>1. CASE metadata = None
    <3>1. OwnItems = {}
      BY <2>1 DEF OwnItems
    <3>2. ctx = <<>>
      BY <1>1, <3>1, FilterFacts
    <3>3. make_context_trait_item = <<>>
      BY <2>1, Zenon DEF make_context_trait_item
    <3>4. s = list
      <4>1. all \ OwnItems = all
        BY <3>1
      <4> QED
        BY <1>1, <4>1, FilterAll
    <3>5. items = [k \in DOMAIN list |-> OtherItem(list[k])]
      BY <2>1 DEF ItemsOK
    <3>6. items = [k \in DOMAIN list |-> items[k]] /\ \A k \in DOMAIN list : items[k] = OtherItem(list[k])
      BY <3>5
    <3>7. IsSeq(items) /\ Len(items) = Len(list)
      BY <1>1, <3>6, MapFacts
    <3>8. \A x : OtherItem(x).is = "Other" /\ OtherItem(x).item = x
      BY DEF OtherItem
    <3>9. \A j \in 1 .. Len(list) :
            /\ items[j].item = list[j] /\ IsItem(list[j])
            /\ items[j].is \in {"endpoint", "channel"} => list[j].what = "fn"
      <4> SUFFICES ASSUME NEW j \in 1 .. Len(list)
                   PROVE  /\ items[j].item = list[j] /\ IsItem(list[j])
                          /\ items[j].is \in {"endpoint", "channel"} => list[j].what = "fn"
        OBVIOUS
      <4> HIDE DEF list
      <4>1. j \in DOMAIN list /\ IsItem(list[j])
        BY <1>1
      <4>2. items[j] = OtherItem(list[j])
        BY <3>6, <4>1
      <4>3. items[j].is = "Other" /\ items[j].item = list[j]
        BY <3>8, <4>2
      <4> QED
        BY <4>1, <4>3
    <3>10. Alike(m, list)
      <4> HIDE DEF m
      <4> QED
        BY <1>1, <3>7, <3>9, OutItemsAlike DEF m
    <3> QED
      BY <3>2, <3>3, <3>4, <3>10, Zenon
  <2>2. CASE metadata # None
    <3>1. Parsed /\ ContextOK
      BY <2>2 DEF ItemsOK
    <3>2. OwnItems = {i \in all : IsContext(i)} /\ all \ OwnItems = NotContext
      BY <2>2 DEF OwnItems, NotContext
    <3>3. ContextItems(list) = ctx
      BY <3>2, Zenon DEF ContextItems
    <3>4. make_context_trait_item = pre
      <4>1. CASE ctx = <<>>
        <5>1. context.is = "Missing"
          BY <3>1, <3>3, <4>1, Zenon DEF ContextOK
        <5> QED
          BY <4>1, <5>1, Zenon DEF make_context_trait_item
      <4>2. CASE ctx # <<>>
        <5>1. context.is \in {"Invalid", "Valid"} /\ context.item = Head(ctx)
          BY <3>1, <3>3, <4>2, Zenon DEF ContextOK
        <5>2. context.is # "Missing"
          BY <5>1
        <5> QED
          BY <2>2, <4>2, <5>1, <5>2, Zenon DEF make_context_trait_item
      <4> QED
        BY <4>1, <4>2
    <3>5. s = Filter(list, NotContext)
      BY <3>2, Zenon
    <3>6. /\ IsSeq(items) /\ IsSeq(s) /\ Len(items) = Len(s)
          /\ \A j \in 1 .. Len(items) : items[j] = ApiOf(s[j]) /\ items[j].item = s[j] /\ IsItem(s[j])
      BY <3>1, <3>5, ParsedFacts
    <3> HIDE DEF s
    <3>7. ASSUME NEW j \in 1 .. Len(s), items[j].is \in {"endpoint", "channel"}
          PROVE  s[j].what = "fn"
      <4>1. items[j] \in Range(items)
        BY <3>6, SeqFacts
      <4> QED
        BY <3>1, <3>6, <3>7, <4>1, ManagedFacts
    <3>8. \A j \in 1 .. Len(s) :
            /\ items[j].item = s[j] /\ IsItem(s[j])
            /\ items[j].is \in {"endpoint", "channel"} => s[j].what = "fn"
      BY <3>6, <3>7
    <3>9. Alike(m, s)
      <4> HIDE DEF m
      <4> QED
        BY <3>6, <3>8, OutItemsAlike DEF m
    <3> QED
      BY <3>4, <3>9, Zenon
  <2> QED
    BY <2>1, <2>2
<1>4. TraitOut.items = Joined(pre, m)
  BY <1>3, OutFields, Zenon
<1>5. KeptItems = Joined(pre, s)
  BY Zenon DEF KeptItems
<1> HIDE DEF pre, m, s
<1> QED
  BY <1>2, <1>3, <1>4, <1>5, AlikeJoined

\* Every item is printed, with its identifier and its own attributes.
LEMMA InvNothingLost ==
  ASSUME MacrosInv
  PROVE  NothingLost
<1> SUFFICES ASSUME Done, out # Panic, out.kind = "trait"
             PROVE  /\ Idents(out.items) = Idents(KeptItems)
                    /\ \A k \in DOMAIN KeptItems : Others(out.items[k].attrs) = Others(KeptItems[k].attrs)
  BY Zenon DEF NothingLost, KeptItems, OwnItems, Others, Joined
<1>1. ~OnFunction
  BY DEF MacrosInv, FunctionInv, FunctionEnd, Done
<1>2. job.item.parses
  BY <1>1 DEF MacrosInv, TraitInv, TraitEnd, Done, Nothing
<1>3. Alike(out.items, KeptItems)
  <2>1. out = TraitOut /\ ItemsOK /\ AreItems(job.item.items) /\ (metadata # None => Parsed)
    BY <1>1, <1>2, TraitDone
  <2>2. Alike(TraitOut.items, KeptItems)
    BY <2>1, OutIsKept
  <2> QED
    BY <2>1, <2>2, Zenon
<1> DEFINE o == out.items
           n == Len(KeptItems)
<1>4. /\ DOMAIN o = 1 .. n /\ DOMAIN KeptItems = 1 .. n
      /\ \A k \in 1 .. n : o[k].ident = KeptItems[k].ident /\ Others(o[k].attrs) = Others(KeptItems[k].attrs)
  BY <1>3, SeqFacts DEF Alike
<1> HIDE DEF o, n
<1>5. Idents(o) = Idents(KeptItems)
  BY <1>4 DEF Idents
<1> QED
  BY <1>4, <1>5 DEF o

\* For every trait and function, errors name exactly the marked items that
\* could not be taken, a usage message is given for exactly the kinds of
\* handler whose parameters are at fault, and the printed trait has every item
\* that was written (api_trait.rs:97-120, 266-400, 1124-1238).
THEOREM ErrorsAreExact == Spec => []ErrorsExact
<1>1. MacrosInv => ErrorsExact
  BY InvBlame, InvUsage, InvNothingLost DEF ErrorsExact
<1> QED
  BY InvHolds, <1>1, PTL
=============================================================================
