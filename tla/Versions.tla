------------------------------ MODULE Versions ------------------------------
(***************************************************************************)
(* ApiEndpointVersions (dropshot/src/api_description.rs): the range of API *)
(* versions an endpoint exists in.  semver::Version is a total order; here *)
(* versions are integers, and only their order is used.                    *)
(***************************************************************************)
EXTENDS Integers

CONSTANT NoVersion  \* None: the request does not care about versions

ASSUME NoVersionAssumption == NoVersion \notin Int

All           == [kind |-> "All",       earliest |-> 0, until |-> 0]
From(v)       == [kind |-> "From",      earliest |-> v, until |-> 0]
Until(v)      == [kind |-> "Until",     earliest |-> 0, until |-> v]
FromUntil(v, w) == [kind |-> "FromUntil", earliest |-> v, until |-> w]

\* from_until() refuses bounds that are out of order.  Equal bounds stand for
\* exactly that one version.
FromUntilOk(v, w) == ~ (w < v)

\* The ranges over a set V of versions that the constructors can build.
Ranges(V) ==
  {All} \cup {From(v) : v \in V} \cup {Until(v) : v \in V}
        \cup {FromUntil(p[1], p[2]) : p \in {q \in V \X V : FromUntilOk(q[1], q[2])}}

\* Whether version v lies in the range.
Contains(range, v) ==
  \/ range.kind = "All"
  \/ range.kind = "From" /\ v >= range.earliest
  \/ /\ range.kind = "FromUntil"
     /\ v >= range.earliest
     /\ \/ v < range.until
        \/ v = range.until /\ range.earliest = range.until
  \/ range.kind = "Until" /\ v < range.until

\* ApiEndpointVersions::matches()
Matches(range, version) == version = NoVersion \/ Contains(range, version)

\* ApiEndpointVersions::overlaps_with(), arm by arm.
OverlapsWith(a, b) ==
  \/ a.kind = "All"
  \/ b.kind = "All"
  \/ a.kind = "From"  /\ b.kind = "From"
  \/ a.kind = "Until" /\ b.kind = "Until"
  \/ a.kind = "From"  /\ b.kind = "Until" /\ Contains(b, a.earliest)
  \/ a.kind = "Until" /\ b.kind = "From"  /\ Contains(a, b.earliest)
  \/ a.kind = "From"      /\ b.kind = "FromUntil" /\ a.earliest < b.until
  \/ a.kind = "FromUntil" /\ b.kind = "From"      /\ b.earliest < a.until
  \/ a.kind = "Until"     /\ b.kind = "FromUntil" /\ Contains(a, b.earliest)
  \/ a.kind = "FromUntil" /\ b.kind = "Until"     /\ Contains(b, a.earliest)
  \/ /\ a.kind = "FromUntil" /\ b.kind = "FromUntil"
     /\ Contains(a, b.earliest) \/ Contains(b, a.earliest)

\* The one pair of ranges that share a version without being reported: "from
\* v on" and "exactly v".
OneVersionClash(a, b) ==
  /\ {a.kind, b.kind} = {"From", "FromUntil"}
  /\ a.earliest = b.earliest
  /\ \E x \in {a, b} : x.kind = "FromUntil" /\ x.until = x.earliest

=============================================================================
