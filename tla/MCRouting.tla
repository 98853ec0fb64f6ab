----------------------------- MODULE MCRouting ------------------------------
(* Small APIs and requests for the Routing specification.                  *)
EXTENDS Routing

Lit(s)  == Literal(s)
Var(x)  == VarnameSegment(x)
Wild(x) == VarnameWildcard(x)

In(place, x, t) == [in |-> place, name |-> x, type |-> t]

Endpoint(path, method, versions, parameters) ==
  [path |-> path, method |-> method, versions |-> versions,
   parameters |-> parameters, tags |-> <<"t">>, visible |-> TRUE]

Hidden(e) == [e EXCEPT !.visible = FALSE]

X == In("path", "x", "scalar")
Rest == In("path", "rest", "strings")

\* Percent-decoding: "%61" is "a"; "%ff" is not UTF-8.
MCDecode == [s \in {"a", "b", "%61", "%ff", ".", ".."} |->
               IF s = "%61" THEN "a" ELSE IF s = "%ff" THEN BadEncoding ELSE s]

MCTagConfig == [policy |-> "AtLeastOne", tags |-> {"t"},
                allow_other_tags |-> FALSE]

-----------------------------------------------------------------------------
\* Every way two routes can meet in the trie, all in every version.
PathEndpoints ==
  { Endpoint(<<Lit("a")>>, "GET", All, {}),
    Endpoint(<<Lit("a"), Var("x")>>, "GET", All, {X}),
    Endpoint(<<Lit("a"), Var("x")>>, "PUT", All, {X}),
    Endpoint(<<Lit("a"), Var("x"), Wild("rest")>>, "GET", All, {X, Rest}),
    Endpoint(<<Lit("a"), Lit("b")>>, "PUT", All, {}),
    Endpoint(<<Lit("a"), Var("y")>>, "GET", All, {In("path", "y", "scalar")}),
    Endpoint(<<Lit("b"), Wild("rest")>>, "GET", All, {Rest}),
    Endpoint(<<Lit("b")>>, "PUT", All, {}),
    Endpoint(<<Lit("b"), Wild("rest"), Lit("a")>>, "GET", All, {Rest}),
    Endpoint(<<Lit("b"), Var("x")>>, "GET", All, {X}),
    Endpoint(<<Var("x"), Var("x")>>, "GET", All, {X}),
    \* refused by validation
    Endpoint(<<Lit("a"), Var("x")>>, "GET", All, {}),
    Endpoint(<<Lit("b"), Wild("rest")>>, "PUT", All, {In("path", "rest", "scalar")}),
    Endpoint(<<Lit("a"), Var("x")>>, "PUT", All, {X, In("query", "x", "scalar")}),
    [Endpoint(<<>>, "GET", All, {}) EXCEPT !.tags = <<>>] }

PathRawPaths ==
  { <<"">>, <<"", "a">>, <<"", "", "%61", "">>, <<"", "a", "b">>,
    <<"", "a", "a", "b">>, <<"", "b">>, <<"", "b", "a", "b">>,
    <<"", "a", "..">>, <<"", "b", "%ff">> }

\* Version ranges of one path, two methods, and a route below it.
VersionEndpoints ==
  { Endpoint(<<Lit("a")>>, "GET", r, {}) :
      r \in {All, From(2), Until(2), FromUntil(1, 2),
             FromUntil(2, 2)} }
  \cup { Endpoint(<<Lit("a")>>, "PUT", r, {}) : r \in {From(2), Until(1)} }
  \cup { Hidden(Endpoint(<<Lit("a")>>, "PUT", FromUntil(1, 2), {})) }

VersionRawPaths == { <<"", "a">>, <<"", "b">> }

MCPolicies ==
  { Unversioned,
    ClientSpecifiesVersionInHeader(2, NoVersion, NoVersion),
    ClientSpecifiesVersionInHeader(3, 1, 0) }

MCHeaders == 0 .. 3 \cup {Garbage, NoVersion}

-----------------------------------------------------------------------------
MCEndpoints == PathEndpoints \cup VersionEndpoints
MCRawPaths  == PathRawPaths \cup VersionRawPaths

\* An API is about paths or about versions, not both: requests of the first
\* kind carry no version and those of the second have one of two paths.
OneSuite ==
  \/ /\ Registered \subseteq PathEndpoints
     /\ policy \in {NoPolicy, Unversioned}
     /\ request # NoRequest => request.header = NoVersion
  \/ /\ Registered \subseteq VersionEndpoints
     /\ request # NoRequest => request.raw \in VersionRawPaths

=============================================================================
