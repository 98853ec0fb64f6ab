---------------------------- MODULE MCJsonSchemas ----------------------------
(* Schemas one level deep over those of basic types. *)
EXTENDS JsonSchemas

Ty(ty)       == [Object EXCEPT !.ty = ty]
Ref(name)    == [Object EXCEPT !.ref = <<name>>]
Nullable(s)  == [s EXCEPT !.nullable = TRUE]
Str(len)     == [t |-> "string", len |-> len]
Whl(n)       == [t |-> "integer", n |-> 2 * n]
Half         == [t |-> "number", n |-> 1]
Arr(elems)   == [t |-> "array", elems |-> elems]
Obj(fields)  == [t |-> "object", fields |-> fields]
NoNum        == [min |-> <<>>, xmin |-> <<>>, max |-> <<>>, xmax |-> <<>>, mult |-> <<>>]
ArrayOf(s)   == [Ty("array") EXCEPT !.arr =
                   <<[items |-> <<s>>, tuple |-> FALSE, more |-> FALSE, min |-> <<>>]>>]
Struct(props, required) ==
  [Ty("object") EXCEPT !.obj = <<[props |-> props, required |-> required, additional |-> <<>>]>>]
Prop(name, s) == name :> s

StringEnum   == [Ty("string") EXCEPT !.enum = <<<<Str(1)>>>>]
MCDefs ==
  [Name  |-> Ty("string"),
   Alias |-> Ref("Name"),
   Ping  |-> Ref("Pong"),
   Pong  |-> Ref("Ping"),
   Loop  |-> Subs([NoSubs EXCEPT !.any = <<<<Ref("Link")>>>>]),
   Link  |-> Subs([NoSubs EXCEPT !.one = <<<<Ref("Loop")>>>>]),
   Knot  |-> [Ty("object") EXCEPT !.subs = <<[NoSubs EXCEPT !.all = <<<<Ref("Knot")>>>>]>>],
   Node  |-> Struct(Prop("a", Nullable(Ref("Node"))), {"a"})]

Numbers ==
  {[Ty(ty) EXCEPT !.num = <<num>>] :
     ty \in {"integer", "number"},
     num \in {[NoNum EXCEPT !.min = <<2>>], [NoNum EXCEPT !.xmin = <<2>>],
             [NoNum EXCEPT !.min = <<2>>, !.max = <<2>>], [NoNum EXCEPT !.xmax = <<2>>],
             [NoNum EXCEPT !.min = <<0>>, !.xmin = <<2>>], [NoNum EXCEPT !.max = <<1>>],
             [NoNum EXCEPT !.xmax = <<1>>], [NoNum EXCEPT !.mult = <<4>>],
             [NoNum EXCEPT !.mult = <<5>>], [NoNum EXCEPT !.mult = <<1>>]}}

Basic ==
  {True, False, Object, Ty("string"), Ty("null"), Ty("boolean"), Ty("many"), Ty("array"), Ty("object"),
   StringEnum, Nullable(StringEnum),
   [Ty("string") EXCEPT !.enum = <<<<Str(1), Null>>>>],
   [Ty("string") EXCEPT !.enum = <<<<Whl(1)>>>>],
   [Ty("string") EXCEPT !.enum = <<<<>>>>],
   [Ty("string") EXCEPT !.str = <<[min |-> 1]>>],
   [Ty("string") EXCEPT !.const = <<Str(1)>>],
   [Ty("integer") EXCEPT !.enum = <<<<Whl(1)>>>>],
   [Object EXCEPT !.enum = <<<<Str(1), Whl(1)>>>>],
   Ref("Name"), Ref("Alias"), Ref("Ping"), Ref("Knot"), Ref("Node"), Nullable(Ref("Alias")), Nullable(Ref("Node"))}
  \cup Numbers

\* Which may be parts of others.
Part == {Ty("string"), StringEnum, Nullable(StringEnum), Ref("Alias"), Nullable(Ref("Alias")),
         Ref("Ping"), Ref("Loop"), Ref("Node"), True, False, [Ty("integer") EXCEPT !.num = <<[NoNum EXCEPT !.xmin = <<2>>]>>],
         Struct(Prop("a", Ty("string")), {"a"}), Struct(Prop("b", Ty("integer")), {"b"}),
         Struct(Prop("a", Ty("string")) @@ Prop("b", Ref("Name")), {"a", "b"}),
         ArrayOf(Ref("Name"))}

SubsOf ==
  {[NoSubs EXCEPT ![kind] = <<<<p>>>>] : kind \in {"all", "any", "one"}, p \in Part}
  \cup {[NoSubs EXCEPT ![kind] = <<<<p, q>>>>] : kind \in {"all", "any", "one"}, p, q \in Part}
  \cup {[NoSubs EXCEPT !.not = <<p>>] : p \in Part}
  \cup {[NoSubs EXCEPT !.all = <<<<p>>>>, !.any = <<<<p>>>>] : p \in Part}
  \cup {[NoSubs EXCEPT !.one = <<<<Ty("string")>>>>, !.cond = TRUE]}

Composite ==
  {Subs(x) : x \in SubsOf}
  \cup {Nullable(Subs([NoSubs EXCEPT !.all = <<<<p>>>>])) : p \in Part}
  \cup {[t EXCEPT !.subs = <<x>>] :
          t \in {Ty("object"), Struct(Prop("a", Ty("string")), {"a"})}, x \in SubsOf}
  \cup {[StringEnum EXCEPT !.subs = <<[NoSubs EXCEPT !.not = <<Ty("string")>>]>>, !.const = <<c>>] :
          c \in {Str(1), Str(0)}}
  \cup {[Numbers0 EXCEPT !.subs = <<[NoSubs EXCEPT !.any = <<<<Ty("integer")>>>>]>>] : Numbers0 \in Numbers}
  \cup {ArrayOf(p) : p \in Part}
  \cup {[ArrayOf(p) EXCEPT !.arr[1].tuple = TRUE] : p \in Part}
  \cup {[ArrayOf(p) EXCEPT !.arr[1].more = TRUE] : p \in {Ty("string"), Ref("Name")}}
  \cup {Struct(Prop("a", Subs(x)), {}) : x \in SubsOf}
  \cup {Struct(Prop("a", p), r) : p \in Part, r \in SUBSET {"a"}}
  \cup {[Struct(Prop("b", Ty("integer")), {}) EXCEPT !.obj[1].additional = <<p>>] : p \in Part}
  \cup {ArrayOf(ArrayOf(Ref("Name")))}

MCSchemas == Basic \cup Composite

Scalars == {Null, [t |-> "boolean"], Str(0), Str(1), Whl(0), Whl(1), Whl(2), Whl(5), Half}
MCValues ==
  Scalars
  \cup {Arr(<<>>)} \cup {Arr(<<v>>) : v \in Scalars} \cup {Arr(<<Str(1), Null>>)}
  \cup {Obj(<<>>)}
  \cup {Obj(Prop(f, v)) : f \in {"a", "b"}, v \in Scalars \cup {Obj(Prop("a", Null))}}
  \cup {Obj(Prop("a", v) @@ Prop("b", w)) : v \in Scalars, w \in {Str(1), Whl(1), Null}}
  \cup {Obj(Prop("c", v)) : v \in {Str(1), Whl(1)}}
==============================================================================
