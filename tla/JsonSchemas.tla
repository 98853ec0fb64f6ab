---------------------------- MODULE JsonSchemas -----------------------------
(***************************************************************************)
(* What dropshot does with the JSON schemas that schemars generates:       *)
(* checking that a parameter is a scalar (type_util.rs), splitting a       *)
(* structure into parameters and converting to OpenAPI (schema_util.rs).   *)
(*                                                                         *)
(* A schema is a record with the fields of schemars' SchemaObject, and     *)
(* `bool` for the schemas true and false.  What may be absent is a         *)
(* sequence of at most one element.  Documentation, formats and extensions *)
(* other than `nullable` are left out, and the least length stands for all *)
(* constraints of strings, arrays and objects that are copied as they are. *)
(* Numbers are counted in halves, so that some of them are not whole;      *)
(* strings are known by their length.                                      *)
(***************************************************************************)
EXTENDS Integers, Sequences, SequencesExt, FiniteSets

CONSTANTS
  Schemas,        \* the schemas that are looked at
  Defs,           \* the definitions that references lead to, by name
  Values          \* the JSON values that schemas are compared on

VARIABLES
  job,            \* "scalar", "string", "array" (then "items"), "struct" or "convert"
  schema,         \* the schema in question
  todo,           \* schemas that are still to be judged
  seen,           \* references that type_resolve() has followed
  queue,          \* calls of schema2struct_impl() that are still to be made
  members,        \* the members that schema2struct() has found
  result          \* what came of it

structVars == <<queue, members>>
vars == <<job, schema, todo, seen, structVars, result>>

Pending     == [is |-> "none"]
Panicked    == [is |-> "panic"]
Failed(err) == [is |-> "err", err |-> err]

Object == [bool |-> "no", ty |-> "none", enum |-> <<>>, const |-> <<>>, subs |-> <<>>,
           num |-> <<>>, oasnum |-> <<>>, str |-> <<>>, arr |-> <<>>, obj |-> <<>>,
           ref |-> <<>>, nullable |-> FALSE]

True  == [Object EXCEPT !.bool = "true"]
False == [Object EXCEPT !.bool = "false"]

\* What becomes of something that may be absent.
Each(o, F(_)) == IF o = <<>> THEN <<>> ELSE <<F(o[1])>>

NoSubs == [all |-> <<>>, any |-> <<>>, one |-> <<>>, not |-> <<>>, cond |-> FALSE]
Subs(s) == [Object EXCEPT !.subs = <<s>>]
Not(s)  == Subs([NoSubs EXCEPT !.not = <<s>>])

Bare(s)    == [s EXCEPT !.nullable = FALSE]
LoneRef(s) == s.ref # <<>> /\ Bare(s) = [Object EXCEPT !.ref = s.ref]
LoneSubs(s) == s.subs # <<>> /\ Bare(s) = [Object EXCEPT !.subs = s.subs]

\* The subschemas of a kind when there are no others.
Only(subs, kind) ==
  IF subs[kind] # <<>> /\ subs = [NoSubs EXCEPT ![kind] = subs[kind]] THEN subs[kind] ELSE <<>>

----------------------------------------------------------------------------
(* What a schema means *)

Null == [t |-> "null"]
Numeric(v) == v.t \in {"integer", "number"}
HasType(v, ty) == ty = v.t \/ (ty = "number" /\ Numeric(v))

\* Nothing but 0 is a multiple of 0.
MultipleOf(n, m) == IF m = 0 THEN n = 0 ELSE n % m = 0

NumberOk(num, n) ==
  /\ num.mult # <<>> => MultipleOf(n, num.mult[1])
  /\ num.min # <<>>  => n >= num.min[1]
  /\ num.xmin # <<>> => n > num.xmin[1]
  /\ num.max # <<>>  => n <= num.max[1]
  /\ num.xmax # <<>> => n < num.xmax[1]

OasNumberOk(num, n) ==
  /\ num.mult # <<>> => MultipleOf(n, num.mult[1])
  /\ num.min # <<>> => IF num.xmin THEN n > num.min[1] ELSE n >= num.min[1]
  /\ num.max # <<>> => IF num.xmax THEN n < num.max[1] ELSE n <= num.max[1]

RECURSIVE Accepts(_, _)
\* Whether a value is valid.  `nullable` adds null, and so does a null among
\* the values of an enumeration, whatever the type (which is how the OpenAPI
\* documents spell the type null).
Accepts(s, v) ==
  LET opt(o, P(_)) == o = <<>> \/ P(o[1])
      all(list)    == \A k \in DOMAIN list : Accepts(list[k], v)
      some(list)   == \E k \in DOMAIN list : Accepts(list[k], v)
      just1(list)  == Cardinality({k \in DOMAIN list : Accepts(list[k], v)}) = 1
      subsOk(x)    == /\ opt(x.all, all) /\ opt(x.any, some) /\ opt(x.one, just1)
                      /\ opt(x.not, LAMBDA y : ~Accepts(y, v))
      arrOk(a)     == /\ a.items # <<>> => \A k \in DOMAIN v.elems : Accepts(a.items[1], v.elems[k])
                      /\ opt(a.min, LAMBDA n : Len(v.elems) >= n)
      objOk(o)     == /\ o.required \subseteq DOMAIN v.fields
                      /\ \A f \in DOMAIN v.fields :
                           IF f \in DOMAIN o.props THEN Accepts(o.props[f], v.fields[f])
                           ELSE opt(o.additional, LAMBDA y : Accepts(y, v.fields[f]))
  IN CASE s.bool = "true"  -> TRUE
       [] s.bool = "false" -> FALSE
       [] OTHER ->
            \/ v = Null /\ (s.nullable \/ (s.enum # <<>> /\ Null \in Range(s.enum[1])))
            \/ s.ref # <<>> /\ Accepts(Defs[s.ref[1]], v)
            \/ /\ s.ref = <<>>
               /\ s.ty = "none" \/ HasType(v, s.ty)
               /\ opt(s.enum, LAMBDA e : v \in Range(e))
               /\ opt(s.const, LAMBDA c : v = c)
               /\ Numeric(v) => /\ opt(s.num, LAMBDA n : NumberOk(n, v.n))
                                /\ opt(s.oasnum, LAMBDA n : OasNumberOk(n, v.n))
               /\ v.t = "string" => opt(s.str, LAMBDA x : v.len >= x.min)
               /\ v.t = "array"  => opt(s.arr, arrOk)
               /\ v.t = "object" => opt(s.obj, objOk)
               /\ opt(s.subs, subsOk)

----------------------------------------------------------------------------
(* type_util.rs *)

\* Faulty variant: a reference that was followed before is not noticed.
type_resolveForgetful ==
  /\ result = Pending /\ todo # <<>> /\ LoneRef(Head(todo))
  /\ LET name == Head(todo).ref[1]
     IN /\ todo' = <<Defs[name]>> \o Tail(todo)
        /\ seen' = {name}
        /\ UNCHANGED result
  /\ UNCHANGED <<job, schema, structVars>>

\* One turn of the loop of type_resolve().
type_resolve ==
  /\ result = Pending /\ todo # <<>> /\ LoneRef(Head(todo))
  /\ LET name == Head(todo).ref[1]
     IN IF name \in seen \/ name \notin DOMAIN Defs
        THEN result' = Panicked /\ UNCHANGED <<todo, seen>>
        ELSE /\ todo' = <<Defs[name]>> \o Tail(todo)
             /\ seen' = seen \cup {name}
             /\ UNCHANGED result
  /\ UNCHANGED <<job, schema, structVars>>

\* The type_check function that is passed down.
type_check(ty) ==
  ty = "string" \/ (job = "scalar" /\ ty \in {"boolean", "number", "integer"})

\* Faulty variant: of several alternatives the first is looked at.
type_is_scalar_subschemasFirst(x) ==
  LET all == Only(x, "all")  any == Only(x, "any")  one == Only(x, "one")
  IN CASE all # <<>> /\ Len(all[1]) > 0 -> [ok |-> TRUE, then |-> <<all[1][1]>>]
       [] any # <<>> /\ Len(any[1]) > 0 -> [ok |-> TRUE, then |-> <<any[1][1]>>]
       [] one # <<>> -> [ok |-> TRUE, then |-> one[1]]
       [] OTHER -> [ok |-> FALSE]

\* type_is_scalar_subschemas(): which subschemas must be scalars in turn.
type_is_scalar_subschemas(x) ==
  LET all == Only(x, "all")  any == Only(x, "any")  one == Only(x, "one")
  IN CASE all # <<>> /\ Len(all[1]) = 1 -> [ok |-> TRUE, then |-> all[1]]
       [] any # <<>> /\ Len(any[1]) = 1 -> [ok |-> TRUE, then |-> any[1]]
       [] one # <<>> -> [ok |-> TRUE, then |-> one[1]]
       [] OTHER -> [ok |-> FALSE]

PlainScalar(s) ==
  /\ s.bool = "no" /\ type_check(s.ty)
  /\ s.subs = <<>> /\ s.arr = <<>> /\ s.obj = <<>> /\ s.ref = <<>>

\* Faulty variant: all subschemas share the set of references followed.
type_is_scalar_commonSharedSet ==
  /\ result = Pending /\ job \in {"scalar", "string", "items"} /\ todo # <<>> /\ ~LoneRef(Head(todo))
  /\ LET s == Head(todo)
         subs == type_is_scalar_subschemas(s.subs[1])
     IN IF PlainScalar(s) THEN todo' = Tail(todo) /\ UNCHANGED result
        ELSE IF LoneSubs(s) /\ subs.ok THEN todo' = subs.then \o Tail(todo) /\ UNCHANGED result
        ELSE result' = Failed("NotScalar") /\ UNCHANGED todo
  /\ UNCHANGED <<job, schema, seen, structVars>>

\* type_is_scalar_common() on a schema that is no reference: it is a scalar,
\* or its subschemas must be, or it is refused.
type_is_scalar_common ==
  /\ result = Pending /\ job \in {"scalar", "string", "items"} /\ todo # <<>> /\ ~LoneRef(Head(todo))
  /\ LET s == Head(todo)
         subs == type_is_scalar_subschemas(s.subs[1])
     IN IF PlainScalar(s) THEN todo' = Tail(todo) /\ UNCHANGED result
        ELSE IF LoneSubs(s) /\ subs.ok THEN todo' = subs.then \o Tail(todo) /\ UNCHANGED result
        ELSE result' = Failed("NotScalar") /\ UNCHANGED todo
  /\ seen' = {}
  /\ UNCHANGED <<job, schema, structVars>>

\* type_is_string_enum(): an array, and its items are strings.
type_is_string_enum ==
  /\ result = Pending /\ job = "array" /\ todo # <<>> /\ ~LoneRef(Head(todo))
  /\ LET s == Head(todo)
     IN IF /\ s.ty = "array" /\ s.arr # <<>>
           /\ Bare(s) = [Object EXCEPT !.ty = "array", !.arr = s.arr]
        THEN IF s.arr[1].items # <<>> /\ ~s.arr[1].tuple /\ ~s.arr[1].more
             THEN job' = "items" /\ todo' = s.arr[1].items /\ UNCHANGED result
             ELSE result' = Panicked /\ UNCHANGED <<job, todo>>
        ELSE result' = Failed("NotScalar") /\ UNCHANGED <<job, todo>>
  /\ seen' = {}
  /\ UNCHANGED <<schema, structVars>>

\* Every schema that was to be judged has been found to be right.
AllJudged ==
  /\ result = Pending /\ job \in {"scalar", "string", "items"} /\ todo = <<>>
  /\ result' = [is |-> "ok"]
  /\ UNCHANGED <<job, schema, todo, seen, structVars>>

----------------------------------------------------------------------------
(* schema_util.rs: schema2struct() *)

Member(name, schema_of, required) == [name |-> name, schema |-> schema_of, required |-> required]

\* Faulty variant: of several subschemas the first is taken.
schema_extract_descriptionFirst(s) ==
  IF LoneSubs(s) /\ Only(s.subs[1], "all") # <<>> THEN s.subs[1].all[1][1] ELSE s

\* A description beside a reference comes as an `allOf` of one subschema, which
\* is unwrapped; what is nullable about the wrapper is lost.
schema_extract_description(s) ==
  IF LoneSubs(s) /\ Only(s.subs[1], "all") # <<>> /\ Len(s.subs[1].all[1]) = 1
  THEN s.subs[1].all[1][1] ELSE s

\* Faulty variant: what one alternative of several requires counts as required.
PropertiesRegardless(o, required) ==
  LET names == SetToSeq(DOMAIN o.props)
  IN [k \in DOMAIN names |->
        Member(names[k], schema_extract_description(o.props[names[k]]), names[k] \in o.required)]

\* The members that an object itself has; their order makes no difference here.
Properties(o, required) ==
  LET names == SetToSeq(DOMAIN o.props)
  IN [k \in DOMAIN names |->
        Member(names[k], schema_extract_description(o.props[names[k]]),
               required /\ names[k] \in o.required)]

Call(s, required) == [schema |-> s, required |-> required]
Calls(list, required) == [k \in DOMAIN list |-> Call(list[k], required)]

\* An object, perhaps with subschemas.
IsStruct(s) ==
  /\ s.ty \notin {"none", "many"}
  /\ Bare(s) = [Object EXCEPT !.ty = s.ty, !.subs = s.subs, !.obj = s.obj]

\* Flattened enums, of which nothing is required, and flattened structures.
SubschemaMembers(x, required) ==
  CASE Only(x, "any") # <<>> -> [ok |-> TRUE, calls |-> Calls(x.any[1], FALSE)]
    [] Only(x, "all") # <<>> /\ Len(x.all[1]) = 1 ->
         [ok |-> TRUE, calls |-> Calls(x.all[1], required)]
    [] OTHER -> [ok |-> FALSE]

Below(s, required) ==
  IF s.subs = <<>> THEN [ok |-> TRUE, calls |-> <<>>] ELSE SubschemaMembers(s.subs[1], required)

StructError(s) ==
  CASE IsStruct(s) -> "InvalidSubschema"
    [] ~IsStruct(s) /\ ( \/ s.enum # <<>> /\ Bare(s) = [Object EXCEPT !.ty = s.ty, !.enum = s.enum]
                        \/ LoneSubs(s)) -> "InvalidEnum"
    [] OTHER -> "InvalidType"

\* One call of schema2struct_impl(), up to the calls that it makes in turn; the
\* first that fails makes all fail.  A reference is followed without regard to
\* those that were followed before.
schema2struct_impl ==
  /\ result = Pending /\ job = "struct" /\ queue # <<>>
  /\ LET s == Head(queue).schema
         required == Head(queue).required
         below == Below(s, required)
     IN \/ /\ LoneRef(s)
           /\ queue' = <<Call(Defs[s.ref[1]], required)>> \o Tail(queue)
           /\ UNCHANGED <<members, result>>
        \/ /\ ~LoneRef(s) /\ IsStruct(s) /\ below.ok
           /\ members' = members \o IF s.obj = <<>> THEN <<>> ELSE Properties(s.obj[1], required)
           /\ queue' = below.calls \o Tail(queue)
           /\ UNCHANGED result
        \/ /\ ~LoneRef(s) /\ ~(IsStruct(s) /\ below.ok)
           /\ result' = Failed(StructError(s))
           /\ UNCHANGED structVars
  /\ UNCHANGED <<job, schema, todo, seen>>

\* All calls have come back.
schema2struct ==
  /\ result = Pending /\ job = "struct" /\ queue = <<>>
  /\ result' = [is |-> "members", members |-> members]
  /\ UNCHANGED <<job, schema, todo, seen, structVars>>

----------------------------------------------------------------------------
(* schema_util.rs: j2oas_schema() *)

\* The subschemas that a conversion goes on to.
Parts(s) ==
  UNION ({Range(x[1]) : x \in {s.subs[1].all, s.subs[1].any, s.subs[1].one} \ {<<>>}}
           \cup {Range(s.subs[1].not)})

NumClash(num) == (num.min # <<>> /\ num.xmin # <<>>) \/ (num.max # <<>> /\ num.xmax # <<>>)

\* Values that an enumeration of a type cannot be converted from.
BadEnum(s) ==
  /\ s.enum # <<>> /\ s.subs = <<>> /\ s.ty \in {"boolean", "integer", "number", "string"}
  /\ \E v \in Range(s.enum[1]) : ~HasType(v, s.ty) /\ v.t # "null"

RECURSIVE Panics(_)
PartPanics(o) == o # <<>> /\ Panics(o[1])

\* Whether the conversion meets something that it does not support: without a
\* type there is one kind of subschema at most; with a type alone there is what
\* that type needs; with both, everything is looked at.
Panics(s) ==
  LET typed == s.ty # "none"
      both  == typed /\ s.subs # <<>>
      array(a)  == a.tuple \/ PartPanics(a.items)
      object(o) == \/ \E f \in DOMAIN o.props : Panics(o.props[f])
                   \/ PartPanics(o.additional)
      oneKind   == \E kind \in {"all", "any", "one", "not"} :
                     Only([s.subs[1] EXCEPT !.cond = FALSE], kind) # <<>>
  IN /\ s.bool = "no" /\ s.ref = <<>> /\ s.enum # <<<<>>>>
     /\ \/ s.ty = "many"
        \/ BadEnum(s)
        \/ s.ty = "array" /\ s.arr = <<>> /\ ~both
        \/ (s.ty = "array" \/ both) /\ s.arr # <<>> /\ array(s.arr[1])
        \/ (s.ty = "object" \/ both) /\ s.obj # <<>> /\ object(s.obj[1])
        \/ (s.ty \in {"integer", "number"} \/ both) /\ s.num # <<>> /\ NumClash(s.num[1])
        \/ both /\ s.enum # <<>> /\ s.const # <<>> /\ s.const[1] \notin Range(s.enum[1])
        \/ ~typed /\ s.subs # <<>> /\ ~oneKind
        \/ s.subs # <<>> /\ \E p \in Parts(s) : Panics(p)

\* Faulty variant: an exclusive bound becomes an inclusive one.
j2oas_numberInclusive(num) ==
  [min |-> num.min \o num.xmin, xmin |-> FALSE, max |-> num.max \o num.xmax, xmax |-> FALSE,
   mult |-> num.mult]

\* j2oas_number(): a bound and whether it is exclusive.
j2oas_number(num) ==
  [min |-> num.min \o num.xmin, xmin |-> num.xmin # <<>>,
   max |-> num.max \o num.xmax, xmax |-> num.xmax # <<>>, mult |-> num.mult]

\* A conversion to i64 cuts off what is behind the point.
AsI64(h) == IF h >= 0 THEN 2 * (h \div 2) ELSE -2 * (-h \div 2)

j2oas_integer(num) ==
  LET cut(o) == Each(o, AsI64)
  IN j2oas_number([num EXCEPT !.min = cut(@), !.xmin = cut(@), !.max = cut(@), !.xmax = cut(@),
                              !.mult = cut(@)])

RECURSIVE j2oas_schema(_)

j2oas_array(a)  == [a EXCEPT !.items = Each(@, j2oas_schema), !.more = FALSE]
j2oas_object(o) ==
  [o EXCEPT !.props = [f \in DOMAIN @ |-> j2oas_schema(@[f])],
            !.additional = Each(@, j2oas_schema)]

j2oas_schema_vec(list) == [k \in DOMAIN list |-> j2oas_schema(list[k])]

\* Conditions are not converted.
j2oas_subschemas(x) ==
  [all |-> Each(x.all, j2oas_schema_vec), any |-> Each(x.any, j2oas_schema_vec),
   one |-> Each(x.one, j2oas_schema_vec), not |-> Each(x.not, j2oas_schema), cond |-> FALSE]

\* A type together with subschemas: all that is known about it.
j2oas_any(s) ==
  [s EXCEPT !.enum = IF s.const # <<>> THEN <<s.const>> ELSE @,
            !.const = <<>>,
            !.num = <<>>, !.oasnum = Each(s.num, j2oas_number),
            !.arr = Each(@, j2oas_array),
            !.obj = Each(@, j2oas_object),
            !.subs = Each(@, j2oas_subschemas)]

j2oas_string(s) == [Object EXCEPT !.ty = "string", !.enum = s.enum, !.str = s.str]

\* j2oas_schema_object_kind()
j2oas_kind(s) ==
  LET typed == [Object EXCEPT !.ty = s.ty]
  IN CASE s.enum = <<<<>>>> -> Not(Object)
       [] s.enum # <<<<>>>> /\ s.subs = <<>> ->
            (CASE s.ty = "null"    -> [Object EXCEPT !.ty = "string", !.enum = <<<<Null>>>>]
               [] s.ty = "boolean" -> [typed EXCEPT !.enum = s.enum]
               [] s.ty = "object"  -> [typed EXCEPT !.obj = Each(s.obj, j2oas_object)]
               [] s.ty = "array"   -> [typed EXCEPT !.arr = Each(s.arr, j2oas_array)]
               [] s.ty = "number"  ->
                    [typed EXCEPT !.enum = s.enum, !.oasnum = Each(s.num, j2oas_number)]
               [] s.ty = "integer" ->
                    [typed EXCEPT !.enum = s.enum, !.oasnum = Each(s.num, j2oas_integer)]
               [] s.ty = "string"  -> j2oas_string(s)
               [] OTHER -> Object)
       [] s.enum # <<<<>>>> /\ s.subs # <<>> ->
            IF s.ty = "none" THEN Subs(j2oas_subschemas(s.subs[1])) ELSE j2oas_any(s)

\* Faulty variant: `nullable` is left beside a reference, where it is ignored.
ReferenceSiblings(s) == [Object EXCEPT !.ref = s.ref]

\* A reference cannot be nullable; a schema that consists of it can.
Reference(s) ==
  LET reference == [Object EXCEPT !.ref = s.ref]
  IN IF s.nullable
     THEN [Subs([NoSubs EXCEPT !.all = <<<<reference>>>>]) EXCEPT !.nullable = TRUE]
     ELSE reference

j2oas_schema_object(s) ==
  IF s.ref # <<>> THEN Reference(s) ELSE [j2oas_kind(s) EXCEPT !.nullable = s.nullable]

j2oas_schema(s) ==
  CASE s.bool = "true"  -> Object
    [] s.bool = "false" -> Not(Object)
    [] OTHER -> j2oas_schema_object(s)

Convert ==
  /\ result = Pending /\ job = "convert"
  /\ result' = IF Panics(schema) THEN Panicked ELSE [is |-> "schema", schema |-> j2oas_schema(schema)]
  /\ UNCHANGED <<job, schema, todo, seen, structVars>>

Init ==
  /\ job \in {"scalar", "string", "array", "struct", "convert"}
  /\ schema \in Schemas
  /\ todo = IF job \in {"struct", "convert"} THEN <<>> ELSE <<schema>>
  /\ queue = IF job = "struct" THEN <<Call(schema, TRUE)>> ELSE <<>>
  /\ seen = {} /\ members = <<>> /\ result = Pending

Next ==
  \/ type_resolve \/ type_is_scalar_common \/ type_is_string_enum \/ AllJudged
  \/ schema2struct_impl \/ schema2struct \/ Convert

Spec == Init /\ [][Next]_vars /\ WF_vars(Next)

----------------------------------------------------------------------------
(* Circles *)

\* Where lone references lead from a schema; a reference again if they run in
\* a circle.
Resolved(s) ==
  LET n == Cardinality(DOMAIN Defs)
      walk[k \in 0..n] ==
        IF k = 0 THEN s ELSE IF LoneRef(walk[k - 1]) THEN Defs[walk[k - 1].ref[1]] ELSE walk[k - 1]
  IN walk[n]
Circular(s) == LoneRef(Resolved(s))

\* All that is reached from schemas in steps of F.
Reach(from, F(_)) ==
  LET RECURSIVE more(_)
      more(S) == LET T == S \cup UNION {F(s) : s \in S} IN IF T = S THEN S ELSE more(T)
  IN more(from)

\* A schema that steps of F lead back to.
Returns(s, F(_)) == s \in Reach(F(s), F)

\* What has the same values as a schema, and what has parts of them.
Same(s) == (IF s.ref = <<>> THEN {} ELSE {Defs[s.ref[1]]}) \cup (IF s.subs = <<>> THEN {} ELSE Parts(s))
Inside(s) ==
  Same(s)
  \cup (IF s.arr = <<>> THEN {} ELSE Range(s.arr[1].items))
  \cup (IF s.obj = <<>> THEN {}
        ELSE {s.obj[1].props[f] : f \in DOMAIN s.obj[1].props} \cup Range(s.obj[1].additional))

\* No part of the schema is said to be what it is itself; otherwise it has no
\* values to compare.
Grounded(s) == \A t \in Reach({s}, Inside) : ~Returns(t, Same)

\* What type_is_scalar_common() goes on to from a schema, and what
\* schema2struct_impl() does.
ScalarNext(s) ==
  IF LoneRef(s) THEN {Defs[s.ref[1]]}
  ELSE IF LoneSubs(s) /\ type_is_scalar_subschemas(s.subs[1]).ok
  THEN Range(type_is_scalar_subschemas(s.subs[1]).then) ELSE {}
StructNext(s) ==
  IF LoneRef(s) THEN {Defs[s.ref[1]]}
  ELSE IF IsStruct(s) /\ Below(s, TRUE).ok THEN {c.schema : c \in Range(Below(s, TRUE).calls)} ELSE {}

\* The code calls itself for ever: the references that type_resolve() has seen
\* are forgotten at every subschema, and schema2struct_impl() has no such set.
CallsItself ==
  \/ todo # <<>> /\ ~LoneRef(Head(todo)) /\ Returns(Head(todo), ScalarNext)
  \/ queue # <<>> /\ Returns(Head(queue).schema, StructNext)

----------------------------------------------------------------------------
(* Properties *)

\* The state is well formed: references are followed only while a verdict is
\* out, and a schema is a scalar only if nothing is left to be judged
\* (type_util.rs:154-163).
TypeOK ==
  /\ result.is \in {"none", "ok", "err", "panic", "members", "schema"}
  /\ seen \subseteq DOMAIN Defs
  /\ result.is = "ok" => todo = <<>> /\ job \in {"scalar", "string", "items"}
  /\ result.is = "members" => job = "struct"
  /\ result.is = "schema" => job = "convert"

\* The types that a parameter's value may have.
ScalarValue(v) ==
  CASE job = "scalar" -> v.t \in {"boolean", "number", "integer", "string"}
    [] job = "string" -> v.t = "string"
    [] job = "items"  -> v.t = "array" /\ \A k \in DOMAIN v.elems : v.elems[k].t \in {"string", "null"}

\* A parameter that passes type_is_scalar(), type_is_string() or
\* type_is_string_enum() has no value but scalars, strings or arrays of strings
\* (or null, which is an absent parameter), through whatever references and
\* subschemas it is defined (type_util.rs:12-221).
ScalarSound ==
  result.is = "ok" /\ Grounded(schema) => \A v \in Values : Accepts(schema, v) => v = Null \/ ScalarValue(v)

\* type_resolve() raises the alarm about a cycle for no type but one whose
\* references run in a circle: one that is reached twice through two
\* subschemas is fine (type_util.rs:243-249).  An array whose items have no
\* schema of their own is refused by a panic as well (type_util.rs:212-214).
PanicOnlyOnCycle ==
  result = Panicked /\ job # "convert" => Circular(Head(todo)) \/ Head(todo).arr # <<>>

\* Every check and conversion comes to an end, whatever circles of references
\* type_resolve() meets (type_util.rs:221-258), with two exceptions: a circle
\* that passes through a lone allOf or anyOf or a oneOf makes
\* type_is_scalar_common() call itself until the stack is full
\* (type_util.rs:62, 116-152), and so does any circle with
\* schema2struct_impl() (schema_util.rs:52-70).
ChecksEnd == <>(result # Pending \/ CallsItself)

\* A member that schema2struct() says is required is in every object that the
\* schema allows: what one alternative of a flattened enum requires is not
\* (schema_util.rs:101-102 and 122-126).
RequiredSound ==
  result.is = "members" /\ Grounded(schema) =>
    \A k \in DOMAIN result.members, v \in Values :
      result.members[k].required /\ v.t = "object" /\ Accepts(schema, v)
        => result.members[k].name \in DOMAIN v.fields

RECURSIVE Plain(_)
\* An object of which every member is known, without alternatives.
Plain(s) ==
  LET r == Resolved(s)
  IN /\ r.ty = "object"
     /\ r.obj # <<>> => r.obj[1].additional = <<>>
     /\ r.subs # <<>> => Only(r.subs[1], "all") # <<>> /\ \A p \in Parts(r) : Plain(p)

\* The members of a structure describe it: an object, of which no field is
\* null, is valid exactly if it has the required members and its fields are
\* valid for the members of their names (schema_util.rs:88-158 and 258-319).
MembersDescribe ==
  result.is = "members" /\ Grounded(schema) /\ Plain(schema) =>
    \A v \in {w \in Values : w.t = "object" /\ \A f \in DOMAIN w.fields : w.fields[f] # Null} :
      Accepts(schema, v) <=>
        \A m \in Range(result.members) :
          IF m.name \in DOMAIN v.fields THEN Accepts(m.schema, v.fields[m.name]) ELSE ~m.required

Whole(o) == o = <<>> \/ o[1] % 2 = 0

\* Fields that say something about values of the type, which is all that a type
\* by itself is converted with.
OwnFields(s) ==
  CASE s.ty \in {"integer", "number"} -> [Object EXCEPT !.ty = s.ty, !.enum = s.enum, !.num = s.num]
    [] s.ty = "string"  -> [Object EXCEPT !.ty = s.ty, !.enum = s.enum, !.str = s.str]
    [] s.ty = "boolean" -> [Object EXCEPT !.ty = s.ty, !.enum = s.enum]
    [] s.ty = "array"   -> [Object EXCEPT !.ty = s.ty, !.arr = s.arr]
    [] s.ty = "object"  -> [Object EXCEPT !.ty = s.ty, !.obj = s.obj]
    [] OTHER            -> [Object EXCEPT !.ty = s.ty]

RECURSIVE Usual(_)
\* The schemas that schemars derives for types: a reference; subschemas of one
\* kind; a type with what belongs to it; a type together with subschemas.
\* Bounds of integers are whole, and so is what they are multiples of.
Usual(s) ==
  \/ s.bool # "no" \/ LoneRef(s)
  \/ /\ s.subs = <<>> => Bare(s) = OwnFields(s)
     /\ s.subs # <<>> => /\ s.ty = "none" => LoneSubs(s)
                         /\ ~s.subs[1].cond /\ \A p \in Parts(s) : Usual(p)
     /\ s.ty = "integer" /\ s.num # <<>> =>
          \A b \in {"min", "xmin", "max", "xmax", "mult"} : Whole(s.num[1][b])
     /\ s.arr # <<>> => \A k \in DOMAIN s.arr[1].items : Usual(s.arr[1].items[k])
     /\ s.obj # <<>> => /\ \A f \in DOMAIN s.obj[1].props : Usual(s.obj[1].props[f])
                        /\ \A k \in DOMAIN s.obj[1].additional : Usual(s.obj[1].additional[k])

\* The OpenAPI schema of a type allows exactly the values that the JSON schema
\* of the type allows, null included, for every schema of the usual forms
\* (schema_util.rs:329-966).
MeaningKept ==
  result.is = "schema" /\ Grounded(schema) /\ Usual(schema) =>
    \A v \in Values : Accepts(schema, v) <=> Accepts(result.schema, v)

RECURSIVE Monotone(_)
\* What is lost can only make the schema more permissive: nothing is lost under
\* a oneOf or a not, and for integers the exclusive bounds, and what they are
\* multiples of, are whole.
Monotone(s) ==
  /\ s.subs # <<>> =>
       /\ \A p \in Parts([s EXCEPT !.subs[1].all = <<>>, !.subs[1].any = <<>>]) : Usual(p)
       /\ \A p \in Parts(s) : Monotone(p)
  /\ s.ty = "integer" /\ s.subs = <<>> /\ s.num # <<>> =>
       \A b \in {"xmin", "xmax", "mult"} : Whole(s.num[1][b])
  /\ s.arr # <<>> => \A k \in DOMAIN s.arr[1].items : Monotone(s.arr[1].items[k])
  /\ s.obj # <<>> => /\ \A f \in DOMAIN s.obj[1].props : Monotone(s.obj[1].props[f])
                     /\ \A k \in DOMAIN s.obj[1].additional : Monotone(s.obj[1].additional[k])

\* Of other schemas constraints may be lost (an enumeration without a type, a
\* constant, validation of another type), and the OpenAPI schema then allows
\* more; it does not forbid what the type allows (schema_util.rs:465-566),
\* with two exceptions: where something is lost under a oneOf or a not, and
\* where the cast to i64 (schema_util.rs:721-735) changes a number, as it makes
\* multiples of 2 of multiples of 2.5.
NeverStricter ==
  result.is = "schema" /\ Grounded(schema) /\ Monotone(schema) =>
    \A v \in Values : Accepts(schema, v) => Accepts(result.schema, v)

\* The parameters that a structure is taken for are its own, and what is taken
\* for a scalar is one (type_util.rs:12-258, schema_util.rs:88-319).
ParametersSound ==
  TypeOK /\ ScalarSound /\ PanicOnlyOnCycle /\ RequiredSound /\ MembersDescribe

\* The documented schema says of every value what the type says; where it
\* cannot, it allows more, unless something is lost under a oneOf or a not, or
\* an integer's exclusive bound or multiple_of is not whole
\* (schema_util.rs:329-966).
ConversionSound == MeaningKept /\ NeverStricter

=============================================================================
