------------------------------ MODULE MCMacros ------------------------------
EXTENDS Macros

\* Types of arguments and results.
Ctx      == RequestContext(Type("Self", "Context"))
CtxAs    == RequestContext(Type("<Self>", "Context"))
CtxOther == RequestContext(Type("MyContext", ""))
Alias    == Type("MyRequestContext", "")
TwoArgs  == [Alias EXCEPT !.form = "badargs"]
Ref      == [Alias EXCEPT !.form = "notpath", !.nodes = <<"lifetime">>]
Query    == Type("Query", "")
Path     == [Type("Path", "") EXCEPT !.nodes = <<"static">>]
Messy    == [Type("Messy", "") EXCEPT !.nodes = <<"bound", "static", "impl">>]
Conn     == Type("WebsocketConnection", "")
Ok       == Type("Result", "")

Lit(v, pre, build) == [lit |-> TRUE, semver |-> TRUE, v |-> v, pre |-> pre, build |-> build]
NotSemver == [lit |-> TRUE, semver |-> FALSE]
Ident(v)  == [lit |-> FALSE, v |-> v]
Text(from, until) == [from |-> from, until |-> until]

Meta ==
  [list |-> TRUE, parses |-> TRUE, crate |-> FALSE, wildcard |-> FALSE, unpublished |-> FALSE,
   content_type |-> "none", operation_id |-> None, method |-> "PUT", path |-> "/p",
   max_bytes |-> [bytes |-> 5], versions |-> None]

MCRanges ==
  {Text(Lit(1, FALSE, FALSE), Lit(2, FALSE, FALSE)), Text(Lit(2, FALSE, FALSE), Lit(1, FALSE, FALSE)),
   Text(Lit(2, FALSE, FALSE), Lit(2, FALSE, FALSE)), Text(Lit(1, TRUE, FALSE), None),
   Text(None, Lit(2, FALSE, TRUE)), Text(NotSemver, Ident(1)),
   Text(Ident(2), Lit(1, FALSE, FALSE))}

Metas ==
  {Meta, [Meta EXCEPT !.parses = FALSE], [Meta EXCEPT !.content_type = "bad"],
   [Meta EXCEPT !.wildcard = TRUE, !.crate = TRUE, !.operation_id = [id |-> "other"]],
   [Meta EXCEPT !.wildcard = TRUE, !.unpublished = TRUE, !.content_type = "multipart/form-data"]}

----------------------------------------------------------------------------
(* Functions *)

MCFnArgs     == Metas \cup {[Meta EXCEPT !.versions = r] : r \in MCRanges}
MCFnQuals    == {{}, {"const", "where"}, {"not async", "unsafe", "abi"}}
MCInputTypes == {Ctx, CtxOther, Alias, TwoArgs, Query, Messy}
MCOutputs    == {None, Ok, Ref}

----------------------------------------------------------------------------
(* Traits *)

Attr(path, meta)  == [path |-> path, inner |-> FALSE, meta |-> meta]
Other             == Attr("other", None)
Endpoint          == Attr("endpoint", Meta)
Channel           == Attr("channel", Meta)

Good(inputs) ==
  [ident |-> "f", quals |-> {}, receiver |-> FALSE, inputs |-> inputs, output |-> Ok]

Method(attrs, sig) ==
  [what |-> "fn", ident |-> "f", vis |-> FALSE, default |-> FALSE, generics |-> FALSE,
   attrs |-> attrs, sig |-> sig, body |-> "none", raw |-> FALSE]
Item(what, ident, generics, attrs) ==
  [what |-> what, ident |-> ident, vis |-> FALSE, default |-> FALSE, generics |-> generics,
   attrs |-> attrs]

Methods ==
  {Method(<<>>, Good(<<Query>>)),
   Method(<<Other, Endpoint>>, Good(<<Ctx, Path, Query>>)),
   Method(<<Endpoint>>, Good(<<CtxAs>>)),
   Method(<<Endpoint, Other>>, Good(<<CtxOther, Query>>)),
   Method(<<Endpoint>>, Good(<<Alias>>)),
   Method(<<Attr("endpoint", [Meta EXCEPT !.crate = TRUE])>>, Good(<<Ctx, Messy>>)),
   Method(<<Attr("endpoint", [Meta EXCEPT !.list = FALSE])>>, Good(<<Ctx>>)),
   Method(<<Attr("endpoint", [Meta EXCEPT !.versions =
      Text(Lit(1, FALSE, FALSE), Lit(2, FALSE, FALSE))])>>, Good(<<Ctx>>)),
   Method(<<Channel>>, Good(<<Ctx, Query, Conn>>)),
   [Method(<<Channel>>, Good(<<Ctx>>)) EXCEPT !.body = "block"],
   Method(<<Attr("channel", [Meta EXCEPT !.wildcard = TRUE])>>, Good(<<Ctx, Conn>>)),
   Method(<<Endpoint, Other, Channel, Endpoint>>, Good(<<Ctx, Conn>>)),
   [Method(<<Endpoint>>, Good(<<Ctx>>)) EXCEPT !.vis = TRUE],
   [Method(<<Channel>>, Good(<<Ctx, Conn>>)) EXCEPT !.raw = TRUE],
   [Method(<<Other>>, Good(<<>>)) EXCEPT !.raw = TRUE]}

Others ==
  {Item("type", "Context", FALSE, <<Other>>), Item("type", "Context", TRUE, <<Endpoint>>),
   Item("type", "Ctx", FALSE, <<>>), Item("const", "c", FALSE, <<Channel, Endpoint>>),
   Item("macro", "m", FALSE, <<Other>>)}

MCTraitItems == Methods \cup Others

ApiMeta == [parses |-> TRUE, versions |-> None, context |-> None, module |-> None,
            tag_config |-> [policy |-> "none", tags |-> {"t"}]]

MCApiArgs ==
  {ApiMeta, [ApiMeta EXCEPT !.parses = FALSE],
   [ApiMeta EXCEPT !.context = [id |-> "Ctx", ident |-> TRUE], !.tag_config = None],
   [ApiMeta EXCEPT !.context = [id |-> "a b", ident |-> FALSE]],
   [ApiMeta EXCEPT !.module = [ident |-> FALSE]]}
MCTraitQuals == {{}, {"unsafe", "where"}}
MCItemIdents == <<"f1", "f2", "f3", "f4">>

----------------------------------------------------------------------------
(* The collectors that the macros report errors to, as users of ErrorStore *)
(* could arrange them: a behaviour is one of the macros or one of these.   *)

VARIABLES
  part,                        \* "macros" or "errors": which is looked at
  store_errors, sinks, curr, taken, above, origin   \* of ErrorStore

E == INSTANCE ErrorStore WITH
       Errors <- {"e"}, MaxSinks <- 5, MaxErrors <- 3, errors <- store_errors

storeVars == <<store_errors, sinks, curr, taken, above, origin>>
allVars == <<part, vars, storeVars>>

\* No macro has begun.
QuietMacros ==
  /\ job = [macro |-> "endpoint"] /\ pc = "start" /\ metadata = None /\ valid = FALSE
  /\ context = [is |-> "Missing"] /\ items = <<>> /\ next = 1
  /\ errors = <<>> /\ out = Nothing

MCInit ==
  \/ part = "macros" /\ Init /\ E!Init
  \/ part = "errors" /\ QuietMacros /\ E!Init

MCNext ==
  /\ \/ part = "macros" /\ Next /\ UNCHANGED storeVars
     \/ part = "errors" /\ E!Next /\ UNCHANGED vars
  /\ UNCHANGED part

MCSpec == MCInit /\ [][MCNext]_allVars

----------------------------------------------------------------------------
(* The properties of ErrorStore; see there. *)

\* A sink says that it has errors exactly when one was pushed to it or to a
\* descendant (error_store.rs:73-76).
SinksExact == E!SinksExact
=============================================================================
