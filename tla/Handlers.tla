------------------------------ MODULE Handlers ------------------------------
(***************************************************************************)
(* How dropshot's macros judge one handler: its signature                  *)
(* (dropshot_endpoint/src/params.rs, EndpointParams in endpoint.rs,        *)
(* ChannelParams in channel.rs) and its metadata (metadata.rs).            *)
(*                                                                         *)
(* A validator returns a value and the errors it pushed, in order.  Each   *)
(* of them works on a sink of its own; that has_errors() of such a sink    *)
(* means "this validator pushed something" is what ErrorStore promises.    *)
(*                                                                         *)
(* A type is known by its name, by its outermost form, by its one type     *)
(* argument, and by the nodes that syn's visitor meets in it:              *)
(*   form   "notpath", "noargs", "one", or "badargs" (parentheses, several *)
(*          arguments, an argument that is no type)                        *)
(*   nodes  of "bound", "lifetime", "static", "Self", "impl"               *)
(***************************************************************************)
EXTENDS Integers, Sequences, SequencesExt

None  == [none |-> TRUE]
Panic == [panic |-> TRUE]       \* unreachable!() was reached in the macro

V == INSTANCE Versions WITH NoVersion <- None

\* An error: whom it names, which part of it is at fault, and what is wrong.
Err(about, part, msg) == [about |-> about, part |-> part, msg |-> msg]

\* Iterator::filter(): the elements of seq that are in set, after k of them and
\* after all.
Kept(seq, set) ==
  LET kept[k \in 0..Len(seq)] ==
        IF k = 0 THEN <<>>
        ELSE IF seq[k] \in set THEN Append(kept[k - 1], seq[k]) ELSE kept[k - 1]
  IN kept

Filter(seq, set) == Kept(seq, set)[Len(seq)]

\* quote! with several iterators in a repetition stops at the shortest.
QuoteZip(a, b) ==
  [i \in 1..(IF Len(a) < Len(b) THEN Len(a) ELSE Len(b)) |-> <<a[i], b[i]>>]

Type(of, assoc)      == [name |-> <<of, assoc>>, form |-> "noargs", arg |-> None,
                         nodes |-> IF of \in {"Self", "<Self>"} THEN <<"Self">> ELSE <<>>]
RequestContext(arg)  == [name |-> <<"RequestContext", "">>, form |-> "one",
                         arg |-> arg, nodes |-> arg.nodes]
WebsocketUpgrade     == Type("WebsocketUpgrade", "")
EndpointResult       == Type("WebsocketEndpointResult", "")
UnitTy               == Type("()", "")

----------------------------------------------------------------------------
(* params.rs *)

\* What validate_fn_ast() looks for, in its order.
FnRules == <<"const", "not async", "safe", "unsafe", "abi", "generics",
             "where", "variadic">>

validate_fn_ast(sig) ==
  LET found == Filter(FnRules, sig.quals)
  IN [k \in DOMAIN found |-> Err(sig.ident, "params", <<found[k], "">>)]

\* The visitor objects to every node but the 'static lifetime.
validate_param_ty(ty, kind, name) ==
  LET bad  == Filter(ty.nodes, Range(ty.nodes) \ {"static"})
      errs == [k \in DOMAIN bad |-> Err(name, "params", <<bad[k], kind>>)]
  IN [val |-> IF errs = <<>> THEN ty ELSE None, errs |-> errs]

\* extract_rqctx_param() and its _mut twin: Err, Ok(None) or Ok(Some(arg)).
extract_rqctx_param(ty) ==
  IF ty.form = "one" THEN [ok |-> TRUE, arg |-> ty.arg]
  ELSE [ok |-> ty.form = "noargs", arg |-> None]

\* Faulty variant: an alias is turned down on a trait without saying so.
RqctxTyTraitSilent(name, context, ty) ==
  LET found == extract_rqctx_param(ty)
  IN IF ~found.ok \/ found.arg = None
     THEN [val |-> None, errs |-> <<>>]
     ELSE [val |-> [orig |-> ty, unit |-> [ty EXCEPT !.arg = UnitTy],
                    server_impl |-> [ty EXCEPT !.arg = Type("<ServerImpl>", context)]],
           errs |-> <<>>]

\* RqctxTy::new() for a trait: the argument must be the trait's context.
RqctxTyTrait(name, context, ty) ==
  LET found == extract_rqctx_param(ty)
  IN IF \/ ~found.ok \/ found.arg = None
        \/ found.arg.name \notin {<<"Self", context>>, <<"<Self>", context>>}
     THEN [val |-> None, errs |-> <<Err(name, "params", <<"not", "RequestContext">>)>>]
     ELSE [val |-> [orig |-> ty, unit |-> [ty EXCEPT !.arg = UnitTy],
                    server_impl |-> [ty EXCEPT !.arg = Type("<ServerImpl>", context)]],
           errs |-> <<>>]

\* RqctxTy::new() for a function: an alias is taken at its word.
RqctxTyFunction(name, ty) ==
  LET found == extract_rqctx_param(ty)
      valid == [orig |-> ty, unit |-> ty, server_impl |-> ty]
      inner == validate_param_ty(found.arg, "RequestContext", name)
  IN CASE ~found.ok -> [val |-> None, errs |-> <<Err(name, "params", <<"not", "RequestContext">>)>>]
       [] found.ok /\ found.arg = None -> [val |-> valid, errs |-> <<>>]
       [] OTHER -> [val |-> IF inner.val = None THEN None ELSE valid, errs |-> inner.errs]

\* rqctx_kind is None for a function, or the context's name for a trait.
RqctxTy(name, kind, ty) ==
  IF kind = None THEN RqctxTyFunction(name, ty) ELSE RqctxTyTrait(name, kind.context, ty)

\* RqctxTy::to_context()
to_context(rqctx) == <<rqctx.unit, "RequestContextArgument::Context">>

maybe_discard_self_arg(sig) ==
  IF sig.receiver THEN <<Err(sig.ident, "params", <<"self", "">>)>> ELSE <<>>

\* The arguments that follow the receiver, if there is one.
next_rqctx_arg(sig, kind) ==
  IF sig.inputs = <<>>
  THEN [val |-> None, errs |-> <<Err(sig.ident, "params", <<"no", "RequestContext">>)>>]
  ELSE RqctxTy(sig.ident, kind, Head(sig.inputs))

\* The last argument is not validated yet.
next_rqctx_and_last_websocket_args(sig, kind) ==
  IF Len(sig.inputs) < 2
  THEN [rqctx |-> [val |-> None,
                   errs |-> <<Err(sig.ident, "params", <<"fewer than", "two">>)>>],
        websocket |-> None]
  ELSE [rqctx |-> RqctxTy(sig.ident, kind, Head(sig.inputs)), websocket |-> Last(sig.inputs)]

\* The types that pass, and what is wrong with the others.
rest_extractor_args(tys, name) ==
  LET seen[k \in 0..Len(tys)] ==
        IF k = 0 THEN [val |-> <<>>, errs |-> <<>>]
        ELSE LET ty == validate_param_ty(tys[k], "extractor", name)
             IN [val  |-> IF ty.val = None THEN seen[k - 1].val ELSE Append(seen[k - 1].val, ty.val),
                 errs |-> seen[k - 1].errs \o ty.errs]
  IN seen[Len(tys)]

\* Faulty variant: a function without a return type is turned down silently.
return_typeSilent(sig) ==
  IF sig.output = None THEN [val |-> None, errs |-> <<>>]
  ELSE validate_param_ty(sig.output, "return type", sig.ident)

return_type(sig) ==
  IF sig.output = None
  THEN [val |-> None, errs |-> <<Err(sig.ident, "params", <<"no", "return type">>)>>]
  ELSE validate_param_ty(sig.output, "return type", sig.ident)

----------------------------------------------------------------------------
(* EndpointParams *)

\* EndpointParams::new(): errors first, and only then the parts.
EndpointParams(sig, kind) ==
  LET rqctx == next_rqctx_arg(sig, kind)
      rest  == rest_extractor_args(IF sig.inputs = <<>> THEN <<>> ELSE Tail(sig.inputs), sig.ident)
      ret   == return_type(sig)
      errs  == validate_fn_ast(sig) \o maybe_discard_self_arg(sig)
                 \o rqctx.errs \o rest.errs \o ret.errs
  IN [errs |-> errs,
      val |-> CASE errs # <<>> -> None
                [] errs = <<>> /\ (rqctx.val = None \/ ret.val = None) -> Panic
                [] OTHER -> [channel |-> FALSE, rqctx_ty |-> rqctx.val, ret_ty |-> ret.val,
                             shared    |-> IF rest.val = <<>> THEN <<>> ELSE Front(rest.val),
                             exclusive |-> IF rest.val = <<>> THEN <<>> ELSE <<Last(rest.val)>>]]

\* ChannelParams::new()
ChannelParams(sig, kind) ==
  LET both  == next_rqctx_and_last_websocket_args(sig, kind)
      rest  == rest_extractor_args(SubSeq(sig.inputs, 2, Len(sig.inputs) - 1), sig.ident)
      conn  == IF both.websocket = None THEN [val |-> None, errs |-> <<>>]
               ELSE validate_param_ty(both.websocket, "WebsocketConnection", sig.ident)
      ret   == return_type(sig)
      errs  == validate_fn_ast(sig) \o maybe_discard_self_arg(sig)
                 \o both.rqctx.errs \o rest.errs \o conn.errs \o ret.errs
  IN [errs |-> errs,
      val |-> CASE errs # <<>> -> None
                [] errs = <<>> /\ None \in {both.rqctx.val, conn.val, ret.val} -> Panic
                [] OTHER -> [channel |-> TRUE, rqctx_ty |-> both.rqctx.val, ret_ty |-> ret.val,
                             shared |-> rest.val, exclusive |-> <<conn.val>>]]

\* EndpointParams: the names that the generated code gives to the arguments.
EndpointArgNames(p) == [k \in 1..(1 + Len(p.shared) + Len(p.exclusive)) |-> <<"arg", k - 1>>]

\* ChannelParams: the same, and one name for the connection and the upgrade.
ChannelArgNames(p) ==
  [k \in 1..(1 + Len(p.shared)) |-> <<"arg", k - 1>>] \o <<<<"__dropshot_websocket", 0>>>>

arg_names(p) == IF p.channel THEN ChannelArgNames(p) ELSE EndpointArgNames(p)

arg_types(p) == <<p.rqctx_ty.unit>> \o p.shared \o p.exclusive

\* ChannelParams::extractor_types(), those of the adapter
ChannelExtractorTypes(p) == p.shared \o <<WebsocketUpgrade>>

extractor_types(p) == IF p.channel THEN ChannelExtractorTypes(p) ELSE p.shared \o p.exclusive

\* Faulty variant: the adapter is declared with the shared extractors only.
adapter_arg_typesShort(p) == <<p.rqctx_ty.server_impl>> \o p.shared

adapter_arg_types(p) == <<p.rqctx_ty.server_impl>> \o ChannelExtractorTypes(p)

\* The types that the code generated for an endpoint puts to the test.
EndpointTypeChecks(p) ==
  [rqctx |-> to_context(p.rqctx_ty), shared |-> p.shared, last |-> p.exclusive, ret |-> p.ret_ty]

\* ChannelParams::to_type_checks(): the return type is not among them.
ChannelTypeChecks(p) ==
  [rqctx |-> to_context(p.rqctx_ty), shared |-> p.shared, last |-> p.exclusive, ret |-> None]

\* A function whose future must be Send, with the user's arguments.
to_impl_checks(p) == [params |-> QuoteZip(arg_names(p), arg_types(p)), call |-> arg_names(p)]

\* The adapter takes the upgrade, and hands the connection on by the same name.
to_adapter_fn(p) ==
  [params |-> QuoteZip(arg_names(p), adapter_arg_types(p)), result |-> EndpointResult,
   conn |-> Last(p.exclusive), call |-> arg_names(p)]

----------------------------------------------------------------------------
(* metadata.rs *)

\* parse_semver(): a literal must be a version without pre-release and build.
parse_semver(spec) == spec.semver /\ ~spec.pre /\ ~spec.build

\* VersionSpecifier::parse(); a path is taken as it is.
VersionSpecifierOk(spec) == spec.lit => parse_semver(spec)

\* Faulty variant: two literals are not compared.
VersionRangeUnordered(text) == text.from # None => VersionSpecifierOk(text.from)

\* VersionRange::parse(): whether the text is taken.  None stands for an end
\* that is left out.
VersionRangeOk(text) ==
  /\ text.from # None => VersionSpecifierOk(text.from)
  /\ text.until # None => VersionSpecifierOk(text.until)
  /\ (text.from # None /\ text.until # None) =>
       ((text.from.lit /\ text.until.lit) => ~(text.until.v < text.from.v))

\* from_tokenstream() into EndpointMetadata or ChannelMetadata.
from_tokenstream(meta) == meta.parses /\ (meta.versions # None => VersionRangeOk(meta.versions))

\* The range a handler is registered with: All when none is given.
MetaVersions(meta) == IF meta.versions = None THEN [from |-> None, until |-> None] ELSE meta.versions

\* EndpointMetadata::validate()
EndpointValidate(meta, name, onTrait) ==
  LET content_type == CASE meta.content_type = "none" -> "application/json"
                        [] meta.content_type = "bad" -> "none"
                        [] OTHER -> meta.content_type
      errs == (IF onTrait /\ meta.crate THEN <<Err(name, "metadata", <<"crate", "">>)>> ELSE <<>>)
           \o (IF meta.wildcard /\ ~meta.unpublished
               THEN <<Err(name, "metadata", <<"wildcard", "">>)>> ELSE <<>>)
           \o (IF content_type = "none" THEN <<Err(name, "metadata", <<"content type", "">>)>> ELSE <<>>)
  IN [errs |-> errs,
      val |-> CASE errs # <<>> -> None
                [] errs = <<>> /\ content_type = "none" -> Panic
                [] OTHER -> [operation_id |-> meta.operation_id, method |-> meta.method,
                             path |-> meta.path, unpublished |-> meta.unpublished,
                             max_bytes |-> meta.max_bytes, content_type |-> content_type,
                             versions |-> MetaVersions(meta)]]

\* ChannelMetadata::validate(): always GET, JSON and without a cap.
ChannelValidate(meta, name, onTrait) ==
  LET errs == (IF onTrait /\ meta.crate THEN <<Err(name, "metadata", <<"crate", "">>)>> ELSE <<>>)
           \o (IF meta.wildcard THEN <<Err(name, "metadata", <<"wildcard", "">>)>> ELSE <<>>)
  IN [errs |-> errs,
      val |-> IF errs # <<>> THEN None
              ELSE [operation_id |-> meta.operation_id, method |-> "GET",
                    path |-> meta.path, unpublished |-> meta.unpublished,
                    max_bytes |-> None, content_type |-> "application/json",
                    versions |-> MetaVersions(meta)]]

\* ValidatedEndpointMetadata::to_api_endpoint_fn(): the generated
\* ApiEndpoint::new() or new_for_types() call and the builder calls on it.
to_api_endpoint_fn(meta, name, handler, types) ==
  [operation_id |-> IF meta.operation_id = None THEN name ELSE meta.operation_id.id,
   method |-> meta.method, content_type |-> meta.content_type, path |-> meta.path,
   versions |-> meta.versions, visible |-> ~meta.unpublished, max_bytes |-> meta.max_bytes,
   handler |-> handler, types |-> types]

\* semver_parts() asserts that no literal has more than its three numbers.
LiteralsPlain(text) ==
  \A spec \in {text.from, text.until} \ {None} : spec.lit => ~spec.pre /\ ~spec.build

\* The generated from_until(..).unwrap() compares the values of both ends, be
\* they literals or constants that the user names.
RangeUnwraps(text) ==
  (text.from # None /\ text.until # None) => V!FromUntilOk(text.from.v, text.until.v)

\* An end is the path of a constant, whose value the macro cannot see.
Identified(text) == \E spec \in {text.from, text.until} \ {None} : ~spec.lit

\* The generated range can be made, or fails for a constant that is named.
VersionsBuild(text) == LiteralsPlain(text) /\ (RangeUnwraps(text) \/ Identified(text))
=============================================================================
