------------------------------- MODULE Macros -------------------------------
(***************************************************************************)
(* dropshot's attribute macros (dropshot_endpoint/src): #[endpoint] and    *)
(* #[channel] on a function, #[api_description] on a trait.  A job is one  *)
(* use of a macro: the macro, its arguments and the item it is put on.     *)
(* The macros keep going after an error, so that the compiler reports as   *)
(* much as possible; what they leave behind is the output.                 *)
(***************************************************************************)
EXTENDS Handlers, FiniteSets

CONSTANTS
  FnArgs,         \* arguments of #[endpoint] and #[channel] on a function
  FnQuals,        \* what may be wrong with the function around its arguments
  InputTypes,     \* types of arguments
  MaxInputs,      \* bound: arguments of a function
  Outputs,        \* return types, None for none
  ApiArgs,        \* arguments of #[api_description]
  TraitQuals,     \* what may be wrong with the trait
  TraitItems,     \* items of a trait
  MaxItems,       \* bound: items of a trait
  ItemIdents      \* identifiers for functions, constants and macros of a trait

VARIABLES
  job,            \* what the macro is applied to
  pc,             \* how far it has come
  metadata,       \* the parsed arguments, or None
  valid,          \* ApiItemTrait::is_valid
  context,        \* ContextItem
  items,          \* ApiParser::items
  next,           \* the next item of the trait to be looked at
  errors,         \* the errors reported so far
  out             \* the output

vars == <<job, pc, metadata, valid, context, items, next, errors, out>>

\* What errors name that are not about an item of a trait.
NoItem == {"args", "item", "trait", "context", "usage"}

IsType(ty) ==
  /\ ty # None /\ ty.nodes \in Seq(Range(ty.nodes))
  /\ (ty.form = "one" /\ ty.arg # None) => ty.arg.nodes \in Seq(Range(ty.arg.nodes))

\* Types have nodes and items their parts; the items of a trait that are not
\* types have identifiers of their own, and none is called what NoItem is for.
\* `raw` says of a method that its name is written r#name.
ASSUME MacrosAssumption ==
  /\ MaxInputs \in Nat /\ MaxItems \in Nat
  /\ \A ty \in InputTypes \cup (Outputs \ {None}) : IsType(ty)
  /\ None \notin FnArgs \cup ApiArgs
  /\ \A item \in TraitItems :
       /\ {"what", "ident", "vis", "default", "generics", "attrs"} \subseteq DOMAIN item
       /\ item.attrs \in Seq(Range(item.attrs))
       /\ item.what = "type" => item.ident \notin NoItem \cup Range(ItemIdents)
       /\ item.what = "fn" =>
            /\ {"sig", "body", "raw"} \subseteq DOMAIN item
            /\ DOMAIN item.sig = {"ident", "quals", "receiver", "inputs", "output"}
            /\ item.sig.inputs \in Seq(Range(item.sig.inputs))
            /\ \A ty \in Range(item.sig.inputs) \cup ({item.sig.output} \ {None}) : IsType(ty)
  /\ ItemIdents \in Seq(Range(ItemIdents)) /\ IsInjective(ItemIdents)
  /\ Len(ItemIdents) >= MaxItems /\ Range(ItemIdents) \cap NoItem = {}

OnFunction == job.macro \in {"endpoint", "channel"}

Nothing == [kind |-> "nothing", params |-> FALSE]

----------------------------------------------------------------------------
(* #[endpoint] and #[channel] on a function *)

\* The early return of do_endpoint() and do_channel() for a function without
\* a body.
TraitFunction ==
  /\ pc = "start" /\ OnFunction
  /\ job.item.traitFn
  /\ errors' = <<Err("item", "item", <<"trait function", "">>)>>
  /\ out' = [kind |-> "item", params |-> FALSE]
  /\ pc' = "done"
  /\ UNCHANGED <<job, metadata, valid, context, items, next>>

\* The arguments, for all three macros.
ParseArgs ==
  /\ pc = "start"
  /\ OnFunction => ~job.item.traitFn
  /\ IF from_tokenstream(job.args)
     THEN metadata' = job.args /\ UNCHANGED errors
     ELSE metadata' = None /\ errors' = Append(errors, Err("args", "args", <<"bad", "">>))
  /\ pc' = "item"
  /\ UNCHANGED <<job, valid, context, items, next, out>>

\* The item cannot be parsed: nothing but errors is returned.
ItemUnparsable ==
  /\ pc = "item" /\ ~job.item.parses
  /\ errors' = Append(errors, Err("item", "item", <<"unparsable", "">>))
  /\ out' = Nothing
  /\ pc' = "usage"
  /\ UNCHANGED <<job, metadata, valid, context, items, next>>

\* Without metadata the function is returned as it is.
FunctionAsIs ==
  /\ pc = "item" /\ OnFunction /\ job.item.parses /\ metadata = None
  /\ out' = [kind |-> "item", params |-> FALSE]
  /\ pc' = "usage"
  /\ UNCHANGED <<job, metadata, valid, context, items, next, errors>>

\* The struct and the constant are always there; the function itself is part of
\* the From impl, which takes valid parameters, and the constructor in it valid
\* metadata too.
Inner(meta, params, from_impl, construct(_)) ==
  /\ errors' = errors \o meta.errs \o params.errs
  /\ out' = IF Panic \in {meta.val, params.val} THEN Panic
            ELSE [kind |-> "struct", params |-> params.val = None,
                  from_impl |-> IF params.val = None THEN None ELSE from_impl,
                  construct |-> IF None \in {meta.val, params.val} THEN None
                                ELSE construct(meta.val)]
  /\ pc' = IF out' = Panic THEN "done" ELSE "usage"
  /\ UNCHANGED <<job, metadata, valid, context, items, next>>

ReadyFor(macro) == pc = "item" /\ job.macro = macro /\ job.item.parses /\ metadata # None

do_endpoint_inner ==
  /\ ReadyFor("endpoint")
  /\ LET sig    == job.item.sig
         params == EndpointParams(sig, None)
         p      == params.val
     IN Inner(EndpointValidate(metadata, sig.ident, FALSE), params,
              [checks |-> EndpointTypeChecks(p), impl |-> to_impl_checks(p), adapter |-> None],
              LAMBDA meta : to_api_endpoint_fn(meta, sig.ident, "fn", <<>>))

do_channel_inner ==
  /\ ReadyFor("channel")
  /\ LET sig    == job.item.sig
         params == ChannelParams(sig, None)
         p      == params.val
     IN Inner(ChannelValidate(metadata, sig.ident, FALSE), params,
              [checks |-> ChannelTypeChecks(p), impl |-> to_impl_checks(p),
               adapter |-> to_adapter_fn(p)],
              LAMBDA meta : to_api_endpoint_fn(meta, sig.ident, "adapter", <<>>))

----------------------------------------------------------------------------
(* #[api_description] on a trait: ApiParser *)

TraitRules == <<"unsafe", "auto", "generics", "where">>

\* ApiItemTrait::new(), which runs with and without metadata.
ApiItemTrait ==
  /\ pc = "item" /\ ~OnFunction /\ job.item.parses
  /\ LET bad == Filter(TraitRules, job.item.quals)
     IN /\ errors' = errors \o [k \in DOMAIN bad |-> Err("trait", "trait", <<bad[k], "">>)]
        /\ valid' = (bad = <<>>)
  /\ IF metadata = None
     THEN /\ items' = [k \in DOMAIN job.item.items |->
                        [is |-> "Other", item |-> job.item.items[k]]]
          /\ pc' = "output"
     ELSE pc' = "context" /\ UNCHANGED items
  /\ UNCHANGED <<job, metadata, context, next, out>>

ContextName == IF metadata.context = None THEN "Context" ELSE metadata.context.id

\* TraitItemPartParsed::parse(): a function is taken apart unless it has a
\* visibility or `default`, which leaves it to syn as verbatim tokens.
ItemKind(item) ==
  IF item.what = "fn" /\ (item.vis \/ item.default) THEN "verbatim" ELSE item.what

IsContext(item) == ItemKind(item) = "type" /\ item.ident = ContextName

ContextItems(list) == Filter(list, {item \in Range(list) : IsContext(item)})

\* A name given as a string that is no identifier: format_ident! panics on it.
Unfit(name) == name # None /\ ~name.ident

\* The names that the first pass makes identifiers of: the one of the module,
\* and the one of a context that the trait does not have.
NamesUnfit ==
  \/ Unfit(metadata.module)
  \/ Unfit(metadata.context) /\ ContextItems(job.item.items) = <<>>

\* The macro panics: the compiler says so, and no other error is reported.
Panics ==
  /\ pc' = "panicked"
  /\ UNCHANGED <<job, metadata, valid, context, items, next, errors, out>>

\* ContextItem::new_missing() and ApiParser::new() on such a name.
ContextPanics ==
  /\ pc = "context" /\ NamesUnfit
  /\ Panics

\* The first pass over the items.
FindContext ==
  /\ pc = "context" /\ ~NamesUnfit
  /\ LET found == ContextItems(job.item.items)
     IN IF found = <<>>
        THEN /\ context' = [is |-> "Missing"]
             /\ errors' = Append(errors, Err("context", "trait", <<"missing", "">>))
        ELSE /\ context' = [is |-> IF Head(found).generics THEN "Invalid" ELSE "Valid",
                            item |-> Head(found)]
             /\ errors' = IF Head(found).generics
                          THEN Append(errors, Err("context", "trait", <<"generics", "">>))
                          ELSE errors
  /\ pc' = "items"
  /\ UNCHANGED <<job, metadata, valid, items, next, out>>

IsMark(attr) == attr.path \in {"endpoint", "channel"}

Recognized(attrs) == Filter(attrs, {a \in Range(attrs) : IsMark(a)})

\* Faulty variant: every attribute is stripped.
strip_recognized_attrsAll(attrs) == <<>>

\* StripRecognizedAttrs
strip_recognized_attrs(attrs) == Filter(attrs, {a \in Range(attrs) : ~IsMark(a)})

\* check_endpoint_or_channel_on_non_fn()
NonFnErrors(item) ==
  LET marked(path) == \E k \in DOMAIN item.attrs : item.attrs[k].path = path
  IN (IF marked("endpoint") THEN <<Err(item.ident, "marks", <<"endpoint", "non fn">>)>> ELSE <<>>)
  \o (IF marked("channel") THEN <<Err(item.ident, "marks", <<"channel", "non fn">>)>> ELSE <<>>)

\* The arguments of a mark and how they were judged; without parentheses they
\* are not arguments.
ParseMark(item, attr, validated) ==
  CASE ~attr.meta.list -> [val |-> None, errs |-> <<Err(item.ident, "metadata", <<"form", "">>)>>]
    [] attr.meta.list /\ ~from_tokenstream(attr.meta) ->
         [val |-> None, errs |-> <<Err(item.ident, "metadata", <<"bad", "">>)>>]
    [] OTHER -> validated

parse_endpoint_metadata(item, attr) ==
  ParseMark(item, attr, EndpointValidate(attr.meta, item.ident, TRUE))

parse_channel_metadata(item, attr) ==
  ParseMark(item, attr, ChannelValidate(attr.meta, item.ident, TRUE))

\* Faulty variant: the parameters are only blamed when the metadata is right.
MarkedFnMetadataFirst(item, kind, meta, params) ==
  [errs |-> meta.errs \o params.errs,
   api  |-> CASE Panic \in {meta.val, params.val} -> Panic
              [] {None, Panic} \cap {meta.val, params.val} = {} ->
                   [is |-> kind, item |-> item, metadata |-> meta.val, params |-> params.val]
              [] OTHER -> [is |-> "Invalid", item |-> item, kind |-> kind,
                           params |-> meta.val # None /\ params.val = None]]

\* Both verdicts are reached; the function is managed if both are good.
MarkedFn(item, kind, meta, params) ==
  [errs |-> meta.errs \o params.errs,
   api  |-> CASE Panic \in {meta.val, params.val} -> Panic
              [] {None, Panic} \cap {meta.val, params.val} = {} ->
                   [is |-> kind, item |-> item, metadata |-> meta.val, params |-> params.val]
              [] OTHER -> [is |-> "Invalid", item |-> item, kind |-> kind,
                           params |-> params.val = None]]

\* ApiEndpoint::new()
ApiEndpoint(item, attr) ==
  MarkedFn(item, "endpoint", parse_endpoint_metadata(item, attr),
           EndpointParams(item.sig, [context |-> ContextName]))

\* ApiChannel::new()
ApiChannel(item, attr) ==
  MarkedFn(item, "channel", parse_channel_metadata(item, attr),
           ChannelParams(item.sig, [context |-> ContextName]))

\* One mark, of either kind.
ApiMarked(item, attr) ==
  IF attr.path = "channel" THEN ApiChannel(item, attr) ELSE ApiEndpoint(item, attr)

\* Faulty variant: a second mark of the same kind is let through.
ApiFnItemFirstMark(item) ==
  LET marks == Recognized(item.attrs)
  IN IF marks = <<>> THEN [api |-> [is |-> "Unmanaged", item |-> item], errs |-> <<>>]
     ELSE IF Len(marks) = 1 THEN ApiMarked(item, marks[1])
     ELSE [api |-> [is |-> "Unmanaged", item |-> item], errs |-> <<>>]

\* ApiFnItem::new(): no mark, one mark, or an error for each that is too many.
ApiFnItem(item) ==
  LET marks == Recognized(item.attrs)
  IN CASE marks = <<>> -> [api |-> [is |-> "Unmanaged", item |-> item], errs |-> <<>>]
       [] Len(marks) = 1 -> ApiMarked(item, marks[1])
       [] OTHER -> [api |-> [is |-> "Invalid", item |-> item, kind |-> "Unknown", params |-> FALSE],
                    errs |-> [k \in 1..(Len(marks) - 1) |->
                                Err(item.ident, "marks", <<marks[1].path, marks[k + 1].path>>)]]

\* One turn of the second pass over the items.
ParseItem ==
  /\ pc = "items" /\ next <= Len(job.item.items)
  /\ LET item == job.item.items[next]
         kind == ItemKind(item)
         fn   == ApiFnItem(item)
     IN \/ /\ kind = "fn"
           /\ errors' = errors \o fn.errs
           /\ items' = Append(items, fn.api)
           /\ pc' = IF fn.api = Panic THEN "done" ELSE pc
           /\ out' = IF fn.api = Panic THEN Panic ELSE out
        \/ /\ kind # "fn"
           /\ errors' = IF kind = "verbatim" THEN errors ELSE errors \o NonFnErrors(item)
           /\ items' = IF IsContext(item) THEN items
                       ELSE Append(items, [is |-> "Other", item |-> item])
           /\ UNCHANGED <<pc, out>>
  /\ next' = next + 1
  /\ UNCHANGED <<job, metadata, valid, context>>

ItemsDone ==
  /\ pc = "items" /\ next > Len(job.item.items)
  /\ pc' = "output"
  /\ UNCHANGED <<job, metadata, valid, context, items, next, errors, out>>

----------------------------------------------------------------------------
(* ApiParser::to_output() *)

\* transform_signature(): `async` moves from the signature to the body.
transform_signature(item) ==
  [item EXCEPT !.attrs = strip_recognized_attrs(@),
               !.sig = [@ EXCEPT !.quals = @ \union {"not async"},
                                 !.output = Type("impl Future + Send", "")],
               !.body = IF @ = "none" THEN @ ELSE "async move"]

\* ToTokens of syn_parsing.rs: the inner attributes of a method are not printed.
Printed(item) ==
  IF ItemKind(item) # "fn" THEN item
  ELSE [item EXCEPT !.attrs = Filter(@, {a \in Range(@) : ~a.inner})]

\* ApiItem::to_out_trait_item()
to_out_trait_item(api) ==
  Printed(IF api.is \in {"endpoint", "channel"} THEN transform_signature(api.item)
          ELSE IF ItemKind(api.item) = "verbatim" THEN api.item
          ELSE [api.item EXCEPT !.attrs = strip_recognized_attrs(@)])

\* make_context_trait_item(): as it is, with the ServerContext bound.
make_context_trait_item ==
  IF metadata = None \/ context.is = "Missing" THEN <<>> ELSE <<context.item>>

HasInvalidFnItems == \E k \in DOMAIN items : items[k].is = "Invalid"

\* ApiEndpoint::to_api_endpoint()
EndpointRegular(api) ==
  [name |-> api.item.ident, adapter |-> None,
   endpoint |-> to_api_endpoint_fn(api.metadata, api.item.ident, "method", <<>>)]

EndpointStub(api) ==
  [name |-> api.item.ident, adapter |-> None,
   endpoint |-> to_api_endpoint_fn(api.metadata, api.item.ident, "stub",
                                   extractor_types(api.params) \o <<api.params.ret_ty>>)]

\* ApiChannel::to_api_endpoint()
ChannelRegular(api) ==
  [name |-> api.item.ident, adapter |-> to_adapter_fn(api.params),
   endpoint |-> to_api_endpoint_fn(api.metadata, api.item.ident, "adapter", <<>>)]

\* Faulty variant: the stub of a channel takes the connection's type.
ChannelStubUserTypes(api) ==
  [name |-> api.item.ident, adapter |-> None,
   endpoint |-> to_api_endpoint_fn(api.metadata, api.item.ident, "stub",
                  api.params.shared \o api.params.exclusive \o <<EndpointResult>>)]

\* The types of the adapter, not those of the method.
ChannelStub(api) ==
  [name |-> api.item.ident, adapter |-> None,
   endpoint |-> to_api_endpoint_fn(api.metadata, api.item.ident, "stub",
                                   extractor_types(api.params) \o <<EndpointResult>>)]

RegularEndpoint(api) == IF api.is = "channel" THEN ChannelRegular(api) ELSE EndpointRegular(api)
StubEndpoint(api)    == IF api.is = "channel" THEN ChannelStub(api) ELSE EndpointStub(api)

\* make_tag_config(): the policy defaults to Any.
make_tag_config ==
  IF metadata.tag_config = None THEN None
  ELSE [metadata.tag_config EXCEPT !.policy = IF @ = "none" THEN "Any" ELSE @]

\* make_api_factory_body(): a body that panics, or one that registers all.
make_api_factory_body(stub) ==
  IF HasInvalidFnItems THEN Panic
  ELSE LET managed == Filter(items, {a \in Range(items) : a.is \in {"endpoint", "channel"}})
       IN [tag_config |-> make_tag_config,
           register |-> [k \in DOMAIN managed |->
              IF stub THEN StubEndpoint(managed[k]) ELSE RegularEndpoint(managed[k])]]

\* make_type_checks(): channels only, to_trait_type_checks()
make_type_checks ==
  LET channels == Filter(items, {a \in Range(items) : a.is = "channel"})
  IN [k \in DOMAIN channels |-> Last(channels[k].params.exclusive)]

\* ModuleDocComments are of the invalid kind exactly when the factories panic.
make_module ==
  CASE metadata = None -> None
    [] metadata # None /\ ~(valid /\ context.is = "Valid") -> [empty |-> TRUE]
    [] OTHER -> [empty |-> FALSE, invalid_docs |-> HasInvalidFnItems,
                 checks |-> make_type_checks,
                 stub |-> make_api_factory_body(TRUE), api |-> make_api_factory_body(FALSE)]

\* Whether some invalid item of a kind has parameter errors.
ParamErrors(kind) ==
  \E k \in DOMAIN items : items[k].is = "Invalid" /\ items[k].kind = kind /\ items[k].params

\* A managed function whose name is written r#name: both factories make
\* "endpoint_r#name" of it, which is no identifier.
RawEndpoint ==
  \E k \in DOMAIN items : items[k].is \in {"endpoint", "channel"} /\ items[k].item.raw

\* The factories are only made when they could work.
OutputUnfit ==
  metadata # None /\ valid /\ context.is = "Valid" /\ ~HasInvalidFnItems /\ RawEndpoint

\* to_api_endpoint_impl() on such a function.
OutputPanics ==
  /\ pc = "output" /\ OutputUnfit
  /\ Panics

to_output ==
  /\ pc = "output" /\ ~OutputUnfit
  /\ out' = [kind |-> "trait",
             dead_code |-> ~job.item.pub,
             items |-> make_context_trait_item
                         \o [k \in DOMAIN items |-> to_out_trait_item(items[k])],
             module |-> make_module,
             endpoint |-> metadata # None /\ ParamErrors("endpoint"),
             channel |-> metadata # None /\ ParamErrors("channel")]
  /\ pc' = "usage"
  /\ UNCHANGED <<job, metadata, valid, context, items, next, errors>>

----------------------------------------------------------------------------
(* The usage messages, put in front; do_output() prints them all. *)

UsageErr(kind) == Err("usage", "usage", <<kind, "">>)

\* Faulty variant: the usage of one kind only, after the errors.
UsageLast ==
  /\ pc = "usage"
  /\ errors' = errors \o (IF out.kind # "trait" /\ out.params
                          THEN <<UsageErr(job.macro)>> ELSE <<>>)
  /\ pc' = "done"
  /\ UNCHANGED <<job, metadata, valid, context, items, next, out>>

Usage ==
  /\ pc = "usage"
  /\ errors' = IF out.kind = "trait"
               THEN (IF out.channel THEN <<UsageErr("channel")>> ELSE <<>>)
                 \o (IF out.endpoint THEN <<UsageErr("endpoint")>> ELSE <<>>) \o errors
               ELSE (IF out.params THEN <<UsageErr(job.macro)>> ELSE <<>>) \o errors
  /\ pc' = "done"
  /\ UNCHANGED <<job, metadata, valid, context, items, next, out>>

\* The identifiers of functions, constants and macros by position; types keep
\* theirs, so that two may clash.
Placed(seq) ==
  [k \in DOMAIN seq |->
    LET ident == ItemIdents[k]
    IN CASE seq[k].what = "type" -> seq[k]
         [] seq[k].what = "fn"   -> [seq[k] EXCEPT !.ident = ident, !.sig.ident = ident]
         [] OTHER                -> [seq[k] EXCEPT !.ident = ident]]

FunctionJob ==
  \E macro \in {"endpoint", "channel"}, args \in FnArgs :
    \/ \E q \in FnQuals, r \in BOOLEAN, o \in Outputs, n \in 0..MaxInputs :
       \E i \in [1..n -> InputTypes] :
         job = [macro |-> macro, args |-> args,
                item |-> [traitFn |-> FALSE, parses |-> TRUE,
                          sig |-> [ident |-> "f", quals |-> q, receiver |-> r,
                                   inputs |-> i, output |-> o]]]
    \/ \E t \in BOOLEAN :
         job = [macro |-> macro, args |-> args, item |-> [traitFn |-> t, parses |-> FALSE]]

TraitJob ==
  \E args \in ApiArgs :
    \/ \E q \in TraitQuals, n \in 0..MaxItems : \E seq \in [1..n -> TraitItems] :
         job = [macro |-> "api", args |-> args,
                item |-> [parses |-> TRUE, quals |-> q, pub |-> q = {}, items |-> Placed(seq)]]
    \/ job = [macro |-> "api", args |-> args, item |-> [parses |-> FALSE, items |-> <<>>]]

Init ==
  /\ FunctionJob \/ TraitJob
  /\ pc = "start" /\ metadata = None /\ valid = FALSE /\ context = [is |-> "Missing"]
  /\ items = <<>> /\ next = 1 /\ errors = <<>> /\ out = Nothing

Next ==
  \/ TraitFunction \/ ParseArgs \/ ItemUnparsable \/ FunctionAsIs
  \/ do_endpoint_inner \/ do_channel_inner
  \/ ApiItemTrait \/ FindContext \/ ContextPanics \/ ParseItem \/ ItemsDone
  \/ to_output \/ OutputPanics
  \/ Usage

Spec == Init /\ [][Next]_vars

----------------------------------------------------------------------------
(* Properties *)

\* The type of the state.
TypeOK ==
  /\ job.macro \in {"endpoint", "channel", "api"}
  /\ pc \in {"start", "item", "context", "items", "output", "usage", "done", "panicked"}
  /\ valid \in BOOLEAN
  /\ context.is \in {"Missing", "Invalid", "Valid"}
  /\ next \in 1..(IF OnFunction THEN 1 ELSE Len(job.item.items) + 1)
  /\ Len(items) < next \/ metadata = None

Done == pc = "done"

IsMarked(item) == ItemKind(item) = "fn" /\ Recognized(item.attrs) # <<>>

MarkedIdents(list) ==
  LET marked == Filter(list, {i \in Range(list) : IsMarked(i)})
  IN [k \in DOMAIN marked |-> marked[k].ident]

Names(seq) == [k \in DOMAIN seq |-> seq[k].name]
Paths(seq) == [k \in DOMAIN seq |-> seq[k].path]
Idents(seq) == [k \in DOMAIN seq |-> seq[k].ident]

\* No assertion of the macros fails: the unreachable!() of endpoint.rs:308-312,
\* channel.rs:323-328, metadata.rs:156-158 and params.rs:450-452 stay so,
\* although they rest on "no errors were pushed" in other functions.  The
\* macros do panic where format_ident! is given a name that is no identifier
\* (api_trait.rs:264, 642, 1390, 1553), and only #[api_description] and only
\* there: for a module or a context so named, or a marked method r#name.
NoPanic ==
  /\ out # Panic
  /\ pc = "panicked" =>
       /\ ~OnFunction
       /\ \/ Unfit(job.args.module) \/ Unfit(job.args.context)
          \/ \E k \in DOMAIN job.item.items : IsMarked(job.item.items[k]) /\ job.item.items[k].raw

\* A use of the macros that reports no error leaves working code behind
\* (api_trait.rs:739-781, endpoint.rs:171-215): every marked function of the
\* trait is registered, in order, by the real factory and by the stub, no
\* generated body panics, no mark has been swallowed, and the generated
\* from_until(..).unwrap() of the other crate holds for every range that the
\* macro let through, unless an end of it is a constant that is named: its
\* value is unknown to the macro, and the factory may panic on it.
CleanMeansWorking ==
  (Done /\ errors = <<>>) =>
    IF OnFunction
    THEN /\ out.kind = "struct" /\ out.from_impl # None
         /\ out.construct # None /\ VersionsBuild(out.construct.versions)
    ELSE /\ out.module # None /\ ~out.module.empty /\ ~out.module.invalid_docs
         /\ Panic \notin {out.module.api, out.module.stub}
         /\ Names(out.module.api.register) = MarkedIdents(job.item.items)
         /\ Names(out.module.stub.register) = MarkedIdents(job.item.items)
         /\ \A k \in DOMAIN out.module.api.register :
              VersionsBuild(out.module.api.register[k].endpoint.versions)
         /\ \A k \in DOMAIN job.item.items :
              (ItemKind(job.item.items[k]) \notin {"fn", "verbatim"}) =>
                Recognized(job.item.items[k].attrs) = <<>>

\* Errors are laid at the right door (api_trait.rs:266-326, 1147-1238): with
\* readable arguments, the items that errors name are exactly the marked ones
\* the macro could not take, wherever they stand in the trait.
BlameExact ==
  (Done /\ ~OnFunction /\ metadata # None /\ job.item.parses) =>
    LET all == Range(job.item.items)
        taken(item) == \E j \in DOMAIN items : /\ items[j].is \in {"endpoint", "channel"}
                                               /\ items[j].item = item
    IN \A x \in {item.ident : item \in all} :
         (\E e \in 1..Len(errors) : errors[e].about = x)
           <=> \E item \in all : /\ item.ident = x
                                /\ ItemKind(item) # "verbatim"
                                /\ Recognized(item.attrs) # <<>>
                                /\ ~taken(item)

\* A usage message is given for a kind of handler exactly when the parameters
\* of one of that kind are at fault, once, before all other errors, and the
\* channels' first (api_trait.rs:97-120, endpoint.rs:112-123).
UsageExact ==
  (Done /\ out # Panic) =>
    LET atFault(kind) ==
          \E e \in 1..Len(errors) : errors[e].part = "params" /\
            IF OnFunction THEN job.macro = kind
            ELSE \E k \in DOMAIN job.item.items :
                   /\ job.item.items[k].ident = errors[e].about
                   /\ Paths(Recognized(job.item.items[k].attrs)) = <<kind>>
        usage == (IF atFault("channel") THEN <<"channel">> ELSE <<>>)
                   \o (IF atFault("endpoint") THEN <<"endpoint">> ELSE <<>>)
    IN /\ [k \in 1..Len(usage) |-> UsageErr(usage[k])] = SubSeq(errors, 1, Len(usage))
       /\ \A e \in (Len(usage) + 1)..Len(errors) : errors[e].part # "usage"

\* The trait that is printed has all the items of the one that was written,
\* in order, the context first, whatever was wrong with them, and each with
\* the outer attributes that are not the macro's (api_trait.rs:359-400,
\* 1124-1134): a mistake in one item does not make others disappear.  A
\* second type of the context's name is dropped, though.
NothingLost ==
  (Done /\ out # Panic) => (out.kind = "trait" =>
    LET all  == Range(job.item.items)
        own  == {i \in all : metadata # None /\ IsContext(i)}
        ctx  == Filter(job.item.items, own)
        kept == (IF ctx = <<>> THEN <<>> ELSE <<Head(ctx)>>) \o Filter(job.item.items, all \ own)
        others(attrs) == Filter(attrs, {a \in Range(attrs) : ~a.inner /\ ~IsMark(a)})
    IN /\ Idents(out.items) = Idents(kept)
       /\ \A k \in DOMAIN kept : others(out.items[k].attrs) = others(kept[k].attrs))

\* The wrapper that stands between dropshot and a channel's handler, and the
\* check of every handler's future, name and pass every argument the user
\* wrote (channel.rs:408-525, endpoint.rs:322-337, 430-449): the repetitions
\* of quote! would drop arguments silently if the lists had different lengths.
WrappersComplete ==
  LET full(w, sig) == /\ Len(w.params) = Len(sig.inputs)
                      /\ w.call = [k \in DOMAIN w.params |-> w.params[k][1]]
                      /\ Cardinality({w.call[k] : k \in DOMAIN w.call}) = Len(w.call)
      adapts(w, sig) == /\ full(w, sig)
                        /\ Last(w.params)[2] = WebsocketUpgrade
                        /\ w.conn = Last(sig.inputs)
                        /\ \A k \in 2..(Len(w.params) - 1) : w.params[k][2] = sig.inputs[k]
  IN (Done /\ out # Panic) =>
       /\ (OnFunction /\ out.kind = "struct") => (out.from_impl # None =>
            /\ full(out.from_impl.impl, job.item.sig)
            /\ \A k \in DOMAIN job.item.sig.inputs :
                 out.from_impl.impl.params[k][2] = job.item.sig.inputs[k]
            /\ job.macro = "channel" => adapts(out.from_impl.adapter, job.item.sig))
       /\ ~OnFunction => \A j \in DOMAIN items : items[j].is = "channel" =>
            adapts(RegularEndpoint(items[j]).adapter, items[j].item.sig)

\* The stub, from which the OpenAPI document is made, describes the API that
\* the real factory serves (api_trait.rs:1336-1368, 1487-1531): the same
\* endpoints with the same metadata, and the types of the same arguments.
StubAgrees ==
  (Done /\ out # Panic) => (out.kind = "trait" => (out.module # None =>
    (~out.module.empty =>
      \/ out.module.api = Panic /\ out.module.stub = Panic
      \/ LET api == out.module.api  stub == out.module.stub
         IN /\ api.tag_config = stub.tag_config
            /\ Len(api.register) = Len(stub.register)
            /\ \A k \in DOMAIN api.register :
                 LET a == api.register[k]  s == stub.register[k]
                     user == CHOOSE i \in Range(job.item.items) : i.ident = a.name
                 IN /\ [a.endpoint EXCEPT !.handler = "", !.types = <<>>]
                         = [s.endpoint EXCEPT !.handler = "", !.types = <<>>]
                    /\ Front(s.endpoint.types) =
                         IF a.adapter = None THEN Tail(user.sig.inputs)
                         ELSE [j \in 1..(Len(a.adapter.params) - 1) |->
                                 a.adapter.params[j + 1][2]])))

\* The macros panic on nothing but a name that is no identifier, and what they
\* generate without an error works, but for a version range between constants
\* out of order, and passes every argument on (endpoint.rs:171-337,
\* channel.rs:323-525, api_trait.rs:264, 642, 739-781, 1390, 1553).
ExpansionWorks == TypeOK /\ NoPanic /\ CleanMeansWorking /\ WrappersComplete

\* What is wrong is reported where it is wrong, and what is right is kept
\* (api_trait.rs:97-120, 266-400, 1124-1238).
ErrorsExact == BlameExact /\ UsageExact /\ NothingLost

=============================================================================
