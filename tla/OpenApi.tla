------------------------------ MODULE OpenApi -------------------------------
(***************************************************************************)
(* How ApiDescription::gen_openapi() puts an OpenAPI document together     *)
(* from the endpoints of one version (api_description.rs).  Two things     *)
(* collect schemas on the way: one schemars generator for the whole        *)
(* document, and `definitions`, into which the schemas that each extractor *)
(* generated on its own are poured.                                        *)
(*                                                                         *)
(* A Rust type is known by its id, its schema's name and the types its     *)
(* schema refers to, directly or through others, in the order schemars     *)
(* meets them.  A reference in the document has a name; the model also     *)
(* remembers the type that it was meant for.                               *)
(***************************************************************************)
EXTENDS Integers, Sequences, SequencesExt, FiniteSets

CONSTANTS
  Endpoints,      \* what an endpoint can be like
  MaxEndpoints,   \* bound: endpoints of the API
  TagConfig,      \* the configured tags, in order
  Numbered(_, _)  \* format!("{name}{num}")

VARIABLES
  api,            \* the endpoints of the version, as the router lists them
  pc,             \* "tags", "endpoints", "schemas", "responses", "done", "panic"
  next,           \* the next endpoint, then the next error response
  tags,           \* openapi.tags before they are sorted
  st,             \* generator and definitions
  error_responses,        \* the error responses, in order of insertion
  error_response_names,   \* how often a name was wanted
  paths,          \* the operations
  components      \* schemas and responses

vars == <<api, pc, next, tags, st, error_responses, error_response_names, paths, components>>

None == [none |-> TRUE]

\* Schemas that an endpoint makes use of, and the types that they describe.
Sources(e) ==
  Range(e.parameters) \cup Range(e.body) \cup Range(e.response) \cup Range(e.headers)
    \cup ({e.error} \ {None})

AllSources == UNION {Sources(e) : e \in Endpoints}

Types == UNION {{s.type} \cup Range(s.type.deps) : s \in AllSources}

\* A program has finitely many types; what a type refers to includes what that
\* refers to; names with different numbers are different; and the tags of a
\* TagConfig are the keys of a map.
ASSUME DocumentAssumption ==
  /\ MaxEndpoints \in Nat
  /\ IsFiniteSet(Types)
  /\ \A t \in Types : /\ t.deps \in Seq(Types)
                      /\ \A u \in Range(t.deps) : Range(u.deps) \subseteq Range(t.deps)
                      /\ \A m, n \in 2..(Cardinality(Types) + 2) :
                           Numbered(t.name, m) = Numbered(t.name, n) => m = n
  /\ \A e \in Endpoints : /\ e.parameters \in Seq(AllSources) /\ e.body \in Seq(AllSources)
                          /\ e.response \in Seq(AllSources) /\ e.headers \in Seq(AllSources)
                          /\ e.tags \in Seq(Range(e.tags))
  /\ TagConfig \in Seq(Range(TagConfig)) /\ IsInjective(TagConfig)

\* Map::extend(): the entries of g replace those of f.
Extend(f, g) == [x \in DOMAIN f \cup DOMAIN g |-> IF x \in DOMAIN g THEN g[x] ELSE f[x]]

Ref(name, type) == [name |-> name, type |-> type.id]

----------------------------------------------------------------------------
(* schemars::gen::SchemaGenerator *)

NameIn(g, type) == (CHOOSE d \in g : d.type = type).name

\* A reference from an operation or an error response, by the name that the
\* source's generator gave.
Refers(g, source) ==
  [name |-> NameIn(g, source.type), type |-> source.type.id, kind |-> source.kind]

\* A name of its own for a type the generator has not met.
Reserve(g, type) ==
  IF \E d \in g : d.type = type THEN g
  ELSE LET used == {d.name : d \in g}
           free == {n \in 2..(Cardinality(used) + 2) : Numbered(type.name, n) \notin used}
       IN g \cup {[type |-> type,
                   name |-> IF type.name \notin used THEN type.name
                            ELSE Numbered(type.name, CHOOSE n \in free : \A k \in free : n <= k)]}

subschema_for(g, type) ==
  LET met[k \in 0..Len(type.deps)] ==
        IF k = 0 THEN Reserve(g, type) ELSE Reserve(met[k - 1], type.deps[k])
  IN met[Len(type.deps)]

\* The definitions a generator has made, as a function of their names.
Definitions(g) ==
  [name \in {d.name : d \in g} |->
     LET type == (CHOOSE d \in g : d.name = name).type
     IN [type |-> type.id, refs |-> {Ref(NameIn(g, t), t) : t \in Range(type.deps)}]]

----------------------------------------------------------------------------
(* gen_openapi() *)

\* Faulty variant: the dependencies of a pre-generated schema are left out.
UseWithoutDependencies(s, source) ==
  LET g == subschema_for(s.generator, source.type)
      h == subschema_for({}, source.type)
  IN CASE source.kind = "Gen" ->
            [st |-> [s EXCEPT !.generator = g],
             refs |-> <<Refers(g, source)>>]
       [] source.kind = "Static" ->
            [st |-> s, refs |-> <<Refers(h, source)>>]
       [] OTHER -> [st |-> s, refs |-> <<>>]

\* A schema is put to use: an ApiSchemaGenerator::Gen goes through the common
\* generator, a Static brings its own definitions along, which replace those
\* of the same name.  An empty one refers to nothing.
Use(s, source) ==
  LET g == subschema_for(s.generator, source.type)
      h == subschema_for({}, source.type)
  IN CASE source.kind = "Gen" ->
            [st |-> [s EXCEPT !.generator = g],
             refs |-> <<Refers(g, source)>>]
       [] source.kind = "Static" ->
            [st |-> [s EXCEPT !.definitions = Extend(@, Definitions(h))],
             refs |-> <<Refers(h, source)>>]
       [] OTHER -> [st |-> s, refs |-> <<>>]

UseAll(s, sources) ==
  LET acc[k \in 0..Len(sources)] ==
        IF k = 0 THEN [st |-> s, refs |-> <<>>]
        ELSE LET u == Use(acc[k - 1].st, sources[k])
             IN [st |-> u.st, refs |-> acc[k - 1].refs \o u.refs]
  IN acc[Len(sources)]

\* Faulty variant: a configured tag that an endpoint uses is listed again.
GatherTagsTwice ==
  /\ pc = "tags"
  /\ LET adhoc == UNION {Range(api[k].tags) : k \in DOMAIN api}
     IN tags' = TagConfig \o SetToSeq(adhoc)
  /\ pc' = "endpoints"
  /\ UNCHANGED <<api, next, st, error_responses, error_response_names, paths, components>>

\* The configured tags, and the others that endpoints use, hidden ones too.
GatherTags ==
  /\ pc = "tags"
  /\ LET adhoc == (UNION {Range(api[k].tags) : k \in DOMAIN api}) \ Range(TagConfig)
     IN tags' = TagConfig \o SetToSeq(adhoc)
  /\ pc' = "endpoints"
  /\ UNCHANGED <<api, next, st, error_responses, error_response_names, paths, components>>

Skip ==
  /\ pc = "endpoints" /\ next <= Len(api)
  /\ ~api[next].visible
  /\ next' = next + 1
  /\ UNCHANGED <<api, pc, tags, st, error_responses, error_response_names, paths, components>>

\* A method that a path item has no place for.
UnexpectedMethod ==
  /\ pc = "endpoints" /\ next <= Len(api)
  /\ api[next].visible /\ api[next].method = "CONNECT"
  /\ pc' = "panic"
  /\ UNCHANGED <<api, next, tags, st, error_responses, error_response_names, paths, components>>

\* error_responses.entry(type_name).or_insert_with(..): one per Rust type, and
\* a number is appended to a name that was wanted before.
ErrorResponse(s, error) ==
  LET same  == {r \in Range(error_responses) : r.type = error.type.id}
      u     == Use(s, error)
      want  == error.type.name
      num   == IF want \in DOMAIN error_response_names THEN error_response_names[want] + 1 ELSE 1
      name  == IF num <= 1 THEN want ELSE Numbered(want, num)
  IN IF same # {}
     THEN [st |-> s, name |-> (CHOOSE r \in same : TRUE).name, new |-> <<>>, names |-> error_response_names]
     ELSE [st |-> u.st, name |-> name,
           new |-> <<[type |-> error.type.id, name |-> name, refs |-> u.refs]>>,
           names |-> Extend(error_response_names, [n \in {want} |-> num])]

Parameters(s, e)  == UseAll(s, e.parameters)
RequestBody(s, e) == UseAll(s, e.body)

\* The successful response with its headers, or a permissive one without a
\* schema for a response that the handler builds itself.
Response(s, e) ==
  UseAll(s, IF e.response = <<>> THEN <<>> ELSE e.response \o e.headers)

\* The operation of one endpoint.  It has an error response when the success
\* has a status of its own.
Document ==
  /\ pc = "endpoints" /\ next <= Len(api)
  /\ api[next].visible /\ api[next].method # "CONNECT"
  /\ LET e      == api[next]
         params == Parameters(st, e)
         body   == RequestBody(params.st, e)
         ok     == Response(body.st, e)
         err    == IF e.success /\ e.error # None THEN ErrorResponse(ok.st, e.error)
                   ELSE [st |-> ok.st, name |-> None, new |-> <<>>, names |-> error_response_names]
     IN /\ st' = err.st
        /\ error_responses' = error_responses \o err.new
        /\ error_response_names' = err.names
        /\ paths' = Append(paths, [endpoint |-> e, static |-> params.refs,
                                   common |-> body.refs \o ok.refs, error |-> err.name])
  /\ next' = next + 1
  /\ UNCHANGED <<api, pc, tags, components>>

\* Faulty variant: what the extractors brought along is written last.
InsertSchemasOverwritten ==
  /\ pc = "endpoints" /\ next > Len(api)
  /\ components' = [components EXCEPT !.schemas = Extend(Definitions(st.generator), st.definitions)]
  /\ pc' = "responses" /\ next' = 1
  /\ UNCHANGED <<api, tags, st, error_responses, error_response_names, paths>>

\* The schemas: the generator's, and the others that do not clash with them.
InsertSchemas ==
  /\ pc = "endpoints" /\ next > Len(api)
  /\ components' = [components EXCEPT !.schemas = Extend(st.definitions, Definitions(st.generator))]
  /\ pc' = "responses" /\ next' = 1
  /\ UNCHANGED <<api, tags, st, error_responses, error_response_names, paths>>

\* One turn of the last loop, with its assertion.
AddResponse ==
  /\ pc = "responses" /\ next <= Len(error_responses)
  /\ LET r == error_responses[next]
     IN IF r.name \in DOMAIN components.responses
        THEN pc' = "panic" /\ UNCHANGED <<components, next>>
        ELSE /\ components' = [components EXCEPT !.responses = Extend(@, [n \in {r.name} |-> r])]
             /\ next' = next + 1 /\ UNCHANGED pc
  /\ UNCHANGED <<api, tags, st, error_responses, error_response_names, paths>>

Finish ==
  /\ pc = "responses" /\ next > Len(error_responses)
  /\ pc' = "done"
  /\ UNCHANGED <<api, next, tags, st, error_responses, error_response_names, paths, components>>

Init ==
  /\ \E n \in 0..MaxEndpoints : api \in [1..n -> Endpoints]
  /\ pc = "tags" /\ next = 1 /\ tags = <<>>
  /\ st = [generator |-> {}, definitions |-> <<>>]
  /\ error_responses = <<>> /\ error_response_names = <<>> /\ paths = <<>>
  /\ components = [schemas |-> <<>>, responses |-> <<>>]

Next ==
  \/ GatherTags \/ Skip \/ UnexpectedMethod \/ Document
  \/ InsertSchemas \/ AddResponse \/ Finish

Spec == Init /\ [][Next]_vars

----------------------------------------------------------------------------
(* Properties *)

\* The type of the state.
TypeOK ==
  /\ pc \in {"tags", "endpoints", "responses", "done", "panic"}
  /\ next \in 1..(IF pc \in {"tags", "endpoints"} THEN Len(api) + 1 ELSE MaxEndpoints + 1)
  /\ Len(paths) <= Len(api) /\ Len(error_responses) <= Len(paths)
  /\ \A d, e \in st.generator : (d.name = e.name) <=> (d.type = e.type)
  /\ IsInjective(tags)

Done == pc = "done"

AllRefs ==
  (UNION {Range(paths[k].static) \cup Range(paths[k].common) : k \in DOMAIN paths})
    \cup (UNION {components.schemas[n].refs : n \in DOMAIN components.schemas})
    \cup (UNION {Range(components.responses[n].refs) : n \in DOMAIN components.responses})

\* Every reference of the finished document has a component to refer to, at
\* any depth and wherever it came from (api_description.rs:794-802, 859-867,
\* 904-912, 929-942, 1034-1060, 1124-1136).
RefsResolve ==
  Done => /\ \A r \in AllRefs : r.name \in DOMAIN components.schemas
          /\ \A k \in DOMAIN paths : paths[k].error # None =>
               paths[k].error \in DOMAIN components.responses

\* What the common generator was asked for, and all that it refers to, is
\* described by the schema of its own type, although the definitions that
\* extractors brought along may have the same names
\* (api_description.rs:1127-1136); and an operation has the response of its own
\* error type, by whatever name (api_description.rs:1025-1100).  Nothing is
\* said of the references of a pre-generated schema: those of a parameter, of a
\* header or of a Static error or body resolve, but when the generator or
\* another extractor used the same name for another type, they lead to that
\* (api_description.rs:796, 1132-1136).
GeneratedRefsExact ==
  Done =>
    LET exact(r) == components.schemas[r.name].type = r.type
        whole(refs) == \A r \in Range(refs) : r.kind = "Gen" =>
                         exact(r) /\ \A q \in components.schemas[r.name].refs : exact(q)
    IN \A k \in DOMAIN paths :
         /\ whole(paths[k].static) /\ whole(paths[k].common)
         /\ paths[k].error # None =>
              LET r == components.responses[paths[k].error]
              IN r.type = paths[k].endpoint.error.type.id /\ whole(r.refs)

\* Every tag that an operation of the document has is listed, once, and so is
\* every configured one (api_description.rs:681-717).
TagsListed ==
  Done => /\ IsInjective(tags)
          /\ Range(TagConfig) \subseteq Range(tags)
          /\ \A k \in DOMAIN paths : Range(paths[k].endpoint.tags) \subseteq Range(tags)

\* "error response names must be unique" (api_description.rs:1143): the
\* assertion holds whatever the error types of the API are called.
ErrorNamesUnique == ~(pc = "panic" /\ \A k \in DOMAIN api : api[k].method # "CONNECT")

\* The finished document is whole: every reference resolves; one that the common
\* generator made, and those that follow from it, resolve to the schema of the
\* right type; and every tag is listed (api_description.rs:681-717, 794-942,
\* 1025-1136).  The references of pre-generated (Static) schemas are excepted
\* from the second part: clashing names can lead them to another type.
DocumentWhole == TypeOK /\ RefsResolve /\ GeneratedRefsExact /\ TagsListed

=============================================================================
