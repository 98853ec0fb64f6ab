---------------------------- MODULE MCDocument -----------------------------
(***************************************************************************)
(* The two parts of making an OpenAPI document, side by side: how schemas, *)
(* responses and tags of many endpoints are brought together (OpenApi),    *)
(* where a schema is known only by its type, and what becomes of a schema  *)
(* (JsonSchemas).  A behaviour is one of one of them.                      *)
(***************************************************************************)
EXTENDS MCOpenApi

CONSTANTS Schemas, Defs, Values

VARIABLES
  part,                             \* "schemas" or "document": which is looked at
  job, schema, todo, seen, queue, members, result   \* of JsonSchemas

J == INSTANCE JsonSchemas

\* The schemas and values, which do not depend on what J is given.
Suite == INSTANCE MCJsonSchemas WITH Schemas <- {}, Defs <- <<>>, Values <- {}

MCSchemas == Suite!MCSchemas
MCDefs    == Suite!MCDefs
MCValues  == Suite!MCValues

schemaVars == <<job, schema, todo, seen, queue, members, result>>
allVars == <<part, vars, schemaVars>>

MCInit ==
  \/ part = "schemas" /\ api = <<>> /\ Init /\ J!Init
  \/ part = "document" /\ job = "convert" /\ schema = J!Object /\ J!Init /\ Init

MCNext ==
  /\ \/ part = "schemas" /\ J!Next /\ UNCHANGED vars
     \/ part = "document" /\ Next /\ UNCHANGED schemaVars
  /\ UNCHANGED part

MCSpec == MCInit /\ [][MCNext]_allVars /\ WF_schemaVars(part = "schemas" /\ J!Next)

----------------------------------------------------------------------------
(* The properties of JsonSchemas; see there. *)

\* Every check and conversion of a schema comes to an end, unless a circle of
\* references passes through a lone allOf or anyOf or a oneOf, or is met by
\* schema2struct_impl(): then the code calls itself until the stack is full
\* (type_util.rs:62, 116-152, 221-258, schema_util.rs:52-70).
SchemasEnd == part = "schemas" => J!ChecksEnd

\* The parameters that a structure is taken for are its own, and what is taken
\* for a scalar is one (type_util.rs:12-258, schema_util.rs:88-319).
ParametersSound == J!ParametersSound

\* The documented schema says of every value what the type says; where it
\* cannot, it allows more, unless something is lost under a oneOf or a not, or
\* an integer's exclusive bound or multiple_of is not whole
\* (schema_util.rs:329-966).
ConversionSound == J!ConversionSound
============================================================================
