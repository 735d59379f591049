--------------------------- MODULE SchemaRegistry ---------------------------
(***************************************************************************)
(* The table event_schemas: SchemaRepositoryImpl with its reader           *)
(* SchemaProviderImpl and its writer registerSchemaHandler.  A row is      *)
(* identified by event type and version (UNIQUE in schema.sql) and is      *)
(* never updated or deleted.                                               *)
(*                                                                         *)
(* A version is free text; here a sequence of the codes of its characters, *)
(* because the database orders versions as text.                           *)
(***************************************************************************)
EXTENDS Integers, Sequences

CONSTANTS
  EventTypes,   \* event types (strings)
  Versions,     \* versions somebody may register
  SchemaTexts   \* texts somebody may send as schema_data, JSON schema or not

ASSUME RegistryAssumption == Versions \subseteq Seq(Nat)

VARIABLE schemas  \* [EventTypes -> partial function from Versions to SchemaTexts]

-----------------------------------------------------------------------------

Registered(t) == DOMAIN schemas[t]

(* v sorts before w: at the first difference, or as a proper prefix.       *)
TextLess(v, w) ==
  \E n \in 0..Len(v) :
    /\ n < Len(w)
    /\ \A k \in 1..n : v[k] = w[k]
    /\ n = Len(v) \/ v[n + 1] < w[n + 1]

(* FindByType: ORDER BY version DESC LIMIT 1.  One version, or none (nil). *)
(* Its comment calls it the latest; a version 10 registered after a version*)
(* 9 is not, since the database compares texts.                            *)
FindByType(t) ==
  {v \in Registered(t) : \A w \in Registered(t) \ {v} : TextLess(w, v)}

(* POST /api/schemas: the text is stored unread.  A second row for the     *)
(* same type and version breaks the UNIQUE constraint: answered 500.       *)
RegisterSchema(t, v, text) ==
  \/ /\ v \notin Registered(t)
     /\ schemas' = [schemas EXCEPT ![t] =
                      [w \in Registered(t) \cup {v} |-> IF w = v THEN text ELSE @[w]]]
  \/ /\ v \in Registered(t)
     /\ UNCHANGED schemas

InitSchemas == schemas = [t \in EventTypes |-> <<>>]

-----------------------------------------------------------------------------

SchemasTypeOK ==
  /\ DOMAIN schemas = EventTypes
  /\ schemas = [t \in EventTypes |-> schemas[t]]
  /\ \A t \in EventTypes :
       /\ Registered(t) \subseteq Versions
       /\ schemas[t] \in [Registered(t) -> SchemaTexts]

=============================================================================
