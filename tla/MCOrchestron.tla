---------------------------- MODULE MCOrchestron ----------------------------
(***************************************************************************)
(* A small instance of Orchestron: three events of one type; the only      *)
(* schema that loads accepts the first, and the third is too large.        *)
(***************************************************************************)
EXTENDS Orchestron

CONSTANTS e1, e2, e3, strict, malformed  \* model values: events and schema texts

MCVersions == {<<9>>, <<1, 0>>}

MCTypeOf == [e \in Events |-> "order"]

MCAccepts == [s \in SchemaTexts |-> IF s = strict THEN {e1} ELSE {}]

=============================================================================
