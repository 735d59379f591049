-------------------------- MODULE MCEventProcessor --------------------------
(***************************************************************************)
(* Small instances of EventProcessor for TLC.                              *)
(***************************************************************************)
EXTENDS EventProcessor

CONSTANTS
  e1, e2, e3,                 \* model values: events
  lenient, strict, malformed  \* model values: schema texts

MC_EventTypes == {"order", "user"}

(* "9" and "10", whose order as text is not their order as numbers.        *)
MC_Versions == {<<9>>, <<1, 0>>}

MC_TypeOf == [e \in Events |-> IF e = e2 THEN "user" ELSE "order"]

(* The lenient schema accepts every payload, the strict one not e2's.      *)
MC_Accepts ==
  [s \in SchemaTexts |-> CASE s = lenient -> Events
                           [] s = strict -> Events \cap {e1, e3}
                           [] OTHER -> {}]

=============================================================================
