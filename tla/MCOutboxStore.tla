---------------------------- MODULE MCOutboxStore ----------------------------
(***************************************************************************)
(* A small instance of OutboxStore: two instances with a loop each, and in *)
(* the second one another goroutine that competes with the loop for the    *)
(* only connection of their pool.                                          *)
(***************************************************************************)
EXTENDS OutboxStore

CONSTANTS first, second, loop1, loop2, other

MCInstances == {first, second}

MCClients == {loop1, loop2, other}

MCInstanceOf == [c \in MCClients |-> IF c = loop1 THEN first ELSE second]

MCKindsOf ==
  [c \in MCClients |-> CASE c = loop1 -> {"find", "publish", "fail", "count", "cleanup"}
                         [] c = loop2 -> {"count", "cleanup"}
                         [] c = other -> {"save"}]

=============================================================================
