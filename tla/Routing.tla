------------------------------- MODULE Routing -------------------------------
(***************************************************************************)
(* Routing decisions of orchestron: internal/service/routing.go over the   *)
(* RoutingConfig of internal/config/config.go.  Every answer is a lookup   *)
(* with three levels: the route of the event type if that route sets the   *)
(* field, else the configured default, else a value built into the code.   *)
(* An unset string is "" and an unset number is 0, as in Go.               *)
(***************************************************************************)
EXTENDS Integers

CONSTANTS
  EventTypes,    \* the event types the service receives (strings)
  RoutingConfig  \* [defaults |-> RouteConfig, routes |-> partial function]

(* One route: RouteConfig with its KafkaRoute and RabbitMQRoute inlined.   *)
RouteConfig ==
  [broker     : STRING, maxRetries : Int, topic : STRING,
   exchange   : STRING, routingKey : STRING]

(* The route table is loaded from a file: any type may have a route, most  *)
(* have none, and a route may leave any of its fields unset.               *)
ASSUME RoutingAssumption ==
  /\ EventTypes \subseteq STRING
  /\ RoutingConfig.defaults \in RouteConfig
  /\ DOMAIN RoutingConfig.routes \subseteq EventTypes
  /\ \A t \in DOMAIN RoutingConfig.routes : RoutingConfig.routes[t] \in RouteConfig

-----------------------------------------------------------------------------

(* The route of type t exists and sets the string field f.                 *)
RouteSets(t, f) ==
  /\ t \in DOMAIN RoutingConfig.routes
  /\ RoutingConfig.routes[t][f] # ""

(* A route without a broker falls back to the default even when that one   *)
(* is empty: there is no built-in broker name at this level.               *)
GetBrokerForEventType(t) ==
  IF RouteSets(t, "broker") THEN RoutingConfig.routes[t].broker
                            ELSE RoutingConfig.defaults.broker

GetExchangeForEventType(t) ==
  IF RouteSets(t, "exchange") THEN RoutingConfig.routes[t].exchange
  ELSE IF RoutingConfig.defaults.exchange # "" THEN RoutingConfig.defaults.exchange
  ELSE "events"

(* Only positive limits count as set.                                      *)
GetMaxRetries(t) ==
  IF /\ t \in DOMAIN RoutingConfig.routes
     /\ RoutingConfig.routes[t].maxRetries > 0
  THEN RoutingConfig.routes[t].maxRetries
  ELSE IF RoutingConfig.defaults.maxRetries > 0 THEN RoutingConfig.defaults.maxRetries
  ELSE 3

=============================================================================
