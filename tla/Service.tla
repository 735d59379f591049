------------------------------- MODULE Service -------------------------------
(***************************************************************************)
(* The life of one process of cmd/orchestron: main from config.Load to its *)
(* return, the goroutine of the outbox processor, the HTTP server with its *)
(* middlewares and handlers, and the goroutines that handlers leave behind.*)
(* What a goroutine does with its event is the matter of EventProcessor,   *)
(* what the loop does with the outbox that of Outbox.                      *)
(***************************************************************************)
EXTENDS Configuration

CONSTANTS
  Files, Environments,  \* config files and environments to start with
  Keys,                 \* API keys somebody may send
  DatabasePassword,     \* the password PostgreSQL expects
  Requests,             \* requests somebody may send
  KeyOf,                \* [Requests -> Keys]: header X-API-Key
  Kind,                 \* [Requests -> {"event", "schema", "bad"}]
  MaxRefills,           \* bound: tokens a limiter regains
  MaxFaults             \* bound: faults in a behaviour

ASSUME ServiceAssumption ==
  /\ KeyOf \in [Requests -> Keys]
  /\ Kind \in [Requests -> {"event", "schema", "bad"}]
  /\ {MaxRefills, MaxFaults} \subseteq Nat
  /\ \A file \in Files, env \in Environments :
       Load(file, env).burst \in Nat /\ Load(file, env).keys \subseteq Keys

VARIABLES
  config,      \* what Load makes of the file and the environment
  main,        \* where main stands
  outcome,     \* how the process ended
  loop,        \* the goroutine of OutboxProcessor.Start
  listening,   \* ListenAndServe accepts connections
  brokerOpen,  \* the message broker client is open
  dbOpen,      \* the database handle is open
  tokens,      \* [Keys -> Nat]: what is left in the limiter of a key
  taken,       \* [Keys -> Nat]: requests of a key admitted by this process
  refilled,    \* [Keys -> Nat]: tokens the limiter of a key regained
  request,     \* [Requests -> how far a request has come]
  answer,      \* [Requests -> its HTTP status, 0 before]
  event,       \* [Requests -> the goroutine of ProcessEvent it started]
  faults       \* faults so far

limiters == <<tokens, taken, refilled>>
requests == <<request, answer, event>>
resources == <<listening, brokerOpen, dbOpen>>
vars == <<config, main, outcome, loop, resources, limiters, requests, faults>>

-----------------------------------------------------------------------------
(* Types and helpers                                                       *)

Mains == {"load", "connect", "broker", "start", "serve", "drain", "cancel",
          "close", "exited"}

InFlight == {r \in Requests : request[r] \in {"received", "authorized", "admitted"}}

Fault == faults < MaxFaults /\ faults' = faults + 1

(* The process ends, with everything that runs in it.                      *)
Exit(how) ==
  /\ main' = "exited" /\ outcome' = how
  /\ loop' = "off"
  /\ listening' = FALSE /\ brokerOpen' = FALSE /\ dbOpen' = FALSE
  /\ request' = [r \in Requests |-> IF r \in InFlight THEN "reset" ELSE request[r]]
  /\ event' = [r \in Requests |-> IF event[r] = "running" THEN "lost" ELSE event[r]]
  /\ UNCHANGED <<config, limiters, answer>>

-----------------------------------------------------------------------------
(* main, up to the signal                                                  *)

LoadConfig ==
  /\ main = "load"
  /\ \/ /\ config.valid
        /\ main' = "connect"
        /\ UNCHANGED <<config, outcome, loop, resources, limiters, requests>>
     \/ ~config.valid /\ Exit("fatal")
  /\ UNCHANGED faults

(* NewDatabase tries until a connection and its ping succeed: attempts     *)
(* that fail leave no trace, and with a wrong password there is no end.    *)
NewDatabase ==
  /\ main = "connect"
  /\ config.password = DatabasePassword
  /\ main' = "broker"
  /\ dbOpen' = TRUE
  /\ UNCHANGED <<config, outcome, loop, listening, brokerOpen, limiters, requests,
                 faults>>

(* The values of config under which main gets past its switch.  librdkafka *)
(* wants at least one retry of a producer that is idempotent, as           *)
(* NewKafkaPublisher makes it, and NewProducer returns an error.           *)
BrokerUsable ==
  \/ config.broker = "kafka" /\ config.retries >= 1
  \/ config.broker = "rabbitmq"

(* Mutant: the case for RabbitMQ is missing.                               *)
NewBroker_KafkaOnly ==
  /\ main = "broker"
  /\ BrokerUsable /\ config.broker = "kafka"
  /\ main' = "start"
  /\ brokerOpen' = TRUE
  /\ loop' = "starting"
  /\ tokens' = [k \in Keys |-> IF k \in config.keys THEN config.burst ELSE 0]
  /\ taken' = [k \in Keys |-> 0] /\ refilled' = [k \in Keys |-> 0]
  /\ UNCHANGED <<config, outcome, listening, dbOpen, requests, faults>>

(* The switch over broker.type.  Then main wires the services, NewServer   *)
(* makes a full limiter for every configured key, and the goroutines of    *)
(* the loop and the server are started.                                    *)
NewBroker ==
  /\ main = "broker"
  /\ BrokerUsable
  /\ main' = "start"
  /\ brokerOpen' = TRUE
  /\ loop' = "starting"
  /\ tokens' = [k \in Keys |-> IF k \in config.keys THEN config.burst ELSE 0]
  /\ taken' = [k \in Keys |-> 0] /\ refilled' = [k \in Keys |-> 0]
  /\ UNCHANGED <<config, outcome, listening, dbOpen, requests, faults>>

(* An unknown type, or values that NewKafkaPublisher gets refused; or      *)
(* NewRabbitMQPublisher does not reach its broker.  NewKafkaPublisher does *)
(* not try to.                                                             *)
BrokerFails ==
  /\ main = "broker"
  /\ \/ ~BrokerUsable /\ UNCHANGED faults
     \/ config.broker = "rabbitmq" /\ Fault
  /\ Exit("fatal")

(* signal.Notify: from here on a signal does not kill the process.         *)
Notify ==
  /\ main = "start"
  /\ main' = "serve"
  /\ UNCHANGED <<config, outcome, loop, resources, limiters, requests, faults>>

Listen ==
  /\ main \in {"start", "serve"} /\ ~listening
  /\ listening' = TRUE
  /\ UNCHANGED <<config, main, outcome, loop, brokerOpen, dbOpen, limiters, requests,
                 faults>>

(* The address is taken: Fatalf in the goroutine of the server.            *)
ListenFails ==
  /\ main \in {"start", "serve"} /\ ~listening
  /\ Exit("fatal")
  /\ Fault

-----------------------------------------------------------------------------
(* The outbox processor                                                    *)

(* NewTicker panics unless its interval is positive.                       *)
StartLoop ==
  /\ loop = "starting"
  /\ \/ /\ config.interval > 0
        /\ loop' = "polling"
        /\ UNCHANGED <<config, main, outcome, resources, limiters, requests>>
     \/ config.interval <= 0 /\ Exit("panic")
  /\ UNCHANGED faults

(* A tick, the end of its batch, or the cancelled context: select may take *)
(* either of the first and the last.                                       *)
LoopStep ==
  /\ \/ loop = "polling" /\ loop' = "processing"
     \/ loop = "processing" /\ loop' = "polling"
     \/ loop = "polling" /\ main = "close" /\ loop' = "stopped"
  /\ UNCHANGED <<config, main, outcome, resources, limiters, requests, faults>>

-----------------------------------------------------------------------------
(* Requests under /api                                                     *)

Receive(r) ==
  /\ listening
  /\ request[r] = "unsent"
  /\ request' = [request EXCEPT ![r] = "received"]
  /\ UNCHANGED <<config, main, outcome, loop, resources, limiters, answer, event,
                 faults>>

(* The answer is written and the handler returns.                          *)
Answer(r, status) ==
  /\ request' = [request EXCEPT ![r] = "answered"]
  /\ answer' = [answer EXCEPT ![r] = status]

AuthMiddleware(r) ==
  /\ request[r] = "received"
  /\ IF KeyOf[r] \in config.keys
     THEN request' = [request EXCEPT ![r] = "authorized"] /\ UNCHANGED answer
     ELSE Answer(r, 401)
  /\ UNCHANGED <<config, main, outcome, loop, resources, limiters, event, faults>>

(* Mutant: one limiter for all keys.                                       *)
RateLimitMiddleware_OneLimiter(r) ==
  /\ request[r] = "authorized"
  /\ IF tokens[KeyOf[r]] > 0
     THEN /\ tokens' = [k \in Keys |-> IF tokens[k] > 0 THEN tokens[k] - 1 ELSE 0]
          /\ taken' = [taken EXCEPT ![KeyOf[r]] = @ + 1]
          /\ request' = [request EXCEPT ![r] = "admitted"] /\ UNCHANGED answer
     ELSE Answer(r, 429) /\ UNCHANGED <<tokens, taken>>
  /\ UNCHANGED <<config, main, outcome, loop, resources, refilled, event, faults>>

RateLimitMiddleware(r) ==
  /\ request[r] = "authorized"
  /\ IF tokens[KeyOf[r]] > 0
     THEN /\ tokens' = [tokens EXCEPT ![KeyOf[r]] = @ - 1]
          /\ taken' = [taken EXCEPT ![KeyOf[r]] = @ + 1]
          /\ request' = [request EXCEPT ![r] = "admitted"] /\ UNCHANGED answer
     ELSE Answer(r, 429) /\ UNCHANGED <<tokens, taken>>
  /\ UNCHANGED <<config, main, outcome, loop, resources, refilled, event, faults>>

(* Time passes for the limiter of k.                                       *)
Refill(k) ==
  /\ main # "exited" /\ k \in config.keys
  /\ tokens[k] < config.burst /\ refilled[k] < MaxRefills
  /\ tokens' = [tokens EXCEPT ![k] = @ + 1]
  /\ refilled' = [refilled EXCEPT ![k] = @ + 1]
  /\ UNCHANGED <<config, main, outcome, loop, resources, taken, requests, faults>>

(* Either handler on a type or a body it cannot use.                       *)
RefuseRequest(r) ==
  /\ request[r] = "admitted" /\ Kind[r] = "bad"
  /\ Answer(r, 400)
  /\ UNCHANGED <<config, main, outcome, loop, resources, limiters, event, faults>>

(* 202 says that a goroutine was started, no more.                         *)
ReceiveEventHandler(r) ==
  /\ request[r] = "admitted" /\ Kind[r] = "event"
  /\ event' = [event EXCEPT ![r] = "running"]
  /\ Answer(r, 202)
  /\ UNCHANGED <<config, main, outcome, loop, resources, limiters, faults>>

(* The handler waits for the database, for as long as that takes.          *)
RegisterSchemaHandler(r) ==
  /\ request[r] = "admitted" /\ Kind[r] = "schema"
  /\ dbOpen
  /\ Answer(r, 201) \/ Answer(r, 500)
  /\ UNCHANGED <<config, main, outcome, loop, resources, limiters, event, faults>>

(* ProcessEvent ends, with a row in one of the two tables; on a closed     *)
(* database it would only retry.  Without outbox.retry_backoff it panics,  *)
(* and the process with it.                                                *)
ProcessEvent(r) ==
  /\ event[r] = "running"
  /\ \/ /\ config.backoff > 0 /\ dbOpen
        /\ event' = [event EXCEPT ![r] = "saved"]
        /\ UNCHANGED <<config, main, outcome, loop, resources, limiters, request, answer>>
     \/ config.backoff <= 0 /\ Exit("panic")
  /\ UNCHANGED faults

-----------------------------------------------------------------------------
(* main, from the signal on                                                *)

(* SIGINT or SIGTERM.  Nobody reads a second one.                          *)
Signal ==
  /\ \/ /\ main = "serve"
        /\ main' = "drain"
        /\ listening' = FALSE
        /\ UNCHANGED <<config, outcome, loop, brokerOpen, dbOpen, limiters, requests>>
     \/ main \in {"load", "connect", "broker", "start"} /\ Exit("killed")
  /\ UNCHANGED faults

(* Mutant: server.Close in place of server.Shutdown.                       *)
Shutdown_Close ==
  /\ main = "drain"
  /\ main' = "cancel"
  /\ UNCHANGED <<config, outcome, loop, resources, limiters, requests, faults>>

(* Mutant: the goroutine of the server takes the http.ErrServerClosed that *)
(* ListenAndServe now returns for an error.                                *)
Shutdown_ServerClosed ==
  /\ main = "drain"
  /\ Exit("fatal")
  /\ UNCHANGED faults

(* Mutant: the deferred calls run while requests are drained.              *)
Shutdown_Early ==
  /\ main = "drain"
  /\ \/ /\ InFlight = {}
        /\ main' = "cancel"
        /\ UNCHANGED <<brokerOpen, dbOpen>>
     \/ main' = main /\ brokerOpen' = FALSE /\ dbOpen' = FALSE
  /\ UNCHANGED <<config, outcome, loop, listening, limiters, requests, faults>>

(* server.Shutdown returns when no request is in progress.                 *)
Shutdown ==
  /\ main = "drain"
  /\ InFlight = {}
  /\ main' = "cancel"
  /\ UNCHANGED <<config, outcome, loop, resources, limiters, requests, faults>>

(* Mutant: Shutdown without the context of ten seconds.                    *)
ShutdownFails_NoDeadline == FALSE /\ UNCHANGED vars

(* Ten seconds are over.  Fatalf does not run the deferred calls.          *)
ShutdownFails ==
  /\ main = "drain"
  /\ InFlight # {}
  /\ Exit("fatal")
  /\ UNCHANGED faults

(* cancel() ends the context of the loop; nobody waits for the loop.       *)
CancelLoop ==
  /\ main = "cancel"
  /\ main' = "close"
  /\ UNCHANGED <<config, outcome, loop, resources, limiters, requests, faults>>

(* The deferred calls, last one first, and the end of main.                *)
CloseBroker ==
  /\ main = "close" /\ brokerOpen
  /\ brokerOpen' = FALSE
  /\ UNCHANGED <<config, main, outcome, loop, listening, dbOpen, limiters, requests,
                 faults>>

CloseDatabase ==
  /\ main = "close" /\ ~brokerOpen /\ dbOpen
  /\ dbOpen' = FALSE
  /\ UNCHANGED <<config, main, outcome, loop, listening, brokerOpen, limiters,
                 requests, faults>>

Return ==
  /\ main = "close" /\ ~dbOpen
  /\ Exit("graceful")
  /\ UNCHANGED faults

Crash ==
  /\ main # "exited"
  /\ Exit("killed")
  /\ Fault

(* docker-compose.yml: restart unless stopped.                             *)
Restart ==
  /\ main = "exited"
  /\ main' = "load" /\ outcome' = "none"
  /\ UNCHANGED <<config, loop, resources, limiters, requests, faults>>

-----------------------------------------------------------------------------

Init ==
  /\ \E file \in Files, env \in Environments : config = Load(file, env)
  /\ main = "load" /\ outcome = "none"
  /\ loop = "off"
  /\ listening = FALSE /\ brokerOpen = FALSE /\ dbOpen = FALSE
  /\ tokens = [k \in Keys |-> 0]
  /\ taken = [k \in Keys |-> 0] /\ refilled = [k \in Keys |-> 0]
  /\ request = [r \in Requests |-> "unsent"]
  /\ answer = [r \in Requests |-> 0]
  /\ event = [r \in Requests |-> "none"]
  /\ faults = 0

(* What main goes through by itself.                                       *)
Main ==
  \/ LoadConfig \/ NewDatabase \/ NewBroker \/ Notify
  \/ Shutdown \/ ShutdownFails \/ CancelLoop
  \/ CloseBroker \/ CloseDatabase \/ Return

Failure == BrokerFails \/ ListenFails \/ Crash

Handle(r) ==
  \/ Receive(r) \/ AuthMiddleware(r) \/ RateLimitMiddleware(r)
  \/ RefuseRequest(r) \/ ReceiveEventHandler(r) \/ RegisterSchemaHandler(r)
  \/ ProcessEvent(r)

Next ==
  \/ Main \/ Failure \/ Signal \/ Restart
  \/ Listen \/ StartLoop \/ LoopStep
  \/ \E r \in Requests : Handle(r)
  \/ \E k \in Keys : Refill(k)

Spec == Init /\ [][Next]_vars

(* main and the goroutine of the server are scheduled, the ten seconds     *)
(* pass, and the database, once it is there, can be reached.  Handlers may *)
(* hang.  The publisher's Close is taken to return: when it does not is a  *)
(* matter of KafkaPublisher.                                               *)
FairSpec == Spec /\ WF_vars(Main \/ Restart) /\ WF_vars(Listen) /\ WF_vars(StartLoop)

-----------------------------------------------------------------------------
(* Properties                                                              *)

(* Every variable has its type.                                            *)
TypeOK ==
  /\ config \in {Load(file, env) : file \in Files, env \in Environments}
  /\ main \in Mains
  /\ outcome \in {"none", "fatal", "panic", "killed", "graceful"}
  /\ loop \in {"off", "starting", "polling", "processing", "stopped"}
  /\ listening \in BOOLEAN /\ brokerOpen \in BOOLEAN /\ dbOpen \in BOOLEAN
  /\ tokens \in [Keys -> Nat] /\ taken \in [Keys -> Nat] /\ refilled \in [Keys -> Nat]
  /\ request \in [Requests -> {"unsent", "received", "authorized", "admitted",
                               "answered", "reset"}]
  /\ answer \in [Requests -> {0, 201, 202, 400, 401, 429, 500}]
  /\ event \in [Requests -> {"none", "running", "saved", "lost"}]
  /\ faults \in 0..MaxFaults

(* A process that ends with "Server gracefully stopped" has answered every *)
(* request it received.                                                    *)
GracefulStopAnswers ==
  [][outcome' = "graceful" => \A r \in Requests : request'[r] = "reset" =>
       request[r] = "reset"]_vars

(* No request finds the database or the broker closed: only what runs in   *)
(* the background, an event or the loop, can still be at work by then.     *)
RequestsFindDatabase == listening \/ InFlight # {} => dbOpen /\ brokerOpen

(* Who is told 429 has used up a whole burst of his own: one client cannot *)
(* take the tokens of another.                                             *)
ThrottledForCause ==
  [][\A r \in Requests :
       answer'[r] = 429 /\ answer[r] # 429 => taken[KeyOf[r]] >= config.burst]_vars

(* A key is admitted no more often than its burst and its refills allow,   *)
(* however its requests interleave.                                        *)
AdmissionBounded == \A k \in config.keys : taken[k] <= config.burst + refilled[k]

(* A drained process comes to its end, also when a handler hangs.          *)
StopsOnSignal == main = "drain" ~> main = "exited"

(* A process has every setting from the source that has the say, whichever *)
(* file and environment it was started with.                               *)
LoadIsRight ==
  \A file \in Files, env \in Environments :
    config = Load(file, env) => SettingsRespected(file, env)

(* No process ends by itself without a cause: a panic is for the interval  *)
(* or retry_backoff, a Fatalf for settings, for a fault, or for a request  *)
(* that outlasted the shutdown and was cut off.                            *)
EndsForCause ==
  /\ outcome = "panic" => config.interval <= 0 \/ config.backoff <= 0
  /\ outcome = "fatal" =>
       \/ ~config.valid \/ ~BrokerUsable
       \/ faults > 0
       \/ \E r \in Requests : request[r] = "reset"

(* The settings are complete and right.                                    *)
Sound ==
  /\ config.valid
  /\ config.password = DatabasePassword
  /\ BrokerUsable
  /\ config.interval > 0

(* With sound settings every start leads to a process that listens, unless *)
(* somebody stops it or something fails.                                   *)
ComesUp == (Sound /\ main = "load") ~>
    (listening \/ main = "drain" \/ outcome = "killed" \/ faults > 0)

=============================================================================
