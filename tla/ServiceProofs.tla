---------------------------- MODULE ServiceProofs ----------------------------
(***************************************************************************)
(* Theorems of Service for every set of config files and environments, of  *)
(* keys and of requests, and every bound on refills and faults.            *)
(***************************************************************************)
EXTENDS Service, TLAPS

-----------------------------------------------------------------------------
(* Type correctness                                                        *)

(* A fault stays within the bound.                                         *)
LEMMA FaultType == ASSUME faults \in 0..MaxFaults, Fault PROVE faults' \in 0..MaxFaults
<1>1. MaxFaults \in Nat
  BY ServiceAssumption
<1> QED
  BY <1>1 DEF Fault

(* The end of a process leaves everything well typed.                      *)
LEMMA ExitType ==
  ASSUME TypeOK, NEW how \in {"fatal", "panic", "killed", "graceful"}, Exit(how),
         faults' \in 0..MaxFaults
  PROVE  TypeOK'
<1>1. request' \in [Requests -> {"unsent", "received", "authorized", "admitted", "answered", "reset"}]
  BY DEF TypeOK, Exit
<1>2. event' \in [Requests -> {"none", "running", "saved", "lost"}]
  BY DEF TypeOK, Exit
<1>3. listening' \in BOOLEAN /\ brokerOpen' \in BOOLEAN /\ dbOpen' \in BOOLEAN
  BY DEF Exit
<1>4. main' \in Mains /\ outcome' \in {"none", "fatal", "panic", "killed", "graceful"}
  BY DEF Exit, Mains
<1>5. UNCHANGED <<config, tokens, taken, refilled, answer>> /\ loop' = "off"
  BY DEF Exit, limiters
<1> QED
  BY <1>1, <1>2, <1>3, <1>4, <1>5 DEF TypeOK

(* The initial state is well typed.                                        *)
LEMMA InitType == Init => TypeOK
<1> SUFFICES ASSUME Init PROVE TypeOK
  OBVIOUS
<1>1. faults \in 0..MaxFaults
  BY ServiceAssumption DEF Init
<1>2. config \in {Load(file, env) : file \in Files, env \in Environments}
  BY DEF Init
<1>3. listening \in BOOLEAN /\ brokerOpen \in BOOLEAN /\ dbOpen \in BOOLEAN
  BY DEF Init
<1> QED
  BY <1>1, <1>2, <1>3 DEF Init, TypeOK, Mains

(* main keeps the types.                                                   *)
LEMMA MainType == ASSUME TypeOK, Main PROVE TypeOK'
<1>1. CASE LoadConfig
  <2>1. CASE Exit("fatal")
    BY <1>1, <2>1, ExitType DEF LoadConfig, TypeOK
  <2>2. CASE main' = "connect" /\ UNCHANGED <<config, outcome, loop, resources, limiters, requests>>
    BY <1>1, <2>2 DEF LoadConfig, TypeOK, Mains, resources, limiters, requests
  <2> QED
    BY <1>1, <2>1, <2>2 DEF LoadConfig
<1>2. CASE NewDatabase
  BY <1>2 DEF NewDatabase, TypeOK, Mains, limiters, requests
<1>3. CASE NewBroker
  <2>1. \A k \in Keys : (IF k \in config.keys THEN config.burst ELSE 0) \in Nat
    BY ServiceAssumption DEF TypeOK
  <2> QED
    BY <1>3, <2>1 DEF NewBroker, TypeOK, Mains, requests
<1>4. CASE Notify
  BY <1>4 DEF Notify, TypeOK, Mains, resources, limiters, requests
<1>5. CASE Shutdown
  BY <1>5 DEF Shutdown, TypeOK, Mains, resources, limiters, requests
<1>6. CASE ShutdownFails
  BY <1>6, ExitType DEF ShutdownFails, TypeOK
<1>7. CASE CancelLoop
  BY <1>7 DEF CancelLoop, TypeOK, Mains, resources, limiters, requests
<1>8. CASE CloseBroker
  <2>1. brokerOpen' \in BOOLEAN
    BY <1>8 DEF CloseBroker
  <2> QED
    BY <1>8, <2>1 DEF CloseBroker, TypeOK, limiters, requests
<1>9. CASE CloseDatabase
  <2>1. dbOpen' \in BOOLEAN
    BY <1>9 DEF CloseDatabase
  <2> QED
    BY <1>9, <2>1 DEF CloseDatabase, TypeOK, limiters, requests
<1>10. CASE Return
  BY <1>10, ExitType DEF Return, TypeOK
<1> QED
  BY <1>1, <1>2, <1>3, <1>4, <1>5, <1>6, <1>7, <1>8, <1>9, <1>10
     DEF Main

(* A request keeps the types.                                              *)
LEMMA HandleType == ASSUME TypeOK, NEW r \in Requests, Handle(r) PROVE TypeOK'
<1>k. KeyOf[r] \in Keys
  BY ServiceAssumption
<1>1. CASE Receive(r)
  BY <1>1 DEF Receive, TypeOK, resources, limiters
<1>2. CASE AuthMiddleware(r)
  BY <1>2 DEF AuthMiddleware, Answer, TypeOK, resources, limiters
<1>3. CASE RateLimitMiddleware(r)
  <2>1. tokens' \in [Keys -> Nat] /\ taken' \in [Keys -> Nat]
    BY <1>k, <1>3 DEF RateLimitMiddleware, TypeOK
  <2> QED
    BY <1>3, <2>1 DEF RateLimitMiddleware, Answer, TypeOK, resources
<1>4. CASE RefuseRequest(r)
  BY <1>4 DEF RefuseRequest, Answer, TypeOK, resources, limiters
<1>5. CASE ReceiveEventHandler(r)
  BY <1>5 DEF ReceiveEventHandler, Answer, TypeOK, resources, limiters
<1>6. CASE RegisterSchemaHandler(r)
  BY <1>6 DEF RegisterSchemaHandler, Answer, TypeOK, resources, limiters
<1>7. CASE ProcessEvent(r)
  <2>1. CASE Exit("panic")
    BY <1>7, <2>1, ExitType DEF ProcessEvent, TypeOK
  <2>2. CASE /\ event' = [event EXCEPT ![r] = "saved"]
             /\ UNCHANGED <<config, main, outcome, loop, resources, limiters, request, answer>>
    BY <1>7, <2>2 DEF ProcessEvent, TypeOK, resources, limiters
  <2> QED
    BY <1>7, <2>1, <2>2 DEF ProcessEvent
<1> QED
  BY <1>1, <1>2, <1>3, <1>4, <1>5, <1>6, <1>7 DEF Handle

(* Every action keeps the types.                                           *)
LEMMA NextType == TypeOK /\ [Next]_vars => TypeOK'
<1> SUFFICES ASSUME TypeOK, [Next]_vars PROVE TypeOK'
  OBVIOUS
<1>0. CASE UNCHANGED vars
  BY <1>0 DEF TypeOK, vars, resources, limiters, requests
<1>1. CASE Failure
  BY <1>1, FaultType, ExitType DEF Failure, BrokerFails, ListenFails, Crash, TypeOK
<1>2. CASE Signal
  <2>1. CASE Exit("killed")
    BY <1>2, <2>1, ExitType DEF Signal, TypeOK
  <2>2. CASE /\ main' = "drain" /\ listening' = FALSE
             /\ UNCHANGED <<config, outcome, loop, brokerOpen, dbOpen, limiters, requests>>
    <3>1. listening' \in BOOLEAN /\ main' \in Mains
      BY <2>2 DEF Mains
    <3> QED
      BY <1>2, <2>2, <3>1 DEF Signal, TypeOK, limiters, requests
  <2> QED
    BY <1>2, <2>1, <2>2 DEF Signal
<1>3. CASE Restart
  BY <1>3 DEF Restart, TypeOK, Mains, resources, limiters, requests
<1>4. CASE Listen
  BY <1>4 DEF Listen, TypeOK, limiters, requests
<1>5. CASE StartLoop
  <2>1. CASE Exit("panic")
    BY <1>5, <2>1, ExitType DEF StartLoop, TypeOK
  <2>2. CASE loop' = "polling" /\ UNCHANGED <<config, main, outcome, resources, limiters, requests>>
    BY <1>5, <2>2 DEF StartLoop, TypeOK, resources, limiters, requests
  <2> QED
    BY <1>5, <2>1, <2>2 DEF StartLoop
<1>6. CASE LoopStep
  BY <1>6 DEF LoopStep, TypeOK, resources, limiters, requests
<1>7. ASSUME NEW k \in Keys, Refill(k) PROVE TypeOK'
  <2>1. tokens' \in [Keys -> Nat] /\ refilled' \in [Keys -> Nat]
    BY <1>7 DEF Refill, TypeOK
  <2> QED
    BY <1>7, <2>1 DEF Refill, TypeOK, resources, requests
<1> QED
  BY <1>0, <1>1, <1>2, <1>3, <1>4, <1>5, <1>6, <1>7, MainType, HandleType DEF Next

(* Every reachable state of the process is well typed.                     *)
THEOREM TypeCorrect == Spec => []TypeOK
<1> QED
  BY InitType, NextType, PTL DEF Spec

-----------------------------------------------------------------------------
(* Who is there when                                                       *)

(* The server listens only while main serves, requests are in progress     *)
(* only until it has drained them, and the clients of database and broker  *)
(* are open for all of that time.                                          *)
Order ==
  /\ main \in {"broker", "start", "serve", "drain", "cancel"} => dbOpen
  /\ main \in {"start", "serve", "drain", "cancel"} => brokerOpen
  /\ listening => main \in {"start", "serve"}
  /\ InFlight # {} => main \in {"start", "serve", "drain"}

OrderInv == TypeOK /\ Order

(* At the start nobody is there.                                           *)
LEMMA InitOrder == Init => OrderInv
<1>1. Init => Order
  BY DEF Init, Order, InFlight
<1> QED
  BY <1>1, InitType DEF OrderInv

(* When the process is gone, so is everybody.                              *)
LEMMA ExitOrder ==
  ASSUME TypeOK, NEW how, Exit(how)
  PROVE  Order' /\ InFlight' = {}
<1>1. \A r \in Requests : request'[r] \notin {"received", "authorized", "admitted"}
  BY DEF Exit, InFlight
<1> QED
  BY <1>1 DEF Exit, Order, InFlight

(* Each step of main finds and leaves the order.                           *)
LEMMA MainOrder == ASSUME OrderInv, Main PROVE Order'
<1> USE DEF OrderInv
<1>1. ASSUME UNCHANGED request PROVE InFlight' = InFlight
  BY <1>1 DEF InFlight
<1>2. CASE LoadConfig
  BY <1>1, <1>2, ExitOrder DEF LoadConfig, Order, resources, requests
<1>3. CASE NewDatabase
  BY <1>1, <1>3 DEF NewDatabase, Order, requests
<1>4. CASE NewBroker
  BY <1>1, <1>4 DEF NewBroker, Order, requests
<1>5. CASE Notify
  BY <1>1, <1>5 DEF Notify, Order, resources, requests
<1>6. CASE Shutdown
  BY <1>1, <1>6 DEF Shutdown, Order, resources, requests
<1>7. CASE ShutdownFails
  BY <1>7, ExitOrder DEF ShutdownFails
<1>8. CASE CancelLoop
  BY <1>1, <1>8 DEF CancelLoop, Order, resources, requests
<1>9. CASE CloseBroker
  BY <1>1, <1>9 DEF CloseBroker, Order, requests
<1>10. CASE CloseDatabase
  BY <1>1, <1>10 DEF CloseDatabase, Order, requests
<1>11. CASE Return
  BY <1>11, ExitOrder DEF Return
<1> QED
  BY <1>2, <1>3, <1>4, <1>5, <1>6, <1>7, <1>8, <1>9, <1>10, <1>11 DEF Main

(* A request comes only while the server listens, and goes on alone.       *)
LEMMA HandleOrder ==
  ASSUME OrderInv, NEW r \in Requests, Handle(r) PROVE Order'
<1> USE DEF OrderInv
<1>1. CASE ProcessEvent(r)
  <2>1. CASE Exit("panic")
    BY <2>1, ExitOrder
  <2>2. CASE UNCHANGED <<main, resources, request>>
    BY <2>2 DEF Order, InFlight, resources
  <2> QED
    BY <1>1, <2>1, <2>2 DEF ProcessEvent
<1>2. CASE ~ProcessEvent(r)
  <2>1. UNCHANGED <<main, listening, brokerOpen, dbOpen>>
    BY <1>2 DEF Handle, Receive, AuthMiddleware, RateLimitMiddleware, RefuseRequest,
                ReceiveEventHandler, RegisterSchemaHandler, resources
  <2>2. CASE Receive(r)
    BY <2>1, <2>2 DEF Receive, Order
  <2>3. CASE ~Receive(r)
    <3>1. r \in InFlight
      BY <1>2, <2>3 DEF Handle, AuthMiddleware, RateLimitMiddleware, RefuseRequest,
                        ReceiveEventHandler, RegisterSchemaHandler, InFlight
    <3> QED
      BY <2>1, <3>1 DEF Order
  <2> QED
    BY <2>2, <2>3
<1> QED
  BY <1>1, <1>2

(* OrderInv is inductive.                                                  *)
LEMMA NextOrder == OrderInv /\ [Next]_vars => OrderInv'
<1> SUFFICES ASSUME OrderInv, [Next]_vars PROVE OrderInv'
  OBVIOUS
<1>t. TypeOK /\ TypeOK' /\ Order
  BY NextType DEF OrderInv
<1>q. SUFFICES Order'
  BY <1>t DEF OrderInv
<1>0. ASSUME UNCHANGED <<main, listening, brokerOpen, dbOpen, request>> PROVE Order'
  BY <1>t, <1>0 DEF Order, InFlight
<1>1. CASE Failure
  BY <1>t, <1>1, ExitOrder DEF Failure, BrokerFails, ListenFails, Crash
<1>2. CASE Signal
  <2>1. CASE Exit("killed")
    BY <1>t, <2>1, ExitOrder
  <2>2. CASE /\ main = "serve" /\ main' = "drain" /\ listening' = FALSE
             /\ UNCHANGED <<brokerOpen, dbOpen, request>>
    BY <1>t, <2>2 DEF Order, InFlight
  <2> QED
    BY <1>2, <2>1, <2>2 DEF Signal, requests
<1>3. CASE Restart
  BY <1>t, <1>3 DEF Restart, Order, InFlight, resources, requests
<1>4. CASE Listen
  BY <1>t, <1>4 DEF Listen, Order
<1>5. CASE StartLoop
  <2>1. CASE Exit("panic")
    BY <1>t, <2>1, ExitOrder
  <2>2. CASE UNCHANGED <<main, resources, requests>>
    BY <1>0, <2>2 DEF resources, requests
  <2> QED
    BY <1>5, <2>1, <2>2 DEF StartLoop
<1>6. CASE LoopStep
  BY <1>0, <1>6 DEF LoopStep, resources, requests
<1>7. ASSUME NEW k \in Keys, Refill(k) PROVE Order'
  BY <1>0, <1>7 DEF Refill, resources, requests
<1>8. CASE UNCHANGED vars
  BY <1>0, <1>8 DEF vars, resources, requests
<1> QED
  BY <1>1, <1>2, <1>3, <1>4, <1>5, <1>6, <1>7, <1>8, MainOrder, HandleOrder DEF Next

(* OrderInv holds in every reachable state.                                *)
LEMMA SpecOrder == Spec => []OrderInv
<1> QED
  BY InitOrder, NextOrder, PTL DEF Spec

(* No request finds the database or the broker closed, at the start of the *)
(* process or at its end, whatever settings it has and wherever it fails.  *)
THEOREM DatabaseFound == Spec => []RequestsFindDatabase
<1>1. OrderInv => RequestsFindDatabase
  BY DEF OrderInv, Order, RequestsFindDatabase
<1> QED
  BY <1>1, SpecOrder, PTL

(* main returns only after Shutdown has seen the last request answered:    *)
(* the step that ends a process gracefully resets none.                    *)
THEOREM Graceful == Spec => GracefulStopAnswers
<1> DEFINE Answers == outcome' = "graceful" =>
                        \A r \in Requests : request'[r] = "reset" => request[r] = "reset"
<1>1. ASSUME OrderInv, [Next]_vars PROVE Answers
  <2>t. TypeOK /\ Order
    BY <1>1 DEF OrderInv
  <2>0. ASSUME UNCHANGED request PROVE Answers
    BY <2>0
  <2>1. ASSUME NEW how \in {"fatal", "panic", "killed"}, Exit(how) PROVE Answers
    BY <2>1 DEF Exit
  <2>2. CASE Return
    <3>1. \A r \in Requests : request'[r] = request[r]
      BY <2>t, <2>2 DEF Return, Exit, Order
    <3> QED
      BY <3>1
  <2>3. CASE Main
    BY <2>0, <2>1, <2>2, <2>3
       DEF Main, LoadConfig, NewDatabase, NewBroker, Notify, Shutdown, ShutdownFails,
           CancelLoop, CloseBroker, CloseDatabase, requests
  <2>4. CASE Failure
    BY <2>1, <2>4 DEF Failure, BrokerFails, ListenFails, Crash
  <2>5. ASSUME NEW r \in Requests, Handle(r) PROVE Answers
    <3>1. CASE ProcessEvent(r)
      BY <2>0, <2>1, <3>1 DEF ProcessEvent
    <3>2. ASSUME NEW how \in {"received", "authorized", "admitted", "answered"},
                 request' = [request EXCEPT ![r] = how]
          PROVE  Answers
      BY <2>t, <3>2 DEF TypeOK
    <3> QED
      BY <2>5, <3>1, <3>2
         DEF Handle, Receive, AuthMiddleware, RateLimitMiddleware, RefuseRequest,
             ReceiveEventHandler, RegisterSchemaHandler, Answer
  <2> QED
    BY <1>1, <2>0, <2>1, <2>3, <2>4, <2>5
       DEF Next, Signal, Restart, Listen, StartLoop, LoopStep, Refill, vars, requests
<1> QED
  BY <1>1, SpecOrder, PTL DEF Spec, GracefulStopAnswers

-----------------------------------------------------------------------------
(* The limiters                                                            *)

(* While it can be asked, the limiter of a key holds what is left of its   *)
(* burst and its refills; before and after it never holds more.  Only a    *)
(* configured key gets as far as its limiter.                              *)
Balance ==
  /\ \A k \in config.keys : tokens[k] + taken[k] <= config.burst + refilled[k]
  /\ main \in {"start", "serve", "drain", "cancel"} =>
       \A k \in config.keys : tokens[k] + taken[k] = config.burst + refilled[k]
  /\ \A r \in Requests : request[r] = "authorized" => KeyOf[r] \in config.keys

LimiterInv == OrderInv /\ Balance

(* What Load makes of the settings that the limiters need.                 *)
LEMMA ConfigType == TypeOK => config.burst \in Nat /\ config.keys \subseteq Keys
BY ServiceAssumption DEF TypeOK

(* Before a process listens its limiters are empty.                        *)
LEMMA InitLimiter == Init => LimiterInv
<1> SUFFICES ASSUME Init PROVE LimiterInv
  OBVIOUS
<1>1. OrderInv
  BY InitOrder
<1>2. config.burst \in Nat /\ config.keys \subseteq Keys
  BY <1>1, ConfigType DEF OrderInv
<1> QED
  BY <1>1, <1>2 DEF Init, LimiterInv, Balance

(* A step that leaves the limiters alone keeps the balance, unless it      *)
(* starts main or authorizes a request.                                    *)
LEMMA BalanceKept ==
  ASSUME Balance, UNCHANGED <<config, tokens, taken, refilled>>,
         main' \in {"start", "serve", "drain", "cancel"} =>
           main \in {"start", "serve", "drain", "cancel"},
         \A r \in Requests : request'[r] = "authorized" => request[r] = "authorized"
  PROVE  Balance'
BY DEF Balance

(* Balance is kept by every step.                                          *)
LEMMA NextLimiter == LimiterInv /\ [Next]_vars => LimiterInv'
<1> SUFFICES ASSUME LimiterInv, [Next]_vars PROVE LimiterInv'
  OBVIOUS
<1>t. OrderInv /\ OrderInv' /\ TypeOK /\ Balance /\ Order
  BY NextOrder DEF LimiterInv, OrderInv
<1>q. SUFFICES Balance'
  BY <1>t DEF LimiterInv
<1>c. config.burst \in Nat /\ config.keys \subseteq Keys
  BY <1>t, ConfigType
<1>n. \A k \in Keys : tokens[k] \in Nat /\ taken[k] \in Nat /\ refilled[k] \in Nat
  BY <1>t DEF TypeOK
<1>0. ASSUME NEW how, Exit(how) PROVE Balance'
  BY <1>t, <1>0, BalanceKept DEF Exit, limiters
<1>1. CASE NewBroker
  <2>1. \A k \in config.keys : tokens'[k] = config.burst /\ taken'[k] = 0 /\ refilled'[k] = 0
    BY <1>c, <1>1 DEF NewBroker
  <2> QED
    BY <1>t, <1>c, <1>1, <2>1 DEF NewBroker, Balance, requests
<1>2. ASSUME UNCHANGED <<config, main, limiters, request>> PROVE Balance'
  BY <1>t, <1>2, BalanceKept DEF limiters
<1>3. CASE Main
  BY <1>t, <1>0, <1>1, <1>2, <1>3, BalanceKept
     DEF Main, LoadConfig, NewDatabase, Notify, Shutdown, ShutdownFails,
         CancelLoop, CloseBroker, CloseDatabase, Return, requests, limiters
<1>4. CASE Failure
  BY <1>0, <1>4 DEF Failure, BrokerFails, ListenFails, Crash
<1>5. CASE Signal
  BY <1>t, <1>0, <1>5, BalanceKept DEF Signal, limiters, requests
<1>6. CASE Restart
  BY <1>t, <1>6, BalanceKept DEF Restart, limiters, requests
<1>7. ASSUME NEW r \in Requests, Handle(r) PROVE Balance'
  <2>k. KeyOf[r] \in Keys
    BY ServiceAssumption
  <2>1. ASSUME UNCHANGED <<config, main, limiters>>,
               NEW how \in {"received", "admitted", "answered"},
               request' = [request EXCEPT ![r] = how]
        PROVE  Balance'
    BY <1>t, <2>1, BalanceKept DEF TypeOK, limiters
  <2>2. CASE AuthMiddleware(r) /\ KeyOf[r] \in config.keys
    BY <1>t, <2>2 DEF AuthMiddleware, TypeOK, Balance, limiters
  <2>3. CASE RateLimitMiddleware(r) /\ tokens[KeyOf[r]] > 0
    <3>1. \A k \in Keys : tokens'[k] + taken'[k] = tokens[k] + taken[k]
      BY <1>t, <1>n, <2>k, <2>3 DEF RateLimitMiddleware, TypeOK
    <3>2. \A q \in Requests : request'[q] = "authorized" => request[q] = "authorized"
      BY <1>t, <2>3 DEF RateLimitMiddleware, TypeOK
    <3> QED
      BY <1>t, <1>c, <2>3, <3>1, <3>2 DEF RateLimitMiddleware, Balance
  <2>4. CASE ProcessEvent(r)
    BY <1>0, <1>2, <2>4 DEF ProcessEvent
  <2> QED
    BY <1>7, <2>1, <2>2, <2>3, <2>4
       DEF Handle, Receive, AuthMiddleware, RateLimitMiddleware, RefuseRequest,
           ReceiveEventHandler, RegisterSchemaHandler, Answer, limiters
<1>8. ASSUME NEW k \in Keys, Refill(k) PROVE Balance'
  <2>1. /\ tokens'[k] = tokens[k] + 1 /\ refilled'[k] = refilled[k] + 1 /\ taken' = taken
        /\ \A j \in Keys \ {k} : tokens'[j] = tokens[j] /\ refilled'[j] = refilled[j]
    BY <1>t, <1>8 DEF Refill, TypeOK
  <2>2. ASSUME NEW j \in config.keys,
               tokens[j] + taken[j] <= config.burst + refilled[j]
        PROVE  tokens'[j] + taken'[j] <= config.burst + refilled'[j]
    BY <1>c, <1>n, <2>1, <2>2
  <2>3. ASSUME NEW j \in config.keys,
               tokens[j] + taken[j] = config.burst + refilled[j]
        PROVE  tokens'[j] + taken'[j] = config.burst + refilled'[j]
    <3>1. /\ j \in Keys /\ taken'[j] = taken[j]
          /\ \/ j = k /\ tokens'[j] = tokens[j] + 1 /\ refilled'[j] = refilled[j] + 1
             \/ tokens'[j] = tokens[j] /\ refilled'[j] = refilled[j]
      BY <1>c, <2>1
    <3>2. tokens[j] \in Nat /\ taken[j] \in Nat /\ refilled[j] \in Nat
      BY <1>n, <3>1
    <3> QED
      BY <1>c, <2>3, <3>1, <3>2
  <2>4. UNCHANGED <<config, main, request>>
    BY <1>8 DEF Refill, requests
  <2> QED
    BY <1>t, <2>2, <2>3, <2>4 DEF Balance
<1>9. CASE UNCHANGED vars
  BY <1>2, <1>9 DEF vars, requests
<1>10. CASE Listen \/ StartLoop \/ LoopStep
  BY <1>0, <1>2, <1>10 DEF Listen, StartLoop, LoopStep, requests
<1> QED
  BY <1>3, <1>4, <1>5, <1>6, <1>7, <1>8, <1>9, <1>10 DEF Next

(* LimiterInv holds in every reachable state.                              *)
LEMMA SpecLimiter == Spec => []LimiterInv
<1> QED
  BY InitLimiter, NextLimiter, PTL DEF Spec

(* No key is admitted more often than its burst and its refills allow,     *)
(* for every number of requests and every interleaving of them.            *)
THEOREM Admission == Spec => []AdmissionBounded
<1>1. ASSUME LimiterInv PROVE AdmissionBounded
  <2>1. config.burst \in Nat /\ config.keys \subseteq Keys
    BY <1>1, ConfigType DEF LimiterInv, OrderInv
  <2>2. \A k \in Keys : tokens[k] \in Nat /\ taken[k] \in Nat /\ refilled[k] \in Nat
    BY <1>1 DEF LimiterInv, OrderInv, TypeOK
  <2> QED
    BY <1>1, <2>1, <2>2 DEF LimiterInv, Balance, AdmissionBounded
<1> QED
  BY <1>1, SpecLimiter, PTL

(* A request is answered 429 only when its own key has used up a burst:    *)
(* no other client can bring that about.                                   *)
THEOREM Throttled == Spec => ThrottledForCause
<1> DEFINE Cause == \A r \in Requests :
             answer'[r] = 429 /\ answer[r] # 429 => taken[KeyOf[r]] >= config.burst
<1>1. ASSUME LimiterInv, [Next]_vars PROVE Cause
  <2>t. TypeOK /\ Order /\ Balance
    BY <1>1 DEF LimiterInv, OrderInv
  <2>c. config.burst \in Nat /\ config.keys \subseteq Keys
    BY <2>t, ConfigType
  <2>0. ASSUME UNCHANGED answer PROVE Cause
    BY <2>0
  <2>1. ASSUME NEW r \in Requests, Handle(r) PROVE Cause
    <3>1. ASSUME NEW status \in {201, 202, 400, 401, 500}, Answer(r, status) PROVE Cause
      BY <2>t, <3>1 DEF Answer, TypeOK
    <3>2. CASE RateLimitMiddleware(r) /\ ~(tokens[KeyOf[r]] > 0)
      <4>1. KeyOf[r] \in config.keys /\ r \in InFlight
        BY <2>t, <3>2 DEF RateLimitMiddleware, Balance, InFlight
      <4>2. tokens[KeyOf[r]] + taken[KeyOf[r]] = config.burst + refilled[KeyOf[r]]
        BY <2>t, <4>1 DEF Order, Balance
      <4>3. /\ tokens[KeyOf[r]] \in Nat /\ taken[KeyOf[r]] \in Nat /\ refilled[KeyOf[r]] \in Nat
        BY <2>t, <2>c, <4>1 DEF TypeOK
      <4>4. taken[KeyOf[r]] >= config.burst
        BY <2>c, <3>2, <4>2, <4>3
      <4>5. \A q \in Requests \ {r} : answer'[q] = answer[q]
        BY <2>t, <3>2 DEF RateLimitMiddleware, Answer, TypeOK
      <4> QED
        BY <4>4, <4>5
    <3> QED
      BY <2>0, <2>1, <3>1, <3>2
         DEF Handle, Receive, AuthMiddleware, RateLimitMiddleware, RefuseRequest,
             ReceiveEventHandler, RegisterSchemaHandler, ProcessEvent, Exit
  <2>2. CASE Main
    BY <2>0, <2>2
       DEF Main, LoadConfig, NewDatabase, NewBroker, Notify, Shutdown, ShutdownFails,
           CancelLoop, CloseBroker, CloseDatabase, Return, Exit, requests
  <2>3. CASE Failure
    BY <2>0, <2>3 DEF Failure, BrokerFails, ListenFails, Crash, Exit
  <2> QED
    BY <1>1, <2>0, <2>1, <2>2, <2>3
       DEF Next, Signal, Restart, Listen, StartLoop, LoopStep, Refill, Exit, vars, requests
<1> QED
  BY <1>1, SpecLimiter, PTL DEF Spec, ThrottledForCause

-----------------------------------------------------------------------------
(* The settings                                                            *)

(* A key has the value of the first source that knows it.                  *)
LEMMA SettingsValue ==
  ASSUME NEW file, NEW env, NEW key
  PROVE  /\ key \in DOMAIN OverrideWithEnv(env) =>
              /\ key \in DOMAIN Settings(file, env)
              /\ Settings(file, env)[key] = OverrideWithEnv(env)[key]
         /\ key \notin DOMAIN OverrideWithEnv(env) /\ key \in DOMAIN PrefixedEnv(file, env) =>
              /\ key \in DOMAIN Settings(file, env)
              /\ Settings(file, env)[key] = env[key]
         /\ /\ key \notin DOMAIN OverrideWithEnv(env) /\ key \notin DOMAIN PrefixedEnv(file, env)
            /\ key \in DOMAIN file
            => /\ key \in DOMAIN Settings(file, env)
               /\ Settings(file, env)[key] = file[key]
         /\ /\ key \notin DOMAIN OverrideWithEnv(env) /\ key \notin DOMAIN PrefixedEnv(file, env)
            /\ key \notin DOMAIN file /\ key \in DOMAIN Defaults
            => /\ key \in DOMAIN Settings(file, env)
               /\ Settings(file, env)[key] = Defaults[key]
         /\ /\ key \notin DOMAIN OverrideWithEnv(env) /\ key \notin DOMAIN PrefixedEnv(file, env)
            /\ key \notin DOMAIN file /\ key \notin DOMAIN Defaults
            => key \notin DOMAIN Settings(file, env)
<1> DEFINE plain == OverrideWithEnv(env)
           prefixed == PrefixedEnv(file, env)
<1>1. ASSUME NEW f, NEW g
      PROVE  /\ DOMAIN Before(f, g) = DOMAIN f \cup DOMAIN g
             /\ key \in DOMAIN f => Before(f, g)[key] = f[key]
             /\ key \notin DOMAIN f /\ key \in DOMAIN g => Before(f, g)[key] = g[key]
  BY DEF Before
<1>2. \A k \in DOMAIN prefixed : prefixed[k] = env[k]
  BY DEF PrefixedEnv
<1>3. Settings(file, env) = Before(plain, Before(prefixed, Before(file, Defaults)))
  BY DEF Settings
<1> HIDE DEF plain, prefixed
<1>4. /\ DOMAIN Before(file, Defaults) = DOMAIN file \cup DOMAIN Defaults
      /\ key \in DOMAIN file => Before(file, Defaults)[key] = file[key]
      /\ key \notin DOMAIN file /\ key \in DOMAIN Defaults =>
           Before(file, Defaults)[key] = Defaults[key]
  BY <1>1
<1> DEFINE stored == Before(file, Defaults)
           rest == Before(prefixed, stored)
<1>5. /\ DOMAIN rest = DOMAIN prefixed \cup DOMAIN stored
      /\ key \in DOMAIN prefixed => rest[key] = env[key]
      /\ key \notin DOMAIN prefixed /\ key \in DOMAIN stored => rest[key] = stored[key]
  BY <1>1, <1>2
<1>6. /\ DOMAIN Settings(file, env) = DOMAIN plain \cup DOMAIN rest
      /\ key \in DOMAIN plain => Settings(file, env)[key] = plain[key]
      /\ key \notin DOMAIN plain /\ key \in DOMAIN rest => Settings(file, env)[key] = rest[key]
  BY <1>1, <1>3
<1> HIDE DEF stored, rest
<1> QED
  BY <1>4, <1>5, <1>6 DEF plain, prefixed, stored

(* Whatever a file and an environment hold, Load gets the settings that a  *)
(* process depends on from the source that has the say.                    *)
THEOREM SettingsLoaded ==
  ASSUME NEW file, NEW env
  PROVE  SettingsRespected(file, env)
<1> DEFINE settings == Settings(file, env)
<1>1. /\ Load(file, env).keys = Get(settings, "api.api_keys", {})
      /\ Load(file, env).password = Get(settings, "database.password", "")
      /\ Load(file, env).backoff = Get(settings, "outbox.retry_backoff", Duration(0)).n
      /\ Load(file, env).interval = ProcessInterval(settings["outbox.process_interval"])
  BY DEF Load
<1>2. DOMAIN OverrideWithEnv(env) =
        {key \in {"database.password", "api.api_keys"} :
           /\ key = "database.password" => "DB_PASSWORD" \in DOMAIN env
           /\ key = "api.api_keys" => "API_KEY" \in DOMAIN env}
  BY DEF OverrideWithEnv
<1>3. DOMAIN PrefixedEnv(file, env) = DOMAIN env \cap (DOMAIN file \cup DOMAIN Defaults)
  BY DEF PrefixedEnv
<1>4. /\ DOMAIN Defaults = {"api.rate_limit_burst", "broker.type", "api.max_payload_size",
                            "outbox.process_interval", "broker.kafka.max_retries"}
      /\ Defaults["outbox.process_interval"] = Duration(5)
  BY DEF Defaults
<1> HIDE DEF settings
<1>5. ASSUME "API_KEY" \in DOMAIN env PROVE Load(file, env).keys = {env["API_KEY"]}
  <2>1. "api.api_keys" \in DOMAIN OverrideWithEnv(env)
    BY <1>2, <1>5
  <2>2. OverrideWithEnv(env)["api.api_keys"] = {env["API_KEY"]}
    BY <2>1, <1>2 DEF OverrideWithEnv
  <2> QED
    BY <1>1, <2>1, <2>2, SettingsValue DEF Get, settings
<1>6. ASSUME "DB_PASSWORD" \in DOMAIN env PROVE Load(file, env).password = env["DB_PASSWORD"]
  <2>1. "database.password" \in DOMAIN OverrideWithEnv(env)
    BY <1>2, <1>6
  <2>2. OverrideWithEnv(env)["database.password"] = env["DB_PASSWORD"]
    BY <2>1, <1>2 DEF OverrideWithEnv
  <2> QED
    BY <1>1, <2>1, <2>2, SettingsValue DEF Get, settings
<1>7. ASSUME "outbox.retry_backoff" \notin DOMAIN file PROVE Load(file, env).backoff = 0
  <2>1. /\ "outbox.retry_backoff" \notin DOMAIN OverrideWithEnv(env)
        /\ "outbox.retry_backoff" \notin DOMAIN PrefixedEnv(file, env)
        /\ "outbox.retry_backoff" \notin DOMAIN Defaults
    BY <1>2, <1>3, <1>4, <1>7
  <2>2. "outbox.retry_backoff" \notin DOMAIN settings
    BY <1>7, <2>1, SettingsValue DEF settings
  <2>3. Duration(0).n = 0
    BY DEF Duration
  <2> QED
    BY <1>1, <2>2, <2>3 DEF Get
<1>i. "outbox.process_interval" \notin DOMAIN OverrideWithEnv(env)
  BY <1>2
<1>8. ASSUME "outbox.process_interval" \notin DOMAIN file \cup DOMAIN env
      PROVE  Load(file, env).interval = 5
  <2>1. settings["outbox.process_interval"] = Duration(5)
    BY <1>i, <1>3, <1>4, <1>8, SettingsValue DEF settings
  <2>2. Duration(5).form = "duration" /\ Duration(5).n = 5
    BY DEF Duration
  <2> QED
    BY <1>1, <2>1, <2>2 DEF ProcessInterval
<1>9. ASSUME Load(file, env).interval <= 0
      PROVE  \E source \in {file, env} :
               /\ "outbox.process_interval" \in DOMAIN source
               /\ LET value == source["outbox.process_interval"]
                  IN  value.form = "duration" \/ value.n = 0
  <2>1. ~(5 <= 0)
    OBVIOUS
  <2>2. PICK source \in {file, env} :
          /\ "outbox.process_interval" \in DOMAIN source
          /\ settings["outbox.process_interval"] = source["outbox.process_interval"]
    <3>1. CASE "outbox.process_interval" \in DOMAIN env
      BY <1>i, <1>3, <1>4, <3>1, SettingsValue DEF settings
    <3>2. CASE "outbox.process_interval" \notin DOMAIN env /\ "outbox.process_interval" \in DOMAIN file
      <4>1. "outbox.process_interval" \notin DOMAIN PrefixedEnv(file, env)
        BY <1>3, <3>2
      <4>2. settings["outbox.process_interval"] = file["outbox.process_interval"]
        BY <1>i, <3>2, <4>1, SettingsValue DEF settings
      <4> QED
        BY <3>2, <4>2
    <3>3. "outbox.process_interval" \in DOMAIN file \cup DOMAIN env
      BY <1>8, <1>9, <2>1
    <3> QED
      BY <3>1, <3>2, <3>3
  <2>3. settings["outbox.process_interval"].form = "duration"
          \/ settings["outbox.process_interval"].n = 0
    BY <1>1, <1>9, <2>1 DEF ProcessInterval
  <2> QED
    BY <2>2, <2>3
<1> QED
  BY <1>5, <1>6, <1>7, <1>8, <1>9 DEF SettingsRespected

(* Load is right for every process.                                        *)
THEOREM Loaded == Spec => []LoadIsRight
<1>1. LoadIsRight
  BY SettingsLoaded DEF LoadIsRight
<1> QED
  BY <1>1, PTL

-----------------------------------------------------------------------------
(* What a process does shows what its settings are                         *)

Wired == config.valid /\ config.password = DatabasePassword /\ BrokerUsable

(* Only a process whose settings decode, open the database and make a      *)
(* publisher ever receives a request; its loop works only with a positive  *)
(* interval, and an event is saved only where retry_backoff is set.        *)
WorkShowsSettings ==
  /\ \A r \in Requests : request[r] # "unsent" => Wired
  /\ loop \in {"polling", "processing", "stopped"} => config.interval > 0
  /\ \A r \in Requests : event[r] = "saved" => config.backoff > 0

(* How far main comes with which settings.                                 *)
Passed ==
  /\ main \notin {"load", "exited"} => config.valid
  /\ main \in {"broker", "start", "serve", "drain", "cancel", "close"} =>
       config.password = DatabasePassword
  /\ main \in {"start", "serve", "drain", "cancel", "close"} => BrokerUsable

SettingsInv == OrderInv /\ Passed /\ WorkShowsSettings /\ EndsForCause

(* Each part speaks of few variables.                                      *)
LEMMA SettingsKept ==
  ASSUME SettingsInv, config' = config
  PROVE  /\ main' = main \/ main' \in {"load", "exited"} => Passed'
         /\ request' = request /\ loop' \in {loop, "off"} /\ event' = event => WorkShowsSettings'
         /\ UNCHANGED <<outcome, request>> /\ faults' \in {faults, faults + 1} => EndsForCause'
<1>1. faults \in Nat /\ (faults' = faults + 1 => (faults > 0 => faults' > 0))
  <2>1. MaxFaults \in Nat
    BY ServiceAssumption
  <2>2. faults \in Nat
    BY <2>1 DEF SettingsInv, OrderInv, TypeOK
  <2> QED
    BY <2>2
<1>2. main' = main \/ main' \in {"load", "exited"} => Passed'
  BY DEF SettingsInv, Passed, BrokerUsable
<1>3. request' = request /\ loop' \in {loop, "off"} /\ event' = event => WorkShowsSettings'
  BY DEF SettingsInv, WorkShowsSettings, Wired, BrokerUsable
<1>4. UNCHANGED <<outcome, request>> /\ faults' \in {faults, faults + 1} => EndsForCause'
  BY <1>1 DEF SettingsInv, EndsForCause, BrokerUsable
<1> QED
  BY <1>2, <1>3, <1>4

(* The end of a process: it needs a cause of its own.                      *)
LEMMA ExitKeeps ==
  ASSUME SettingsInv, NEW how, Exit(how)
  PROVE  /\ Passed' /\ WorkShowsSettings' /\ config' = config /\ outcome' = how
         /\ InFlight # {} => \E r \in Requests : request'[r] = "reset"
<1>1. config' = config /\ main' = "exited" /\ loop' = "off" /\ outcome' = how
  BY DEF Exit
<1>2. \A r \in Requests : /\ request'[r] # "unsent" => request[r] # "unsent"
                          /\ event'[r] = "saved" => event[r] = "saved"
  BY DEF Exit, InFlight
<1>3. InFlight # {} => \E r \in Requests : request'[r] = "reset"
  BY DEF Exit, InFlight
<1> QED
  BY <1>1, <1>2, <1>3 DEF SettingsInv, Passed, WorkShowsSettings, Wired, BrokerUsable

(* main passes a place only with the settings for it.                      *)
LEMMA MainSettings ==
  ASSUME SettingsInv, Main PROVE Passed' /\ WorkShowsSettings' /\ EndsForCause'
<1>1. CASE LoadConfig
  <2>1. CASE ~config.valid /\ Exit("fatal")
    BY <2>1, ExitKeeps DEF EndsForCause, BrokerUsable
  <2>2. CASE /\ config.valid /\ main' = "connect"
             /\ UNCHANGED <<config, outcome, loop, resources, limiters, requests, faults>>
    BY <2>2, SettingsKept DEF Passed, requests, BrokerUsable
  <2> QED
    BY <1>1, <2>1, <2>2 DEF LoadConfig, resources, limiters, requests
<1>2. CASE NewDatabase
  BY <1>2, SettingsKept DEF NewDatabase, SettingsInv, Passed, requests, BrokerUsable
<1>3. CASE NewBroker
  <2>1. Passed'
    BY <1>3 DEF NewBroker, SettingsInv, Passed, BrokerUsable
  <2>2. WorkShowsSettings'
    BY <1>3 DEF NewBroker, SettingsInv, WorkShowsSettings, Wired, requests, BrokerUsable
  <2>3. EndsForCause'
    BY <1>3, SettingsKept DEF NewBroker, requests
  <2> QED
    BY <2>1, <2>2, <2>3
<1>4. CASE Notify \/ Shutdown \/ CancelLoop
  <2>1. UNCHANGED <<config, outcome, loop, request, event, faults>>
    BY <1>4 DEF Notify, Shutdown, CancelLoop, requests
  <2>2. Passed'
    BY <1>4, <2>1 DEF Notify, Shutdown, CancelLoop, SettingsInv, Passed, BrokerUsable
  <2> QED
    BY <2>1, <2>2, SettingsKept
<1>5. CASE ShutdownFails
  <2>1. InFlight # {} /\ Exit("fatal")
    BY <1>5 DEF ShutdownFails
  <2>2. \E r \in Requests : request'[r] = "reset"
    BY <2>1, ExitKeeps
  <2>3. EndsForCause'
    BY <2>1, <2>2 DEF EndsForCause, Exit, BrokerUsable
  <2> QED
    BY <2>1, <2>3, ExitKeeps
<1>6. CASE CloseBroker \/ CloseDatabase
  BY <1>6, SettingsKept DEF CloseBroker, CloseDatabase, requests
<1>7. CASE Return
  BY <1>7, ExitKeeps DEF Return, EndsForCause, BrokerUsable
<1> QED
  BY <1>1, <1>2, <1>3, <1>4, <1>5, <1>6, <1>7 DEF Main

(* A request is received only by a process that got as far as listening.   *)
LEMMA HandleSettings ==
  ASSUME SettingsInv, NEW r \in Requests, Handle(r)
  PROVE  Passed' /\ WorkShowsSettings' /\ EndsForCause'
<1>t. /\ request \in [Requests -> {"unsent", "received", "authorized", "admitted", "answered",
                                   "reset"}]
      /\ event \in [Requests -> {"none", "running", "saved", "lost"}]
  BY DEF SettingsInv, OrderInv, TypeOK
<1>1. ASSUME NEW to \in {"received", "authorized", "admitted", "answered"},
             request' = [request EXCEPT ![r] = to], request[r] # "unsent" \/ Wired,
             UNCHANGED <<config, main, outcome, loop, faults>>,
             event' = event \/ event' = [event EXCEPT ![r] = "running"],
             request[r] # "reset"
      PROVE  Passed' /\ WorkShowsSettings' /\ EndsForCause'
  <2>1. \A q \in Requests : request'[q] # "unsent" => Wired
    BY <1>t, <1>1 DEF SettingsInv, WorkShowsSettings
  <2>2. \A q \in Requests : event'[q] = "saved" => event[q] = "saved"
    BY <1>t, <1>1
  <2>3. WorkShowsSettings'
    BY <1>1, <2>1, <2>2 DEF SettingsInv, WorkShowsSettings, Wired, BrokerUsable
  <2>4. \A q \in Requests : request[q] = "reset" => request'[q] = "reset"
    BY <1>t, <1>1
  <2>5. EndsForCause'
    BY <1>1, <2>4 DEF SettingsInv, EndsForCause, BrokerUsable
  <2> QED
    BY <1>1, <2>3, <2>5, SettingsKept
<1>2. CASE ProcessEvent(r)
  <2>1. CASE config.backoff <= 0 /\ Exit("panic")
    BY <2>1, ExitKeeps DEF EndsForCause, BrokerUsable
  <2>2. CASE /\ config.backoff > 0 /\ event' = [event EXCEPT ![r] = "saved"]
             /\ UNCHANGED <<config, main, outcome, loop, request, faults>>
    <3>1. WorkShowsSettings'
      BY <2>2 DEF SettingsInv, WorkShowsSettings, Wired, BrokerUsable
    <3> QED
      BY <2>2, <3>1, SettingsKept
  <2> QED
    BY <1>2, <2>1, <2>2 DEF ProcessEvent
<1>3. CASE Receive(r)
  <2>1. Wired /\ request[r] = "unsent"
    BY <1>3 DEF Receive, SettingsInv, OrderInv, Order, Passed, Wired, BrokerUsable
  <2> QED
    BY <1>1, <1>3, <2>1 DEF Receive
<1>4. CASE ~Receive(r) /\ ~ProcessEvent(r)
  <2>1. /\ \E to \in {"authorized", "admitted", "answered"} :
             request' = [request EXCEPT ![r] = to]
        /\ request[r] \notin {"unsent", "reset"}
        /\ UNCHANGED <<config, main, outcome, loop, faults>>
        /\ event' = event \/ event' = [event EXCEPT ![r] = "running"]
    BY <1>4 DEF Handle, AuthMiddleware, RateLimitMiddleware, RefuseRequest,
                ReceiveEventHandler, RegisterSchemaHandler, Answer
  <2> QED
    BY <1>1, <2>1
<1> QED
  BY <1>2, <1>3, <1>4

(* SettingsInv is inductive.                                               *)
LEMMA NextSettings == SettingsInv /\ [Next]_vars => SettingsInv'
<1> SUFFICES ASSUME SettingsInv, [Next]_vars PROVE SettingsInv'
  OBVIOUS
<1>t. OrderInv'
  BY NextOrder DEF SettingsInv
<1>q. SUFFICES Passed' /\ WorkShowsSettings' /\ EndsForCause'
  BY <1>t DEF SettingsInv
<1>f. faults \in Nat
  <2>1. MaxFaults \in Nat
    BY ServiceAssumption
  <2> QED
    BY <2>1 DEF SettingsInv, OrderInv, TypeOK
<1>1. CASE BrokerFails
  <2>1. Exit("fatal") /\ (~BrokerUsable \/ faults' = faults + 1)
    BY <1>1 DEF BrokerFails, Fault
  <2> QED
    BY <1>f, <2>1, ExitKeeps DEF EndsForCause, BrokerUsable
<1>2. CASE ListenFails
  BY <1>2, <1>f, ExitKeeps DEF ListenFails, Fault, EndsForCause, BrokerUsable
<1>3. CASE Crash
  BY <1>3, ExitKeeps DEF Crash, EndsForCause, BrokerUsable
<1>4. CASE Signal
  <2>1. CASE Exit("killed")
    BY <2>1, ExitKeeps DEF EndsForCause, BrokerUsable
  <2>2. CASE /\ main = "serve" /\ main' = "drain"
             /\ UNCHANGED <<config, outcome, loop, request, event, faults>>
    <3>1. Passed'
      BY <2>2 DEF SettingsInv, Passed, BrokerUsable
    <3> QED
      BY <2>2, <3>1, SettingsKept
  <2> QED
    BY <1>4, <2>1, <2>2 DEF Signal, requests
<1>5. CASE Restart
  <2>1. /\ main' = "load" /\ outcome' = "none"
        /\ UNCHANGED <<config, loop, request, event>>
    BY <1>5 DEF Restart, requests
  <2> QED
    BY <2>1, SettingsKept DEF EndsForCause, BrokerUsable
<1>6. CASE Listen
  BY <1>6, SettingsKept DEF Listen, requests
<1>7. CASE StartLoop
  <2>1. CASE config.interval <= 0 /\ Exit("panic")
    BY <2>1, ExitKeeps DEF EndsForCause, BrokerUsable
  <2>2. CASE /\ config.interval > 0 /\ UNCHANGED <<config, main, outcome, request, event, faults>>
    BY <2>2, SettingsKept DEF SettingsInv, WorkShowsSettings, Wired, BrokerUsable
  <2> QED
    BY <1>7, <2>1, <2>2 DEF StartLoop, requests
<1>8. CASE LoopStep
  <2>1. /\ loop \in {"polling", "processing"}
        /\ UNCHANGED <<config, main, outcome, request, event, faults>>
    BY <1>8 DEF LoopStep, requests
  <2>2. config.interval > 0
    BY <2>1 DEF SettingsInv, WorkShowsSettings
  <2> QED
    BY <2>1, <2>2, SettingsKept DEF SettingsInv, WorkShowsSettings, Wired, BrokerUsable
<1>9. ASSUME NEW k \in Keys, Refill(k) PROVE Passed' /\ WorkShowsSettings' /\ EndsForCause'
  BY <1>9, SettingsKept DEF Refill, requests
<1>10. CASE UNCHANGED vars
  BY <1>10, SettingsKept DEF vars, requests
<1> QED
  BY <1>1, <1>2, <1>3, <1>4, <1>5, <1>6, <1>7, <1>8, <1>9, <1>10, MainSettings, HandleSettings
  DEF Next, Failure

(* SettingsInv holds in every reachable state.                             *)
LEMMA SpecSettings == Spec => []SettingsInv
<1>1. Init => SettingsInv
  BY InitOrder DEF Init, SettingsInv, Passed, WorkShowsSettings, EndsForCause, BrokerUsable
<1> QED
  BY <1>1, NextSettings, PTL DEF Spec

(* Whatever file and environment a process starts with, what it does is    *)
(* what they allow, through all its restarts.                              *)
THEOREM Settled == Spec => []WorkShowsSettings
<1>1. SettingsInv => WorkShowsSettings
  BY DEF SettingsInv
<1> QED
  BY <1>1, SpecSettings, PTL

(* A process with sound settings, without a fault and without a handler    *)
(* that hangs in its shutdown, ends only when somebody stops it.           *)
THEOREM Cause == Spec => []EndsForCause
<1>1. SettingsInv => EndsForCause
  BY DEF SettingsInv
<1> QED
  BY <1>1, SpecSettings, PTL

(* Where no config file sets retry_backoff, no event is ever saved, in any *)
(* environment: not even with ORCHESTRON_OUTBOX_RETRY_BACKOFF.             *)
THEOREM NothingSaved ==
  ASSUME \A file \in Files : "outbox.retry_backoff" \notin DOMAIN file
  PROVE  Spec => [](\A r \in Requests : event[r] # "saved")
<1>1. SettingsInv => \A r \in Requests : event[r] # "saved"
  <2> SUFFICES ASSUME SettingsInv PROVE ~(config.backoff > 0)
    BY DEF SettingsInv, WorkShowsSettings
  <2>1. PICK file \in Files, env \in Environments : config = Load(file, env)
    BY DEF SettingsInv, OrderInv, TypeOK
  <2>2. SettingsRespected(file, env) /\ "outbox.retry_backoff" \notin DOMAIN file
    BY SettingsLoaded
  <2>3. config.backoff = 0
    BY <2>1, <2>2 DEF SettingsRespected
  <2>4. ~(0 > 0)
    OBVIOUS
  <2> QED
    BY <2>3, <2>4
<1> QED
  BY <1>1, SpecSettings, PTL

=============================================================================
