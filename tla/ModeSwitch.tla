----------------------------- MODULE ModeSwitch -----------------------------
(***************************************************************************)
(* JarvisOrchestrator.apply_execution_mode (jarvis/application/            *)
(* orchestrator.py) among the threads that use what it replaces.  The mode *)
(* of the program is spread over four attributes: the orchestrator's mode, *)
(* the mode of the MT5 client, the risk engine and the circuit breaker.    *)
(* The API's threads assign them one after the other, without a lock,      *)
(* while                                                                   *)
(*   - sweeps and the arbiter take an authorisation from one attribute, a  *)
(*     second look at another, and send through a third;                   *)
(*   - the operator presses the emergency stop, or resumes;                *)
(*   - the broker fills resting orders and closes positions.               *)
(* A risk engine is an object: threads may hold one that is no longer the  *)
(* orchestrator's.  Its breaker reads the table of its mode when it is     *)
(* built and writes it with every trip and reset, so that a halt of one    *)
(* mode is kept for the next engine of that mode.                          *)
(*                                                                         *)
(* Each statement is a step.  A call of a breaker is one step too: how its *)
(* statements interleave, and trips that expire, are in CircuitBreaker.    *)
(* The reason of a stop is the default one, which latches, and             *)
(* JARVIS_RESET_CIRCUIT_BREAKER, which has every new breaker reset itself, *)
(* is not set.  Orders of the manual desk, which no engine judges, are in  *)
(* OrderDispatch.                                                          *)
(***************************************************************************)
EXTENDS TLC

CONSTANTS
  Switchers,     \* threads of the API that serve set_mode
  Dispatchers,   \* threads that send orders
  Confirmed,     \* JARVIS_CONFIRM_LIVE is set
  Account,       \* what the terminal is logged in to: "real" or "demo"
  Slots          \* bound: places for risk engines that are alive at a time

ASSUME ModeAssumption ==
  /\ Confirmed \in BOOLEAN
  /\ Account \in {"real", "demo"}
  /\ Slots # {}

VARIABLES
  mode, clientMode,          \* self.mode and self.mt5_client.mode
  riskEngine,                \* self.risk_engine
  circuitBreaker,            \* self.circuit_breaker: the engine it belongs to
  engines,                   \* per place: the mode of its engine, and whether its breaker is tripped
  circuitState,              \* per mode: the is_tripped of the table
  request,                   \* per switcher: the call it is in
  order,                     \* per dispatcher: the order it works on
  desk,                      \* the operator's call
  held, resting,             \* modes whose orders are open positions, or wait to be filled
  late,                      \* modes of orders that timed out and may still be executed
  stopped,                   \* history: modes an emergency stop reached, and no resume since
  left,                      \* history: modes with exposure the position check did not see
  crossed                    \* history: two mode requests overlapped since the start

attributes == << mode, clientMode, riskEngine, circuitBreaker >>
objects == << engines, circuitState >>
exposure == << held, resting, late, left >>
vars == << attributes, objects, request, order, desk, exposure, stopped, crossed >>

Modes == {"paper", "demo", "live"}

(* The API lets these through.                                             *)
Requested == Modes \cup {"disabled"}

(* verify_execution_mode: "live" needs the environment's acknowledgement   *)
(* and is "paper" without it, whatever the request confirmed; what it does *)
(* not know is "demo".                                                     *)
Verified(m) == CASE m = "live" -> IF Confirmed THEN "live" ELSE "paper"
                 [] m = "paper" -> "paper"
                 [] OTHER -> "demo"

First == CHOOSE e \in Slots : TRUE

Idle == [at |-> "idle", target |-> "paper", engine |-> First]
NoOrder == [at |-> "idle", judged |-> "paper", chosen |-> "paper", raced |-> FALSE]

RequestSteps == {"idle", "same", "looked", "moded", "cliented", "built", "engined"}
Requests == [at : RequestSteps, target : Modes, engine : Slots]
Orders == [at : {"idle", "granted", "checked", "requested", "sent"},
           judged : Modes, chosen : Modes, raced : BOOLEAN]

TypeOK ==
  /\ mode \in Modes /\ clientMode \in Modes
  /\ riskEngine \in Slots /\ circuitBreaker \in Slots
  /\ engines \in [Slots -> [mode : Modes, tripped : BOOLEAN]]
  /\ circuitState \in [Modes -> BOOLEAN]
  /\ request \in [Switchers -> Requests]
  /\ order \in [Dispatchers -> Orders]
  /\ desk \in {"idle", "stopping", "cancelling", "resuming"}
  /\ held \subseteq Modes /\ resting \subseteq Modes /\ late \subseteq Modes
  /\ left \subseteq Modes
  /\ stopped \subseteq Modes
  /\ crossed \in BOOLEAN

(* A new process: one engine, whose breaker loads the table of its mode.   *)
Engine(m, rows) == [mode |-> m, tripped |-> rows[m]]

\* Mutant: the engine is named for the account, not for the mode.
Loaded_ForAccount(m) == [mode |-> Account, tripped |-> circuitState[m]]

\* Mutant: the new breaker starts without its table.
Loaded_Untripped(m) == Engine(m, [s \in Modes |-> FALSE])

Loaded(m) == Engine(m, circuitState)

NoEngine == [mode |-> "paper", tripped |-> FALSE]

Fresh(m, rows) == [e \in Slots |-> IF e = First THEN Engine(m, rows) ELSE NoEngine]

Init ==
  /\ mode \in {Verified(m) : m \in Requested}
  /\ clientMode = mode
  /\ circuitState = [m \in Modes |-> FALSE]
  /\ engines = Fresh(mode, circuitState)
  /\ riskEngine = First /\ circuitBreaker = First
  /\ request = [t \in Switchers |-> Idle]
  /\ order = [d \in Dispatchers |-> NoOrder]
  /\ desk = "idle"
  /\ held = {} /\ resting = {} /\ late = {} /\ left = {}
  /\ stopped = {}
  /\ crossed = FALSE

(***************************************************************************)
(* Switching                                                               *)
(***************************************************************************)
Serving(t) == request[t].at # "idle"

(* A request that found the positions closed and replaces the attributes.  *)
Switching == \E t \in Switchers : request[t].at \notin {"idle", "same"}

(* A request that has assigned some of the attributes and not the others.  *)
Changing == \E t \in Switchers : request[t].at \in {"moded", "cliented", "built", "engined"}

(* What the client shows as its positions or orders: the paper book, or    *)
(* the broker's, to which the demo and live modes are the same.            *)
View(set) == IF clientMode = "paper" THEN set \cap {"paper"} ELSE set \ {"paper"}

(* Orders on their way when an attribute changes under them.               *)
RaceOrders == order' = [d \in Dispatchers |->
                 IF order[d].at = "idle" THEN order[d] ELSE [order[d] EXCEPT !.raced = TRUE]]

Overlap(t) == crossed' = (crossed \/ \E u \in Switchers \ {t} : Serving(u))

(* The mode is the one asked for: only the client and the state manager    *)
(* are told, in the next step.                                             *)
LookSame(t) ==
  /\ ~Serving(t)
  /\ \E m \in Requested :
       /\ Verified(m) = mode
       /\ request' = [request EXCEPT ![t] = [Idle EXCEPT !.at = "same", !.target = mode]]
  /\ Overlap(t)
  /\ UNCHANGED << attributes, objects, order, desk, exposure, stopped >>

SetSame(t) ==
  /\ request[t].at = "same"
  /\ clientMode' = request[t].target
  /\ request' = [request EXCEPT ![t] = Idle]
  /\ UNCHANGED << mode, riskEngine, circuitBreaker, objects, order, desk, exposure,
                  stopped, crossed >>

(* A read of the broker's positions that fails is an empty list.  It shows *)
(* neither resting orders, which the program asks for elsewhere, nor those *)
(* that timed out and are still to be executed.                            *)
Unseen(unread) == resting \cup late \cup (IF unread THEN View(held) ELSE {})

\* Mutant: any number of positions may be open.
MaySwitch_Anyhow(unread) == TRUE

MaySwitch(unread) == unread \/ View(held) = {}

Look(t) ==
  /\ ~Serving(t)
  /\ \E m \in Requested, unread \in BOOLEAN :
       /\ Verified(m) # mode
       /\ unread => clientMode # "paper"
       /\ MaySwitch(unread)
       /\ request' = [request EXCEPT ![t] =
                        [Idle EXCEPT !.at = "looked", !.target = Verified(m)]]
       /\ left' = left \cup Unseen(unread)
  /\ Overlap(t)
  /\ UNCHANGED << attributes, objects, order, desk, held, resting, late, stopped >>

SetMode(t) ==
  /\ request[t].at = "looked"
  /\ mode' = request[t].target
  /\ request' = [request EXCEPT ![t].at = "moded"]
  /\ RaceOrders
  /\ UNCHANGED << clientMode, riskEngine, circuitBreaker, objects, desk, exposure,
                  stopped, crossed >>

SetClientMode(t) ==
  /\ request[t].at = "moded"
  /\ clientMode' = request[t].target
  /\ request' = [request EXCEPT ![t].at = "cliented"]
  /\ RaceOrders
  /\ UNCHANGED << mode, riskEngine, circuitBreaker, objects, desk, exposure, stopped,
                  crossed >>

(* The engines somebody can still reach; the place of another is free.     *)
Alive == {riskEngine, circuitBreaker}
           \cup {request[t].engine : t \in {u \in Switchers : request[u].at = "built"}}

Collect == engines' = [e \in Slots |-> IF e \in Alive' THEN engines[e] ELSE NoEngine]

Build(t) ==
  /\ request[t].at = "cliented"
  /\ \E e \in Slots \ Alive :
       /\ engines' = [engines EXCEPT ![e] = Loaded(request[t].target)]
       /\ request' = [request EXCEPT ![t].at = "built", ![t].engine = e]
  /\ UNCHANGED << attributes, circuitState, order, desk, exposure, stopped, crossed >>

SetEngine(t) ==
  /\ request[t].at = "built"
  /\ riskEngine' = request[t].engine
  /\ request' = [request EXCEPT ![t].at = "engined"]
  /\ RaceOrders
  /\ UNCHANGED << mode, clientMode, circuitBreaker, objects, desk, exposure, stopped,
                  crossed >>

SharedBreaker == riskEngine

SetBreaker(t) ==
  /\ request[t].at = "engined"
  /\ circuitBreaker' = SharedBreaker
  /\ request' = [request EXCEPT ![t] = Idle]
  /\ RaceOrders
  /\ UNCHANGED << mode, clientMode, riskEngine, circuitState, desk, exposure, stopped,
                  crossed >>
  /\ Collect

(***************************************************************************)
(* Orders                                                                  *)
(***************************************************************************)
(* authorize_execution of the engine of the moment: its breaker must not   *)
(* be tripped; the other conditions are left free.                         *)
Authorize(d) ==
  /\ order[d].at = "idle"
  /\ ~engines[riskEngine].tripped
  /\ order' = [order EXCEPT ![d] = [NoOrder EXCEPT !.at = "granted",
                  !.judged = engines[riskEngine].mode, !.raced = Changing]]
  /\ UNCHANGED << attributes, objects, request, desk, exposure, stopped, crossed >>

(* A sweep takes a second look, at the breaker of the orchestrator; the    *)
(* arbiter does not.                                                       *)
Backstop(d) ==
  /\ order[d].at = "granted"
  /\ order' = [order EXCEPT ![d] = IF engines[circuitBreaker].tripped THEN NoOrder
                                   ELSE [@ EXCEPT !.at = "checked"]]
  /\ UNCHANGED << attributes, objects, request, desk, exposure, stopped, crossed >>

(* A demo mode refuses a real account, and a live one a demo account.      *)
Matches(m) == /\ m = "demo" => Account # "real"
              /\ m = "live" => Account # "demo"

(* send_market_order and place_pending_order read the mode and compare it  *)
(* with the account, when the terminal tells which it is.                  *)
Submit(d) ==
  /\ order[d].at \in {"granted", "checked"}
  /\ \E unread \in BOOLEAN :
       order' = [order EXCEPT ![d] =
                   IF unread \/ Matches(clientMode)
                   THEN [@ EXCEPT !.at = "requested"] ELSE NoOrder]
  /\ UNCHANGED << attributes, objects, request, desk, exposure, stopped, crossed >>

(* An order of `m` is filled, or rests; if the attributes changed while it *)
(* was on its way, or a request is about to change them, it is left behind.*)
Open(m, raced) ==
  /\ \/ held' = held \cup {m} /\ UNCHANGED resting
     \/ resting' = resting \cup {m} /\ UNCHANGED held
  /\ left' = IF raced \/ Switching THEN left \cup {m} ELSE left
  /\ UNCHANGED late

(* They read the mode a second time to choose between the paper book, at   *)
(* once, and the broker, through a worker.  Bound: an order is sent only   *)
(* for a mode that has none open or resting, and with no order late.       *)
Send(d) ==
  /\ order[d].at = "requested"
  /\ clientMode \notin held \cup resting /\ late = {}
  /\ \/ /\ clientMode = "paper"
        /\ Open("paper", order[d].raced)
        /\ order' = [order EXCEPT ![d] = NoOrder]
     \/ /\ clientMode # "paper"
        /\ order' = [order EXCEPT ![d] = [NoOrder EXCEPT !.at = "sent",
                        !.chosen = clientMode, !.raced = order[d].raced]]
        /\ UNCHANGED exposure
  /\ UNCHANGED << attributes, objects, request, desk, stopped, crossed >>

(* The worker executes it in time, whatever the mode is by now.            *)
Execute(d) ==
  /\ order[d].at = "sent"
  /\ Open(order[d].chosen, order[d].raced)
  /\ order' = [order EXCEPT ![d] = NoOrder]
  /\ UNCHANGED << attributes, objects, request, desk, stopped, crossed >>

(* The caller waits five seconds and leaves with UNKNOWN; its worker may   *)
(* execute the order later, in the mode chosen above.                      *)
TimeOut(d) ==
  /\ order[d].at = "sent"
  /\ late' = late \cup {order[d].chosen}
  /\ left' = IF order[d].raced \/ Switching THEN left \cup {order[d].chosen} ELSE left
  /\ order' = [order EXCEPT ![d] = NoOrder]
  /\ UNCHANGED << attributes, objects, request, desk, held, resting, stopped, crossed >>

(* Refused before or by the broker, at any point.                          *)
GiveUp(d) ==
  /\ order[d].at # "idle"
  /\ order' = [order EXCEPT ![d] = NoOrder]
  /\ UNCHANGED << attributes, objects, request, desk, exposure, stopped, crossed >>

(***************************************************************************)
(* The broker, and the paper book: a client without connection works on it *)
(* in any mode.  Nothing fills a resting order of the paper book.          *)
(***************************************************************************)
StillLeft == left' = left \cap (held' \cup resting' \cup late')

(* An order that timed out is executed all the same, or never.             *)
ExecuteLate(m) ==
  /\ m \in late
  /\ late' = late \ {m}
  /\ \/ held' = held \cup {m} /\ UNCHANGED resting
     \/ resting' = resting \cup {m} /\ UNCHANGED held
     \/ UNCHANGED << held, resting >>
  /\ StillLeft
  /\ UNCHANGED << attributes, objects, request, order, desk, stopped, crossed >>

Fill(m) ==
  /\ m \in resting \ {"paper"}
  /\ held' = held \cup {m}
  /\ resting' = resting \ {m}
  /\ UNCHANGED late
  /\ StillLeft
  /\ UNCHANGED << attributes, objects, request, order, desk, stopped, crossed >>

Close(m) ==
  /\ m \in held
  /\ held' = held \ {m}
  /\ UNCHANGED << resting, late >>
  /\ StillLeft
  /\ UNCHANGED << attributes, objects, request, order, desk, stopped, crossed >>

Cancel(m) ==
  /\ m \in resting
  /\ resting' = resting \ {m}
  /\ UNCHANGED << held, late >>
  /\ StillLeft
  /\ UNCHANGED << attributes, objects, request, order, desk, stopped, crossed >>

(***************************************************************************)
(* The operator                                                            *)
(***************************************************************************)
(* trip() and reset() change the breaker of one engine and save it.        *)
SetTripped(e, value) ==
  /\ engines' = [engines EXCEPT ![e].tripped = value]
  /\ circuitState' = [circuitState EXCEPT ![engines[e].mode] = value]
  /\ stopped' = IF value THEN stopped \cup {engines[e].mode} ELSE stopped \ {engines[e].mode}

StopFirst ==
  /\ desk = "idle"
  /\ desk' = "stopping"
  /\ SetTripped(circuitBreaker, TRUE)
  /\ UNCHANGED << attributes, request, order, exposure, crossed >>

StopSecond ==
  /\ desk = "stopping"
  /\ desk' = "cancelling"
  /\ SetTripped(riskEngine, TRUE)
  /\ UNCHANGED << attributes, request, order, exposure, crossed >>

(* cancel_all_pending_orders: those the client shows, as far as it gets.   *)
(* Without a connection these are the orders of the paper book.            *)
StopCancels ==
  /\ desk = "cancelling"
  /\ desk' = "idle"
  /\ \E book \in {View(resting), resting \cap {"paper"}} :
       \E gone \in SUBSET book : resting' = resting \ gone
  /\ UNCHANGED << held, late >>
  /\ StillLeft
  /\ UNCHANGED << attributes, objects, request, order, stopped, crossed >>

ResumeFirst ==
  /\ desk = "idle"
  /\ desk' = "resuming"
  /\ SetTripped(circuitBreaker, FALSE)
  /\ UNCHANGED << attributes, request, order, exposure, crossed >>

ResumeSecond ==
  /\ desk = "resuming"
  /\ desk' = "idle"
  /\ SetTripped(riskEngine, FALSE)
  /\ UNCHANGED << attributes, request, order, exposure, crossed >>

(* The process dies at any point and is started again, in any mode and     *)
(* without a look at positions: the paper book is gone, the broker's is    *)
(* not, nor an order that had already reached the terminal.                *)
Restart ==
  /\ \E m \in Requested :
       /\ mode' = Verified(m)
       /\ engines' = Fresh(Verified(m), circuitState)
  /\ clientMode' = mode'
  /\ riskEngine' = First /\ circuitBreaker' = First
  /\ request' = [t \in Switchers |-> Idle]
  /\ order' = [d \in Dispatchers |-> NoOrder]
  /\ desk' = "idle"
  /\ held' = held \ {"paper"} /\ resting' = resting \ {"paper"}
  /\ late' \in SUBSET (late \cup {order[d].chosen : d \in {c \in Dispatchers : order[c].at = "sent"}})
  /\ left' = (held' \cup resting' \cup late') \ {mode'}
  /\ crossed' = FALSE
  /\ UNCHANGED << circuitState, stopped >>

Next ==
  \/ \E t \in Switchers : \/ LookSame(t) \/ SetSame(t) \/ Look(t) \/ SetMode(t)
                          \/ SetClientMode(t) \/ Build(t) \/ SetEngine(t) \/ SetBreaker(t)
  \/ \E d \in Dispatchers : \/ Authorize(d) \/ Backstop(d) \/ Submit(d) \/ Send(d)
                            \/ Execute(d) \/ TimeOut(d) \/ GiveUp(d)
  \/ \E m \in Modes : ExecuteLate(m) \/ Fill(m) \/ Close(m) \/ Cancel(m)
  \/ StopFirst \/ StopSecond \/ StopCancels \/ ResumeFirst \/ ResumeSecond
  \/ Restart

Spec == Init /\ [][Next]_vars

(***************************************************************************)
(* Properties                                                              *)
(***************************************************************************)
(* orchestrator.py:228-230 with circuit_breaker.py:143: an emergency stop  *)
(* that reached a mode's breaker is in force whenever an engine of that    *)
(* mode judges again, through any number of switches and restarts and      *)
(* until a resume reaches that mode, unless two requests for a mode        *)
(* overlapped.                                                             *)
StopStands ==
  ~crossed => \A e \in {riskEngine, circuitBreaker} :
                engines[e].mode \in stopped => engines[e].tripped

(* An order is sent in the mode whose limits judged it, unless an          *)
(* attribute changed while it was on its way or two requests for a mode    *)
(* overlapped.                                                             *)
JudgedInItsMode(d) ==
  Send(d) /\ ~order[d].raced /\ ~crossed => order[d].judged = clientMode

(* orchestrator.py:207: an open position belongs to the mode the program   *)
(* is in, unless a switch left it behind: its order was resting, on its    *)
(* way, or had timed out and was executed later (mt5_client.py:857), or    *)
(* the read of the positions had failed.                                   *)
PositionsWatchedByTheirMode ==
  ~crossed /\ ~Changing => held \subseteq {mode} \cup left

(* Outside those windows nothing crosses from one mode to another: neither *)
(* an order nor a position.                                                *)
NothingCrossesModes ==
  [][(\A d \in Dispatchers : JudgedInItsMode(d)) /\ PositionsWatchedByTheirMode']_vars

(* For TLC: nothing is claimed once two requests have overlapped.          *)
NotCrossed == ~crossed
Symmetry == Permutations(Switchers)
=============================================================================
