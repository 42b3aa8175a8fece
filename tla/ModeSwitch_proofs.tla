-------------------------- MODULE ModeSwitch_proofs --------------------------
(***************************************************************************)
(* Proofs about ModeSwitch, for any numbers of switchers and dispatchers   *)
(* and any number of engines alive.  As long as no two requests have       *)
(* overlapped, at most one of them is being served, and how far it got     *)
(* says which attributes are of the old mode and which of the new one.     *)
(***************************************************************************)
EXTENDS ModeSwitch, TLAPS

steps == {"moded", "cliented", "built", "engined"}

(* A trip is saved by the step that makes it.                              *)
RowsTell == \A m \in stopped : circuitState[m]

Solo == \A t, u \in Switchers : Serving(t) /\ Serving(u) => t = u

Settled == ~Changing => /\ clientMode = mode
                        /\ engines[riskEngine].mode = mode
                        /\ circuitBreaker = riskEngine

Progress(t) ==
  /\ request[t].at = "same" => request[t].target = mode
  /\ request[t].at = "looked" => request[t].target # mode
  /\ request[t].at \in steps => mode = request[t].target
  /\ request[t].at \in steps \ {"moded"} => clientMode = request[t].target
  /\ request[t].at \in steps \ {"engined"} =>
       /\ circuitBreaker = riskEngine
       /\ engines[riskEngine].mode # request[t].target
  /\ request[t].at = "built" => /\ request[t].engine # riskEngine
                                /\ engines[request[t].engine].mode = request[t].target
  /\ request[t].at = "engined" => /\ engines[riskEngine].mode = request[t].target
                                  /\ engines[circuitBreaker].mode # request[t].target

Tells(e) == engines[e].mode \in stopped => engines[e].tripped

EnginesTell == /\ Tells(riskEngine) /\ Tells(circuitBreaker)
               /\ \A t \in Switchers : request[t].at = "built" => Tells(request[t].engine)

(* An order that no assignment has met was judged, and is sent, in the     *)
(* client's mode of the moment.                                            *)
InMode(o) == o.at # "idle" /\ ~o.raced =>
  /\ ~Changing
  /\ (IF o.at = "sent" THEN o.chosen ELSE o.judged) = clientMode

OrdersKnow == \A d \in Dispatchers : InMode(order[d])

(* What the program has at the broker, or may still get there.             *)
Exposed == held \cup resting \cup late

ExposureKnown == /\ Switching => Exposed \subseteq left
                 /\ Exposed \subseteq {mode} \cup left

Uncrossed == /\ Solo /\ Settled /\ (\A t \in Switchers : Progress(t))
             /\ EnginesTell /\ OrdersKnow /\ ExposureKnown

IInv == TypeOK /\ RowsTell /\ (~crossed => Uncrossed)

-----------------------------------------------------------------------------
LEMMA Constants ==
  /\ First \in Slots
  /\ \A m \in Requested : Verified(m) \in Modes
  BY ModeAssumption DEF ModeAssumption, First, Requested, Verified, Modes

LEMMA Blank == Idle \in Requests /\ NoOrder \in Orders /\ Idle.at = "idle" /\ NoOrder.at = "idle"
  BY Constants DEF Idle, Requests, RequestSteps, NoOrder, Orders, Modes

LEMMA StepType ==
  ASSUME request \in [Switchers -> Requests], NEW t \in Switchers, NEW s \in RequestSteps
  PROVE  [request EXCEPT ![t].at = s] \in [Switchers -> Requests]
  BY DEF Requests

LEMMA LookType ==
  ASSUME request \in [Switchers -> Requests], NEW t \in Switchers,
         NEW s \in RequestSteps, NEW m \in Modes
  PROVE  [request EXCEPT ![t] = [Idle EXCEPT !.at = s, !.target = m]]
           \in [Switchers -> Requests]
<1>1. [Idle EXCEPT !.at = s, !.target = m] \in Requests
  BY Blank DEF Requests
<1>2. QED
  BY <1>1

LEMMA RaceType ==
  ASSUME order \in [Dispatchers -> Orders], RaceOrders
  PROVE  /\ order' \in [Dispatchers -> Orders]
         /\ \A d \in Dispatchers : order'[d].at # "idle" => order'[d].raced
<1>1. ASSUME NEW d \in Dispatchers PROVE [order[d] EXCEPT !.raced = TRUE] \in Orders
  BY DEF Orders
<1>2. QED
  BY <1>1 DEF RaceOrders, Orders

LEMMA TripType ==
  ASSUME TypeOK, NEW e \in Slots, NEW value \in BOOLEAN, SetTripped(e, value)
  PROVE  /\ engines' \in [Slots -> [mode : Modes, tripped : BOOLEAN]]
         /\ circuitState' \in [Modes -> BOOLEAN]
         /\ stopped' \subseteq Modes
<1>1. [engines[e] EXCEPT !.tripped = value] \in [mode : Modes, tripped : BOOLEAN]
  BY DEF TypeOK
<1>2. engines' = [engines EXCEPT ![e] = [engines[e] EXCEPT !.tripped = value]]
  BY DEF SetTripped
<1>3. engines[e].mode \in Modes
  BY DEF TypeOK
<1>4. QED
  BY <1>1, <1>2, <1>3 DEF SetTripped, TypeOK

LEMMA FreshType ==
  ASSUME NEW m \in Modes, NEW rows \in [Modes -> BOOLEAN]
  PROVE  Fresh(m, rows) \in [Slots -> [mode : Modes, tripped : BOOLEAN]]
  BY DEF Fresh, Engine, NoEngine, Modes

LEMMA TypeInit == Init => TypeOK
<1> SUFFICES ASSUME Init PROVE TypeOK
  OBVIOUS
<1>1. mode \in Modes
  BY Constants DEF Init
<1>2. circuitState \in [Modes -> BOOLEAN]
  BY DEF Init
<1>3. QED
  BY <1>1, <1>2, Constants, Blank, FreshType DEF Init, TypeOK

LEMMA TypeStep == TypeOK /\ [Next]_vars => TypeOK'
<1> SUFFICES ASSUME TypeOK, [Next]_vars PROVE TypeOK'
  OBVIOUS
<1> USE Constants, Blank DEF TypeOK, attributes, objects, exposure
<1>1. ASSUME NEW t \in Switchers, LookSame(t) PROVE TypeOK'
  <2>1. request' = [request EXCEPT ![t] = [Idle EXCEPT !.at = "same", !.target = mode]]
    BY <1>1 DEF LookSame
  <2>2. request' \in [Switchers -> Requests]
    BY <2>1, LookType DEF RequestSteps
  <2>3. QED
    BY <1>1, <2>2 DEF LookSame, Overlap
<1>2. ASSUME NEW t \in Switchers, SetSame(t) PROVE TypeOK'
  BY <1>2 DEF SetSame, Requests
<1>3. ASSUME NEW t \in Switchers, Look(t) PROVE TypeOK'
  <2>1. PICK m \in Requested, unread \in BOOLEAN :
          /\ request' = [request EXCEPT ![t] =
                           [Idle EXCEPT !.at = "looked", !.target = Verified(m)]]
          /\ left' = left \cup Unseen(unread)
    BY <1>3 DEF Look
  <2>2. request' \in [Switchers -> Requests]
    BY <2>1, LookType DEF RequestSteps
  <2>3. Unseen(unread) \subseteq Modes
    BY DEF Unseen, View
  <2>4. QED
    BY <1>3, <2>1, <2>2, <2>3 DEF Look, Overlap
<1>4. ASSUME NEW t \in Switchers, SetMode(t) PROVE TypeOK'
  BY <1>4, StepType, RaceType DEF SetMode, Requests, RequestSteps
<1>5. ASSUME NEW t \in Switchers, SetClientMode(t) PROVE TypeOK'
  BY <1>5, StepType, RaceType DEF SetClientMode, Requests, RequestSteps
<1>6. ASSUME NEW t \in Switchers, Build(t) PROVE TypeOK'
  <2>1. PICK e \in Slots \ Alive :
          /\ engines' = [engines EXCEPT ![e] = Loaded(request[t].target)]
          /\ request' = [request EXCEPT ![t].at = "built", ![t].engine = e]
    BY <1>6 DEF Build
  <2>2. request[t] \in Requests
    OBVIOUS
  <2>3. Loaded(request[t].target) \in [mode : Modes, tripped : BOOLEAN]
    BY <2>2 DEF Loaded, Engine, Requests
  <2>4. engines' \in [Slots -> [mode : Modes, tripped : BOOLEAN]]
    BY <2>1, <2>3
  <2>5. request' \in [Switchers -> Requests]
    BY <2>1 DEF Requests, RequestSteps
  <2>6. QED
    BY <1>6, <2>4, <2>5 DEF Build
<1>7. ASSUME NEW t \in Switchers, SetEngine(t) PROVE TypeOK'
  BY <1>7, StepType, RaceType DEF SetEngine, Requests, RequestSteps
<1>8. ASSUME NEW t \in Switchers, SetBreaker(t) PROVE TypeOK'
  <2>1. request' \in [Switchers -> Requests]
    BY <1>8 DEF SetBreaker
  <2>2. engines' \in [Slots -> [mode : Modes, tripped : BOOLEAN]]
    BY <1>8 DEF SetBreaker, Collect, NoEngine, Modes
  <2>3. QED
    BY <1>8, <2>1, <2>2, RaceType DEF SetBreaker, SharedBreaker
<1>9. ASSUME NEW d \in Dispatchers, Authorize(d) PROVE TypeOK'
  <2>1. Changing \in BOOLEAN
    BY DEF Changing
  <2>2. [NoOrder EXCEPT !.at = "granted", !.judged = engines[riskEngine].mode,
                        !.raced = Changing] \in Orders
    BY <2>1 DEF Orders, NoOrder
  <2>3. QED
    BY <1>9, <2>2 DEF Authorize
<1>10. ASSUME NEW d \in Dispatchers, Backstop(d) PROVE TypeOK'
  <2>1. [order[d] EXCEPT !.at = "checked"] \in Orders
    BY DEF Orders
  <2>2. order' \in [Dispatchers -> Orders]
    BY <1>10, <2>1 DEF Backstop
  <2>3. QED
    BY <1>10, <2>2 DEF Backstop
<1>11. ASSUME NEW d \in Dispatchers, Submit(d) PROVE TypeOK'
  <2>1. [order[d] EXCEPT !.at = "requested"] \in Orders
    BY DEF Orders
  <2>2. order' \in [Dispatchers -> Orders]
    BY <1>11, <2>1 DEF Submit
  <2>3. QED
    BY <1>11, <2>2 DEF Submit
<1>12. ASSUME NEW d \in Dispatchers, Send(d) PROVE TypeOK'
  <2>1. order[d] \in Orders
    OBVIOUS
  <2>2. [NoOrder EXCEPT !.at = "sent", !.chosen = clientMode, !.raced = order[d].raced] \in Orders
    BY <2>1 DEF Orders, NoOrder, Modes
  <2>3. order' \in [Dispatchers -> Orders]
    BY <1>12, <2>2 DEF Send
  <2>4. QED
    BY <1>12, <2>3 DEF Send, Open, Modes
<1>13. ASSUME NEW d \in Dispatchers, Execute(d) PROVE TypeOK'
  <2>1. order[d].chosen \in Modes
    BY DEF Orders
  <2>2. QED
    BY <1>13, <2>1 DEF Execute, Open
<1>14. ASSUME NEW d \in Dispatchers, TimeOut(d) PROVE TypeOK'
  <2>1. order[d].chosen \in Modes
    BY DEF Orders
  <2>2. QED
    BY <1>14, <2>1 DEF TimeOut
<1>15. ASSUME NEW m \in Modes, ExecuteLate(m) PROVE TypeOK'
  BY <1>15 DEF ExecuteLate, StillLeft
<1>16. ASSUME NEW d \in Dispatchers, GiveUp(d) PROVE TypeOK'
  BY <1>16 DEF GiveUp, Requests, RequestSteps, Orders, Modes
<1>17. ASSUME NEW m \in Modes, Fill(m) PROVE TypeOK'
  BY <1>17 DEF Fill, StillLeft, Requests, RequestSteps, Orders, Modes
<1>18. ASSUME NEW m \in Modes, Close(m) PROVE TypeOK'
  BY <1>18 DEF Close, StillLeft, Requests, RequestSteps, Orders, Modes
<1>19. ASSUME NEW m \in Modes, Cancel(m) PROVE TypeOK'
  BY <1>19 DEF Cancel, StillLeft, Requests, RequestSteps, Orders, Modes
<1>20. CASE StopFirst
  BY <1>20, TripType DEF StopFirst
<1>21. CASE StopSecond
  BY <1>21, TripType DEF StopSecond
<1>22. CASE StopCancels
  BY <1>22 DEF StopCancels, StillLeft, View, Requests, RequestSteps, Orders, Modes
<1>23. CASE ResumeFirst
  BY <1>23, TripType DEF ResumeFirst
<1>24. CASE ResumeSecond
  BY <1>24, TripType DEF ResumeSecond
<1>25. CASE Restart
  <2>1. PICK m \in Requested : /\ mode' = Verified(m)
                               /\ engines' = Fresh(Verified(m), circuitState)
    BY <1>25 DEF Restart
  <2>2. engines' \in [Slots -> [mode : Modes, tripped : BOOLEAN]]
    BY <2>1, FreshType
  <2>3. \A d \in Dispatchers : order[d].chosen \in Modes
    BY DEF Orders
  <2>4. held' \subseteq Modes /\ resting' \subseteq Modes /\ late' \subseteq Modes
    BY <1>25, <2>3 DEF Restart
  <2>5. left' \subseteq Modes
    BY <1>25, <2>4 DEF Restart
  <2>6. QED
    BY <1>25, <2>1, <2>2, <2>4, <2>5 DEF Restart
<1>26. CASE UNCHANGED vars
  BY <1>26 DEF vars
<1>27. QED
  BY <1>1, <1>2, <1>3, <1>4, <1>5, <1>6, <1>7, <1>8, <1>9, <1>10, <1>11, <1>12,
     <1>13, <1>14, <1>15, <1>16, <1>17, <1>18, <1>19, <1>20, <1>21, <1>22, <1>23,
     <1>24, <1>25, <1>26 DEF Next

-----------------------------------------------------------------------------
(* A request that is served is the only one.                               *)
LEMMA Alone ==
  ASSUME Solo, NEW t \in Switchers, Serving(t)
  PROVE  \A u \in Switchers \ {t} : request[u].at = "idle"
  BY DEF Solo, Serving

LEMMA OneMoves ==
  ASSUME NEW t \in Switchers,
         \A u \in Switchers \ {t} : request[u].at = "idle" /\ request'[u] = request[u]
  PROVE  /\ Changing <=> request[t].at \in steps
         /\ Switching <=> request[t].at \notin {"idle", "same"}
         /\ Changing' <=> request'[t].at \in steps
         /\ Switching' <=> request'[t].at \notin {"idle", "same"}
         /\ Solo'
         /\ \A u \in Switchers \ {t} : Progress(u)'
<1>1. \A u \in Switchers \ {t} : request'[u].at = "idle"
  OBVIOUS
<1>2. Solo'
  BY <1>1 DEF Solo, Serving
<1>3. \A u \in Switchers \ {t} : Progress(u)'
  BY <1>1 DEF Progress, steps
<1>4. QED
  BY <1>1, <1>2, <1>3 DEF Changing, Switching, steps

(* Steps that neither assign an attribute nor serve a request.             *)
LEMMA NobodySwitches ==
  ASSUME Uncrossed, request' = request, attributes' = attributes,
         \A e \in Slots : engines'[e].mode = engines[e].mode, TypeOK
  PROVE  /\ Solo' /\ Settled'
         /\ \A t \in Switchers : Progress(t)'
         /\ Changing' = Changing /\ Switching' = Switching
<1>1. \A t \in Switchers : request[t].engine \in Slots
  BY DEF TypeOK, Requests
<1>2. riskEngine \in Slots /\ circuitBreaker \in Slots
  BY DEF TypeOK
<1>3. Changing' = Changing /\ Switching' = Switching
  BY DEF Changing, Switching
<1>4. Solo' /\ Settled'
  BY <1>2, <1>3 DEF Uncrossed, Solo, Serving, Settled, attributes
<1>5. \A t \in Switchers : Progress(t)'
  BY <1>1, <1>2 DEF Uncrossed, Progress, attributes
<1>6. QED
  BY <1>3, <1>4, <1>5

(* A trip or reset of one of the engines in use changes no mode, and no    *)
(* two engines in use are of one mode.                                     *)
LEMMA TripTells ==
  ASSUME TypeOK, Uncrossed, NEW value \in BOOLEAN, NEW e \in {riskEngine, circuitBreaker},
         SetTripped(e, value), request' = request, attributes' = attributes
  PROVE  /\ \A f \in Slots : engines'[f].mode = engines[f].mode
         /\ EnginesTell'
<1>1. e \in Slots /\ riskEngine \in Slots /\ circuitBreaker \in Slots
  BY DEF TypeOK
<1>2. \A t \in Switchers : request[t].engine \in Slots /\ request[t].at \in RequestSteps
  BY DEF TypeOK, Requests
<1>3. engines' = [engines EXCEPT ![e] = [engines[e] EXCEPT !.tripped = value]]
  BY DEF SetTripped
<1>4. /\ engines'[e].mode = engines[e].mode /\ engines'[e].tripped = value
      /\ \A f \in Slots \ {e} : engines'[f] = engines[f]
  BY <1>1, <1>3 DEF TypeOK
<1>5. \A f \in Slots : engines'[f].mode = engines[f].mode
  BY <1>4
<1>6. ASSUME NEW f \in Slots, Tells(f), f = e \/ engines[f].mode # engines[e].mode
      PROVE  Tells(f)'
  <2>1. CASE f = e
    BY <1>4, <2>1 DEF Tells, SetTripped
  <2>2. CASE f # e /\ engines[f].mode # engines[e].mode
    <3>1. stopped' = stopped \cup {engines[e].mode} \/ stopped' = stopped \ {engines[e].mode}
      BY DEF SetTripped
    <3>2. engines'[f] = engines[f]
      BY <1>4, <2>2
    <3>3. engines[f].mode \in stopped' => engines[f].mode \in stopped
      BY <2>2, <3>1
    <3>4. QED
      BY <1>6, <3>2, <3>3 DEF Tells
  <2>3. QED
    BY <1>6, <2>1, <2>2
<1>7. circuitBreaker = riskEngine \/ engines[circuitBreaker].mode # engines[riskEngine].mode
  <2>1. CASE Changing
    <3>1. PICK t \in Switchers : request[t].at \in steps
      BY <2>1 DEF Changing, steps
    <3>2. QED
      BY <3>1 DEF Uncrossed, Progress, steps
  <2>2. CASE ~Changing
    BY <2>2 DEF Uncrossed, Settled
  <2>3. QED
    BY <2>1, <2>2
<1>8. Tells(riskEngine)' /\ Tells(circuitBreaker)'
  BY <1>1, <1>6, <1>7 DEF Uncrossed, EnginesTell, attributes, Tells
<1>9. ASSUME NEW t \in Switchers, request[t].at = "built"
      PROVE  Tells(request[t].engine)'
  <2>1. /\ circuitBreaker = riskEngine
        /\ engines[request[t].engine].mode # engines[e].mode
    BY <1>9 DEF Uncrossed, Progress, steps
  <2>2. QED
    BY <1>2, <1>6, <1>9, <2>1 DEF Uncrossed, EnginesTell, Tells
<1>10. EnginesTell'
  BY <1>8, <1>9 DEF EnginesTell
<1>11. QED
  BY <1>5, <1>10

-----------------------------------------------------------------------------
(* The steps of a request.  Those that assign an attribute mark the orders *)
(* on their way.                                                           *)
LEMMA RequestsKeep ==
  ASSUME TypeOK, RowsTell, ~crossed', ~crossed => Uncrossed, NEW t \in Switchers,
         \/ LookSame(t) \/ SetSame(t) \/ Look(t) \/ SetMode(t)
         \/ SetClientMode(t) \/ Build(t) \/ SetEngine(t) \/ SetBreaker(t)
  PROVE  Uncrossed'
<1> USE DEF attributes, objects, exposure
<1>1. ~crossed /\ Uncrossed
  <2>1. CASE Overlap(t)
    BY <2>1 DEF Overlap
  <2>2. CASE crossed' = crossed
    BY <2>2
  <2>3. QED
    BY <2>1, <2>2
       DEF LookSame, SetSame, Look, SetMode, SetClientMode, Build, SetEngine, SetBreaker
<1>2. \A u \in Switchers \ {t} : request[u].at = "idle" /\ request'[u] = request[u]
  <2>1. CASE ~Serving(t)
    <3>1. \A u \in Switchers \ {t} : ~Serving(u)
      BY <2>1, ~crossed' DEF LookSame, SetSame, Look, SetMode, SetClientMode, Build, SetEngine,
         SetBreaker, Serving, Overlap
    <3>2. \A u \in Switchers \ {t} : request'[u] = request[u]
      BY <2>1 DEF LookSame, SetSame, Look, SetMode, SetClientMode, Build, SetEngine, SetBreaker,
         TypeOK
    <3>3. QED
      BY <3>1, <3>2 DEF Serving
  <2>2. CASE Serving(t)
    <3>1. \A u \in Switchers \ {t} : request[u].at = "idle"
      BY <1>1, <2>2, Alone DEF Uncrossed
    <3>2. \A u \in Switchers \ {t} : request'[u] = request[u]
      BY DEF LookSame, SetSame, Look, SetMode, SetClientMode, Build, SetEngine, SetBreaker, TypeOK
    <3>3. QED
      BY <3>1, <3>2
  <2>3. QED
    BY <2>1, <2>2
<1>3. /\ Changing <=> request[t].at \in steps
      /\ Switching <=> request[t].at \notin {"idle", "same"}
      /\ Changing' <=> request'[t].at \in steps
      /\ Switching' <=> request'[t].at \notin {"idle", "same"}
      /\ Solo'
      /\ \A u \in Switchers \ {t} : Progress(u)'
  BY <1>2, OneMoves
<1>4. /\ riskEngine \in Slots /\ circuitBreaker \in Slots
      /\ request[t].engine \in Slots /\ request[t] \in Requests
      /\ request \in [Switchers -> Requests]
  BY DEF TypeOK, Requests
<1>5. CASE LookSame(t) \/ Look(t)
  <2>1. /\ request'[t].at \in {"same", "looked"} /\ request[t].at = "idle"
        /\ request'[t].at = "same" => request'[t].target = mode
        /\ request'[t].at = "looked" => request'[t].target # mode
    BY <1>4, <1>5, Blank DEF LookSame, Look, Serving, Requests
  <2>2. mode' = mode /\ clientMode' = clientMode /\ riskEngine' = riskEngine
        /\ circuitBreaker' = circuitBreaker /\ engines' = engines /\ stopped' = stopped
    BY <1>5 DEF LookSame, Look
  <2>3. ~Changing /\ ~Changing'
    BY <1>3, <2>1 DEF steps
  <2>4. Settled' /\ Progress(t)'
    BY <1>1, <2>1, <2>2, <2>3 DEF Uncrossed, Settled, Progress, steps
  <2>5. EnginesTell'
    BY <1>1, <1>2, <2>1, <2>2 DEF Uncrossed, EnginesTell, Tells
  <2>6. order' = order
    BY <1>5 DEF LookSame, Look
  <2>7. OrdersKnow'
    BY <1>1, <2>2, <2>3, <2>6 DEF Uncrossed, OrdersKnow, InMode
  <2>8. ExposureKnown'
    <3>1. Exposed \subseteq {mode} \cup left /\ clientMode = mode
      BY <1>1, <2>3 DEF Uncrossed, Settled, ExposureKnown
    <3>2. CASE LookSame(t)
      <4>1. request'[t].at = "same"
        BY <1>4, <3>2, Blank DEF LookSame, Requests
      <4>2. QED
        BY <1>3, <3>1, <3>2, <4>1 DEF LookSame, ExposureKnown, Exposed
    <3>3. CASE Look(t)
      <4>1. PICK unread \in BOOLEAN : MaySwitch(unread) /\ left' = left \cup Unseen(unread)
        BY <3>3 DEF Look
      <4>2. mode \in held => mode \in View(held)
        BY <3>1 DEF View
      <4>3. Exposed \subseteq left'
        BY <3>1, <4>1, <4>2 DEF MaySwitch, Unseen, Exposed
      <4>4. QED
        BY <3>3, <4>3 DEF Look, ExposureKnown, Exposed
    <3>4. QED
      BY <1>5, <3>2, <3>3
  <2>9. QED
    BY <1>3, <2>4, <2>5, <2>7, <2>8 DEF Uncrossed
<1>6. CASE SetSame(t)
  <2>1. /\ request[t].at = "same" /\ request'[t].at = "idle"
        /\ clientMode' = request[t].target
    BY <1>4, <1>6, Blank DEF SetSame
  <2>2. ~Changing /\ ~Changing' /\ ~Switching /\ ~Switching'
    BY <1>3, <2>1 DEF steps
  <2>3. clientMode' = clientMode
    BY <1>1, <2>1, <2>2 DEF Uncrossed, Settled, Progress
  <2>4. UNCHANGED << mode, riskEngine, circuitBreaker, engines, stopped, order, held, resting, late, left >>
    BY <1>6 DEF SetSame
  <2>5. Settled' /\ Progress(t)'
    BY <1>1, <2>1, <2>2, <2>3, <2>4 DEF Uncrossed, Settled, Progress, steps
  <2>6. EnginesTell'
    BY <1>1, <1>2, <2>1, <2>4 DEF Uncrossed, EnginesTell, Tells
  <2>7. OrdersKnow' /\ ExposureKnown'
    BY <1>1, <2>2, <2>3, <2>4 DEF Uncrossed, OrdersKnow, InMode, ExposureKnown, Exposed
  <2>8. QED
    BY <1>3, <2>5, <2>6, <2>7 DEF Uncrossed
<1>7. ASSUME RaceOrders PROVE OrdersKnow'
  BY <1>7, RaceType DEF TypeOK, OrdersKnow, InMode
<1>8. ASSUME Switching, UNCHANGED << held, resting, late, left >> PROVE ExposureKnown'
  BY <1>1, <1>8 DEF Uncrossed, ExposureKnown, Exposed
<1>9. CASE SetMode(t)
  <2>1. /\ request[t].at = "looked" /\ request'[t].at = "moded"
        /\ request'[t].target = request[t].target /\ mode' = request[t].target
    BY <1>4, <1>9 DEF SetMode, Requests
  <2>2. UNCHANGED << clientMode, riskEngine, circuitBreaker, engines, stopped, held, resting, late, left >>
    BY <1>9 DEF SetMode
  <2>3. ~Changing /\ Changing' /\ Switching
    BY <1>3, <2>1 DEF steps
  <2>4. Settled' /\ Progress(t)'
    BY <1>1, <2>1, <2>2, <2>3 DEF Uncrossed, Settled, Progress, steps
  <2>5. EnginesTell'
    BY <1>1, <1>2, <2>1, <2>2 DEF Uncrossed, EnginesTell, Tells
  <2>6. QED
    BY <1>3, <1>7, <1>8, <1>9, <2>2, <2>3, <2>4, <2>5 DEF Uncrossed, SetMode
<1>10. CASE SetClientMode(t)
  <2>1. /\ request[t].at = "moded" /\ request'[t].at = "cliented"
        /\ request'[t].target = request[t].target /\ clientMode' = request[t].target
    BY <1>4, <1>10 DEF SetClientMode, Requests
  <2>2. UNCHANGED << mode, riskEngine, circuitBreaker, engines, stopped, held, resting, late, left >>
    BY <1>10 DEF SetClientMode
  <2>3. Changing' /\ Switching
    BY <1>3, <2>1 DEF steps
  <2>4. Settled' /\ Progress(t)'
    BY <1>1, <2>1, <2>2, <2>3 DEF Uncrossed, Settled, Progress, steps
  <2>5. EnginesTell'
    BY <1>1, <1>2, <2>1, <2>2 DEF Uncrossed, EnginesTell, Tells
  <2>6. QED
    BY <1>3, <1>7, <1>8, <1>10, <2>2, <2>3, <2>4, <2>5 DEF Uncrossed, SetClientMode
<1>11. CASE Build(t)
  <2>1. PICK e \in Slots \ Alive :
          /\ engines' = [engines EXCEPT ![e] = Loaded(request[t].target)]
          /\ request' = [request EXCEPT ![t].at = "built", ![t].engine = e]
    BY <1>11 DEF Build
  <2>2. /\ request[t].at = "cliented" /\ request'[t].at = "built"
        /\ request'[t].target = request[t].target /\ request'[t].engine = e
    BY <1>4, <1>11, <2>1 DEF Build, Requests
  <2>3. UNCHANGED << mode, clientMode, riskEngine, circuitBreaker, stopped, order,
                     held, resting, late, left >>
    BY <1>11 DEF Build
  <2>4. e # riskEngine /\ e # circuitBreaker
    BY <2>1 DEF Alive
  <2>5. /\ engines'[e].mode = request[t].target
        /\ engines'[e].tripped = circuitState[request[t].target]
        /\ engines'[riskEngine] = engines[riskEngine]
        /\ engines'[circuitBreaker] = engines[circuitBreaker]
    BY <1>4, <2>1, <2>4 DEF Loaded, Engine, TypeOK
  <2>6. Changing /\ Changing' /\ Switching
    BY <1>3, <2>2 DEF steps
  <2>7. Settled' /\ Progress(t)'
    BY <1>1, <2>2, <2>3, <2>4, <2>5, <2>6 DEF Uncrossed, Settled, Progress, steps
  <2>8. EnginesTell'
    BY <1>1, <1>2, <2>2, <2>3, <2>5, <1>4 DEF Uncrossed, EnginesTell, Tells, RowsTell
  <2>9. OrdersKnow'
    BY <1>1, <2>3, <2>6 DEF Uncrossed, OrdersKnow, InMode
  <2>10. QED
    BY <1>3, <1>8, <2>3, <2>6, <2>7, <2>8, <2>9 DEF Uncrossed
<1>12. CASE SetEngine(t)
  <2>1. /\ request[t].at = "built" /\ request'[t].at = "engined"
        /\ request'[t].target = request[t].target /\ riskEngine' = request[t].engine
    BY <1>4, <1>12 DEF SetEngine, Requests
  <2>2. UNCHANGED << mode, clientMode, circuitBreaker, engines, stopped, held, resting, late, left >>
    BY <1>12 DEF SetEngine
  <2>3. Changing' /\ Switching
    BY <1>3, <2>1 DEF steps
  <2>4. Settled' /\ Progress(t)'
    BY <1>1, <2>1, <2>2, <2>3 DEF Uncrossed, Settled, Progress, steps
  <2>5. EnginesTell'
    BY <1>1, <1>2, <2>1, <2>2 DEF Uncrossed, EnginesTell, Tells
  <2>6. QED
    BY <1>3, <1>7, <1>8, <1>12, <2>2, <2>3, <2>4, <2>5 DEF Uncrossed, SetEngine
<1>13. CASE SetBreaker(t)
  <2>1. /\ request[t].at = "engined" /\ request'[t].at = "idle"
        /\ circuitBreaker' = riskEngine
    BY <1>4, <1>13, Blank DEF SetBreaker, SharedBreaker
  <2>2. UNCHANGED << mode, clientMode, riskEngine, stopped, held, resting, late, left >>
    BY <1>13 DEF SetBreaker
  <2>3. engines'[riskEngine] = engines[riskEngine]
    BY <1>4, <1>13, <2>2 DEF SetBreaker, Collect, Alive
  <2>4. ~Changing' /\ Switching
    BY <1>3, <2>1 DEF steps
  <2>5. Settled' /\ Progress(t)'
    BY <1>1, <2>1, <2>2, <2>3, <2>4 DEF Uncrossed, Settled, Progress, steps
  <2>6. EnginesTell'
    BY <1>1, <1>2, <2>1, <2>2, <2>3 DEF Uncrossed, EnginesTell, Tells
  <2>7. QED
    BY <1>3, <1>7, <1>8, <1>13, <2>2, <2>4, <2>5, <2>6 DEF Uncrossed, SetBreaker
<1>14. QED
  BY <1>5, <1>6, <1>9, <1>10, <1>11, <1>12, <1>13

-----------------------------------------------------------------------------
(* The steps of the orders, the books and the operator.                    *)
LEMMA OrdersKeep ==
  ASSUME TypeOK, ~crossed', ~crossed => Uncrossed, NEW d \in Dispatchers,
         Authorize(d) \/ Backstop(d) \/ Submit(d) \/ Send(d) \/ Execute(d)
           \/ TimeOut(d) \/ GiveUp(d)
  PROVE  Uncrossed'
<1> USE DEF attributes, objects, exposure
<1>1. /\ ~crossed /\ Uncrossed
      /\ request' = request /\ attributes' = attributes /\ engines' = engines
      /\ stopped' = stopped
  BY DEF Authorize, Backstop, Submit, Send, Execute, TimeOut, GiveUp, Open
<1>2. /\ Solo' /\ Settled' /\ (\A t \in Switchers : Progress(t)')
      /\ Changing' = Changing /\ Switching' = Switching
  BY <1>1, NobodySwitches
<1>3. EnginesTell'
  BY <1>1 DEF Uncrossed, EnginesTell, Tells
<1>4. \A c \in Dispatchers \ {d} : order'[c] = order[c]
  BY DEF Authorize, Backstop, Submit, Send, Execute, TimeOut, GiveUp, Open, TypeOK
<1>5. InMode(order'[d])
  <2>1. CASE Authorize(d)
    <3>1. /\ order'[d].judged = engines[riskEngine].mode /\ order'[d].raced = Changing
          /\ order'[d].at = "granted"
      BY <2>1 DEF Authorize, TypeOK, NoOrder, Orders
    <3>2. QED
      BY <1>1, <3>1 DEF Uncrossed, Settled, InMode
  <2>2. CASE Backstop(d) \/ Submit(d)
    <3>1. \/ order'[d].at = "idle"
          \/ /\ order[d].at \in {"granted", "checked"}
             /\ order'[d].at \in {"checked", "requested"}
             /\ order'[d].judged = order[d].judged /\ order'[d].raced = order[d].raced
      BY <2>2, Blank DEF Backstop, Submit, TypeOK, Orders
    <3>2. QED
      BY <1>1, <3>1 DEF Uncrossed, OrdersKnow, InMode
  <2>3. CASE Send(d)
    <3>1. \/ order'[d].at = "idle"
          \/ /\ order'[d].at = "sent" /\ order'[d].chosen = clientMode
             /\ order'[d].raced = order[d].raced /\ order[d].at = "requested"
      <4>1. order[d] \in Orders /\ order \in [Dispatchers -> Orders] /\ order[d].at = "requested"
        BY <2>3 DEF Send, TypeOK
      <4>2. CASE order' = [order EXCEPT ![d] = NoOrder]
        BY <4>1, <4>2, Blank
      <4>3. CASE order' = [order EXCEPT ![d] = [NoOrder EXCEPT !.at = "sent",
                             !.chosen = clientMode, !.raced = order[d].raced]]
        BY <4>1, <4>3 DEF NoOrder
      <4>4. QED
        BY <2>3, <4>2, <4>3 DEF Send
    <3>2. QED
      BY <1>1, <3>1 DEF Uncrossed, OrdersKnow, InMode
  <2>4. CASE Execute(d) \/ TimeOut(d) \/ GiveUp(d)
    BY <2>4, Blank DEF Execute, TimeOut, GiveUp, TypeOK, InMode
  <2>5. QED
    BY <2>1, <2>2, <2>3, <2>4
<1>6. OrdersKnow'
  BY <1>1, <1>2, <1>4, <1>5 DEF Uncrossed, OrdersKnow, InMode
<1>7. ExposureKnown'
  \* An order of `m`, on its way until now, becomes exposure.
  <2>1. ASSUME NEW m \in Modes, Exposed' = Exposed \cup {m},
               left' = IF order[d].raced \/ Switching THEN left \cup {m} ELSE left,
               ~order[d].raced /\ ~Switching => m = clientMode
        PROVE  ExposureKnown'
    <3>1. CASE order[d].raced \/ Switching
      BY <1>1, <1>2, <2>1, <3>1 DEF Uncrossed, ExposureKnown
    <3>2. CASE ~order[d].raced /\ ~Switching
      <4>1. ~Changing
        BY <3>2 DEF Changing, Switching
      <4>2. clientMode = mode
        BY <1>1, <4>1 DEF Uncrossed, Settled
      <4>3. QED
        BY <1>1, <1>2, <2>1, <3>2, <4>2 DEF Uncrossed, ExposureKnown
    <3>3. QED
      BY <3>1, <3>2
  <2>2. CASE Send(d) /\ clientMode = "paper"
    <3>1. /\ Exposed' = Exposed \cup {clientMode}
          /\ left' = IF order[d].raced \/ Switching THEN left \cup {clientMode} ELSE left
      BY <2>2 DEF Send, Open, Exposed
    <3>2. clientMode \in Modes
      BY DEF TypeOK
    <3>3. QED
      BY <2>1, <3>1, <3>2
  <2>3. CASE Execute(d) \/ TimeOut(d)
    <3>1. /\ Exposed' = Exposed \cup {order[d].chosen}
          /\ left' = IF order[d].raced \/ Switching THEN left \cup {order[d].chosen} ELSE left
      BY <2>3 DEF Execute, TimeOut, Open, Exposed
    <3>2. order[d].chosen \in Modes
      BY DEF TypeOK, Orders
    <3>3. ~order[d].raced => order[d].chosen = clientMode
      BY <1>1, <2>3 DEF Uncrossed, OrdersKnow, InMode, Execute, TimeOut
    <3>4. QED
      BY <2>1, <3>1, <3>2, <3>3
  <2>4. CASE UNCHANGED << held, resting, late, left >>
    BY <1>1, <1>2, <2>4 DEF Uncrossed, ExposureKnown, Exposed
  <2>5. QED
    BY <2>2, <2>3, <2>4 DEF Authorize, Backstop, Submit, Send, GiveUp
<1>8. QED
  BY <1>2, <1>3, <1>6, <1>7 DEF Uncrossed

LEMMA BooksKeep ==
  ASSUME TypeOK, ~crossed', ~crossed => Uncrossed,
         StopCancels \/ \E m \in Modes : ExecuteLate(m) \/ Fill(m) \/ Close(m) \/ Cancel(m)
  PROVE  Uncrossed'
<1> USE DEF attributes, objects, exposure
<1>1. /\ ~crossed /\ Uncrossed
      /\ request' = request /\ attributes' = attributes /\ engines' = engines
      /\ stopped' = stopped /\ order' = order
  BY DEF StopCancels, ExecuteLate, Fill, Close, Cancel
<1>2. /\ Solo' /\ Settled' /\ (\A t \in Switchers : Progress(t)')
      /\ Changing' = Changing /\ Switching' = Switching
  BY <1>1, NobodySwitches
<1>3. EnginesTell' /\ OrdersKnow'
  BY <1>1, <1>2 DEF Uncrossed, EnginesTell, Tells, OrdersKnow, InMode
<1>4. Exposed' \subseteq Exposed /\ left' = left \cap Exposed'
  BY DEF StopCancels, ExecuteLate, Fill, Close, Cancel, StillLeft, Exposed
<1>5. ExposureKnown'
  BY <1>1, <1>2, <1>4 DEF Uncrossed, ExposureKnown
<1>6. QED
  BY <1>2, <1>3, <1>5 DEF Uncrossed

LEMMA DeskKeeps ==
  ASSUME TypeOK, ~crossed', ~crossed => Uncrossed,
         StopFirst \/ StopSecond \/ ResumeFirst \/ ResumeSecond
  PROVE  Uncrossed'
<1> USE DEF attributes, objects, exposure
<1>1. /\ ~crossed /\ Uncrossed
      /\ request' = request /\ attributes' = attributes /\ order' = order
      /\ UNCHANGED << held, resting, late, left >>
  BY DEF StopFirst, StopSecond, ResumeFirst, ResumeSecond, SetTripped
<1>2. PICK e \in {riskEngine, circuitBreaker}, value \in BOOLEAN : SetTripped(e, value)
  <2>1. \/ SetTripped(circuitBreaker, TRUE) \/ SetTripped(circuitBreaker, FALSE)
        \/ SetTripped(riskEngine, TRUE) \/ SetTripped(riskEngine, FALSE)
    BY Zenon DEF StopFirst, StopSecond, ResumeFirst, ResumeSecond
  <2>2. QED
    BY Zenon, <2>1
<1>3. EnginesTell' /\ \A f \in Slots : engines'[f].mode = engines[f].mode
  BY <1>1, <1>2, TripTells
<1>4. /\ Solo' /\ Settled' /\ (\A t \in Switchers : Progress(t)')
      /\ Changing' = Changing /\ Switching' = Switching
  BY <1>1, <1>3, NobodySwitches
<1>5. OrdersKnow' /\ ExposureKnown'
  BY <1>1, <1>4 DEF Uncrossed, OrdersKnow, InMode, ExposureKnown, Exposed
<1>6. QED
  BY <1>3, <1>4, <1>5 DEF Uncrossed

(* A new process has everything from the table of its mode.                *)
LEMMA BootKeeps ==
  ASSUME TypeOK, RowsTell, Restart
  PROVE  Uncrossed'
<1>1. PICK m \in Modes : /\ mode' = m /\ clientMode' = m
                         /\ engines' = Fresh(m, circuitState)
  BY Constants DEF Restart
<1>2. /\ riskEngine' = First /\ circuitBreaker' = First
      /\ \A t \in Switchers : request'[t].at = "idle"
      /\ \A d \in Dispatchers : order'[d].at = "idle"
      /\ left' = Exposed' \ {m} /\ stopped' = stopped
  BY <1>1, Blank DEF Restart, Exposed
<1>3. engines'[First].mode = m /\ engines'[First].tripped = circuitState[m]
  BY <1>1, Constants DEF Fresh, Engine
<1>4. ~Changing' /\ ~Switching'
  BY <1>2 DEF Changing, Switching
<1>5. Solo' /\ Settled' /\ (\A t \in Switchers : Progress(t)')
  BY <1>1, <1>2, <1>3 DEF Solo, Serving, Settled, Progress, steps
<1>6. EnginesTell' /\ OrdersKnow'
  BY <1>2, <1>3 DEF EnginesTell, Tells, RowsTell, OrdersKnow, InMode
<1>7. ExposureKnown'
  BY <1>1, <1>2, <1>4 DEF ExposureKnown
<1>8. QED
  BY <1>5, <1>6, <1>7 DEF Uncrossed

-----------------------------------------------------------------------------
LEMMA InvInit == Init => IInv
<1> SUFFICES ASSUME Init PROVE IInv
  OBVIOUS
<1>1. TypeOK
  BY TypeInit
<1>2. RowsTell
  BY DEF Init, RowsTell
<1>3. /\ \A t \in Switchers : request[t].at = "idle"
      /\ \A d \in Dispatchers : order[d].at = "idle"
      /\ stopped = {} /\ held = {} /\ resting = {} /\ late = {}
  BY Blank DEF Init
<1>4. engines[First].mode = mode
  BY Constants DEF Init, Fresh, Engine
<1>5. Solo /\ Settled /\ (\A t \in Switchers : Progress(t))
  BY <1>3, <1>4 DEF Init, Solo, Serving, Settled, Progress, steps
<1>6. EnginesTell /\ OrdersKnow /\ ExposureKnown
  BY <1>3 DEF EnginesTell, Tells, OrdersKnow, InMode, ExposureKnown, Exposed, Switching
<1>7. QED
  BY <1>1, <1>2, <1>5, <1>6 DEF IInv, Uncrossed

LEMMA RowsStep == TypeOK /\ RowsTell /\ [Next]_vars => RowsTell'
<1> SUFFICES ASSUME TypeOK, RowsTell, [Next]_vars PROVE RowsTell'
  OBVIOUS
<1> USE DEF attributes, objects, exposure
<1>1. ASSUME NEW e \in Slots, NEW value \in BOOLEAN, SetTripped(e, value)
      PROVE  RowsTell'
  <2>1. engines[e].mode \in Modes
    BY DEF TypeOK
  <2>2. CASE value
    BY <1>1, <2>1, <2>2 DEF SetTripped, RowsTell, TypeOK
  <2>3. CASE ~value
    BY <1>1, <2>1, <2>3 DEF SetTripped, RowsTell, TypeOK
  <2>4. QED
    BY <2>2, <2>3
<1>2. ASSUME UNCHANGED << circuitState, stopped >> PROVE RowsTell'
  BY <1>2 DEF RowsTell
<1>3. riskEngine \in Slots /\ circuitBreaker \in Slots
  BY DEF TypeOK
<1>4. CASE StopFirst \/ StopSecond \/ ResumeFirst \/ ResumeSecond
  BY <1>1, <1>3, <1>4 DEF StopFirst, StopSecond, ResumeFirst, ResumeSecond
<1>5. ASSUME NEW t \in Switchers,
             LookSame(t) \/ SetSame(t) \/ Look(t) \/ SetMode(t) \/ SetClientMode(t)
               \/ Build(t) \/ SetEngine(t) \/ SetBreaker(t)
      PROVE  RowsTell'
  BY <1>2, <1>5 DEF LookSame, SetSame, Look, SetMode, SetClientMode, Build, SetEngine, SetBreaker
<1>6. ASSUME NEW d \in Dispatchers,
             Authorize(d) \/ Backstop(d) \/ Submit(d) \/ Send(d) \/ Execute(d)
           \/ TimeOut(d) \/ GiveUp(d)
      PROVE  RowsTell'
  BY <1>2, <1>6 DEF Authorize, Backstop, Submit, Send, Execute, TimeOut, GiveUp, Open
<1>7. CASE \/ StopCancels \/ Restart \/ UNCHANGED vars
           \/ \E m \in Modes : ExecuteLate(m) \/ Fill(m) \/ Close(m) \/ Cancel(m)
  BY <1>2, <1>7 DEF StopCancels, Restart, vars, ExecuteLate, Fill, Close, Cancel
<1>8. QED
  BY <1>4, <1>5, <1>6, <1>7 DEF Next

LEMMA InvStep == IInv /\ [Next]_vars => IInv'
<1> SUFFICES ASSUME IInv, [Next]_vars PROVE IInv'
  OBVIOUS
<1>1. TypeOK' /\ RowsTell'
  BY TypeStep, RowsStep DEF IInv
<1>2. ASSUME ~crossed' PROVE Uncrossed'
  <2>1. TypeOK /\ RowsTell /\ (~crossed => Uncrossed)
    BY DEF IInv
  <2>2. ASSUME NEW t \in Switchers,
               LookSame(t) \/ SetSame(t) \/ Look(t) \/ SetMode(t) \/ SetClientMode(t)
                 \/ Build(t) \/ SetEngine(t) \/ SetBreaker(t)
        PROVE  Uncrossed'
    BY <1>2, <2>1, <2>2, RequestsKeep
  <2>3. ASSUME NEW d \in Dispatchers,
               Authorize(d) \/ Backstop(d) \/ Submit(d) \/ Send(d) \/ Execute(d)
           \/ TimeOut(d) \/ GiveUp(d)
        PROVE  Uncrossed'
    BY <1>2, <2>1, <2>3, OrdersKeep
  <2>4. CASE StopCancels \/ \E m \in Modes : ExecuteLate(m) \/ Fill(m) \/ Close(m) \/ Cancel(m)
    BY <1>2, <2>1, <2>4, BooksKeep
  <2>5. CASE StopFirst \/ StopSecond \/ ResumeFirst \/ ResumeSecond
    BY <1>2, <2>1, <2>5, DeskKeeps
  <2>6. CASE Restart
    BY <2>1, <2>6, BootKeeps
  <2>7. CASE UNCHANGED vars
    BY <1>2, <2>1, <2>7 DEF vars, attributes, objects, exposure, Uncrossed, Solo, Serving,
       Settled, Changing, Progress, EnginesTell, Tells, OrdersKnow, InMode,
       ExposureKnown, Exposed, Switching
  <2>8. QED
    BY <2>2, <2>3, <2>4, <2>5, <2>6, <2>7 DEF Next
<1>3. QED
  BY <1>1, <1>2 DEF IInv

LEMMA Invariant == Spec => []IInv
  BY InvInit, InvStep, PTL DEF Spec

-----------------------------------------------------------------------------
(* The attributes, objects and histories keep their types.                 *)
THEOREM TypeCorrect == Spec => []TypeOK
<1>1. IInv => TypeOK
  BY DEF IInv
<1>2. QED
  BY <1>1, Invariant, PTL

(* An emergency stop is in force in its mode until a resume, whatever is   *)
(* switched, restarted or built in between (orchestrator.py:228-230).      *)
THEOREM StopsAlwaysStand == Spec => []StopStands
<1>1. IInv => StopStands
  BY DEF IInv, Uncrossed, EnginesTell, Tells, StopStands
<1>2. QED
  BY <1>1, Invariant, PTL

(* Neither orders nor positions cross from one mode to another but in the  *)
(* windows that raced, left and crossed record (orchestrator.py:207-231).  *)
THEOREM NothingEverCrosses == Spec => NothingCrossesModes
<1>1. IInv => PositionsWatchedByTheirMode
  BY DEF IInv, Uncrossed, ExposureKnown, Exposed, PositionsWatchedByTheirMode
<1>2. ASSUME IInv, [Next]_vars
      PROVE  (\A d \in Dispatchers : JudgedInItsMode(d)) /\ PositionsWatchedByTheirMode'
  <2>1. ASSUME NEW d \in Dispatchers, Send(d), ~order[d].raced, ~crossed
        PROVE  order[d].judged = clientMode
    BY <1>2, <2>1 DEF IInv, Uncrossed, OrdersKnow, InMode, Send
  <2>2. IInv'
    BY <1>2, InvStep
  <2>3. PositionsWatchedByTheirMode'
    BY <1>1, <2>2, PTL
  <2>4. QED
    BY <2>1, <2>3 DEF JudgedInItsMode
<1>3. QED
  BY <1>2, Invariant, PTL DEF Spec, NothingCrossesModes
=============================================================================
