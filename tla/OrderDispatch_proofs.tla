------------------------ MODULE OrderDispatch_proofs ------------------------
(***************************************************************************)
(* Theorems about OrderDispatch, for any sets of dispatchers and symbols,  *)
(* any limits and any behaviour of the broker, the watchdog, the           *)
(* synchroniser and the operator (unless a theorem assumes otherwise).     *)
(***************************************************************************)
EXTENDS OrderDispatch, TLAPS

\* Before its Send, a dispatcher that has been authorised has sent nothing since
\* the breaker was asked.
StopInv ==
  \A d \in Dispatchers :
    /\ ~halted => after_stop[d] = 0
    /\ after_stop[d] <= 1
    /\ pc[d] \in {"authorized", "reserved", "claimed"} => after_stop[d] = 0

\* A dispatcher that works and was not robbed holds the claim of its symbol, and
\* alone; without a watchdog nobody is robbed.
MutexInv ==
  /\ \A d \in Dispatchers \ robbed : pc[d] \in Working => sym[d] \in in_progress
  /\ SweepMutex
  /\ ~Watchdog => robbed = {}

Cooled(s) == taken[s].how # "PARTIAL" => now - taken[s].at >= Cooldown

\* The order of s that is answered but whose cooldown is not yet on record.
Unrecorded(s) == \E d \in Dispatchers :
  pc[d] = "answered" /\ sym[d] = s /\ StartsCooldown(answer[d])

SpacingInv ==
  /\ \A d \in Dispatchers :
       pc[d] \in Steps \ {"idle", "answered"} => Cooled(sym[d])
  /\ \A s \in Symbols :
       /\ taken[s].at <= now
       /\ \/ taken[s].how = "PARTIAL"
          \/ Unrecorded(s)
          \/ last_execution_time[s] >= taken[s].at
          \/ Cooled(s)

\* The broker and the cached positions, as long as nothing rested, filled in part
\* or came from the desk.  A timed-out order is young, the cache is not older than
\* SyncWithin, and one that was filled after the last order of a symbol had landed
\* shows no fewer positions than there are.
BrokerInv ==
  /\ synced_at <= now /\ now - synced_at <= SyncWithin
  /\ \A s \in Symbols : unresolved[s] > 0 => now - taken[s].at <= SettleWithin
  /\ ~irregular => \A s \in Symbols :
       /\ resting[s] = 0 /\ taken[s].how # "PARTIAL"
       /\ synced_at > taken[s].at + SettleWithin /\ ~misread
            => positions[s] <= snapshot[s]

\* Up to its Answer, a dispatcher that is not blind sees at least the positions there
\* are, and no order of its symbol is in doubt; once vetted it has seen room for one
\* more.
SeenInv ==
  ~irregular => \A d \in Dispatchers \ blind :
    /\ pc[d] \in Steps \ {"idle", "answered"} =>
         positions[sym[d]] <= seen[d][sym[d]] /\ unresolved[sym[d]] = 0
    /\ pc[d] \in Steps \ {"idle", "screened", "answered"} => RoomFor(seen[d][sym[d]])

CeilingInv == BrokerInv /\ SeenInv

-----------------------------------------------------------------------------
\* The constants, spelled out for the provers.
LEMMA ConstantFacts ==
  /\ LongAgo \in Int /\ NoExpiry \in Int
  /\ Outcomes \subseteq AllOutcomes
  /\ Cooldown \in Nat /\ FlatCooldown \in Nat /\ ReserveTTL \in Nat
BY DispatchAssumption DEF DispatchAssumption, LongAgo, NoExpiry

\* Pruning and releasing keep the reservation table a table.
LEMMA ReservationType ==
  ASSUME reserved_risk \in [Symbols -> Int], now \in Nat, NEW s \in Symbols
  PROVE  /\ Pruned \in [Symbols -> Int]
         /\ Released(s) \in [Symbols -> Int]
         /\ [Pruned EXCEPT ![s] = now + ReserveTTL] \in [Symbols -> Int]
<1>1. Pruned \in [Symbols -> Int]
  BY ConstantFacts DEF Pruned
<1>2. Released(s) \in [Symbols -> Int]
  BY ConstantFacts DEF Released
<1>3. now + ReserveTTL \in Int
  BY ConstantFacts
<1> HIDE DEF Pruned
<1> QED BY <1>1, <1>2, <1>3

\* Every variable keeps its type: positions are never negative, every reservation
\* has an expiry, every dispatcher is at a known step.
THEOREM TypeCorrect == Spec => []TypeOK
<1>1. Init => TypeOK
  <2> SUFFICES ASSUME Init PROVE TypeOK
    OBVIOUS
  <2> USE DEF Init
  <2>1. Nothing \in [Symbols -> Nat]
    BY DEF Nothing
  <2>2. sym \in [Dispatchers -> Symbols]
    OBVIOUS
  <2>3. [at |-> LongAgo, how |-> "FAILED"] \in [at: Int, how: AllOutcomes]
    BY ConstantFacts DEF AllOutcomes
  <2>4. taken \in [Symbols -> [at: Int, how: AllOutcomes]]
    BY <2>3
  <2>5. /\ last_execution_time \in [Symbols -> Int]
        /\ reserved_risk \in [Symbols -> Int]
    BY ConstantFacts
  <2>6. /\ pc \in [Dispatchers -> Steps]
        /\ answer \in [Dispatchers -> AllOutcomes]
        /\ seen \in [Dispatchers -> [Symbols -> Nat]]
    BY <2>1 DEF Steps, AllOutcomes
  <2> QED BY <2>1, <2>2, <2>4, <2>5, <2>6 DEF TypeOK
<1>2. TypeOK /\ [Next]_vars => TypeOK'
  <2> SUFFICES ASSUME TypeOK, [Next]_vars PROVE TypeOK'
    OBVIOUS
  <2> USE DEF TypeOK, Steps, Goto, Leave, claims, broker, cache, locals, history
  <2>1. ASSUME NEW d \in Dispatchers, NEW s \in Symbols, Screen(d, s) PROVE TypeOK'
    BY <2>1 DEF Screen
  <2>2. ASSUME NEW d \in Dispatchers, Vet(d) PROVE TypeOK'
    BY <2>2 DEF Vet
  <2>3. ASSUME NEW d \in Dispatchers, StopAndReverse(d) PROVE TypeOK'
    <3>1. sym[d] \in Symbols /\ Released(sym[d]) \in [Symbols -> Int]
      BY ReservationType
    <3>2. positions' \in [Symbols -> Nat]
      BY <2>3, <3>1 DEF StopAndReverse
    <3>2a. seen' \in [Dispatchers -> [Symbols -> Nat]]
      <4>1. seen[d][sym[d]] - 1 \in Nat
        BY <2>3, <3>1 DEF StopAndReverse
      <4>2. CASE seen' = [seen EXCEPT ![d][sym[d]] = @ - 1]
        BY <3>1, <4>1, <4>2
      <4>3. CASE seen' = [seen EXCEPT ![d] = Nothing]
        BY <4>3 DEF Nothing
      <4> QED BY <2>3, <4>2, <4>3 DEF StopAndReverse
    <3>2b. /\ pc' \in [Dispatchers -> Steps] /\ sym' = sym
           /\ cooling' \in [Dispatchers -> BOOLEAN]
           /\ answer' \in [Dispatchers -> AllOutcomes]
      BY <2>3 DEF StopAndReverse, AllOutcomes
    <3>3. last_execution_time' \in [Symbols -> Int]
      BY <2>3, <3>1, ConstantFacts DEF StopAndReverse
    <3> QED BY <2>3, <3>1, <3>2, <3>2a, <3>2b, <3>3 DEF StopAndReverse
  <2>4. ASSUME NEW d \in Dispatchers, Withhold(d) PROVE TypeOK'
    BY <2>4 DEF Withhold, Nothing, AllOutcomes
  <2>5. ASSUME NEW d \in Dispatchers, Authorize(d) PROVE TypeOK'
    <3>1. sym[d] \in Symbols
      OBVIOUS
    <3> QED BY <2>5, <3>1, ReservationType DEF Authorize
  <2>6. ASSUME NEW d \in Dispatchers, ReserveRisk(d) PROVE TypeOK'
    <3>1. sym[d] \in Symbols
      OBVIOUS
    <3> QED BY <2>6, <3>1, ReservationType DEF ReserveRisk
  <2>7. ASSUME NEW d \in Dispatchers, Claim(d) PROVE TypeOK'
    BY <2>7 DEF Claim
  <2>8. ASSUME NEW d \in Dispatchers, LoseClaim(d) PROVE TypeOK'
    <3>1. sym[d] \in Symbols /\ Released(sym[d]) \in [Symbols -> Int]
      BY ReservationType
    <3> QED BY <2>8, <3>1 DEF LoseClaim, Nothing, AllOutcomes
  <2>9. ASSUME NEW d \in Dispatchers, Send(d) PROVE TypeOK'
    BY <2>9 DEF Send
  <2>10. ASSUME NEW d \in Dispatchers, Answer(d) PROVE TypeOK'
    <3>1. PICK how \in Outcomes : AnswerWith(d, how)
      BY <2>10 DEF Answer
    <3>2. sym[d] \in Symbols /\ how \in AllOutcomes
      BY ConstantFacts
    <3>3. [at |-> now, how |-> how] \in [at: Int, how: AllOutcomes]
      BY <3>2
    <3>4. taken' \in [Symbols -> [at: Int, how: AllOutcomes]]
      BY <3>1, <3>2, <3>3 DEF AnswerWith
    <3>5. /\ positions' \in [Symbols -> Nat] /\ resting' \in [Symbols -> Nat]
          /\ unresolved' \in [Symbols -> Nat]
      BY <3>1, <3>2 DEF AnswerWith
    <3>6. pc' \in [Dispatchers -> Steps] /\ answer' \in [Dispatchers -> AllOutcomes]
      BY <3>1, <3>2 DEF AnswerWith
    <3> QED BY <3>1, <3>4, <3>5, <3>6 DEF AnswerWith
  <2>11. ASSUME NEW d \in Dispatchers, Finish(d) PROVE TypeOK'
    <3>1. sym[d] \in Symbols /\ Released(sym[d]) \in [Symbols -> Int]
      BY ReservationType
    <3>2. last_execution_time' \in [Symbols -> Int] /\ in_progress' \subseteq Symbols
      <4>1. /\ \/ last_execution_time' = last_execution_time
               \/ last_execution_time' = [last_execution_time EXCEPT ![sym[d]] = now]
            /\ in_progress' = in_progress \ {sym[d]}
        BY <2>11 DEF Finish
      <4>2. now \in Int
        OBVIOUS
      <4> QED BY <4>1, <4>2
    <3>3. reserved_risk' \in [Symbols -> Int]
      BY <2>11, <3>1 DEF Finish
    <3>4. /\ pc' \in [Dispatchers -> Steps] /\ answer' \in [Dispatchers -> AllOutcomes]
          /\ cooling' \in [Dispatchers -> BOOLEAN]
          /\ seen' \in [Dispatchers -> [Symbols -> Nat]]
      <4>1. pc' = [pc EXCEPT ![d] = "idle"] /\ answer' = [answer EXCEPT ![d] = "FAILED"]
            /\ cooling' = [cooling EXCEPT ![d] = FALSE]
            /\ seen' = [seen EXCEPT ![d] = Nothing]
        BY <2>11 DEF Finish
      <4>2. Nothing \in [Symbols -> Nat] /\ "FAILED" \in AllOutcomes
        BY DEF Nothing, AllOutcomes
      <4> QED BY <4>1, <4>2
    <3>5. blind' \subseteq Dispatchers /\ robbed' \subseteq Dispatchers
      BY <2>11 DEF Finish, WorkersOn
    <3> QED BY <2>11, <3>2, <3>3, <3>4, <3>5 DEF Finish
  <2>12. CASE WatchdogPass \/ Sync \/ EmergencyStop \/ ResumeTrading \/ Tick
    <3>1. CASE WatchdogPass
      BY <3>1 DEF WatchdogPass, WorkersOn
    <3>2. CASE Sync
      <4>1. snapshot' \in [Symbols -> Nat] /\ misread' \in BOOLEAN
        BY <3>2 DEF Sync, Nothing
      <4> QED BY <3>2, <4>1 DEF Sync
    <3>3. CASE EmergencyStop
      BY <3>3 DEF EmergencyStop, Nothing
    <3>4. CASE ResumeTrading
      BY <3>4 DEF ResumeTrading
    <3>5. CASE Tick
      BY <3>5 DEF Tick
    <3> QED BY <2>12, <3>1, <3>2, <3>3, <3>4, <3>5
  <2>13. ASSUME NEW s \in Symbols,
                PositionCloses(s) \/ RestingEnds(s) \/ Settle(s) \/ ManualTrade(s)
         PROVE  TypeOK'
    <3>1. CASE PositionCloses(s)
      BY <3>1 DEF PositionCloses
    <3>2. CASE RestingEnds(s)
      <4>1. resting[s] - 1 \in Nat /\ positions[s] + 1 \in Nat
        BY <3>2 DEF RestingEnds
      <4>2. resting' = [resting EXCEPT ![s] = resting[s] - 1]
        BY <3>2 DEF RestingEnds
      <4>3. positions' = [positions EXCEPT ![s] = positions[s] + 1]
              \/ positions' = positions
        BY <3>2 DEF RestingEnds
      <4>4. resting' \in [Symbols -> Nat] /\ positions' \in [Symbols -> Nat]
        BY <4>1, <4>2, <4>3
      <4> QED BY <3>2, <4>4 DEF RestingEnds
    <3>3. CASE Settle(s)
      <4>1. unresolved[s] - 1 \in Nat /\ positions[s] + 1 \in Nat
        BY <3>3 DEF Settle
      <4>2. unresolved' = [unresolved EXCEPT ![s] = unresolved[s] - 1]
        BY <3>3 DEF Settle
      <4>3. positions' = [positions EXCEPT ![s] = positions[s] + 1]
              \/ positions' = positions
        BY <3>3 DEF Settle
      <4>4. unresolved' \in [Symbols -> Nat]
        BY <4>1, <4>2
      <4>5. positions' \in [Symbols -> Nat]
        BY <4>1, <4>3
      <4> QED BY <3>3, <4>4, <4>5 DEF Settle
    <3>4. CASE ManualTrade(s)
      BY <3>4 DEF ManualTrade
    <3> QED BY <2>13, <3>1, <3>2, <3>3, <3>4
  <2>14. CASE UNCHANGED vars
    BY <2>14 DEF vars
  <2> QED BY <2>1, <2>2, <2>3, <2>4, <2>5, <2>6, <2>7, <2>8, <2>9, <2>10, <2>11,
             <2>12, <2>13, <2>14 DEF Next, Choose, Proceed, Bounded, World
<1> QED BY <1>1, <1>2, PTL DEF Spec

-----------------------------------------------------------------------------
\* What the steps of the world and of the dispatchers leave alone, in the terms
\* of the invariants below.
LEMMA WorldFrame ==
  ASSUME World PROVE pc' = pc /\ UNCHANGED << locals, taken, last_execution_time >>
BY DEF World, WatchdogPass, Sync, EmergencyStop, ResumeTrading, Tick,
       PositionCloses, RestingEnds, Settle, ManualTrade, claims, locals, history

LEMMA StutterFrame ==
  ASSUME UNCHANGED vars
  PROVE  /\ UNCHANGED << now, in_progress, last_execution_time, halted, pc, sym,
                         answer, taken, after_stop, robbed >>
BY DEF vars, claims, locals, history

\* After an emergency stop, and until trading is resumed, a dispatcher sends at
\* most one order: the one it had been authorised to send before.
THEOREM OneOrderAfterEveryStop == Spec => []OneOrderAfterStop
<1>1. Init => StopInv
  BY DEF Init, StopInv
<1>2. TypeOK /\ StopInv /\ [Next]_vars => StopInv'
  <2> SUFFICES ASSUME TypeOK, StopInv, [Next]_vars PROVE StopInv'
    OBVIOUS
  <2>t. /\ pc \in [Dispatchers -> Steps] /\ after_stop \in [Dispatchers -> Nat]
        /\ halted \in BOOLEAN
    BY DEF TypeOK
  <2>1. ASSUME NEW d \in Dispatchers,
               (\E s \in Symbols : Screen(d, s)) \/ Vet(d) \/ StopAndReverse(d) \/ Withhold(d)
        PROVE  StopInv'
    <3>1. /\ halted' = halted /\ after_stop' = after_stop
          /\ \E to \in {"screened", "vetted", "idle"} : pc' = [pc EXCEPT ![d] = to]
      BY <2>1 DEF Screen, Vet, StopAndReverse, Withhold, Leave, Goto, history
    <3> QED BY <2>t, <3>1 DEF StopInv
  <2>2. ASSUME NEW d \in Dispatchers, Authorize(d) PROVE StopInv'
    <3>1. /\ ~halted /\ halted' = halted /\ after_stop' = after_stop
          /\ pc' = [pc EXCEPT ![d] = "authorized"]
      BY <2>2 DEF Authorize, Goto, history
    <3> QED BY <2>t, <3>1 DEF StopInv
  <2>3. ASSUME NEW d \in Dispatchers, ReserveRisk(d) \/ Claim(d) PROVE StopInv'
    <3>1. /\ halted' = halted /\ after_stop' = after_stop
          /\ pc[d] \in {"authorized", "reserved"}
          /\ \E to \in {"reserved", "claimed"} : pc' = [pc EXCEPT ![d] = to]
      BY <2>3 DEF ReserveRisk, Claim, Goto, history
    <3> QED BY <2>t, <3>1 DEF StopInv
  <2>4. ASSUME NEW d \in Dispatchers, LoseClaim(d) \/ Answer(d) \/ Finish(d) PROVE StopInv'
    <3>1. /\ halted' = halted /\ after_stop' = after_stop
          /\ \E to \in {"idle", "answered"} : pc' = [pc EXCEPT ![d] = to]
      BY <2>4 DEF LoseClaim, Answer, AnswerWith, Finish, Leave, Goto, history
    <3> QED BY <2>t, <3>1 DEF StopInv
  <2>5. ASSUME NEW d \in Dispatchers, Send(d) PROVE StopInv'
    <3>1. /\ halted' = halted /\ pc[d] = "claimed" /\ pc' = [pc EXCEPT ![d] = "sent"]
          /\ after_stop' = [after_stop EXCEPT ![d] = @ + (IF halted THEN 1 ELSE 0)]
      BY <2>5 DEF Send, Goto
    <3> QED BY <2>t, <3>1 DEF StopInv
  <2>6. CASE EmergencyStop
    BY <2>6 DEF EmergencyStop, history, StopInv
  <2>7. CASE ResumeTrading
    BY <2>7, <2>t DEF ResumeTrading, StopInv
  <2>8. CASE WatchdogPass \/ Sync \/ Tick
             \/ \E s \in Symbols : \/ PositionCloses(s) \/ RestingEnds(s)
                                   \/ Settle(s) \/ ManualTrade(s)
    <3>1. halted' = halted /\ after_stop' = after_stop /\ pc' = pc
      BY <2>8 DEF WatchdogPass, Sync, Tick, PositionCloses, RestingEnds, Settle,
                  ManualTrade, history
    <3> QED BY <3>1 DEF StopInv
  <2>9. CASE UNCHANGED vars
    BY <2>9, StutterFrame DEF StopInv
  <2> QED BY <2>1, <2>2, <2>3, <2>4, <2>5, <2>6, <2>7, <2>8, <2>9
          DEF Next, Choose, Proceed, Bounded, World
<1>3. StopInv => OneOrderAfterStop
  BY DEF StopInv, OneOrderAfterStop
<1> QED BY <1>1, <1>2, <1>3, TypeCorrect, PTL DEF Spec

\* Where only sweeps dispatch, the compare-and-claim keeps two of them from ever
\* working on the same symbol, unless the watchdog took the claim of one of them;
\* without a watchdog no claim is taken from anybody.
THEOREM SweepsExcludeEachOther ==
  ASSUME Arbiters = {} PROVE Spec => [](SweepMutex /\ (~Watchdog => robbed = {}))
<1>1. Init => MutexInv
  BY DEF Init, MutexInv, SweepMutex, Working
<1>2. TypeOK /\ MutexInv /\ [Next]_vars => MutexInv'
  <2> SUFFICES ASSUME TypeOK, MutexInv, [Next]_vars PROVE MutexInv'
    OBVIOUS
  <2>t. /\ pc \in [Dispatchers -> Steps] /\ sym \in [Dispatchers -> Symbols]
        /\ Dispatchers = Sweeps /\ robbed \subseteq Dispatchers
    BY DEF TypeOK, Dispatchers
  <2>1. ASSUME NEW d \in Dispatchers, NEW s \in Symbols, Screen(d, s) PROVE MutexInv'
    <3>1. /\ pc' = [pc EXCEPT ![d] = "screened"] /\ sym' = [sym EXCEPT ![d] = s]
          /\ in_progress' = in_progress /\ robbed' = robbed
      BY <2>1 DEF Screen, Goto, claims, history
    <3> QED BY <2>t, <3>1 DEF MutexInv, SweepMutex, Working
  <2>2. ASSUME NEW d \in Dispatchers,
               \/ Vet(d) \/ StopAndReverse(d) \/ Withhold(d) \/ Authorize(d)
               \/ ReserveRisk(d) \/ LoseClaim(d)
        PROVE  MutexInv'
    <3>1. /\ \E to \in Steps \ Working : pc' = [pc EXCEPT ![d] = to]
          /\ sym' = sym /\ in_progress' = in_progress /\ robbed' = robbed
      BY <2>2 DEF Vet, StopAndReverse, Withhold, Authorize, ReserveRisk, LoseClaim,
                  Leave, Goto, claims, locals, history, Steps, Working
    <3> QED BY <2>t, <3>1 DEF MutexInv, SweepMutex
  <2>3. ASSUME NEW d \in Dispatchers, Claim(d) PROVE MutexInv'
    <3>1. /\ sym[d] \notin in_progress
          /\ pc' = [pc EXCEPT ![d] = "claimed"] /\ sym' = sym
          /\ in_progress' = in_progress \cup {sym[d]} /\ robbed' = robbed
      BY <2>3, <2>t DEF Claim, MayClaim, Goto, locals, history
    <3> QED BY <2>t, <3>1 DEF MutexInv, SweepMutex, Working
  <2>4. ASSUME NEW d \in Dispatchers, Send(d) \/ Answer(d) PROVE MutexInv'
    <3>1. /\ pc[d] \in Working
          /\ \E to \in Working : pc' = [pc EXCEPT ![d] = to]
          /\ sym' = sym /\ in_progress' = in_progress /\ robbed' = robbed
      BY <2>4 DEF Send, Answer, AnswerWith, Goto, claims, locals, history, Working
    <3> QED BY <2>t, <3>1 DEF MutexInv, SweepMutex
  <2>5. ASSUME NEW d \in Dispatchers, Finish(d) PROVE MutexInv'
    <3>1. /\ pc[d] = "answered" /\ pc' = [pc EXCEPT ![d] = "idle"] /\ sym' = sym
          /\ in_progress' = in_progress \ {sym[d]}
          /\ robbed' = (robbed \cup WorkersOn({sym[d]})) \ {d}
      BY <2>5 DEF Finish, Leave, Goto
    <3>2. pc'[d] \notin Working /\ \A e \in Dispatchers \ {d} : pc'[e] = pc[e]
      BY <2>t, <3>1 DEF Working
    <3>3. ASSUME NEW e \in Dispatchers, e \notin robbed', pc'[e] \in Working
          PROVE  e \notin robbed /\ pc[e] \in Working /\ sym[e] # sym[d]
      BY <3>1, <3>2, <3>3 DEF WorkersOn
    <3>4. ASSUME ~Watchdog PROVE robbed' = {}
      <4>1. d \in Dispatchers \ robbed /\ pc[d] \in Working /\ robbed = {}
        BY <3>1, <3>4 DEF MutexInv, Working
      <4>2. \A e \in WorkersOn({sym[d]}) : e = d
        BY <4>1 DEF MutexInv, SweepMutex, WorkersOn
      <4> QED BY <3>1, <4>1, <4>2
    <3>5. SweepMutex'
      BY <3>1, <3>3 DEF MutexInv, SweepMutex
    <3>6. \A e \in Dispatchers \ robbed' : pc'[e] \in Working => sym'[e] \in in_progress'
      BY <3>1, <3>3 DEF MutexInv
    <3> QED BY <3>4, <3>5, <3>6 DEF MutexInv
  <2>6. CASE World
    <3>1. pc' = pc /\ sym' = sym
      BY <2>6, WorldFrame DEF locals
    <3>2. CASE WatchdogPass
      <4>1. /\ Watchdog /\ in_progress' = in_progress \ Stale
            /\ robbed' = robbed \cup WorkersOn(Stale)
        BY <3>2 DEF WatchdogPass
      <4> QED BY <3>1, <4>1 DEF MutexInv, SweepMutex, WorkersOn
    <3>3. CASE ~WatchdogPass
      <4>1. in_progress' = in_progress /\ robbed' = robbed
        BY <2>6, <3>3 DEF World, Sync, EmergencyStop, ResumeTrading, Tick,
                  PositionCloses, RestingEnds, Settle, ManualTrade, claims, history
      <4> QED BY <3>1, <4>1 DEF MutexInv, SweepMutex
    <3> QED BY <3>2, <3>3
  <2>7. CASE UNCHANGED vars
    BY <2>7, StutterFrame DEF MutexInv, SweepMutex
  <2> QED BY <2>1, <2>2, <2>3, <2>4, <2>5, <2>6, <2>7 DEF Next, Choose, Proceed, Bounded
<1>3. MutexInv => SweepMutex /\ (~Watchdog => robbed = {})
  BY DEF MutexInv
<1> QED BY <1>1, <1>2, <1>3, TypeCorrect, PTL DEF Spec

-----------------------------------------------------------------------------
\* Some dispatcher is between the claim of s and its finally block.
Owned(s) == \E d \in Dispatchers : pc[d] \in Working /\ sym[d] = s

ClaimsOwned == \A s \in in_progress : Owned(s)

\* No claim is left behind, in any wiring: a symbol in _execution_in_progress is
\* one that a dispatcher is working on, whoever else claimed it, gave it back or had
\* it dropped by the watchdog meanwhile.  That the dispatcher comes to its finally
\* block is ClaimReleased.
THEOREM NoClaimIsOrphaned == Spec => []ClaimsOwned
<1>1. Init => ClaimsOwned
  BY DEF Init, ClaimsOwned
<1>2. TypeOK /\ ClaimsOwned /\ [Next]_vars => ClaimsOwned'
  <2> SUFFICES ASSUME TypeOK, ClaimsOwned, [Next]_vars PROVE ClaimsOwned'
    OBVIOUS
  <2>t. pc \in [Dispatchers -> Steps] /\ sym \in [Dispatchers -> Symbols]
    BY DEF TypeOK
  <2> USE DEF ClaimsOwned, Owned
  <2>1. ASSUME NEW d \in Dispatchers, NEW s \in Symbols, Screen(d, s) PROVE ClaimsOwned'
    <3>1. /\ pc[d] \notin Working
          /\ pc' = [pc EXCEPT ![d] = "screened"] /\ sym' = [sym EXCEPT ![d] = s]
          /\ in_progress' = in_progress
      BY <2>1 DEF Screen, Goto, claims, Working
    <3> QED BY <2>t, <3>1
  <2>2. ASSUME NEW d \in Dispatchers,
               \/ Vet(d) \/ StopAndReverse(d) \/ Withhold(d) \/ Authorize(d)
               \/ ReserveRisk(d) \/ LoseClaim(d)
        PROVE  ClaimsOwned'
    <3>1. /\ pc[d] \notin Working
          /\ \E to \in Steps : pc' = [pc EXCEPT ![d] = to]
          /\ sym' = sym /\ in_progress' = in_progress
      BY <2>2 DEF Vet, StopAndReverse, Withhold, Authorize, ReserveRisk, LoseClaim,
                  Leave, Goto, claims, locals, Steps, Working
    <3> QED BY <2>t, <3>1
  <2>3. ASSUME NEW d \in Dispatchers, Claim(d) PROVE ClaimsOwned'
    <3>1. /\ pc[d] \notin Working
          /\ pc' = [pc EXCEPT ![d] = "claimed"] /\ sym' = sym /\ "claimed" \in Working
          /\ in_progress' = in_progress \cup {sym[d]}
      BY <2>3, <2>t DEF Claim, Goto, locals, Working
    <3> QED BY <2>t, <3>1
  <2>4. ASSUME NEW d \in Dispatchers, Send(d) \/ Answer(d) PROVE ClaimsOwned'
    <3>1. /\ \E to \in Working : pc' = [pc EXCEPT ![d] = to]
          /\ sym' = sym /\ in_progress' = in_progress
      BY <2>4 DEF Send, Answer, AnswerWith, Goto, claims, locals, Working
    <3> QED BY <2>t, <3>1
  <2>5. ASSUME NEW d \in Dispatchers, Finish(d) PROVE ClaimsOwned'
    <3>1. /\ pc' = [pc EXCEPT ![d] = "idle"] /\ sym' = sym
          /\ in_progress' = in_progress \ {sym[d]}
      BY <2>5 DEF Finish, Leave, Goto
    <3>2. ASSUME NEW s \in in_progress' PROVE Owned(s)'
      <4>1. PICK e \in Dispatchers : pc[e] \in Working /\ sym[e] = s
        BY <3>1, <3>2
      <4>2. e # d
        BY <3>1, <3>2, <4>1
      <4> QED BY <2>t, <3>1, <4>1, <4>2
    <3> QED BY <3>2
  <2>6. CASE World
    <3>1. in_progress' \subseteq in_progress
      BY <2>6 DEF World, WatchdogPass, Sync, EmergencyStop, ResumeTrading, Tick,
                  PositionCloses, RestingEnds, Settle, ManualTrade, claims
    <3> QED BY <2>6, <3>1, WorldFrame DEF locals
  <2>7. CASE UNCHANGED vars
    BY <2>7, StutterFrame
  <2> QED BY <2>1, <2>2, <2>3, <2>4, <2>5, <2>6, <2>7 DEF Next, Choose, Proceed, Bounded
<1> QED BY <1>1, <1>2, TypeCorrect, PTL DEF Spec

-----------------------------------------------------------------------------
\* Time only makes an order cooler.
LEMMA CooledStays ==
  ASSUME TypeOK, NEW s \in Symbols, Cooled(s), taken' = taken, now' \in Nat, now' >= now
  PROVE  Cooled(s)'
<1>1. taken[s].at \in Int
  BY DEF TypeOK
<1> QED BY <1>1, ConstantFacts DEF Cooled, TypeOK

\* A step of the one dispatcher before its Send moves neither the orders taken nor
\* the clock.
LEMMA BeforeSendFrame ==
  ASSUME NEW d \in Dispatchers,
         \/ Vet(d) \/ StopAndReverse(d) \/ Withhold(d) \/ Authorize(d)
         \/ ReserveRisk(d) \/ Claim(d) \/ LoseClaim(d) \/ Send(d)
  PROVE  /\ sym' = sym /\ taken' = taken /\ now' = now
         /\ pc[d] \notin {"idle", "answered"}
         /\ \E to \in Steps \ {"answered"} : pc' = [pc EXCEPT ![d] = to]
BY DEF Vet, StopAndReverse, Withhold, Authorize, ReserveRisk, Claim, LoseClaim, Send,
       Leave, Goto, locals, history, Steps

\* With a single arbiter, the time of the last order taken and the recorded
\* cooldown stay in step.
LEMMA SpacingInvariance ==
  ASSUME NEW a, Arbiters = {a}, Sweeps = {} PROVE Spec => []SpacingInv
<1>d. Dispatchers = {a}
  BY DEF Dispatchers
<1>1. Init => SpacingInv
  <2> SUFFICES ASSUME Init PROVE SpacingInv
    OBVIOUS
  <2>1. /\ \A d \in Dispatchers : pc[d] = "idle"
        /\ now = 0
        /\ \A s \in Symbols : taken[s].at = LongAgo /\ last_execution_time[s] = LongAgo
    BY DEF Init
  <2>2. LongAgo \in Int /\ LongAgo <= 0
    BY DispatchAssumption DEF DispatchAssumption, LongAgo
  <2> QED BY <2>1, <2>2 DEF SpacingInv
<1>2. TypeOK /\ SpacingInv /\ [Next]_vars => SpacingInv'
  <2> SUFFICES ASSUME TypeOK, SpacingInv, [Next]_vars PROVE SpacingInv'
    OBVIOUS
  <2>t. /\ pc \in [Dispatchers -> Steps] /\ sym \in [Dispatchers -> Symbols]
        /\ answer \in [Dispatchers -> AllOutcomes] /\ now \in Nat
        /\ last_execution_time \in [Symbols -> Int]
        /\ taken \in [Symbols -> [at: Int, how: AllOutcomes]]
    BY DEF TypeOK
  <2>a. a \in Dispatchers /\ sym[a] \in Symbols
    BY <1>d, <2>t
  <2>c. Cooldown \in Nat
    BY ConstantFacts
  <2>i. /\ pc[a] \in Steps \ {"idle", "answered"} => Cooled(sym[a])
        /\ \A s \in Symbols :
             /\ taken[s].at <= now
             /\ \/ taken[s].how = "PARTIAL"
                \/ Unrecorded(s)
                \/ last_execution_time[s] >= taken[s].at
                \/ Cooled(s)
    BY <2>a DEF SpacingInv
  <2>1. ASSUME NEW s \in Symbols, Screen(a, s) PROVE SpacingInv'
    <3>1. /\ pc[a] = "idle" /\ pc' = [pc EXCEPT ![a] = "screened"]
          /\ sym' = [sym EXCEPT ![a] = s] /\ taken' = taken /\ now' = now
          /\ last_execution_time' = last_execution_time
          /\ now - last_execution_time[s] >= Cooldown
      BY <2>1, <1>d DEF Screen, Goto, SinceLast, claims, history
    <3>2. \A u \in Symbols : ~Unrecorded(u)
      BY <3>1, <1>d DEF Unrecorded
    <3>3. Cooled(s)
      BY <2>i, <2>t, <2>c, <3>1, <3>2 DEF Cooled
    <3>4. pc'[a] = "screened" /\ sym'[a] = s
      BY <3>1, <2>t, <2>a
    <3>5. \A u \in Symbols : Cooled(u) => Cooled(u)'
      BY <3>1 DEF Cooled
    <3> QED BY <2>i, <3>1, <3>2, <3>3, <3>4, <3>5, <1>d DEF SpacingInv
  <2>2. ASSUME \/ Vet(a) \/ StopAndReverse(a) \/ Withhold(a) \/ Authorize(a)
               \/ ReserveRisk(a) \/ Claim(a) \/ LoseClaim(a) \/ Send(a)
        PROVE  SpacingInv'
    <3>1. /\ sym' = sym /\ taken' = taken /\ now' = now
          /\ pc[a] \notin {"idle", "answered"} /\ pc'[a] # "answered"
      BY <2>2, <2>a, <2>t, BeforeSendFrame
    <3>2. Cooled(sym[a]) /\ \A u \in Symbols : ~Unrecorded(u)
      BY <2>i, <2>t, <2>a, <3>1, <1>d DEF Unrecorded
    <3>3. \A u \in Symbols : u # sym[a] => last_execution_time'[u] = last_execution_time[u]
      BY <2>2, <2>t, <2>a DEF Vet, StopAndReverse, Withhold, Authorize, ReserveRisk,
           Claim, LoseClaim, Send, claims
    <3>4. \A u \in Symbols : Cooled(u) => Cooled(u)'
      BY <3>1 DEF Cooled
    <3>5. \A u \in Symbols :
            /\ taken'[u].at <= now'
            /\ \/ taken'[u].how = "PARTIAL"
               \/ last_execution_time'[u] >= taken'[u].at
               \/ Cooled(u)'
      BY <2>i, <3>1, <3>2, <3>3, <3>4
    <3>6. (Cooled(sym[a]))'
      BY <3>1, <3>2 DEF Cooled
    <3> QED BY <3>5, <3>6, <1>d DEF SpacingInv
  <2>3. ASSUME Answer(a) PROVE SpacingInv'
    <3>1. PICK how \in Outcomes : AnswerWith(a, how)
      BY <2>3 DEF Answer
    <3>2. /\ pc[a] = "sent" /\ pc'[a] = "answered" /\ sym' = sym /\ now' = now
          /\ answer'[a] = how /\ how \in AllOutcomes
          /\ last_execution_time' = last_execution_time
          /\ \/ how = "FAILED" /\ taken' = taken
             \/ /\ how # "FAILED"
                /\ taken' = [taken EXCEPT ![sym[a]] = [at |-> now, how |-> how]]
      BY <3>1, <2>t, <2>a, ConstantFacts DEF AnswerWith, Goto, claims
    <3>3. \A u \in Symbols : ~Unrecorded(u)
      BY <3>2, <1>d DEF Unrecorded
    <3>4. CASE how = "FAILED"
      <4>1. \A u \in Symbols : Cooled(u) => Cooled(u)'
        BY <3>2, <3>4 DEF Cooled
      <4> QED BY <2>i, <3>2, <3>3, <3>4, <4>1, <1>d DEF SpacingInv
    <3>5. CASE how # "FAILED"
      <4>1. /\ taken'[sym[a]].at = now /\ taken'[sym[a]].how = how
            /\ \A u \in Symbols : u # sym[a] => taken'[u] = taken[u]
        BY <3>2, <3>5, <2>t, <2>a
      <4>2. how = "PARTIAL" \/ Unrecorded(sym[a])'
        BY <3>2, <3>5, <2>a DEF Unrecorded, StartsCooldown, AllOutcomes
      <4>3. \A u \in Symbols : u # sym[a] /\ Cooled(u) => Cooled(u)'
        BY <3>2, <4>1 DEF Cooled
      <4> QED BY <2>i, <2>t, <3>2, <3>3, <4>1, <4>2, <4>3, <1>d DEF SpacingInv
    <3> QED BY <3>4, <3>5
  <2>4. ASSUME Finish(a) PROVE SpacingInv'
    <3>1. /\ pc[a] = "answered" /\ pc'[a] = "idle" /\ sym' = sym /\ taken' = taken
          /\ now' = now
          /\ last_execution_time' = IF StartsCooldown(answer[a])
                THEN [last_execution_time EXCEPT ![sym[a]] = now]
                ELSE last_execution_time
      BY <2>4, <2>t, <2>a DEF Finish, Leave, Goto, history
    <3>2. \A u \in Symbols : Unrecorded(u) => u = sym[a] /\ StartsCooldown(answer[a])
      BY <1>d DEF Unrecorded
    <3>3. \A u \in Symbols : Cooled(u) => Cooled(u)'
      BY <3>1 DEF Cooled
    <3>4. CASE StartsCooldown(answer[a])
      <4>1. \A u \in Symbols :
              last_execution_time'[u] = IF u = sym[a] THEN now ELSE last_execution_time[u]
        BY <3>1, <3>4, <2>t, <2>a
      <4>2. last_execution_time'[sym[a]] >= taken'[sym[a]].at
        BY <2>i, <2>a, <2>t, <3>1, <4>1
      <4>3. \A u \in Symbols : u # sym[a] =>
              ~Unrecorded(u) /\ last_execution_time'[u] = last_execution_time[u]
        BY <3>2, <4>1
      <4>4. \A u \in Symbols :
              /\ taken'[u].at <= now'
              /\ \/ taken'[u].how = "PARTIAL"
                 \/ last_execution_time'[u] >= taken'[u].at
                 \/ Cooled(u)'
        BY <2>i, <3>1, <3>3, <4>2, <4>3
      <4> QED BY <3>1, <4>4, <1>d DEF SpacingInv
    <3>5. CASE ~StartsCooldown(answer[a])
      BY <2>i, <3>1, <3>2, <3>3, <3>5, <1>d DEF SpacingInv
    <3> QED BY <3>4, <3>5
  <2>5. CASE World
    <3>1. /\ pc' = pc /\ sym' = sym /\ answer' = answer /\ taken' = taken
          /\ last_execution_time' = last_execution_time
      BY <2>5, WorldFrame DEF locals
    <3>2. now' \in Nat /\ now' >= now
      BY <2>5, <2>t DEF World, WatchdogPass, Sync, EmergencyStop, ResumeTrading, Tick,
                  PositionCloses, RestingEnds, Settle, ManualTrade
    <3>3. \A u \in Symbols : Cooled(u) => Cooled(u)'
      BY <3>1, <3>2, CooledStays
    <3>4. \A u \in Symbols : Unrecorded(u) => Unrecorded(u)'
      BY <3>1 DEF Unrecorded
    <3>5. \A u \in Symbols : taken'[u].at <= now'
      BY <2>i, <2>t, <3>1, <3>2
    <3> QED BY <2>i, <2>a, <3>1, <3>3, <3>4, <3>5, <1>d DEF SpacingInv
  <2>6. CASE UNCHANGED vars
    BY <2>6, StutterFrame DEF SpacingInv, Cooled, Unrecorded
  <2> QED BY <2>1, <2>2, <2>3, <2>4, <2>5, <2>6, <1>d DEF Next, Choose, Proceed, Bounded
<1> QED BY <1>1, <1>2, TypeCorrect, PTL DEF Spec

\* The single arbiter of the production wiring never sends an order within the
\* cooldown of one that the broker took or may have taken, whatever becomes of the
\* orders, the claims and the snapshot in between.
THEOREM ArbiterKeepsItsDistance ==
  ASSUME NEW a, Arbiters = {a}, Sweeps = {} PROVE Spec => OrderSpacing
<1>1. SpacingInv /\ [Next]_vars
        => [\A d \in Dispatchers : Sending(d) /\ taken[sym[d]].how # "PARTIAL"
              => now - taken[sym[d]].at >= Cooldown]_vars
  BY DEF SpacingInv, Cooled, Sending, Steps
<1>2. Spec => []SpacingInv
  BY SpacingInvariance
<1> QED BY <1>1, <1>2, PTL DEF Spec, OrderSpacing
-----------------------------------------------------------------------------
(* The ceiling of a symbol.                                                *)

\* A step that leaves the broker, the cache, the clock and the last orders alone
\* keeps what is known of them.
LEMMA BrokerSame ==
  ASSUME BrokerInv, UNCHANGED << now, broker, cache, taken, irregular >>
  PROVE  BrokerInv'
BY DEF BrokerInv, broker, cache

\* A dispatcher that looks at a symbol out of its cooldown finds no order of it in
\* doubt and a cache that was filled after the last one had landed, if by a read that
\* did not fail.
LEMMA FreshSight ==
  ASSUME TypeOK, BrokerInv, ~irregular, SyncWithin + SettleWithin < Cooldown,
         NEW s \in Symbols, Cooled(s)
  PROVE  unresolved[s] = 0 /\ (~misread => positions[s] <= snapshot[s])
<1>1. /\ SyncWithin \in Nat /\ SettleWithin \in Nat /\ Cooldown \in Nat
      /\ taken[s].at \in Int /\ now \in Nat /\ synced_at \in Nat /\ unresolved[s] \in Nat
  BY DispatchAssumption DEF DispatchAssumption, TypeOK
<1>2. now - taken[s].at >= Cooldown
  BY DEF BrokerInv, Cooled
<1>3. unresolved[s] = 0
  BY <1>1, <1>2 DEF BrokerInv
<1>4. synced_at > taken[s].at + SettleWithin
  BY <1>1, <1>2 DEF BrokerInv
<1> QED BY <1>3, <1>4 DEF BrokerInv

LEMMA CeilingStep ==
  ASSUME NEW a, Arbiters = {a}, Sweeps = {}, SyncWithin + SettleWithin < Cooldown,
         TypeOK, SpacingInv, CeilingInv, [Next]_vars
  PROVE  CeilingInv'
<1>d. Dispatchers = {a} /\ a \in Dispatchers
  BY DEF Dispatchers
<1>t. /\ pc \in [Dispatchers -> Steps] /\ sym \in [Dispatchers -> Symbols]
      /\ seen \in [Dispatchers -> [Symbols -> Nat]]
      /\ positions \in [Symbols -> Nat] /\ resting \in [Symbols -> Nat]
      /\ unresolved \in [Symbols -> Nat] /\ snapshot \in [Symbols -> Nat]
      /\ now \in Nat /\ synced_at \in Nat /\ irregular \in BOOLEAN
      /\ blind \subseteq Dispatchers
      /\ taken \in [Symbols -> [at: Int, how: AllOutcomes]]
      /\ SyncWithin \in Nat /\ SettleWithin \in Nat /\ HardMax \in Nat
      /\ Cooldown \in Nat
  BY DispatchAssumption DEF DispatchAssumption, TypeOK
<1>a. sym[a] \in Symbols
  BY <1>d, <1>t
<1>i. BrokerInv /\ SeenInv
  BY DEF CeilingInv
<1>p. ~irregular /\ a \notin blind =>
        /\ pc[a] \in Steps \ {"idle", "answered"} =>
             positions[sym[a]] <= seen[a][sym[a]] /\ unresolved[sym[a]] = 0
        /\ pc[a] \in Steps \ {"idle", "screened", "answered"} => RoomFor(seen[a][sym[a]])
  BY <1>d, <1>i DEF SeenInv
<1>1. ASSUME NEW s \in Symbols, Screen(a, s) PROVE CeilingInv'
  <2>1. /\ pc[a] = "idle" /\ pc' = [pc EXCEPT ![a] = "screened"]
        /\ sym' = [sym EXCEPT ![a] = s] /\ seen' = [seen EXCEPT ![a] = snapshot]
        /\ now - last_execution_time[s] >= Cooldown
        /\ misread => a \in blind'
        /\ UNCHANGED << now, broker, cache, taken, irregular >>
    BY <1>1, <1>d DEF Screen, Goto, SinceLast, history
  <2>2. ~Unrecorded(s)
    BY <2>1, <1>d DEF Unrecorded
  <2>3. Cooled(s)
    <3>1. \/ taken[s].how = "PARTIAL"
          \/ last_execution_time[s] >= taken[s].at
          \/ Cooled(s)
      BY <2>2 DEF SpacingInv
    <3>2. last_execution_time[s] \in Int /\ taken[s].at \in Int
      BY <1>t DEF TypeOK
    <3> QED BY <2>1, <3>1, <3>2, <1>t DEF Cooled
  <2>4. ~irregular => unresolved[s] = 0 /\ (~misread => positions[s] <= snapshot[s])
    BY <2>3, <1>i, FreshSight
  <2>5. pc'[a] = "screened" /\ sym'[a] = s /\ seen'[a] = snapshot
    BY <2>1, <1>d, <1>t
  <2>6. SeenInv'
    BY <2>1, <2>4, <2>5, <1>d DEF SeenInv, broker, cache
  <2> QED BY <2>1, <2>6, <1>i, BrokerSame DEF CeilingInv
<1>2. ASSUME Vet(a) PROVE CeilingInv'
  <2>1. /\ pc[a] = "screened" /\ RoomFor(seen[a][sym[a]])
        /\ UNCHANGED << now, broker, cache, taken, irregular, sym, seen, blind >>
    BY <1>2 DEF Vet, Goto, history, locals
  <2>2. SeenInv'
    BY <2>1, <1>p, <1>d DEF SeenInv, broker, Steps, RoomFor
  <2> QED BY <2>1, <2>2, <1>i, BrokerSame DEF CeilingInv
<1>3. ASSUME StopAndReverse(a) PROVE CeilingInv'
  <2> DEFINE s == sym[a]
  <2>1. /\ pc[a] = "screened" /\ sym' = sym
        /\ positions' = [positions EXCEPT ![s] = @ - 1] /\ positions[s] > 0
        /\ \/ /\ RoomFor(seen[a][s] - 1) /\ seen' = [seen EXCEPT ![a][s] = @ - 1]
              /\ blind' = blind
           \/ pc'[a] = "idle"
        /\ seen[a][s] > 0
        /\ UNCHANGED << now, resting, unresolved, cache, taken, irregular >>
    BY <1>3, <1>d, <1>t DEF StopAndReverse, Goto, Leave, history
  <2>2. \A u \in Symbols : positions'[u] <= positions[u]
    BY <2>1, <1>t, <1>a
  <2>3. positions'[s] = positions[s] - 1
    BY <2>1, <1>t, <1>a
  <2>4. pc'[a] # "idle" => /\ RoomFor(seen[a][s] - 1) /\ seen'[a][s] = seen[a][s] - 1
                           /\ blind' = blind
    BY <2>1, <1>t, <1>a, <1>d
  <2>6. BrokerInv'
    BY <2>1, <2>2, <1>i, <1>t, <1>a DEF BrokerInv, cache
  <2>7. SeenInv'
    BY <2>1, <2>3, <2>4, <1>p, <1>d, <1>t, <1>a DEF SeenInv, Steps, RoomFor
  <2> QED BY <2>6, <2>7 DEF CeilingInv
<1>4. ASSUME Withhold(a) \/ LoseClaim(a) \/ Finish(a) PROVE CeilingInv'
  <2>1. pc'[a] = "idle" /\ UNCHANGED << now, broker, cache, taken, irregular >>
    BY <1>4, <1>d, <1>t DEF Withhold, LoseClaim, Finish, Leave, Goto, history
  <2>2. SeenInv'
    BY <2>1, <1>d DEF SeenInv
  <2> QED BY <2>1, <2>2, <1>i, BrokerSame DEF CeilingInv
<1>5. ASSUME Authorize(a) \/ ReserveRisk(a) \/ Claim(a) \/ Send(a) PROVE CeilingInv'
  <2>1. /\ pc[a] \in {"vetted", "authorized", "reserved", "claimed"}
        /\ UNCHANGED << now, broker, cache, taken, irregular, sym, seen, blind >>
    BY <1>5 DEF Authorize, ReserveRisk, Claim, Send, Goto, history, locals
  <2>2. SeenInv'
    BY <2>1, <1>p, <1>d DEF SeenInv, broker, Steps
  <2> QED BY <2>1, <2>2, <1>i, BrokerSame DEF CeilingInv
<1>6. ASSUME Answer(a) PROVE CeilingInv'
  <2> DEFINE s == sym[a]
  <2>1. PICK how \in Outcomes : AnswerWith(a, how)
    BY <1>6 DEF Answer
  <2>2. /\ pc[a] = "sent" /\ pc'[a] = "answered" /\ UNCHANGED << now, cache >>
        /\ irregular' = (irregular \/ how \in {"PLACED", "PARTIAL"})
        /\ how \in AllOutcomes
    BY <2>1, <1>d, <1>t, ConstantFacts DEF AnswerWith, Goto
  <2>3. SeenInv'
    BY <2>2, <1>d DEF SeenInv
  <2>4. CASE how = "FAILED"
    <3>1. UNCHANGED << now, broker, cache, taken, irregular >>
      BY <2>1, <2>4, <1>t DEF AnswerWith, broker
    <3> QED BY <3>1, <2>3, <1>i, BrokerSame DEF CeilingInv
  <2>5. CASE how # "FAILED"
    <3>1. taken' = [taken EXCEPT ![s] = [at |-> now, how |-> how]]
      BY <2>1, <2>5 DEF AnswerWith
    <3>2. /\ taken'[s].at = now /\ taken'[s].how = how
          /\ \A u \in Symbols \ {s} : taken'[u] = taken[u]
      BY <3>1, <1>t, <1>a
    <3>3. \A u \in Symbols \ {s} : /\ positions'[u] = positions[u]
                                   /\ unresolved'[u] = unresolved[u]
                                   /\ resting'[u] = resting[u]
      BY <2>1, <1>t, <1>a DEF AnswerWith
    <3>4. ~irregular' => resting'[s] = resting[s] /\ how # "PARTIAL"
      BY <2>1, <2>2, <2>5 DEF AnswerWith
    <3>7. synced_at' = synced_at /\ snapshot' = snapshot /\ now' = now
          /\ misread' = misread
      BY <2>2 DEF cache
    <3>8. ASSUME NEW u \in Symbols, unresolved'[u] > 0
          PROVE  now' - taken'[u].at <= SettleWithin
      <4>1. CASE u = s
        BY <4>1, <3>2, <3>7, <1>t
      <4>2. CASE u # s
        BY <4>2, <3>8, <3>2, <3>3, <3>7, <1>i DEF BrokerInv
      <4> QED BY <4>1, <4>2
    <3>9. ASSUME ~irregular', NEW u \in Symbols
          PROVE  /\ resting'[u] = 0 /\ taken'[u].how # "PARTIAL"
                 /\ synced_at' > taken'[u].at + SettleWithin /\ ~misread'
                      => positions'[u] <= snapshot'[u]
      <4>0. ~irregular
        BY <3>9, <2>2
      <4>1. CASE u = s
        <5>1. ~(synced_at' > taken'[u].at + SettleWithin)
          BY <4>1, <3>2, <3>7, <1>i, <1>t DEF BrokerInv
        <5> QED BY <5>1, <4>0, <4>1, <3>2, <3>4, <3>9, <1>i, <1>a DEF BrokerInv
      <4>2. CASE u # s
        BY <4>0, <4>2, <3>2, <3>3, <3>7, <1>i DEF BrokerInv
      <4> QED BY <4>1, <4>2
    <3>10. BrokerInv'
      BY <3>7, <3>8, <3>9, <1>i DEF BrokerInv
    <3> QED BY <2>3, <3>10 DEF CeilingInv
  <2> QED BY <2>4, <2>5
<1>7. CASE World
  <2>1. pc' = pc /\ sym' = sym /\ seen' = seen /\ blind' = blind /\ taken' = taken
    BY <1>7, WorldFrame DEF locals
  <2>2. ASSUME ~irregular' => ~irregular, \A u \in Symbols : unresolved'[u] <= unresolved[u],
               ~irregular => \A u \in Symbols : unresolved[u] = 0 => positions'[u] <= positions[u],
               unresolved' \in [Symbols -> Nat], positions' \in [Symbols -> Nat]
        PROVE  SeenInv'
    BY <2>1, <2>2, <1>p, <1>d, <1>t, <1>a DEF SeenInv
  <2>3. CASE WatchdogPass \/ ResumeTrading
    <3>1. UNCHANGED << now, broker, cache, taken, irregular >>
      BY <2>3 DEF WatchdogPass, ResumeTrading, history
    <3>2. SeenInv'
      BY <3>1, <2>1, <1>i DEF SeenInv, broker
    <3> QED BY <3>1, <3>2, <1>i, BrokerSame DEF CeilingInv
  <2>4. CASE EmergencyStop
    <3>1. /\ UNCHANGED << now, positions, unresolved, snapshot, synced_at, misread,
                       irregular >>
          /\ \A u \in Symbols : resting'[u] = 0
      BY <2>4 DEF EmergencyStop, Nothing, cache, history
    <3>2. BrokerInv'
      BY <3>1, <2>1, <1>i DEF BrokerInv
    <3>3. SeenInv'
      BY <3>1, <2>1, <1>i DEF SeenInv
    <3> QED BY <3>2, <3>3 DEF CeilingInv
  <2>5. CASE Sync
    <3>1. /\ UNCHANGED << now, positions, unresolved, resting, irregular >>
          /\ snapshot' = positions \/ misread'
          /\ synced_at' = now
      BY <2>5 DEF Sync, broker, history
    <3>2. BrokerInv'
      BY <3>1, <2>1, <1>i, <1>t DEF BrokerInv
    <3>3. SeenInv'
      BY <3>1, <2>1, <1>i DEF SeenInv
    <3> QED BY <3>2, <3>3 DEF CeilingInv
  <2>6. CASE Tick
    <3>1. /\ UNCHANGED << positions, unresolved, resting, snapshot, synced_at, misread,
                          irregular >>
          /\ now' = now + 1 /\ now - synced_at < SyncWithin
          /\ \A u \in Symbols : unresolved[u] > 0 => now - taken[u].at < SettleWithin
      BY <2>6 DEF Tick, broker, cache, history
    <3>2. BrokerInv'
      BY <3>1, <2>1, <1>i, <1>t DEF BrokerInv
    <3>3. SeenInv'
      BY <3>1, <2>1, <1>i DEF SeenInv
    <3> QED BY <3>2, <3>3 DEF CeilingInv
  <2>7. ASSUME NEW s \in Symbols, PositionCloses(s) PROVE CeilingInv'
    <3>1. /\ UNCHANGED << now, unresolved, resting, snapshot, synced_at, misread,
                          irregular >>
          /\ positions' \in [Symbols -> Nat]
          /\ \A u \in Symbols : positions'[u] <= positions[u]
      BY <2>7, <1>t DEF PositionCloses, cache, history
    <3>2. BrokerInv'
      BY <3>1, <2>1, <1>i, <1>t DEF BrokerInv
    <3>3. SeenInv'
      BY <3>1, <2>2, <1>t
    <3> QED BY <3>2, <3>3 DEF CeilingInv
  <2>8. ASSUME NEW s \in Symbols, RestingEnds(s) PROVE CeilingInv'
    <3>1. /\ UNCHANGED << now, unresolved, snapshot, synced_at, misread, irregular >>
          /\ resting[s] > 0
      BY <2>8 DEF RestingEnds, cache, history
    <3>2. irregular
      BY <3>1, <1>i DEF BrokerInv
    <3> QED BY <3>1, <3>2, <2>1, <1>i DEF CeilingInv, BrokerInv, SeenInv
  <2>9. ASSUME NEW s \in Symbols, Settle(s) PROVE CeilingInv'
    <3>1. /\ UNCHANGED << now, resting, snapshot, synced_at, misread, irregular >>
          /\ unresolved[s] > 0 /\ unresolved' = [unresolved EXCEPT ![s] = @ - 1]
          /\ \/ positions' = [positions EXCEPT ![s] = @ + 1]
             \/ UNCHANGED positions
      BY <2>9 DEF Settle, cache, history
    <3>2. /\ unresolved' \in [Symbols -> Nat] /\ positions' \in [Symbols -> Nat]
          /\ unresolved'[s] = unresolved[s] - 1 /\ positions'[s] <= positions[s] + 1
          /\ \A u \in Symbols \ {s} : /\ unresolved'[u] = unresolved[u]
                                       /\ positions'[u] = positions[u]
      BY <3>1, <1>t
    <3>4. ~(synced_at > taken[s].at + SettleWithin)
      <4>1. now - taken[s].at <= SettleWithin /\ synced_at <= now /\ taken[s].at \in Int
        BY <3>1, <1>i, <1>t DEF BrokerInv
      <4> QED BY <4>1, <1>t
    <3>5. BrokerInv'
      <4>1. ASSUME NEW u \in Symbols, unresolved'[u] > 0
            PROVE  now' - taken'[u].at <= SettleWithin
        BY <4>1, <3>1, <3>2, <2>1, <1>i, <1>t DEF BrokerInv
      <4>2. ASSUME ~irregular', NEW u \in Symbols
            PROVE  /\ resting'[u] = 0 /\ taken'[u].how # "PARTIAL"
                   /\ synced_at' > taken'[u].at + SettleWithin /\ ~misread'
                        => positions'[u] <= snapshot'[u]
        BY <4>2, <3>1, <3>2, <3>4, <2>1, <1>i DEF BrokerInv
      <4> QED BY <4>1, <4>2, <3>1, <1>i DEF BrokerInv
    <3>6. /\ \A u \in Symbols : unresolved'[u] <= unresolved[u]
          /\ \A u \in Symbols : unresolved[u] = 0 => positions'[u] <= positions[u]
      <4>1. \A u \in Symbols : unresolved[u] \in Nat /\ positions[u] \in Nat
        BY <1>t
      <4> QED BY <3>1, <3>2, <4>1
    <3>7. SeenInv'
      BY <3>1, <3>2, <3>6, <2>2
    <3> QED BY <3>5, <3>7 DEF CeilingInv
  <2>10. ASSUME NEW s \in Symbols, ManualTrade(s) PROVE CeilingInv'
    <3>1. UNCHANGED << now, unresolved, snapshot, synced_at, misread >> /\ irregular'
      BY <2>10 DEF ManualTrade, cache
    <3> QED BY <3>1, <2>1, <1>i DEF CeilingInv, BrokerInv, SeenInv
  <2> QED BY <1>7, <2>3, <2>4, <2>5, <2>6, <2>7, <2>8, <2>9, <2>10 DEF World
<1>8. CASE UNCHANGED vars
  <2>1. UNCHANGED << now, broker, cache, taken, irregular, pc, sym, seen, blind >>
    BY <1>8 DEF vars, locals, history
  <2>2. SeenInv'
    BY <2>1, <1>i DEF SeenInv, broker
  <2> QED BY <2>1, <2>2, <1>i, BrokerSame DEF CeilingInv
<1> QED BY <1>1, <1>2, <1>3, <1>4, <1>5, <1>6, <1>7, <1>8, <1>d DEF Next, Choose, Proceed, Bounded

\* Only the answer to an order adds to what a symbol has, and only to a dispatcher
\* that was blind may it be more than the ceiling.
LEMMA ExposureStep ==
  ASSUME NEW a, Arbiters = {a}, Sweeps = {}, TypeOK, CeilingInv, [Next]_vars,
         NEW s \in Symbols, Exposure(s)' > Exposure(s), ~irregular'
  PROVE  \/ Exposure(s)' <= HardMax
         \/ \E d \in blind : sym[d] = s /\ pc[d] = "sent" /\ pc'[d] = "answered"
<1>d. Dispatchers = {a} /\ a \in Dispatchers
  BY DEF Dispatchers
<1>t. /\ pc \in [Dispatchers -> Steps] /\ sym[a] \in Symbols
      /\ seen[a] \in [Symbols -> Nat]
      /\ positions \in [Symbols -> Nat] /\ resting \in [Symbols -> Nat]
      /\ unresolved \in [Symbols -> Nat] /\ HardMax \in Nat
  BY <1>d, DispatchAssumption DEF DispatchAssumption, TypeOK
<1>x. /\ positions[s] \in Nat /\ unresolved[s] \in Nat
      /\ positions'[s] + unresolved'[s] > positions[s] + unresolved[s]
  BY <1>t DEF Exposure
<1>1. CASE \E u \in Symbols : ManualTrade(u)
  BY <1>1 DEF ManualTrade
<1>2. CASE UNCHANGED << positions, unresolved >>
  BY <1>2, <1>t DEF Exposure
<1>3. ASSUME NEW u \in Symbols, RestingEnds(u) PROVE FALSE
  BY <1>3, <1>t DEF RestingEnds, history, CeilingInv, BrokerInv
<1>4. ASSUME NEW u \in Symbols, Settle(u) PROVE FALSE
  <2>1. /\ unresolved[u] > 0 /\ unresolved' = [unresolved EXCEPT ![u] = @ - 1]
        /\ \/ positions' = [positions EXCEPT ![u] = @ + 1]
           \/ UNCHANGED positions
    BY <1>4 DEF Settle
  <2>2. CASE u = s
    <3>1. unresolved'[s] = unresolved[s] - 1
      BY <2>1, <2>2, <1>t
    <3>2. positions'[s] = positions[s] + 1 \/ positions'[s] = positions[s]
      BY <2>1, <2>2, <1>t
    <3> QED BY <3>1, <3>2, <1>x DEF Exposure
  <2>3. CASE u # s
    BY <2>1, <2>3, <1>t, <1>x DEF Exposure
  <2> QED BY <2>2, <2>3
<1>5. ASSUME NEW u \in Symbols,
             positions[u] > 0, positions' = [positions EXCEPT ![u] = @ - 1],
             unresolved' = unresolved
      PROVE  FALSE
  <2>1. positions'[s] = positions[s] \/ positions'[s] = positions[s] - 1
    BY <1>5, <1>t
  <2> QED BY <2>1, <1>5, <1>x DEF Exposure
<1>6. CASE Answer(a)
  <2>1. PICK how \in Outcomes : AnswerWith(a, how)
    BY <1>6 DEF Answer
  <2>2. /\ pc[a] = "sent" /\ pc'[a] = "answered"
        /\ irregular' = (irregular \/ how \in {"PLACED", "PARTIAL"})
    BY <2>1, <1>d, <1>t DEF AnswerWith, Goto
  <2>3. /\ positions' = IF how \in {"FILLED", "PARTIAL"}
                        THEN [positions EXCEPT ![sym[a]] = @ + 1] ELSE positions
        /\ unresolved' = IF how = "UNKNOWN"
                         THEN [unresolved EXCEPT ![sym[a]] = @ + 1] ELSE unresolved
    BY <2>1 DEF AnswerWith
  <2>4. sym[a] = s /\ Exposure(s)' <= Exposure(s) + 1
    <3>1. CASE sym[a] # s
      BY <3>1, <2>3, <1>t DEF Exposure
    <3>2. CASE sym[a] = s
      <4>1. /\ positions'[s] = IF how \in {"FILLED", "PARTIAL"}
                               THEN positions[s] + 1 ELSE positions[s]
            /\ unresolved'[s] = IF how = "UNKNOWN"
                                THEN unresolved[s] + 1 ELSE unresolved[s]
        BY <3>2, <2>3, <1>t
      <4> QED BY <3>2, <4>1, <1>t DEF Exposure
    <3> QED BY <3>1, <3>2
  <2>5. CASE a \in blind
    BY <2>2, <2>4, <2>5
  <2>6. CASE a \notin blind
    <3>1. positions[s] <= seen[a][s] /\ unresolved[s] = 0 /\ RoomFor(seen[a][s])
      BY <2>2, <2>4, <2>6, <1>d DEF CeilingInv, SeenInv, Steps
    <3>2. seen[a][s] \in Nat
      BY <1>t
    <3>3. Exposure(s) < HardMax /\ Exposure(s) \in Nat
      BY <3>1, <3>2, <1>t, <1>x DEF RoomFor, Exposure
    <3>4. Exposure(s)' \in Int \/ Exposure(s)' <= HardMax
      BY <2>4, <2>3, <1>t, <1>x DEF Exposure
    <3> QED BY <2>4, <3>3, <3>4, <1>t
  <2> QED BY <2>5, <2>6
<1>7. CASE StopAndReverse(a)
  BY <1>5, <1>7, <1>t DEF StopAndReverse
<1>8. ASSUME NEW u \in Symbols, PositionCloses(u) PROVE FALSE
  BY <1>5, <1>8, <1>t DEF PositionCloses
<1>9. CASE \/ \E u \in Symbols : Screen(a, u)
           \/ Vet(a) \/ Withhold(a) \/ Authorize(a) \/ ReserveRisk(a)
           \/ Claim(a) \/ LoseClaim(a) \/ Send(a) \/ Finish(a)
           \/ WatchdogPass \/ Sync \/ EmergencyStop \/ ResumeTrading \/ Tick
           \/ UNCHANGED vars
  <2>1. UNCHANGED << positions, unresolved >>
    BY <1>9 DEF Screen, Vet, Withhold, Authorize, ReserveRisk, Claim, LoseClaim, Send,
         Finish, WatchdogPass, Sync, EmergencyStop, ResumeTrading, Tick, vars, broker
  <2> QED BY <2>1, <1>2
<1> QED BY <1>1, <1>3, <1>4, <1>6, <1>7, <1>8, <1>9, <1>d
        DEF Next, Choose, Proceed, Bounded, World

\* "Never exceeded under any circumstances": with the one arbiter of the production
\* wiring, and as long as every order is a market order of it, no step brings a
\* symbol's positions and orders in doubt above HardMax but an order decided on a
\* failed read, provided the cooldown is longer than the age of the cache and the
\* time an order stays in doubt together.
THEOREM SymbolCeilingHolds ==
  ASSUME NEW a, Arbiters = {a}, Sweeps = {}, SyncWithin + SettleWithin < Cooldown
  PROVE  Spec => SymbolCeiling
<1>1. Init => CeilingInv
  <2> SUFFICES ASSUME Init PROVE CeilingInv
    OBVIOUS
  <2>1. /\ now = 0 /\ synced_at = 0 /\ \A d \in Dispatchers : pc[d] = "idle"
        /\ \A s \in Symbols : /\ positions[s] = 0 /\ resting[s] = 0 /\ unresolved[s] = 0
                            /\ snapshot[s] = 0 /\ taken[s].how = "FAILED"
    BY DEF Init, Nothing
  <2>2. SyncWithin \in Nat /\ HardMax \in Nat
    BY DispatchAssumption DEF DispatchAssumption
  <2> QED BY <2>1, <2>2 DEF CeilingInv, BrokerInv, SeenInv
<1>2. TypeOK /\ SpacingInv /\ CeilingInv /\ [Next]_vars => CeilingInv'
  BY CeilingStep
<1>3. TypeOK /\ CeilingInv /\ [Next]_vars
        => [ \A s \in Symbols : Exposure(s)' > Exposure(s) /\ ~irregular'
               => \/ Exposure(s)' <= HardMax
                  \/ \E d \in blind :
                       sym[d] = s /\ pc[d] = "sent" /\ pc'[d] = "answered" ]_vars
  BY ExposureStep
<1>4. Spec => []SpacingInv
  BY SpacingInvariance
<1> QED BY <1>1, <1>2, <1>3, <1>4, TypeCorrect, PTL DEF Spec, SymbolCeiling
=============================================================================
