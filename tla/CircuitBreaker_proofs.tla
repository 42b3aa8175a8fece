------------------------ MODULE CircuitBreaker_proofs ------------------------
(***************************************************************************)
(* Theorems about CircuitBreaker, for any sets of threads, any limits and  *)
(* any interleaving.                                                       *)
(*                                                                         *)
(* The two halting properties speak of states with no call in flight.  In  *)
(* between, a state may show a full streak and no trip, but then some      *)
(* thread is in the middle of a method that will either trip the breaker   *)
(* or clear the streak: it "owes" the repair.  The inductive invariants    *)
(* add that thread.                                                        *)
(***************************************************************************)
EXTENDS CircuitBreaker, FiniteSetTheorems, TLAPS

OwesVelocity(t) == pc[t] \in {"trip", "cleared"}

VelocityInv ==
  Cardinality(Recent(loss_timestamps, now)) >= VelocityThreshold
    => is_tripped \/ \E t \in Threads : OwesVelocity(t)

OwesStreak(t) == pc[t] \in {"loss", "trip", "cleared"}

StreakInv ==
  (restarts = 0 \/ ~overlapped) /\ consecutive_losses >= LossLimit
    => is_tripped \/ \E t \in Threads : OwesStreak(t)

-----------------------------------------------------------------------------
\* Appending to the bounded deque of timestamps keeps it a bounded sequence.
LEMMA RememberType ==
  ASSUME NEW q \in Seq(Nat), NEW t \in Nat, Len(q) <= LossMemory
  PROVE  Remember(q, t) \in Seq(Nat) /\ Len(Remember(q, t)) <= LossMemory
<1>1. Append(q, t) \in Seq(Nat) /\ Len(Append(q, t)) = Len(q) + 1
  OBVIOUS
<1>2. CASE Len(Append(q, t)) > LossMemory
  <2>1. /\ Tail(Append(q, t)) \in Seq(Nat)
        /\ Len(Tail(Append(q, t))) = Len(q)
    BY <1>1
  <2> QED BY <1>2, <2>1 DEF Remember
<1>3. CASE ~(Len(Append(q, t)) > LossMemory)
  BY <1>1, <1>3, LimitsAssumption DEF LimitsAssumption, Remember
<1> QED BY <1>2, <1>3

\* The losses inside the window are finitely many.
LEMMA RecentFinite ==
  ASSUME NEW q \in Seq(Nat), NEW t \in Nat
  PROVE  IsFiniteSet(Recent(q, t))
<1>1. DOMAIN q = 1 .. Len(q) /\ Len(q) \in Nat
  OBVIOUS
<1>2. IsFiniteSet(DOMAIN q)
  BY <1>1, FS_Interval
<1>3. Recent(q, t) \subseteq DOMAIN q
  BY DEF Recent
<1> QED BY <1>2, <1>3, FS_Subset

\* They only leave it as time goes.
LEMMA RecentShrinks ==
  ASSUME NEW q \in Seq(Nat), NEW t \in Nat
  PROVE  Cardinality(Recent(q, t + 1)) <= Cardinality(Recent(q, t))
<1>1. Recent(q, t + 1) \subseteq Recent(q, t)
  <2>1. SUFFICES ASSUME NEW i \in DOMAIN q, t + 1 - q[i] <= LossWindow
                 PROVE  t - q[i] <= LossWindow
    BY DEF Recent
  <2>2. q[i] \in Nat
    OBVIOUS
  <2> QED BY <2>1, <2>2, LimitsAssumption DEF LimitsAssumption
<1> QED BY <1>1, RecentFinite, FS_Subset

\* A cleared deque holds no cluster of losses.
LEMMA NothingRecent ==
  ASSUME NEW t \in Nat
  PROVE  ~(Cardinality(Recent(<< >>, t)) >= VelocityThreshold)
<1>1. Recent(<< >>, t) = {}
  BY DEF Recent
<1>2. Cardinality({}) = 0
  BY FS_EmptySet
<1>3. Cardinality(Recent(<< >>, t)) = 0
  BY <1>1, <1>2, Zenon
<1>4. VelocityThreshold \in Nat /\ VelocityThreshold # 0
  BY LimitsAssumption DEF LimitsAssumption
<1> QED BY <1>3, <1>4

-----------------------------------------------------------------------------
\* The variables keep their types, the deque its bound, in every behaviour.
THEOREM TypeCorrect == Spec => []TypeOK
<1> USE LimitsAssumption DEF LimitsAssumption
<1>0. FreshRow \in Row
  BY DEF FreshRow, Row
<1>1. Init => TypeOK
  <2>1. SUFFICES ASSUME Init PROVE TypeOK
    OBVIOUS
  <2>2. loss_timestamps \in Seq(Nat) /\ Len(loss_timestamps) <= LossMemory
    BY <2>1 DEF Init
  <2>3. target \in [Threads -> Symbols \X Regimes]
    BY <2>1 DEF Init
  <2> QED BY <2>1, <2>2, <2>3, <1>0 DEF Init, TypeOK, Steps, Methods
<1>2. TypeOK /\ [Next]_vars => TypeOK'
  <2>1. SUFFICES ASSUME TypeOK, [Next]_vars PROVE TypeOK'
    OBVIOUS
  <2> USE <2>1 DEF TypeOK
  <2>2. ASSUME NEW t \in Recorders, NEW s \in Symbols, NEW g \in Regimes,
               RecordWin(t, s, g)
        PROVE  TypeOK'
    BY <2>2 DEF RecordWin, Begin, Goto, Threads, Steps, Methods
  <2>3. ASSUME NEW t \in Recorders, NEW s \in Symbols, NEW g \in Regimes,
               RecordLoss(t, s, g)
        PROVE  TypeOK'
    <3>1. loss_timestamps' \in Seq(Nat) /\ Len(loss_timestamps') <= LossMemory
      BY <2>3, RememberType DEF RecordLoss
    <3> QED BY <2>3, <3>1 DEF RecordLoss, Begin, Goto, Threads, Steps, Methods
  <2>4. ASSUME NEW t \in Operators, EmergencyStop(t)
        PROVE  TypeOK'
    BY <2>4 DEF EmergencyStop, Begin, Goto, Threads, Steps, Methods, memory
  <2>5. ASSUME NEW t \in Operators, ResumeTrading(t)
        PROVE  TypeOK'
    BY <2>5 DEF ResumeTrading, Begin, Goto, Threads, Steps, Methods, memory
  <2>6. ASSUME NEW t \in Checkers, CheckStatus(t)
        PROVE  TypeOK'
    BY <2>6 DEF CheckStatus, Begin, Goto, Threads, Steps, Methods, memory
  <2>7. ASSUME NEW t \in Threads, CountLoss(t)
        PROVE  TypeOK'
    <3>1. target[t][1] \in Symbols /\ target[t][2] \in Regimes
      OBVIOUS
    <3>2. /\ symbol_losses' \in [Symbols -> Nat]
          /\ symbol_paused_until' \in [Symbols -> Nat]
      BY <2>7, <3>1 DEF CountLoss
    <3>3. regime_losses' \in [Regimes -> Nat]
      BY <2>7, <3>1 DEF CountLoss
    <3>4. regime_paused_until' \in [Regimes -> Nat]
      <4>1. now + RegimePause \in Nat
        OBVIOUS
      <4> QED BY <2>7, <3>1, <4>1 DEF CountLoss
    <3> QED BY <2>7, <3>2, <3>3, <3>4 DEF CountLoss, Goto, Steps, locals, history
  <2>8. ASSUME NEW t \in Threads, Trip(t)
        PROVE  TypeOK'
    BY <2>8 DEF Trip, Goto, Steps, locals, history
  <2>9. ASSUME NEW t \in Threads, TripLatch(t)
        PROVE  TypeOK'
    BY <2>9 DEF TripLatch, Goto, Steps, locals, history
  <2>10. ASSUME NEW t \in Threads, Reset(t)
         PROVE  TypeOK'
    BY <2>10 DEF Reset, Goto, Steps, locals, history
  <2>11. ASSUME NEW t \in Threads, ResetRest(t)
         PROVE  TypeOK'
    <3>1. loss_timestamps' \in Seq(Nat) /\ Len(loss_timestamps') <= LossMemory
      BY <2>11 DEF ResetRest
    <3> QED BY <2>11, <3>1 DEF ResetRest, Goto, Steps, locals, history
  <2>12. ASSUME NEW t \in Threads, Snapshot(t)
         PROVE  TypeOK'
    <3>1. CurrentRow \in Row
      BY DEF CurrentRow, Row
    <3> QED BY <2>12, <3>1 DEF Snapshot, Goto, Steps, locals, memory, history
  <2>13. ASSUME NEW t \in Threads, Store(t)
         PROVE  TypeOK'
    BY <2>13, <1>0 DEF Store, Goto, Steps, Methods, memory
  <2>13a. ASSUME NEW t \in Threads, StoreAndRepeat(t)
          PROVE  TypeOK'
    BY <2>13a, <1>0 DEF StoreAndRepeat, Goto, Steps, Methods, memory, history
  <2>14. ASSUME Tick
         PROVE  TypeOK'
    BY <2>14 DEF Tick, locals, memory, history
  <2>15. ASSUME Restart
         PROVE  TypeOK'
    <3>1. loss_timestamps' \in Seq(Nat) /\ Len(loss_timestamps') <= LossMemory
      BY <2>15 DEF Restart
    <3>2. /\ consecutive_losses' \in Nat /\ is_tripped' \in BOOLEAN
          /\ tripped_timestamp' \in Nat /\ operator_halt' \in BOOLEAN
          /\ symbol_paused_until' \in [Symbols -> Nat]
          /\ regime_paused_until' \in [Regimes -> Nat]
      BY <2>15 DEF Restart, Row
    <3> QED BY <2>15, <1>0, <3>1, <3>2 DEF Restart, Steps, Methods, history
  <2>16. ASSUME UNCHANGED vars
         PROVE  TypeOK'
    BY <2>16 DEF vars, memory, locals, history
  <2> QED BY <2>1, <2>2, <2>3, <2>4, <2>5, <2>6, <2>7, <2>8, <2>9, <2>10,
             <2>11, <2>12, <2>13, <2>13a, <2>14, <2>15, <2>16
          DEF Next, Alive, Calls, Body
<1> QED BY <1>1, <1>2, PTL DEF Spec
-----------------------------------------------------------------------------
\* However checks, resets, trips and restarts interleave, three losses inside
\* the window never stand with no call in flight and the breaker untripped.
THEOREM VelocityAlwaysHalts == Spec => []VelocityHalts
<1> USE LimitsAssumption DEF LimitsAssumption
<1>1. TypeOK /\ Init => VelocityInv
  BY NothingRecent DEF Init, TypeOK, VelocityInv
<1>2. TypeOK /\ VelocityInv /\ [Next]_vars => VelocityInv'
  <2>1. SUFFICES ASSUME TypeOK, VelocityInv, [Next]_vars PROVE VelocityInv'
    OBVIOUS
  <2> USE <2>1 DEF TypeOK, OwesVelocity, Steps
  \* A step that keeps clock, deque and flag keeps the invariant when the thread
  \* that moves owed nothing or still owes.
  <2>2. ASSUME now' = now, loss_timestamps' = loss_timestamps,
               is_tripped' = is_tripped,
               \A u \in Threads : OwesVelocity(u) => OwesVelocity(u)'
        PROVE  VelocityInv'
    BY <2>2 DEF VelocityInv
  <2>3. ASSUME NEW t \in Recorders, NEW s \in Symbols, NEW g \in Regimes,
               RecordWin(t, s, g)
        PROVE  VelocityInv'
    BY <2>2, <2>3 DEF RecordWin, Begin, Goto, Threads
  <2>4. ASSUME NEW t \in Recorders, NEW s \in Symbols, NEW g \in Regimes,
               RecordLoss(t, s, g)
        PROVE  VelocityInv'
    <3>1. CASE Clustered(loss_timestamps', now) /\ ~is_tripped
      <4>1. OwesVelocity(t)' /\ t \in Threads
        BY <2>4, <3>1 DEF RecordLoss, Begin, Goto, Threads
      <4> QED BY <4>1 DEF VelocityInv
    <3>2. CASE is_tripped
      BY <2>4, <3>2 DEF RecordLoss, VelocityInv
    <3>3. CASE ~Clustered(loss_timestamps', now)
      <4>1. now' = now
        BY <2>4 DEF RecordLoss
      <4> QED BY <3>3, <4>1 DEF Clustered, VelocityInv
    <3> QED BY <3>1, <3>2, <3>3
  <2>5. ASSUME NEW t \in Operators, EmergencyStop(t)
        PROVE  VelocityInv'
    BY <2>2, <2>5 DEF EmergencyStop, Begin, Goto, Threads, memory
  <2>6. ASSUME NEW t \in Operators, ResumeTrading(t)
        PROVE  VelocityInv'
    BY <2>2, <2>6 DEF ResumeTrading, Begin, Goto, Threads, memory
  <2>7. ASSUME NEW t \in Checkers, CheckStatus(t)
        PROVE  VelocityInv'
    BY <2>2, <2>7 DEF CheckStatus, Begin, Goto, Threads, memory
  <2>8. ASSUME NEW t \in Threads, CountLoss(t)
        PROVE  VelocityInv'
    BY <2>2, <2>8 DEF CountLoss, Goto
  <2>9. ASSUME NEW t \in Threads, Trip(t)
        PROVE  VelocityInv'
    BY <2>9 DEF Trip, VelocityInv
  <2>10. ASSUME NEW t \in Threads, TripLatch(t)
         PROVE  VelocityInv'
    BY <2>2, <2>10 DEF TripLatch, Goto
  <2>11. ASSUME NEW t \in Threads, Reset(t)
         PROVE  VelocityInv'
    <3>1. OwesVelocity(t)'
      BY <2>11 DEF Reset, Goto
    <3> QED BY <3>1 DEF VelocityInv
  <2>12. ASSUME NEW t \in Threads, ResetRest(t)
         PROVE  VelocityInv'
    <3>1. loss_timestamps' = << >> /\ now' \in Nat
      BY <2>12 DEF ResetRest
    <3> QED BY <3>1, NothingRecent DEF VelocityInv
  <2>13. ASSUME NEW t \in Threads, Snapshot(t)
         PROVE  VelocityInv'
    BY <2>2, <2>13 DEF Snapshot, Goto, memory
  <2>14. ASSUME NEW t \in Threads, Store(t)
         PROVE  VelocityInv'
    BY <2>2, <2>14 DEF Store, Goto, memory
  <2>14a. ASSUME NEW t \in Threads, StoreAndRepeat(t)
          PROVE  VelocityInv'
    BY <2>2, <2>14a DEF StoreAndRepeat, Goto, memory
  <2>15. ASSUME Tick
         PROVE  VelocityInv'
    <3>1. /\ now' = now + 1 /\ loss_timestamps' = loss_timestamps
          /\ is_tripped' = is_tripped /\ pc' = pc
      BY <2>15 DEF Tick, memory
    <3>2. CASE is_tripped \/ \E u \in Threads : OwesVelocity(u)
      BY <3>1, <3>2 DEF VelocityInv
    <3>3. CASE ~(Cardinality(Recent(loss_timestamps, now)) >= VelocityThreshold)
      <4>1. /\ Cardinality(Recent(loss_timestamps, now)) \in Nat
            /\ Cardinality(Recent(loss_timestamps, now + 1)) \in Nat
        BY RecentFinite, FS_CardinalityType
      <4>2. Cardinality(Recent(loss_timestamps, now + 1))
              <= Cardinality(Recent(loss_timestamps, now))
        BY RecentShrinks
      <4>3. ~(Cardinality(Recent(loss_timestamps, now + 1)) >= VelocityThreshold)
        BY <3>3, <4>1, <4>2
      <4> QED BY <3>1, <4>3 DEF VelocityInv
    <3> QED BY <3>2, <3>3 DEF VelocityInv
  <2>16. ASSUME Restart
         PROVE  VelocityInv'
    <3>1. loss_timestamps' = << >> /\ now' \in Nat
      BY <2>16 DEF Restart
    <3> QED BY <3>1, NothingRecent DEF VelocityInv
  <2>17. ASSUME UNCHANGED vars
         PROVE  VelocityInv'
    BY <2>2, <2>17 DEF vars, memory
  <2> QED BY <2>1, <2>3, <2>4, <2>5, <2>6, <2>7, <2>8, <2>9, <2>10, <2>11,
             <2>12, <2>13, <2>14, <2>14a, <2>15, <2>16, <2>17
          DEF Next, Alive, Calls, Body
<1>3. VelocityInv => VelocityHalts
  BY DEF VelocityInv, VelocityHalts, Quiescent, OwesVelocity
<1> QED BY TypeCorrect, <1>1, <1>2, <1>3, PTL DEF Spec

-----------------------------------------------------------------------------
(* Calls that do not overlap.  Two threads are then never inside methods at *)
(* the same time, so that a step sees the state its own call left.         *)

CallsInv ==
  /\ \A t \in Threads : pc[t] = "idle" => op[t] = "none"
  /\ \A t \in Threads :
       /\ pc[t] = "loss" => op[t] = "record"
       /\ pc[t] \in {"reset", "cleared"} => op[t] \in {"check", "resume", "resume_again"}
  /\ ~overlapped =>
       \A t, u \in Threads : pc[t] # "idle" /\ pc[u] # "idle" => t = u

RowInv ==
  ~overlapped =>
    /\ \A t \in Threads : pc[t] = "store" => row[t] = CurrentRow
    /\ Quiescent => circuit_state = CurrentRow

KillInv ==
  ~overlapped =>
    /\ stop_pressed =>
         /\ is_tripped /\ operator_halt
         /\ circuit_state.tripped /\ circuit_state.halt
         /\ \A t \in Threads : /\ op[t] \notin {"resume", "resume_again"}
                               /\ pc[t] \notin {"reset", "cleared"}
    /\ \A t \in Threads : pc[t] = "latch" => is_tripped
    /\ \A t \in Threads :
         op[t] = "stop_again" /\ latch[t] /\ pc[t] \in {"save", "store"}
           => is_tripped /\ operator_halt

\* What the table holds is a streak with its trip.
StoredStreakInv ==
  ~overlapped /\ circuit_state.losses >= LossLimit => circuit_state.tripped

ExpiryInv ==
  ~overlapped => \A t \in Threads : pc[t] = "reset" /\ op[t] = "check" => CoolingDone

-----------------------------------------------------------------------------
\* Methods and their steps go together; without overlaps one thread at most is
\* inside a method.
LEMMA CallsInvariant == Spec => []CallsInv
<1>1. Init => CallsInv
  BY DEF Init, CallsInv
<1>2. TypeOK /\ CallsInv /\ [Next]_vars => CallsInv'
  <2>1. SUFFICES ASSUME TypeOK, CallsInv, [Next]_vars PROVE CallsInv'
    OBVIOUS
  <2> USE <2>1 DEF TypeOK, CallsInv, Quiescent
  <2>2. ASSUME NEW t \in Recorders, NEW s \in Symbols, NEW g \in Regimes, RecordWin(t, s, g)
        PROVE  CallsInv'
    BY <2>2 DEF RecordWin, Begin, Goto, Threads
  <2>3. ASSUME NEW t \in Recorders, NEW s \in Symbols, NEW g \in Regimes, RecordLoss(t, s, g)
        PROVE  CallsInv'
    <3>1. PICK to \in {"trip", "loss"} : Begin(t, "record", to)
      BY <2>3 DEF RecordLoss
    <3>2. t \in Threads
      BY DEF Threads
    <3> QED BY <3>1, <3>2 DEF Begin, Goto
  <2>4. ASSUME NEW t \in Operators, EmergencyStop(t)
        PROVE  CallsInv'
    <3>1. Begin(t, "stop", "trip") /\ t \in Threads
      BY <2>4 DEF EmergencyStop, Threads
    <3> QED BY <3>1 DEF Begin, Goto
  <2>5. ASSUME NEW t \in Operators, ResumeTrading(t)
        PROVE  CallsInv'
    BY <2>5 DEF ResumeTrading, Begin, Goto, Threads, memory
  <2>6. ASSUME NEW t \in Checkers, CheckStatus(t)
        PROVE  CallsInv'
    BY <2>6 DEF CheckStatus, Begin, Goto, Threads, memory
  <2>7. ASSUME NEW t \in Threads, CountLoss(t)
        PROVE  CallsInv'
    BY <2>7 DEF CountLoss, Goto, locals, history
  <2>8. ASSUME NEW t \in Threads, Trip(t)
        PROVE  CallsInv'
    BY <2>8 DEF Trip, Goto, locals, history
  <2>9. ASSUME NEW t \in Threads, TripLatch(t)
        PROVE  CallsInv'
    BY <2>9 DEF TripLatch, Goto, locals, history
  <2>10. ASSUME NEW t \in Threads, Reset(t)
        PROVE  CallsInv'
    BY <2>10 DEF Reset, Goto, locals, history
  <2>11. ASSUME NEW t \in Threads, ResetRest(t)
        PROVE  CallsInv'
    BY <2>11 DEF ResetRest, Goto, locals, history
  <2>12. ASSUME NEW t \in Threads, Snapshot(t)
        PROVE  CallsInv'
    BY <2>12 DEF Snapshot, Goto, locals, memory, history
  <2>13. ASSUME NEW t \in Threads, Store(t)
        PROVE  CallsInv'
    BY <2>13 DEF Store, Goto, memory
  <2>14. ASSUME NEW t \in Threads, StoreAndRepeat(t)
        PROVE  CallsInv'
    BY <2>14 DEF StoreAndRepeat, Goto, memory, history
  <2>15. ASSUME Tick
        PROVE  CallsInv'
    BY <2>15 DEF Tick, memory, locals, history
  <2>16. ASSUME Restart
        PROVE  CallsInv'
    BY <2>16 DEF Restart, history
  <2>17. ASSUME UNCHANGED vars
        PROVE  CallsInv'
    BY <2>17 DEF vars, memory, locals, history
  <2> QED BY <2>1, <2>2, <2>3, <2>4, <2>5, <2>6, <2>7, <2>8, <2>9, <2>10, <2>11, <2>12, <2>13, <2>14, <2>15, <2>16, <2>17
          DEF Next, Alive, Calls, Body
<1> QED BY TypeCorrect, <1>1, <1>2, PTL DEF Spec

\* The row a call is about to store, and the table between calls, are what memory
\* holds.
LEMMA RowInvariant == Spec => []RowInv
<1>1. Init => RowInv
  BY DEF Init, RowInv, FreshRow, CurrentRow
<1>2. TypeOK /\ CallsInv /\ RowInv /\ [Next]_vars => RowInv'
  <2>1. SUFFICES ASSUME TypeOK, CallsInv, RowInv, [Next]_vars PROVE RowInv'
    OBVIOUS
  <2> USE <2>1 DEF TypeOK, CallsInv, RowInv, Quiescent, CurrentRow
  <2>2. ASSUME NEW t \in Recorders, NEW s \in Symbols, NEW g \in Regimes, RecordWin(t, s, g)
        PROVE  RowInv'
    BY <2>2 DEF RecordWin, Begin, Goto, Threads
  <2>3. ASSUME NEW t \in Recorders, NEW s \in Symbols, NEW g \in Regimes, RecordLoss(t, s, g)
        PROVE  RowInv'
    BY <2>3 DEF RecordLoss, Begin, Goto, Threads
  <2>4. ASSUME NEW t \in Operators, EmergencyStop(t)
        PROVE  RowInv'
    BY <2>4 DEF EmergencyStop, Begin, Goto, Threads, memory
  <2>5. ASSUME NEW t \in Operators, ResumeTrading(t)
        PROVE  RowInv'
    BY <2>5 DEF ResumeTrading, Begin, Goto, Threads, memory
  <2>6. ASSUME NEW t \in Checkers, CheckStatus(t)
        PROVE  RowInv'
    BY <2>6 DEF CheckStatus, Begin, Goto, Threads, memory
  <2>7. ASSUME NEW t \in Threads, CountLoss(t)
        PROVE  RowInv'
    BY <2>7 DEF CountLoss, Goto, locals, history
  <2>8. ASSUME NEW t \in Threads, Trip(t)
        PROVE  RowInv'
    BY <2>8 DEF Trip, Goto, locals, history
  <2>9. ASSUME NEW t \in Threads, TripLatch(t)
        PROVE  RowInv'
    BY <2>9 DEF TripLatch, Goto, locals, history
  <2>10. ASSUME NEW t \in Threads, Reset(t)
        PROVE  RowInv'
    BY <2>10 DEF Reset, Goto, locals, history
  <2>11. ASSUME NEW t \in Threads, ResetRest(t)
        PROVE  RowInv'
    BY <2>11 DEF ResetRest, Goto, locals, history
  <2>12. ASSUME NEW t \in Threads, Snapshot(t)
        PROVE  RowInv'
    BY <2>12 DEF Snapshot, Goto, locals, memory, history
  <2>13. ASSUME NEW t \in Threads, Store(t)
        PROVE  RowInv'
    BY <2>13 DEF Store, Goto, memory
  <2>14. ASSUME NEW t \in Threads, StoreAndRepeat(t)
        PROVE  RowInv'
    BY <2>14 DEF StoreAndRepeat, Goto, memory, history
  <2>15. ASSUME Tick
        PROVE  RowInv'
    BY <2>15 DEF Tick, memory, locals, history
  <2>16. ASSUME Restart
        PROVE  RowInv'
    <3>1. circuit_state = [losses |-> circuit_state.losses, tripped |-> circuit_state.tripped,
                           at |-> circuit_state.at, halt |-> circuit_state.halt,
                           symbol_paused |-> circuit_state.symbol_paused,
                           regime_paused |-> circuit_state.regime_paused]
      BY DEF Row
    <3> QED BY <2>16, <3>1 DEF Restart, history
  <2>17. ASSUME UNCHANGED vars
        PROVE  RowInv'
    BY <2>17 DEF vars, memory, locals, history
  <2> QED BY <2>1, <2>2, <2>3, <2>4, <2>5, <2>6, <2>7, <2>8, <2>9, <2>10, <2>11, <2>12, <2>13, <2>14, <2>15, <2>16, <2>17
          DEF Next, Alive, Calls, Body
<1> QED BY TypeCorrect, CallsInvariant, <1>1, <1>2, PTL DEF Spec

\* As long as no two calls have overlapped, a restart finds in the table what
\* memory held between calls.
THEOREM RowAlwaysCurrent == Spec => []RowCurrent
<1>1. RowInv => RowCurrent
  BY DEF RowInv, RowCurrent
<1> QED BY RowInvariant, <1>1, PTL

-----------------------------------------------------------------------------
\* As long as no two calls have overlapped, neither cooldowns nor restarts lift a
\* latched emergency stop.
THEOREM KillSwitchAlwaysHolds == Spec => []KillSwitchHolds
<1>1. Init => KillInv
  BY DEF Init, KillInv
<1>2. TypeOK /\ CallsInv /\ RowInv /\ KillInv /\ [Next]_vars => KillInv'
  <2>1. SUFFICES ASSUME TypeOK, CallsInv, RowInv, KillInv, [Next]_vars PROVE KillInv'
    OBVIOUS
  <2> USE <2>1 DEF TypeOK, CallsInv, KillInv, Quiescent
  <2>2. ASSUME NEW t \in Recorders, NEW s \in Symbols, NEW g \in Regimes, RecordWin(t, s, g)
        PROVE  KillInv'
    BY <2>2 DEF RecordWin, Begin, Goto, Threads
  <2>3. ASSUME NEW t \in Recorders, NEW s \in Symbols, NEW g \in Regimes, RecordLoss(t, s, g)
        PROVE  KillInv'
    BY <2>3 DEF RecordLoss, Begin, Goto, Threads
  <2>4. ASSUME NEW t \in Operators, EmergencyStop(t)
        PROVE  KillInv'
    BY <2>4 DEF EmergencyStop, Begin, Goto, Threads, memory
  <2>5. ASSUME NEW t \in Operators, ResumeTrading(t)
        PROVE  KillInv'
    BY <2>5 DEF ResumeTrading, Begin, Goto, Threads, memory
  <2>6. ASSUME NEW t \in Checkers, CheckStatus(t)
        PROVE  KillInv'
    <3>1. /\ ~operator_halt /\ t \in Threads
          /\ overlapped' => overlapped \/ ~Quiescent
          /\ stop_pressed' = stop_pressed /\ latch' = latch
          /\ circuit_state' = circuit_state
          /\ is_tripped' = is_tripped /\ operator_halt' = operator_halt
      BY <2>6 DEF CheckStatus, Begin, Threads, memory, MayExpire
    <3>2. /\ pc' = [pc EXCEPT ![t] = "reset"] /\ op' = [op EXCEPT ![t] = "check"]
          /\ ~overlapped' => ~overlapped
      BY <2>6 DEF CheckStatus, Begin, Goto
    <3>3. SUFFICES ASSUME ~overlapped' PROVE KillInv'
      BY DEF KillInv
    <3>4. ~stop_pressed'
      BY <3>1, <3>2, <3>3
    <3>5. \A u \in Threads : pc'[u] = "latch" => pc[u] = "latch"
      BY <3>2
    <3>6. \A u \in Threads : ~(op'[u] = "stop_again" /\ pc'[u] \in {"save", "store"})
      \/ (op[u] = "stop_again" /\ pc[u] \in {"save", "store"} /\ latch'[u] = latch[u])
      BY <3>1, <3>2
    <3>7. /\ \A u \in Threads : pc[u] = "latch" => is_tripped
          /\ \A u \in Threads :
               op[u] = "stop_again" /\ latch[u] /\ pc[u] \in {"save", "store"}
                 => is_tripped /\ operator_halt
      BY <3>2, <3>3
    <3>8. \A u \in Threads : pc'[u] = "latch" => is_tripped'
      BY <3>1, <3>5, <3>7
    <3>9. \A u \in Threads :
            op'[u] = "stop_again" /\ latch'[u] /\ pc'[u] \in {"save", "store"}
              => is_tripped' /\ operator_halt'
      BY <3>1, <3>6, <3>7
    <3> QED BY <3>4, <3>8, <3>9
  <2>7. ASSUME NEW t \in Threads, CountLoss(t)
        PROVE  KillInv'
    <3>1. pc[t] = "loss" /\ op[t] = "record" /\ op' = op /\ latch' = latch
      BY <2>7 DEF CountLoss, Goto, locals
    <3>2. PICK to \in {"trip", "save"} : pc' = [pc EXCEPT ![t] = to]
      BY <2>7 DEF CountLoss, Goto
    <3>3. UNCHANGED << is_tripped, operator_halt, circuit_state, stop_pressed, overlapped >>
      BY <2>7 DEF CountLoss, history
    <3> QED BY <3>1, <3>2, <3>3
  <2>8. ASSUME NEW t \in Threads, Trip(t)
        PROVE  KillInv'
    BY <2>8 DEF Trip, Goto, locals, history
  <2>9. ASSUME NEW t \in Threads, TripLatch(t)
        PROVE  KillInv'
    BY <2>9 DEF TripLatch, Goto, locals, history
  <2>10. ASSUME NEW t \in Threads, Reset(t)
        PROVE  KillInv'
    BY <2>10 DEF Reset, Goto, locals, history
  <2>11. ASSUME NEW t \in Threads, ResetRest(t)
        PROVE  KillInv'
    BY <2>11 DEF ResetRest, Goto, locals, history
  <2>12. ASSUME NEW t \in Threads, Snapshot(t)
        PROVE  KillInv'
    BY <2>12 DEF Snapshot, Goto, locals, memory, history
  <2>13. ASSUME NEW t \in Threads, Store(t)
        PROVE  KillInv'
    <3>1. SUFFICES ASSUME ~overlapped' PROVE KillInv'
      BY DEF KillInv
    <3>2. /\ row[t] = CurrentRow /\ ~overlapped
          /\ \A u \in Threads : u # t => pc[u] = "idle" /\ op[u] = "none"
      BY <2>13, <3>1 DEF Store, Goto, RowInv
    <3>3. /\ \A u \in Threads : pc'[u] = "idle" /\ op'[u] = "none"
          /\ is_tripped' = is_tripped /\ operator_halt' = operator_halt
      BY <2>13, <3>2 DEF Store, Goto, memory
    <3>4. circuit_state'.tripped = is_tripped /\ circuit_state'.halt = operator_halt
      BY <2>13, <3>2 DEF Store, CurrentRow
    <3>5. stop_pressed' => is_tripped /\ operator_halt
      BY <2>13, <3>2 DEF Store, Goto
    <3> QED BY <3>3, <3>4, <3>5
  <2>14. ASSUME NEW t \in Threads, StoreAndRepeat(t)
        PROVE  KillInv'
    BY <2>14 DEF StoreAndRepeat, Goto, memory, history, RowInv, CurrentRow
  <2>15. ASSUME Tick
        PROVE  KillInv'
    BY <2>15 DEF Tick, memory, locals, history
  <2>16. ASSUME Restart
        PROVE  KillInv'
    BY <2>16 DEF Restart, history
  <2>17. ASSUME UNCHANGED vars
        PROVE  KillInv'
    BY <2>17 DEF vars, memory, locals, history
  <2> QED BY <2>1, <2>2, <2>3, <2>4, <2>5, <2>6, <2>7, <2>8, <2>9, <2>10, <2>11, <2>12, <2>13, <2>14, <2>15, <2>16, <2>17
          DEF Next, Alive, Calls, Body
<1>3. KillInv => KillSwitchHolds
  BY DEF KillInv, KillSwitchHolds
<1> QED BY TypeCorrect, CallsInvariant, RowInvariant, <1>1, <1>2, <1>3, PTL DEF Spec

-----------------------------------------------------------------------------
\* As long as no two calls have overlapped, a trip is lifted without an operator
\* only after the cooldown its streak earned.
THEOREM CooldownAlwaysServed == Spec => CooldownServed
<1> USE LimitsAssumption DEF LimitsAssumption
<1>1. Init => ExpiryInv
  BY DEF Init, ExpiryInv
<1>2. TypeOK /\ CallsInv /\ ExpiryInv /\ [Next]_vars => ExpiryInv'
  <2>1. SUFFICES ASSUME TypeOK, CallsInv, ExpiryInv, [Next]_vars PROVE ExpiryInv'
    OBVIOUS
  <2> USE <2>1 DEF TypeOK, CallsInv, ExpiryInv, Quiescent
  <2>2. ASSUME NEW t \in Recorders, NEW s \in Symbols, NEW g \in Regimes, RecordWin(t, s, g)
        PROVE  ExpiryInv'
    BY <2>2 DEF RecordWin, Begin, Goto, Threads, CoolingDone, AdaptiveCooldown
  <2>3. ASSUME NEW t \in Recorders, NEW s \in Symbols, NEW g \in Regimes, RecordLoss(t, s, g)
        PROVE  ExpiryInv'
    BY <2>3 DEF RecordLoss, Begin, Goto, Threads, CoolingDone, AdaptiveCooldown
  <2>4. ASSUME NEW t \in Operators, EmergencyStop(t)
        PROVE  ExpiryInv'
    BY <2>4 DEF EmergencyStop, Begin, Goto, Threads, memory, CoolingDone, AdaptiveCooldown
  <2>5. ASSUME NEW t \in Operators, ResumeTrading(t)
        PROVE  ExpiryInv'
    BY <2>5 DEF ResumeTrading, Begin, Goto, Threads, memory, CoolingDone, AdaptiveCooldown
  <2>6. ASSUME NEW t \in Checkers, CheckStatus(t)
        PROVE  ExpiryInv'
    BY <2>6 DEF CheckStatus, Begin, Goto, Threads, memory, MayExpire, CoolingDone, AdaptiveCooldown
  <2>7. ASSUME NEW t \in Threads, CountLoss(t)
        PROVE  ExpiryInv'
    BY <2>7 DEF CountLoss, Goto, locals, history, CoolingDone, AdaptiveCooldown
  <2>8. ASSUME NEW t \in Threads, Trip(t)
        PROVE  ExpiryInv'
    BY <2>8 DEF Trip, Goto, locals, history, CoolingDone, AdaptiveCooldown
  <2>9. ASSUME NEW t \in Threads, TripLatch(t)
        PROVE  ExpiryInv'
    BY <2>9 DEF TripLatch, Goto, locals, history, CoolingDone, AdaptiveCooldown
  <2>10. ASSUME NEW t \in Threads, Reset(t)
        PROVE  ExpiryInv'
    BY <2>10 DEF Reset, Goto, locals, history, CoolingDone, AdaptiveCooldown
  <2>11. ASSUME NEW t \in Threads, ResetRest(t)
        PROVE  ExpiryInv'
    BY <2>11 DEF ResetRest, Goto, locals, history, CoolingDone, AdaptiveCooldown
  <2>12. ASSUME NEW t \in Threads, Snapshot(t)
        PROVE  ExpiryInv'
    BY <2>12 DEF Snapshot, Goto, locals, memory, history, CoolingDone, AdaptiveCooldown
  <2>13. ASSUME NEW t \in Threads, Store(t)
        PROVE  ExpiryInv'
    BY <2>13 DEF Store, Goto, memory, CoolingDone, AdaptiveCooldown
  <2>14. ASSUME NEW t \in Threads, StoreAndRepeat(t)
        PROVE  ExpiryInv'
    BY <2>14 DEF StoreAndRepeat, Goto, memory, history, CoolingDone, AdaptiveCooldown
  <2>15. ASSUME Tick
        PROVE  ExpiryInv'
    BY <2>15 DEF Tick, memory, locals, history, CoolingDone, AdaptiveCooldown
  <2>16. ASSUME Restart
        PROVE  ExpiryInv'
    BY <2>16 DEF Restart, history, CoolingDone, AdaptiveCooldown
  <2>17. ASSUME UNCHANGED vars
        PROVE  ExpiryInv'
    BY <2>17 DEF vars, memory, locals, history, CoolingDone, AdaptiveCooldown
  <2> QED BY <2>1, <2>2, <2>3, <2>4, <2>5, <2>6, <2>7, <2>8, <2>9, <2>10, <2>11, <2>12, <2>13, <2>14, <2>15, <2>16, <2>17
          DEF Next, Alive, Calls, Body
<1>3. TypeOK /\ CallsInv /\ ExpiryInv /\ [Next]_vars
        => (is_tripped /\ ~is_tripped' /\ restarts' = restarts /\ ~overlapped
              /\ (\A t \in Threads : ~Resuming(t))
            => now - tripped_timestamp >= AdaptiveCooldown(consecutive_losses))
  <2>1. SUFFICES ASSUME TypeOK, CallsInv, ExpiryInv, [Next]_vars,
                        is_tripped, ~is_tripped', restarts' = restarts, ~overlapped,
                        \A t \in Threads : ~Resuming(t)
                 PROVE  now - tripped_timestamp >= AdaptiveCooldown(consecutive_losses)
    OBVIOUS
  \* Only reset lowers the flag, besides a restart.
  <2>2. PICK t \in Threads : Reset(t)
    <3>1. ~UNCHANGED vars /\ ~Tick
      BY <2>1 DEF vars, Tick, memory
    <3>2. ~Restart
      BY <2>1 DEF Restart, TypeOK
    <3>3. ~Calls
      BY <2>1 DEF Calls, RecordWin, RecordLoss, EmergencyStop, ResumeTrading,
                  CheckStatus, memory
    <3>4. ASSUME NEW t \in Threads, Body(t) PROVE Reset(t)
      BY <2>1, <3>4 DEF Body, CountLoss, Trip, TripLatch, ResetRest, Snapshot, Store,
                        StoreAndRepeat, memory
    <3> QED BY <2>1, <3>1, <3>2, <3>3, <3>4 DEF Next, Alive
  <2>3. pc[t] = "reset" /\ op[t] = "check"
    BY <2>1, <2>2 DEF Reset, Goto, CallsInv, Resuming
  <2> QED BY <2>1, <2>3 DEF ExpiryInv, CoolingDone
<1>4. ASSUME TypeOK, now - tripped_timestamp >= AdaptiveCooldown(consecutive_losses)
      PROVE  /\ now - tripped_timestamp >= ShortCooldown
             /\ consecutive_losses >= MidStreak => now - tripped_timestamp >= MidCooldown
             /\ consecutive_losses >= LongStreak => now - tripped_timestamp >= LongCooldown
  BY <1>4 DEF TypeOK, AdaptiveCooldown
<1>5. TypeOK /\ CallsInv /\ ExpiryInv /\ [Next]_vars
        => [ is_tripped /\ ~is_tripped' /\ restarts' = restarts /\ ~overlapped
               /\ (\A t \in Threads : ~Resuming(t))
             => /\ now - tripped_timestamp >= ShortCooldown
                /\ consecutive_losses >= MidStreak => now - tripped_timestamp >= MidCooldown
                /\ consecutive_losses >= LongStreak => now - tripped_timestamp >= LongCooldown
           ]_vars
  BY <1>3, <1>4
<1> QED BY TypeCorrect, CallsInvariant, <1>1, <1>2, <1>5, PTL DEF Spec, CooldownServed

-----------------------------------------------------------------------------
\* A streak at the limit is a halt between calls: with any interleaving before the
\* first restart, and across restarts as long as no two calls have overlapped (the
\* row a restart loads may otherwise be one that a writer evaluated in the middle
\* of another thread's reset).
THEOREM StreakAlwaysHalts == Spec => []StreakHalts
<1> USE LimitsAssumption DEF LimitsAssumption
<1>1. Init => StreakInv /\ StoredStreakInv
  BY DEF Init, StreakInv, StoredStreakInv, FreshRow
<1>1a. TypeOK /\ CallsInv /\ RowInv /\ StreakInv /\ StoredStreakInv /\ [Next]_vars
         => StoredStreakInv'
  <2>1. SUFFICES ASSUME TypeOK, CallsInv, RowInv, StreakInv, StoredStreakInv, [Next]_vars
                 PROVE  StoredStreakInv'
    OBVIOUS
  <2>2. ASSUME NEW t \in Threads, Store(t) \/ StoreAndRepeat(t)
        PROVE  StoredStreakInv'
    <3>1. SUFFICES ASSUME ~overlapped' PROVE StoredStreakInv'
      BY DEF StoredStreakInv
    <3>2. /\ pc[t] = "store" /\ row[t] = CurrentRow /\ ~overlapped
          /\ circuit_state' = row[t]
          /\ \A u \in Threads : u # t => pc[u] = "idle"
      BY <2>1, <2>2, <3>1 DEF Store, StoreAndRepeat, Goto, RowInv, CallsInv, history
    <3>3. consecutive_losses >= LossLimit => is_tripped
      BY <2>1, <3>2 DEF StreakInv, OwesStreak
    <3> QED BY <3>2, <3>3 DEF StoredStreakInv, CurrentRow
  <2>3. CASE circuit_state' = circuit_state /\ (overlapped => overlapped')
    BY <2>1, <2>3 DEF StoredStreakInv
  <2>4. \/ circuit_state' = circuit_state /\ (overlapped => overlapped')
        \/ \E t \in Threads : Store(t) \/ StoreAndRepeat(t)
    <3>1. UNCHANGED vars \/ Tick \/ Restart
            => circuit_state' = circuit_state /\ (overlapped => overlapped')
      BY DEF vars, Tick, Restart, history
    <3>2. Calls => circuit_state' = circuit_state /\ (overlapped => overlapped')
      BY DEF Calls, RecordWin, RecordLoss, EmergencyStop, ResumeTrading, CheckStatus,
             Begin
    <3>3. ASSUME NEW t \in Threads, Body(t), ~Store(t), ~StoreAndRepeat(t)
          PROVE  circuit_state' = circuit_state /\ (overlapped => overlapped')
      BY <3>3 DEF Body, CountLoss, Trip, TripLatch, Reset, ResetRest, Snapshot, history
    <3> QED BY <2>1, <3>1, <3>2, <3>3 DEF Next, Alive
  <2> QED BY <2>2, <2>3, <2>4
<1>2. TypeOK /\ StreakInv /\ StoredStreakInv /\ [Next]_vars => StreakInv'
  <2>1. SUFFICES ASSUME TypeOK, StreakInv, StoredStreakInv, [Next]_vars PROVE StreakInv'
    OBVIOUS
  <2> USE <2>1 DEF TypeOK, OwesStreak, Steps
  <2>2. ASSUME consecutive_losses' = consecutive_losses,
               is_tripped' = is_tripped, restarts' = restarts, overlapped => overlapped',
               \A u \in Threads : OwesStreak(u) => OwesStreak(u)'
        PROVE  StreakInv'
    BY <2>2 DEF StreakInv
  <2>3. ASSUME NEW t \in Recorders, NEW s \in Symbols, NEW g \in Regimes,
               RecordWin(t, s, g)
        PROVE  StreakInv'
    BY <2>3 DEF RecordWin, StreakInv
  <2>4. ASSUME NEW t \in Recorders, NEW s \in Symbols, NEW g \in Regimes,
               RecordLoss(t, s, g)
        PROVE  StreakInv'
    <3>1. OwesStreak(t)' /\ t \in Threads
      BY <2>4 DEF RecordLoss, Begin, Goto, Threads
    <3> QED BY <3>1 DEF StreakInv
  <2>5. ASSUME NEW t \in Operators, EmergencyStop(t)
        PROVE  StreakInv'
    BY <2>2, <2>5 DEF EmergencyStop, Begin, Goto, Threads, memory
  <2>6. ASSUME NEW t \in Operators, ResumeTrading(t)
        PROVE  StreakInv'
    BY <2>2, <2>6 DEF ResumeTrading, Begin, Goto, Threads, memory
  <2>7. ASSUME NEW t \in Checkers, CheckStatus(t)
        PROVE  StreakInv'
    BY <2>2, <2>7 DEF CheckStatus, Begin, Goto, Threads, memory
  <2>8. ASSUME NEW t \in Threads, CountLoss(t)
        PROVE  StreakInv'
    <3>1. CASE AtLossLimit(consecutive_losses)
      <4>1. OwesStreak(t)'
        BY <2>8, <3>1 DEF CountLoss, Goto, history
      <4> QED BY <4>1 DEF StreakInv
    <3>2. CASE ~AtLossLimit(consecutive_losses)
      BY <2>8, <3>2 DEF CountLoss, AtLossLimit, StreakInv
    <3> QED BY <3>1, <3>2
  <2>9. ASSUME NEW t \in Threads, Trip(t)
        PROVE  StreakInv'
    BY <2>9 DEF Trip, StreakInv
  <2>10. ASSUME NEW t \in Threads, TripLatch(t)
         PROVE  StreakInv'
    BY <2>2, <2>10 DEF TripLatch, Goto, history
  <2>11. ASSUME NEW t \in Threads, Reset(t)
         PROVE  StreakInv'
    <3>1. OwesStreak(t)'
      BY <2>11 DEF Reset, Goto
    <3> QED BY <3>1 DEF StreakInv
  <2>12. ASSUME NEW t \in Threads, ResetRest(t)
         PROVE  StreakInv'
    BY <2>12 DEF ResetRest, StreakInv
  <2>13. ASSUME NEW t \in Threads, Snapshot(t)
         PROVE  StreakInv'
    BY <2>2, <2>13 DEF Snapshot, Goto, memory, history
  <2>14. ASSUME NEW t \in Threads, Store(t)
         PROVE  StreakInv'
    BY <2>2, <2>14 DEF Store, Goto, memory
  <2>14a. ASSUME NEW t \in Threads, StoreAndRepeat(t)
          PROVE  StreakInv'
    BY <2>2, <2>14a DEF StoreAndRepeat, Goto, memory, history
  <2>15. ASSUME Tick
         PROVE  StreakInv'
    BY <2>2, <2>15 DEF Tick, memory, history
  <2>15a. ASSUME Restart
          PROVE  StreakInv'
    <3>1. /\ restarts' = restarts + 1 /\ overlapped' = overlapped
          /\ consecutive_losses' = circuit_state.losses
          /\ is_tripped' = circuit_state.tripped
      BY <2>15a DEF Restart, history
    <3> QED BY <3>1 DEF StreakInv, StoredStreakInv
  <2>16. ASSUME UNCHANGED vars
         PROVE  StreakInv'
    BY <2>2, <2>16 DEF vars, memory, history
  <2> QED BY <2>1, <2>3, <2>4, <2>5, <2>6, <2>7, <2>8, <2>9, <2>10, <2>11,
             <2>12, <2>13, <2>14, <2>14a, <2>15, <2>15a, <2>16
          DEF Next, Alive, Calls, Body
<1>3. StreakInv => StreakHalts
  BY DEF StreakInv, StreakHalts, Quiescent, OwesStreak
<1> QED BY TypeCorrect, CallsInvariant, RowInvariant, <1>1, <1>1a, <1>2, <1>3, PTL DEF Spec
=============================================================================
