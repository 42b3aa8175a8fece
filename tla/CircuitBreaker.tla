--------------------------- MODULE CircuitBreaker ---------------------------
(***************************************************************************)
(* jarvis/risk/circuit_breaker.py: the loss breaker and operator kill      *)
(* switch.  One CircuitBreaker object is shared, without a lock, by        *)
(*   - the state synchroniser thread, whose trade_closed callback calls    *)
(*     record_trade_result;                                                *)
(*   - the scan workers and the orchestrator loop, which call check_status *)
(*     (and through it reset, when a cooldown has elapsed);                *)
(*   - the API threads, which call trip (emergency_stop) and reset         *)
(*     (resume_trading).                                                   *)
(* A method is cut into steps where another thread can be seen to matter:  *)
(* each step is one run of Python between two reads or writes of shared    *)
(* state that the other methods also touch.  Every method that changes     *)
(* state ends in _save_state, which first evaluates the row (Snapshot) and *)
(* then waits for SQLite to store it (Store).                              *)
(*                                                                         *)
(* Time is counted in units of the cfg (a quarter of an hour in the runs). *)
(***************************************************************************)
EXTENDS Integers, Sequences, FiniteSets

CONSTANTS
  Recorders,          \* threads that call record_trade_result
  Checkers,           \* threads that call check_status
  Operators,          \* threads that call trip / reset for a human
  Symbols, Regimes,   \* keys of the per-symbol and per-regime maps
  LossLimit,          \* consecutive_loss_limit
  VelocityThreshold,  \* loss_velocity_threshold
  LossWindow,         \* loss_velocity_window_sec
  LossMemory,         \* maxlen of _loss_timestamps
  SymbolLossLimit, RegimeLossLimit,
  SymbolPause, RegimePause,
  ShortCooldown, MidCooldown, LongCooldown,
  MidStreak, LongStreak,
  MaxTime, MaxLosses, MaxRestarts   \* bounds of the runs

Threads == Recorders \cup Checkers \cup Operators

ASSUME LimitsAssumption ==
  /\ LossLimit \in Nat \ {0}
  /\ VelocityThreshold \in Nat \ {0}
  /\ LossMemory \in Nat \ {0}
  /\ LossWindow \in Nat /\ SymbolPause \in Nat /\ RegimePause \in Nat
  /\ ShortCooldown \in Nat /\ MidCooldown \in Nat /\ LongCooldown \in Nat
  /\ ShortCooldown <= MidCooldown /\ MidCooldown <= LongCooldown
  /\ MidStreak \in Nat /\ LongStreak \in Nat
  /\ SymbolLossLimit \in Nat /\ RegimeLossLimit \in Nat
  /\ MaxTime \in Nat /\ MaxLosses \in Nat /\ MaxRestarts \in Nat

VARIABLES
  now,                    \* the injected clock
  consecutive_losses, is_tripped, tripped_timestamp, operator_halt,
  loss_timestamps,        \* _loss_timestamps, oldest first
  symbol_losses, regime_losses, symbol_paused_until, regime_paused_until,
  circuit_state,          \* the row id = 1 of the SQLite table
  pc, op, latch, target,  \* per thread: next step, method, latching reason, keys
  row,                    \* per thread: the row _save_state has evaluated
  restarts,
  stop_pressed,           \* history: a latching emergency_stop returned, no resume since
  overlapped              \* history: some call began while another was in flight

memory == << consecutive_losses, is_tripped, tripped_timestamp, operator_halt,
             loss_timestamps, symbol_losses, regime_losses,
             symbol_paused_until, regime_paused_until >>
locals == << op, latch, target >>
history == << stop_pressed, overlapped >>
vars == << now, memory, circuit_state, pc, locals, row, restarts, history >>

Row == [losses: Nat, tripped: BOOLEAN, at: Nat, halt: BOOLEAN,
        symbol_paused: [Symbols -> Nat], regime_paused: [Regimes -> Nat]]

FreshRow == [losses |-> 0, tripped |-> FALSE, at |-> 0, halt |-> FALSE,
             symbol_paused |-> [s \in Symbols |-> 0],
             regime_paused |-> [r \in Regimes |-> 0]]

\* The tuple _save_state passes to its UPDATE.
CurrentRow == [losses |-> consecutive_losses, tripped |-> is_tripped,
               at |-> tripped_timestamp, halt |-> operator_halt,
               symbol_paused |-> symbol_paused_until,
               regime_paused |-> regime_paused_until]

Methods == {"none", "record", "check", "stop", "stop_again", "resume", "resume_again"}

Steps == {"idle", "loss", "trip", "latch", "reset", "cleared", "save", "store"}

-----------------------------------------------------------------------------
(* Pure helpers.                                                           *)

\* Mutant: the deque without its maxlen.
Remember_Unbounded(times, t) == Append(times, t)

\* deque(maxlen=...).append
Remember(times, t) ==
  LET longer == Append(times, t)
  IN  IF Len(longer) > LossMemory THEN Tail(longer) ELSE longer

\* The losses of `times` that are within the velocity window at `t`.
Recent(times, t) == {i \in DOMAIN times : t - times[i] <= LossWindow}

\* Mutant: the threshold must be exceeded instead of reached.
Clustered_Exceeded(times, t) == Cardinality(Recent(times, t)) > VelocityThreshold

Clustered(times, t) == Cardinality(Recent(times, t)) >= VelocityThreshold

\* Mutant: off by one at the portfolio limit.
AtLossLimit_Exceeded(losses) == losses > LossLimit

AtLossLimit(losses) == losses >= LossLimit

\* Mutant: one cooldown for every streak.
AdaptiveCooldown_Fixed(losses) == ShortCooldown

\* _get_adaptive_cooldown
AdaptiveCooldown(losses) ==
  IF losses >= LongStreak THEN LongCooldown
  ELSE IF losses >= MidStreak THEN MidCooldown
  ELSE ShortCooldown

CoolingDone == now - tripped_timestamp >= AdaptiveCooldown(consecutive_losses)

\* Mutant: the operator latch is not looked at.
MayExpire_IgnoresLatch == is_tripped /\ CoolingDone

\* The branch of check_status that ends in reset().
MayExpire == is_tripped /\ ~operator_halt /\ CoolingDone

-----------------------------------------------------------------------------
TypeOK ==
  /\ now \in Nat
  /\ consecutive_losses \in Nat
  /\ is_tripped \in BOOLEAN
  /\ tripped_timestamp \in Nat
  /\ operator_halt \in BOOLEAN
  /\ loss_timestamps \in Seq(Nat)
  /\ Len(loss_timestamps) <= LossMemory
  /\ symbol_losses \in [Symbols -> Nat]
  /\ regime_losses \in [Regimes -> Nat]
  /\ symbol_paused_until \in [Symbols -> Nat]
  /\ regime_paused_until \in [Regimes -> Nat]
  /\ circuit_state \in Row
  /\ pc \in [Threads -> Steps]
  /\ op \in [Threads -> Methods]
  /\ latch \in [Threads -> BOOLEAN]
  /\ target \in [Threads -> Symbols \X Regimes]
  /\ row \in [Threads -> Row]
  /\ restarts \in Nat
  /\ stop_pressed \in BOOLEAN /\ overlapped \in BOOLEAN

Init ==
  /\ now = 0
  /\ consecutive_losses = 0
  /\ is_tripped = FALSE
  /\ tripped_timestamp = 0
  /\ operator_halt = FALSE
  /\ loss_timestamps = << >>
  /\ symbol_losses = [s \in Symbols |-> 0]
  /\ regime_losses = [g \in Regimes |-> 0]
  /\ symbol_paused_until = [s \in Symbols |-> 0]
  /\ regime_paused_until = [g \in Regimes |-> 0]
  /\ circuit_state = FreshRow
  /\ pc = [t \in Threads |-> "idle"]
  /\ op = [t \in Threads |-> "none"]
  /\ latch = [t \in Threads |-> FALSE]
  /\ target \in {[t \in Threads |-> k] : k \in Symbols \X Regimes}
  /\ row = [t \in Threads |-> FreshRow]
  /\ restarts = 0
  /\ stop_pressed = FALSE /\ overlapped = FALSE

Goto(t, from, to) == pc[t] = from /\ pc' = [pc EXCEPT ![t] = to]

Quiescent == \A t \in Threads : pc[t] = "idle"

Begin(t, method, to) ==
  /\ Goto(t, "idle", to)
  /\ op' = [op EXCEPT ![t] = method]
  /\ overlapped' = (overlapped \/ ~Quiescent)

-----------------------------------------------------------------------------
(* record_trade_result                                                     *)

\* A win zeroes the streaks in one go and saves.
RecordWin(t, s, g) ==
  /\ Begin(t, "record", "save")
  /\ consecutive_losses' = 0
  /\ symbol_losses' = [symbol_losses EXCEPT ![s] = 0]
  /\ regime_losses' = [regime_losses EXCEPT ![g] = 0]
  /\ UNCHANGED << now, is_tripped, tripped_timestamp, operator_halt,
                  loss_timestamps, symbol_paused_until, regime_paused_until,
                  circuit_state, latch, target, row, restarts, stop_pressed >>

\* A loss: the counter, the timestamp and the velocity verdict.  A velocity
\* trip returns before the per-symbol and per-regime counters are touched.
RecordLoss(t, s, g) ==
  /\ consecutive_losses < MaxLosses
  /\ consecutive_losses' = consecutive_losses + 1
  /\ loss_timestamps' = Remember(loss_timestamps, now)
  /\ Begin(t, "record",
           IF Clustered(loss_timestamps', now) /\ ~is_tripped
           THEN "trip" ELSE "loss")
  /\ latch' = [latch EXCEPT ![t] = FALSE]
  /\ target' = [target EXCEPT ![t] = <<s, g>>]
  /\ UNCHANGED << now, is_tripped, tripped_timestamp, operator_halt,
                  symbol_losses, regime_losses, symbol_paused_until,
                  regime_paused_until, circuit_state, row, restarts, stop_pressed >>

\* The rest of a loss that was not a velocity trip.
CountLoss(t) ==
  LET s == target[t][1]
      g == target[t][2]
  IN
  /\ Goto(t, "loss", IF AtLossLimit(consecutive_losses) THEN "trip" ELSE "save")
  /\ symbol_losses' = [symbol_losses EXCEPT ![s] = @ + 1]
  /\ regime_losses' = [regime_losses EXCEPT ![g] = @ + 1]
  /\ symbol_paused_until' =
       IF symbol_losses'[s] >= SymbolLossLimit
       THEN [symbol_paused_until EXCEPT ![s] = now + SymbolPause]
       ELSE symbol_paused_until
  /\ regime_paused_until' =
       IF regime_losses'[g] >= RegimeLossLimit
       THEN [regime_paused_until EXCEPT ![g] = now + RegimePause]
       ELSE regime_paused_until
  /\ UNCHANGED << now, consecutive_losses, is_tripped, tripped_timestamp,
                  operator_halt, loss_timestamps, circuit_state, locals, row,
                  restarts, history >>

-----------------------------------------------------------------------------
(* trip(reason): is_tripped is assigned first, the timestamp, the reason   *)
(* and the operator latch after it.                                        *)

\* The reason is the caller's: trip() latches those that begin with OPERATOR,
\* EMERGENCY_STOP or MANUAL, among them the API's default.
EmergencyStop(t) ==
  \E latched \in BOOLEAN :
    /\ Begin(t, "stop", "trip")
    /\ latch' = [latch EXCEPT ![t] = latched]
    /\ UNCHANGED << now, memory, circuit_state, target, row, restarts, stop_pressed >>

Trip(t) ==
  /\ Goto(t, "trip", "latch")
  /\ is_tripped' = TRUE
  /\ UNCHANGED << now, consecutive_losses, tripped_timestamp, operator_halt,
                  loss_timestamps, symbol_losses, regime_losses,
                  symbol_paused_until, regime_paused_until, circuit_state,
                  locals, row, restarts, history >>

\* Mutant: trip() that forgets _save_state.
TripLatch_Unsaved(t) ==
  /\ Goto(t, "latch", "idle")
  /\ tripped_timestamp' = now
  /\ operator_halt' = (operator_halt \/ latch[t])
  /\ UNCHANGED << now, consecutive_losses, is_tripped, loss_timestamps,
                  symbol_losses, regime_losses, symbol_paused_until,
                  regime_paused_until, circuit_state, locals, row, restarts,
                  history >>

TripLatch(t) ==
  /\ Goto(t, "latch", "save")
  /\ tripped_timestamp' = now
  /\ operator_halt' = (operator_halt \/ latch[t])
  /\ UNCHANGED << now, consecutive_losses, is_tripped, loss_timestamps,
                  symbol_losses, regime_losses, symbol_paused_until,
                  regime_paused_until, circuit_state, locals, row, restarts,
                  history >>

-----------------------------------------------------------------------------
(* check_status and reset                                                  *)

\* check_status decides on what it reads here; a reset it decides on runs later.
CheckStatus(t) ==
  /\ MayExpire
  /\ Begin(t, "check", "reset")
  /\ UNCHANGED << now, memory, circuit_state, latch, target, row, restarts,
                  stop_pressed >>

ResumeTrading(t) ==
  /\ Begin(t, "resume", "reset")
  /\ stop_pressed' = FALSE
  /\ UNCHANGED << now, memory, circuit_state, latch, target, row, restarts >>

\* Mutant: reset() that leaves the flag up.
Reset_KeepsFlag(t) == Goto(t, "reset", "cleared") /\ UNCHANGED
  << now, memory, circuit_state, locals, row, restarts, history >>

Reset(t) ==
  /\ Goto(t, "reset", "cleared")
  /\ is_tripped' = FALSE
  /\ UNCHANGED << now, consecutive_losses, tripped_timestamp, operator_halt,
                  loss_timestamps, symbol_losses, regime_losses,
                  symbol_paused_until, regime_paused_until, circuit_state,
                  locals, row, restarts, history >>

ResetRest(t) ==
  /\ Goto(t, "cleared", "save")
  /\ operator_halt' = FALSE
  /\ consecutive_losses' = 0
  /\ loss_timestamps' = << >>
  /\ symbol_losses' = [s \in Symbols |-> 0]
  /\ regime_losses' = [g \in Regimes |-> 0]
  /\ symbol_paused_until' = [s \in Symbols |-> 0]
  /\ regime_paused_until' = [g \in Regimes |-> 0]
  /\ UNCHANGED << now, is_tripped, tripped_timestamp, circuit_state, locals,
                  row, restarts, history >>

-----------------------------------------------------------------------------
(* _save_state, the clock and a restart of the process                     *)

Snapshot(t) ==
  /\ Goto(t, "save", "store")
  /\ row' = [row EXCEPT ![t] = CurrentRow]
  /\ UNCHANGED << now, memory, circuit_state, locals, restarts, history >>

\* The operator's handlers call the breaker twice: once as the orchestrator's
\* circuit_breaker, once as the risk engine's, and the two are one object.
StoreAndRepeat(t) ==
  /\ op[t] \in {"stop", "resume"}
  /\ Goto(t, "store", IF op[t] = "stop" THEN "trip" ELSE "reset")
  /\ op' = [op EXCEPT ![t] = IF @ = "stop" THEN "stop_again" ELSE "resume_again"]
  /\ circuit_state' = row[t]
  /\ row' = [row EXCEPT ![t] = FreshRow]
  /\ UNCHANGED << now, memory, latch, target, restarts, history >>

Store(t) ==
  /\ op[t] \notin {"stop", "resume"}
  /\ Goto(t, "store", "idle")
  /\ circuit_state' = row[t]
  /\ op' = [op EXCEPT ![t] = "none"]
  /\ latch' = [latch EXCEPT ![t] = FALSE]
  /\ row' = [row EXCEPT ![t] = FreshRow]
  /\ stop_pressed' = (stop_pressed \/ (op[t] = "stop_again" /\ latch[t]))
  /\ UNCHANGED << now, memory, target, restarts, overlapped >>

Tick ==
  /\ now < MaxTime
  /\ now' = now + 1
  /\ UNCHANGED << memory, circuit_state, pc, locals, row, restarts, history >>

\* The process dies and __init__ runs over the row _load_state finds: what is
\* not in the table starts empty.
Restart ==
  /\ restarts < MaxRestarts
  /\ restarts' = restarts + 1
  /\ consecutive_losses' = circuit_state.losses
  /\ is_tripped' = circuit_state.tripped
  /\ tripped_timestamp' = circuit_state.at
  /\ operator_halt' = circuit_state.halt
  /\ symbol_paused_until' = circuit_state.symbol_paused
  /\ regime_paused_until' = circuit_state.regime_paused
  /\ loss_timestamps' = << >>
  /\ symbol_losses' = [s \in Symbols |-> 0]
  /\ regime_losses' = [g \in Regimes |-> 0]
  /\ pc' = [t \in Threads |-> "idle"]
  /\ op' = [t \in Threads |-> "none"]
  /\ latch' = [t \in Threads |-> FALSE]
  /\ row' = [t \in Threads |-> FreshRow]
  /\ UNCHANGED << now, circuit_state, target, history >>

-----------------------------------------------------------------------------
Calls ==
  \/ \E t \in Recorders, s \in Symbols, g \in Regimes :
        RecordWin(t, s, g) \/ RecordLoss(t, s, g)
  \/ \E t \in Operators : EmergencyStop(t) \/ ResumeTrading(t)
  \/ \E t \in Checkers : CheckStatus(t)

Body(t) == \/ CountLoss(t) \/ Trip(t) \/ TripLatch(t)
           \/ Reset(t) \/ ResetRest(t)
           \/ Snapshot(t) \/ Store(t) \/ StoreAndRepeat(t)

Alive == Calls \/ (\E t \in Threads : Body(t)) \/ Tick
Next == Alive \/ Restart

Spec == Init /\ [][Next]_vars

\* A thread inside a method keeps running; the scan loop polls check_status
\* forever; time passes.  Nothing makes trades close or an operator act.
Fairness ==
  /\ \A t \in Threads : WF_vars(Body(t))
  /\ \A t \in Checkers : WF_vars(CheckStatus(t))
  /\ WF_vars(Tick)

FairSpec == Spec /\ Fairness

-----------------------------------------------------------------------------
(* Properties.                                                             *)

Resuming(t) == op[t] \in {"resume", "resume_again"}

\* A portfolio loss streak that has reached the limit is a halt: between calls
\* the counter is never at consecutive_loss_limit with the breaker untripped,
\* whichever checks and resets ran in between (record_trade_result, 248-249).  A
\* row written while two calls overlapped may lose that over a restart.
StreakHalts ==
  Quiescent /\ (restarts = 0 \/ ~overlapped) /\ consecutive_losses >= LossLimit
    => is_tripped

\* Three remembered losses within the window are a halt as long as they are
\* within the window: no reset may leave them behind (228-235, 322).
VelocityHalts ==
  Quiescent /\ Cardinality(Recent(loss_timestamps, now)) >= VelocityThreshold
    => is_tripped

\* As long as no two calls have overlapped, the table holds between calls what
\* memory holds, so that a restart loses nothing that is persisted (_save_state
\* after every change).
RowCurrent == Quiescent /\ ~overlapped => circuit_state = CurrentRow

\* Once an emergency stop with a latching reason has returned, and until a resume,
\* the breaker is tripped between any two calls: cooldowns and restarts do not
\* lift it ("An operator emergency stop must NOT", 39-41).  A reset that another
\* thread had already decided on can: OnlyResumeClearsHalt.
KillSwitchHolds == stop_pressed /\ Quiescent /\ ~overlapped => is_tripped

\* A loss-streak trip is lifted without an operator only when the cooldown that
\* its streak earned has passed since the last trip (330-357).
CooldownServed ==
  [][ is_tripped /\ ~is_tripped' /\ restarts' = restarts /\ ~overlapped
        /\ (\A t \in Threads : ~Resuming(t))
      => /\ now - tripped_timestamp >= ShortCooldown
         /\ consecutive_losses >= MidStreak => now - tripped_timestamp >= MidCooldown
         /\ consecutive_losses >= LongStreak => now - tripped_timestamp >= LongCooldown
    ]_vars

\* "reset is the explicit operator override; it is the only path that clears a
\* latched emergency stop" (318-319): the latch falls only under a resume.
OnlyResumeClearsHalt ==
  [][ operator_halt /\ ~operator_halt' => \E t \in Operators : Resuming(t) ]_vars

\* A trip that no operator latched is lifted by the polling of check_status once
\* its cooldown is over, unless it is renewed or latched meanwhile.  (Trips too
\* close to the end of the bounded clock are left out.)
CoolingTripExpires ==
  \A at \in 0 .. (MaxTime - LongCooldown) :
    (is_tripped /\ ~operator_halt /\ tripped_timestamp = at)
      ~> (~is_tripped \/ operator_halt \/ tripped_timestamp # at)
=============================================================================
