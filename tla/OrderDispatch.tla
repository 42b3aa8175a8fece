--------------------------- MODULE OrderDispatch ---------------------------
(***************************************************************************)
(* jarvis/application/orchestrator.py: how an approved candidate becomes   *)
(* an order, and what keeps two orders on one symbol apart.                *)
(*                                                                         *)
(* Two kinds of dispatcher run the same pipeline with different claims:    *)
(*   - an arbiter (the orchestrator thread, _orchestration_loop_single_-   *)
(*     pass) adds the symbol to _execution_in_progress unconditionally;    *)
(*   - a sweep (run_cycle_for_symbol with dry_run=False: main.py, tools,   *)
(*     tests) compares and claims under _execution_lock.                   *)
(* Around them run the watchdog thread, the state synchroniser (which      *)
(* fills state_manager.positions), the operator, and the broker.           *)
(*                                                                         *)
(* Each dispatcher step ends where another thread can be seen to matter:   *)
(* at a lock release, at a read of a snapshot, or at a broker call.  Every *)
(* order risks one unit.  Time is counted in units of the cfg; in the code *)
(* ReserveTTL is 15 s, StaleAfter 60 s, Cooldown 120 s, FlatCooldown 600 s. *)
(***************************************************************************)
EXTENDS Integers, FiniteSets, Functions

CONSTANTS
  Arbiters, Sweeps,   \* threads that dispatch, by the claim they make
  Symbols,            \* canonical symbols
  Outcomes,           \* what execute_decision may answer
  Cooldown,           \* _get_same_symbol_cooldown of the quickest style
  FlatCooldown,       \* _SAME_SYMBOL_COOLDOWN_SEC
  ReserveTTL,         \* ttl_sec of reserve_risk
  StaleAfter,         \* the watchdog's limit on a claim
  HardMax,            \* HARD_MAX_TRADES_PER_SYMBOL
  MaxOpen,            \* max_open_positions
  RiskBudget,         \* units of risk at which portfolio heat blocks new risk
  Watchdog,           \* whether the watchdog thread runs
  ManualDesk,         \* whether a human sends orders through the API
  SyncWithin,         \* the snapshot is never older than this
  SettleWithin,       \* a timed-out order lands or lapses within this
  MaxTime,            \* bound of the runs: the last tick
  MaxPositions        \* bound of the runs: no screening at this many orders

Dispatchers == Arbiters \cup Sweeps

AllOutcomes == {"FILLED", "PLACED", "PARTIAL", "UNKNOWN", "FAILED"}

ASSUME DispatchAssumption ==
  /\ Arbiters \cap Sweeps = {}
  /\ Outcomes \subseteq AllOutcomes
  /\ Cooldown \in Nat /\ FlatCooldown \in Nat /\ ReserveTTL \in Nat
  /\ StaleAfter \in Nat /\ HardMax \in Nat /\ MaxOpen \in Nat
  /\ RiskBudget \in Nat /\ Watchdog \in BOOLEAN /\ ManualDesk \in BOOLEAN
  /\ SyncWithin \in Nat /\ SettleWithin \in Nat /\ MaxTime \in Nat
  /\ MaxPositions \in Nat

VARIABLES
  now,
  in_progress,          \* _execution_in_progress
  last_execution_time,  \* _last_execution_time
  reserved_risk,        \* _reserved_risk: expiry time by symbol, or NoExpiry
  positions, resting,   \* the broker: open positions and resting orders
  unresolved,           \* the broker: timed-out orders that may yet fill
  snapshot, synced_at,  \* state_manager.positions and its age
  misread,              \* history: snapshot is a failed read that hides positions
  halted,               \* the breaker refuses (check_status()["active"])
  pc, sym, seen, cooling, answer,   \* locals of each dispatcher
  blind,                \* history: dispatchers that decide on such a snapshot
  taken,                \* history: the last order the broker may have taken
  after_stop,           \* history: orders sent by each dispatcher since the stop
  irregular,            \* history: an order rested, filled in part or came from the desk
  robbed                \* history: working dispatchers whose claim was dropped

claims == << in_progress, last_execution_time >>
broker == << positions, resting, unresolved >>
cache  == << snapshot, synced_at, misread >>
locals == << sym, seen, cooling, answer, blind >>
history == << taken, after_stop, irregular, robbed >>
vars == << now, claims, reserved_risk, broker, cache, halted, pc, locals, history >>

NoExpiry == -1

\* dict.get(symbol, 0.0) of a time: longer ago than any limit.
LongAgo == 0 - (Cooldown + FlatCooldown + StaleAfter + 1)

Steps == {"idle", "screened", "vetted", "authorized", "reserved", "claimed",
          "sent", "answered"}

Working == {"claimed", "sent", "answered"}

-----------------------------------------------------------------------------
TypeOK ==
  /\ now \in Nat
  /\ in_progress \subseteq Symbols
  /\ last_execution_time \in [Symbols -> Int]
  /\ reserved_risk \in [Symbols -> Int]
  /\ positions \in [Symbols -> Nat]
  /\ resting \in [Symbols -> Nat]
  /\ unresolved \in [Symbols -> Nat]
  /\ snapshot \in [Symbols -> Nat]
  /\ synced_at \in Nat
  /\ misread \in BOOLEAN
  /\ halted \in BOOLEAN
  /\ pc \in [Dispatchers -> Steps]
  /\ sym \in [Dispatchers -> Symbols]
  /\ seen \in [Dispatchers -> [Symbols -> Nat]]
  /\ cooling \in [Dispatchers -> BOOLEAN]
  /\ answer \in [Dispatchers -> AllOutcomes]
  /\ taken \in [Symbols -> [at: Int, how: AllOutcomes]]
  /\ after_stop \in [Dispatchers -> Nat]
  /\ irregular \in BOOLEAN
  /\ blind \subseteq Dispatchers /\ robbed \subseteq Dispatchers

Nothing == [s \in Symbols |-> 0]

Init ==
  /\ now = 0
  /\ in_progress = {}
  /\ last_execution_time = [s \in Symbols |-> LongAgo]
  /\ reserved_risk = [s \in Symbols |-> NoExpiry]
  /\ positions = Nothing /\ resting = Nothing /\ unresolved = Nothing
  /\ snapshot = Nothing
  /\ synced_at = 0 /\ misread = FALSE
  /\ halted = FALSE
  /\ pc = [d \in Dispatchers |-> "idle"]
  /\ sym \in {[d \in Dispatchers |-> s] : s \in Symbols}
  /\ seen = [d \in Dispatchers |-> Nothing]
  /\ cooling = [d \in Dispatchers |-> FALSE]
  /\ answer = [d \in Dispatchers |-> "FAILED"]
  /\ taken = [s \in Symbols |-> [at |-> LongAgo, how |-> "FAILED"]]
  /\ after_stop = [d \in Dispatchers |-> 0]
  /\ irregular = FALSE
  /\ blind = {} /\ robbed = {}

Goto(d, from, to) == pc[d] = from /\ pc' = [pc EXCEPT ![d] = to]

\* The handler returns: its locals are gone.
Leave(d, from) ==
  /\ Goto(d, from, "idle")
  /\ seen' = [seen EXCEPT ![d] = Nothing]
  /\ cooling' = [cooling EXCEPT ![d] = FALSE]
  /\ answer' = [answer EXCEPT ![d] = "FAILED"]
  /\ blind' = blind \ {d}
  /\ UNCHANGED sym

\* Seconds since the last dispatch on s that started a cooldown.
SinceLast(s) == now - last_execution_time[s]

\* _prune_expired_reservations
Pruned == [s \in Symbols |-> IF now > reserved_risk[s] THEN NoExpiry
                                                       ELSE reserved_risk[s]]

Reserved == {s \in Symbols : Pruned[s] # NoExpiry}

\* release_risk (and commit_risk, which only calls it)
Released(s) == [reserved_risk EXCEPT ![s] = NoExpiry]

-----------------------------------------------------------------------------
(* Screening and vetting: nothing is claimed yet.                          *)

\* The first look at the claim table and the cooldown, and the positions that
\* every later check of this candidate uses.  An arbiter skips a candidate in
\* cooldown; a sweep only remembers that it is.
Screen(d, s) ==
  /\ Goto(d, "idle", "screened")
  /\ positions[s] + unresolved[s] < MaxPositions
  /\ s \notin in_progress
  /\ d \in Arbiters => SinceLast(s) >= Cooldown
  /\ sym' = [sym EXCEPT ![d] = s]
  /\ seen' = [seen EXCEPT ![d] = snapshot]
  /\ cooling' = [cooling EXCEPT ![d] = SinceLast(s) < Cooldown]
  /\ blind' = IF misread THEN blind \cup {d} ELSE blind
  /\ UNCHANGED << now, claims, reserved_risk, broker, cache, halted, answer,
                  history >>

\* An arbiter looks at the cooldown again, with the flat period.
CoolingNow(d) == IF d \in Arbiters THEN SinceLast(sym[d]) < FlatCooldown
                                   ELSE cooling[d]

\* Mutant: the limit admits one more.
RoomFor_OneMore(count) == count <= HardMax

\* The same-symbol limit.  Positions seen and orders resting count together, but
\* a resting order is refused anyway.
RoomFor(count) == count < HardMax

\* The arbiter reads the claim table a second time; a sweep does not.
StillFree(d) == d \in Arbiters => sym[d] \notin in_progress

Vet(d) ==
  LET s == sym[d] IN
  /\ Goto(d, "screened", "vetted")
  /\ StillFree(d)
  /\ resting[s] = 0
  /\ RoomFor(seen[d][s])
  /\ CoolingNow(d) => seen[d][s] > 0
  /\ UNCHANGED << now, claims, reserved_risk, broker, cache, halted, locals, history >>

\* Mutant: nothing opposing has been seen.
StopAndReverse_Unseen(d) ==
  LET s == sym[d] IN
  /\ positions[s] > 0
  /\ Goto(d, "screened", "vetted")
  /\ positions' = [positions EXCEPT ![s] = @ - 1]
  /\ seen' = [seen EXCEPT ![d][s] = @ - 1]
  /\ reserved_risk' = Released(s)
  /\ last_execution_time' = [last_execution_time EXCEPT ![s] = LongAgo]
  /\ UNCHANGED << now, in_progress, resting, unresolved, cache, halted, sym,
                  cooling, answer, blind, history >>

\* _apply_stop_and_reverse_if_eligible closes an opposing position: cooldown and
\* reservation of the symbol go, the position is taken off the dispatcher's
\* list, and the limits are checked on what is left.
StopAndReverse(d) ==
  LET s == sym[d]
      within == StillFree(d) /\ resting[s] = 0 /\ RoomFor(seen[d][s] - 1)
  IN
  /\ seen[d][s] > 0 /\ positions[s] > 0
  /\ \/ within /\ Goto(d, "screened", "vetted")
               /\ seen' = [seen EXCEPT ![d][s] = @ - 1]
               /\ UNCHANGED << sym, cooling, answer, blind >>
     \/ ~within /\ Leave(d, "screened")
  /\ positions' = [positions EXCEPT ![s] = @ - 1]
  /\ reserved_risk' = Released(s)
  /\ last_execution_time' = [last_execution_time EXCEPT ![s] = LongAgo]
  /\ UNCHANGED << now, in_progress, resting, unresolved, cache, halted, history >>

\* The gates this module does not look into (entry policy, spread, news, ...)
\* may turn a candidate down at any point before the reservation.
Withhold(d) ==
  /\ \E gate \in {"screened", "vetted", "authorized"} : Leave(d, gate)
  /\ UNCHANGED << now, claims, reserved_risk, broker, cache, halted, history >>

\* Mutant: the breaker is not asked.
Authorize_NoBreaker(d) ==
  /\ Goto(d, "vetted", "authorized")
  /\ UNCHANGED << now, claims, reserved_risk, broker, cache, halted, locals, history >>

\* All the positions in a table.
Total(table) == FoldFunction(+, 0, table)

\* authorize_execution: symbol limit (a sweep counts the resting orders anew),
\* breaker, position count and heat, on the positions seen.  Any of them may be
\* at break-even, and those carry no risk.  The reservations are pruned on the
\* way (get_total_reserved_risk_usd).
Authorize(d) ==
  LET open == Total(seen[d]) IN
  /\ Goto(d, "vetted", "authorized")
  /\ d \in Sweeps => RoomFor(seen[d][sym[d]] + resting[sym[d]])
  /\ ~halted
  /\ open < MaxOpen + 2
  /\ \E at_risk \in 0 .. open :
       at_risk < MaxOpen /\ at_risk + Cardinality(Reserved) < RiskBudget
  /\ reserved_risk' = Pruned
  /\ UNCHANGED << now, claims, broker, cache, halted, locals, history >>

-----------------------------------------------------------------------------
(* Reserving, claiming, sending, answering, finishing.                     *)

\* reserve_risk overwrites whatever the symbol had.  A sweep asks the breaker
\* once more just before.
ReserveRisk(d) ==
  /\ Goto(d, "authorized", "reserved")
  /\ d \in Sweeps => ~halted
  /\ reserved_risk' = [Pruned EXCEPT ![sym[d]] = now + ReserveTTL]
  /\ UNCHANGED << now, claims, broker, cache, halted, locals, history >>

\* Mutant: the sweep claims without comparing (the code before its repair).
MayClaim_Always(d) == TRUE

MayClaim(d) == d \in Sweeps => sym[d] \notin in_progress

Claim(d) ==
  /\ MayClaim(d)
  /\ Goto(d, "reserved", "claimed")
  /\ in_progress' = in_progress \cup {sym[d]}
  /\ UNCHANGED << now, last_execution_time, reserved_risk, broker, cache, halted,
                  locals, history >>

\* The sweep that loses the claim gives its reservation back and skips.
LoseClaim(d) ==
  /\ ~MayClaim(d)
  /\ Leave(d, "reserved")
  /\ reserved_risk' = Released(sym[d])
  /\ UNCHANGED << now, claims, broker, cache, halted, history >>

\* The account check has come back, which nothing bounds (mt5_client.py:605, 892:
\* no guard around account_info()), and the order is handed to the broker.
Send(d) ==
  /\ Goto(d, "claimed", "sent")
  /\ after_stop' = [after_stop EXCEPT ![d] = @ + (IF halted THEN 1 ELSE 0)]
  /\ UNCHANGED << now, claims, reserved_risk, broker, cache, halted, locals,
                  taken, irregular, robbed >>

\* What the broker did with it, and the status that execute_decision returns.
\* A limit order is refused while another one rests on the symbol.
AnswerWith(d, how) ==
  LET s == sym[d] IN
  /\ Goto(d, "sent", "answered")
  /\ how = "PLACED" => resting[s] = 0
  /\ answer' = [answer EXCEPT ![d] = how]
  /\ positions' = IF how \in {"FILLED", "PARTIAL"}
                  THEN [positions EXCEPT ![s] = @ + 1] ELSE positions
  /\ resting' = IF how = "PLACED" THEN [resting EXCEPT ![s] = @ + 1] ELSE resting
  /\ unresolved' = IF how = "UNKNOWN"
                   THEN [unresolved EXCEPT ![s] = @ + 1] ELSE unresolved
  /\ taken' = IF how = "FAILED" THEN taken
              ELSE [taken EXCEPT ![s] = [at |-> now, how |-> how]]
  /\ irregular' = (irregular \/ how \in {"PLACED", "PARTIAL"})
  /\ UNCHANGED << now, claims, reserved_risk, cache, halted, sym, seen, cooling,
                  blind, after_stop, robbed >>

Answer(d) == \E how \in Outcomes : AnswerWith(d, how)

\* A sweep keeps the reservation of an unknown outcome, an arbiter does not.
KeepsReservation(d) == d \in Sweeps /\ answer[d] = "UNKNOWN"

\* Mutant: an unknown outcome is treated as a refusal.
StartsCooldown_Confirmed(how) == how \in {"FILLED", "PLACED"}

StartsCooldown(how) == how \in {"FILLED", "UNKNOWN", "PLACED"}

\* Who works on one of these symbols.
WorkersOn(symbols) == {d \in Dispatchers : pc[d] \in Working /\ sym[d] \in symbols}

\* Mutant: the finally block forgets the claim.
Finish_KeepsClaim(d) ==
  /\ Leave(d, "answered")
  /\ reserved_risk' = IF KeepsReservation(d) THEN reserved_risk ELSE Released(sym[d])
  /\ UNCHANGED << now, claims, broker, cache, halted, history >>

\* commit or release of the reservation, then the finally block.
Finish(d) ==
  LET s == sym[d] IN
  /\ Leave(d, "answered")
  /\ reserved_risk' = IF KeepsReservation(d) THEN reserved_risk ELSE Released(s)
  /\ in_progress' = in_progress \ {s}
  /\ last_execution_time' = IF StartsCooldown(answer[d])
                            THEN [last_execution_time EXCEPT ![s] = now]
                            ELSE last_execution_time
  /\ robbed' = (robbed \cup WorkersOn({s})) \ {d}
  /\ UNCHANGED << now, broker, cache, halted, taken, after_stop, irregular >>

-----------------------------------------------------------------------------
(* The threads and parties around the dispatchers.                         *)

\* The watchdog's first duty: drop the claims it takes for stale.
Stale == {s \in in_progress : SinceLast(s) > StaleAfter}

WatchdogPass ==
  /\ Watchdog /\ Stale # {}
  /\ in_progress' = in_progress \ Stale
  /\ robbed' = robbed \cup WorkersOn(Stale)
  /\ UNCHANGED << now, last_execution_time, reserved_risk, broker, cache, halted,
                  pc, locals, taken, after_stop, irregular >>

\* sync_once replaces the cached positions by what get_open_positions answers:
\* the broker's, or an empty list when the read fails.
Sync ==
  /\ snapshot' \in {positions, Nothing}
  /\ misread' = (snapshot' # positions)
  /\ synced_at' = now
  /\ UNCHANGED << now, claims, reserved_risk, broker, halted, pc, locals, history >>

\* emergency_stop trips the breaker and cancels every resting order.
EmergencyStop ==
  /\ ~halted
  /\ halted' = TRUE
  /\ resting' = Nothing
  /\ UNCHANGED << now, claims, reserved_risk, positions, unresolved, cache, pc,
                  locals, history >>

ResumeTrading ==
  /\ halted
  /\ halted' = FALSE
  /\ after_stop' = [d \in Dispatchers |-> 0]
  /\ UNCHANGED << now, claims, reserved_risk, broker, cache, pc, locals,
                  taken, irregular, robbed >>

\* /api/action/manual_trade: the breaker and the broker's position count are
\* asked (a failed read counts none), but there is no claim, no cooldown and no
\* limit per symbol.
ManualTrade(s) ==
  /\ ManualDesk /\ ~halted
  /\ positions[s] + unresolved[s] < MaxPositions
  /\ \E count \in {0, Total(positions)} : count < MaxOpen
  /\ positions' = [positions EXCEPT ![s] = @ + 1]
  /\ irregular' = TRUE
  /\ UNCHANGED << now, claims, reserved_risk, resting, unresolved, cache, halted,
                  pc, locals, taken, after_stop, robbed >>

\* A stop, a target or the position monitor closes a position.
PositionCloses(s) ==
  /\ positions[s] > 0
  /\ positions' = [positions EXCEPT ![s] = @ - 1]
  /\ UNCHANGED << now, claims, reserved_risk, resting, unresolved, cache, halted,
                  pc, locals, history >>

\* A resting order fills, or is cancelled (the 30 minute cleanup, a human).
RestingEnds(s) ==
  /\ resting[s] > 0
  /\ resting' = [resting EXCEPT ![s] = @ - 1]
  /\ \/ positions' = [positions EXCEPT ![s] = @ + 1]
     \/ UNCHANGED positions
  /\ UNCHANGED << now, claims, reserved_risk, unresolved, cache, halted, pc,
                  locals, history >>

\* A timed-out order turns out to have been executed, or not.
Settle(s) ==
  /\ unresolved[s] > 0
  /\ unresolved' = [unresolved EXCEPT ![s] = @ - 1]
  /\ \/ positions' = [positions EXCEPT ![s] = @ + 1]
     \/ UNCHANGED positions
  /\ UNCHANGED << now, claims, reserved_risk, resting, cache, halted, pc, locals,
                  history >>

\* Time passes, but not past a due synchronisation or settlement.
Tick ==
  /\ now < MaxTime
  /\ now - synced_at < SyncWithin
  /\ \A s \in Symbols : unresolved[s] > 0 => now - taken[s].at < SettleWithin
  /\ now' = now + 1
  /\ UNCHANGED << claims, reserved_risk, broker, cache, halted, pc, locals, history >>

-----------------------------------------------------------------------------
\* From the reservation on, a dispatcher runs to the end of its finally block; all
\* of it is bounded (TimeoutGuard, the locks' time-outs) but the account check.
Bounded(d) == Claim(d) \/ LoseClaim(d) \/ Answer(d) \/ Finish(d)

Proceed(d) == Bounded(d) \/ Send(d)

Choose(d) ==
  \/ \E s \in Symbols : Screen(d, s)
  \/ Vet(d) \/ StopAndReverse(d) \/ Withhold(d) \/ Authorize(d) \/ ReserveRisk(d)

World ==
  \/ WatchdogPass \/ Sync \/ EmergencyStop \/ ResumeTrading \/ Tick
  \/ \E s \in Symbols : PositionCloses(s) \/ RestingEnds(s) \/ Settle(s)
                       \/ ManualTrade(s)

Next == (\E d \in Dispatchers : Choose(d) \/ Proceed(d)) \/ World

Spec == Init /\ [][Next]_vars

\* A dispatcher that has reserved goes on where its calls are bounded.  Nothing else
\* is promised: the account check may hang for ever, and so may the watchdog, which
\* asks for the account too (479).
FairSpec == Spec /\ \A d \in Dispatchers : WF_vars(Bounded(d))

\* What a terminal that answers gives: every account check comes back.
AccountChecksReturn == \A d \in Dispatchers : WF_vars(Send(d))

\* What a watchdog thread that does not hang gives.
WatchdogRuns == Watchdog /\ WF_vars(WatchdogPass) /\ WF_vars(Tick)

-----------------------------------------------------------------------------
(* Properties.                                                             *)

Sending(d) == pc[d] = "claimed" /\ pc'[d] = "sent"

\* No order is sent on a symbol within the cooldown of an order the broker took
\* or may have taken: a fill, a resting order or a timed-out one (2199-2211,
\* 2376-2381).
OrderSpacing ==
  [][ \A d \in Dispatchers :
        Sending(d) /\ taken[sym[d]].how # "PARTIAL"
          => now - taken[sym[d]].at >= Cooldown ]_vars

Exposure(s) == positions[s] + unresolved[s]

\* "Hard ceiling: Never exceeded under any circumstances" (exposure.py:12): no step
\* brings the open positions and timed-out orders of a symbol above HardMax, as long
\* as every order is a market order of a dispatcher, except the order of one that
\* took a failed read for an empty book (2214).
SymbolCeiling ==
  [][ \A s \in Symbols : Exposure(s)' > Exposure(s) /\ ~irregular'
        => \/ Exposure(s)' <= HardMax
           \/ \E d \in blind : sym[d] = s /\ pc[d] = "sent" /\ pc'[d] = "answered" ]_vars

\* After an emergency stop a dispatcher sends at most the one order that it had
\* authorised before, until trading is resumed (2328, 1923).
OneOrderAfterStop == halted => \A d \in Dispatchers : after_stop[d] <= 1

\* "Only the one that wins this compare-and-claim may send an order" (1961-1962):
\* of two dispatchers that work on the same symbol, one has had its claim dropped
\* by the watchdog, or by the end of one that had (467, 2376-2378).
SweepMutex ==
  \A d, e \in Dispatchers \ robbed :
    pc[d] \in Working /\ pc[e] \in Working /\ sym[d] = sym[e] => d = e

\* A claim does not outlive the order it was taken for (2376-2378), if account checks
\* come back; one whose account check hangs is dropped by the watchdog, if that runs
\* and there is time left for the claim to become stale (456-471).
ClaimReleased ==
  /\ AccountChecksReturn => \A s \in Symbols : s \in in_progress ~> s \notin in_progress
  /\ WatchdogRuns => \A s \in Symbols :
       s \in in_progress /\ now + StaleAfter < MaxTime ~> s \notin in_progress
=============================================================================
