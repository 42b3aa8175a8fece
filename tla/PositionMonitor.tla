-------------------------- MODULE PositionMonitor --------------------------
(***************************************************************************)
(* The engine that looks after open positions.                             *)
(*                                                                         *)
(* Every two seconds PositionMonitorEngine takes the list of positions     *)
(* that the synchroniser last stored, forgets what it knew of tickets that *)
(* are not in it, and passes over the list three times: event and weekend  *)
(* protection, the margin ladder, and the management of each position (the *)
(* protection of manual trades, one partial close, discretionary exits and *)
(* the stop ratchet).  It works on copies: the broker, other callers of    *)
(* the client and requests of its own that timed out change the positions  *)
(* meanwhile, and the operator changes the mode of a manual trade from     *)
(* another thread.                                                         *)
(*                                                                         *)
(* Long positions; a short one is the mirror image.  Volumes are counted   *)
(* in minimal lots, stops in steps of price, and 0 is no stop.  Market     *)
(* data decides freely which of the steps the code offers are taken.       *)
(***************************************************************************)
EXTENDS Integers

CONSTANTS
  Tickets,      \* positions of the account
  Manual,       \* those not placed by this program
  NoTicket,     \* no position is being handled
  Lots,         \* volume of a position when it opens
  Top,          \* bound: highest level a stop can have
  MinDist,      \* distance the broker demands between price and stop
  MaxEvents     \* bound: restarts, calls that time out, changes of mode, stops
                \* moved and parts closed by anyone else, together

ASSUME TicketsAssumption == Manual \subseteq Tickets /\ NoTicket \notin Tickets
ASSUME LotsAssumption == Lots \in Nat \ {0}
ASSUME TopAssumption == Top \in Nat \ {0} /\ MinDist \in Nat \ {0}

VARIABLES
  opened,     \* tickets the broker has ever issued
  volume,     \* at the broker: open volume, 0 when there is no position
  stop,       \* at the broker: stop loss
  positions,  \* state_manager.positions: the volume and stop last read
  shared,     \* the running tick works on the list that is still stored
  telemetry,  \* _position_telemetry_cache[ticket]["monitoring_mode"]
  at,         \* where the monitor's thread is
  list,       \* the list of this tick
  todo,       \* tickets this pass has still to visit
  cur,        \* ticket being visited
  modes,      \* _manual_trade_modes
  kept,       \* _manual_trade_modes as the tick copied it to prune it
  manual_mode,\* the mode of trades that have none of their own
  mode,       \* effective_manual_mode of cur
  pinning,    \* get_manual_mode has read the telemetry, not yet stored it
  partial,    \* _partially_closed_tickets
  late,       \* requests that timed out and are still with a worker
  \* histories
  parts,      \* partial closes of the monitor that were executed
  unheard,    \* closes that were executed although the call had timed out
  cut,        \* tickets someone else has closed a part of since the store was read
  miscut,     \* those of which since the list of the tick was read
  command,    \* "set": switched OFF; "quiet": and a tick has begun since
  meddled,    \* positions the monitor has called on while quiet
  restarts,   \* how often the process has started again
  events      \* what has been used of MaxEvents

broker == <<opened, volume, stop>>
store == <<positions, shared, telemetry>>
tick == <<at, list, todo, cur>>
registry == <<modes, kept, manual_mode>>
visit == <<mode, pinning>>
modeVars == <<registry, visit>>
book == <<parts, unheard, restarts>>
cuts == <<cut, miscut>>
orders == <<command, meddled>>
vars == <<broker, store, tick, modeVars, partial, late, book, cuts, orders, events>>

Modes == {"AUTO_PILOT", "TRAIL", "PROTECT_ONLY", "OFF"}
Places == {"sleep", "prune", "protocols", "ladder", "manage", "partial",
           "early", "exits", "dispatch"}
Copy == [volume : 0..Lots, stop : 0..Top]
Absent == [volume |-> 0, stop |-> 0]
Requests == [ticket : Tickets, kind : {"close"}, arg : 1..Lots] \cup
            [ticket : Tickets, kind : {"modify"}, arg : 0..Top]

Listed == {t \in Tickets : list[t].volume > 0}
Stored == {t \in Tickets : positions[t].volume > 0}

TypeOK ==
  /\ opened \in SUBSET Tickets
  /\ volume \in [Tickets -> 0..Lots] /\ stop \in [Tickets -> 0..Top]
  /\ positions \in [Tickets -> Copy] /\ shared \in BOOLEAN
  /\ telemetry \in [Tickets -> Modes \cup {"none", "ALGO"}]
  /\ at \in Places /\ list \in [Tickets -> Copy]
  /\ todo \in SUBSET Tickets /\ cur \in Tickets \cup {NoTicket}
  /\ modes \in [Tickets -> Modes \cup {"none", "ALGO"}]
  /\ kept \in [Tickets -> Modes \cup {"none", "ALGO"}]
  /\ manual_mode \in Modes /\ mode \in Modes \cup {"ALGO"} /\ pinning \in BOOLEAN
  /\ partial \in SUBSET Tickets /\ late \in SUBSET Requests
  /\ parts \in [Tickets -> Nat] /\ unheard \in [Tickets -> Nat]
  /\ cut \in SUBSET Tickets /\ miscut \in SUBSET Tickets
  /\ command \in [Tickets -> {"no", "set", "quiet"}] /\ meddled \in SUBSET Tickets
  /\ restarts \in Nat /\ events \in Nat

Init ==
  /\ opened = {} /\ volume = [t \in Tickets |-> 0] /\ stop = [t \in Tickets |-> 0]
  /\ positions = [t \in Tickets |-> Absent] /\ shared = FALSE
  /\ telemetry = [t \in Tickets |-> "none"]
  /\ at = "sleep" /\ list = [t \in Tickets |-> Absent]
  /\ todo = {} /\ cur = NoTicket
  /\ modes = [t \in Tickets |-> "none"] /\ kept = [t \in Tickets |-> "none"]
  /\ manual_mode = "AUTO_PILOT" /\ mode = "ALGO" /\ pinning = FALSE
  /\ partial = {} /\ late = {}
  /\ parts = [t \in Tickets |-> 0] /\ unheard = [t \in Tickets |-> 0]
  /\ cut = {} /\ miscut = {}
  /\ command = [t \in Tickets |-> "no"] /\ meddled = {}
  /\ restarts = 0 /\ events = 0

Event == events < MaxEvents /\ events' = events + 1

-----------------------------------------------------------------------------
(* Calls to the broker.                                                    *)

\* Mutant: the stop is set back by one step more than the distance demands.
Clamped_TooFar(t, request) ==
  IF request = 0 THEN {0}
  ELSE {s \in 1..request : s = request \/ s >= stop[t] - MinDist}

\* What modify_position makes of a requested stop: no closer to the price than
\* MinDist.  The price is above the stop in force, at which the clamp does not look.
Clamped(t, request) ==
  IF request = 0 THEN {0}
  ELSE {s \in 1..request : s = request \/ s >= stop[t] + 1 - MinDist}

\* Mutant: the volume asked for is not compared with the one there is.
Remaining_Unchecked(t, lots) == volume[t] - lots

\* A close of a part that is at least the open volume closes the position.
Remaining(t, lots) == IF lots < volume[t] THEN volume[t] - lots ELSE 0
ForgetStop(t, rest) == stop' = IF rest = 0 THEN [stop EXCEPT ![t] = 0] ELSE stop

\* The broker executes a close of so many lots; partial closes ask for fewer
\* than the position had when it opened, the others for all.
ExecuteClose(t, lots) ==
  /\ volume[t] > 0
  /\ volume' = [volume EXCEPT ![t] = Remaining(t, lots)]
  /\ ForgetStop(t, Remaining(t, lots))
  /\ parts' = [parts EXCEPT ![t] = @ + (IF lots < Lots THEN 1 ELSE 0)]

ExecuteModify(t, request) ==
  /\ volume[t] > 0
  /\ \E s \in Clamped(t, request) : stop' = [stop EXCEPT ![t] = s]

\* The call is over its time: it answers FAILED and stays with its worker.
TimesOut(t, kind, arg) ==
  /\ Event
  /\ late' = late \cup {[ticket |-> t, kind |-> kind, arg |-> arg]}

Touch(t) ==
  meddled' = IF command[t] = "quiet" THEN meddled \cup {t} ELSE meddled

\* close_position and modify_position as their caller sees them: "done" is
\* executed and answered, anything else answers FAILED.
Close(t, lots, done) ==
  /\ Touch(t) /\ UNCHANGED <<opened, unheard, restarts, cuts, command>>
  /\ \/ done /\ ExecuteClose(t, lots) /\ UNCHANGED <<late, events>>
     \/ /\ ~done /\ UNCHANGED <<volume, stop, parts>>
        /\ UNCHANGED <<late, events>> \/ TimesOut(t, "close", lots)

Modify(t, request, done) ==
  /\ Touch(t) /\ UNCHANGED <<opened, volume, book, cuts, command>>
  /\ \/ done /\ ExecuteModify(t, request) /\ UNCHANGED <<late, events>>
     \/ /\ ~done /\ UNCHANGED stop
        /\ UNCHANGED <<late, events>> \/ TimesOut(t, "modify", request)

NoCall == UNCHANGED <<broker, late, book, cuts, orders, events>>

\* The worker of a call that timed out gets through to the broker, or does not.
LateCall(r) ==
  /\ r \in late /\ late' = late \ {r}
  /\ UNCHANGED <<opened, store, tick, modeVars, partial, restarts, cuts, orders, events>>
  /\ \/ /\ r.kind = "close" /\ ExecuteClose(r.ticket, r.arg)
        /\ unheard' = [unheard EXCEPT ![r.ticket] = @ + 1]
     \/ /\ r.kind = "modify" /\ ExecuteModify(r.ticket, r.arg)
        /\ UNCHANGED <<volume, parts, unheard>>
     \/ UNCHANGED <<volume, stop, parts, unheard>>

-----------------------------------------------------------------------------
(* What happens around the monitor.                                        *)

\* Orders of this program carry a stop; those of a trader need not.
Open(t, s) ==
  /\ t \notin opened /\ (s > 0 \/ t \in Manual)
  /\ opened' = opened \cup {t}
  /\ volume' = [volume EXCEPT ![t] = Lots]
  /\ stop' = [stop EXCEPT ![t] = s]
  /\ UNCHANGED <<store, tick, modeVars, partial, late, book, cuts, orders, events>>

\* Stop, target, the trader or another caller ends the position.
EndedElsewhere(t) ==
  /\ volume[t] > 0 /\ volume' = [volume EXCEPT ![t] = 0] /\ ForgetStop(t, 0)
  /\ UNCHANGED <<opened, store, tick, modeVars, partial, late, book, cuts, orders, events>>

\* The trader or another caller closes a part of it, which nobody tells the
\* monitor: the next read shows what is left.
PartElsewhere(t, lots) ==
  /\ lots < volume[t] /\ Event
  /\ volume' = [volume EXCEPT ![t] = @ - lots]
  /\ cut' = cut \cup ({t} \cap Stored) /\ miscut' = miscut \cup ({t} \cap Listed)
  /\ UNCHANGED <<opened, stop, store, tick, modeVars, partial, late, book, orders>>

\* The trader or another caller of the client moves the stop.
MovedElsewhere(t, s) ==
  /\ volume[t] > 0 /\ Event
  /\ stop' = [stop EXCEPT ![t] = s]
  /\ UNCHANGED <<opened, volume, store, tick, modeVars, partial, late, book, cuts,
                 orders>>

\* update_positions stores a new list and drops the telemetry of what is not in
\* it.  A read that failed is an empty list.
Store(read) ==
  /\ positions' = read /\ shared' = FALSE
  /\ telemetry' = [t \in Tickets |-> IF read[t].volume > 0 THEN telemetry[t] ELSE "none"]
  /\ cut' = {}
  /\ UNCHANGED <<broker, tick, modeVars, partial, late, book, miscut, orders, events>>

Sync ==
  Store([t \in Tickets |->
           IF volume[t] > 0 THEN [volume |-> volume[t], stop |-> stop[t]] ELSE Absent])
FailedRead == Store([t \in Tickets |-> Absent])

\* The operator sets the mode of one trade on the desk, or of all others.
SetMode(t, m) ==
  /\ t \in Stored /\ Event
  /\ modes' = [modes EXCEPT ![t] = m]
  /\ telemetry' = [telemetry EXCEPT ![t] = m]
  /\ command' = [command EXCEPT ![t] =
       IF m = "OFF" /\ t \in Manual /\ at # "prune" /\ ~(pinning /\ cur = t)
       THEN "set" ELSE "no"]
  /\ UNCHANGED <<broker, positions, shared, tick, kept, manual_mode, mode, pinning,
                 partial, late, book, cuts, meddled>>

SetGlobalMode(m) ==
  /\ Event /\ manual_mode' = m
  /\ UNCHANGED <<broker, store, tick, modes, kept, mode, pinning, partial, late, book,
                 cuts, orders>>

\* Everything the monitor and the store know is memory of the process.
Restart ==
  /\ Event /\ restarts' = restarts + 1
  /\ positions' = [t \in Tickets |-> Absent] /\ shared' = FALSE
  /\ telemetry' = [t \in Tickets |-> "none"]
  /\ at' = "sleep" /\ list' = [t \in Tickets |-> Absent] /\ todo' = {} /\ cur' = NoTicket
  /\ modes' = [t \in Tickets |-> "none"] /\ kept' = [t \in Tickets |-> "none"]
  /\ manual_mode' = "AUTO_PILOT" /\ mode' = "ALGO" /\ pinning' = FALSE
  /\ partial' = {} /\ late' = {}
  /\ command' = [t \in Tickets |-> "no"] /\ cut' = {} /\ miscut' = {}
  /\ UNCHANGED <<broker, parts, unheard, meddled>>

-----------------------------------------------------------------------------
(* A tick of the monitor.                                                  *)

Outside == UNCHANGED <<broker, store, late, book, cuts, events>>

\* The list is read once; an empty one ends the tick before anything is pruned.
ReadPositions ==
  /\ at = "sleep" /\ Stored # {}
  /\ at' = "prune" /\ list' = positions /\ shared' = TRUE
  /\ kept' = [t \in Tickets |-> IF t \in Stored THEN modes[t] ELSE "none"]
  /\ command' = [t \in Tickets |-> IF command[t] = "set" THEN "quiet" ELSE command[t]]
  /\ miscut' = cut
  /\ UNCHANGED <<broker, positions, telemetry, todo, cur, modes, manual_mode, mode,
                 pinning, partial, late, book, cut, meddled, events>>

\* The registries are replaced by copies without the tickets that are gone.
Prune ==
  /\ at = "prune" /\ at' = "protocols" /\ todo' = Listed
  /\ modes' = kept /\ kept' = [t \in Tickets |-> "none"]
  /\ partial' = partial \cap Listed
  /\ Outside /\ UNCHANGED <<list, cur, manual_mode, mode, pinning, orders>>

\* get_manual_mode: the mode of its own, or the one in the telemetry, which the
\* caller is about to store as its own, or the global one.
Pins(t) == modes[t] = "none" /\ telemetry[t] # "none"

\* Mutant: the telemetry comes before the mode of its own.
ModeOf_TelemetryFirst(t) ==
  IF telemetry[t] # "none" THEN telemetry[t]
  ELSE IF modes[t] # "none" THEN modes[t] ELSE manual_mode

ModeOf(t) == IF modes[t] # "none" THEN modes[t]
             ELSE IF telemetry[t] # "none" THEN telemetry[t] ELSE manual_mode

\* The next position of the list, and the mode it is managed in.
Visit(t) ==
  /\ at \in {"protocols", "manage"} /\ cur = NoTicket /\ t \in todo
  /\ cur' = t /\ todo' = todo \ {t}
  /\ mode' = IF t \in Manual THEN ModeOf(t) ELSE "ALGO"
  /\ pinning' = (t \in Manual /\ Pins(t))
  /\ Outside /\ UNCHANGED <<at, list, modes, kept, manual_mode, partial, orders>>

Pin ==
  /\ pinning /\ pinning' = FALSE
  /\ modes' = [modes EXCEPT ![cur] = mode]
  /\ Outside /\ UNCHANGED <<tick, kept, manual_mode, mode, partial, orders>>

\* The position is at this place of its visit.
Visiting(place) == at = place /\ cur # NoTicket /\ ~pinning

Goto(place) == at' = place /\ UNCHANGED <<list, todo, cur, visit>>
Leave ==
  /\ at' = IF at = "protocols" THEN at ELSE "manage"
  /\ cur' = NoTicket /\ mode' = "ALGO"
  /\ UNCHANGED <<list, todo, pinning>>

\* The pass over the list is over.
EndPass ==
  /\ at \in {"protocols", "manage"} /\ cur = NoTicket /\ todo = {}
  /\ at' = IF at = "protocols" THEN "ladder" ELSE "sleep"
  /\ list' = IF at = "protocols" THEN list ELSE [t \in Tickets |-> Absent]
  /\ shared' = (shared /\ at = "protocols")
  /\ miscut' = IF at = "protocols" THEN miscut ELSE {}
  /\ UNCHANGED <<broker, positions, telemetry, todo, cur, modeVars, partial, late,
                 book, cut, orders, events>>

\* _execute_exit asks for the mode once more: of the manual trades only those on
\* AUTO_PILOT may be closed, or on TRAIL to bank a profit.
MayExit(t, m, banking) ==
  t \notin Manual \/ m = "AUTO_PILOT" \/ (m = "TRAIL" /\ banking)

\* An exit: suppressed by the mode or the grace period, or a close that is done
\* or not.  The mode it reads is stored like that of Visit.
Exit(t, banking, done) ==
  /\ modes' = IF t \in Manual /\ Pins(t) THEN [modes EXCEPT ![t] = ModeOf(t)] ELSE modes
  /\ \/ ~done /\ NoCall
     \/ MayExit(t, ModeOf(t), banking) /\ Close(t, Lots, done)

\* Event and weekend protection.  The list keeps the stop it was read with.
Protected(t) == t \notin Manual \/ mode \in {"AUTO_PILOT", "TRAIL"}

PassBy ==
  /\ Visiting("protocols") /\ Leave
  /\ NoCall /\ UNCHANGED <<store, registry, partial>>

Bank(done) ==
  /\ Visiting("protocols") /\ Protected(cur) /\ Leave
  /\ Exit(cur, TRUE, done)
  /\ UNCHANGED <<store, kept, manual_mode, partial>>

Floor(s, done) ==
  /\ Visiting("protocols") /\ Protected(cur) /\ Leave
  /\ s > list[cur].stop /\ Modify(cur, s, done)
  /\ UNCHANGED <<store, registry, partial>>

\* The margin ladder closes the largest loser of the positions it may close (the
\* pass before it has stored every mode there was to store).
Expendable == {t \in Listed : t \notin Manual \/ ModeOf(t) = "AUTO_PILOT"}

Ladder(closing, done) ==
  /\ at = "ladder" /\ at' = "manage" /\ todo' = Listed /\ UNCHANGED <<list, cur>>
  /\ IF closing = NoTicket THEN NoCall
     ELSE closing \in Expendable /\ Close(closing, Lots, done)
  /\ UNCHANGED <<store, modeVars, partial>>

\* The management of one position.  Without market data it is skipped.
NoContext(t) ==
  /\ at = "manage" /\ cur = NoTicket /\ t \in todo /\ todo' = todo \ {t}
  /\ Outside /\ UNCHANGED <<at, list, cur, modeVars, partial, orders>>

\* A manual trade without stop or with a far one is given a stop, whichever side
\* of the old one; one without target is sent its listed stop again.  The copy is
\* updated when the broker has confirmed, in the store too if that has not been
\* replaced meanwhile.
Protect(s, done) ==
  /\ Visiting("manage") /\ cur \in Manual /\ mode # "OFF"
  /\ s > 0 \/ list[cur].stop > 0
  /\ Modify(cur, s, done)
  /\ at' = "partial" /\ UNCHANGED <<todo, cur, visit>>
  /\ list' = IF done THEN [list EXCEPT ![cur].stop = s] ELSE list
  /\ positions' = IF done /\ shared THEN [positions EXCEPT ![cur].stop = s] ELSE positions
  /\ UNCHANGED <<shared, telemetry, modeVars, partial>>

NothingMissing ==
  /\ Visiting("manage") /\ Goto("partial")
  /\ NoCall /\ UNCHANGED <<store, registry, partial>>

\* A blown-out spread ends the visit; the emergency brake goes straight to the
\* stop.
BlowOut ==
  /\ Visiting("partial") /\ Leave
  /\ NoCall /\ UNCHANGED <<store, registry, partial>>
Brake ==
  /\ Visiting("partial") /\ Goto("dispatch")
  /\ NoCall /\ UNCHANGED <<store, registry, partial>>

\* Mutant: the trigger does not look whether a part was taken before.
PartialDue_Again(lots) ==
  mode \in {"ALGO", "AUTO_PILOT"} /\ lots \in 1..(list[cur].volume - 1)

\* Both the part and the rest are at least a minimal lot.
PartialDue(lots) ==
  /\ mode \in {"ALGO", "AUTO_PILOT"} /\ cur \notin partial
  /\ lots \in 1..(list[cur].volume - 1)

\* Mutant: the ticket is not marked.
TakePartial_Unmarked(lots, done) ==
  /\ Visiting("partial") /\ PartialDue(lots) /\ Goto("early")
  /\ Close(cur, lots, done)
  /\ UNCHANGED <<store, registry, partial>>

TakePartial(lots, done) ==
  /\ Visiting("partial") /\ PartialDue(lots) /\ Goto("early")
  /\ Close(cur, lots, done)
  /\ partial' = IF done THEN partial \cup {cur} ELSE partial
  /\ UNCHANGED <<store, registry>>

\* The broker's minimal lot does not allow the split: never ask again.
CannotSplit ==
  /\ Visiting("partial") /\ PartialDue(1) /\ Goto("early")
  /\ partial' = partial \cup {cur}
  /\ NoCall /\ UNCHANGED <<store, registry>>

NoPartial ==
  /\ Visiting("partial") /\ Goto("early")
  /\ NoCall /\ UNCHANGED <<store, registry, partial>>

\* The order-flow shield leaves whether it could close or not; the time stop goes
\* on when it could not.
EarlyExit(done) ==
  /\ Visiting("early") /\ Leave
  /\ Exit(cur, FALSE, done)
  /\ UNCHANGED <<store, kept, manual_mode, partial>>

TimeStopFails ==
  /\ Visiting("early") /\ UNCHANGED <<at, list, todo, cur>>
  /\ MayExit(cur, ModeOf(cur), FALSE) /\ Close(cur, Lots, FALSE)
  /\ UNCHANGED <<store, modeVars, partial>>

\* enrich_position_telemetry, with the mode read at the start of the visit.
Enrich ==
  /\ Visiting("early") /\ Goto("exits")
  /\ telemetry' = [telemetry EXCEPT ![cur] = mode]
  /\ NoCall /\ UNCHANGED <<positions, shared, registry, partial>>

\* Harvest near the target, reversal, stagnation: the visit is over when the
\* position is closed, and after stagnation in any case.
LateExit(banking, done, leaving) ==
  /\ Visiting("exits") /\ (done => leaving)
  /\ IF leaving THEN Leave ELSE UNCHANGED <<tick, visit>>
  /\ Exit(cur, banking, done)
  /\ UNCHANGED <<store, kept, manual_mode, partial>>

Decide ==
  /\ Visiting("exits") /\ Goto("dispatch")
  /\ NoCall /\ UNCHANGED <<store, registry, partial>>

\* Mutant: a modification of the target alone does not repeat the stop.
Ratchet_TargetOnly(s) == s \in {0} \cup list[cur].stop..Top

\* Whatever the steps have proposed, the stop that is sent is not behind the one
\* the position had when the list was read.
Ratchet(s) == s \in list[cur].stop..Top

\* The stop, or a new target with the listed stop, is sent unless the mode leaves
\* the trade to the operator.
Dispatch(s, done) ==
  /\ Visiting("dispatch") /\ Leave
  /\ mode \notin {"PROTECT_ONLY", "OFF"}
  /\ Ratchet(s) /\ Modify(cur, s, done)
  /\ UNCHANGED <<store, registry, partial>>

Unchanged ==
  /\ Visiting("dispatch") /\ Leave
  /\ NoCall /\ UNCHANGED <<store, registry, partial>>

-----------------------------------------------------------------------------
Monitor ==
  \/ ReadPositions \/ Prune \/ Pin \/ EndPass \/ PassBy \/ NothingMissing
  \/ BlowOut \/ Brake \/ CannotSplit \/ NoPartial \/ Enrich \/ Decide \/ Unchanged
  \/ TimeStopFails
  \/ \E t \in Tickets : Visit(t) \/ NoContext(t)
  \/ \E done \in BOOLEAN :
       \/ Bank(done) \/ EarlyExit(done)
       \/ \E s \in 1..Top : Floor(s, done)
       \/ \E s \in 0..Top : Protect(s, done) \/ Dispatch(s, done)
       \/ \E t \in Tickets \cup {NoTicket} : Ladder(t, done)
       \/ \E lots \in 1..Lots : TakePartial(lots, done)
       \/ \E banking, leaving \in BOOLEAN : LateExit(banking, done, leaving)

Environment ==
  \/ Sync \/ FailedRead \/ Restart
  \/ \E t \in Tickets :
       \/ EndedElsewhere(t)
       \/ \E lots \in 1..Lots : PartElsewhere(t, lots)
       \/ \E s \in 0..Top : Open(t, s) \/ MovedElsewhere(t, s)
       \/ \E m \in Modes : SetMode(t, m)
  \/ \E m \in Modes : SetGlobalMode(m)
  \/ \E r \in late : LateCall(r)

Next == Monitor \/ Environment

Spec == Init /\ [][Next]_vars

-----------------------------------------------------------------------------
\* A trade the operator has switched off is left alone: no tick that begins after
\* the command calls the broker about it, whatever modes and telemetry were read,
\* copied or written back by ticks and reads around it.  (set_manual_mode
\* against get_manual_mode, the pruning and enrich_position_telemetry.)
OffIsRespected == meddled = {}

\* A position gives at most one part in the life of the process, unless a partial
\* close was executed that the monitor had been told had failed.
\* (_partially_closed_tickets against stale lists, failed reads and time-outs.)
PartialsBounded ==
  \A t \in Tickets : parts[t] <= 1 + unheard[t] + restarts

\* A partial close leaves a runner: it never closes the whole position, although
\* it is sized from a volume read earlier, unless someone else has closed a part
\* since that read, or a close was executed that the monitor had been told had
\* failed.  (The split of the listed volume against close_position, which takes
\* what there is.)
RunnerRemains ==
  [][\A t \in Tickets :
       parts'[t] > parts[t] /\ volume'[t] = 0 => unheard'[t] > 0 \/ t \in miscut]_vars

\* The floors and the ratchet never leave a position with a stop that is behind
\* the listed one and also, by the broker's distance or more, behind the stop in
\* force, whoever has moved that since; and they never take away a stop they have
\* seen.  (The guards of _manage_single_position, whose comment says "never move
\* backward", against the clamp of modify_position.)
StopHolds ==
  [][\A t \in Tickets :
       /\ at \in {"protocols", "dispatch"} /\ cur = t /\ cur' # t
       /\ stop'[t] # stop[t] /\ volume'[t] > 0
       => /\ stop'[t] >= list[t].stop \/ stop'[t] > stop[t] - MinDist
          /\ stop'[t] = 0 => list[t].stop = 0]_vars
=============================================================================
