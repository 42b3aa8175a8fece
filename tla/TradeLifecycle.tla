--------------------------- MODULE TradeLifecycle ---------------------------
(***************************************************************************)
(* How a trade gets into the journal and its outcome to the learning loop  *)
(* and the circuit breaker: jarvis/execution/state_synchronizer.py, the    *)
(* handlers of its events in jarvis/application/orchestrator.py, and the   *)
(* table trade_records of jarvis/learning/trade_memory.py.                 *)
(*                                                                         *)
(* The order thread sends orders and records their context; the            *)
(* synchronizer thread compares the broker's book with the tickets of its  *)
(* last pass and handles the differences; two threads cancel stale limit   *)
(* orders; the process may end at any point and boots again with nothing   *)
(* but the table.  A step ends where another thread, a crash or an         *)
(* exception can come between.  Live and demo modes only: paper positions  *)
(* have no deals.                                                          *)
(***************************************************************************)
EXTENDS Integers

CONSTANTS
  Tickets,      \* order tickets; a position keeps its order's ticket
  NoTicket,     \* no ticket is being handled
  Commission,   \* whether the deal that opens a position costs a commission
  MaxRestarts,  \* bound of the runs: ends of the process
  MaxBadReads,  \* bound of the runs: position reads that fail
  MaxFaults     \* bound of the runs: exceptions in a handler or in the record of a context

ASSUME LifecycleAssumption ==
  /\ NoTicket \notin Tickets
  /\ Commission \in BOOLEAN
  /\ MaxRestarts \in Nat /\ MaxBadReads \in Nat /\ MaxFaults \in Nat

VARIABLES
  book,      \* the broker: what became of each order
  stage,     \* order thread: orders answered, context not yet recorded
  row,       \* trade_records: no row, outcome NULL ("open"), outcome stored
  deferred,  \* _pending_trade_memory
  last,      \* _last_position_tickets
  phase,     \* synchronizer: where in its pass, or in the boot
  current,   \* sync_once: current_tickets
  todo,      \* closed tickets the pass (or the boot) has still to handle
  handling, verdict,   \* _on_trade_closed: its ticket and measured outcome
  cancelled, \* tickets whose cancellation is confirmed, intent not discarded
  counted,   \* history: outcomes of each ticket counted by the breaker
  told,      \* history: the last outcome it counted of each ticket
  misread,   \* history: tickets open at the broker that a failed read left out
  cut,       \* history: tickets whose handler ended between journal and breaker
  unread,    \* history: closes of this life without deals or journal write
  late,      \* history: tickets whose close was handled before their context was recorded
  orphans,   \* history: tickets without a context, or whose context was lost
  restarts, bad_reads, faults   \* history: what the bounds are about

broker  == << book >>
orders  == << stage, cancelled >>
pass    == << phase, current, todo >>
handler == << handling, verdict >>
bounds  == << restarts, bad_reads, faults >>
history == << counted, told, misread, cut, unread, late, orphans, bounds >>
vars == << broker, orders, row, deferred, last, pass, handler, history >>

Endings == {"won", "lost", "flat"}
Trades  == {"open"} \cup Endings
Books   == {"none", "resting", "gone"} \cup Trades
Phases  == {"boot", "reconcile", "idle", "pass"}

OpenNow == {t \in Tickets : book[t] = "open"}
Ended(t) == book[t] \in Endings

TypeOK ==
  /\ book \in [Tickets -> Books]
  /\ stage \in [Tickets -> {"idle", "FILLED", "PLACED"}]
  /\ row \in [Tickets -> {"none", "open", "closed"}]
  /\ deferred \subseteq Tickets /\ last \subseteq Tickets
  /\ phase \in Phases
  /\ current \subseteq Tickets /\ todo \subseteq Tickets
  /\ handling \in Tickets \cup {NoTicket}
  /\ verdict \in Endings
  /\ cancelled \subseteq Tickets
  /\ counted \in [Tickets -> Nat]
  /\ told \in [Tickets -> {"none"} \cup Endings]
  /\ misread \subseteq Tickets /\ cut \subseteq Tickets
  /\ unread \subseteq Tickets /\ late \subseteq Tickets /\ orphans \subseteq Tickets
  /\ restarts \in Nat /\ bad_reads \in Nat /\ faults \in Nat

Init ==
  /\ book = [t \in Tickets |-> "none"]
  /\ stage = [t \in Tickets |-> "idle"]
  /\ row = [t \in Tickets |-> "none"]
  /\ deferred = {} /\ last = {}
  /\ phase = "boot" /\ current = {} /\ todo = {}
  /\ handling = NoTicket /\ verdict = "flat"
  /\ cancelled = {}
  /\ counted = [t \in Tickets |-> 0]
  /\ told = [t \in Tickets |-> "none"]
  /\ misread = {} /\ cut = {} /\ unread = {} /\ late = {} /\ orphans = {}
  /\ restarts = 0 /\ bad_reads = 0 /\ faults = 0

\* The engine has started: all its threads run.
Running == phase \in {"idle", "pass"}

Fault == faults < MaxFaults /\ faults' = faults + 1

-----------------------------------------------------------------------------
(* The order thread and the broker.                                        *)

\* execute_decision returns FILLED or PLACED with the ticket.
Send(t, status) ==
  /\ Running /\ book[t] = "none"
  /\ book' = [book EXCEPT ![t] = IF status = "FILLED" THEN "open" ELSE "resting"]
  /\ stage' = [stage EXCEPT ![t] = status]
  /\ UNCHANGED << row, deferred, last, pass, handler, cancelled, history >>

\* A position or order that the engine has no context for: an order that timed
\* out (status UNKNOWN), or one sent by hand.
Foreign(t) ==
  /\ book[t] = "none"
  /\ \E b \in {"open", "resting"} : book' = [book EXCEPT ![t] = b]
  /\ orphans' = orphans \cup {t}
  /\ UNCHANGED << orders, row, deferred, last, pass, handler, counted, told, misread,
                  cut, unread, late, bounds >>

\* Mutant: an order that only rests is journaled like a trade.
RecordContext_Eager(t) ==
  /\ stage[t] # "idle"
  /\ stage' = [stage EXCEPT ![t] = "idle"]
  /\ row' = [row EXCEPT ![t] = "open"]
  /\ UNCHANGED << broker, deferred, last, pass, handler, cancelled, history >>

\* _record_open_trade_context: a filled order gets its row (INSERT OR REPLACE),
\* the payload of a resting one waits in memory for POSITION_OPENED.
RecordContext(t) ==
  /\ stage[t] # "idle"
  /\ stage' = [stage EXCEPT ![t] = "idle"]
  /\ \/ /\ stage[t] = "FILLED"
        /\ row' = [row EXCEPT ![t] = "open"]
        /\ UNCHANGED deferred
     \/ /\ stage[t] = "PLACED"
        /\ deferred' = deferred \cup {t}
        /\ UNCHANGED row
  /\ UNCHANGED << broker, last, pass, handler, cancelled, history >>

\* It raises, as its journal write may; the order thread logs it and goes on.
RecordRaises(t) ==
  /\ stage[t] # "idle"
  /\ Fault
  /\ stage' = [stage EXCEPT ![t] = "idle"]
  /\ orphans' = orphans \cup {t}
  /\ UNCHANGED << broker, row, deferred, last, pass, handler, cancelled, counted, told,
                  misread, cut, unread, late, restarts, bad_reads >>

Fill(t) ==
  /\ book[t] = "resting"
  /\ book' = [book EXCEPT ![t] = "open"]
  /\ UNCHANGED << orders, row, deferred, last, pass, handler, history >>

\* A stop, a target, the position monitor or a human closes the position; its
\* closing deal is in the history from then on.
Close(t) ==
  /\ book[t] = "open"
  /\ \E e \in Endings : book' = [book EXCEPT ![t] = e]
  /\ UNCHANGED << orders, row, deferred, last, pass, handler, history >>

\* Mutant: the answer to the cancellation is not looked at, and the order may
\* have filled.
CancelStale_Unchecked(t) ==
  /\ Running /\ book[t] \in {"resting", "open"}
  /\ book' = [book EXCEPT ![t] = IF @ = "resting" THEN "gone" ELSE @]
  /\ cancelled' = cancelled \cup {t}
  /\ UNCHANGED << stage, row, deferred, last, pass, handler, history >>

\* cleanup_stale_pending_orders, by the watchdog or the orchestrator's loop: the
\* broker confirms the cancellation of an order that still rests.
CancelStale(t) ==
  /\ Running /\ book[t] = "resting"
  /\ book' = [book EXCEPT ![t] = "gone"]
  /\ cancelled' = cancelled \cup {t}
  /\ UNCHANGED << stage, row, deferred, last, pass, handler, history >>

\* _discard_pending_intent of a confirmed cancellation.
DiscardIntent(t) ==
  /\ t \in cancelled
  /\ cancelled' = cancelled \ {t}
  /\ deferred' = deferred \ {t}
  /\ row' = IF row[t] = "open" THEN [row EXCEPT ![t] = "none"] ELSE row
  /\ UNCHANGED << broker, stage, last, pass, handler, history >>

\* The position monitor, an emergency stop, a human or the broker cancels it:
\* the deferred intent is not discarded.
CancelElsewhere(t) ==
  /\ book[t] = "resting"
  /\ book' = [book EXCEPT ![t] = "gone"]
  /\ UNCHANGED << orders, row, deferred, last, pass, handler, history >>

-----------------------------------------------------------------------------
(* Boot and synchronizer.                                                  *)

\* get_open_positions answers with the book or, when the broker lock is busy,
\* the link is down or anything raises, with an empty list.
ReadsAs(read) ==
  \/ /\ read = OpenNow
     /\ UNCHANGED << bad_reads, misread >>
  \/ /\ bad_reads < MaxBadReads /\ OpenNow # {}
     /\ read = {}
     /\ bad_reads' = bad_reads + 1
     /\ misread' = misread \cup OpenNow

\* The process ends, at any point, and comes back with the table only.
Restart ==
  /\ restarts < MaxRestarts
  /\ restarts' = restarts + 1
  /\ phase' = "boot"
  /\ stage' = [t \in Tickets |-> "idle"]
  /\ cut' = cut \cup ({handling} \ {NoTicket})
  /\ orphans' = orphans \cup deferred \cup {t \in Tickets : stage[t] # "idle"}
  /\ deferred' = {} /\ last' = {} /\ current' = {} /\ todo' = {} /\ cancelled' = {}
  /\ handling' = NoTicket /\ verdict' = "flat" /\ unread' = {}
  /\ UNCHANGED << broker, row, counted, told, misread, late, bad_reads, faults >>

\* Mutant: the boot forgets the trades that ended meanwhile (the code before
\* reconciliation was written).
Stale_None(open) == {}

\* Mutant: the boot settles every open row without looking at the book.
Stale_All(open) == {t \in Tickets : row[t] = "open"}

\* Journal rows without an outcome whose position is not in the book.
Stale(open) == {t \in Tickets : row[t] = "open" /\ t \notin open}

\* _reconcile_positions_closed_while_down reads book and journal.
BootRead ==
  /\ phase = "boot"
  /\ phase' = "reconcile"
  /\ \E read \in SUBSET Tickets : ReadsAs(read) /\ last' = read /\ todo' = Stale(read)
  /\ UNCHANGED << broker, orders, row, deferred, current, handler, counted, told, cut,
                  unread, late, orphans, restarts, faults >>

StartThreads ==
  /\ phase = "reconcile" /\ todo = {}
  /\ phase' = "idle"
  /\ UNCHANGED << broker, orders, row, deferred, last, current, todo, handler, history >>

\* sync_once reads the book and compares.
PassRead ==
  /\ phase = "idle"
  /\ phase' = "pass"
  /\ \E read \in SUBSET Tickets :
       ReadsAs(read) /\ current' = read /\ todo' = last \ read
  /\ UNCHANGED << broker, orders, row, deferred, last, handler, counted, told, cut,
                  unread, late, orphans, restarts, faults >>

\* Done with t, one way or the other.
Forget(t) == todo' = todo \ {t} /\ last' = last \ {t}

\* The deal history has nothing, or cannot be read: no trade_closed is sent.
NoDeals(t) ==
  /\ handling = NoTicket /\ t \in todo
  /\ Forget(t)
  /\ unread' = unread \cup {t}
  /\ UNCHANGED << broker, orders, row, deferred, phase, current, handler, counted, told,
                  misread, cut, late, orphans, bounds >>

\* Mutant: what the book says of the ticket is taken for its outcome.
Measured_Book(t) == book[t]

\* The sum of all deals of the ticket.  A position that is still open has only
\* the deal that opened it.
Measured(t) == IF Ended(t) THEN book[t] ELSE IF Commission THEN "lost" ELSE "flat"

\* Mutant: the deferred payload is not looked for.
Journaled_RowsOnly(t) == IF row[t] # "none" THEN [row EXCEPT ![t] = "closed"] ELSE row

\* update_closed_trade, or record_trade with the deferred payload.
Journaled(t) ==
  IF row[t] # "none" \/ t \in deferred THEN [row EXCEPT ![t] = "closed"] ELSE row

\* _on_trade_closed up to its journal writes.
JournalClose(t) ==
  /\ handling = NoTicket /\ t \in todo
  /\ handling' = t
  /\ verdict' = Measured(t)
  /\ row' = Journaled(t)
  /\ deferred' = deferred \ {t}
  /\ late' = IF stage[t] # "idle" THEN late \cup {t} ELSE late
  /\ UNCHANGED << broker, orders, last, pass, counted, told, misread, cut, unread,
                  orphans, bounds >>

\* The journal write raises; the event bus logs it and the pass goes on.
JournalRaises(t) ==
  /\ handling = NoTicket /\ t \in todo
  /\ Fault
  /\ deferred' = deferred \ {t}
  /\ orphans' = orphans \cup (deferred \cap {t})
  /\ Forget(t)
  /\ unread' = unread \cup {t}
  /\ UNCHANGED << broker, orders, row, phase, current, handler, counted, told, misread,
                  cut, late, restarts, bad_reads >>

\* Mutant: only losses reach the breaker.
Counts_Losses(v) == v = "lost"

\* A break-even is no sample.
Counts(v) == v # "flat"

\* The rest of _on_trade_closed: learning, then breaker and loss cooldown.
CountOutcome ==
  /\ handling # NoTicket
  /\ IF Counts(verdict)
     THEN /\ counted' = [counted EXCEPT ![handling] = @ + 1]
          /\ told' = [told EXCEPT ![handling] = verdict]
     ELSE UNCHANGED << counted, told >>
  /\ Forget(handling)
  /\ handling' = NoTicket /\ verdict' = "flat"
  /\ UNCHANGED << broker, orders, row, deferred, phase, current, misread, cut, unread,
                  late, orphans, bounds >>

\* An exception in the learning steps keeps the outcome from the breaker.
LearningRaises ==
  /\ handling # NoTicket
  /\ Fault
  /\ cut' = cut \cup {handling}
  /\ Forget(handling)
  /\ handling' = NoTicket /\ verdict' = "flat"
  /\ UNCHANGED << broker, orders, row, deferred, phase, current, counted, told, misread,
                  unread, late, orphans, restarts, bad_reads >>

\* _on_position_opened finds a payload for these of the tickets newly seen.
Fresh == (current \ last) \cap deferred

\* The end of a pass: POSITION_OPENED journals the payloads, and puts one back
\* whose write raises.
EndPass ==
  /\ phase = "pass" /\ todo = {}
  /\ phase' = "idle"
  /\ \E kept \in SUBSET Fresh :
       /\ IF kept = {} THEN UNCHANGED faults ELSE Fault
       /\ deferred' = deferred \ (Fresh \ kept)
       /\ row' = [t \in Tickets |-> IF t \in Fresh \ kept THEN "open" ELSE row[t]]
  /\ last' = current
  /\ current' = {}
  /\ UNCHANGED << broker, orders, todo, handler, counted, told, misread, cut, unread,
                  late, orphans, restarts, bad_reads >>

-----------------------------------------------------------------------------
Next ==
  \/ \E t \in Tickets :
       \/ \E status \in {"FILLED", "PLACED"} : Send(t, status)
       \/ Foreign(t) \/ RecordContext(t) \/ RecordRaises(t) \/ Fill(t) \/ Close(t)
       \/ CancelStale(t) \/ DiscardIntent(t) \/ CancelElsewhere(t)
       \/ NoDeals(t) \/ JournalClose(t) \/ JournalRaises(t)
  \/ Restart \/ BootRead \/ StartThreads \/ PassRead
  \/ CountOutcome \/ LearningRaises \/ EndPass

Spec == Init /\ [][Next]_vars

-----------------------------------------------------------------------------
(* Properties.                                                             *)

\* "A pending order is an INTENT, not a trade" (631): a row of trade_records is
\* about an order that became a position, whatever was cancelled, restarted or
\* handled late.
RowsAreTrades == \A t \in Tickets : row[t] # "none" => book[t] \in Trades

Rank == [none |-> 0, open |-> 1, closed |-> 2]

\* A row of a trade is never removed, and an outcome once stored is never
\* erased: not by INSERT OR REPLACE, nor by delete_unfilled_intent.
RowsOnlyAdvance == [][ \A t \in Tickets : Rank[row'[t]] >= Rank[row[t]] ]_vars

\* A journaled trade that ended and has not been counted is still going to be:
\* the synchronizer has its ticket, or the next boot finds its row without an
\* outcome.  The exceptions are the handlers cut off between journal and breaker
\* and break-evens (and the phantom closes of failed reads).
OutcomeRecoverable ==
  \A t \in Tickets :
    /\ Ended(t) /\ book[t] # "flat" /\ row[t] # "none" /\ counted[t] = 0
    /\ t \notin cut \cup misread
    => row[t] = "open" \/ t \in last \/ handling = t

\* No outcome is counted twice, restarts included, unless a failed read closed
\* the trade early or its close was handled before its row was written.
CountedOnce == \A t \in Tickets \ (misread \cup late) : counted[t] <= 1

\* When the threads start, every journal row without an outcome is about a
\* position that the synchronizer watches, or its deals could not be had: "On
\* startup we seed the synchronizer from the live book and close any remaining
\* open journal row from its deal history" (314-315).
BootSettlesJournal ==
  [][ phase = "reconcile" /\ phase' = "idle"
        => \A t \in Tickets : row[t] = "open" => t \in last \cup unread ]_vars

\* "a data gap registered as a LOSS and could help trip the circuit breaker on
\* losses that were never observed. Withhold the sample instead" (960-962): a
\* loss is counted only for a position that was closed at a loss.
NoUnobservedLoss ==
  [][ counted' # counted /\ verdict = "lost" => book[handling] = "lost" ]_vars

-----------------------------------------------------------------------------
(* The abstract journal this implements.                                   *)

\* How each trade stands at the broker; an order is no trade yet.
Market == [t \in Tickets |-> IF book[t] \in Trades THEN book[t] ELSE "none"]

\* Trades of which the journal can promise nothing: a failed read took them for
\* closed, they closed before their context was recorded, or they have none.
Disowned == misread \cup late \cup orphans

Ledger == INSTANCE TradeLedger WITH
  market <- Market, entry <- row, samples <- counted, disowned <- Disowned

\* Whatever fails, is restarted or comes in another order, each trade with a
\* context is entered once it is a trade, settled once it has ended, and counted
\* by the breaker once, after that, with the outcome it had (631, 773-997).
ImplementsLedger == Ledger!Spec
=============================================================================
