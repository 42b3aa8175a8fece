---------------------------- MODULE RiskAuthority ----------------------------
(***************************************************************************)
(* jarvis/risk/drawdown.py and the parts of risk_engine.py that consult    *)
(* it: the baselines a loss is measured against, and the permission to     *)
(* trade that depends on them.  One DrawdownGuard is shared by             *)
(*   - the sweeps: authorize_execution checks the limits at its start, for *)
(*     a second trade on a symbol, and at its end, all under the engine's  *)
(*     lock; the orchestrator checks them once more, without the lock,     *)
(*     before it sends the order;                                          *)
(*   - the arbiter: the same authorisation, and the order at once;         *)
(*   - the API: the pre-trade check of a manual order, and status requests;*)
(*   - the synchroniser thread, whenever a trade closes;                   *)
(*   - resume_trading, which restarts the day's budget.                    *)
(* The guard itself has no lock.  Every check first runs                   *)
(* update_equity_benchmarks, which is cut here between its reads and       *)
(* writes of the baselines, and saves them in one row of a SQLite table.   *)
(*                                                                         *)
(* "Today" is the broker's day, or the UTC day when the terminal does not  *)
(* answer.  Broker time runs ahead of UTC by less than a day.  An equity   *)
(* is an integer; a limit is in thousandths of its baseline.               *)
(***************************************************************************)
EXTENDS Integers, TLC

CONSTANTS
  Callers,       \* threads that use the guard
  Equities,      \* equities the account may show
  MaxDailyLoss,  \* max_daily_loss_pct
  RecoveryMax,   \* recovery_max_daily_loss_pct
  MaxDrawdown,   \* max_total_drawdown_pct
  MaxAttempts,   \* recovery_max_attempts_per_day
  LastDay, MaxCalls, MaxRestarts   \* bounds of the runs

ASSUME LimitsAssumption ==
  /\ Equities \subseteq Nat \ {0}
  /\ MaxDailyLoss \in Nat \ {0}
  /\ RecoveryMax \in Nat
  /\ MaxDrawdown \in Nat \ {0}
  /\ MaxAttempts \in Nat
  /\ LastDay \in Nat \ {0} /\ MaxCalls \in Nat /\ MaxRestarts \in Nat

VARIABLES
  daily_start_equity, peak_equity, last_seen_date,
  drawdown_state,        \* the row id = 1 of the SQLite table
  recovery,              \* _recovery_day and _recovery_attempts
  call,                  \* per caller: the call it is in
  broker_day, utc_day, calls, restarts,
  opening,               \* history: the equity the day's budget starts from, 0 before it is known
  summit,                \* history: the highest equity shown since the last reset
  granted,               \* history: recovery authorisations of this process on this UTC day
  raced,                 \* history: a call changed a baseline, or the day, under another call
  wavered                \* history: "today" was taken from UTC while the broker's day differed

guard == << daily_start_equity, peak_equity, last_seen_date >>
days == << broker_day, utc_day >>
baselines == << opening, summit >>
counts == << calls, restarts >>
vars == << guard, drawdown_state, recovery, call, days, counts, baselines,
           granted, raced, wavered >>

Today == {broker_day, utc_day}

Level == Equities \cup {0}      \* 0 is a baseline that is not set

Row == [daily: Level, peak: Level, date: 1..LastDay]

(* The check at the start of authorize_execution, inside the second-trade  *)
(* validation and at the end; the backstop of a sweep; the dispatch of the *)
(* arbiter; the API's pre-trade check; an update whose result bars         *)
(* nothing; resume.                                                        *)
Purposes == {"none", "authorize", "second", "final", "backstop", "dispatch",
             "manual", "notice", "resume"}

Steps == {"idle", "roll", "open", "compare", "raise", "save", "judge",
          "anchored", "order"}

Call == [at: Steps, why: Purposes, equity: Level, recovery: BOOLEAN,
         changed: BOOLEAN]

NoCall == [at |-> "idle", why |-> "none", equity |-> 0, recovery |-> FALSE,
           changed |-> FALSE]

-----------------------------------------------------------------------------
(* Pure helpers.                                                           *)

\* `equity` is `limit` thousandths or more below `base`.
Breaches(base, equity, limit) ==
  base > 0 /\ (base - equity) * 1000 >= limit * base

\* The loss is not past the absolute cap of the recovery window.
InRecoveryWindow(base, equity) == (base - equity) * 1000 <= RecoveryMax * base

DayBreached(equity) == Breaches(daily_start_equity, equity, MaxDailyLoss)

\* check_limits, after its update.
Passes(equity, allow_recovery) ==
  /\ ~Breaches(peak_equity, equity, MaxDrawdown)
  /\ DayBreached(equity) =>
       allow_recovery /\ InRecoveryWindow(daily_start_equity, equity)

\* Mutant: the last check before an order also knows the recovery window.
LastCheckPasses_WithRecovery(d) == Passes(d.equity, d.recovery)

\* The orchestrator's and the API's own check have no recovery window.
LastCheckPasses(d) == Passes(d.equity, FALSE)

\* The attempts made on UTC day `t`, after a roll-over of the counter.
AttemptsOn(t) == IF recovery.day = t THEN recovery.attempts ELSE 0

\* Mutant: one attempt more than the limit.
CanTakeAttempt_OneMore == AttemptsOn(utc_day) <= MaxAttempts

CanTakeAttempt == AttemptsOn(utc_day) < MaxAttempts

\* A caller in one of these holds the engine's lock.
Locked(d) == d.why \in {"authorize", "second", "final"}

\* Mutant: authorisations run side by side.
EngineFree_Always == TRUE

EngineFree == \A c \in Callers : ~Locked(call[c])

InFlight(d) == d.at \notin {"idle", "order"}

\* Two calls are in flight and one of them has changed a baseline.
Racing(cl) ==
  \E a, b \in Callers :
    a # b /\ InFlight(cl[a]) /\ InFlight(cl[b]) /\ cl[a].changed

Quiescent == \A c \in Callers : ~InFlight(call[c])

\* Mutant: a row of an earlier day keeps its daily baseline.
LoadedDaily_AnyDay(row, t) == row.daily

\* The daily baseline _load_state takes from the row on day `t`.
LoadedDaily(row, t) == IF row.date = t THEN row.daily ELSE 0

-----------------------------------------------------------------------------
TypeOK ==
  /\ daily_start_equity \in Level /\ peak_equity \in Level
  /\ last_seen_date \in 1..LastDay
  /\ drawdown_state \in Row
  /\ recovery \in [day: 0..LastDay, attempts: 0..MaxAttempts]
  /\ call \in [Callers -> Call]
  /\ broker_day \in 1..LastDay /\ utc_day \in 1..LastDay
  /\ calls \in Nat /\ restarts \in Nat
  /\ opening \in Level /\ summit \in Level
  /\ granted \in Nat
  /\ raced \in BOOLEAN /\ wavered \in BOOLEAN

Init ==
  /\ daily_start_equity = 0 /\ peak_equity = 0 /\ last_seen_date = 1
  /\ drawdown_state = [daily |-> 0, peak |-> 0, date |-> 1]
  /\ recovery = [day |-> 0, attempts |-> 0]
  /\ call = [c \in Callers |-> NoCall]
  /\ broker_day = 1 /\ utc_day = 1 /\ calls = 0 /\ restarts = 0
  /\ opening = 0 /\ summit = 0 /\ granted = 0
  /\ raced = FALSE /\ wavered = FALSE

-----------------------------------------------------------------------------
(* A call begins.                                                          *)

\* `c` turns to the call `d`.
Goto(c, d) ==
  /\ call' = [call EXCEPT ![c] = d]
  /\ raced' = (raced \/ Racing(call'))

NewCall ==
  /\ calls < MaxCalls
  /\ calls' = calls + 1
  /\ UNCHANGED restarts

Enter(c, why, equity, perfect) ==
  /\ call[c].at = "idle"
  /\ NewCall
  /\ Goto(c, [at |-> "roll", why |-> why, equity |-> equity,
              recovery |-> perfect, changed |-> FALSE])
  /\ UNCHANGED << guard, drawdown_state, recovery, days, baselines, granted,
                  wavered >>

\* authorize_execution, with the account snapshot its dispatcher took and a setup
\* that is good enough for the recovery channel, or is not (or the channel is off).
Authorize(c) ==
  /\ EngineFree
  /\ \E e \in Equities, perfect \in BOOLEAN : Enter(c, "authorize", e, perfect)

\* The API's check before a manual order; a status request or a closed trade.
Consult(c) ==
  \E e \in Equities, why \in {"manual", "notice"} : Enter(c, why, e, FALSE)

-----------------------------------------------------------------------------
(* update_equity_benchmarks and resume_baselines.                          *)

\* Another day than the one last seen unsets the daily baseline.
Roll(c) ==
  /\ call[c].at = "roll"
  /\ \E t \in Today :
       /\ last_seen_date' = t
       /\ daily_start_equity' =
            IF t # last_seen_date THEN 0 ELSE daily_start_equity
       /\ Goto(c, [call[c] EXCEPT !.at = "open", !.changed = t # last_seen_date])
       /\ wavered' = (wavered \/ t # broker_day)
  /\ UNCHANGED << peak_equity, drawdown_state, recovery, days, counts,
                  baselines, granted >>

\* An unset daily baseline becomes the equity shown.
Open(c) ==
  /\ call[c].at = "open"
  /\ daily_start_equity' =
       IF daily_start_equity <= 0 THEN call[c].equity ELSE daily_start_equity
  /\ Goto(c, [call[c] EXCEPT !.at = "compare",
                             !.changed = @ \/ daily_start_equity <= 0])
  /\ UNCHANGED << peak_equity, last_seen_date, drawdown_state, recovery, days,
                  counts, baselines, granted, wavered >>

Compare(c) ==
  /\ call[c].at = "compare"
  /\ Goto(c, [call[c] EXCEPT
                !.at = IF peak_equity <= 0 \/ call[c].equity > peak_equity
                       THEN "raise" ELSE "save"])
  /\ UNCHANGED << guard, drawdown_state, recovery, days, counts, baselines,
                  granted, wavered >>

\* The comparison was made a step ago; the assignment is made all the same.
Raise(c) ==
  /\ call[c].at = "raise"
  /\ peak_equity' = call[c].equity
  /\ Goto(c, [call[c] EXCEPT !.at = "save", !.changed = TRUE])
  /\ UNCHANGED << daily_start_equity, last_seen_date, drawdown_state, recovery,
                  days, counts, baselines, granted, wavered >>

\* resume_trading restarts the day's budget and leaves the peak alone.
Resume(c) ==
  /\ call[c].at = "idle"
  /\ NewCall
  /\ \E e \in Equities :
       /\ daily_start_equity' = e
       /\ Goto(c, [at |-> "anchored", why |-> "resume", equity |-> e,
                   recovery |-> FALSE, changed |-> TRUE])
  /\ UNCHANGED << peak_equity, last_seen_date, drawdown_state, recovery, days,
                  baselines, granted, wavered >>

ResumeDay(c) ==
  /\ call[c].at = "anchored"
  /\ \E t \in Today :
       /\ last_seen_date' = t
       /\ wavered' = (wavered \/ t # broker_day)
  /\ Goto(c, [call[c] EXCEPT !.at = "save"])
  /\ UNCHANGED << daily_start_equity, peak_equity, drawdown_state, recovery,
                  days, counts, baselines, granted >>

\* What the guard has now been told: the first equity of a day, or that of a
\* resume, opens the day's budget; the highest equity shown is the summit.
Tell(d) ==
  /\ opening' = IF opening = 0 \/ d.why = "resume" THEN d.equity ELSE opening
  /\ summit' = IF d.why # "resume" /\ d.equity > summit THEN d.equity ELSE summit

\* _save_state, if something changed, under the day it is then.
Save(c) ==
  LET d == call[c]
  IN  /\ d.at = "save"
      /\ \/ /\ d.changed
            /\ \E t \in Today :
                 /\ drawdown_state' = [daily |-> daily_start_equity,
                                       peak |-> peak_equity, date |-> t]
                 /\ wavered' = (wavered \/ t # broker_day)
         \/ ~d.changed /\ UNCHANGED << drawdown_state, wavered >>
      /\ Goto(c, IF d.why \in {"notice", "resume"} THEN NoCall
                 ELSE [d EXCEPT !.at = "judge", !.changed = FALSE])
      /\ Tell(d)
      /\ UNCHANGED << guard, recovery, days, counts, granted >>

-----------------------------------------------------------------------------
(* The verdicts.                                                           *)

\* The same caller's next check.
NextCheck(d, why, mode) == [d EXCEPT !.at = "roll", !.why = why, !.recovery = mode]

\* The limits, or any other gate of the caller, refuse the trade.
Refuse(c) ==
  /\ call[c].at = "judge"
  /\ Goto(c, NoCall)
  /\ UNCHANGED << guard, drawdown_state, recovery, days, counts, baselines,
                  granted, wavered >>

\* The first check.  A daily breach that was waived makes this a recovery
\* trade, which needs an attempt left today.
PassFirst(c) ==
  LET d == call[c]
      mode == d.recovery /\ DayBreached(d.equity)
  IN  /\ d.at = "judge" /\ d.why = "authorize"
      /\ Passes(d.equity, d.recovery)
      /\ mode => CanTakeAttempt
      /\ recovery' = IF mode THEN [day |-> utc_day, attempts |-> AttemptsOn(utc_day)]
                     ELSE recovery
      /\ \E next \in {"second", "final"} : Goto(c, NextCheck(d, next, mode))
      /\ UNCHANGED << guard, drawdown_state, days, counts, baselines, granted, wavered >>

\* The second-trade validation allows no recovery.
PassSecond(c) ==
  LET d == call[c]
  IN  /\ d.at = "judge" /\ d.why = "second"
      /\ Passes(d.equity, FALSE)
      /\ Goto(c, NextCheck(d, "final", d.recovery))
      /\ UNCHANGED << guard, drawdown_state, recovery, days, counts,
                      baselines, granted, wavered >>

\* The last check of authorize_execution; a recovery trade uses its attempt up.
\* The engine's lock is released.
Granted(d) ==
  /\ d.at = "judge" /\ d.why = "final"
  /\ Passes(d.equity, d.recovery)
  /\ \/ /\ d.recovery
        /\ recovery' = [day |-> utc_day, attempts |-> AttemptsOn(utc_day) + 1]
        /\ granted' = granted + 1
     \/ ~d.recovery /\ UNCHANGED << recovery, granted >>
  /\ UNCHANGED << guard, drawdown_state, days, counts, baselines, wavered >>

\* A sweep goes on to its own check of breaker and limits.
Grant(c) ==
  /\ Granted(call[c])
  /\ Goto(c, NextCheck(call[c], "backstop", call[c].recovery))

\* The arbiter sends on the engine's word, unless there is a news blackout.
GrantArbiter(c) ==
  /\ Granted(call[c])
  /\ \/ Goto(c, [call[c] EXCEPT !.at = "order", !.why = "dispatch"])
     \/ Goto(c, NoCall)

\* The check made right before an order, by a sweep or the API.
Send(c) ==
  LET d == call[c]
  IN  /\ d.at = "judge" /\ d.why \in {"backstop", "manual"}
      /\ LastCheckPasses(d)
      /\ Goto(c, [d EXCEPT !.at = "order"])
      /\ UNCHANGED << guard, drawdown_state, recovery, days, counts,
                      baselines, granted, wavered >>

Done(c) ==
  /\ call[c].at = "order"
  /\ Goto(c, NoCall)
  /\ UNCHANGED << guard, drawdown_state, recovery, days, counts, baselines,
                  granted, wavered >>

-----------------------------------------------------------------------------
(* The days, restarts, and the operator's reset.                           *)

BrokerMidnight ==
  /\ broker_day = utc_day /\ broker_day < LastDay
  /\ broker_day' = broker_day + 1
  /\ opening' = 0
  /\ raced' = (raced \/ ~Quiescent)
  /\ UNCHANGED << guard, drawdown_state, recovery, call, utc_day, counts,
                  summit, granted, wavered >>

UtcMidnight ==
  /\ utc_day < broker_day
  /\ utc_day' = broker_day
  /\ granted' = 0
  /\ UNCHANGED << guard, drawdown_state, recovery, call, broker_day, counts,
                  baselines, raced, wavered >>

\* The engine starts on day `t` from what the row then holds.
Start(t) ==
  /\ restarts < MaxRestarts
  /\ restarts' = restarts + 1
  /\ call' = [c \in Callers |-> NoCall]
  /\ last_seen_date' = t
  /\ recovery' = [day |-> 0, attempts |-> 0]
  /\ granted' = 0
  /\ UNCHANGED << days, calls >>

\* The process stops, at any point, and a new one loads the row.
Restart ==
  \E t \in Today :
    /\ Start(t)
    /\ daily_start_equity' = LoadedDaily(drawdown_state, t)
    /\ peak_equity' = drawdown_state.peak
    /\ drawdown_state' = IF drawdown_state.date = t THEN drawdown_state
                         ELSE [daily |-> 0, peak |-> drawdown_state.peak, date |-> t]
    /\ wavered' = (wavered \/ t # broker_day)
    /\ UNCHANGED << baselines, raced >>

\* tools/reset_risk_baseline.py writes only while no engine listens: both
\* baselines become the equity the operator gives, and the engine starts from
\* them.
RestartAfterReset ==
  \E t \in Today, e \in Equities :
    /\ Start(t)
    /\ daily_start_equity' = e /\ peak_equity' = e
    /\ drawdown_state' = [daily |-> e, peak |-> e, date |-> t]
    /\ opening' = e /\ summit' = e
    /\ raced' = FALSE /\ wavered' = (t # broker_day)

Step(c) ==
  \/ Authorize(c) \/ Consult(c) \/ Resume(c)
  \/ Roll(c) \/ Open(c) \/ Compare(c) \/ Raise(c) \/ ResumeDay(c) \/ Save(c)
  \/ Refuse(c) \/ PassFirst(c) \/ PassSecond(c) \/ Grant(c)
  \/ GrantArbiter(c) \/ Send(c) \/ Done(c)

Next ==
  \/ \E c \in Callers : Step(c)
  \/ BrokerMidnight \/ UtcMidnight \/ Restart \/ RestartAfterReset

Spec == Init /\ [][Next]_vars

-----------------------------------------------------------------------------
(* Properties.                                                             *)

\* "A loss is never re-anchored away" (drawdown.py:5): between calls the peak
\* is the highest equity ever shown since the operator's last reset, and the
\* day's baseline is the one the day began with or an operator resumed from --
\* across the days, resumes, restarts and crashes in mid-call.  Two calls that
\* change a baseline at once can break the first, and a clock that falls back
\* to UTC the second.
BaselinesKept ==
  Quiescent /\ ~raced =>
    /\ peak_equity = summit
    /\ ~wavered /\ last_seen_date = broker_day => daily_start_equity = opening

\* An order goes out on an equity at the drawdown limit, measured from the summit,
\* in no case; at the daily loss limit, measured from what the day began with, only
\* as a recovery trade: within the absolute cap of the day, and with an attempt of
\* that day spent on it.  (authorize_execution waives the daily limit for such a
\* setup; a sweep's own check waives nothing, orchestrator.py:1931, and the arbiter
\* has none, orchestrator.py:2328-2361.)
SentWithinLimits ==
  [][\A c \in Callers :
       call[c].at = "judge" /\ call'[c].at = "order" /\ ~raced =>
         /\ ~Breaches(summit, call[c].equity, MaxDrawdown)
         /\ ~wavered /\ Breaches(opening, call[c].equity, MaxDailyLoss) =>
              /\ InRecoveryWindow(opening, call[c].equity)
              /\ granted' = granted + 1]_vars

\* However many sweeps ask at once, the engine lets no more recovery trades
\* through on a UTC day than the limit (risk_engine.py:382 reads what
\* risk_engine.py:692 counts, several checks later).
RecoveryRationed == granted <= MaxAttempts

-----------------------------------------------------------------------------
(* For the run: callers are alike, and nothing is explored past a race,    *)
(* where only TypeOK and RecoveryRationed still say something.             *)

Symmetry == Permutations(Callers)

NotRaced == ~raced
=============================================================================
