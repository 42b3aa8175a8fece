------------------------ MODULE RiskAuthority_proofs ------------------------
(***************************************************************************)
(* Theorems about RiskAuthority, for any callers, equities and limits.     *)
(*                                                                         *)
(* The first part is about the engine's lock and the recovery counter and  *)
(* holds in every interleaving.  The second is about the baselines, as     *)
(* long as no two calls race: then at most one call at a time is ahead of  *)
(* what the guard has been told (Raised, Opened), and nobody looks.        *)
(***************************************************************************)
EXTENDS RiskAuthority, TLAPS

DaysOrdered ==
  /\ recovery.day <= utc_day
  /\ utc_day <= broker_day
  /\ last_seen_date <= broker_day
  /\ drawdown_state.date <= broker_day

OneHolder ==
  \A a, b \in Callers : Locked(call[a]) /\ Locked(call[b]) => a = b

\* The counter is exact, and who has been let past it still has an attempt.
Rationed ==
  /\ granted = AttemptsOn(utc_day)
  /\ \A c \in Callers :
       call[c].why \in {"second", "final"} /\ call[c].recovery => CanTakeAttempt

RationInv == TypeOK /\ DaysOrdered /\ OneHolder /\ Rationed

-----------------------------------------------------------------------------
\* Moving one caller leaves the other callers where they are.
LEMMA Moved ==
  ASSUME call \in [Callers -> Call], NEW c \in Callers, NEW d, Goto(c, d)
  PROVE  /\ call'[c] = d
         /\ \A b \in Callers : b # c => call'[b] = call[b]
         /\ d \in Call => call' \in [Callers -> Call]
  BY DEF Goto

LEMMA MovedRaced ==
  ASSUME NEW c \in Callers, NEW d, Goto(c, d)
  PROVE  raced' \in BOOLEAN
  BY Zenon DEF Goto

\* Today is a day of the model, and none that lies ahead.
LEMMA TodayType ==
  ASSUME TypeOK, DaysOrdered, NEW t \in Today
  PROVE  t \in 1..LastDay /\ t <= broker_day
  BY DEF TypeOK, DaysOrdered, Today

LEMMA AttemptsType ==
  ASSUME TypeOK
  PROVE  AttemptsOn(utc_day) \in 0..MaxAttempts
  BY LimitsAssumption DEF TypeOK, AttemptsOn, LimitsAssumption

\* Counting one more attempt when one is left.
LEMMA CountAttempt ==
  ASSUME TypeOK, CanTakeAttempt
  PROVE  AttemptsOn(utc_day) + 1 \in 0..MaxAttempts
  BY AttemptsType, LimitsAssumption DEF CanTakeAttempt, LimitsAssumption

-----------------------------------------------------------------------------
(* Types.                                                                  *)

\* A new call is a call.
LEMMA EnterType ==
  ASSUME TypeOK, NEW c \in Callers, NEW why \in Purposes, NEW e \in Equities,
         NEW p \in BOOLEAN, Enter(c, why, e, p)
  PROVE  TypeOK'
<1>1. [at |-> "roll", why |-> why, equity |-> e, recovery |-> p,
       changed |-> FALSE] \in Call
  BY DEF Call, Steps, Level
<1>2. call' \in [Callers -> Call]
  BY <1>1, Moved DEF Enter, TypeOK
<1>3. raced' \in BOOLEAN
  BY MovedRaced DEF Enter
<1>4. calls' \in Nat
  BY DEF Enter, NewCall, TypeOK
<1> QED BY <1>2, <1>3, <1>4
     DEF Enter, NewCall, TypeOK, guard, days, baselines

\* The steps of a call inside the guard keep the types.
LEMMA GuardType ==
  ASSUME TypeOK, DaysOrdered, NEW c \in Callers,
         Resume(c) \/ Roll(c) \/ Open(c) \/ Compare(c) \/ Raise(c)
           \/ ResumeDay(c) \/ Save(c)
  PROVE  TypeOK'
<1> USE LimitsAssumption DEF LimitsAssumption, TypeOK
<1>0. call[c] \in Call /\ NoCall \in Call
  BY DEF NoCall, Call, Steps, Purposes, Level
<1>1. CASE Resume(c)
  <2>1. PICK e \in Equities :
          /\ daily_start_equity' = e
          /\ Goto(c, [at |-> "anchored", why |-> "resume", equity |-> e,
                      recovery |-> FALSE, changed |-> TRUE])
    BY <1>1 DEF Resume
  <2>2. [at |-> "anchored", why |-> "resume", equity |-> e,
         recovery |-> FALSE, changed |-> TRUE] \in Call
    BY DEF Call, Steps, Purposes, Level
  <2>3. call' \in [Callers -> Call] /\ raced' \in BOOLEAN
    BY <2>1, <2>2, Moved, MovedRaced
  <2> QED BY <1>1, <2>1, <2>3 DEF Resume, NewCall, Level, days, baselines
<1>2. CASE Roll(c)
  <2>1. PICK t \in Today :
          /\ last_seen_date' = t
          /\ daily_start_equity' =
               IF t # last_seen_date THEN 0 ELSE daily_start_equity
          /\ Goto(c, [call[c] EXCEPT !.at = "open",
                                     !.changed = t # last_seen_date])
          /\ wavered' = (wavered \/ t # broker_day)
    BY <1>2 DEF Roll
  <2>2. [call[c] EXCEPT !.at = "open", !.changed = t # last_seen_date] \in Call
    BY <1>0 DEF Call, Steps
  <2>3. call' \in [Callers -> Call] /\ raced' \in BOOLEAN
    BY <2>1, <2>2, Moved, MovedRaced
  <2>4. wavered' \in BOOLEAN
    BY <2>1, Zenon
  <2> QED BY <1>2, <2>1, <2>3, <2>4, TodayType
       DEF Roll, Level, days, counts, baselines
<1>3. CASE Open(c)
  <2>1. [call[c] EXCEPT !.at = "compare",
                        !.changed = @ \/ daily_start_equity <= 0] \in Call
    BY <1>0 DEF Call, Steps
  <2>2. call' \in [Callers -> Call] /\ raced' \in BOOLEAN
    BY <1>3, <2>1, Moved, MovedRaced DEF Open
  <2>3. daily_start_equity' \in Level
    BY <1>0, <1>3 DEF Open, Call
  <2> QED BY <1>3, <2>2, <2>3 DEF Open, days, counts, baselines
<1>4. CASE Compare(c)
  <2>1. [call[c] EXCEPT !.at = IF peak_equity <= 0 \/ call[c].equity > peak_equity
                               THEN "raise" ELSE "save"] \in Call
    BY <1>0 DEF Call, Steps
  <2>2. call' \in [Callers -> Call] /\ raced' \in BOOLEAN
    BY <1>4, <2>1, Moved, MovedRaced DEF Compare
  <2> QED BY <1>4, <2>2 DEF Compare, guard, days, counts, baselines
<1>5. CASE Raise(c)
  <2>1. [call[c] EXCEPT !.at = "save", !.changed = TRUE] \in Call
    BY <1>0 DEF Call, Steps
  <2>2. call' \in [Callers -> Call] /\ raced' \in BOOLEAN
    BY <1>5, <2>1, Moved, MovedRaced DEF Raise
  <2>3. peak_equity' \in Level
    BY <1>0, <1>5 DEF Raise, Call
  <2> QED BY <1>5, <2>2, <2>3 DEF Raise, days, counts, baselines
<1>6. CASE ResumeDay(c)
  <2>1. [call[c] EXCEPT !.at = "save"] \in Call
    BY <1>0 DEF Call, Steps
  <2>2. call' \in [Callers -> Call] /\ raced' \in BOOLEAN
    BY <1>6, <2>1, Moved, MovedRaced DEF ResumeDay
  <2>3. wavered' \in BOOLEAN
    BY <1>6, Zenon DEF ResumeDay
  <2>4. last_seen_date' \in 1..LastDay
    BY <1>6, TodayType DEF ResumeDay
  <2> QED BY <1>6, <2>2, <2>3, <2>4 DEF ResumeDay, days, counts, baselines
<1>7. CASE Save(c)
  <2>1. [call[c] EXCEPT !.at = "judge", !.changed = FALSE] \in Call
    BY <1>0 DEF Call, Steps
  <2>2. (IF call[c].why \in {"notice", "resume"} THEN NoCall
         ELSE [call[c] EXCEPT !.at = "judge", !.changed = FALSE]) \in Call
    BY <1>0, <2>1
  <2>3. call' \in [Callers -> Call] /\ raced' \in BOOLEAN
    BY <1>7, <2>2, Moved, MovedRaced DEF Save
  <2>4. opening' \in Level /\ summit' \in Level
    BY <1>0, <1>7 DEF Save, Tell, Call
  <2>5. drawdown_state' \in Row /\ wavered' \in BOOLEAN
    <3>1. CASE call[c].changed
      <4>1. PICK t \in Today :
              /\ drawdown_state' = [daily |-> daily_start_equity,
                                    peak |-> peak_equity, date |-> t]
              /\ wavered' = (wavered \/ t # broker_day)
        BY <1>7, <3>1 DEF Save
      <4>2. wavered' \in BOOLEAN
        BY <4>1, Zenon
      <4> QED BY <4>1, <4>2, TodayType DEF Row
    <3>2. CASE ~call[c].changed
      BY <1>7, <3>2 DEF Save
    <3> QED BY <3>1, <3>2
  <2> QED BY <1>7, <2>3, <2>4, <2>5 DEF Save, guard, days, counts
<1> QED BY <1>1, <1>2, <1>3, <1>4, <1>5, <1>6, <1>7

\* A verdict on a caller keeps the types; the last one counts an attempt, of
\* which Rationed knows that there is one left.
LEMMA VerdictType ==
  ASSUME TypeOK, Rationed, NEW c \in Callers,
         Refuse(c) \/ PassFirst(c) \/ PassSecond(c) \/ Grant(c) \/ GrantArbiter(c) \/ Send(c)
           \/ Done(c)
  PROVE  TypeOK'
<1> USE LimitsAssumption DEF LimitsAssumption, TypeOK, guard, days, counts, baselines
<1>0. call[c] \in Call /\ NoCall \in Call
  BY DEF NoCall, Call, Steps, Purposes, Level
<1>n. ASSUME NEW why \in {"second", "final", "backstop"}, NEW mode \in BOOLEAN
      PROVE  NextCheck(call[c], why, mode) \in Call
  BY <1>0 DEF NextCheck, Call, Steps, Purposes
<1>1. CASE Refuse(c) \/ Done(c)
  <2>1. call' \in [Callers -> Call] /\ raced' \in BOOLEAN
    BY <1>0, <1>1, Moved, MovedRaced DEF Refuse, Done
  <2> QED BY <1>1, <2>1 DEF Refuse, Done
<1>2. CASE PassFirst(c)
  <2> DEFINE mode == call[c].recovery /\ DayBreached(call[c].equity)
  <2>1. mode \in BOOLEAN
    BY <1>0, Zenon DEF Call
  <2>2. PICK next \in {"second", "final"} : Goto(c, NextCheck(call[c], next, mode))
    BY <1>2 DEF PassFirst
  <2>3. call' \in [Callers -> Call] /\ raced' \in BOOLEAN
    <3> HIDE DEF mode
    <3> QED BY <1>n, <2>1, <2>2, Moved, MovedRaced
  <2>4. recovery' \in [day: 0..LastDay, attempts: 0..MaxAttempts]
    BY <1>2, AttemptsType DEF PassFirst
  <2> QED BY <1>2, <2>3, <2>4 DEF PassFirst
<1>3. CASE PassSecond(c)
  <2>1. NextCheck(call[c], "final", call[c].recovery) \in Call
    BY <1>0, <1>n DEF Call
  <2>2. call' \in [Callers -> Call] /\ raced' \in BOOLEAN
    BY <1>3, <2>1, Moved, MovedRaced DEF PassSecond
  <2> QED BY <1>3, <2>2 DEF PassSecond
<1>4. CASE Grant(c) \/ GrantArbiter(c)
  <2>1. NextCheck(call[c], "backstop", call[c].recovery) \in Call
    BY <1>0, <1>n DEF Call
  <2>2. call' \in [Callers -> Call] /\ raced' \in BOOLEAN
    <3>1. [call[c] EXCEPT !.at = "order", !.why = "dispatch"] \in Call
      BY <1>0 DEF Call, Steps, Purposes
    <3> QED BY <1>0, <1>4, <2>1, <3>1, Moved, MovedRaced DEF Grant, GrantArbiter
  <2>3. call[c].recovery => AttemptsOn(utc_day) + 1 \in 0..MaxAttempts
    BY <1>4, CountAttempt DEF Grant, GrantArbiter, Granted, Rationed
  <2>4. /\ recovery' \in [day: 0..LastDay, attempts: 0..MaxAttempts]
        /\ granted' \in Nat
    BY <1>4, <2>3 DEF Grant, GrantArbiter, Granted
  <2> QED BY <1>4, <2>2, <2>4 DEF Grant, GrantArbiter, Granted
<1>5. CASE Send(c)
  <2>1. [call[c] EXCEPT !.at = "order"] \in Call
    BY <1>0 DEF Call, Steps
  <2>2. call' \in [Callers -> Call] /\ raced' \in BOOLEAN
    BY <1>5, <2>1, Moved, MovedRaced DEF Send
  <2> QED BY <1>5, <2>2 DEF Send
<1> QED BY <1>1, <1>2, <1>3, <1>4, <1>5

\* So do the days and the restarts.
LEMMA WorldType ==
  ASSUME TypeOK, DaysOrdered,
         BrokerMidnight \/ UtcMidnight \/ Restart \/ RestartAfterReset
  PROVE  TypeOK'
<1> USE LimitsAssumption DEF LimitsAssumption, TypeOK, days, counts, baselines
<1>0. [c \in Callers |-> NoCall] \in [Callers -> Call]
  BY DEF NoCall, Call, Steps, Purposes, Level
<1>1. CASE BrokerMidnight
  <2>1. raced' \in BOOLEAN
    BY <1>1, Zenon DEF BrokerMidnight
  <2> QED BY <1>1, <2>1 DEF BrokerMidnight, guard, Level
<1>2. CASE UtcMidnight
  BY <1>2 DEF UtcMidnight, guard
<1>3. CASE Restart
  <2>1. PICK t \in Today :
          /\ Start(t)
          /\ daily_start_equity' = LoadedDaily(drawdown_state, t)
          /\ peak_equity' = drawdown_state.peak
          /\ drawdown_state' = IF drawdown_state.date = t THEN drawdown_state
                ELSE [daily |-> 0, peak |-> drawdown_state.peak, date |-> t]
          /\ wavered' = (wavered \/ t # broker_day)
          /\ UNCHANGED << baselines, raced >>
    BY <1>3 DEF Restart
  <2>2. wavered' \in BOOLEAN
    BY <2>1, Zenon
  <2>3. t \in 1..LastDay
    BY TodayType
  <2>4. drawdown_state' \in Row /\ daily_start_equity' \in Level /\ peak_equity' \in Level
    BY <2>1, <2>3 DEF Row, Level, LoadedDaily
  <2> QED BY <1>0, <2>1, <2>2, <2>3, <2>4 DEF Start
<1>4. CASE RestartAfterReset
  <2>1. PICK t \in Today, e \in Equities :
          /\ Start(t)
          /\ daily_start_equity' = e /\ peak_equity' = e
          /\ drawdown_state' = [daily |-> e, peak |-> e, date |-> t]
          /\ opening' = e /\ summit' = e
          /\ raced' = FALSE /\ wavered' = (t # broker_day)
    BY <1>4 DEF RestartAfterReset
  <2>2. wavered' \in BOOLEAN
    BY <2>1, Zenon
  <2>3. t \in 1..LastDay
    BY TodayType
  <2>4. drawdown_state' \in Row
    BY <2>1, <2>3 DEF Row, Level
  <2>5. /\ recovery' \in [day: 0..LastDay, attempts: 0..MaxAttempts]
        /\ restarts' \in Nat /\ granted' \in Nat
        /\ call' \in [Callers -> Call] /\ last_seen_date' \in 1..LastDay
        /\ UNCHANGED << broker_day, utc_day, calls >>
    BY <1>0, <2>1, <2>3 DEF Start
  <2>6. /\ daily_start_equity' \in Level /\ peak_equity' \in Level
        /\ opening' \in Level /\ summit' \in Level /\ raced' \in BOOLEAN
    BY <2>1 DEF Level
  <2> QED BY <2>2, <2>4, <2>5, <2>6
<1> QED BY <1>1, <1>2, <1>3, <1>4

LEMMA TypeStep ==
  RationInv /\ [Next]_vars => TypeOK'
<1> SUFFICES ASSUME RationInv, [Next]_vars PROVE TypeOK'
  OBVIOUS
<1> USE DEF RationInv
<1>1. ASSUME NEW c \in Callers, Authorize(c) PROVE TypeOK'
  <2>1. PICK e \in Equities, perfect \in BOOLEAN : Enter(c, "authorize", e, perfect)
    BY <1>1 DEF Authorize
  <2> QED BY <2>1, EnterType DEF Purposes
<1>2. ASSUME NEW c \in Callers, Consult(c) PROVE TypeOK'
  <2>1. PICK e \in Equities, why \in {"manual", "notice"} : Enter(c, why, e, FALSE)
    BY <1>2 DEF Consult
  <2> QED BY <2>1, EnterType DEF Purposes
<1>3. CASE UNCHANGED vars
  BY <1>3 DEF vars, TypeOK, guard, days, counts, baselines
<1> QED BY <1>1, <1>2, <1>3, GuardType, VerdictType, WorldType DEF Next, Step

-----------------------------------------------------------------------------
(* The days stay in order.                                                 *)

LEMMA DaysStep ==
  RationInv /\ [Next]_vars => DaysOrdered'
<1> SUFFICES ASSUME RationInv, [Next]_vars PROVE DaysOrdered'
  OBVIOUS
<1> USE LimitsAssumption DEF RationInv, LimitsAssumption, TypeOK, DaysOrdered, days,
                             guard, counts, baselines
<1>1. ASSUME NEW c \in Callers,
             Authorize(c) \/ Consult(c) \/ Resume(c) \/ Open(c) \/ Compare(c)
               \/ Raise(c) \/ Refuse(c) \/ PassSecond(c) \/ Send(c) \/ Done(c)
      PROVE  DaysOrdered'
  BY <1>1 DEF Authorize, Consult, Enter, Resume, Open, Compare, Raise, Refuse,
              PassSecond, Send, Done
<1>2. ASSUME NEW c \in Callers, Roll(c) \/ ResumeDay(c) PROVE DaysOrdered'
  BY <1>2, TodayType DEF Roll, ResumeDay
<1>3. ASSUME NEW c \in Callers, Save(c) PROVE DaysOrdered'
  BY <1>3, TodayType DEF Save
<1>4. ASSUME NEW c \in Callers, PassFirst(c) \/ Grant(c) \/ GrantArbiter(c) PROVE DaysOrdered'
  BY <1>4 DEF PassFirst, Grant, GrantArbiter, Granted
<1>5. CASE BrokerMidnight \/ UtcMidnight
  BY <1>5 DEF BrokerMidnight, UtcMidnight, Row
<1>6. CASE Restart \/ RestartAfterReset
  BY <1>6, TodayType DEF Restart, RestartAfterReset, Start
<1>7. CASE UNCHANGED vars
  BY <1>7 DEF vars
<1> QED BY <1>1, <1>2, <1>3, <1>4, <1>5, <1>6, <1>7 DEF Next, Step

-----------------------------------------------------------------------------
(* The engine's lock and the recovery counter.                             *)

\* Where the steps leave their caller: in which call, and the others alone.
LEMMA Entering ==
  ASSUME NEW c \in Callers, Authorize(c) \/ Consult(c) \/ Resume(c)
  PROVE  \E d : /\ Goto(c, d)
                /\ d.why = "authorize" => EngineFree
                /\ d.equity \in Equities
                /\ \/ /\ d.at = "roll" /\ ~d.changed
                      /\ d.why \in {"authorize", "manual", "notice"}
                      /\ UNCHANGED guard
                   \/ /\ d.at = "anchored" /\ d.changed /\ d.why = "resume"
                      /\ daily_start_equity' = d.equity
                      /\ UNCHANGED << peak_equity, last_seen_date >>
<1>1. CASE Authorize(c)
  <2>1. PICK e \in Equities, perfect \in BOOLEAN : Enter(c, "authorize", e, perfect)
    BY <1>1 DEF Authorize
  <2> DEFINE d == [at |-> "roll", why |-> "authorize", equity |-> e,
                   recovery |-> perfect, changed |-> FALSE]
  <2>2. Goto(c, d) /\ UNCHANGED guard
    BY <2>1 DEF Enter
  <2>3. EngineFree
    BY <1>1 DEF Authorize
  <2>4. d.at = "roll" /\ ~d.changed /\ d.why = "authorize" /\ d.equity = e
    OBVIOUS
  <2> QED BY <2>2, <2>3, <2>4
<1>2. CASE Consult(c)
  <2>1. PICK e \in Equities, why \in {"manual", "notice"} : Enter(c, why, e, FALSE)
    BY <1>2 DEF Consult
  <2> DEFINE d == [at |-> "roll", why |-> why, equity |-> e,
                   recovery |-> FALSE, changed |-> FALSE]
  <2>2. Goto(c, d) /\ UNCHANGED guard
    BY <2>1 DEF Enter
  <2>3. d.at = "roll" /\ ~d.changed /\ d.why = why /\ d.equity = e
    OBVIOUS
  <2> QED BY <2>2, <2>3
<1>3. CASE Resume(c)
  <2>1. PICK e \in Equities :
          /\ daily_start_equity' = e
          /\ Goto(c, [at |-> "anchored", why |-> "resume", equity |-> e,
                      recovery |-> FALSE, changed |-> TRUE])
    BY <1>3 DEF Resume
  <2> DEFINE d == [at |-> "anchored", why |-> "resume", equity |-> e,
                   recovery |-> FALSE, changed |-> TRUE]
  <2>2. d.at = "anchored" /\ d.changed /\ d.why = "resume" /\ d.equity = e
    OBVIOUS
  <2> QED BY <1>3, <2>1, <2>2 DEF Resume
<1> QED BY <1>1, <1>2, <1>3

\* Inside the guard a caller stays in its check.
LEMMA Checking ==
  ASSUME TypeOK, NEW c \in Callers,
         Roll(c) \/ Open(c) \/ Compare(c) \/ Raise(c) \/ ResumeDay(c)
  PROVE  /\ \A b \in Callers \ {c} : call'[b] = call[b]
         /\ call'[c].why = call[c].why
         /\ call'[c].equity = call[c].equity
         /\ call'[c].recovery = call[c].recovery
         /\ Roll(c) => /\ call'[c].at = "open"
                       /\ call'[c].changed = (last_seen_date' # last_seen_date)
         /\ Open(c) => /\ call'[c].at = "compare"
                       /\ IF daily_start_equity <= 0 THEN call'[c].changed
                          ELSE call'[c].changed = call[c].changed
         /\ Compare(c) => /\ call'[c].at =
                               IF peak_equity <= 0 \/ call[c].equity > peak_equity
                               THEN "raise" ELSE "save"
                          /\ call'[c].changed = call[c].changed
         /\ Raise(c) => call'[c].at = "save" /\ call'[c].changed
         /\ ResumeDay(c) => /\ call'[c].at = "save"
                            /\ call'[c].changed = call[c].changed
<1> USE DEF TypeOK, Call
<1>0. call[c] \in Call
  OBVIOUS
<1>1. CASE Roll(c)
  <2>1. PICK t \in Today :
          /\ last_seen_date' = t
          /\ Goto(c, [call[c] EXCEPT !.at = "open",
                                     !.changed = t # last_seen_date])
    BY <1>1 DEF Roll
  <2> QED BY <1>0, <1>1, <2>1 DEF Roll, Open, Compare, Raise, ResumeDay, Goto
<1>2. CASE Open(c)
  <2> DEFINE d == [call[c] EXCEPT !.at = "compare",
                                  !.changed = @ \/ daily_start_equity <= 0]
  <2>1. d.at = "compare" /\ d.why = call[c].why /\ d.equity = call[c].equity
        /\ d.recovery = call[c].recovery
    BY <1>0
  <2>2. IF daily_start_equity <= 0 THEN d.changed ELSE d.changed = call[c].changed
    BY <1>0
  <2>3. call'[c] = d /\ \A b \in Callers \ {c} : call'[b] = call[b]
    BY <1>2 DEF Open, Goto
  <2>4. call[c].at = "open"
    BY <1>2 DEF Open
  <2> QED BY <2>1, <2>2, <2>3, <2>4 DEF Roll, Compare, Raise, ResumeDay
<1>3. CASE Compare(c)
  BY <1>0, <1>3 DEF Roll, Open, Compare, Raise, ResumeDay, Goto
<1>4. CASE Raise(c)
  BY <1>0, <1>4 DEF Roll, Open, Compare, Raise, ResumeDay, Goto
<1>5. CASE ResumeDay(c)
  BY <1>0, <1>5 DEF Roll, Open, Compare, Raise, ResumeDay, Goto
<1> QED BY <1>1, <1>2, <1>3, <1>4, <1>5

LEMMA Deciding ==
  ASSUME TypeOK, NEW c \in Callers,
         Save(c) \/ Refuse(c) \/ PassFirst(c) \/ PassSecond(c) \/ Grant(c) \/ GrantArbiter(c)
           \/ Send(c) \/ Done(c)
  PROVE  /\ \A b \in Callers \ {c} : call'[b] = call[b]
         /\ \/ call'[c] = NoCall
            \/ call'[c].equity = call[c].equity /\ (call[c].at # "save" => call'[c].changed = call[c].changed)
         /\ Save(c) => IF call[c].why \in {"notice", "resume"} THEN call'[c] = NoCall
                       ELSE /\ call'[c].at = "judge" /\ ~call'[c].changed
                            /\ call'[c].why = call[c].why
                            /\ call'[c].recovery = call[c].recovery
         /\ Refuse(c) \/ Done(c) => call'[c] = NoCall
         /\ PassFirst(c) => /\ call'[c].at = "roll"
                            /\ call'[c].why \in {"second", "final"}
                            /\ call'[c].recovery =
                                 (call[c].recovery /\ DayBreached(call[c].equity))
         /\ PassSecond(c) => /\ call'[c].at = "roll" /\ call'[c].why = "final"
                             /\ call'[c].recovery = call[c].recovery
         /\ Grant(c) => call'[c].at = "roll" /\ call'[c].why = "backstop"
         /\ GrantArbiter(c) =>
              \/ call'[c] = NoCall
              \/ call'[c].at = "order" /\ call'[c].why = "dispatch"
         /\ Send(c) => call'[c].at = "order" /\ call'[c].why = call[c].why
<1> USE DEF TypeOK, Call, Goto, NextCheck
<1>0. call[c] \in Call
  OBVIOUS
<1>o. /\ NoCall.at = "idle"
      /\ [call[c] EXCEPT !.at = "order", !.why = "dispatch"].at = "order"
      /\ [call[c] EXCEPT !.at = "order", !.why = "dispatch"].why = "dispatch"
  BY <1>0 DEF NoCall
<1>1. CASE Save(c)
  BY <1>0, <1>1 DEF Save, Refuse, PassFirst, PassSecond, Grant, GrantArbiter, Granted, Send, Done
<1>2. CASE Refuse(c) \/ Done(c)
  <2>1. call'[c] = NoCall /\ \A b \in Callers \ {c} : call'[b] = call[b]
    BY <1>2 DEF Refuse, Done
  <2>2. call[c].at # "save"
    BY <1>2 DEF Refuse, Done
  <2>3. call'[c].at = "idle"
    BY <2>1 DEF NoCall
  <2>4. ~Save(c)
    BY <2>2 DEF Save
  <2>n. ASSUME NEW why, NEW mode PROVE NextCheck(call[c], why, mode).at = "roll"
    BY <1>0
  <2>5. ~PassFirst(c) /\ ~PassSecond(c) /\ ~Grant(c)
    <3>1. ASSUME NEW why, NEW mode, Goto(c, NextCheck(call[c], why, mode)) PROVE FALSE
      <4>1. call'[c] = NextCheck(call[c], why, mode)
        BY <3>1, Moved
      <4> QED BY <2>3, <2>n, <4>1
    <3> HIDE DEF Goto, NextCheck
    <3> QED BY <3>1 DEF PassFirst, PassSecond, Grant
  <2>6. ~Send(c)
    BY <1>0, <2>3 DEF Send
  <2> QED BY <2>1, <2>4, <2>5, <2>6
<1>3. CASE PassFirst(c)
  <2> DEFINE mode == call[c].recovery /\ DayBreached(call[c].equity)
  <2>1. mode \in BOOLEAN
    BY <1>0, Zenon
  <2>2. PICK next \in {"second", "final"} : Goto(c, NextCheck(call[c], next, mode))
    BY <1>3 DEF PassFirst
  <2>3. call[c].at = "judge" /\ call[c].why = "authorize"
    BY <1>3 DEF PassFirst
  <2>4. /\ ~Save(c) /\ ~Refuse(c) /\ ~Done(c) /\ ~PassSecond(c) /\ ~Grant(c)
        /\ ~GrantArbiter(c) /\ ~Send(c)
    <3>1. call'[c].at = "roll"
      BY <1>0, <2>2
    <3> QED BY <2>3, <3>1 DEF Save, Refuse, Done, PassSecond, Grant, GrantArbiter, Granted, Send, NoCall
  <2> HIDE DEF mode
  <2>5. /\ \A b \in Callers \ {c} : call'[b] = call[b]
        /\ call'[c].at = "roll" /\ call'[c].why = next /\ call'[c].recovery = mode
        /\ call'[c].equity = call[c].equity /\ call'[c].changed = call[c].changed
    BY <1>0, <2>2
  <2> QED BY <2>4, <2>5 DEF mode
<1>4. CASE PassSecond(c)
  BY <1>0, <1>4 DEF Save, Refuse, PassFirst, PassSecond, Grant, GrantArbiter, Granted, Send, Done
<1>5. CASE Grant(c)
  <2>1. call[c].at = "judge" /\ call[c].why = "final"
    BY <1>5 DEF Grant, Granted
  <2>2. /\ \A b \in Callers \ {c} : call'[b] = call[b]
        /\ call'[c] = [call[c] EXCEPT !.at = "roll", !.why = "backstop",
                                      !.recovery = call[c].recovery]
    BY <1>5 DEF Grant
  <2>3. call'[c].at = "roll" /\ call'[c].why = "backstop"
        /\ call'[c].equity = call[c].equity /\ call'[c].changed = call[c].changed
    BY <1>0, <2>2
  <2>4. ~Save(c) /\ ~PassFirst(c) /\ ~PassSecond(c) /\ ~Done(c) /\ ~Send(c)
    BY <2>1 DEF Save, PassFirst, PassSecond, Done, Send
  <2>5. ~Refuse(c)
    BY <2>3 DEF Refuse, NoCall
  <2>6. ~GrantArbiter(c)
    <3>1. ASSUME GrantArbiter(c)
          PROVE  \/ call'[c] = NoCall
                 \/ call'[c] = [call[c] EXCEPT !.at = "order", !.why = "dispatch"]
      BY <3>1 DEF GrantArbiter
    <3>2. ASSUME GrantArbiter(c) PROVE call'[c].at \in {"idle", "order"}
      BY <1>o, <3>1, <3>2, Zenon
    <3> QED BY <2>3, <3>2
  <2> QED BY <2>1, <2>2, <2>3, <2>4, <2>5, <2>6
<1>7. CASE GrantArbiter(c)
  <2>1. call[c].at = "judge" /\ call[c].why = "final"
    BY <1>7 DEF GrantArbiter, Granted
  <2>2. \A b \in Callers \ {c} : call'[b] = call[b]
    BY <1>7 DEF GrantArbiter
  <2>3. \/ call'[c] = NoCall
        \/ call'[c] = [call[c] EXCEPT !.at = "order", !.why = "dispatch"]
    BY <1>0, <1>7 DEF GrantArbiter
  <2>4. ~Save(c) /\ ~PassFirst(c) /\ ~PassSecond(c) /\ ~Done(c)
    BY <2>1 DEF Save, PassFirst, PassSecond, Done
  <2>5. ~Send(c)
    BY <2>1 DEF Send
  <2>6. ~Grant(c)
    <3>1. call'[c].at \in {"idle", "order"}
      BY <1>o, <2>3, Zenon
    <3>2. NextCheck(call[c], "backstop", call[c].recovery).at = "roll"
      BY <1>0
    <3>3. ASSUME Grant(c) PROVE call'[c] = NextCheck(call[c], "backstop", call[c].recovery)
      BY <3>3 DEF Grant
    <3> QED BY <3>1, <3>2, <3>3
  <2>7. Refuse(c) => call'[c] = NoCall
    BY DEF Refuse
  <2> QED BY <1>0, <2>1, <2>2, <2>3, <2>4, <2>5, <2>6, <2>7
<1>6. CASE Send(c)
  BY <1>0, <1>6 DEF Save, Refuse, PassFirst, PassSecond, Grant, GrantArbiter, Granted, Send, Done
<1> QED BY <1>1, <1>2, <1>3, <1>4, <1>5, <1>6, <1>7

\* Only Authorize takes the lock, and only when it is free.
LEMMA HolderStep ==
  RationInv /\ [Next]_vars => OneHolder'
<1> SUFFICES ASSUME RationInv, [Next]_vars PROVE OneHolder'
  OBVIOUS
<1> USE DEF RationInv, TypeOK
<1>m. ASSUME NEW c \in Callers, \A b \in Callers \ {c} : call'[b] = call[b],
             Locked(call'[c]) => Locked(call[c]) \/ EngineFree
      PROVE  OneHolder'
  <2>1. ASSUME NEW a \in Callers, NEW b \in Callers,
               Locked(call'[a]), Locked(call'[b])
        PROVE  a = b
    BY <1>m, <2>1 DEF OneHolder, EngineFree
  <2> QED BY <2>1 DEF OneHolder, Locked
<1>n. ~Locked(NoCall)
  BY DEF NoCall, Locked
<1>1. ASSUME NEW c \in Callers, Authorize(c) \/ Consult(c) \/ Resume(c)
      PROVE  OneHolder'
  <2>1. PICK d : /\ Goto(c, d)
                 /\ d.why = "authorize" => EngineFree
                 /\ d.why \in {"authorize", "manual", "notice", "resume"}
    BY <1>1, Entering
  <2>2. call'[c] = d /\ \A b \in Callers \ {c} : call'[b] = call[b]
    BY <2>1, Moved
  <2> QED BY <1>m, <2>1, <2>2 DEF Locked
<1>2. ASSUME NEW c \in Callers,
             Roll(c) \/ Open(c) \/ Compare(c) \/ Raise(c) \/ ResumeDay(c)
      PROVE  OneHolder'
  BY <1>2, <1>m, Checking DEF Locked
<1>3. ASSUME NEW c \in Callers, Save(c) \/ Refuse(c) \/ Done(c) PROVE OneHolder'
  <2>1. call'[c] = NoCall \/ call'[c].why = call[c].why
    BY <1>3, Deciding
  <2> QED BY <1>3, <1>m, <1>n, <2>1, Deciding DEF Locked
<1>4. ASSUME NEW c \in Callers, PassFirst(c) \/ PassSecond(c) PROVE OneHolder'
  BY <1>4, <1>m, Deciding DEF PassFirst, PassSecond, Locked
<1>5. ASSUME NEW c \in Callers, Grant(c) \/ GrantArbiter(c) \/ Send(c) PROVE OneHolder'
  <2>1. ~Locked(call'[c])
    BY <1>5, Deciding DEF Send, Locked, NoCall
  <2> QED BY <1>5, <1>m, <2>1, Deciding
<1>6. CASE Restart \/ RestartAfterReset
  BY <1>6 DEF Restart, RestartAfterReset, Start, OneHolder, NoCall, Locked
<1>7. CASE BrokerMidnight \/ UtcMidnight \/ UNCHANGED vars
  BY <1>7 DEF BrokerMidnight, UtcMidnight, vars, OneHolder
<1> QED BY <1>1, <1>2, <1>3, <1>4, <1>5, <1>6, <1>7 DEF Next, Step

\* While a sweep on the recovery channel holds the lock no other sweep counts
\* an attempt, so the one it found free is still free when it is counted.
LEMMA RationStep ==
  RationInv /\ [Next]_vars => Rationed'
<1> SUFFICES ASSUME RationInv, [Next]_vars PROVE Rationed'
  OBVIOUS
<1> USE DEF RationInv
<1>0. TypeOK'
  BY TypeStep
<1> DEFINE Bound(d) == d.why \in {"second", "final"} /\ d.recovery
<1>a. (\E c \in Callers : Bound(call[c])) => CanTakeAttempt
  BY DEF Rationed
\* A step that counts nothing and binds nobody new.
<1>m. ASSUME UNCHANGED << recovery, granted, utc_day >>,
             NEW c \in Callers, \A b \in Callers \ {c} : call'[b] = call[b],
             Bound(call'[c]) => Bound(call[c])
      PROVE  Rationed'
  BY <1>m, <1>a DEF Rationed, CanTakeAttempt, AttemptsOn
<1>1. ASSUME NEW c \in Callers, Authorize(c) \/ Consult(c) \/ Resume(c)
      PROVE  Rationed'
  <2>1. PICK d : /\ Goto(c, d)
                 /\ d.why \in {"authorize", "manual", "notice", "resume"}
    BY <1>1, Entering
  <2>2. call'[c] = d /\ \A b \in Callers \ {c} : call'[b] = call[b]
    BY <2>1, Moved DEF TypeOK
  <2>3. UNCHANGED << recovery, granted, utc_day >>
    BY <1>1 DEF Authorize, Consult, Enter, Resume, days
  <2> QED BY <1>m, <2>1, <2>2, <2>3
<1>2. ASSUME NEW c \in Callers,
             Roll(c) \/ Open(c) \/ Compare(c) \/ Raise(c) \/ ResumeDay(c)
      PROVE  Rationed'
  <2>1. UNCHANGED << recovery, granted, utc_day >>
    BY <1>2 DEF Roll, Open, Compare, Raise, ResumeDay, days
  <2> QED BY <1>2, <1>m, <2>1, Checking
<1>3. ASSUME NEW c \in Callers, Save(c) \/ Refuse(c) \/ Done(c) \/ Send(c)
                                  \/ PassSecond(c)
      PROVE  Rationed'
  <2>1. UNCHANGED << recovery, granted, utc_day >>
    BY <1>3 DEF Save, Refuse, Done, Send, PassSecond, days
  <2>2. Bound(call'[c]) => Bound(call[c])
    <3>1. CASE Save(c) \/ Refuse(c) \/ Done(c)
      <4>1. call'[c] = NoCall \/ (/\ call'[c].why = call[c].why
                                  /\ call'[c].recovery = call[c].recovery)
        BY <3>1, Deciding
      <4>2. ~Bound(NoCall)
        BY DEF NoCall
      <4> QED BY <4>1, <4>2
    <3>2. CASE Send(c)
      BY <3>2, Deciding DEF Send
    <3>3. CASE PassSecond(c)
      BY <3>3, Deciding DEF PassSecond
    <3> QED BY <1>3, <3>1, <3>2, <3>3
  <2> QED BY <1>3, <1>m, <2>1, <2>2, Deciding
<1>4. ASSUME NEW c \in Callers, PassFirst(c) PROVE Rationed'
  <2> DEFINE mode == call[c].recovery /\ DayBreached(call[c].equity)
  <2>1. /\ UNCHANGED << granted, utc_day >>
        /\ mode => CanTakeAttempt
        /\ recovery' = IF mode THEN [day |-> utc_day, attempts |-> AttemptsOn(utc_day)]
                       ELSE recovery
    BY <1>4 DEF PassFirst, days
  <2>2. /\ \A b \in Callers \ {c} : call'[b] = call[b]
        /\ call'[c].recovery = mode
    BY <1>4, Deciding
  <2> HIDE DEF mode
  <2>3. AttemptsOn(utc_day)' = AttemptsOn(utc_day)
    BY <2>1 DEF AttemptsOn
  <2>4. ASSUME NEW b \in Callers, Bound(call'[b]) PROVE CanTakeAttempt'
    <3>1. CanTakeAttempt
      BY <1>a, <2>1, <2>2, <2>4
    <3> QED BY <2>3, <3>1 DEF CanTakeAttempt
  <2> QED BY <2>1, <2>3, <2>4 DEF Rationed
<1>5. ASSUME NEW c \in Callers, Grant(c) \/ GrantArbiter(c) PROVE Rationed'
  <2>1. call[c].why = "final"
    BY <1>5 DEF Grant, GrantArbiter, Granted
  <2>2. /\ call'[c].why \in {"backstop", "dispatch", "none"}
        /\ \A b \in Callers \ {c} : call'[b] = call[b]
    BY <1>5, Deciding DEF NoCall
  \* Nobody else holds the lock, so nobody is bound to an attempt afterwards.
  <2>3. ASSUME NEW b \in Callers, Bound(call'[b]) PROVE FALSE
    BY <2>1, <2>2, <2>3 DEF OneHolder, Locked
  <2>4. UNCHANGED utc_day
    BY <1>5 DEF Grant, GrantArbiter, Granted, days
  <2>5. granted' = AttemptsOn(utc_day)'
    <3>1. CASE call[c].recovery
      <4>1. /\ recovery' = [day |-> utc_day, attempts |-> AttemptsOn(utc_day) + 1]
            /\ granted' = granted + 1
        BY <1>5, <3>1 DEF Grant, GrantArbiter, Granted
      <4> QED BY <2>4, <4>1 DEF Rationed, AttemptsOn
    <3>2. CASE ~call[c].recovery
      BY <1>5, <2>4, <3>2 DEF Grant, GrantArbiter, Granted, Rationed, AttemptsOn
    <3> QED BY <3>1, <3>2
  <2> QED BY <2>3, <2>5 DEF Rationed
<1>6. CASE UtcMidnight
  <2>1. /\ utc_day' = broker_day /\ utc_day < broker_day /\ granted' = 0
        /\ UNCHANGED << recovery, call >>
    BY <1>6 DEF UtcMidnight
  <2>2. AttemptsOn(utc_day)' = 0
    BY <2>1, LimitsAssumption DEF AttemptsOn, DaysOrdered, TypeOK, LimitsAssumption
  <2>3. CanTakeAttempt => CanTakeAttempt'
    <3>1. AttemptsOn(utc_day) \in 0..MaxAttempts
      BY AttemptsType
    <3> QED BY <2>2, <3>1, LimitsAssumption DEF CanTakeAttempt, LimitsAssumption
  <2> QED BY <1>a, <2>1, <2>2, <2>3 DEF Rationed
<1>7. CASE BrokerMidnight \/ UNCHANGED vars
  <2>1. UNCHANGED << recovery, granted, utc_day, call >>
    BY <1>7 DEF BrokerMidnight, vars, days
  <2> QED BY <1>a, <2>1 DEF Rationed, CanTakeAttempt, AttemptsOn
<1>8. CASE Restart \/ RestartAfterReset
  <2>1. /\ recovery' = [day |-> 0, attempts |-> 0] /\ granted' = 0
        /\ call' = [c \in Callers |-> NoCall]
    BY <1>8 DEF Restart, RestartAfterReset, Start
  <2>2. AttemptsOn(utc_day)' = 0
    BY <2>1 DEF AttemptsOn
  <2> QED BY <2>1, <2>2 DEF Rationed, NoCall
<1> QED BY <1>1, <1>2, <1>3, <1>4, <1>5, <1>6, <1>7, <1>8 DEF Next, Step

LEMMA RationInit ==
  Init => RationInv
<1> SUFFICES ASSUME Init PROVE RationInv
  OBVIOUS
<1> USE LimitsAssumption DEF Init, LimitsAssumption
<1>1. TypeOK
  <2>1. NoCall \in Call
    BY DEF NoCall, Call, Steps, Purposes, Level
  <2>2. drawdown_state \in Row
    BY DEF Row, Level
  <2>3. recovery \in [day: 0..LastDay, attempts: 0..MaxAttempts]
    OBVIOUS
  <2>4. call \in [Callers -> Call]
    BY <2>1
  <2>5. /\ daily_start_equity \in Level /\ peak_equity \in Level
        /\ opening \in Level /\ summit \in Level
    BY DEF Level
  <2>6. /\ last_seen_date \in 1..LastDay /\ broker_day \in 1..LastDay
        /\ utc_day \in 1..LastDay /\ calls \in Nat /\ restarts \in Nat /\ granted \in Nat
    OBVIOUS
  <2>7. raced \in BOOLEAN /\ wavered \in BOOLEAN
    OBVIOUS
  <2> QED BY <2>2, <2>3, <2>4, <2>5, <2>6, <2>7, Zenon DEF TypeOK
<1>2. DaysOrdered /\ OneHolder
  BY DEF DaysOrdered, OneHolder, NoCall, Locked
<1>3. Rationed
  BY DEF Rationed, AttemptsOn, NoCall
<1> QED BY <1>1, <1>2, <1>3 DEF RationInv

LEMMA RationAlways ==
  Spec => []RationInv
<1>1. RationInv /\ [Next]_vars => RationInv'
  BY TypeStep, DaysStep, HolderStep, RationStep DEF RationInv
<1> QED BY <1>1, RationInit, PTL DEF Spec

\* Every variable stays in its type in every interleaving of the calls, the
\* clocks and the restarts (drawdown.py, risk_engine.py).
THEOREM TypeCorrect == Spec => []TypeOK
BY RationAlways, PTL DEF RationInv

\* The engine lets no more recovery trades through on a UTC day than the
\* limit, however many sweeps ask and whatever the limits are: the attempt is
\* found free at risk_engine.py:382 and counted at 692, and the engine's lock
\* is held in between.
THEOREM RecoveryAlwaysRationed == Spec => []RecoveryRationed
<1>1. RationInv => RecoveryRationed
  BY AttemptsType, LimitsAssumption
     DEF RationInv, Rationed, RecoveryRationed, LimitsAssumption
<1> QED BY <1>1, RationAlways, PTL

-----------------------------------------------------------------------------
(* The baselines, while no two calls race.                                 *)

CallShape ==
  \A c \in Callers :
    /\ InFlight(call[c]) => call[c].equity \in Equities
    /\ call[c].at \in {"idle", "roll", "judge", "order"} => ~call[c].changed
    /\ call[c].at = "anchored" => call[c].why = "resume"
    /\ call[c].why = "resume" =>
         call[c].at \in {"anchored", "save"} /\ call[c].changed

Solo == ~raced => ~Racing(call)

\* `c` has raised the peak and not saved it yet.
Raised(c) ==
  /\ call[c].at = "save" /\ call[c].changed /\ call[c].why # "resume"
  /\ peak_equity = call[c].equity /\ call[c].equity > summit

PeakInv ==
  ~raced =>
    /\ drawdown_state.peak = summit
    /\ peak_equity = summit \/ \E c \in Callers : Raised(c)
    /\ \A c \in Callers :
         /\ call[c].at = "raise" => call[c].equity > peak_equity
         /\ call[c].at = "save" /\ call[c].why # "resume" =>
              call[c].equity <= peak_equity

\* `c` has opened the day's budget and not saved it yet.
Opened(c) ==
  /\ call[c].at \in {"compare", "raise", "save", "anchored"} /\ call[c].changed
  /\ daily_start_equity = call[c].equity
  /\ opening = 0 \/ call[c].why = "resume"

\* The call `d` agrees with a guard whose daily baseline is `base`, and which
\* has seen the broker's day if `seen`.
Settled(d, seen, base) ==
  /\ d.at \in {"open", "compare", "raise", "save", "judge"} => seen
  /\ d.at \in {"compare", "raise", "save"} => base # 0
  /\ d.why = "resume" => base = d.equity

DayInv ==
  ~raced /\ ~wavered =>
    /\ IF drawdown_state.date = broker_day THEN drawdown_state.daily = opening
       ELSE opening = 0
    /\ last_seen_date = broker_day =>
         daily_start_equity = opening \/ \E c \in Callers : Opened(c)
    /\ last_seen_date # broker_day => opening = 0
    /\ \A c \in Callers :
         Settled(call[c], last_seen_date = broker_day, daily_start_equity)

BaselineInv == RationInv /\ CallShape /\ Solo /\ PeakInv /\ DayInv

-----------------------------------------------------------------------------
\* Every step of a caller looks whether it races.
LEMMA Clear ==
  ASSUME NEW c \in Callers, Step(c), ~raced'
  PROVE  ~raced /\ ~Racing(call')
<1>1. ASSUME NEW d, Goto(c, d) PROVE ~raced /\ ~Racing(call')
  BY <1>1 DEF Goto
<1>2. CASE Authorize(c) \/ Consult(c) \/ Resume(c)
  BY <1>1, <1>2, Entering
<1>3. CASE Roll(c) \/ Open(c) \/ Compare(c) \/ Raise(c) \/ ResumeDay(c)
  BY <1>1, <1>3 DEF Roll, Open, Compare, Raise, ResumeDay
<1>4. CASE Save(c) \/ Refuse(c) \/ PassSecond(c) \/ Grant(c) \/ GrantArbiter(c) \/ Send(c) \/ Done(c)
  BY <1>1, <1>4 DEF Save, Refuse, PassSecond, Grant, GrantArbiter, Granted, Send, Done
<1>5. CASE PassFirst(c)
  <2>1. \E next \in {"second", "final"} :
          Goto(c, NextCheck(call[c], next, call[c].recovery /\ DayBreached(call[c].equity)))
    BY <1>5 DEF PassFirst
  <2> QED BY <1>1, <2>1
<1> QED BY <1>2, <1>3, <1>4, <1>5 DEF Step

\* Where nobody races, a caller that changed a baseline is alone.
LEMMA Alone ==
  ASSUME NEW cl, ~Racing(cl), NEW c \in Callers, InFlight(cl[c]),
         NEW b \in Callers, b # c, InFlight(cl[b])
  PROVE  ~cl[c].changed /\ ~cl[b].changed
BY DEF Racing

LEMMA ShapeStep ==
  RationInv /\ CallShape /\ [Next]_vars => CallShape'
<1> SUFFICES ASSUME RationInv, CallShape, [Next]_vars PROVE CallShape'
  OBVIOUS
<1> DEFINE Shape(d) == /\ InFlight(d) => d.equity \in Equities
                       /\ d.at \in {"idle", "roll", "judge", "order"} => ~d.changed
                       /\ d.at = "anchored" => d.why = "resume"
                       /\ d.why = "resume" => d.at \in {"anchored", "save"} /\ d.changed
<1>t. TypeOK
  BY DEF RationInv
<1>s. \A c \in Callers : Shape(call[c])
  BY DEF CallShape
<1>n. Shape(NoCall)
  BY DEF NoCall, InFlight
<1>m. ASSUME NEW c \in Callers, \A b \in Callers \ {c} : call'[b] = call[b],
             Shape(call'[c])
      PROVE  CallShape'
  <2>1. \A b \in Callers : Shape(call'[b])
    BY <1>m, <1>s
  <2> QED BY <2>1 DEF CallShape, InFlight
<1>1. ASSUME NEW c \in Callers, Authorize(c) \/ Consult(c) \/ Resume(c)
      PROVE  CallShape'
  <2>1. PICK d : /\ Goto(c, d)
                 /\ d.equity \in Equities
                 /\ \/ /\ d.at = "roll" /\ ~d.changed
                       /\ d.why \in {"authorize", "manual", "notice"}
                    \/ d.at = "anchored" /\ d.changed /\ d.why = "resume"
    BY <1>1, Entering
  <2>2. Shape(d)
    BY <2>1
  <2> HIDE DEF Shape
  <2>3. call'[c] = d /\ \A b \in Callers \ {c} : call'[b] = call[b]
    BY <1>t, <2>1, Moved DEF TypeOK
  <2> QED BY <1>m, <2>2, <2>3
<1>2. ASSUME NEW c \in Callers,
             Roll(c) \/ Open(c) \/ Compare(c) \/ Raise(c) \/ ResumeDay(c)
      PROVE  CallShape'
  <2>1. Shape(call[c])
    BY <1>s
  <2>2. call'[c].why = call[c].why /\ call'[c].equity = call[c].equity
    BY <1>2, <1>t, Checking
  <2>3. InFlight(call[c])
    BY <1>2 DEF Roll, Open, Compare, Raise, ResumeDay, InFlight
  <2>4. Shape(call'[c])
    <3>1. CASE Roll(c)
      BY <1>t, <2>1, <2>2, <2>3, <3>1, Checking DEF Roll
    <3>2. CASE Open(c)
      BY <1>t, <2>1, <2>2, <2>3, <3>2, Checking DEF Open
    <3>3. CASE Compare(c)
      BY <1>t, <2>1, <2>2, <2>3, <3>3, Checking DEF Compare
    <3>4. CASE Raise(c)
      BY <1>t, <2>1, <2>2, <2>3, <3>4, Checking DEF Raise
    <3>5. CASE ResumeDay(c)
      BY <1>t, <2>1, <2>2, <2>3, <3>5, Checking DEF ResumeDay
    <3> QED BY <1>2, <3>1, <3>2, <3>3, <3>4, <3>5
  <2> HIDE DEF Shape
  <2> QED BY <1>2, <1>m, <1>t, <2>4, Checking
<1>3. ASSUME NEW c \in Callers,
             Save(c) \/ Refuse(c) \/ PassFirst(c) \/ PassSecond(c) \/ Grant(c) \/ GrantArbiter(c)
               \/ Send(c) \/ Done(c)
      PROVE  CallShape'
  <2>1. Shape(call[c])
    BY <1>s
  <2>2. Shape(call'[c])
    <3>1. CASE Save(c)
      <4>1. CASE call'[c] = NoCall
        BY <1>n, <4>1
      <4>2. CASE call'[c] # NoCall
        <5>1. InFlight(call[c]) /\ call[c].at = "save"
          BY <3>1 DEF Save, InFlight
        <5>2. /\ call'[c].at = "judge" /\ ~call'[c].changed
              /\ call'[c].why = call[c].why /\ call[c].why # "resume"
              /\ call'[c].equity = call[c].equity
          BY <1>t, <3>1, <4>2, Deciding
        <5> QED BY <2>1, <5>1, <5>2
      <4> QED BY <4>1, <4>2
    <3>2. CASE Refuse(c) \/ Done(c)
      <4>1. call'[c] = NoCall
        BY <1>t, <3>2, Deciding
      <4> QED BY <1>n, <4>1
    <3>3. CASE call'[c] = NoCall
      BY <1>n, <3>3
    <3>4. CASE /\ PassFirst(c) \/ PassSecond(c) \/ Grant(c) \/ GrantArbiter(c) \/ Send(c)
               /\ call'[c] # NoCall
      <4>1. InFlight(call[c]) /\ call[c].at = "judge"
        BY <3>4 DEF PassFirst, PassSecond, Grant, GrantArbiter, Granted, Send, InFlight
      <4>2. /\ call'[c].at \in {"roll", "order"}
            /\ call'[c].why \in {"second", "final", "backstop", "dispatch", call[c].why}
        BY <1>t, <3>4, Deciding
      <4>3. call'[c].equity = call[c].equity /\ call'[c].changed = call[c].changed
        BY <1>t, <3>4, <4>1, <4>2, Deciding
      <4> QED BY <2>1, <4>1, <4>2, <4>3
    <3> QED BY <1>3, <3>1, <3>2, <3>3, <3>4
  <2> HIDE DEF Shape
  <2> QED BY <1>3, <1>m, <1>t, <2>2, Deciding
<1>4. CASE Restart \/ RestartAfterReset
  <2>1. \A c \in Callers : call'[c] = NoCall
    BY <1>4 DEF Restart, RestartAfterReset, Start
  <2> QED BY <1>n, <2>1 DEF CallShape, InFlight
<1>5. CASE BrokerMidnight \/ UtcMidnight \/ UNCHANGED vars
  BY <1>5 DEF BrokerMidnight, UtcMidnight, vars, CallShape
<1> QED BY <1>1, <1>2, <1>3, <1>4, <1>5 DEF Next, Step

LEMMA SoloStep ==
  Solo /\ [Next]_vars => Solo'
<1> SUFFICES ASSUME Solo, [Next]_vars, ~raced' PROVE ~Racing(call)'
  BY DEF Solo
<1>1. ASSUME NEW c \in Callers, Step(c) PROVE ~Racing(call)'
  BY <1>1, Clear DEF Racing
<1>2. CASE Restart \/ RestartAfterReset
  BY <1>2 DEF Restart, RestartAfterReset, Start, Racing, InFlight, NoCall
<1>3. CASE BrokerMidnight \/ UtcMidnight \/ UNCHANGED vars
  BY <1>3 DEF BrokerMidnight, UtcMidnight, vars, Solo, Racing
<1> QED BY <1>1, <1>2, <1>3 DEF Next

-----------------------------------------------------------------------------
\* What a step of a caller that changes no baseline leaves as it was.
LEMMA Bystander ==
  ASSUME BaselineInv, NEW c \in Callers,
         Authorize(c) \/ Consult(c) \/ Refuse(c) \/ PassFirst(c)
           \/ PassSecond(c) \/ Grant(c) \/ GrantArbiter(c) \/ Send(c) \/ Done(c)
  PROVE  /\ UNCHANGED << guard, drawdown_state, days, baselines, wavered >>
         /\ \A b \in Callers \ {c} : call'[b] = call[b]
         /\ call[c].at \in {"idle", "judge", "order"}
         /\ call'[c].at \in {"idle", "roll", "order"}
         /\ call'[c].why # "resume"
<1>t. TypeOK
  BY DEF BaselineInv, RationInv
<1>1. CASE Authorize(c) \/ Consult(c)
  <2>1. UNCHANGED << guard, drawdown_state, days, baselines, wavered >>
    BY <1>1 DEF Authorize, Consult, Enter
  <2>2. call[c].at = "idle"
    BY <1>1 DEF Authorize, Consult, Enter
  <2>3. PICK why \in {"authorize", "manual", "notice"}, e \in Equities, p \in BOOLEAN :
          Goto(c, [at |-> "roll", why |-> why, equity |-> e, recovery |-> p,
                   changed |-> FALSE])
    BY <1>1 DEF Authorize, Consult, Enter
  <2>4. /\ call'[c] = [at |-> "roll", why |-> why, equity |-> e, recovery |-> p,
                       changed |-> FALSE]
        /\ \A b \in Callers \ {c} : call'[b] = call[b]
    BY <1>t, <2>3, Moved DEF TypeOK
  <2> QED BY <2>1, <2>2, <2>4
<1>2. CASE Refuse(c) \/ PassFirst(c) \/ PassSecond(c) \/ Grant(c) \/ GrantArbiter(c) \/ Send(c) \/ Done(c)
  <2>1. UNCHANGED << guard, drawdown_state, days, baselines, wavered >>
    BY <1>2 DEF Refuse, PassFirst, PassSecond, Grant, GrantArbiter, Granted, Send, Done
  <2>2. call[c].at \in {"judge", "order"}
    BY <1>2 DEF Refuse, PassFirst, PassSecond, Grant, GrantArbiter, Granted, Send, Done
  <2>3. \A b \in Callers \ {c} : call'[b] = call[b]
    BY <1>2, <1>t, Deciding
  <2>4. \/ call'[c] = NoCall
        \/ /\ call'[c].at \in {"roll", "order"}
           /\ call'[c].why \in {"second", "final", "backstop", "dispatch", call[c].why}
    BY <1>2, <1>t, Deciding
  <2>5. call[c].why # "resume"
    BY <2>2 DEF BaselineInv, CallShape
  <2> QED BY <2>1, <2>2, <2>3, <2>4, <2>5 DEF NoCall
<1> QED BY <1>1, <1>2

\* The peak is at most one unsaved call ahead of the summit.
LEMMA PeakStep ==
  BaselineInv /\ [Next]_vars => PeakInv'
<1> SUFFICES ASSUME BaselineInv, [Next]_vars, ~raced'
             PROVE  PeakInv'
  BY DEF PeakInv
<1>t. TypeOK /\ CallShape /\ Solo /\ PeakInv
  BY DEF BaselineInv, RationInv
<1>l. Level \subseteq Nat
  BY LimitsAssumption DEF Level, LimitsAssumption
\* A step that leaves the peaks, and a caller that is neither before nor
\* after about to raise or save one.
<1>m. ASSUME UNCHANGED << peak_equity, drawdown_state, summit >>, ~raced,
             NEW c \in Callers, \A b \in Callers \ {c} : call'[b] = call[b],
             ~Raised(c), call'[c].at # "raise",
             call'[c].at # "save" \/ call'[c].why = "resume"
      PROVE  PeakInv'
  <2>1. \A b \in Callers : Raised(b) => Raised(b)'
    BY <1>m DEF Raised
  <2>2. ASSUME NEW b \in Callers
        PROVE  /\ call'[b].at = "raise" => call'[b].equity > peak_equity'
               /\ call'[b].at = "save" /\ call'[b].why # "resume" =>
                    call'[b].equity <= peak_equity'
    BY <1>m, <1>t DEF PeakInv
  <2> QED BY <1>m, <1>t, <2>1, <2>2 DEF PeakInv
<1>c. ASSUME NEW c \in Callers, Step(c) PROVE ~raced /\ ~Racing(call) /\ ~Racing(call')
  BY <1>c, <1>t, Clear DEF Solo
<1>1. ASSUME NEW c \in Callers,
             Authorize(c) \/ Consult(c) \/ Refuse(c) \/ PassFirst(c)
               \/ PassSecond(c) \/ Grant(c) \/ GrantArbiter(c) \/ Send(c) \/ Done(c)
      PROVE  PeakInv'
  <2>1. ~Raised(c) /\ ~raced
    BY <1>1, <1>c, Bystander DEF Raised, Step
  <2> QED BY <1>1, <1>m, <2>1, Bystander DEF guard, baselines
<1>2. ASSUME NEW c \in Callers, Resume(c) PROVE PeakInv'
  <2>1. PICK d : Goto(c, d) /\ d.at = "anchored"
    BY <1>2, Entering DEF Resume
  <2>2. call'[c] = d /\ \A b \in Callers \ {c} : call'[b] = call[b]
    BY <1>t, <2>1, Moved DEF TypeOK
  <2> QED BY <1>2, <1>m, <1>c, <2>1, <2>2 DEF Resume, baselines, Raised, Step
<1>3. ASSUME NEW c \in Callers, Roll(c) \/ Open(c) \/ ResumeDay(c) PROVE PeakInv'
  <2>1. /\ UNCHANGED << peak_equity, drawdown_state, summit >>
        /\ call[c].at \in {"roll", "open", "anchored"}
    BY <1>3 DEF Roll, Open, ResumeDay, baselines
  <2>2. call'[c].at # "raise" /\ (call'[c].at # "save" \/ call'[c].why = "resume")
    BY <1>3, <1>t, Checking DEF ResumeDay, CallShape
  <2> QED BY <1>3, <1>m, <1>c, <1>t, <2>1, <2>2, Checking DEF Raised, Step
<1>4. ASSUME NEW c \in Callers, Compare(c) PROVE PeakInv'
  <2>1. /\ UNCHANGED << peak_equity, drawdown_state, summit >>
        /\ call[c].at = "compare" /\ ~raced
    BY <1>4, <1>c DEF Compare, guard, baselines, Step
  <2>2. /\ \A b \in Callers \ {c} : call'[b] = call[b]
        /\ call'[c].equity = call[c].equity
        /\ call'[c].at = IF peak_equity <= 0 \/ call[c].equity > peak_equity
                         THEN "raise" ELSE "save"
    BY <1>4, <1>t, Checking
  <2>3. call[c].equity \in Nat \ {0} /\ peak_equity \in Nat
    BY <1>t, <1>l, <2>1, LimitsAssumption
       DEF CallShape, InFlight, TypeOK, LimitsAssumption
  <2>4. \A b \in Callers : Raised(b) => Raised(b)'
    BY <2>1, <2>2 DEF Raised
  <2>5. ASSUME NEW b \in Callers
        PROVE  /\ call'[b].at = "raise" => call'[b].equity > peak_equity'
               /\ call'[b].at = "save" /\ call'[b].why # "resume" =>
                    call'[b].equity <= peak_equity'
    BY <1>t, <2>1, <2>2, <2>3 DEF PeakInv
  <2> QED BY <1>t, <2>1, <2>4, <2>5 DEF PeakInv
<1>5. ASSUME NEW c \in Callers, Raise(c) PROVE PeakInv'
  <2>1. /\ call[c].at = "raise" /\ peak_equity' = call[c].equity
        /\ UNCHANGED << drawdown_state, summit >>
        /\ ~raced /\ ~Racing(call) /\ ~Racing(call')
    BY <1>5, <1>c DEF Raise, baselines, Step
  <2>2. /\ \A b \in Callers \ {c} : call'[b] = call[b]
        /\ call'[c].equity = call[c].equity /\ call'[c].why = call[c].why
        /\ call'[c].at = "save" /\ call'[c].changed
    BY <1>5, <1>t, Checking
  <2>3. \A b \in Callers \ {c} : ~InFlight(call[b])
    BY <2>1, <2>2 DEF Racing, InFlight
  <2>4. peak_equity = summit
    BY <1>t, <2>1, <2>3 DEF PeakInv, Raised, InFlight
  <2>5. Raised(c)'
    BY <1>t, <2>1, <2>2, <2>4 DEF Raised, PeakInv, CallShape
  <2>6. call[c].equity \in Nat
    BY <1>t, <1>l DEF TypeOK, Call
  <2>7. ASSUME NEW b \in Callers
        PROVE  /\ call'[b].at = "raise" => call'[b].equity > peak_equity'
               /\ call'[b].at = "save" /\ call'[b].why # "resume" =>
                    call'[b].equity <= peak_equity'
    BY <2>1, <2>2, <2>3, <2>6 DEF InFlight
  <2> QED BY <1>t, <2>1, <2>5, <2>7 DEF PeakInv
<1>6. ASSUME NEW c \in Callers, Save(c) PROVE PeakInv'
  <2> DEFINE e == call[c].equity
  <2>1. /\ call[c].at = "save" /\ UNCHANGED peak_equity /\ Tell(call[c])
        /\ IF call[c].changed THEN drawdown_state'.peak = peak_equity
           ELSE drawdown_state' = drawdown_state
        /\ ~raced /\ ~Racing(call) /\ ~Racing(call')
    <3>1. call[c].at = "save" /\ UNCHANGED peak_equity /\ Tell(call[c])
      BY <1>6 DEF Save, guard
    <3>2. ~raced /\ ~Racing(call) /\ ~Racing(call')
      BY <1>6, <1>c DEF Step
    <3>3. CASE call[c].changed
      <4>1. \E t : drawdown_state' = [daily |-> daily_start_equity,
                                      peak |-> peak_equity, date |-> t]
        BY <1>6, <3>3 DEF Save
      <4> QED BY <3>1, <3>2, <3>3, <4>1
    <3>4. CASE ~call[c].changed
      BY <1>6, <3>1, <3>2, <3>4 DEF Save
    <3> QED BY <3>3, <3>4
  <2>2. /\ \A b \in Callers \ {c} : call'[b] = call[b]
        /\ call'[c].at \in {"idle", "judge"}
    BY <1>6, <1>t, Deciding DEF NoCall
  <2>3. \A b \in Callers \ {c} : ~Raised(b)
    BY <2>1 DEF Racing, InFlight, Raised
  <2>4. /\ e \in Nat /\ peak_equity \in Nat /\ summit \in Nat
    BY <1>t, <1>l DEF TypeOK, Call
  <2>5. peak_equity = summit' /\ drawdown_state'.peak = summit'
    <3>1. CASE call[c].why = "resume"
      BY <1>t, <2>1, <2>3, <3>1 DEF Tell, PeakInv, Raised, CallShape
    <3>2. CASE call[c].why # "resume"
      <4>1. e <= peak_equity
        BY <1>t, <2>1, <3>2 DEF PeakInv
      <4>2. CASE Raised(c)
        BY <2>1, <2>4, <3>2, <4>2 DEF Tell, Raised
      <4>3. CASE ~Raised(c)
        <5>1. peak_equity = summit
          BY <1>t, <2>1, <2>3, <4>3 DEF PeakInv
        <5>2. summit' = summit
          BY <2>1, <2>4, <4>1, <5>1 DEF Tell
        <5> QED BY <1>t, <2>1, <5>1, <5>2 DEF PeakInv
      <4> QED BY <4>2, <4>3
    <3> QED BY <3>1, <3>2
  <2>6. ASSUME NEW b \in Callers
        PROVE  /\ call'[b].at = "raise" => call'[b].equity > peak_equity'
               /\ call'[b].at = "save" /\ call'[b].why # "resume" =>
                    call'[b].equity <= peak_equity'
    BY <1>t, <2>1, <2>2 DEF PeakInv
  <2> QED BY <2>1, <2>5, <2>6 DEF PeakInv
<1>7. CASE Restart
  <2>1. /\ \A c \in Callers : call'[c] = NoCall
        /\ UNCHANGED << raced, summit >>
        /\ peak_equity' = drawdown_state.peak
        /\ drawdown_state'.peak = drawdown_state.peak
    BY <1>7 DEF Restart, Start, baselines
  <2> QED BY <1>t, <2>1 DEF PeakInv, NoCall
<1>8. CASE RestartAfterReset
  <2>1. /\ \A c \in Callers : call'[c] = NoCall
        /\ peak_equity' = summit' /\ drawdown_state'.peak = summit'
    BY <1>8 DEF RestartAfterReset, Start
  <2> QED BY <2>1 DEF PeakInv, NoCall
<1>9. CASE BrokerMidnight \/ UtcMidnight \/ UNCHANGED vars
  <2>1. UNCHANGED << peak_equity, drawdown_state, summit, call >>
    BY <1>9 DEF BrokerMidnight, UtcMidnight, vars, guard, baselines
  <2>2. ~raced
    BY <1>9, Zenon DEF BrokerMidnight, UtcMidnight, vars
  <2> QED BY <1>t, <2>1, <2>2 DEF PeakInv, Raised
<1> QED BY <1>1, <1>2, <1>3, <1>4, <1>5, <1>6, <1>7, <1>8, <1>9 DEF Next, Step

\* The day's baseline is at most one unsaved call ahead of what opened the day.
LEMMA DayStep ==
  BaselineInv /\ [Next]_vars => DayInv'
<1> SUFFICES ASSUME BaselineInv, [Next]_vars, ~raced', ~wavered'
             PROVE  DayInv'
  BY DEF DayInv
<1>t. TypeOK /\ DaysOrdered /\ CallShape /\ Solo /\ DayInv
  BY DEF BaselineInv, RationInv
<1> USE DEF Settled
<1>l. Level \subseteq Nat
  BY LimitsAssumption DEF Level, LimitsAssumption
<1>c. ASSUME NEW c \in Callers, Step(c) PROVE ~raced /\ ~Racing(call) /\ ~Racing(call')
  BY <1>c, <1>t, Clear DEF Solo
<1>d. ~raced /\ ~wavered =>
        \A c \in Callers :
          Settled(call[c], last_seen_date = broker_day, daily_start_equity)
  BY <1>t DEF DayInv
\* A step that leaves the day's baseline, its history and whoever is ahead.
<1>m. ASSUME UNCHANGED << daily_start_equity, last_seen_date, drawdown_state,
                          broker_day, opening >>, ~raced, ~wavered,
             NEW c \in Callers, \A b \in Callers \ {c} : call'[b] = call[b],
             Opened(c) => Opened(c)', Settled(call'[c], last_seen_date' = broker_day', daily_start_equity')
      PROVE  DayInv'
  <2>1. \A b \in Callers : Opened(b) => Opened(b)'
    BY <1>m DEF Opened
  <2>2. \A b \in Callers : Settled(call'[b], last_seen_date' = broker_day', daily_start_equity')
    BY <1>m, <1>d
  <2> QED BY <1>m, <1>t, <2>1, <2>2 DEF DayInv
<1>1. ASSUME NEW c \in Callers,
             Authorize(c) \/ Consult(c) \/ Refuse(c) \/ PassFirst(c)
               \/ PassSecond(c) \/ Grant(c) \/ GrantArbiter(c) \/ Send(c) \/ Done(c)
      PROVE  DayInv'
  <2>1. ~Opened(c) /\ ~raced /\ ~wavered
    BY <1>1, <1>c, Bystander DEF Opened, Step
  <2>2. Settled(call'[c], last_seen_date' = broker_day', daily_start_equity')
    BY <1>1, Bystander
  <2> QED BY <1>1, <1>m, <2>1, <2>2, Bystander DEF guard, days, baselines
<1>2. ASSUME NEW c \in Callers, Resume(c) PROVE DayInv'
  <2>1. PICK d : /\ Goto(c, d) /\ d.at = "anchored" /\ d.changed
                 /\ d.why = "resume" /\ daily_start_equity' = d.equity
    <3>1. PICK d : /\ Goto(c, d)
                   /\ \/ d.at = "roll" /\ UNCHANGED guard
                      \/ /\ d.at = "anchored" /\ d.changed /\ d.why = "resume"
                         /\ daily_start_equity' = d.equity
      BY <1>2, Entering
    <3>2. call'[c] = d
      BY <1>t, <3>1, Moved DEF TypeOK
    <3>3. call'[c].at = "anchored"
      <4>1. PICK e \in Equities :
              Goto(c, [at |-> "anchored", why |-> "resume", equity |-> e,
                       recovery |-> FALSE, changed |-> TRUE])
        BY <1>2 DEF Resume
      <4> QED BY <1>t, <4>1, Moved DEF TypeOK
    <3> QED BY <3>1, <3>2, <3>3
  <2>2. call'[c] = d /\ \A b \in Callers \ {c} : call'[b] = call[b]
    BY <1>t, <2>1, Moved DEF TypeOK
  <2>3. /\ UNCHANGED << last_seen_date, drawdown_state, broker_day, opening, wavered >>
        /\ ~raced /\ ~Racing(call')
    BY <1>2, <1>c DEF Resume, days, baselines, Step
  <2>4. \A b \in Callers \ {c} : ~InFlight(call'[b])
    BY <2>1, <2>2, <2>3 DEF Racing, InFlight
  <2>5. Opened(c)' /\ Settled(call'[c], last_seen_date' = broker_day', daily_start_equity')
    BY <2>1, <2>2 DEF Opened
  <2>6. ASSUME NEW b \in Callers PROVE Settled(call'[b], last_seen_date' = broker_day', daily_start_equity')
    BY <1>t, <2>2, <2>4, <2>5 DEF InFlight, CallShape
  <2> QED BY <1>t, <2>3, <2>5, <2>6 DEF DayInv
<1>3. ASSUME NEW c \in Callers, Roll(c) PROVE DayInv'
  <2>1. /\ last_seen_date' = broker_day /\ ~wavered
        /\ daily_start_equity' =
             IF broker_day # last_seen_date THEN 0 ELSE daily_start_equity
        /\ UNCHANGED << drawdown_state, broker_day, opening >>
        /\ ~raced /\ ~Racing(call') /\ call[c].at = "roll"
    BY <1>3, <1>c DEF Roll, days, baselines, Step
  <2>2. /\ \A b \in Callers \ {c} : call'[b] = call[b]
        /\ call'[c].why = call[c].why /\ call'[c].equity = call[c].equity
        /\ call'[c].at = "open"
        /\ call'[c].changed = (last_seen_date' # last_seen_date)
    BY <1>3, <1>t, Checking
  <2>3. call[c].why # "resume"
    BY <1>t, <2>1 DEF CallShape
  <2>4. CASE last_seen_date = broker_day
    <3>1. ~Opened(c)
      BY <2>1 DEF Opened
    <3>2. Settled(call'[c], last_seen_date' = broker_day', daily_start_equity')
      BY <2>1, <2>2, <2>3, <2>4
    <3> QED BY <1>m, <2>1, <2>2, <2>4, <3>1, <3>2
  <2>5. CASE last_seen_date # broker_day
    <3>1. opening = 0 /\ daily_start_equity' = 0
      BY <1>t, <2>1, <2>5 DEF DayInv
    <3>2. \A b \in Callers \ {c} : ~InFlight(call[b])
      BY <2>1, <2>2, <2>5 DEF Racing, InFlight
    <3>3. ASSUME NEW b \in Callers PROVE Settled(call'[b], last_seen_date' = broker_day', daily_start_equity')
      BY <1>t, <2>1, <2>2, <2>3, <3>2 DEF InFlight, CallShape
    <3> QED BY <1>t, <2>1, <3>1, <3>3 DEF DayInv
  <2> QED BY <2>4, <2>5
<1>4. ASSUME NEW c \in Callers, Open(c) PROVE DayInv'
  <2>1. /\ call[c].at = "open"
        /\ daily_start_equity' =
             IF daily_start_equity <= 0 THEN call[c].equity ELSE daily_start_equity
        /\ UNCHANGED << last_seen_date, drawdown_state, broker_day, opening, wavered >>
        /\ ~wavered /\ ~raced /\ ~Racing(call')
    BY <1>4, <1>c DEF Open, days, baselines, Step
  <2>2. /\ \A b \in Callers \ {c} : call'[b] = call[b]
        /\ call'[c].why = call[c].why /\ call'[c].equity = call[c].equity
        /\ call'[c].at = "compare"
        /\ IF daily_start_equity <= 0 THEN call'[c].changed
           ELSE call'[c].changed = call[c].changed
    BY <1>4, <1>t, Checking
  <2>3. /\ call[c].why # "resume" /\ call[c].equity \in Nat \ {0}
        /\ daily_start_equity \in Nat /\ last_seen_date = broker_day
    BY <1>t, <1>l, <1>d, <2>1, LimitsAssumption
       DEF CallShape, InFlight, TypeOK, LimitsAssumption
  <2>4. ~Opened(c)
    BY <2>1 DEF Opened
  <2>5. CASE daily_start_equity <= 0
    <3>1. \A b \in Callers \ {c} : ~InFlight(call[b])
      BY <2>1, <2>2, <2>5 DEF Racing, InFlight
    <3>2. daily_start_equity = opening
      BY <1>t, <2>1, <2>3, <2>4, <3>1 DEF DayInv, Opened, InFlight
    <3>3. Opened(c)'
      BY <2>1, <2>2, <2>3, <2>5, <3>2 DEF Opened
    <3>4. ASSUME NEW b \in Callers PROVE Settled(call'[b], last_seen_date' = broker_day', daily_start_equity')
      BY <1>t, <2>1, <2>2, <2>3, <2>5, <3>1 DEF InFlight, CallShape
    <3> QED BY <1>t, <2>1, <2>3, <3>3, <3>4 DEF DayInv
  <2>6. CASE ~(daily_start_equity <= 0)
    <3>1. Settled(call'[c], last_seen_date' = broker_day', daily_start_equity')
      BY <2>1, <2>2, <2>3, <2>6
    <3> QED BY <1>m, <2>1, <2>2, <2>4, <2>6, <3>1
  <2> QED BY <2>5, <2>6
<1>5. ASSUME NEW c \in Callers, Compare(c) PROVE DayInv'
  <2>1. /\ UNCHANGED << daily_start_equity, last_seen_date, drawdown_state,
                        broker_day, opening, wavered >>
        /\ ~wavered /\ ~raced /\ call[c].at = "compare"
    BY <1>5, <1>c DEF Compare, guard, days, baselines, Step
  <2>2. /\ \A b \in Callers \ {c} : call'[b] = call[b]
        /\ call'[c].why = call[c].why /\ call'[c].equity = call[c].equity
        /\ call'[c].at \in {"raise", "save"} /\ call'[c].changed = call[c].changed
    BY <1>5, <1>t, Checking
  <2>3. Settled(call'[c], last_seen_date' = broker_day', daily_start_equity') /\ (Opened(c) => Opened(c)')
    BY <1>d, <2>1, <2>2 DEF Opened
  <2> QED BY <1>m, <2>1, <2>2, <2>3
<1>6. ASSUME NEW c \in Callers, Raise(c) PROVE DayInv'
  <2>1. /\ UNCHANGED << daily_start_equity, last_seen_date, drawdown_state,
                        broker_day, opening, wavered >>
        /\ ~wavered /\ ~raced /\ call[c].at = "raise"
    BY <1>6, <1>c DEF Raise, days, baselines, Step
  <2>2. /\ \A b \in Callers \ {c} : call'[b] = call[b]
        /\ call'[c].why = call[c].why /\ call'[c].equity = call[c].equity
        /\ call'[c].at = "save" /\ call'[c].changed
    BY <1>6, <1>t, Checking
  <2>3. Settled(call'[c], last_seen_date' = broker_day', daily_start_equity') /\ (Opened(c) => Opened(c)')
    BY <1>d, <2>1, <2>2 DEF Opened
  <2> QED BY <1>m, <2>1, <2>2, <2>3
<1>7. ASSUME NEW c \in Callers, ResumeDay(c) PROVE DayInv'
  <2>1. /\ last_seen_date' = broker_day /\ ~wavered
        /\ UNCHANGED << daily_start_equity, drawdown_state, broker_day, opening >>
        /\ ~raced /\ ~Racing(call') /\ call[c].at = "anchored"
    BY <1>7, <1>c DEF ResumeDay, days, baselines, Step
  <2>2. /\ \A b \in Callers \ {c} : call'[b] = call[b]
        /\ call'[c].why = call[c].why /\ call'[c].equity = call[c].equity
        /\ call'[c].at = "save" /\ call'[c].changed = call[c].changed
    BY <1>7, <1>t, Checking
  <2>3. /\ call[c].why = "resume" /\ call[c].changed
        /\ call[c].equity = daily_start_equity /\ daily_start_equity # 0
    BY <1>t, <1>d, <2>1, LimitsAssumption DEF CallShape, InFlight, LimitsAssumption
  <2>4. \A b \in Callers \ {c} : ~InFlight(call[b])
    BY <2>1, <2>2, <2>3 DEF Racing, InFlight
  <2>5. Opened(c)'
    BY <2>1, <2>2, <2>3 DEF Opened
  <2>6. ASSUME NEW b \in Callers PROVE Settled(call'[b], last_seen_date' = broker_day', daily_start_equity')
    BY <1>t, <2>1, <2>2, <2>3, <2>4 DEF InFlight, CallShape
  <2>7. drawdown_state'.date = broker_day' => drawdown_state'.daily = opening'
    BY <1>t, <2>1 DEF DayInv
  <2>8. drawdown_state'.date # broker_day' => opening' = 0
    BY <1>t, <2>1 DEF DayInv
  <2> QED BY <2>1, <2>5, <2>6, <2>7, <2>8 DEF DayInv
<1>8. ASSUME NEW c \in Callers, Save(c) PROVE DayInv'
  <2> DEFINE e == call[c].equity
  <2>1. /\ UNCHANGED << daily_start_equity, last_seen_date, broker_day >>
        /\ call[c].at = "save" /\ Tell(call[c])
        /\ ~raced /\ ~Racing(call) /\ ~wavered
    <3>2. ~raced /\ ~Racing(call)
      BY <1>8, <1>c DEF Step
    <3>3. ~wavered
      BY <1>8, Zenon DEF Save
    <3> QED BY <1>8, <3>2, <3>3 DEF Save, guard, days
  <2>2. IF call[c].changed
        THEN drawdown_state'.date = broker_day /\ drawdown_state'.daily = daily_start_equity
        ELSE drawdown_state' = drawdown_state
    <3>1. CASE call[c].changed
      <4>1. PICK t \in Today :
               /\ drawdown_state' = [daily |-> daily_start_equity,
                                     peak |-> peak_equity, date |-> t]
               /\ wavered' = (wavered \/ t # broker_day)
        BY <1>8, <3>1 DEF Save
      <4>2. t = broker_day
        BY <4>1, Zenon
      <4> QED BY <3>1, <4>1, <4>2
    <3>2. CASE ~call[c].changed
      BY <1>8, <3>2 DEF Save
    <3> QED BY <3>1, <3>2
  <2>3. /\ \A b \in Callers \ {c} : call'[b] = call[b]
        /\ \/ call'[c] = NoCall
           \/ /\ call'[c].at = "judge" /\ call'[c].why = call[c].why
              /\ call[c].why # "resume"
    BY <1>8, <1>t, Deciding
  <2>4. \A b \in Callers \ {c} : ~Opened(b)
    BY <2>1 DEF Racing, InFlight, Opened
  <2>5. /\ last_seen_date = broker_day /\ daily_start_equity # 0
        /\ call[c].why = "resume" => daily_start_equity = e /\ call[c].changed
    BY <1>t, <1>d, <2>1 DEF CallShape
  <2>6. daily_start_equity = opening'
    <3>1. CASE call[c].why = "resume"
      BY <2>1, <2>5, <3>1 DEF Tell
    <3>2. CASE call[c].why # "resume"
      <4>1. daily_start_equity = opening \/ Opened(c)
        BY <1>t, <2>1, <2>4, <2>5 DEF DayInv
      <4> QED BY <2>1, <2>5, <3>2, <4>1 DEF Tell, Opened
    <3> QED BY <3>1, <3>2
  <2>7. ~call[c].changed => drawdown_state.date = broker_day /\ drawdown_state.daily = opening'
    <3>1. SUFFICES ASSUME ~call[c].changed
                   PROVE  drawdown_state.date = broker_day /\ drawdown_state.daily = opening'
      OBVIOUS
    <3>2. daily_start_equity = opening
      BY <1>t, <2>1, <2>4, <2>5, <3>1 DEF DayInv, Opened
    <3> QED BY <1>t, <2>1, <2>5, <2>6, <3>2 DEF DayInv
  <2>8. Settled(call'[c], last_seen_date' = broker_day', daily_start_equity')
    BY <2>1, <2>3, <2>5 DEF NoCall
  <2>9. \A b \in Callers : Settled(call'[b], last_seen_date' = broker_day', daily_start_equity')
    BY <1>d, <2>1, <2>3, <2>8
  <2> QED BY <2>1, <2>2, <2>5, <2>6, <2>7, <2>9 DEF DayInv
<1>9. CASE Restart
  <2>1. PICK t \in Today :
          /\ Start(t)
          /\ daily_start_equity' = LoadedDaily(drawdown_state, t)
          /\ drawdown_state' = IF drawdown_state.date = t THEN drawdown_state
                ELSE [daily |-> 0, peak |-> drawdown_state.peak, date |-> t]
          /\ wavered' = (wavered \/ t # broker_day)
          /\ UNCHANGED << baselines, raced >>
    BY <1>9 DEF Restart
  <2>2. /\ t = broker_day /\ ~wavered /\ ~raced
        /\ UNCHANGED << opening, broker_day >>
        /\ last_seen_date' = broker_day
        /\ \A c \in Callers : call'[c] = NoCall
    BY <2>1 DEF Start, baselines, days
  <2>3. IF drawdown_state.date = broker_day THEN drawdown_state.daily = opening
        ELSE opening = 0
    BY <1>t, <2>2 DEF DayInv
  <2>4. daily_start_equity' = opening /\ drawdown_state'.date = broker_day
        /\ drawdown_state'.daily = opening
    BY <2>1, <2>2, <2>3 DEF LoadedDaily
  <2> QED BY <2>2, <2>4 DEF DayInv, NoCall
<1>10. CASE RestartAfterReset
  <2>1. /\ \A c \in Callers : call'[c] = NoCall
        /\ daily_start_equity' = opening' /\ last_seen_date' = broker_day'
        /\ drawdown_state'.date = broker_day' /\ drawdown_state'.daily = opening'
    <3>1. PICK t \in Today, e \in Equities :
            /\ Start(t)
            /\ daily_start_equity' = e /\ opening' = e
            /\ drawdown_state' = [daily |-> e, peak |-> e, date |-> t]
            /\ wavered' = (t # broker_day)
      BY <1>10 DEF RestartAfterReset
    <3>2. t = broker_day
      BY <3>1
    <3> QED BY <3>1, <3>2 DEF Start, days
  <2> QED BY <2>1 DEF DayInv, NoCall
<1>11. CASE BrokerMidnight
  <2>1. /\ broker_day' = broker_day + 1 /\ opening' = 0 /\ Quiescent
        /\ UNCHANGED << last_seen_date, drawdown_state, call >>
    BY <1>11 DEF BrokerMidnight, guard
  <2>2. last_seen_date' # broker_day' /\ drawdown_state'.date # broker_day'
    BY <1>t, <2>1 DEF DaysOrdered, TypeOK, Row
  <2>3. \A c \in Callers : call'[c].at \in {"idle", "order"} /\ call'[c].why # "resume"
    BY <1>t, <2>1 DEF Quiescent, InFlight, CallShape
  <2> QED BY <2>1, <2>2, <2>3 DEF DayInv
<1>12. CASE UtcMidnight \/ UNCHANGED vars
  <2>1. /\ UNCHANGED << daily_start_equity, last_seen_date, drawdown_state,
                        broker_day, opening, call >>
        /\ ~raced /\ ~wavered
    BY <1>12 DEF UtcMidnight, vars, guard, days, baselines
  <2> QED BY <1>t, <2>1 DEF DayInv, Opened
<1> QED BY <1>1, <1>2, <1>3, <1>4, <1>5, <1>6, <1>7, <1>8, <1>9, <1>10, <1>11, <1>12
     DEF Next, Step

LEMMA BaselineAlways ==
  Spec => []BaselineInv
<1>1. Init => BaselineInv
  <2> SUFFICES ASSUME Init PROVE BaselineInv
    OBVIOUS
  <2>1. CallShape /\ Solo
    BY DEF Init, CallShape, Solo, Racing, InFlight, NoCall
  <2>2. PeakInv /\ DayInv
    BY DEF Init, PeakInv, DayInv, Settled, NoCall
  <2> QED BY <2>1, <2>2, RationInit DEF BaselineInv
<1>2. BaselineInv /\ [Next]_vars => BaselineInv'
  <2>1. BaselineInv /\ [Next]_vars => RationInv'
    BY TypeStep, DaysStep, HolderStep, RationStep DEF BaselineInv, RationInv
  <2> QED BY <2>1, ShapeStep, SoloStep, PeakStep, DayStep DEF BaselineInv
<1> QED BY <1>1, <1>2, PTL DEF Spec

\* drawdown.py's promise that "a loss is never re-anchored away" (line 5), for
\* any equities and limits, over days, resumes, restarts and crashes: the
\* baselines are those the guard was told, as long as no two calls changed
\* them at once and the clock did not fall back.
THEOREM BaselinesAlwaysKept == Spec => []BaselinesKept
<1>1. BaselineInv => BaselinesKept
  BY DEF BaselineInv, PeakInv, DayInv, BaselinesKept, Quiescent, InFlight,
         Raised, Opened
<1> QED BY <1>1, BaselineAlways, PTL

\* A caller on its way from a verdict to an order has no other call ahead of
\* the summit and the day's opening, so what it was judged against are those.
LEMMA SentStep ==
  ASSUME BaselineInv, [Next]_vars, NEW c \in Callers,
         call[c].at = "judge", call'[c].at = "order", ~raced
  PROVE  /\ ~Breaches(summit, call[c].equity, MaxDrawdown)
         /\ ~wavered /\ Breaches(opening, call[c].equity, MaxDailyLoss) =>
              /\ InRecoveryWindow(opening, call[c].equity)
              /\ granted' = granted + 1
<1>t. TypeOK /\ CallShape /\ Solo /\ PeakInv /\ DayInv
  BY DEF BaselineInv, RationInv
\* The order is a sweep's or the API's after its own check, or the arbiter's
\* on the engine's word.
<1>1. Send(c) \/ GrantArbiter(c)
  <2>1. PICK a \in Callers : Step(a)
    BY DEF Next, BrokerMidnight, UtcMidnight, Restart, RestartAfterReset, Start,
           NoCall, vars
  <2>2. a = c
    <3>1. CASE Authorize(a) \/ Consult(a) \/ Refuse(a) \/ PassFirst(a)
                 \/ PassSecond(a) \/ Grant(a) \/ GrantArbiter(a) \/ Send(a) \/ Done(a)
      BY <3>1, Bystander
    <3>2. CASE Resume(a)
      BY <1>t, <3>2, Entering, Moved DEF TypeOK
    <3>3. CASE Roll(a) \/ Open(a) \/ Compare(a) \/ Raise(a) \/ ResumeDay(a) \/ Save(a)
      BY <1>t, <3>3, Checking, Deciding
    <3> QED BY <2>1, <3>1, <3>2, <3>3 DEF Step
  <2>3. CASE Authorize(c) \/ Consult(c) \/ Resume(c)
    BY <2>3 DEF Authorize, Consult, Enter, Resume
  <2>4. CASE Roll(c) \/ Open(c) \/ Compare(c) \/ Raise(c) \/ ResumeDay(c) \/ Save(c)
               \/ Done(c)
    BY <2>4 DEF Roll, Open, Compare, Raise, ResumeDay, Save, Done
  <2>5. CASE Refuse(c) \/ PassFirst(c) \/ PassSecond(c) \/ Grant(c)
    <3>1. call'[c] = NoCall \/ call'[c].at = "roll"
      BY <1>t, <2>5, Deciding
    <3> QED BY <3>1 DEF NoCall
  <2> QED BY <2>1, <2>2, <2>3, <2>4, <2>5 DEF Step
<1>2. \A b \in Callers : ~Raised(b) /\ ~Opened(b)
  BY <1>t DEF Solo, Racing, InFlight, Raised, Opened
<1>3. peak_equity = summit
  BY <1>t, <1>2 DEF PeakInv
<1>4. ~wavered => daily_start_equity = opening
  BY <1>t, <1>2 DEF DayInv, Settled
<1>5. CASE Send(c)
  <2>1. Passes(call[c].equity, FALSE)
    BY <1>5 DEF Send, LastCheckPasses
  <2> QED BY <1>3, <1>4, <2>1 DEF Passes, DayBreached
<1>6. CASE GrantArbiter(c)
  <2>1. /\ Passes(call[c].equity, call[c].recovery)
        /\ call[c].recovery => granted' = granted + 1
    BY <1>6 DEF GrantArbiter, Granted
  <2> QED BY <1>3, <1>4, <2>1 DEF Passes, DayBreached
<1> QED BY <1>1, <1>5, <1>6

\* No order leaves past the drawdown limit; past the day's limit leaves only a
\* recovery trade of the arbiter, within the recovery window and with an attempt
\* spent on it, measured from what the day really began with and the highest
\* equity ever shown (drawdown.py:282-304, risk_engine.py:684-702,
\* orchestrator.py:1931, 2328-2361).
THEOREM SentAlwaysWithinLimits == Spec => SentWithinLimits
<1>1. BaselineInv /\ [Next]_vars =>
        [\A c \in Callers :
           call[c].at = "judge" /\ call'[c].at = "order" /\ ~raced =>
             /\ ~Breaches(summit, call[c].equity, MaxDrawdown)
             /\ ~wavered /\ Breaches(opening, call[c].equity, MaxDailyLoss) =>
                  /\ InRecoveryWindow(opening, call[c].equity)
                  /\ granted' = granted + 1]_vars
  BY SentStep
<1> QED BY <1>1, BaselineAlways, PTL DEF Spec, SentWithinLimits
=============================================================================
