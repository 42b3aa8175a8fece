----------------------- MODULE PositionMonitor_proofs -----------------------
(***************************************************************************)
(* Theorems about PositionMonitor, for any number of positions, any volume *)
(* and distance, and any number of restarts, time-outs and commands.       *)
(***************************************************************************)
EXTENDS PositionMonitor, TLAPS

\* The types of what a call to the broker can change, and of the rest.
CallTypes ==
  /\ opened \in SUBSET Tickets
  /\ volume \in [Tickets -> 0..Lots] /\ stop \in [Tickets -> 0..Top]
  /\ parts \in [Tickets -> Nat] /\ unheard \in [Tickets -> Nat]
  /\ restarts \in Nat
  /\ cut \in SUBSET Tickets /\ miscut \in SUBSET Tickets
  /\ late \in SUBSET Requests /\ events \in Nat
  /\ command \in [Tickets -> {"no", "set", "quiet"}] /\ meddled \in SUBSET Tickets

ModeType == Modes \cup {"none", "ALGO"}
TickTypes ==
  /\ positions \in [Tickets -> Copy] /\ shared \in BOOLEAN
  /\ telemetry \in [Tickets -> ModeType]
  /\ at \in Places /\ list \in [Tickets -> Copy]
  /\ todo \in SUBSET Tickets /\ cur \in Tickets \cup {NoTicket}
  /\ modes \in [Tickets -> ModeType] /\ kept \in [Tickets -> ModeType]
  /\ manual_mode \in Modes /\ mode \in Modes \cup {"ALGO"} /\ pinning \in BOOLEAN
  /\ partial \in SUBSET Tickets

-----------------------------------------------------------------------------
\* A close of the whole position asks for a volume.
LEMMA Sized == Lots \in 1..Lots
BY LotsAssumption DEF LotsAssumption

LEMMA AbsentType == Absent \in Copy
BY LotsAssumption, TopAssumption DEF Absent, Copy, LotsAssumption, TopAssumption

\* A list is stored with the types, whatever was read.
LEMMA StoreTypes ==
  ASSUME CallTypes, TickTypes, NEW read \in [Tickets -> Copy], Store(read)
  PROVE  CallTypes' /\ TickTypes'
BY DEF Store, CallTypes, TickTypes, ModeType, tick, registry, visit, modeVars, broker,
       book, cuts, orders

LEMMA TypesSplit == TypeOK <=> CallTypes /\ TickTypes
BY DEF TypeOK, CallTypes, TickTypes, ModeType

\* What a stop is clamped to, and what is left of a volume, have their types.
LEMMA ClampedType ==
  ASSUME TypeOK, NEW t \in Tickets, NEW request \in 0..Top
  PROVE  Clamped(t, request) \subseteq 0..Top
<1>1. 0 \in 0..Top /\ 1..request \subseteq 0..Top
  BY TopAssumption DEF TopAssumption
<1>2. Clamped(t, request) \subseteq {0} \cup 1..request
  BY Zenon DEF Clamped
<1> QED BY <1>1, <1>2

LEMMA RemainingType ==
  ASSUME TypeOK, NEW t \in Tickets, NEW lots \in 1..Lots
  PROVE  Remaining(t, lots) \in 0..volume[t]
BY DEF LotsAssumption, TopAssumption, Remaining, TypeOK

\* A call to the broker keeps the types of what it changes.
LEMMA ExecuteCloseTypes ==
  ASSUME TypeOK, NEW t \in Tickets, NEW lots \in 1..Lots, ExecuteClose(t, lots)
  PROVE  /\ volume' \in [Tickets -> 0..Lots] /\ stop' \in [Tickets -> 0..Top]
         /\ parts' \in [Tickets -> Nat]
<1>1. Remaining(t, lots) \in 0..Lots
  BY RemainingType, LotsAssumption DEF TypeOK, LotsAssumption
<1>2. stop' \in [Tickets -> 0..Top]
  BY TopAssumption DEF ExecuteClose, ForgetStop, TypeOK, TopAssumption
<1>3. parts' \in [Tickets -> Nat]
  <2> DEFINE one == IF lots < Lots THEN 1 ELSE 0
  <2>1. one \in Nat
    OBVIOUS
  <2>2. parts' = [parts EXCEPT ![t] = @ + one]
    BY DEF ExecuteClose
  <2> HIDE DEF one
  <2> QED BY <2>1, <2>2 DEF TypeOK
<1>5. volume' \in [Tickets -> 0..Lots]
  BY <1>1 DEF ExecuteClose, TypeOK
<1> QED BY <1>2, <1>3, <1>5 DEF TypeOK

LEMMA CloseTypes ==
  ASSUME TypeOK, NEW t \in Tickets, NEW lots \in 1..Lots, NEW done \in BOOLEAN,
         Close(t, lots, done)
  PROVE  CallTypes'
<1>1. [ticket |-> t, kind |-> "close", arg |-> lots] \in Requests
  BY DEF Requests
<1>2. late' \in SUBSET Requests /\ events' \in Nat
  BY <1>1 DEF TypeOK, Close, TimesOut, Event
<1>3. /\ volume' \in [Tickets -> 0..Lots] /\ stop' \in [Tickets -> 0..Top]
      /\ parts' \in [Tickets -> Nat]
  <2>1. CASE ExecuteClose(t, lots)
    BY <2>1, ExecuteCloseTypes
  <2>2. CASE UNCHANGED <<volume, stop, parts>>
    BY <2>2 DEF TypeOK
  <2> QED BY <2>1, <2>2 DEF Close
<1> QED BY <1>2, <1>3 DEF Close, TypeOK, CallTypes, Touch, cuts

LEMMA ModifyTypes ==
  ASSUME TypeOK, NEW t \in Tickets, NEW s \in 0..Top, NEW done \in BOOLEAN,
         Modify(t, s, done)
  PROVE  CallTypes'
<1>1. [ticket |-> t, kind |-> "modify", arg |-> s] \in Requests
  BY DEF Requests
<1>2. late' \in SUBSET Requests /\ events' \in Nat
  BY <1>1 DEF TypeOK, Modify, TimesOut, Event
<1>3. stop' \in [Tickets -> 0..Top]
  BY ClampedType DEF TypeOK, Modify, ExecuteModify
<1> QED BY <1>2, <1>3 DEF Modify, TypeOK, CallTypes, Touch, book, cuts

LEMMA NoCallTypes == TypeOK /\ NoCall => CallTypes'
BY DEF TypeOK, NoCall, CallTypes, broker, book, cuts, orders

\* What a mode is, read from the registry, the telemetry or the global one.
LEMMA ModeOfType ==
  ASSUME TypeOK, NEW t \in Tickets
  PROVE  /\ ModeOf(t) \in Modes \cup {"ALGO"}
BY DEF TypeOK, ModeOf

LEMMA ExitTypes ==
  ASSUME TypeOK, NEW t \in Tickets, NEW banking \in BOOLEAN, NEW done \in BOOLEAN,
         Exit(t, banking, done)
  PROVE  CallTypes' /\ modes' \in [Tickets -> ModeType]
<1>1. modes' \in [Tickets -> ModeType]
  BY ModeOfType DEF Exit, TypeOK, ModeType
<1> QED BY <1>1, Sized, NoCallTypes, CloseTypes DEF Exit

LEMMA LateCallTypes ==
  ASSUME TypeOK, NEW r \in late, LateCall(r)
  PROVE  CallTypes'
<1>1. /\ r.ticket \in Tickets
      /\ (r.kind = "close" => r.arg \in 1..Lots) /\ (r.kind = "modify" => r.arg \in 0..Top)
  BY DEF TypeOK, Requests
<1>2. /\ volume' \in [Tickets -> 0..Lots] /\ stop' \in [Tickets -> 0..Top]
      /\ parts' \in [Tickets -> Nat]
  <2>1. CASE r.kind = "close" /\ ExecuteClose(r.ticket, r.arg)
    BY <1>1, <2>1, ExecuteCloseTypes
  <2>2. CASE r.kind = "modify" /\ ExecuteModify(r.ticket, r.arg) /\ UNCHANGED <<volume, parts>>
    BY <1>1, <2>2, ClampedType DEF TypeOK, ExecuteModify
  <2>3. CASE UNCHANGED <<volume, stop, parts>>
    BY <2>3 DEF TypeOK
  <2> QED BY <2>1, <2>2, <2>3 DEF LateCall
<1> QED BY <1>1, <1>2 DEF LateCall, TypeOK, CallTypes, cuts, orders

\* Every step keeps the types.
LEMMA TypeStep == TypeOK /\ [Next]_vars => TypeOK'
<1> SUFFICES ASSUME TypeOK, [Next]_vars PROVE CallTypes' /\ TickTypes'
  BY DEF TypeOK, CallTypes, TickTypes, ModeType
<1>0. CallTypes /\ TickTypes
  BY TypesSplit
<1> USE DEF store, tick, registry, visit, modeVars, Places, ModeType
<1>1. ASSUME ReadPositions PROVE CallTypes' /\ TickTypes'
  BY <1>0, <1>1 DEF ReadPositions, Stored, Listed, CallTypes, TickTypes, Modes,
     broker, book, cuts, orders
<1>2. ASSUME Prune PROVE CallTypes' /\ TickTypes'
  BY <1>0, <1>2 DEF Prune, Outside, Listed, CallTypes, TickTypes, Modes, broker, book, cuts,
     orders
<1>3. ASSUME Pin PROVE CallTypes' /\ TickTypes'
  BY <1>0, <1>3 DEF Pin, Outside, CallTypes, TickTypes, Modes, broker, book, cuts, orders
<1>4. ASSUME EndPass PROVE CallTypes' /\ TickTypes'
  <2>1. list' \in [Tickets -> Copy]
    BY <1>0, <1>4, AbsentType DEF EndPass, TickTypes
  <2>2. at' \in Places /\ shared' \in BOOLEAN
    BY <1>0, <1>4 DEF EndPass, TickTypes
  <2> QED BY <1>0, <1>4, <2>1, <2>2 DEF EndPass, CallTypes, TickTypes, broker, book, cuts,
        orders
<1>5. ASSUME PassBy PROVE CallTypes' /\ TickTypes'
  BY <1>0, <1>5, NoCallTypes DEF PassBy, Visiting, Leave, TickTypes
<1>6. ASSUME NothingMissing PROVE CallTypes' /\ TickTypes'
  BY <1>0, <1>6, NoCallTypes DEF NothingMissing, Visiting, Goto, TickTypes
<1>7. ASSUME BlowOut PROVE CallTypes' /\ TickTypes'
  BY <1>0, <1>7, NoCallTypes DEF BlowOut, Visiting, Leave, TickTypes
<1>8. ASSUME Brake PROVE CallTypes' /\ TickTypes'
  BY <1>0, <1>8, NoCallTypes DEF Brake, Visiting, Goto, TickTypes
<1>9. ASSUME CannotSplit PROVE CallTypes' /\ TickTypes'
  BY <1>0, <1>9, NoCallTypes DEF CannotSplit, Visiting, Goto, TickTypes
<1>10. ASSUME NoPartial PROVE CallTypes' /\ TickTypes'
  BY <1>0, <1>10, NoCallTypes DEF NoPartial, Visiting, Goto, TickTypes
<1>11. ASSUME Enrich PROVE CallTypes' /\ TickTypes'
  BY <1>0, <1>11, NoCallTypes DEF Enrich, Visiting, Goto, TickTypes
<1>12. ASSUME Decide PROVE CallTypes' /\ TickTypes'
  BY <1>0, <1>12, NoCallTypes DEF Decide, Visiting, Goto, TickTypes
<1>13. ASSUME Unchanged PROVE CallTypes' /\ TickTypes'
  BY <1>0, <1>13, NoCallTypes DEF Unchanged, Visiting, Leave, TickTypes
<1>14. ASSUME TimeStopFails PROVE CallTypes' /\ TickTypes'
  <2>1. CallTypes'
    BY <1>0, <1>14, Sized, CloseTypes DEF TimeStopFails, Visiting, TickTypes
  <2> QED BY <1>0, <1>14, <2>1 DEF TimeStopFails, Visiting, TickTypes
<1>15. ASSUME NEW t \in Tickets, Visit(t) PROVE CallTypes' /\ TickTypes'
  BY <1>0, <1>15 DEF Visit, Outside, ModeOf, CallTypes, TickTypes, Modes, broker,
     book, cuts, orders
<1>16. ASSUME NEW t \in Tickets, NoContext(t) PROVE CallTypes' /\ TickTypes'
  BY <1>0, <1>16 DEF NoContext, Outside, CallTypes, TickTypes, Modes, broker, book, cuts, orders
<1>17. ASSUME NEW done \in BOOLEAN, Bank(done) PROVE CallTypes' /\ TickTypes'
  <2>1. CallTypes' /\ modes' \in [Tickets -> ModeType]
    BY <1>0, <1>17, ExitTypes DEF Bank, Visiting, TickTypes
  <2> QED BY <1>0, <1>17, <2>1 DEF Bank, Visiting, Leave, TickTypes
<1>18. ASSUME NEW done \in BOOLEAN, EarlyExit(done) PROVE CallTypes' /\ TickTypes'
  <2>1. CallTypes' /\ modes' \in [Tickets -> ModeType]
    BY <1>0, <1>18, ExitTypes DEF EarlyExit, Visiting, TickTypes
  <2> QED BY <1>0, <1>18, <2>1 DEF EarlyExit, Visiting, Leave, TickTypes
<1>19. ASSUME NEW done \in BOOLEAN, NEW s \in 1..Top, Floor(s, done)
       PROVE CallTypes' /\ TickTypes'
  <2>1. CallTypes'
    BY <1>0, <1>19, ModifyTypes, TopAssumption DEF Floor, Visiting, TickTypes,
       TopAssumption
  <2> QED BY <1>0, <1>19, <2>1 DEF Floor, Visiting, Leave, TickTypes
<1>20. ASSUME NEW done \in BOOLEAN, NEW s \in 0..Top, Protect(s, done)
       PROVE CallTypes' /\ TickTypes'
  <2>1. CallTypes'
    BY <1>0, <1>20, ModifyTypes DEF Protect, Visiting, TickTypes
  <2> QED BY <1>0, <1>20, <2>1 DEF Protect, Visiting, TickTypes, Copy
<1>21. ASSUME NEW done \in BOOLEAN, NEW s \in 0..Top, Dispatch(s, done)
       PROVE CallTypes' /\ TickTypes'
  <2>1. CallTypes'
    BY <1>0, <1>21, ModifyTypes DEF Dispatch, Visiting, TickTypes
  <2> QED BY <1>0, <1>21, <2>1 DEF Dispatch, Visiting, Leave, TickTypes
<1>22. ASSUME NEW done \in BOOLEAN, NEW t \in Tickets \cup {NoTicket}, Ladder(t, done)
       PROVE CallTypes' /\ TickTypes'
  <2>1. CallTypes'
    BY <1>22, Sized, NoCallTypes, CloseTypes DEF Ladder, Expendable, Listed
  <2> QED BY <1>0, <1>22, <2>1 DEF Ladder, TickTypes, Listed
<1>23. ASSUME NEW done \in BOOLEAN, NEW lots \in 1..Lots, TakePartial(lots, done)
       PROVE CallTypes' /\ TickTypes'
  <2>1. CallTypes'
    BY <1>0, <1>23, CloseTypes DEF TakePartial, Visiting, TickTypes
  <2> QED BY <1>0, <1>23, <2>1 DEF TakePartial, Visiting, Goto, TickTypes
<1>24. ASSUME NEW done \in BOOLEAN, NEW banking \in BOOLEAN, NEW leaving \in BOOLEAN,
              LateExit(banking, done, leaving)
       PROVE CallTypes' /\ TickTypes'
  <2>1. CallTypes' /\ modes' \in [Tickets -> ModeType]
    BY <1>0, <1>24, ExitTypes DEF LateExit, Visiting, TickTypes
  <2> QED BY <1>0, <1>24, <2>1 DEF LateExit, Visiting, Leave, TickTypes
<1>25. ASSUME Sync PROVE CallTypes' /\ TickTypes'
  <2>1. [t \in Tickets |-> IF volume[t] > 0
                             THEN [volume |-> volume[t], stop |-> stop[t]] ELSE Absent]
          \in [Tickets -> Copy]
    BY <1>0, AbsentType DEF CallTypes, Copy
  <2> QED BY <1>0, <1>25, <2>1, StoreTypes DEF Sync
<1>26. ASSUME FailedRead PROVE CallTypes' /\ TickTypes'
  BY <1>0, <1>26, AbsentType, StoreTypes DEF FailedRead
<1>27. ASSUME Restart PROVE CallTypes' /\ TickTypes'
  <2>1. [t \in Tickets |-> Absent] \in [Tickets -> Copy]
    BY AbsentType
  <2>2. CallTypes'
    BY <1>0, <1>27 DEF Restart, Event, CallTypes, broker
  <2> QED BY <1>27, <2>1, <2>2 DEF Restart, TickTypes, Modes
<1>28. ASSUME NEW t \in Tickets, EndedElsewhere(t) PROVE CallTypes' /\ TickTypes'
  BY <1>0, <1>28, LotsAssumption, TopAssumption DEF EndedElsewhere, ForgetStop,
     CallTypes, TickTypes, Modes, broker, book, cuts, orders, LotsAssumption, TopAssumption,
     Copy, Absent
<1>29. ASSUME NEW t \in Tickets, NEW s \in 0..Top, Open(t, s) PROVE CallTypes' /\ TickTypes'
  BY <1>0, <1>29, LotsAssumption, TopAssumption DEF Open, CallTypes, TickTypes, Modes,
     broker, book, cuts, orders, LotsAssumption, TopAssumption, Copy, Absent
<1>30. ASSUME NEW t \in Tickets, NEW s \in 0..Top, MovedElsewhere(t, s)
       PROVE CallTypes' /\ TickTypes'
  BY <1>0, <1>30 DEF MovedElsewhere, Event, CallTypes, TickTypes, Modes, broker, book, cuts,
     orders
<1>31. ASSUME NEW t \in Tickets, NEW m \in Modes, SetMode(t, m)
       PROVE CallTypes' /\ TickTypes'
  BY <1>0, <1>31 DEF SetMode, Event, CallTypes, TickTypes, Modes, broker, book, cuts, orders
<1>32. ASSUME NEW m \in Modes, SetGlobalMode(m) PROVE CallTypes' /\ TickTypes'
  BY <1>0, <1>32 DEF SetGlobalMode, Event, CallTypes, TickTypes, Modes, broker, book, cuts,
     orders
<1>33. ASSUME NEW r \in late, LateCall(r) PROVE CallTypes' /\ TickTypes'
  <2>1. CallTypes'
    BY <1>33, LateCallTypes
  <2> QED BY <1>0, <1>33, <2>1 DEF LateCall, TickTypes
<1>34. ASSUME NEW t \in Tickets, NEW lots \in 1..Lots, PartElsewhere(t, lots)
       PROVE  CallTypes' /\ TickTypes'
  <2>1. volume' \in [Tickets -> 0..Lots]
    BY <1>0, <1>34, LotsAssumption DEF PartElsewhere, CallTypes, LotsAssumption
  <2> QED BY <1>0, <1>34, <2>1 DEF PartElsewhere, Event, Stored, Listed, CallTypes, TickTypes,
        book, orders
<1>35. ASSUME UNCHANGED vars PROVE CallTypes' /\ TickTypes'
  BY <1>0, <1>35 DEF vars, CallTypes, TickTypes, Modes, broker, book, cuts, orders
<1> QED BY <1>1, <1>2, <1>3, <1>4, <1>5, <1>6, <1>7, <1>8, <1>9, <1>10, <1>11, <1>12,
      <1>13, <1>14, <1>15, <1>16, <1>17, <1>18, <1>19, <1>20, <1>21, <1>22, <1>23, <1>24,
      <1>25, <1>26, <1>27, <1>28, <1>29, <1>30, <1>31, <1>32, <1>33, <1>34, <1>35 DEF Next,
      Monitor, Environment

\* The initial state has the types.
LEMMA InitTypes == Init => TypeOK
<1>1. 0 \in 0..Lots /\ 0 \in 0..Top
  BY LotsAssumption, TopAssumption DEF LotsAssumption, TopAssumption
<1>2. [t \in Tickets |-> Absent] \in [Tickets -> Copy]
  BY AbsentType
<1>3. Init => CallTypes
  BY <1>1 DEF Init, CallTypes
<1>4. Init => positions \in [Tickets -> Copy] /\ list \in [Tickets -> Copy]
  BY <1>2 DEF Init
<1>5. Init => /\ telemetry \in [Tickets -> ModeType] /\ modes \in [Tickets -> ModeType]
              /\ kept \in [Tickets -> ModeType]
  BY DEF Init, ModeType
<1>6. Init => TickTypes
  BY <1>4, <1>5 DEF Init, TickTypes, Modes, Places
<1> QED BY <1>3, <1>6, TypesSplit

\* The types hold, for every position, volume, distance and number of events.
THEOREM TypeCorrect == Spec => []TypeOK
BY InitTypes, TypeStep, PTL DEF Spec

-----------------------------------------------------------------------------
\* The monitor knows the ticket, or the operator has commanded something about it.
Seen(t) == t \in Listed \/ t \in Stored \/ t \in partial \/ command[t] # "no"
SeenBefore(t) == at = "prune" /\ (t \in partial \/ command[t] # "no")

\* Where the thread is, and what it holds in its hands.
PlaceInv ==
  /\ at = "sleep" => Listed = {}
  /\ at \in {"sleep", "prune", "ladder"} => cur = NoTicket /\ todo = {}
  /\ todo \subseteq Listed /\ (cur # NoTicket => cur \in Listed)
  /\ pinning => cur # NoTicket

\* A list that is not empty holds every open position that was seen before.
PresentInv ==
  \A t \in Tickets :
    /\ volume[t] > 0 \/ Seen(t) => t \in opened
    /\ Seen(t) => volume[t] = 0 \/ t \in Stored \/ Stored = {}
    /\ SeenBefore(t) => volume[t] = 0 \/ t \in Listed

\* The mode of a trade that was switched off stays off until the trade is gone.
Gone(t) == t \in opened /\ volume[t] = 0 /\ t \notin Stored /\ t \notin Listed
OffInv ==
  \A t \in Tickets :
    command[t] # "no" =>
      /\ t \in Manual /\ (Gone(t) \/ modes[t] = "OFF")
      /\ at = "prune" => Gone(t) \/ kept[t] = "OFF"
      /\ cur = t => ~pinning /\ (command[t] = "quiet" => mode = "OFF")

\* The copies of a position that has given no part show the volume it has, unless
\* someone else has closed a part since they were read.
VolumeInv ==
  \A t \in Tickets :
    unheard[t] = 0 /\ t \notin partial /\ volume[t] > 0 =>
      /\ t \notin cut => positions[t].volume \in {0, volume[t]}
      /\ t \notin miscut => list[t].volume \in {0, volume[t]}

\* One that is not remembered to have given a part has given none, or is gone.
PartsInv ==
  \A t \in Tickets :
    /\ parts[t] <= 1 + unheard[t] + restarts
    /\ t \notin partial /\ (volume[t] > 0 \/ t \notin opened)
         => parts[t] <= unheard[t] + restarts

IInv == /\ TypeOK /\ PlaceInv /\ PresentInv /\ OffInv /\ OffIsRespected
        /\ VolumeInv /\ PartsInv

-----------------------------------------------------------------------------
\* What most steps have in common: they give no part, they lose no ticket from a
\* list, and a mode that is set stays as it is.
Steady ==
  /\ UNCHANGED <<opened, parts, unheard, command, restarts, cuts, partial, kept>>
  /\ Stored' = Stored /\ Listed' = Listed
  /\ \A t \in Tickets :
       /\ volume'[t] \in {0, volume[t]}
       /\ positions'[t].volume = positions[t].volume
       /\ list'[t].volume = list[t].volume
       /\ modes'[t] = modes[t] \/ modes[t] = "none"
  /\ \/ at' = at /\ todo' = todo
     \/ at' \notin {"sleep", "prune", "ladder"} /\ todo' \subseteq todo \cup Listed
  /\ \/ cur' = cur /\ mode' = mode
     \/ ~pinning /\ cur' = NoTicket
  /\ pinning' = pinning

\* A call that gives no part.
Whole ==
  /\ UNCHANGED <<opened, parts, unheard, command, restarts, cuts>>
  /\ \A t \in Tickets : volume'[t] \in {0, volume[t]}

LEMMA CloseWhole ==
  ASSUME TypeOK, NEW t \in Tickets, NEW done \in BOOLEAN, Close(t, Lots, done)
  PROVE  Whole
<1>1. Remaining(t, Lots) = 0
  BY LotsAssumption DEF Remaining, TypeOK, LotsAssumption
<1>2. UNCHANGED parts
  BY LotsAssumption DEF Close, ExecuteClose, TypeOK, LotsAssumption
<1>3. \A u \in Tickets : volume'[u] \in {0, volume[u]}
  BY <1>1 DEF Close, ExecuteClose, TypeOK
<1> QED BY <1>2, <1>3 DEF Close, Whole

LEMMA ModifyWhole ==
  ASSUME NEW t, NEW s, NEW done, Modify(t, s, done)
  PROVE  Whole
BY DEF Modify, Whole, book, cuts

LEMMA NoCallWhole == NoCall => Whole
BY DEF NoCall, Whole, book, cuts, broker, orders

LEMMA ExitWhole ==
  ASSUME TypeOK, NEW t \in Tickets, NEW banking, NEW done \in BOOLEAN,
         Exit(t, banking, done)
  PROVE  /\ Whole
         /\ \A u \in Tickets : modes'[u] = modes[u] \/ modes[u] = "none"
<1>1. Whole
  BY NoCallWhole, CloseWhole DEF Exit
<1>2. \A u \in Tickets : modes'[u] = modes[u] \/ modes[u] = "none"
  BY DEF Exit, Pins, TypeOK
<1> QED BY <1>1, <1>2

\* The steps that are steady.
SteadyStep ==
  \/ PassBy \/ NothingMissing \/ BlowOut \/ Brake \/ NoPartial \/ Enrich \/ Decide
  \/ Unchanged \/ TimeStopFails \/ UNCHANGED vars
  \/ \E done \in BOOLEAN :
       \/ Bank(done) \/ EarlyExit(done)
       \/ \E s \in 1..Top : Floor(s, done)
       \/ \E s \in 0..Top : Protect(s, done) \/ Dispatch(s, done)
       \/ \E t \in Tickets \cup {NoTicket} : Ladder(t, done)
       \/ \E banking, leaving \in BOOLEAN : LateExit(banking, done, leaving)
  \/ \E t \in Tickets :
       EndedElsewhere(t) \/ \E s \in 0..Top : MovedElsewhere(t, s)
  \/ \E m \in Modes : SetGlobalMode(m)

LEMMA StepsAreSteady == TypeOK /\ SteadyStep => Steady
<1> SUFFICES ASSUME TypeOK, SteadyStep PROVE Steady
  OBVIOUS
<1> USE DEF Steady, Stored, Listed, store, tick, registry, visit, modeVars
<1>1. CASE PassBy \/ BlowOut \/ Unchanged
  BY <1>1, NoCallWhole DEF PassBy, BlowOut, Unchanged, Visiting, Leave, Whole
<1>2. CASE NothingMissing \/ Brake \/ NoPartial \/ Enrich \/ Decide
  BY <1>2, NoCallWhole DEF NothingMissing, Brake, NoPartial, Enrich, Decide, Visiting,
     Goto, Whole
<1>3. CASE TimeStopFails
  BY <1>3, CloseWhole DEF TimeStopFails, Visiting, Whole, TypeOK
<1>4. ASSUME NEW done \in BOOLEAN, Bank(done) \/ EarlyExit(done) PROVE Steady
  BY <1>4, ExitWhole DEF Bank, EarlyExit, Visiting, Leave, Whole, TypeOK
<1>5. ASSUME NEW done \in BOOLEAN, NEW banking \in BOOLEAN, NEW leaving \in BOOLEAN,
             LateExit(banking, done, leaving)
      PROVE  Steady
  BY <1>5, ExitWhole DEF LateExit, Visiting, Leave, Whole, TypeOK
<1>6. ASSUME NEW done \in BOOLEAN, NEW s \in 0..Top, Floor(s, done) \/ Dispatch(s, done)
      PROVE  Steady
  BY <1>6, ModifyWhole DEF Floor, Dispatch, Visiting, Leave, Whole
<1>7. ASSUME NEW done \in BOOLEAN, NEW s \in 0..Top, Protect(s, done) PROVE Steady
  <2>1. Whole
    BY <1>7, ModifyWhole DEF Protect
  <2>2. \A t \in Tickets : /\ positions'[t].volume = positions[t].volume
                           /\ list'[t].volume = list[t].volume
    BY <1>7 DEF Protect, TypeOK, Copy
  <2>3. Stored' = Stored /\ Listed' = Listed
    BY <2>2
  <2> QED BY <1>7, <2>1, <2>2, <2>3 DEF Protect, Visiting, Whole
<1>8. ASSUME NEW done \in BOOLEAN, NEW t \in Tickets \cup {NoTicket}, Ladder(t, done)
      PROVE  Steady
  <2>1. Whole
    BY <1>8, CloseWhole, NoCallWhole DEF Ladder, Expendable
  <2> QED BY <1>8, <2>1 DEF Ladder, Whole
<1>9. ASSUME NEW t \in Tickets, EndedElsewhere(t) PROVE Steady
  BY <1>9 DEF EndedElsewhere, TypeOK, book, cuts, orders
<1>10. ASSUME NEW t \in Tickets, NEW s \in 0..Top, MovedElsewhere(t, s) PROVE Steady
  BY <1>10 DEF MovedElsewhere, book, cuts, orders
<1>11. ASSUME NEW m \in Modes, SetGlobalMode(m) PROVE Steady
  BY <1>11 DEF SetGlobalMode, broker, book, cuts, orders
<1>12. CASE UNCHANGED vars
  BY <1>12 DEF vars, broker, book, cuts, orders
<1> QED BY <1>1, <1>2, <1>3, <1>4, <1>5, <1>6, <1>7, <1>8, <1>9, <1>10, <1>11, <1>12,
      TopAssumption DEF SteadyStep, TopAssumption

\* The other steps.
LEMMA OtherSteps ==
  ASSUME [Next]_vars, ~SteadyStep
  PROVE  \/ ReadPositions \/ Prune \/ Pin \/ EndPass \/ CannotSplit \/ Restart
         \/ Sync \/ FailedRead
         \/ \E t \in Tickets :
              \/ Visit(t) \/ NoContext(t)
              \/ \E lots \in 1..Lots : PartElsewhere(t, lots)
              \/ \E s \in 0..Top : Open(t, s)
              \/ \E m \in Modes : SetMode(t, m)
         \/ \E done \in BOOLEAN, lots \in 1..Lots : TakePartial(lots, done)
         \/ \E r \in late : LateCall(r)
BY Zenon DEF Next, Monitor, Environment, SteadyStep
-----------------------------------------------------------------------------
\* A partial close, or a call that was late, only takes from the volume.
LEMMA VolumeFalls ==
  ASSUME TypeOK, NEW t \in Tickets, NEW lots \in 1..Lots, ExecuteClose(t, lots)
  PROVE  /\ volume[t] > 0
         /\ \A u \in Tickets : u # t => volume'[u] = volume[u] /\ parts'[u] = parts[u]
         /\ volume'[t] < volume[t]
         /\ parts'[t] \in {parts[t], parts[t] + 1}
BY LotsAssumption DEF ExecuteClose, Remaining, TypeOK, LotsAssumption

LEMMA PartialFalls ==
  ASSUME TypeOK, NEW done \in BOOLEAN, NEW lots \in 1..Lots, TakePartial(lots, done)
  PROVE  /\ UNCHANGED <<opened, unheard, restarts, cuts, command>>
         /\ IF done THEN ExecuteClose(cur, lots) ELSE UNCHANGED <<volume, parts>>
         /\ \A u \in Tickets : volume[u] = 0 => volume'[u] = 0
<1>1. /\ UNCHANGED <<opened, unheard, restarts, cuts, command>> /\ cur \in Tickets
      /\ IF done THEN ExecuteClose(cur, lots) ELSE UNCHANGED <<volume, parts>>
  BY DEF TakePartial, Visiting, Close, TypeOK
<1> QED BY <1>1, VolumeFalls DEF TypeOK

LEMMA LateFalls ==
  ASSUME TypeOK, NEW r \in late, LateCall(r)
  PROVE  /\ r.ticket \in Tickets
         /\ \/ UNCHANGED <<volume, parts, unheard>>
            \/ /\ ExecuteClose(r.ticket, r.arg) /\ r.arg \in 1..Lots
               /\ unheard' = [unheard EXCEPT ![r.ticket] = @ + 1]
         /\ \A u \in Tickets : volume[u] = 0 => volume'[u] = 0
<1>1. r.ticket \in Tickets /\ (r.kind = "close" => r.arg \in 1..Lots)
  BY DEF TypeOK, Requests
<1>2. \/ UNCHANGED <<volume, parts, unheard>>
      \/ /\ ExecuteClose(r.ticket, r.arg) /\ r.arg \in 1..Lots
         /\ unheard' = [unheard EXCEPT ![r.ticket] = @ + 1]
  BY <1>1 DEF LateCall
<1> QED BY <1>1, <1>2, VolumeFalls DEF TypeOK

\* The thread is where its lists and hands say.
LEMMA PlaceStep == IInv /\ [Next]_vars => PlaceInv'
<1> SUFFICES ASSUME IInv, [Next]_vars PROVE PlaceInv'
  OBVIOUS
<1> USE DEF IInv, TypeOK, broker, store, tick, registry, visit, modeVars, book, cuts, orders
<1>1. CASE SteadyStep
  BY <1>1, StepsAreSteady DEF Steady, PlaceInv
<1>2. CASE ReadPositions
  BY <1>2 DEF ReadPositions, Stored, Listed, PlaceInv
<1>3. CASE Prune
  BY <1>3 DEF Prune, Outside, Listed, Stored, PlaceInv
<1>4. CASE Pin
  BY <1>4 DEF Pin, Outside, Listed, Stored, PlaceInv
<1>5. CASE EndPass
  BY <1>5 DEF EndPass, Stored, Listed, Absent, PlaceInv
<1>6. CASE CannotSplit
  BY <1>6 DEF CannotSplit, Visiting, Goto, NoCall, Stored, Listed, PlaceInv
<1>7. CASE Restart
  BY <1>7 DEF Restart, Stored, Listed, Absent, PlaceInv
<1>8. CASE Sync
  BY <1>8 DEF Sync, Store, Stored, Listed, Absent, PlaceInv
<1>9. CASE FailedRead
  BY <1>9 DEF FailedRead, Store, Stored, Listed, Absent, PlaceInv
<1>10. ASSUME NEW u \in Tickets, Visit(u) PROVE PlaceInv'
  BY <1>10, TicketsAssumption DEF Visit, Outside, Stored, Listed, PlaceInv,
     TicketsAssumption
<1>11. ASSUME NEW u \in Tickets, NoContext(u) PROVE PlaceInv'
  BY <1>11 DEF NoContext, Outside, Stored, Listed, PlaceInv
<1>12. ASSUME NEW u \in Tickets, NEW s \in 0..Top, Open(u, s) PROVE PlaceInv'
  BY <1>12 DEF Open, Stored, Listed, PlaceInv
<1>13. ASSUME NEW u \in Tickets, NEW m \in Modes, SetMode(u, m) PROVE PlaceInv'
  BY <1>13 DEF SetMode, Stored, Listed, PlaceInv
<1>14. ASSUME NEW done \in BOOLEAN, NEW lots \in 1..Lots, TakePartial(lots, done)
       PROVE PlaceInv'
  BY <1>14 DEF TakePartial, Visiting, Goto, Stored, Listed, PlaceInv
<1>15. ASSUME NEW r \in late, LateCall(r) PROVE PlaceInv'
  BY <1>15 DEF LateCall, Stored, Listed, PlaceInv
<1>16. ASSUME NEW u \in Tickets, NEW lots \in 1..Lots, PartElsewhere(u, lots)
       PROVE  PlaceInv'
  BY <1>16 DEF PartElsewhere, Stored, Listed, PlaceInv
<1> QED BY <1>1, <1>2, <1>3, <1>4, <1>5, <1>6, <1>7, <1>8, <1>9, <1>10, <1>11, <1>12,
      <1>13, <1>14, <1>15, <1>16, OtherSteps

\* What was seen was opened, and a list holds it.
LEMMA PresentStep == IInv /\ [Next]_vars => PresentInv'
<1> SUFFICES ASSUME IInv, [Next]_vars PROVE PresentInv'
  OBVIOUS
<1> USE DEF IInv, TypeOK, broker, store, tick, registry, visit, modeVars, book, cuts, orders
<1>1. CASE SteadyStep
  BY <1>1, StepsAreSteady DEF Steady, PresentInv, PlaceInv, Seen, SeenBefore
<1>2. CASE ReadPositions
  BY <1>2 DEF ReadPositions, Stored, Listed, PresentInv, PlaceInv, Seen, SeenBefore
<1>3. CASE Prune
  BY <1>3 DEF Prune, Outside, Listed, Stored, PresentInv, PlaceInv, Seen, SeenBefore
<1>4. CASE Pin
  BY <1>4 DEF Pin, Outside, Listed, Stored, PresentInv, PlaceInv, Seen, SeenBefore
<1>5. CASE EndPass
  BY <1>5 DEF EndPass, Stored, Listed, Absent, PresentInv, PlaceInv, Seen, SeenBefore
<1>6. CASE CannotSplit
  BY <1>6 DEF CannotSplit, Visiting, Goto, NoCall, Stored, Listed, PresentInv,
     PlaceInv, Seen, SeenBefore
<1>7. CASE Restart
  BY <1>7 DEF Restart, Stored, Listed, Absent, PresentInv, PlaceInv, Seen, SeenBefore
<1>8. CASE Sync
  BY <1>8 DEF Sync, Store, Stored, Listed, Absent, PresentInv, PlaceInv, Seen, SeenBefore
<1>9. CASE FailedRead
  BY <1>9 DEF FailedRead, Store, Stored, Listed, Absent, PresentInv, PlaceInv, Seen,
     SeenBefore
<1>10. ASSUME NEW u \in Tickets, Visit(u) PROVE PresentInv'
  BY <1>10 DEF Visit, Outside, Stored, Listed, PresentInv, PlaceInv, Seen, SeenBefore
<1>11. ASSUME NEW u \in Tickets, NoContext(u) PROVE PresentInv'
  BY <1>11 DEF NoContext, Outside, Stored, Listed, PresentInv, PlaceInv, Seen, SeenBefore
<1>12. ASSUME NEW u \in Tickets, NEW s \in 0..Top, Open(u, s) PROVE PresentInv'
  BY <1>12, LotsAssumption DEF Open, Stored, Listed, PresentInv, PlaceInv, Seen,
     SeenBefore, LotsAssumption
<1>13. ASSUME NEW u \in Tickets, NEW m \in Modes, SetMode(u, m) PROVE PresentInv'
  BY <1>13 DEF SetMode, Stored, Listed, PresentInv, PlaceInv, Seen, SeenBefore
<1>14. ASSUME NEW done \in BOOLEAN, NEW lots \in 1..Lots, TakePartial(lots, done)
       PROVE PresentInv'
  BY <1>14, PartialFalls DEF TakePartial, Visiting, Goto, Stored, Listed, PresentInv,
     PlaceInv, Seen, SeenBefore
<1>15. ASSUME NEW r \in late, LateCall(r) PROVE PresentInv'
  BY <1>15, LateFalls DEF LateCall, Stored, Listed, PresentInv, PlaceInv, Seen, SeenBefore
<1>16. ASSUME NEW u \in Tickets, NEW lots \in 1..Lots, PartElsewhere(u, lots)
       PROVE  PresentInv'
  BY <1>16 DEF PartElsewhere, Stored, Listed, PresentInv, Seen, SeenBefore
<1> QED BY <1>1, <1>2, <1>3, <1>4, <1>5, <1>6, <1>7, <1>8, <1>9, <1>10, <1>11, <1>12,
      <1>13, <1>14, <1>15, <1>16, OtherSteps

\* Nothing but the operator switches a trade on again.
LEMMA OffStep == IInv /\ [Next]_vars => OffInv'
<1> SUFFICES ASSUME IInv, [Next]_vars PROVE OffInv'
  OBVIOUS
<1> USE DEF IInv, TypeOK, broker, store, tick, registry, visit, modeVars, book, cuts, orders
<1>1. CASE SteadyStep
  BY <1>1, StepsAreSteady, TicketsAssumption DEF Steady, OffInv, PlaceInv, PresentInv,
     Seen, SeenBefore, Gone, TicketsAssumption
<1>2. CASE ReadPositions
  BY <1>2, TicketsAssumption DEF ReadPositions, Stored, Listed, OffInv, PlaceInv,
     PresentInv, Seen, SeenBefore, Gone, TicketsAssumption
<1>3. CASE Prune
  BY <1>3 DEF Prune, Outside, Listed, Stored, OffInv, PlaceInv, PresentInv, Seen,
     SeenBefore, Gone
<1>4. CASE Pin
  BY <1>4 DEF Pin, Outside, Listed, Stored, OffInv, PlaceInv, PresentInv, Seen,
     SeenBefore, Gone
<1>5. CASE EndPass
  BY <1>5 DEF EndPass, Stored, Listed, Absent, OffInv, PlaceInv, PresentInv, Seen,
     SeenBefore, Gone
<1>6. CASE CannotSplit
  BY <1>6 DEF CannotSplit, Visiting, Goto, NoCall, Stored, Listed, OffInv, PlaceInv,
     PresentInv, Seen, SeenBefore, Gone
<1>7. CASE Restart
  BY <1>7 DEF Restart, Stored, Listed, Absent, OffInv, PlaceInv, PresentInv, Seen,
     SeenBefore, Gone
<1>8. CASE Sync
  BY <1>8 DEF Sync, Store, Stored, Listed, Absent, OffInv, PlaceInv, PresentInv, Seen,
     SeenBefore, Gone
<1>9. CASE FailedRead
  BY <1>9 DEF FailedRead, Store, Stored, Listed, Absent, OffInv, PlaceInv, PresentInv,
     Seen, SeenBefore, Gone
<1>10. ASSUME NEW u \in Tickets, Visit(u) PROVE OffInv'
  BY <1>10, TicketsAssumption DEF Visit, Outside, Stored, Listed, OffInv, PlaceInv,
     PresentInv, Seen, SeenBefore, Gone, ModeOf, Pins, TicketsAssumption
<1>11. ASSUME NEW u \in Tickets, NoContext(u) PROVE OffInv'
  BY <1>11 DEF NoContext, Outside, Stored, Listed, OffInv, PlaceInv, PresentInv, Seen,
     SeenBefore, Gone
<1>12. ASSUME NEW u \in Tickets, NEW s \in 0..Top, Open(u, s) PROVE OffInv'
  BY <1>12 DEF Open, Stored, Listed, OffInv, PlaceInv, PresentInv, Seen, SeenBefore, Gone
<1>13. ASSUME NEW u \in Tickets, NEW m \in Modes, SetMode(u, m) PROVE OffInv'
  BY <1>13 DEF SetMode, Stored, Listed, OffInv, PlaceInv, PresentInv, Seen,
     SeenBefore, Gone
<1>14. ASSUME NEW done \in BOOLEAN, NEW lots \in 1..Lots, TakePartial(lots, done)
       PROVE OffInv'
  BY <1>14, PartialFalls DEF TakePartial, Visiting, Goto, Stored, Listed, OffInv,
     PlaceInv, PresentInv, Seen, SeenBefore, Gone
<1>15. ASSUME NEW r \in late, LateCall(r) PROVE OffInv'
  BY <1>15, LateFalls DEF LateCall, Stored, Listed, OffInv, PlaceInv, PresentInv,
     Seen, SeenBefore, Gone
<1>16. ASSUME NEW u \in Tickets, NEW lots \in 1..Lots, PartElsewhere(u, lots)
       PROVE  OffInv'
  BY <1>16 DEF PartElsewhere, Stored, Listed, OffInv, Gone
<1> QED BY <1>1, <1>2, <1>3, <1>4, <1>5, <1>6, <1>7, <1>8, <1>9, <1>10, <1>11, <1>12,
      <1>13, <1>14, <1>15, <1>16, OtherSteps

\* Only a part that was not heard of makes a copy wrong.
LEMMA VolumeStep == IInv /\ [Next]_vars => VolumeInv'
<1> SUFFICES ASSUME IInv, [Next]_vars PROVE VolumeInv'
  OBVIOUS
<1> USE DEF IInv, TypeOK, broker, store, tick, registry, visit, modeVars, book, cuts, orders
<1>1. CASE SteadyStep
  BY <1>1, StepsAreSteady DEF Steady, VolumeInv, PlaceInv, PresentInv, Seen, SeenBefore
<1>2. CASE ReadPositions
  BY <1>2 DEF ReadPositions, Stored, Listed, VolumeInv, PlaceInv, PresentInv, Seen,
     SeenBefore
<1>3. CASE Prune
  BY <1>3 DEF Prune, Outside, Listed, Stored, VolumeInv, PlaceInv, PresentInv, Seen,
     SeenBefore
<1>4. CASE Pin
  BY <1>4 DEF Pin, Outside, Listed, Stored, VolumeInv, PlaceInv, PresentInv, Seen,
     SeenBefore
<1>5. CASE EndPass
  BY <1>5 DEF EndPass, Stored, Listed, Absent, VolumeInv, PlaceInv, PresentInv, Seen,
     SeenBefore
<1>6. CASE CannotSplit
  BY <1>6 DEF CannotSplit, Visiting, Goto, NoCall, Stored, Listed, VolumeInv,
     PlaceInv, PresentInv, Seen, SeenBefore
<1>7. CASE Restart
  BY <1>7 DEF Restart, Stored, Listed, Absent, VolumeInv, PlaceInv, PresentInv, Seen,
     SeenBefore
<1>8. CASE Sync
  BY <1>8 DEF Sync, Store, Stored, Listed, Absent, VolumeInv, PlaceInv, PresentInv,
     Seen, SeenBefore
<1>9. CASE FailedRead
  BY <1>9 DEF FailedRead, Store, Stored, Listed, Absent, VolumeInv, PlaceInv,
     PresentInv, Seen, SeenBefore
<1>10. ASSUME NEW u \in Tickets, Visit(u) PROVE VolumeInv'
  BY <1>10 DEF Visit, Outside, Stored, Listed, VolumeInv, PlaceInv, PresentInv, Seen,
     SeenBefore
<1>11. ASSUME NEW u \in Tickets, NoContext(u) PROVE VolumeInv'
  BY <1>11 DEF NoContext, Outside, Stored, Listed, VolumeInv, PlaceInv, PresentInv,
     Seen, SeenBefore
<1>12. ASSUME NEW u \in Tickets, NEW s \in 0..Top, Open(u, s) PROVE VolumeInv'
  BY <1>12 DEF Open, Stored, Listed, VolumeInv, PlaceInv, PresentInv, Seen,
     SeenBefore, Copy
<1>13. ASSUME NEW u \in Tickets, NEW m \in Modes, SetMode(u, m) PROVE VolumeInv'
  BY <1>13 DEF SetMode, Stored, Listed, VolumeInv, PlaceInv, PresentInv, Seen, SeenBefore
<1>14. ASSUME NEW done \in BOOLEAN, NEW lots \in 1..Lots, TakePartial(lots, done)
       PROVE VolumeInv'
  BY <1>14, PartialFalls, VolumeFalls DEF TakePartial, Visiting, Goto, Stored, Listed,
     VolumeInv, PlaceInv, PresentInv, Seen, SeenBefore
<1>15. ASSUME NEW r \in late, LateCall(r) PROVE VolumeInv'
  BY <1>15, LateFalls, VolumeFalls DEF LateCall, Stored, Listed, VolumeInv, PlaceInv,
     PresentInv, Seen, SeenBefore
<1>16. ASSUME NEW u \in Tickets, NEW lots \in 1..Lots, PartElsewhere(u, lots)
       PROVE  VolumeInv'
  BY <1>16 DEF PartElsewhere, Stored, Listed, VolumeInv, Copy
<1> QED BY <1>1, <1>2, <1>3, <1>4, <1>5, <1>6, <1>7, <1>8, <1>9, <1>10, <1>11, <1>12,
      <1>13, <1>14, <1>15, <1>16, OtherSteps

\* A part is remembered, or was not heard of.
LEMMA PartsStep == IInv /\ [Next]_vars => PartsInv'
<1> SUFFICES ASSUME IInv, [Next]_vars PROVE PartsInv'
  OBVIOUS
<1> USE DEF IInv, TypeOK, broker, store, tick, registry, visit, modeVars, book, cuts, orders
<1>1. CASE SteadyStep
  BY <1>1, StepsAreSteady DEF Steady, PartsInv, PlaceInv, PresentInv, Seen, SeenBefore
<1>2. CASE ReadPositions
  BY <1>2 DEF ReadPositions, Stored, Listed, PartsInv, PlaceInv, PresentInv, Seen,
     SeenBefore
<1>3. CASE Prune
  BY <1>3 DEF Prune, Outside, Listed, Stored, PartsInv, PlaceInv, PresentInv, Seen,
     SeenBefore
<1>4. CASE Pin
  BY <1>4 DEF Pin, Outside, Listed, Stored, PartsInv, PlaceInv, PresentInv, Seen,
     SeenBefore
<1>5. CASE EndPass
  BY <1>5 DEF EndPass, Stored, Listed, Absent, PartsInv, PlaceInv, PresentInv, Seen,
     SeenBefore
<1>6. CASE CannotSplit
  BY <1>6 DEF CannotSplit, Visiting, Goto, NoCall, Stored, Listed, PartsInv, PlaceInv,
     PresentInv, Seen, SeenBefore
<1>7. CASE Restart
  BY <1>7 DEF Restart, Stored, Listed, Absent, PartsInv, PlaceInv, PresentInv, Seen,
     SeenBefore
<1>8. CASE Sync
  BY <1>8 DEF Sync, Store, Stored, Listed, Absent, PartsInv, PlaceInv, PresentInv,
     Seen, SeenBefore
<1>9. CASE FailedRead
  BY <1>9 DEF FailedRead, Store, Stored, Listed, Absent, PartsInv, PlaceInv,
     PresentInv, Seen, SeenBefore
<1>10. ASSUME NEW u \in Tickets, Visit(u) PROVE PartsInv'
  BY <1>10 DEF Visit, Outside, Stored, Listed, PartsInv, PlaceInv, PresentInv, Seen,
     SeenBefore
<1>11. ASSUME NEW u \in Tickets, NoContext(u) PROVE PartsInv'
  BY <1>11 DEF NoContext, Outside, Stored, Listed, PartsInv, PlaceInv, PresentInv,
     Seen, SeenBefore
<1>12. ASSUME NEW u \in Tickets, NEW s \in 0..Top, Open(u, s) PROVE PartsInv'
  BY <1>12 DEF Open, Stored, Listed, PartsInv, PlaceInv, PresentInv, Seen, SeenBefore
<1>13. ASSUME NEW u \in Tickets, NEW m \in Modes, SetMode(u, m) PROVE PartsInv'
  BY <1>13 DEF SetMode, Stored, Listed, PartsInv, PlaceInv, PresentInv, Seen, SeenBefore
<1>14. ASSUME NEW done \in BOOLEAN, NEW lots \in 1..Lots, TakePartial(lots, done)
       PROVE PartsInv'
  BY <1>14, PartialFalls, VolumeFalls DEF TakePartial, Visiting, Goto, Stored, Listed,
     PartsInv, PlaceInv, PresentInv, Seen, SeenBefore, PartialDue
<1>15. ASSUME NEW r \in late, LateCall(r) PROVE PartsInv'
  BY <1>15, LateFalls, VolumeFalls DEF LateCall, Stored, Listed, PartsInv, PlaceInv,
     PresentInv, Seen, SeenBefore
<1>16. ASSUME NEW u \in Tickets, NEW lots \in 1..Lots, PartElsewhere(u, lots)
       PROVE  PartsInv'
  BY <1>16 DEF PartElsewhere, Stored, Listed, PartsInv
<1> QED BY <1>1, <1>2, <1>3, <1>4, <1>5, <1>6, <1>7, <1>8, <1>9, <1>10, <1>11, <1>12,
      <1>13, <1>14, <1>15, <1>16, OtherSteps

\* A part is smaller than a volume that is still right.
LEMMA RunnerStep ==
  ASSUME IInv, [Next]_vars, NEW t \in Tickets, parts'[t] > parts[t], volume'[t] = 0
  PROVE  unheard'[t] > 0 \/ t \in miscut
<1> USE DEF broker, store, tick, registry, visit, modeVars, book, cuts, orders
<1>1. TypeOK /\ PartsInv /\ VolumeInv /\ PlaceInv /\ parts[t] \in Nat /\ parts'[t] # parts[t]
  BY DEF IInv, TypeOK
<1>2. ASSUME NEW done \in BOOLEAN, NEW lots \in 1..Lots, TakePartial(lots, done)
      PROVE  t \in miscut \/ unheard'[t] > 0
  <2>1. /\ done /\ ExecuteClose(cur, lots) /\ cur = t /\ unheard' = unheard
        /\ t \notin partial /\ lots < list[t].volume
    BY <1>1, <1>2, PartialFalls, VolumeFalls DEF TakePartial, Visiting, PartialDue, TypeOK, Copy
  <2>2. volume[t] > 0 /\ lots >= volume[t]
    BY <1>1, <2>1, LotsAssumption DEF ExecuteClose, Remaining, TypeOK, LotsAssumption
  <2> QED BY <1>1, <2>1, <2>2 DEF VolumeInv, TypeOK, Copy
<1>3. ASSUME NEW r \in late, LateCall(r) PROVE unheard'[t] > 0
  <2>1. /\ ExecuteClose(r.ticket, r.arg) /\ r.ticket \in Tickets /\ r.arg \in 1..Lots
        /\ unheard' = [unheard EXCEPT ![r.ticket] = @ + 1]
    BY <1>1, <1>3, LateFalls
  <2>2. r.ticket = t
    BY <1>1, <2>1, VolumeFalls
  <2> QED BY <1>1, <2>1, <2>2 DEF TypeOK
<1>4. CASE SteadyStep
  BY <1>1, <1>4, StepsAreSteady DEF Steady
<1>5. CASE ReadPositions \/ Prune \/ Pin \/ EndPass \/ CannotSplit \/ Restart \/ Sync \/ FailedRead
  BY <1>1, <1>5 DEF ReadPositions, Prune, Pin, EndPass, CannotSplit, Restart, Sync, FailedRead,
     Store, Outside, NoCall
<1>6. ASSUME NEW u \in Tickets,
             \/ Visit(u) \/ NoContext(u) \/ \E lots \in 1..Lots : PartElsewhere(u, lots)
             \/ \E s \in 0..Top : Open(u, s)
             \/ \E m \in Modes : SetMode(u, m)
      PROVE  FALSE
  BY <1>1, <1>6 DEF Visit, NoContext, PartElsewhere, Open, SetMode, Outside
<1> QED BY <1>2, <1>3, <1>4, <1>5, <1>6, OtherSteps

\* No step calls on a trade whose mode has been off since before the tick.
LEMMA LeftAloneStep == IInv /\ [Next]_vars => OffIsRespected'
<1> SUFFICES ASSUME IInv, [Next]_vars PROVE OffIsRespected'
  OBVIOUS
<1>1. /\ meddled = {} /\ TypeOK /\ cur \in Tickets \cup {NoTicket}
      /\ \A t \in Tickets : command[t] # "no" /\ t \in Listed => modes[t] = "OFF" /\ t \in Manual
      /\ cur \in Tickets /\ command[cur] = "quiet" => mode = "OFF"
      /\ cur \in Tickets => cur \in Listed
  BY TicketsAssumption DEF IInv, OffIsRespected, OffInv, Gone, PlaceInv, TypeOK,
     TicketsAssumption
<1>2. \A t \in Listed, banking \in BOOLEAN :
        t \in Expendable \/ MayExit(t, ModeOf(t), banking) => command[t] # "quiet"
  BY <1>1 DEF MayExit, ModeOf, Expendable, Listed
<1>3. cur \in Tickets /\ Protected(cur) => command[cur] # "quiet"
  BY <1>1 DEF Protected, Listed
<1> USE DEF OffIsRespected, store, tick, registry, visit, modeVars, book, cuts, orders
<1>4. ASSUME NEW done \in BOOLEAN, Bank(done) \/ EarlyExit(done) PROVE OffIsRespected'
  BY <1>1, <1>2, <1>4 DEF Bank, EarlyExit, Visiting, Exit, Close, Touch, NoCall
<1>5. ASSUME NEW done \in BOOLEAN, NEW banking \in BOOLEAN, NEW leaving \in BOOLEAN,
             LateExit(banking, done, leaving)
      PROVE  OffIsRespected'
  BY <1>1, <1>2, <1>5 DEF LateExit, Visiting, Exit, Close, Touch, NoCall
<1>6. CASE TimeStopFails
  BY <1>1, <1>2, <1>6 DEF TimeStopFails, Visiting, Close, Touch
<1>7. ASSUME NEW done \in BOOLEAN, NEW s \in 0..Top,
             Floor(s, done) \/ Protect(s, done) \/ Dispatch(s, done)
      PROVE  OffIsRespected'
  BY <1>1, <1>3, <1>7 DEF Floor, Protect, Dispatch, Visiting, Modify, Touch
<1>8. ASSUME NEW done \in BOOLEAN, NEW t \in Tickets \cup {NoTicket}, Ladder(t, done)
      PROVE  OffIsRespected'
  BY <1>1, <1>2, <1>8 DEF Ladder, Expendable, Close, Touch, NoCall
<1>9. ASSUME NEW done \in BOOLEAN, NEW lots \in 1..Lots, TakePartial(lots, done)
      PROVE  OffIsRespected'
  BY <1>1, <1>9 DEF TakePartial, PartialDue, Visiting, Close, Touch
<1>10. ASSUME UNCHANGED meddled PROVE OffIsRespected'
  BY <1>1, <1>10
<1>11. CASE PassBy \/ NothingMissing \/ BlowOut \/ Brake \/ NoPartial \/ Enrich \/ Decide
            \/ Unchanged \/ CannotSplit \/ UNCHANGED vars
  BY <1>10, <1>11 DEF PassBy, NothingMissing, BlowOut, Brake, NoPartial, Enrich, Decide,
     Unchanged, CannotSplit, NoCall, vars
<1>12. CASE ReadPositions \/ Prune \/ Pin \/ EndPass \/ Sync \/ FailedRead \/ Restart
  BY <1>10, <1>12 DEF ReadPositions, Prune, Pin, EndPass, Sync, FailedRead, Store, Restart
<1>13. ASSUME NEW t \in Tickets,
              \/ Visit(t) \/ NoContext(t) \/ EndedElsewhere(t)
              \/ \E lots \in 1..Lots : PartElsewhere(t, lots)
       PROVE  OffIsRespected'
  BY <1>10, <1>13 DEF Visit, NoContext, EndedElsewhere, PartElsewhere
<1>14. ASSUME NEW t \in Tickets, NEW s \in 0..Top, Open(t, s) \/ MovedElsewhere(t, s)
       PROVE  OffIsRespected'
  BY <1>10, <1>14 DEF Open, MovedElsewhere
<1>15. ASSUME NEW m \in Modes, SetGlobalMode(m) \/ \E t \in Tickets : SetMode(t, m)
       PROVE  OffIsRespected'
  BY <1>10, <1>15 DEF SetMode, SetGlobalMode
<1>16. ASSUME NEW r \in late, LateCall(r) PROVE OffIsRespected'
  BY <1>10, <1>16 DEF LateCall
<1>17. \A s \in 1..Top : s \in 0..Top
  BY TopAssumption DEF TopAssumption
<1> QED BY <1>4, <1>5, <1>6, <1>7, <1>8, <1>9, <1>11, <1>12, <1>13, <1>14, <1>15,
      <1>16, <1>17,
      Zenon DEF Next, Monitor, Environment

\* The invariant holds of every behaviour.
THEOREM Inductive == Spec => []IInv
<1>1. Init => IInv
  <2> SUFFICES ASSUME Init PROVE IInv
    OBVIOUS
  <2>1. TypeOK
    BY InitTypes
  <2> QED BY <2>1, TicketsAssumption DEF Init, IInv, PlaceInv, PresentInv, Seen,
        SeenBefore,
      OffInv, OffIsRespected, VolumeInv, PartsInv, Listed, Stored, Absent,
      TicketsAssumption
<1>2. IInv /\ [Next]_vars => IInv'
  BY TypeStep, PlaceStep, PresentStep, OffStep, LeftAloneStep, VolumeStep, PartsStep
     DEF IInv
<1> QED BY <1>1, <1>2, PTL DEF Spec

\* A trade that is switched off is left alone from the next tick on.
THEOREM OffTradesAreLeftAlone == Spec => []OffIsRespected
<1>1. IInv => OffIsRespected
  BY DEF IInv
<1> QED BY <1>1, Inductive, PTL

\* No position gives two parts, but for restarts and closes that were not heard of.
THEOREM PartsAreBounded == Spec => []PartialsBounded
<1>1. IInv => PartialsBounded
  BY DEF IInv, PartsInv, PartialsBounded
<1> QED BY <1>1, Inductive, PTL

\* No partial close takes the whole position, but for parts closed by others since
\* the list was read and closes that were not heard of.
THEOREM RunnersRemain == Spec => RunnerRemains
<1>1. IInv /\ [Next]_vars =>
        [\A t \in Tickets :
           parts'[t] > parts[t] /\ volume'[t] = 0 => unheard'[t] > 0 \/ t \in miscut]_vars
  BY RunnerStep
<1> QED BY <1>1, Inductive, PTL DEF Spec, RunnerRemains

-----------------------------------------------------------------------------
\* Only the floors and the dispatch move the stop on their way out.
LEMMA OnlyDispatch ==
  ASSUME TypeOK, Next, NEW t \in Tickets, at \in {"protocols", "dispatch"}, cur = t, cur' # t,
         stop'[t] # stop[t], volume'[t] > 0
  PROVE  \E done \in BOOLEAN, s \in 0..Top : Dispatch(s, done) \/ Floor(s, done)
<1> USE DEF store, tick, registry, visit, modeVars, broker
<1>1. t # NoTicket /\ stop' # stop /\ cur' # cur
  BY TicketsAssumption DEF TicketsAssumption
<1>2. ASSUME NEW done \in BOOLEAN, Bank(done) PROVE FALSE
  <2>1. Close(t, Lots, done) /\ done
    BY <1>1, <1>2 DEF Bank, Exit, Close, NoCall
  <2>2. volume'[t] = 0
    BY <2>1, LotsAssumption DEF Close, ExecuteClose, Remaining, TypeOK, LotsAssumption
  <2> QED BY <2>2
<1>3. \A s \in 1..Top : s \in 0..Top
  BY TopAssumption DEF TopAssumption
<1>4. ~(PassBy \/ ReadPositions \/ Prune \/ Pin \/ EndPass \/ NothingMissing \/ BlowOut \/ Brake
        \/ CannotSplit \/ NoPartial \/ Enrich \/ Decide \/ Unchanged \/ TimeStopFails)
  BY <1>1 DEF PassBy, ReadPositions, Prune, Pin, EndPass, NothingMissing, BlowOut, Brake,
     CannotSplit, NoPartial, Enrich, Decide, Unchanged, TimeStopFails, Visiting, NoCall, Outside
<1>5. \A u \in Tickets : ~Visit(u) /\ ~NoContext(u)
  BY <1>1 DEF Visit, NoContext
<1>6. \A done \in BOOLEAN :
        /\ ~EarlyExit(done)
        /\ \A s \in 0..Top : ~Protect(s, done)
        /\ \A u \in Tickets \cup {NoTicket} : ~Ladder(u, done)
        /\ \A lots \in 1..Lots : ~TakePartial(lots, done)
        /\ \A banking, leaving \in BOOLEAN : ~LateExit(banking, done, leaving)
  BY DEF EarlyExit, Protect, Ladder, TakePartial, LateExit, Visiting
<1>7. ~Environment
  BY <1>1 DEF Environment, Sync, FailedRead, Store, Restart, EndedElsewhere, PartElsewhere, Open,
     MovedElsewhere, SetMode, SetGlobalMode, LateCall
<1> QED BY <1>2, <1>3, <1>4, <1>5, <1>6, <1>7, Zenon DEF Next, Monitor

\* A stop that the floors or the ratchet send is not behind the listed one and, by
\* the broker's distance or more, behind the stop in force, for every distance.
THEOREM StopsHold == Spec => StopHolds
<1>1. TypeOK /\ [Next]_vars =>
        [\A t \in Tickets :
           /\ at \in {"protocols", "dispatch"} /\ cur = t /\ cur' # t
           /\ stop'[t] # stop[t] /\ volume'[t] > 0
           => /\ stop'[t] >= list[t].stop \/ stop'[t] > stop[t] - MinDist
              /\ stop'[t] = 0 => list[t].stop = 0]_vars
  <2> SUFFICES ASSUME TypeOK, Next, NEW t \in Tickets, at \in {"protocols", "dispatch"},
                      cur = t, cur' # t, stop'[t] # stop[t], volume'[t] > 0
               PROVE  /\ stop'[t] >= list[t].stop \/ stop'[t] > stop[t] - MinDist
                      /\ stop'[t] = 0 => list[t].stop = 0
    OBVIOUS
  <2>1. PICK done \in BOOLEAN, s \in 0..Top : Dispatch(s, done) \/ Floor(s, done)
    BY OnlyDispatch
  <2>2. s >= list[t].stop /\ stop'[t] \in Clamped(t, s)
    BY <2>1 DEF Dispatch, Floor, Ratchet, Modify, ExecuteModify, TypeOK, Copy
  <2>3. /\ stop[t] \in Nat /\ list[t].stop \in Nat /\ s \in Nat /\ MinDist \in Nat \ {0}
    BY TopAssumption DEF TypeOK, TopAssumption, Copy
  <2>4. CASE s = 0
    BY <2>2, <2>3, <2>4 DEF Clamped
  <2>5. CASE s # 0
    BY <2>2, <2>3, <2>5 DEF Clamped
  <2> QED BY <2>4, <2>5
<1> QED BY <1>1, TypeCorrect, PTL DEF Spec, StopHolds
=============================================================================
