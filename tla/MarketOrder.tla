----------------------------- MODULE MarketOrder -----------------------------
(***************************************************************************)
(* What the dispatchers take send_market_order for: an order that lands at *)
(* the broker once or not at all, reported as accepted only when it has    *)
(* landed, as failed only when it has not and never will, and as unknown   *)
(* when neither can be told.  On this rest the reservation that is given   *)
(* back and the cooldown that is not started after a failure.              *)
(*                                                                         *)
(* BrokerCalls implements it for a broker that neither rejects a filling   *)
(* mode nor loses an answer.                                               *)
(***************************************************************************)

CONSTANT Orders

VARIABLES
  open,      \* whether the order may still land
  landed,    \* whether the broker has it
  told       \* what the caller was told of it

vars == << open, landed, told >>

Init ==
  /\ open = [o \in Orders |-> TRUE]
  /\ landed = [o \in Orders |-> FALSE]
  /\ told = [o \in Orders |-> "nothing"]

Unmoved(o) == open'[o] = open[o] /\ landed'[o] = landed[o]
Untold(o) == told'[o] = told[o]

\* The broker takes the order: it is not sent any more.
Lands(o) ==
  /\ open[o] /\ ~landed[o]
  /\ ~open'[o] /\ landed'[o]
  /\ Untold(o)

\* Nobody sends the order any more.
Lapses(o) ==
  /\ open[o] /\ ~open'[o]
  /\ landed'[o] = landed[o]
  /\ Untold(o)

\* The caller is told, once.
ReportedAccepted(o) == told'[o] = "accepted" /\ landed[o] /\ Unmoved(o)

ReportedFailed(o) ==
  /\ told'[o] = "failed"
  /\ ~landed'[o] /\ landed'[o] = landed[o]
  /\ ~open'[o]

ReportedUnknown(o) ==
  /\ told'[o] = "unknown"
  /\ landed'[o] = landed[o]
  /\ open'[o] => open[o]

Reported(o) ==
  /\ told[o] = "nothing"
  /\ ReportedAccepted(o) \/ ReportedFailed(o) \/ ReportedUnknown(o)

Next ==
  \A o \in Orders :
    (Unmoved(o) /\ Untold(o)) \/ Lands(o) \/ Lapses(o) \/ Reported(o)

Spec == Init /\ [][Next]_vars
=============================================================================
