----------------------------- MODULE TradeLedger -----------------------------
(***************************************************************************)
(* What the journal promises of each trade, whatever threads, restarts and *)
(* reads stand behind it: the trade opens and ends on the market; its row  *)
(* is entered once it is a trade, settled once it has ended, and only a    *)
(* settled trade is told to the circuit breaker, once, with the outcome it *)
(* really had.                                                             *)
(*                                                                         *)
(* A trade can be disowned at any time: nothing is promised of it from     *)
(* then on.  TradeLifecycle implements this specification, and names the   *)
(* trades it has to disown.                                                *)
(***************************************************************************)
EXTENDS Integers

CONSTANT Tickets

VARIABLES
  market,    \* how the trade stands: none yet, open, or the outcome it ended with
  entry,     \* its row in the journal: none, open or closed
  samples,   \* how often the breaker was told
  told,      \* what it was told last
  disowned   \* trades of which nothing is promised any more

vars == << market, entry, samples, told, disowned >>

Endings == {"won", "lost", "flat"}

TypeOK ==
  /\ market \in [Tickets -> {"none", "open"} \cup Endings]
  /\ entry \in [Tickets -> {"none", "open", "closed"}]
  /\ samples \in [Tickets -> Nat]
  /\ told \in [Tickets -> {"none"} \cup Endings]
  /\ disowned \subseteq Tickets

Init ==
  /\ market = [t \in Tickets |-> "none"]
  /\ entry = [t \in Tickets |-> "none"]
  /\ samples = [t \in Tickets |-> 0]
  /\ told = [t \in Tickets |-> "none"]
  /\ disowned = {}

MarketStays(t) == market'[t] = market[t]
EntryStays(t) == entry'[t] = entry[t]
NotTold(t) == samples'[t] = samples[t] /\ told'[t] = told[t]

Stays(t) == MarketStays(t) /\ EntryStays(t) /\ NotTold(t)

Opens(t) ==
  /\ market[t] = "none" /\ market'[t] = "open"
  /\ EntryStays(t) /\ NotTold(t)

Ends(t) ==
  /\ market[t] = "open" /\ market'[t] \in Endings
  /\ EntryStays(t) /\ NotTold(t)

Entered(t) ==
  /\ market[t] # "none"
  /\ entry[t] = "none" /\ entry'[t] = "open"
  /\ MarketStays(t) /\ NotTold(t)

\* A trade may be settled without having been entered before.
Settled(t) ==
  /\ market[t] \in Endings
  /\ entry'[t] = "closed"
  /\ MarketStays(t) /\ NotTold(t)

\* A break-even is settled and never told.
Told(t) ==
  /\ entry[t] = "closed" /\ samples[t] = 0
  /\ samples'[t] = 1 /\ told'[t] = market[t] /\ market[t] \in {"won", "lost"}
  /\ MarketStays(t) /\ EntryStays(t)

Next ==
  /\ disowned \subseteq disowned'
  /\ \A t \in Tickets \ disowned' :
       Stays(t) \/ Opens(t) \/ Ends(t) \/ Entered(t) \/ Settled(t) \/ Told(t)

Spec == Init /\ [][Next]_vars
=============================================================================
