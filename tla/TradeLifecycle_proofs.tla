----------------------- MODULE TradeLifecycle_proofs -----------------------
(***************************************************************************)
(* Theorems about TradeLifecycle, for any set of orders and any number of  *)
(* restarts, failed reads and exceptions.                                  *)
(***************************************************************************)
EXTENDS TradeLifecycle, TLAPS

IsTrade(t) == book[t] \in Trades

\* Where a ticket can be while it has no row: what the order thread, the memory
\* of deferred payloads and the cancellations know of it.
IntentInv ==
  \A t \in Tickets :
    /\ row[t] # "none" => IsTrade(t)
    /\ stage[t] = "FILLED" => IsTrade(t)
    /\ stage[t] # "idle" \/ t \in deferred => book[t] # "none" /\ row[t] = "none"
    /\ stage[t] # "idle" => t \notin deferred
    /\ t \in cancelled => book[t] = "gone"
    /\ t \in last \cup current \cup todo => IsTrade(t)

\* How the tickets of a pass, or of the boot, lie to each other.
PassInv ==
  /\ phase \in {"idle", "boot"} => todo = {}
  /\ phase # "pass" => current = {}
  /\ todo \cap current = {}
  /\ handling # NoTicket => handling \in todo

\* The boot: no other thread runs, and every row without an outcome is watched,
\* noted or still to do.
BootInv ==
  /\ phase \in {"boot", "reconcile"} => \A t \in Tickets : stage[t] = "idle"
  /\ phase = "reconcile" =>
       \A t \in Tickets :
         /\ row[t] = "open" => t \in last \cup unread \cup todo
         /\ t \in todo => (row[t] = "open" <=> handling # t)

\* A ticket that is handled, or has a stored outcome, really ended; what is being
\* handled is measured right; a stored outcome was counted unless it is at it.
OutcomeInv ==
  \A t \in Tickets \ misread :
    /\ t \in todo => Ended(t)
    /\ row[t] = "closed" => Ended(t)
    /\ handling = t => verdict = book[t]
    /\ row[t] = "closed" /\ t \notin cut /\ book[t] # "flat"
         => counted[t] > 0 \/ handling = t

\* A ticket once counted is out of every list that could bring it back.
OnceInv ==
  \A t \in Tickets \ (misread \cup late) :
    /\ counted[t] <= 1
    /\ handling = t => row[t] # "open"
    /\ stage[t] # "idle" => counted[t] = 0 /\ handling # t
    /\ counted[t] = 1 => /\ Ended(t) /\ row[t] # "open"
                         /\ t \notin last \cup current \cup todo

\* A position or a resting order without a row has its context somewhere, or is an
\* orphan; what is handled has got its row, or never had a context to get it from.
ContextInv ==
  \A t \in Tickets \ orphans :
    /\ (IsTrade(t) \/ book[t] = "resting") /\ row[t] = "none"
         => t \in deferred \/ stage[t] # "idle" \/ t \in late
    /\ handling = t /\ t \notin late => row[t] = "closed"

\* What a step does to the rows.
Advances == \A t \in Tickets : Rank[row'[t]] >= Rank[row[t]]

IInv == TypeOK /\ IntentInv /\ PassInv /\ BootInv /\ OutcomeInv /\ OnceInv /\ ContextInv

-----------------------------------------------------------------------------
LEMMA NoTicketFact == NoTicket \notin Tickets
BY LifecycleAssumption DEF LifecycleAssumption

\* Every step keeps the types.
LEMMA TypeStep == TypeOK /\ [Next]_vars => TypeOK'
<1> SUFFICES ASSUME TypeOK, [Next]_vars PROVE TypeOK'
  OBVIOUS
<1> USE DEF TypeOK, broker, orders, pass, handler, bounds, history
<1>1. ASSUME NEW t \in Tickets, NEW status \in {"FILLED", "PLACED"}, Send(t, status)
      PROVE  TypeOK'
  BY <1>1 DEF Send, Books, Trades
<1>2. ASSUME NEW t \in Tickets, Foreign(t) PROVE TypeOK'
  BY <1>2 DEF Foreign, Books, Trades
<1>3. ASSUME NEW t \in Tickets, RecordContext(t) PROVE TypeOK'
  BY <1>3 DEF RecordContext
<1>4. ASSUME NEW t \in Tickets, RecordRaises(t) PROVE TypeOK'
  BY <1>4 DEF RecordRaises, Fault
<1>5. ASSUME NEW t \in Tickets, Fill(t) PROVE TypeOK'
  BY <1>5 DEF Fill, Books, Trades
<1>6. ASSUME NEW t \in Tickets, Close(t) PROVE TypeOK'
  BY <1>6 DEF Close, Books, Trades, Endings
<1>7. ASSUME NEW t \in Tickets, CancelStale(t) PROVE TypeOK'
  BY <1>7 DEF CancelStale, Books
<1>8. ASSUME NEW t \in Tickets, DiscardIntent(t) PROVE TypeOK'
  BY <1>8 DEF DiscardIntent
<1>9. ASSUME NEW t \in Tickets, CancelElsewhere(t) PROVE TypeOK'
  BY <1>9 DEF CancelElsewhere, Books
<1>10. ASSUME NEW t \in Tickets, NoDeals(t) PROVE TypeOK'
  BY <1>10 DEF NoDeals, Fault, Forget
<1>11. ASSUME NEW t \in Tickets, JournalClose(t) PROVE TypeOK'
  BY <1>11 DEF JournalClose, Measured, Ended, Endings, Journaled
<1>12. ASSUME NEW t \in Tickets, JournalRaises(t) PROVE TypeOK'
  BY <1>12 DEF JournalRaises, Fault, Forget
<1>13. ASSUME Restart PROVE TypeOK'
  BY <1>13 DEF Restart, Phases, Endings
<1>14. ASSUME BootRead PROVE TypeOK'
  BY <1>14 DEF BootRead, ReadsAs, Phases, Stale, OpenNow
<1>15. ASSUME StartThreads PROVE TypeOK'
  BY <1>15 DEF StartThreads, Phases
<1>16. ASSUME PassRead PROVE TypeOK'
  BY <1>16 DEF PassRead, ReadsAs, Phases, OpenNow
<1>17. ASSUME CountOutcome PROVE TypeOK'
  BY <1>17 DEF CountOutcome, Forget, Endings
<1>18. ASSUME LearningRaises PROVE TypeOK'
  BY <1>18 DEF LearningRaises, Fault, Forget, Endings
<1>19. ASSUME EndPass PROVE TypeOK'
  BY <1>19 DEF EndPass, Fresh, Fault, Phases
<1>20. ASSUME UNCHANGED vars PROVE TypeOK'
  BY <1>20 DEF vars
<1> QED BY <1>1, <1>2, <1>3, <1>4, <1>5, <1>6, <1>7, <1>8, <1>9, <1>10, <1>11,
      <1>12, <1>13, <1>14, <1>15, <1>16, <1>17, <1>18, <1>19, <1>20 DEF Next

\* Every step keeps what is known of orders without a row.
LEMMA IntentStep == IInv /\ [Next]_vars => IntentInv'
<1> SUFFICES ASSUME IInv, [Next]_vars PROVE IntentInv'
  OBVIOUS
<1> USE DEF IInv, TypeOK, IntentInv, IsTrade, Trades, Endings, broker, orders, pass,
      handler, bounds, history
<1>1. ASSUME NEW t \in Tickets, NEW status \in {"FILLED", "PLACED"}, Send(t, status)
      PROVE  IntentInv'
  BY <1>1 DEF Send
<1>2. ASSUME NEW t \in Tickets, Foreign(t) PROVE IntentInv'
  BY <1>2 DEF Foreign
<1>3. ASSUME NEW t \in Tickets, RecordContext(t) PROVE IntentInv'
  BY <1>3 DEF RecordContext
<1>4. ASSUME NEW t \in Tickets, RecordRaises(t) PROVE IntentInv'
  BY <1>4 DEF RecordRaises, Fault
<1>5. ASSUME NEW t \in Tickets, Fill(t) PROVE IntentInv'
  BY <1>5 DEF Fill
<1>6. ASSUME NEW t \in Tickets, Close(t) PROVE IntentInv'
  BY <1>6 DEF Close
<1>7. ASSUME NEW t \in Tickets, CancelStale(t) PROVE IntentInv'
  BY <1>7 DEF CancelStale
<1>8. ASSUME NEW t \in Tickets, DiscardIntent(t) PROVE IntentInv'
  BY <1>8 DEF DiscardIntent
<1>9. ASSUME NEW t \in Tickets, CancelElsewhere(t) PROVE IntentInv'
  BY <1>9 DEF CancelElsewhere
<1>10. ASSUME NEW t \in Tickets, NoDeals(t) PROVE IntentInv'
  BY <1>10 DEF NoDeals, Forget
<1>11. ASSUME NEW t \in Tickets, JournalClose(t) PROVE IntentInv'
  BY <1>11 DEF JournalClose, Journaled
<1>12. ASSUME NEW t \in Tickets, JournalRaises(t) PROVE IntentInv'
  BY <1>12 DEF JournalRaises, Forget, Fault
<1>13. ASSUME Restart PROVE IntentInv'
  BY <1>13 DEF Restart
<1>14. ASSUME BootRead PROVE IntentInv'
  BY <1>14 DEF BootRead, ReadsAs, OpenNow, Stale
<1>15. ASSUME StartThreads PROVE IntentInv'
  BY <1>15 DEF StartThreads
<1>16. ASSUME PassRead PROVE IntentInv'
  BY <1>16 DEF PassRead, ReadsAs, OpenNow
<1>17. ASSUME CountOutcome PROVE IntentInv'
  BY <1>17 DEF CountOutcome, Forget
<1>18. ASSUME LearningRaises PROVE IntentInv'
  BY <1>18 DEF LearningRaises, Forget, Fault
<1>19. ASSUME EndPass PROVE IntentInv'
  BY <1>19 DEF EndPass, Fresh, Fault
<1>20. ASSUME UNCHANGED vars PROVE IntentInv'
  BY <1>20 DEF vars
<1> QED BY <1>1, <1>2, <1>3, <1>4, <1>5, <1>6, <1>7, <1>8, <1>9, <1>10, <1>11,
      <1>12, <1>13, <1>14, <1>15, <1>16, <1>17, <1>18, <1>19, <1>20 DEF Next

\* Every step keeps the lists of a pass apart.
LEMMA PassStep == IInv /\ [Next]_vars => PassInv'
<1> SUFFICES ASSUME IInv, [Next]_vars PROVE PassInv'
  OBVIOUS
<1> USE DEF IInv, TypeOK, PassInv, Phases, broker, orders, pass, handler, bounds,
      history
<1>1. ASSUME NEW t \in Tickets, NEW status \in {"FILLED", "PLACED"}, Send(t, status)
      PROVE  PassInv'
  BY <1>1 DEF Send, Running
<1>2. ASSUME NEW t \in Tickets, Foreign(t) PROVE PassInv'
  BY <1>2 DEF Foreign
<1>3. ASSUME NEW t \in Tickets, RecordContext(t) PROVE PassInv'
  BY <1>3 DEF RecordContext
<1>4. ASSUME NEW t \in Tickets, RecordRaises(t) PROVE PassInv'
  BY <1>4 DEF RecordRaises, Fault
<1>5. ASSUME NEW t \in Tickets, Fill(t) PROVE PassInv'
  BY <1>5 DEF Fill
<1>6. ASSUME NEW t \in Tickets, Close(t) PROVE PassInv'
  BY <1>6 DEF Close
<1>7. ASSUME NEW t \in Tickets, CancelStale(t) PROVE PassInv'
  BY <1>7 DEF CancelStale, Running
<1>8. ASSUME NEW t \in Tickets, DiscardIntent(t) PROVE PassInv'
  BY <1>8 DEF DiscardIntent
<1>9. ASSUME NEW t \in Tickets, CancelElsewhere(t) PROVE PassInv'
  BY <1>9 DEF CancelElsewhere
<1>10. ASSUME NEW t \in Tickets, NoDeals(t) PROVE PassInv'
  BY <1>10 DEF NoDeals, Forget
<1>11. ASSUME NEW t \in Tickets, JournalClose(t) PROVE PassInv'
  BY <1>11 DEF JournalClose
<1>12. ASSUME NEW t \in Tickets, JournalRaises(t) PROVE PassInv'
  BY <1>12 DEF JournalRaises, Forget, Fault
<1>13. ASSUME Restart PROVE PassInv'
  BY <1>13 DEF Restart
<1>14. ASSUME BootRead PROVE PassInv'
  BY <1>14 DEF BootRead, ReadsAs, OpenNow, Stale
<1>15. ASSUME StartThreads PROVE PassInv'
  BY <1>15 DEF StartThreads
<1>16. ASSUME PassRead PROVE PassInv'
  BY <1>16 DEF PassRead, ReadsAs, OpenNow
<1>17. ASSUME CountOutcome PROVE PassInv'
  BY <1>17 DEF CountOutcome, Forget
<1>18. ASSUME LearningRaises PROVE PassInv'
  BY <1>18 DEF LearningRaises, Forget, Fault
<1>19. ASSUME EndPass PROVE PassInv'
  BY <1>19 DEF EndPass, Fresh, Fault
<1>20. ASSUME UNCHANGED vars PROVE PassInv'
  BY <1>20 DEF vars
<1> QED BY <1>1, <1>2, <1>3, <1>4, <1>5, <1>6, <1>7, <1>8, <1>9, <1>10, <1>11,
      <1>12, <1>13, <1>14, <1>15, <1>16, <1>17, <1>18, <1>19, <1>20 DEF Next

\* Every step keeps the books of the boot.
LEMMA BootStep == IInv /\ [Next]_vars => BootInv'
<1> SUFFICES ASSUME IInv, [Next]_vars PROVE BootInv'
  OBVIOUS
<1> USE DEF IInv, TypeOK, IntentInv, IsTrade, Trades, Endings, PassInv, BootInv,
      Phases, broker, orders, pass, handler, bounds, history
<1>1. ASSUME NEW t \in Tickets, NEW status \in {"FILLED", "PLACED"}, Send(t, status)
      PROVE  BootInv'
  BY <1>1 DEF Send, Running
<1>2. ASSUME NEW t \in Tickets, Foreign(t) PROVE BootInv'
  BY <1>2 DEF Foreign
<1>3. ASSUME NEW t \in Tickets, RecordContext(t) PROVE BootInv'
  BY <1>3 DEF RecordContext
<1>4. ASSUME NEW t \in Tickets, RecordRaises(t) PROVE BootInv'
  BY <1>4 DEF RecordRaises, Fault
<1>5. ASSUME NEW t \in Tickets, Fill(t) PROVE BootInv'
  BY <1>5 DEF Fill
<1>6. ASSUME NEW t \in Tickets, Close(t) PROVE BootInv'
  BY <1>6 DEF Close
<1>7. ASSUME NEW t \in Tickets, CancelStale(t) PROVE BootInv'
  BY <1>7 DEF CancelStale
<1>8. ASSUME NEW t \in Tickets, DiscardIntent(t) PROVE BootInv'
  BY <1>8 DEF DiscardIntent
<1>9. ASSUME NEW t \in Tickets, CancelElsewhere(t) PROVE BootInv'
  BY <1>9 DEF CancelElsewhere
<1>10. ASSUME NEW t \in Tickets, NoDeals(t) PROVE BootInv'
  BY <1>10 DEF NoDeals, Forget
<1>11. ASSUME NEW t \in Tickets, JournalClose(t) PROVE BootInv'
  BY <1>11, NoTicketFact DEF JournalClose, Journaled
<1>12. ASSUME NEW t \in Tickets, JournalRaises(t) PROVE BootInv'
  BY <1>12 DEF JournalRaises, Forget, Fault
<1>13. ASSUME Restart PROVE BootInv'
  BY <1>13, NoTicketFact DEF Restart
<1>14. ASSUME BootRead PROVE BootInv'
  BY <1>14, NoTicketFact DEF BootRead, ReadsAs, OpenNow, Stale
<1>15. ASSUME StartThreads PROVE BootInv'
  BY <1>15 DEF StartThreads
<1>16. ASSUME PassRead PROVE BootInv'
  BY <1>16, NoTicketFact DEF PassRead, ReadsAs, OpenNow
<1>17. ASSUME CountOutcome PROVE BootInv'
  BY <1>17, NoTicketFact DEF CountOutcome, Forget
<1>18. ASSUME LearningRaises PROVE BootInv'
  BY <1>18, NoTicketFact DEF LearningRaises, Forget, Fault
<1>19. ASSUME EndPass PROVE BootInv'
  BY <1>19, NoTicketFact DEF EndPass, Fresh, Fault
<1>20. ASSUME UNCHANGED vars PROVE BootInv'
  BY <1>20 DEF vars
<1> QED BY <1>1, <1>2, <1>3, <1>4, <1>5, <1>6, <1>7, <1>8, <1>9, <1>10, <1>11,
      <1>12, <1>13, <1>14, <1>15, <1>16, <1>17, <1>18, <1>19, <1>20 DEF Next

\* Every step keeps the outcomes true.
LEMMA OutcomeStep == IInv /\ [Next]_vars => OutcomeInv'
<1> SUFFICES ASSUME IInv, [Next]_vars PROVE OutcomeInv'
  OBVIOUS
<1> USE DEF IInv, TypeOK, IntentInv, IsTrade, PassInv, OutcomeInv, Ended, Trades,
      Endings, broker, orders, pass, handler, bounds, history
<1>1. ASSUME NEW t \in Tickets, NEW status \in {"FILLED", "PLACED"}, Send(t, status)
      PROVE  OutcomeInv'
  BY <1>1 DEF Send
<1>2. ASSUME NEW t \in Tickets, Foreign(t) PROVE OutcomeInv'
  BY <1>2 DEF Foreign
<1>3. ASSUME NEW t \in Tickets, RecordContext(t) PROVE OutcomeInv'
  BY <1>3 DEF RecordContext
<1>4. ASSUME NEW t \in Tickets, RecordRaises(t) PROVE OutcomeInv'
  BY <1>4 DEF RecordRaises, Fault
<1>5. ASSUME NEW t \in Tickets, Fill(t) PROVE OutcomeInv'
  BY <1>5 DEF Fill
<1>6. ASSUME NEW t \in Tickets, Close(t) PROVE OutcomeInv'
  BY <1>6 DEF Close
<1>7. ASSUME NEW t \in Tickets, CancelStale(t) PROVE OutcomeInv'
  BY <1>7 DEF CancelStale
<1>8. ASSUME NEW t \in Tickets, DiscardIntent(t) PROVE OutcomeInv'
  BY <1>8 DEF DiscardIntent
<1>9. ASSUME NEW t \in Tickets, CancelElsewhere(t) PROVE OutcomeInv'
  BY <1>9 DEF CancelElsewhere
<1>10. ASSUME NEW t \in Tickets, NoDeals(t) PROVE OutcomeInv'
  BY <1>10 DEF NoDeals, Forget
<1>11. ASSUME NEW t \in Tickets, JournalClose(t) PROVE OutcomeInv'
  BY <1>11, NoTicketFact DEF JournalClose, Journaled, Measured
<1>12. ASSUME NEW t \in Tickets, JournalRaises(t) PROVE OutcomeInv'
  BY <1>12 DEF JournalRaises, Forget, Fault
<1>13. ASSUME Restart PROVE OutcomeInv'
  BY <1>13, NoTicketFact DEF Restart
<1>14. ASSUME BootRead PROVE OutcomeInv'
  BY <1>14, NoTicketFact DEF BootRead, ReadsAs, OpenNow, Stale
<1>15. ASSUME StartThreads PROVE OutcomeInv'
  BY <1>15 DEF StartThreads
<1>16. ASSUME PassRead PROVE OutcomeInv'
  BY <1>16, NoTicketFact DEF PassRead, ReadsAs, OpenNow
<1>17. ASSUME CountOutcome PROVE OutcomeInv'
  BY <1>17, NoTicketFact DEF CountOutcome, Forget, Counts
<1>18. ASSUME LearningRaises PROVE OutcomeInv'
  BY <1>18, NoTicketFact DEF LearningRaises, Forget, Fault
<1>19. ASSUME EndPass PROVE OutcomeInv'
  BY <1>19, NoTicketFact DEF EndPass, Fresh, Fault
<1>20. ASSUME UNCHANGED vars PROVE OutcomeInv'
  BY <1>20 DEF vars
<1> QED BY <1>1, <1>2, <1>3, <1>4, <1>5, <1>6, <1>7, <1>8, <1>9, <1>10, <1>11,
      <1>12, <1>13, <1>14, <1>15, <1>16, <1>17, <1>18, <1>19, <1>20 DEF Next

\* Every step keeps a counted ticket out of the lists.
LEMMA OnceStep == IInv /\ [Next]_vars => OnceInv'
<1> SUFFICES ASSUME IInv, [Next]_vars PROVE OnceInv'
  OBVIOUS
<1> USE DEF IInv, TypeOK, IntentInv, IsTrade, PassInv, OutcomeInv, Ended, Trades,
      Endings, broker, orders, pass, handler, bounds, history, OnceInv
<1>1. ASSUME NEW t \in Tickets, NEW status \in {"FILLED", "PLACED"}, Send(t, status)
      PROVE  OnceInv'
  BY <1>1 DEF Send
<1>2. ASSUME NEW t \in Tickets, Foreign(t) PROVE OnceInv'
  BY <1>2 DEF Foreign
<1>3. ASSUME NEW t \in Tickets, RecordContext(t) PROVE OnceInv'
  BY <1>3 DEF RecordContext
<1>4. ASSUME NEW t \in Tickets, RecordRaises(t) PROVE OnceInv'
  BY <1>4 DEF RecordRaises, Fault
<1>5. ASSUME NEW t \in Tickets, Fill(t) PROVE OnceInv'
  BY <1>5 DEF Fill
<1>6. ASSUME NEW t \in Tickets, Close(t) PROVE OnceInv'
  BY <1>6 DEF Close
<1>7. ASSUME NEW t \in Tickets, CancelStale(t) PROVE OnceInv'
  BY <1>7 DEF CancelStale
<1>8. ASSUME NEW t \in Tickets, DiscardIntent(t) PROVE OnceInv'
  BY <1>8 DEF DiscardIntent
<1>9. ASSUME NEW t \in Tickets, CancelElsewhere(t) PROVE OnceInv'
  BY <1>9 DEF CancelElsewhere
<1>10. ASSUME NEW t \in Tickets, NoDeals(t) PROVE OnceInv'
  BY <1>10 DEF NoDeals, Forget
<1>11. ASSUME NEW t \in Tickets, JournalClose(t) PROVE OnceInv'
  BY <1>11, NoTicketFact DEF JournalClose, Journaled, Measured
<1>12. ASSUME NEW t \in Tickets, JournalRaises(t) PROVE OnceInv'
  BY <1>12 DEF JournalRaises, Forget, Fault
<1>13. ASSUME Restart PROVE OnceInv'
  BY <1>13, NoTicketFact DEF Restart
<1>14. ASSUME BootRead PROVE OnceInv'
  BY <1>14, NoTicketFact DEF BootRead, ReadsAs, OpenNow, Stale
<1>15. ASSUME StartThreads PROVE OnceInv'
  BY <1>15 DEF StartThreads
<1>16. ASSUME PassRead PROVE OnceInv'
  BY <1>16, NoTicketFact DEF PassRead, ReadsAs, OpenNow
<1>17. ASSUME CountOutcome PROVE OnceInv'
  BY <1>17, NoTicketFact DEF CountOutcome, Forget, Counts
<1>18. ASSUME LearningRaises PROVE OnceInv'
  BY <1>18, NoTicketFact DEF LearningRaises, Forget, Fault
<1>19. ASSUME EndPass PROVE OnceInv'
  BY <1>19, NoTicketFact DEF EndPass, Fresh, Fault
<1>20. ASSUME UNCHANGED vars PROVE OnceInv'
  BY <1>20 DEF vars
<1> QED BY <1>1, <1>2, <1>3, <1>4, <1>5, <1>6, <1>7, <1>8, <1>9, <1>10, <1>11,
      <1>12, <1>13, <1>14, <1>15, <1>16, <1>17, <1>18, <1>19, <1>20 DEF Next

\* Every step keeps the whereabouts of the contexts.
LEMMA ContextStep == IInv /\ [Next]_vars => ContextInv'
<1> SUFFICES ASSUME IInv, [Next]_vars PROVE ContextInv'
  OBVIOUS
<1> USE DEF IInv, TypeOK, IntentInv, IsTrade, PassInv, OutcomeInv, Ended, Trades,
      Endings, broker, orders, pass, handler, bounds, history, ContextInv
<1>1. ASSUME NEW t \in Tickets, NEW status \in {"FILLED", "PLACED"}, Send(t, status)
      PROVE  ContextInv'
  BY <1>1 DEF Send
<1>2. ASSUME NEW t \in Tickets, Foreign(t) PROVE ContextInv'
  BY <1>2 DEF Foreign
<1>3. ASSUME NEW t \in Tickets, RecordContext(t) PROVE ContextInv'
  BY <1>3 DEF RecordContext
<1>4. ASSUME NEW t \in Tickets, RecordRaises(t) PROVE ContextInv'
  BY <1>4 DEF RecordRaises, Fault
<1>5. ASSUME NEW t \in Tickets, Fill(t) PROVE ContextInv'
  BY <1>5 DEF Fill
<1>6. ASSUME NEW t \in Tickets, Close(t) PROVE ContextInv'
  BY <1>6 DEF Close
<1>7. ASSUME NEW t \in Tickets, CancelStale(t) PROVE ContextInv'
  BY <1>7 DEF CancelStale
<1>8. ASSUME NEW t \in Tickets, DiscardIntent(t) PROVE ContextInv'
  BY <1>8 DEF DiscardIntent
<1>9. ASSUME NEW t \in Tickets, CancelElsewhere(t) PROVE ContextInv'
  BY <1>9 DEF CancelElsewhere
<1>10. ASSUME NEW t \in Tickets, NoDeals(t) PROVE ContextInv'
  BY <1>10 DEF NoDeals, Forget
<1>11. ASSUME NEW t \in Tickets, JournalClose(t) PROVE ContextInv'
  BY <1>11, NoTicketFact DEF JournalClose, Journaled, Measured
<1>12. ASSUME NEW t \in Tickets, JournalRaises(t) PROVE ContextInv'
  BY <1>12 DEF JournalRaises, Forget, Fault
<1>13. ASSUME Restart PROVE ContextInv'
  BY <1>13, NoTicketFact DEF Restart
<1>14. ASSUME BootRead PROVE ContextInv'
  BY <1>14, NoTicketFact DEF BootRead, ReadsAs, OpenNow, Stale
<1>15. ASSUME StartThreads PROVE ContextInv'
  BY <1>15 DEF StartThreads
<1>16. ASSUME PassRead PROVE ContextInv'
  BY <1>16, NoTicketFact DEF PassRead, ReadsAs, OpenNow
<1>17. ASSUME CountOutcome PROVE ContextInv'
  BY <1>17, NoTicketFact DEF CountOutcome, Forget, Counts
<1>18. ASSUME LearningRaises PROVE ContextInv'
  BY <1>18, NoTicketFact DEF LearningRaises, Forget, Fault
<1>19. ASSUME EndPass PROVE ContextInv'
  BY <1>19, NoTicketFact DEF EndPass, Fresh, Fault
<1>20. ASSUME UNCHANGED vars PROVE ContextInv'
  BY <1>20 DEF vars
<1> QED BY <1>1, <1>2, <1>3, <1>4, <1>5, <1>6, <1>7, <1>8, <1>9, <1>10, <1>11,
      <1>12, <1>13, <1>14, <1>15, <1>16, <1>17, <1>18, <1>19, <1>20 DEF Next

\* The invariant holds of every behaviour.
LEMMA Invariance == Spec => []IInv
<1>1. Init => IInv
  BY LifecycleAssumption DEF LifecycleAssumption, Init, IInv, TypeOK, IntentInv,
        PassInv, BootInv, OutcomeInv, OnceInv, ContextInv,
         IsTrade, Ended, Trades, Endings, Books, Phases
<1>2. IInv /\ [Next]_vars => IInv'
  BY TypeStep, IntentStep, PassStep, BootStep, OutcomeStep, OnceStep, ContextStep DEF IInv
<1> QED BY <1>1, <1>2, PTL DEF Spec

\* Every variable keeps its type.
THEOREM TypeCorrect == Spec => []TypeOK
<1>1. IInv => TypeOK
  BY DEF IInv
<1> QED BY <1>1, Invariance, PTL

\* Rows are about positions only: intents that never became a trade leave none.
THEOREM OnlyTradesAreJournaled == Spec => []RowsAreTrades
<1>1. IInv => RowsAreTrades
  BY DEF IInv, IntentInv, RowsAreTrades, IsTrade
<1> QED BY <1>1, Invariance, PTL

\* With any number of restarts, failed reads and exceptions, a journaled trade
\* that ended is counted, in hand, or left for the next boot to find.
THEOREM OutcomesAreNotForgotten == Spec => []OutcomeRecoverable
<1>1. IInv => OutcomeRecoverable
  BY DEF IInv, TypeOK, OutcomeInv, OutcomeRecoverable
<1> QED BY <1>1, Invariance, PTL

\* Failed reads and journaling after the close are the only ways to count an
\* outcome twice.
THEOREM OutcomesCountOnce == Spec => []CountedOnce
<1>1. IInv => CountedOnce
  BY DEF IInv, OnceInv, CountedOnce
<1> QED BY <1>1, Invariance, PTL

\* No step removes the row of a trade or erases an outcome.
THEOREM RowsNeverRegress == Spec => RowsOnlyAdvance
<1>1. IInv /\ [Next]_vars => [Advances]_vars
  <2> SUFFICES ASSUME IInv, [Next]_vars PROVE Advances
    OBVIOUS
  <2> USE DEF Advances, IInv, TypeOK, IntentInv, Rank, IsTrade, Trades, Endings, broker,
        orders, pass, handler, bounds, history
  <2>1. ASSUME NEW t \in Tickets, NEW status \in {"FILLED", "PLACED"}, Send(t, status)
      PROVE  Advances
    BY <2>1 DEF Send
  <2>2. ASSUME NEW t \in Tickets, Foreign(t) PROVE Advances
    BY <2>2 DEF Foreign
  <2>3. ASSUME NEW t \in Tickets, RecordContext(t) PROVE Advances
    BY <2>3 DEF RecordContext
  <2>4. ASSUME NEW t \in Tickets, RecordRaises(t) PROVE Advances
    BY <2>4 DEF RecordRaises, Fault
  <2>5. ASSUME NEW t \in Tickets, Fill(t) PROVE Advances
    BY <2>5 DEF Fill
  <2>6. ASSUME NEW t \in Tickets, Close(t) PROVE Advances
    BY <2>6 DEF Close
  <2>7. ASSUME NEW t \in Tickets, CancelStale(t) PROVE Advances
    BY <2>7 DEF CancelStale
  <2>8. ASSUME NEW t \in Tickets, DiscardIntent(t) PROVE Advances
    BY <2>8 DEF DiscardIntent
  <2>9. ASSUME NEW t \in Tickets, CancelElsewhere(t) PROVE Advances
    BY <2>9 DEF CancelElsewhere
  <2>10. ASSUME NEW t \in Tickets, NoDeals(t) PROVE Advances
    BY <2>10 DEF NoDeals
  <2>11. ASSUME NEW t \in Tickets, JournalClose(t) PROVE Advances
    BY <2>11 DEF JournalClose, Journaled
  <2>12. ASSUME NEW t \in Tickets, JournalRaises(t) PROVE Advances
    BY <2>12 DEF JournalRaises
  <2>13. ASSUME Restart PROVE Advances
    BY <2>13 DEF Restart
  <2>14. ASSUME BootRead PROVE Advances
    BY <2>14 DEF BootRead
  <2>15. ASSUME StartThreads PROVE Advances
    BY <2>15 DEF StartThreads
  <2>16. ASSUME PassRead PROVE Advances
    BY <2>16 DEF PassRead
  <2>17. ASSUME CountOutcome PROVE Advances
    BY <2>17 DEF CountOutcome
  <2>18. ASSUME LearningRaises PROVE Advances
    BY <2>18 DEF LearningRaises
  <2>19. ASSUME EndPass PROVE Advances
    BY <2>19 DEF EndPass, Fresh
  <2>20. ASSUME UNCHANGED vars PROVE Advances
    BY <2>20 DEF vars
  <2> QED BY <2>1, <2>2, <2>3, <2>4, <2>5, <2>6, <2>7, <2>8, <2>9, <2>10, <2>11,
        <2>12, <2>13, <2>14, <2>15, <2>16, <2>17, <2>18, <2>19, <2>20 DEF Next
<1> QED BY <1>1, Invariance, PTL DEF Spec, RowsOnlyAdvance, Advances

\* However the boot goes, no row without an outcome is left unwatched silently.
THEOREM BootLeavesNoRow == Spec => BootSettlesJournal
<1>1. IInv /\ [Next]_vars =>
        [ phase = "reconcile" /\ phase' = "idle"
            => \A t \in Tickets : row[t] = "open" => t \in last \cup unread ]_vars
  <2> SUFFICES ASSUME IInv, [Next]_vars, phase = "reconcile", phase' = "idle"
               PROVE  \A t \in Tickets : row[t] = "open" => t \in last \cup unread
    OBVIOUS
  <2>1. CASE StartThreads
    BY <2>1 DEF StartThreads, IInv, BootInv
  <2>2. CASE ~StartThreads
    BY <2>2 DEF Next, vars, pass, Send, Foreign, RecordContext, RecordRaises, Fill, Close,
          CancelStale,
           DiscardIntent, CancelElsewhere, NoDeals, JournalClose, JournalRaises, Restart,
           BootRead, PassRead, CountOutcome, LearningRaises, EndPass
  <2> QED BY <2>1, <2>2
<1> QED BY <1>1, Invariance, PTL DEF Spec, BootSettlesJournal

-----------------------------------------------------------------------------
(* The refinement: each step does to each trade that is not disowned what  *)
(* the ledger allows, or nothing.                                          *)

LedgerStep(t) ==
  Ledger!Stays(t) \/ Ledger!Opens(t) \/ Ledger!Ends(t) \/ Ledger!Entered(t)
    \/ Ledger!Settled(t) \/ Ledger!Told(t)

LedgerKept == Disowned \subseteq Disowned' /\ \A t \in Tickets \ Disowned' : LedgerStep(t)

\* What a step leaves of the market, as the ledger sees it.
LEMMA MarketOf ==
  ASSUME NEW t \in Tickets
  PROVE  /\ Market[t] = IF book[t] \in Trades THEN book[t] ELSE "none"
         /\ Market'[t] = IF book'[t] \in Trades THEN book'[t] ELSE "none"
BY DEF Market

LEMMA StepIsLedgerStep == IInv /\ [Next]_vars => LedgerKept
<1> SUFFICES ASSUME IInv, [Next]_vars PROVE LedgerKept
  OBVIOUS
<1> USE MarketOf, NoTicketFact
    DEF IInv, TypeOK, LedgerKept, LedgerStep, Disowned, Ledger!Stays, Ledger!Opens, Ledger!Ends,
        Ledger!Entered, Ledger!Settled, Ledger!Told, Ledger!MarketStays, Ledger!EntryStays,
        Ledger!NotTold, Ledger!Endings, IntentInv, IsTrade, PassInv, OutcomeInv, OnceInv,
        ContextInv, Ended, Trades, Endings, broker, orders, pass, handler, bounds, history
<1>1. ASSUME NEW t \in Tickets, NEW status \in {"FILLED", "PLACED"}, Send(t, status) PROVE LedgerKept
  BY <1>1 DEF Send
<1>2. ASSUME NEW t \in Tickets, Foreign(t) PROVE LedgerKept
  BY <1>2 DEF Foreign
<1>3. ASSUME NEW t \in Tickets, RecordContext(t) PROVE LedgerKept
  BY <1>3 DEF RecordContext
<1>4. ASSUME NEW t \in Tickets, RecordRaises(t) PROVE LedgerKept
  BY <1>4 DEF RecordRaises, Fault
<1>5. ASSUME NEW t \in Tickets, Fill(t) PROVE LedgerKept
  BY <1>5 DEF Fill
<1>6. ASSUME NEW t \in Tickets, Close(t) PROVE LedgerKept
  BY <1>6 DEF Close
<1>7. ASSUME NEW t \in Tickets, CancelStale(t) PROVE LedgerKept
  BY <1>7 DEF CancelStale
<1>8. ASSUME NEW t \in Tickets, DiscardIntent(t) PROVE LedgerKept
  BY <1>8 DEF DiscardIntent
<1>9. ASSUME NEW t \in Tickets, CancelElsewhere(t) PROVE LedgerKept
  BY <1>9 DEF CancelElsewhere
<1>10. ASSUME NEW t \in Tickets, NoDeals(t) PROVE LedgerKept
  BY <1>10 DEF NoDeals
<1>11. ASSUME NEW t \in Tickets, JournalClose(t) PROVE LedgerKept
  BY <1>11 DEF JournalClose, Journaled
<1>12. ASSUME NEW t \in Tickets, JournalRaises(t) PROVE LedgerKept
  BY <1>12 DEF JournalRaises
<1>13. ASSUME Restart PROVE LedgerKept
  BY <1>13 DEF Restart
<1>14. ASSUME BootRead PROVE LedgerKept
  BY <1>14 DEF BootRead, ReadsAs
<1>15. ASSUME StartThreads PROVE LedgerKept
  BY <1>15 DEF StartThreads
<1>16. ASSUME PassRead PROVE LedgerKept
  BY <1>16 DEF PassRead, ReadsAs
<1>17. ASSUME CountOutcome PROVE LedgerKept
  BY <1>17 DEF CountOutcome, Counts
<1>18. ASSUME LearningRaises PROVE LedgerKept
  BY <1>18 DEF LearningRaises
<1>19. ASSUME EndPass PROVE LedgerKept
  BY <1>19 DEF EndPass, Fresh
<1>20. ASSUME UNCHANGED vars PROVE LedgerKept
  BY <1>20 DEF vars
<1> QED BY <1>1, <1>2, <1>3, <1>4, <1>5, <1>6, <1>7, <1>8, <1>9, <1>10, <1>11,
      <1>12, <1>13, <1>14, <1>15, <1>16, <1>17, <1>18, <1>19, <1>20 DEF Next

\* TradeLifecycle implements TradeLedger: every trade with a context is entered,
\* settled and counted in that order, once, and with the outcome it had.
THEOREM LifecycleImplementsLedger == Spec => ImplementsLedger
<1>1. Init => Ledger!Init
  BY LifecycleAssumption
     DEF Init, Ledger!Init, Market, Disowned, Trades, Endings, LifecycleAssumption
<1>2. IInv /\ [Next]_vars => [Ledger!Next]_(Ledger!vars)
  BY StepIsLedgerStep DEF LedgerKept, LedgerStep, Ledger!Next
<1> QED BY <1>1, <1>2, Invariance, PTL DEF Spec, ImplementsLedger, Ledger!Spec
=============================================================================
