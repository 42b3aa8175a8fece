------------------------- MODULE BrokerCalls_proofs -------------------------
(***************************************************************************)
(* Theorems about BrokerCalls, for any set of calls, any number of workers *)
(* and attempts, and any answers of the broker.                            *)
(***************************************************************************)
EXTENDS BrokerCalls, FiniteSetTheorems, TLAPS

\* Which calls can be where, and which have a job.
PlaceInv ==
  \A c \in Calls :
    /\ caller[c] = "check" => c \in Market \cup Pending
    /\ caller[c] \in {"lock", "native"} => c \in Direct
    /\ caller[c] \in {"submit", "enqueue", "waiting", "bump"} => c \in Guarded
    /\ job[c] # "none" =>
         c \in Guarded /\ caller[c] \in {"waiting", "bump", "native", "done"}
    /\ job[c] # "done" <=> outcome[c] = "none"

\* Where a direct call is while it holds the lock.
Holding == {"submit", "enqueue", "waiting", "bump", "native"}

\* Nobody else owns the lock.
OwnerInv ==
  \/ lock = Free
  \/ \E c \in Calls : job[c] = "native" /\ lock = WorkerOf(c)
  \/ \E c \in Direct : caller[c] \in Holding /\ lock = CallerOf(c)

\* Who is inside the bindings, or in a block that takes the lock, owns it.
LockInv ==
  /\ OwnerInv
  /\ \A c \in Calls :
       /\ job[c] = "native" => lock = WorkerOf(c)
       /\ c \in Direct /\ caller[c] \in Holding => lock = CallerOf(c)

\* How often an order can have been executed, by the place it is in.
SendInv ==
  \A c \in Calls :
    /\ job[c] \in {"queued", "wants", "cancelled"} => executed[c] = 0
    /\ job[c] = "none" /\ (c \in Cancels => caller[c] # "done") => executed[c] = 0
    /\ job[c] = "native" /\ c \notin Market => executed[c] = 0
    /\ c \in Orders \ Market => executed[c] <= 1
    /\ outcome[c] = "busy" => executed[c] = 0
    /\ outcome[c] = "ok" /\ c \in Orders => executed[c] >= 1

\* What a caller has been told.
AnswerInv ==
  \A c \in Calls :
    /\ answer[c] = "ok" /\ c \in Orders => executed[c] >= 1
    /\ answer[c] = "failed" /\ c \in Market => job[c] = "done" /\ outcome[c] = "failed"
    /\ caller[c] # "done" => answer[c] = "none"

\* Where a call and its job are while its worker counts as stuck.
CallbackInv ==
  \A c \in Calls :
    /\ caller[c] \notin {"native", "done"} => callback[c] = "none"
    /\ caller[c] = "bump" => job[c] \in {"wants", "native", "done"}
    /\ callback[c] = "registered" => job[c] \in {"wants", "native"}

\* A counter that lost no update is exact; a set of calls that owe a release is
\* finite because every step adds at most one of them.
CountInv ==
  \A p \in Pools :
    /\ IsFiniteSet(Owed(p))
    /\ p \notin raced => stuck[p] = Cardinality(Owed(p))

IInv ==
  /\ TypeOK /\ PlaceInv /\ LockInv /\ SendInv /\ AnswerInv
  /\ CallbackInv /\ CountInv

-----------------------------------------------------------------------------
USE DEF stuckVars, poolVars

\* A loop ends in success only on an accepted send, and, for all but market
\* orders, goes on only after an answer that means the order was not executed.
LEMMA AfterFact ==
  ASSUME TypeOK, NEW c \in Orders \ Cancels, NEW r \in Replies
  PROVE  /\ After(c, r).send \in Sends
         /\ After(c, r).result \in {"none", "ok", "failed"}
         /\ After(c, r).result = "ok" => r \in Accepted
         /\ After(c, r).result = "none" /\ c \notin Market => r \in {"filling", "requote"}
<1> DEFINE s == send[c]
<1>1. s \in Sends /\ Attempts \in Nat \ {0} /\ r \in AllReplies
  BY SizesAssumption, RepliesAssumption
     DEF TypeOK, SizesAssumption, RepliesAssumption, Orders
<1> DEFINE foked == [attempt |-> s.attempt, filling |-> 1, refill |-> TRUE]
           returned == [s EXCEPT !.filling = 2]
           retried == [attempt |-> s.attempt + 1, filling |-> s.filling, refill |-> FALSE]
<1>a. foked \in Sends /\ returned \in Sends
  BY <1>1 DEF Sends
<1>b. s.filling < 2 => [s EXCEPT !.filling = @ + 1] \in Sends
  BY <1>1 DEF Sends
<1>c. s.attempt < 2 => [s EXCEPT !.attempt = @ + 1] \in Sends
  BY <1>1 DEF Sends
<1>d. ~(s.attempt + 1 >= Attempts) => retried \in Sends
  BY <1>1 DEF Sends
<1> USE DEF Again, Stop
<1>2. CASE c \in Market
  <2>1. After(c, r) = AfterMarket(s, r)
    BY <1>2, CallsAssumption DEF After, CallsAssumption
  <2>2. \/ AfterMarket(s, r) = Stop(s, TRUE) /\ r \in Accepted
        \/ AfterMarket(s, r) = Again(foked)
        \/ AfterMarket(s, r) = Again(returned)
        \/ AfterMarket(s, r) = Stop(s, r \in Accepted)
        \/ AfterMarket(s, r) = Again(retried) /\ ~(s.attempt + 1 >= Attempts)
    BY Zenon DEF AfterMarket
  <2> HIDE DEF s, foked, returned, retried
  <2>3. AfterMarket(s, r).send \in Sends
    BY <1>1, <1>a, <1>d, <2>2
  <2>4. /\ AfterMarket(s, r).result \in {"none", "ok", "failed"}
        /\ AfterMarket(s, r).result = "ok" => r \in Accepted
    BY <2>2
  <2> QED BY <1>2, <2>1, <2>3, <2>4
<1>3. CASE c \in Pending
  <2>1. After(c, r) = AfterPending(s, r)
    BY <1>3, CallsAssumption DEF After, CallsAssumption
  <2>2. \/ /\ AfterPending(s, r) = Again([s EXCEPT !.filling = @ + 1])
           /\ s.filling < 2 /\ r = "filling"
        \/ AfterPending(s, r) = Stop(s, r \in Accepted)
    BY Zenon DEF AfterPending
  <2> QED BY <1>1, <1>3, <1>b, <2>1, <2>2
<1>4. CASE c \in Closing
  <2>1. After(c, r) = AfterClosing(s, r)
    BY <1>4, CallsAssumption DEF After, CallsAssumption
  <2>2. \/ /\ AfterClosing(s, r) = Again([s EXCEPT !.filling = @ + 1])
           /\ s.filling < 2 /\ r = "filling"
        \/ /\ AfterClosing(s, r) = Again([s EXCEPT !.attempt = @ + 1])
           /\ s.attempt < 2 /\ r = "requote"
        \/ AfterClosing(s, r) = Stop(s, r = "done")
    BY Zenon DEF AfterClosing
  <2> QED BY <1>1, <1>4, <1>b, <1>c, <2>1, <2>2 DEF Accepted
<1> QED BY <1>2, <1>3, <1>4 DEF Orders, Calls

\* What a native call that comes back does: the job ends, or, for an order, the
\* loop goes on with another send.
Replied(c, sent, result) ==
  /\ job[c] = "native" /\ c \in Guarded
  /\ send' = [send EXCEPT ![c] = sent]
  /\ result = "none" => UNCHANGED <<job, outcome, callback, lock>>
  /\ result # "none" => Finish(c, result) /\ lock' = Free
  /\ \/ UNCHANGED executed /\ (result = "ok" => c \in Scans)
     \/ /\ executed' = [executed EXCEPT ![c] = @ + 1]
        /\ result = "none" => c \in Market
  /\ UNCHANGED <<caller, answer, poolVars, stuck, reg, raced>>

LEMMA ReplyFact ==
  ASSUME TypeOK, PlaceInv, NEW c \in Calls, Reply(c)
  PROVE  \E sent \in Sends, result \in {"none", "ok", "failed"} : Replied(c, sent, result)
<1>1. job[c] = "native" /\ c \in Guarded
  BY DEF Reply, PlaceInv
<1>2. send = [send EXCEPT ![c] = send[c]] /\ send[c] \in Sends
  BY DEF TypeOK
<1>3. CASE c \in Scans /\ Finish(c, "ok") /\ lock' = Free /\ UNCHANGED <<send, executed>>
  BY <1>1, <1>2, <1>3 DEF Reply, Replied
<1>4. CASE c \in Orders /\ Finish(c, "failed") /\ lock' = Free /\ UNCHANGED <<send, executed>>
  BY <1>1, <1>2, <1>4 DEF Reply, Replied
<1>5. ASSUME NEW r \in Replies, c \in Orders,
             send' = [send EXCEPT ![c] = After(c, r).send],
             executed' = [executed EXCEPT ![c] =
                            IF r \in Accepted \cup {"lost"} THEN @ + 1 ELSE @],
             IF After(c, r).result = "none" THEN UNCHANGED <<job, outcome, callback, lock>>
             ELSE Finish(c, After(c, r).result) /\ lock' = Free
      PROVE  \E sent \in Sends, result \in {"none", "ok", "failed"} : Replied(c, sent, result)
  <2>1. c \in Orders \ Cancels
    BY <1>1, <1>5 DEF Guarded, Orders
  <2>2. /\ After(c, r).send \in Sends
        /\ After(c, r).result \in {"none", "ok", "failed"}
        /\ After(c, r).result = "ok" => r \in Accepted
        /\ After(c, r).result = "none" /\ c \notin Market => r \in {"filling", "requote"}
    BY <2>1, AfterFact
  <2>3. CASE r \in Accepted \cup {"lost"}
    <3>1. executed' = [executed EXCEPT ![c] = @ + 1]
      BY <1>5, <2>3
    <3>2. After(c, r).result = "none" => c \in Market
      BY <2>2, <2>3 DEF Accepted
    <3> QED BY <1>1, <1>5, <2>2, <3>1, <3>2 DEF Reply, Replied
  <2>4. CASE r \notin Accepted \cup {"lost"}
    <3>1. UNCHANGED executed
      BY <1>5, <2>4 DEF TypeOK
    <3> QED BY <1>1, <1>5, <2>2, <2>4, <3>1 DEF Reply, Replied, Accepted
  <2> QED BY <2>3, <2>4
<1> QED BY <1>1, <1>3, <1>4, <1>5 DEF Reply

\* Every step keeps the types.
LEMMA TypeStep == IInv /\ [Next]_vars => TypeOK'
<1> SUFFICES ASSUME IInv, [Next]_vars PROVE TypeOK'
  OBVIOUS
<1>0. ASSUME NEW c \in Calls, Reply(c)
      PROVE  \E sent \in Sends, result \in {"none", "ok", "failed"} : Replied(c, sent, result)
  BY <1>0, ReplyFact DEF IInv
<1> USE DEF IInv, TypeOK, CallerStates, JobStates, Answers
<1>1. ASSUME NEW c \in Calls, Begin(c) PROVE TypeOK'
  BY <1>1 DEF Begin, Goto
<1>2. ASSUME NEW c \in Calls, AccountRead(c) PROVE TypeOK'
  BY <1>2 DEF AccountRead, Goto, Return
<1>3. ASSUME NEW c \in Calls, DirectLock(c) PROVE TypeOK'
  BY <1>3 DEF DirectLock, Goto, Threads
<1>4. ASSUME NEW c \in Calls, DirectBusy(c) PROVE TypeOK'
  BY <1>4 DEF DirectBusy, Return, Goto
<1>5. ASSUME NEW c \in Calls, DirectReply(c) PROVE TypeOK'
  BY <1>5 DEF DirectReply, Return, Goto
<1>6. ASSUME NEW c \in Calls, GetExecutor(c) PROVE TypeOK'
  BY <1>6, SizesAssumption DEF GetExecutor, Goto, Pools, SizesAssumption
<1>7. ASSUME NEW c \in Calls, Enqueue(c) PROVE TypeOK'
  BY <1>7 DEF Enqueue, Default, DefaultAnswer, Return, Goto
<1>8. ASSUME NEW c \in Calls, Answered(c) PROVE TypeOK'
  BY <1>8 DEF Answered, Default, DefaultAnswer, Return, Goto
<1>9. ASSUME NEW c \in Calls, TimeOutQueued(c) PROVE TypeOK'
  BY <1>9 DEF TimeOutQueued, Default, DefaultAnswer, Return, Goto
<1>10. ASSUME NEW c \in Calls, TimeOutRunning(c) PROVE TypeOK'
  BY <1>10 DEF TimeOutRunning, Goto
<1>11. ASSUME NEW c \in Calls, Bump(c) PROVE TypeOK'
  BY <1>11 DEF Bump, Default, DefaultAnswer, Return, Goto, Write
<1>12. ASSUME NEW c \in Calls, Start(c) PROVE TypeOK'
  BY <1>12 DEF Start
<1>13. ASSUME NEW c \in Calls, TakeLock(c) PROVE TypeOK'
  BY <1>13 DEF TakeLock, Threads
<1>14. ASSUME NEW c \in Calls, Busy(c) PROVE TypeOK'
  BY <1>14 DEF Busy, Finish
<1>15. ASSUME NEW c \in Calls, Reply(c) PROVE TypeOK'
  <2>1. PICK sent \in Sends, result \in {"none", "ok", "failed"} : Replied(c, sent, result)
    BY <1>15, <1>0
  <2>2. CASE result = "none" BY <2>1, <2>2 DEF Replied
  <2>3. CASE result # "none" BY <2>1, <2>3 DEF Replied, Finish
  <2> QED BY <2>2, <2>3
<1>16. ASSUME NEW c \in Calls, ReadRelease(c) PROVE TypeOK'
  BY <1>16 DEF ReadRelease
<1>17. ASSUME NEW c \in Calls, Release(c) PROVE TypeOK'
  BY <1>17 DEF Release, Write
<1>18. ASSUME UNCHANGED vars PROVE TypeOK'
  BY <1>18 DEF vars
<1> QED BY <1>1, <1>2, <1>3, <1>4, <1>5, <1>6, <1>7, <1>8, <1>9,
      <1>10, <1>11, <1>12, <1>13, <1>14, <1>15, <1>16, <1>17, <1>18
      DEF Next, Native, Waits, Guard, Result, LockWait, Uncount, Quiet

\* Every step keeps calls and jobs in their places.
LEMMA PlaceStep == IInv /\ [Next]_vars => PlaceInv'
<1> SUFFICES ASSUME IInv, [Next]_vars PROVE PlaceInv'
  OBVIOUS
<1>0. ASSUME NEW c \in Calls, Reply(c)
      PROVE  \E sent \in Sends, result \in {"none", "ok", "failed"} : Replied(c, sent, result)
  BY <1>0, ReplyFact DEF IInv
<1> USE CallsAssumption DEF IInv, TypeOK, PlaceInv
<1>1. ASSUME NEW c \in Calls, Begin(c) PROVE PlaceInv'
  BY <1>1 DEF Begin, Goto, Calls, Guarded, Direct
<1>2. ASSUME NEW c \in Calls, AccountRead(c) PROVE PlaceInv'
  BY <1>2 DEF AccountRead, Goto, Return, Guarded
<1>3. ASSUME NEW c \in Calls, DirectLock(c) PROVE PlaceInv'
  BY <1>3 DEF DirectLock, Goto, Guarded
<1>4. ASSUME NEW c \in Calls, DirectBusy(c) PROVE PlaceInv'
  BY <1>4 DEF DirectBusy, Return, Goto
<1>5. ASSUME NEW c \in Calls, DirectReply(c) PROVE PlaceInv'
  BY <1>5 DEF DirectReply, Return, Goto
<1>6. ASSUME NEW c \in Calls, GetExecutor(c) PROVE PlaceInv'
  BY <1>6 DEF GetExecutor, Goto
<1>7. ASSUME NEW c \in Calls, Enqueue(c) PROVE PlaceInv'
  BY <1>7 DEF Enqueue, Default, Return, Goto, Direct
<1>8. ASSUME NEW c \in Calls, Answered(c) PROVE PlaceInv'
  BY <1>8 DEF Answered, Default, Return, Goto, Direct
<1>9. ASSUME NEW c \in Calls, TimeOutQueued(c) PROVE PlaceInv'
  BY <1>9 DEF TimeOutQueued, Default, Return, Goto, Direct
<1>10. ASSUME NEW c \in Calls, TimeOutRunning(c) PROVE PlaceInv'
  BY <1>10 DEF TimeOutRunning, Goto
<1>11. ASSUME NEW c \in Calls, Bump(c) PROVE PlaceInv'
  BY <1>11 DEF Bump, Default, Return, Goto, Direct
<1>12. ASSUME NEW c \in Calls, Start(c) PROVE PlaceInv'
  BY <1>12 DEF Start
<1>13. ASSUME NEW c \in Calls, TakeLock(c) PROVE PlaceInv'
  BY <1>13 DEF TakeLock
<1>14. ASSUME NEW c \in Calls, Busy(c) PROVE PlaceInv'
  BY <1>14 DEF Busy, Finish
<1>15. ASSUME NEW c \in Calls, Reply(c) PROVE PlaceInv'
  <2>1. PICK sent \in Sends, result \in {"none", "ok", "failed"} : Replied(c, sent, result)
    BY <1>15, <1>0
  <2>2. CASE result = "none" BY <2>1, <2>2 DEF Replied
  <2>3. CASE result # "none" BY <2>1, <2>3 DEF Replied, Finish
  <2> QED BY <2>2, <2>3
<1>16. ASSUME NEW c \in Calls, ReadRelease(c) PROVE PlaceInv'
  BY <1>16 DEF ReadRelease
<1>17. ASSUME NEW c \in Calls, Release(c) PROVE PlaceInv'
  BY <1>17 DEF Release
<1>18. ASSUME UNCHANGED vars PROVE PlaceInv'
  BY <1>18 DEF vars
<1> QED BY <1>1, <1>2, <1>3, <1>4, <1>5, <1>6, <1>7, <1>8, <1>9,
      <1>10, <1>11, <1>12, <1>13, <1>14, <1>15, <1>16, <1>17, <1>18
      DEF Next, Native, Waits, Guard, Result, LockWait, Uncount, Quiet

\* The owner of the lock stays inside, as long as nobody leaves.
LEMMA OwnerKept ==
  ASSUME OwnerInv, lock' = lock,
         \A c \in Calls : job[c] = "native" => job'[c] = "native",
         \A c \in Direct : caller[c] \in Holding => caller'[c] \in Holding
  PROVE  OwnerInv'
BY DEF OwnerInv

\* Every step keeps the lock with the thread that is inside the bindings.
LEMMA LockStep == IInv /\ [Next]_vars => LockInv'
<1> SUFFICES ASSUME IInv, [Next]_vars PROVE LockInv'
  OBVIOUS
<1>0. ASSUME NEW c \in Calls, Reply(c)
      PROVE  \E sent \in Sends, result \in {"none", "ok", "failed"} : Replied(c, sent, result)
  BY <1>0, ReplyFact DEF IInv
<1> USE CallsAssumption, FreeAssumption DEF IInv, TypeOK, PlaceInv, LockInv
<1>1. ASSUME NEW c \in Calls, Begin(c) PROVE LockInv'
  <2>1. /\ lock' = lock
        /\ \A d \in Calls : job[d] = "native" => job'[d] = "native"
        /\ \A d \in Direct : caller[d] \in Holding => caller'[d] \in Holding
    BY <1>1 DEF Begin, Goto, Holding, Guarded, Direct, Calls
  <2> QED BY <1>1, <2>1, OwnerKept DEF Begin, Goto, Holding, Direct
<1>2. ASSUME NEW c \in Calls, AccountRead(c) PROVE LockInv'
  <2>1. /\ lock' = lock
        /\ \A d \in Calls : job[d] = "native" => job'[d] = "native"
        /\ \A d \in Direct : caller[d] \in Holding => caller'[d] \in Holding
    BY <1>2 DEF AccountRead, Goto, Return, Holding, Guarded, Direct, Calls
  <2> QED BY <1>2, <2>1, OwnerKept DEF AccountRead, Goto, Return, Holding, Direct
<1>3. ASSUME NEW c \in Calls, DirectLock(c) PROVE LockInv'
  BY <1>3 DEF DirectLock, Goto, Threads, OwnerInv, Holding, Direct
<1>4. ASSUME NEW c \in Calls, DirectBusy(c) PROVE LockInv'
  <2>1. /\ lock' = lock
        /\ \A d \in Calls : job[d] = "native" => job'[d] = "native"
        /\ \A d \in Direct : caller[d] \in Holding => caller'[d] \in Holding
    BY <1>4 DEF DirectBusy, Return, Goto, Holding, Guarded, Direct, Calls
  <2> QED BY <1>4, <2>1, OwnerKept DEF DirectBusy, Return, Goto, Holding, Direct
<1>5. ASSUME NEW c \in Calls, DirectReply(c) PROVE LockInv'
  BY <1>5 DEF DirectReply, Return, Goto, CallerOf, WorkerOf, OwnerInv, Holding, Direct
<1>6. ASSUME NEW c \in Calls, GetExecutor(c) PROVE LockInv'
  <2>1. /\ lock' = lock
        /\ \A d \in Calls : job[d] = "native" => job'[d] = "native"
        /\ \A d \in Direct : caller[d] \in Holding => caller'[d] \in Holding
    BY <1>6 DEF GetExecutor, Goto, Holding, Guarded, Direct, Calls
  <2> QED BY <1>6, <2>1, OwnerKept DEF GetExecutor, Goto, Holding, Direct
<1>7. ASSUME NEW c \in Calls, Enqueue(c) PROVE LockInv'
  <2>1. /\ lock' = lock
        /\ \A d \in Calls : job[d] = "native" => job'[d] = "native"
        /\ \A d \in Direct : caller[d] \in Holding => caller'[d] \in Holding
    BY <1>7 DEF Enqueue, Default, Return, Goto, Holding, Guarded, Direct, Calls
  <2> QED BY <1>7, <2>1, OwnerKept DEF Enqueue, Default, Return, Goto, Holding, Direct
<1>8. ASSUME NEW c \in Calls, Answered(c) PROVE LockInv'
  <2>1. /\ lock' = lock
        /\ \A d \in Calls : job[d] = "native" => job'[d] = "native"
        /\ \A d \in Direct : caller[d] \in Holding => caller'[d] \in Holding
    BY <1>8 DEF Answered, Default, Return, Goto, Holding, Guarded, Direct, Calls
  <2> QED BY <1>8, <2>1, OwnerKept DEF Answered, Default, Return, Goto, Holding, Direct
<1>9. ASSUME NEW c \in Calls, TimeOutQueued(c) PROVE LockInv'
  <2>1. /\ lock' = lock
        /\ \A d \in Calls : job[d] = "native" => job'[d] = "native"
        /\ \A d \in Direct : caller[d] \in Holding => caller'[d] \in Holding
    BY <1>9 DEF TimeOutQueued, Default, Return, Goto, Holding, Guarded, Direct, Calls
  <2> QED BY <1>9, <2>1, OwnerKept DEF TimeOutQueued, Default, Return, Goto, Holding, Direct
<1>10. ASSUME NEW c \in Calls, TimeOutRunning(c) PROVE LockInv'
  <2>1. /\ lock' = lock
        /\ \A d \in Calls : job[d] = "native" => job'[d] = "native"
        /\ \A d \in Direct : caller[d] \in Holding => caller'[d] \in Holding
    BY <1>10 DEF TimeOutRunning, Goto, Holding, Guarded, Direct, Calls
  <2> QED BY <1>10, <2>1, OwnerKept DEF TimeOutRunning, Goto, Holding, Direct
<1>11. ASSUME NEW c \in Calls, Bump(c) PROVE LockInv'
  <2>1. /\ lock' = lock
        /\ \A d \in Calls : job[d] = "native" => job'[d] = "native"
        /\ \A d \in Direct : caller[d] \in Holding => caller'[d] \in Holding
    BY <1>11 DEF Bump, Default, Return, Goto, Holding, Guarded, Direct, Calls
  <2> QED BY <1>11, <2>1, OwnerKept DEF Bump, Default, Return, Goto, Holding, Direct
<1>12. ASSUME NEW c \in Calls, Start(c) PROVE LockInv'
  <2>1. /\ lock' = lock
        /\ \A d \in Calls : job[d] = "native" => job'[d] = "native"
        /\ \A d \in Direct : caller[d] \in Holding => caller'[d] \in Holding
    BY <1>12 DEF Start, Holding, Guarded, Direct, Calls
  <2> QED BY <1>12, <2>1, OwnerKept DEF Start, Holding, Direct
<1>13. ASSUME NEW c \in Calls, TakeLock(c) PROVE LockInv'
  BY <1>13 DEF TakeLock, Threads, OwnerInv, Holding
<1>14. ASSUME NEW c \in Calls, Busy(c) PROVE LockInv'
  <2>1. /\ lock' = lock /\ caller' = caller
        /\ \A d \in Calls : job[d] = "native" => job'[d] = "native"
    BY <1>14 DEF Busy, Finish
  <2> QED BY <1>14, <2>1, OwnerKept DEF Busy, Finish
<1>15. ASSUME NEW c \in Calls, Reply(c) PROVE LockInv'
  <2>1. PICK sent \in Sends, result \in {"none", "ok", "failed"} : Replied(c, sent, result)
    BY <1>15, <1>0
  <2>2. CASE result = "none" BY <2>1, <2>2, OwnerKept DEF Replied
  <2>3. CASE result # "none" 
    BY <2>1, <2>3 DEF Replied, Finish, WorkerOf, CallerOf, OwnerInv
  <2> QED BY <2>2, <2>3
<1>16. ASSUME NEW c \in Calls, ReadRelease(c) PROVE LockInv'
  <2>1. /\ lock' = lock
        /\ \A d \in Calls : job[d] = "native" => job'[d] = "native"
        /\ \A d \in Direct : caller[d] \in Holding => caller'[d] \in Holding
    BY <1>16 DEF ReadRelease, Holding, Guarded, Direct, Calls
  <2> QED BY <1>16, <2>1, OwnerKept DEF ReadRelease, Holding, Direct
<1>17. ASSUME NEW c \in Calls, Release(c) PROVE LockInv'
  <2>1. /\ lock' = lock
        /\ \A d \in Calls : job[d] = "native" => job'[d] = "native"
        /\ \A d \in Direct : caller[d] \in Holding => caller'[d] \in Holding
    BY <1>17 DEF Release, Holding, Guarded, Direct, Calls
  <2> QED BY <1>17, <2>1, OwnerKept DEF Release, Holding, Direct
<1>18. ASSUME UNCHANGED vars PROVE LockInv'
  <2>1. /\ lock' = lock
        /\ \A d \in Calls : job[d] = "native" => job'[d] = "native"
        /\ \A d \in Direct : caller[d] \in Holding => caller'[d] \in Holding
    BY <1>18 DEF vars, Holding, Guarded, Direct, Calls
  <2> QED BY <1>18, <2>1, OwnerKept DEF vars, Holding, Direct
<1> QED BY <1>1, <1>2, <1>3, <1>4, <1>5, <1>6, <1>7, <1>8, <1>9,
      <1>10, <1>11, <1>12, <1>13, <1>14, <1>15, <1>16, <1>17, <1>18
      DEF Next, Native, Waits, Guard, Result, LockWait, Uncount, Quiet

\* Every step keeps the number of executions within what the place allows.
LEMMA SendStep == IInv /\ [Next]_vars => SendInv'
<1> SUFFICES ASSUME IInv, [Next]_vars PROVE SendInv'
  OBVIOUS
<1>0. ASSUME NEW c \in Calls, Reply(c)
      PROVE  \E sent \in Sends, result \in {"none", "ok", "failed"} : Replied(c, sent, result)
  BY <1>0, ReplyFact DEF IInv
<1> USE DEF IInv, TypeOK, PlaceInv, SendInv
<1>1. ASSUME NEW c \in Calls, Begin(c) PROVE SendInv'
  BY <1>1 DEF Begin, Goto
<1>2. ASSUME NEW c \in Calls, AccountRead(c) PROVE SendInv'
  BY <1>2 DEF AccountRead, Goto, Return
<1>3. ASSUME NEW c \in Calls, DirectLock(c) PROVE SendInv'
  BY <1>3 DEF DirectLock, Goto
<1>4. ASSUME NEW c \in Calls, DirectBusy(c) PROVE SendInv'
  BY <1>4 DEF DirectBusy, Return, Goto
<1>5. ASSUME NEW c \in Calls, DirectReply(c) PROVE SendInv'
  BY <1>5 DEF DirectReply, Return, Goto, Guarded
<1>6. ASSUME NEW c \in Calls, GetExecutor(c) PROVE SendInv'
  BY <1>6 DEF GetExecutor, Goto
<1>7. ASSUME NEW c \in Calls, Enqueue(c) PROVE SendInv'
  BY <1>7 DEF Enqueue, Default, Return, Goto
<1>8. ASSUME NEW c \in Calls, Answered(c) PROVE SendInv'
  BY <1>8 DEF Answered, Default, Return, Goto
<1>9. ASSUME NEW c \in Calls, TimeOutQueued(c) PROVE SendInv'
  BY <1>9 DEF TimeOutQueued, Default, Return, Goto
<1>10. ASSUME NEW c \in Calls, TimeOutRunning(c) PROVE SendInv'
  BY <1>10 DEF TimeOutRunning, Goto
<1>11. ASSUME NEW c \in Calls, Bump(c) PROVE SendInv'
  BY <1>11 DEF Bump, Default, Return, Goto
<1>12. ASSUME NEW c \in Calls, Start(c) PROVE SendInv'
  BY <1>12 DEF Start
<1>13. ASSUME NEW c \in Calls, TakeLock(c) PROVE SendInv'
  BY <1>13 DEF TakeLock
<1>14. ASSUME NEW c \in Calls, Busy(c) PROVE SendInv'
  BY <1>14 DEF Busy, Finish
<1>15. ASSUME NEW c \in Calls, Reply(c) PROVE SendInv'
  <2>1. PICK sent \in Sends, result \in {"none", "ok", "failed"} : Replied(c, sent, result)
    BY <1>15, <1>0
  <2>2. CASE result = "none" BY <2>1, <2>2 DEF Replied
  <2>3. CASE result # "none" BY <2>1, <2>3 DEF Replied, Finish, Orders
  <2> QED BY <2>2, <2>3
<1>16. ASSUME NEW c \in Calls, ReadRelease(c) PROVE SendInv'
  BY <1>16 DEF ReadRelease
<1>17. ASSUME NEW c \in Calls, Release(c) PROVE SendInv'
  BY <1>17 DEF Release
<1>18. ASSUME UNCHANGED vars PROVE SendInv'
  BY <1>18 DEF vars
<1> QED BY <1>1, <1>2, <1>3, <1>4, <1>5, <1>6, <1>7, <1>8, <1>9,
      <1>10, <1>11, <1>12, <1>13, <1>14, <1>15, <1>16, <1>17, <1>18
      DEF Next, Native, Waits, Guard, Result, LockWait, Uncount, Quiet

\* Every step keeps what callers were told true.
LEMMA AnswerStep == IInv /\ [Next]_vars => AnswerInv'
<1> SUFFICES ASSUME IInv, [Next]_vars PROVE AnswerInv'
  OBVIOUS
<1>0. ASSUME NEW c \in Calls, Reply(c)
      PROVE  \E sent \in Sends, result \in {"none", "ok", "failed"} : Replied(c, sent, result)
  BY <1>0, ReplyFact DEF IInv
<1> USE CallsAssumption DEF IInv, TypeOK, PlaceInv, SendInv, AnswerInv
<1>1. ASSUME NEW c \in Calls, Begin(c) PROVE AnswerInv'
  BY <1>1 DEF Begin, Goto
<1>2. ASSUME NEW c \in Calls, AccountRead(c) PROVE AnswerInv'
  BY <1>2 DEF AccountRead, Goto, Return
<1>3. ASSUME NEW c \in Calls, DirectLock(c) PROVE AnswerInv'
  BY <1>3 DEF DirectLock, Goto
<1>4. ASSUME NEW c \in Calls, DirectBusy(c) PROVE AnswerInv'
  BY <1>4 DEF DirectBusy, Goto, Return, Direct
<1>5. ASSUME NEW c \in Calls, DirectReply(c) PROVE AnswerInv'
  BY <1>5 DEF DirectReply, Goto, Return, Orders
<1>6. ASSUME NEW c \in Calls, GetExecutor(c) PROVE AnswerInv'
  BY <1>6 DEF GetExecutor, Goto
<1>7. ASSUME NEW c \in Calls, Enqueue(c) PROVE AnswerInv'
  BY <1>7 DEF Enqueue, Goto, Default, DefaultAnswer, Return
<1>8. ASSUME NEW c \in Calls, Answered(c) PROVE AnswerInv'
  BY <1>8 DEF Answered, Goto, Default, DefaultAnswer, Return
<1>9. ASSUME NEW c \in Calls, TimeOutQueued(c) PROVE AnswerInv'
  BY <1>9 DEF TimeOutQueued, Goto, Default, DefaultAnswer, Return
<1>10. ASSUME NEW c \in Calls, TimeOutRunning(c) PROVE AnswerInv'
  BY <1>10 DEF TimeOutRunning, Goto
<1>11. ASSUME NEW c \in Calls, Bump(c) PROVE AnswerInv'
  BY <1>11 DEF Bump, Goto, Default, DefaultAnswer, Return
<1>12. ASSUME NEW c \in Calls, Start(c) PROVE AnswerInv'
  BY <1>12 DEF Start
<1>13. ASSUME NEW c \in Calls, TakeLock(c) PROVE AnswerInv'
  BY <1>13 DEF TakeLock
<1>14. ASSUME NEW c \in Calls, Busy(c) PROVE AnswerInv'
  BY <1>14 DEF Busy, Finish
<1>15. ASSUME NEW c \in Calls, Reply(c) PROVE AnswerInv'
  <2>1. PICK sent \in Sends, result \in {"none", "ok", "failed"} : Replied(c, sent, result)
    BY <1>15, <1>0
  <2>2. CASE result = "none" BY <2>1, <2>2 DEF Replied
  <2>3. CASE result # "none" BY <2>1, <2>3 DEF Replied, Finish
  <2> QED BY <2>2, <2>3
<1>16. ASSUME NEW c \in Calls, ReadRelease(c) PROVE AnswerInv'
  BY <1>16 DEF ReadRelease
<1>17. ASSUME NEW c \in Calls, Release(c) PROVE AnswerInv'
  BY <1>17 DEF Release
<1>18. ASSUME UNCHANGED vars PROVE AnswerInv'
  BY <1>18 DEF vars
<1> QED BY <1>1, <1>2, <1>3, <1>4, <1>5, <1>6, <1>7, <1>8, <1>9,
      <1>10, <1>11, <1>12, <1>13, <1>14, <1>15, <1>16, <1>17, <1>18
      DEF Next, Native, Waits, Guard, Result, LockWait, Uncount, Quiet

\* Every step keeps callbacks with the calls whose time-out was counted.
LEMMA CallbackStep == IInv /\ [Next]_vars => CallbackInv'
<1> SUFFICES ASSUME IInv, [Next]_vars PROVE CallbackInv'
  OBVIOUS
<1>0. ASSUME NEW c \in Calls, Reply(c)
      PROVE  \E sent \in Sends, result \in {"none", "ok", "failed"} : Replied(c, sent, result)
  BY <1>0, ReplyFact DEF IInv
<1> USE DEF IInv, TypeOK, PlaceInv, CallbackInv
<1>1. ASSUME NEW c \in Calls, Begin(c) PROVE CallbackInv'
  BY <1>1 DEF Begin, Goto
<1>2. ASSUME NEW c \in Calls, AccountRead(c) PROVE CallbackInv'
  BY <1>2 DEF AccountRead, Goto, Return
<1>3. ASSUME NEW c \in Calls, DirectLock(c) PROVE CallbackInv'
  BY <1>3 DEF DirectLock, Goto
<1>4. ASSUME NEW c \in Calls, DirectBusy(c) PROVE CallbackInv'
  BY <1>4 DEF DirectBusy, Return, Goto
<1>5. ASSUME NEW c \in Calls, DirectReply(c) PROVE CallbackInv'
  BY <1>5 DEF DirectReply, Return, Goto
<1>6. ASSUME NEW c \in Calls, GetExecutor(c) PROVE CallbackInv'
  BY <1>6 DEF GetExecutor, Goto
<1>7. ASSUME NEW c \in Calls, Enqueue(c) PROVE CallbackInv'
  BY <1>7 DEF Enqueue, Default, Return, Goto
<1>8. ASSUME NEW c \in Calls, Answered(c) PROVE CallbackInv'
  BY <1>8 DEF Answered, Default, Return, Goto
<1>9. ASSUME NEW c \in Calls, TimeOutQueued(c) PROVE CallbackInv'
  BY <1>9 DEF TimeOutQueued, Default, Return, Goto
<1>10. ASSUME NEW c \in Calls, TimeOutRunning(c) PROVE CallbackInv'
  BY <1>10 DEF TimeOutRunning, Goto
<1>11. ASSUME NEW c \in Calls, Bump(c) PROVE CallbackInv'
  BY <1>11 DEF Bump, Default, Return, Goto
<1>12. ASSUME NEW c \in Calls, Start(c) PROVE CallbackInv'
  BY <1>12 DEF Start
<1>13. ASSUME NEW c \in Calls, TakeLock(c) PROVE CallbackInv'
  BY <1>13 DEF TakeLock
<1>14. ASSUME NEW c \in Calls, Busy(c) PROVE CallbackInv'
  BY <1>14 DEF Busy, Finish
<1>15. ASSUME NEW c \in Calls, Reply(c) PROVE CallbackInv'
  <2>1. PICK sent \in Sends, result \in {"none", "ok", "failed"} : Replied(c, sent, result)
    BY <1>15, <1>0
  <2>2. CASE result = "none" BY <2>1, <2>2 DEF Replied
  <2>3. CASE result # "none" BY <2>1, <2>3 DEF Replied, Finish
  <2> QED BY <2>2, <2>3
<1>16. ASSUME NEW c \in Calls, ReadRelease(c) PROVE CallbackInv'
  BY <1>16 DEF ReadRelease
<1>17. ASSUME NEW c \in Calls, Release(c) PROVE CallbackInv'
  BY <1>17 DEF Release
<1>18. ASSUME UNCHANGED vars PROVE CallbackInv'
  BY <1>18 DEF vars
<1> QED BY <1>1, <1>2, <1>3, <1>4, <1>5, <1>6, <1>7, <1>8, <1>9,
      <1>10, <1>11, <1>12, <1>13, <1>14, <1>15, <1>16, <1>17, <1>18
      DEF Next, Native, Waits, Guard, Result, LockWait, Uncount, Quiet

\* Which steps move a counter: only Bump and Release; every other step leaves
\* the same calls owing the same release.
SameCount ==
  /\ UNCHANGED <<stuck, raced>>
  /\ \A p \in Pools : Owed(p)' = Owed(p)

LEMMA SameCountFact == CountInv /\ SameCount => CountInv'
  BY DEF CountInv, SameCount

\* A worker that is written off is one more; the counter follows unless another
\* thread wrote it since it was read.
LEMMA BumpCounts ==
  ASSUME TypeOK, CallbackInv, CountInv, NEW c \in Calls, Bump(c)
  PROVE  CountInv'
<1>0. PICK p \in Pools : p = poolOf[c]
  BY DEF TypeOK
<1>1. callback[c] = "none"
  BY <1>0 DEF TypeOK, CallbackInv, Bump
<1>2. /\ Owed(p)' = Owed(p) \cup {c} /\ c \notin Owed(p)
      /\ \A q \in Pools \ {p} : Owed(q)' = Owed(q)
  BY <1>0, <1>1 DEF Bump, Owed, TypeOK
<1>3. \A q \in Pools \ {p} : stuck'[q] = stuck[q] /\ (q \in raced' <=> q \in raced)
  BY <1>0, <1>1 DEF Bump, Write, TypeOK
<1>4. p \notin raced' => p \notin raced /\ stuck'[p] = stuck[p] + 1
  BY <1>0, <1>1 DEF Bump, Write, TypeOK
<1>5. IsFiniteSet(Owed(p)) /\ (p \notin raced => stuck[p] = Cardinality(Owed(p)))
  BY <1>0, <1>1 DEF CountInv
<1>6. IsFiniteSet(Owed(p)') /\ Cardinality(Owed(p)') = Cardinality(Owed(p)) + 1
  BY <1>0, <1>2, <1>5, FS_AddElement
<1>7. ASSUME NEW q \in Pools
      PROVE  IsFiniteSet(Owed(q)') /\ (q \notin raced' => stuck'[q] = Cardinality(Owed(q)'))
  <2>1. CASE q = p BY <1>4, <1>5, <1>6, <2>1
  <2>2. CASE q # p BY <1>0, <1>2, <1>3, <2>2 DEF CountInv
  <2> QED BY <2>1, <2>2
<1> QED BY <1>7 DEF CountInv

\* A worker that comes back is one less.
LEMMA ReleaseCounts ==
  ASSUME TypeOK, CallbackInv, CountInv, NEW c \in Calls, Release(c)
  PROVE  CountInv'
<1>0. PICK p \in Pools : p = poolOf[c]
  BY DEF TypeOK
<1>1. callback[c] = "reading"
  BY DEF TypeOK, Release
<1>2. /\ Owed(p)' = Owed(p) \ {c} /\ c \in Owed(p)
      /\ \A q \in Pools \ {p} : Owed(q)' = Owed(q)
  BY <1>0, <1>1 DEF Release, Owed, TypeOK
<1>3. \A q \in Pools \ {p} : stuck'[q] = stuck[q] /\ (q \in raced' <=> q \in raced)
  BY <1>0, <1>1 DEF Release, Write, TypeOK
<1>4. /\ IsFiniteSet(Owed(p)) /\ (p \notin raced => stuck[p] = Cardinality(Owed(p)))
      /\ Cardinality(Owed(p)) \in Nat /\ Cardinality(Owed(p)) # 0
  BY <1>0, <1>1, <1>2, FS_EmptySet, FS_CardinalityType DEF CountInv
<1>5. p \notin raced' => p \notin raced /\ stuck'[p] = stuck[p] - 1
  BY <1>0, <1>1, <1>4 DEF Release, Write, TypeOK
<1>6. IsFiniteSet(Owed(p)') /\ Cardinality(Owed(p)') = Cardinality(Owed(p)) - 1
  BY <1>0, <1>2, <1>4, FS_RemoveElement
<1>7. ASSUME NEW q \in Pools
      PROVE  IsFiniteSet(Owed(q)') /\ (q \notin raced' => stuck'[q] = Cardinality(Owed(q)'))
  <2>1. CASE q = p BY <1>4, <1>5, <1>6, <2>1
  <2>2. CASE q # p BY <1>0, <1>2, <1>3, <2>2 DEF CountInv
  <2> QED BY <2>1, <2>2
<1> QED BY <1>7 DEF CountInv

\* Every step keeps the counters exact.
LEMMA CountStep == IInv /\ [Next]_vars => CountInv'
<1> SUFFICES ASSUME IInv, [Next]_vars PROVE CountInv'
  OBVIOUS
<1>0. ASSUME NEW c \in Calls, Reply(c)
      PROVE  \E sent \in Sends, result \in {"none", "ok", "failed"} : Replied(c, sent, result)
  BY <1>0, ReplyFact DEF IInv
<1> USE DEF IInv, TypeOK, CallbackInv
<1>1. ASSUME NEW c \in Calls, Begin(c) PROVE CountInv'
  BY <1>1, SameCountFact DEF Begin, Goto, SameCount, Owed
<1>2. ASSUME NEW c \in Calls, AccountRead(c) PROVE CountInv'
  BY <1>2, SameCountFact DEF AccountRead, Goto, Return, SameCount, Owed
<1>3. ASSUME NEW c \in Calls, DirectLock(c) PROVE CountInv'
  BY <1>3, SameCountFact DEF DirectLock, Goto, SameCount, Owed
<1>4. ASSUME NEW c \in Calls, DirectBusy(c) PROVE CountInv'
  BY <1>4, SameCountFact DEF DirectBusy, Return, Goto, SameCount, Owed
<1>5. ASSUME NEW c \in Calls, DirectReply(c) PROVE CountInv'
  BY <1>5, SameCountFact DEF DirectReply, Return, Goto, SameCount, Owed
<1>6. ASSUME NEW c \in Calls, GetExecutor(c) PROVE CountInv'
  BY <1>6, SameCountFact DEF GetExecutor, Goto, SameCount, Owed
<1>7. ASSUME NEW c \in Calls, Enqueue(c) PROVE CountInv'
  BY <1>7, SameCountFact DEF Enqueue, Default, Return, Goto, SameCount, Owed
<1>8. ASSUME NEW c \in Calls, Answered(c) PROVE CountInv'
  BY <1>8, SameCountFact DEF Answered, Default, Return, Goto, SameCount, Owed
<1>9. ASSUME NEW c \in Calls, TimeOutQueued(c) PROVE CountInv'
  BY <1>9, SameCountFact DEF TimeOutQueued, Default, Return, Goto, SameCount, Owed
<1>10. ASSUME NEW c \in Calls, TimeOutRunning(c) PROVE CountInv'
  BY <1>10, SameCountFact DEF TimeOutRunning, Goto, SameCount, Owed
<1>11. ASSUME NEW c \in Calls, Bump(c) PROVE CountInv'
  BY <1>11, BumpCounts
<1>12. ASSUME NEW c \in Calls, Start(c) PROVE CountInv'
  BY <1>12, SameCountFact DEF Start, SameCount, Owed
<1>13. ASSUME NEW c \in Calls, TakeLock(c) PROVE CountInv'
  BY <1>13, SameCountFact DEF TakeLock, SameCount, Owed
<1>14. ASSUME NEW c \in Calls, Busy(c) PROVE CountInv'
  BY <1>14, SameCountFact DEF Busy, Finish, SameCount, Owed
<1>15. ASSUME NEW c \in Calls, Reply(c) PROVE CountInv'
  <2>1. PICK sent \in Sends, result \in {"none", "ok", "failed"} : Replied(c, sent, result)
    BY <1>15, <1>0
  <2>2. CASE result = "none" BY <2>1, <2>2, SameCountFact DEF Replied, SameCount, Owed
  <2>3. CASE result # "none" BY <2>1, <2>3, SameCountFact DEF Replied, Finish, SameCount, Owed
  <2> QED BY <2>2, <2>3
<1>16. ASSUME NEW c \in Calls, ReadRelease(c) PROVE CountInv'
  BY <1>16, SameCountFact DEF ReadRelease, SameCount, Owed
<1>17. ASSUME NEW c \in Calls, Release(c) PROVE CountInv'
  BY <1>17, ReleaseCounts
<1>18. ASSUME UNCHANGED vars PROVE CountInv'
  BY <1>18, SameCountFact DEF vars, SameCount, Owed
<1> QED BY <1>1, <1>2, <1>3, <1>4, <1>5, <1>6, <1>7, <1>8, <1>9,
      <1>10, <1>11, <1>12, <1>13, <1>14, <1>15, <1>16, <1>17, <1>18
      DEF Next, Native, Waits, Guard, Result, LockWait, Uncount, Quiet

LEMMA Invariance == Spec => []IInv
<1>1. Init => IInv
  <2> SUFFICES ASSUME Init PROVE IInv
    OBVIOUS
  <2>1. TypeOK
    BY SizesAssumption DEF Init, TypeOK, CallerStates, JobStates, Answers, Sends,
       FirstSend, Pools, SizesAssumption
  <2>2. PlaceInv /\ LockInv
    BY DEF Init, PlaceInv, LockInv, OwnerInv, Holding
  <2>3. SendInv /\ AnswerInv
    BY DEF Init, SendInv, AnswerInv
  <2>4. CallbackInv
    BY DEF Init, CallbackInv
  <2>5. CountInv
    <3>1. \A p \in Pools : Owed(p) = {} /\ stuck[p] = 0
      BY DEF Init, Owed
    <3> QED BY <3>1, FS_EmptySet DEF CountInv
  <2> QED BY <2>1, <2>2, <2>3, <2>4, <2>5 DEF IInv
<1>2. IInv /\ [Next]_vars => IInv'
  BY TypeStep, PlaceStep, LockStep, SendStep, AnswerStep, CallbackStep, CountStep
     DEF IInv
<1> QED BY <1>1, <1>2, PTL DEF Spec

-----------------------------------------------------------------------------
\* Every variable keeps its type: in particular the loops end, the close after
\* two requotes and the market order after Attempts attempts.
THEOREM TypeCorrect == Spec => []TypeOK
<1>1. IInv => TypeOK
  BY DEF IInv
<1> QED BY <1>1, Invariance, PTL

\* However many threads time out, give up or retry, only one is inside the
\* bindings, it owns the broker lock (TrackedRLock, `with self._lock`), and no
\* thread that has left keeps it.
THEOREM NativeCallsAreSerialised == Spec => []OrdersSerialised
<1>1. IInv => OrdersSerialised
  <2> SUFFICES ASSUME IInv PROVE OrdersSerialised
    OBVIOUS
  <2>1. \A t \in InNative : lock = t
    BY DEF IInv, PlaceInv, LockInv, Holding, InNative
  <2>2. lock = Free \/ lock \in InBlock
    <3>1. ASSUME NEW c \in Direct, caller[c] \in Holding
          PROVE  CallerOf(c) \in InBlock
      BY <3>1 DEF IInv, PlaceInv, Holding, InBlock, InNative, Direct, Guarded, Calls
    <3>2. ASSUME NEW c \in Calls, job[c] = "native" PROVE WorkerOf(c) \in InBlock
      BY <3>2 DEF InBlock, InNative
    <3> QED BY <3>1, <3>2 DEF IInv, LockInv, OwnerInv
  <2> QED BY <2>1, <2>2 DEF OrdersSerialised
<1> QED BY <1>1, Invariance, PTL

\* The loops of place_pending_order and close_position, and a cancellation, have
\* their order executed at most once, whatever the broker answers.
THEOREM NothingButMarketTwice == Spec => []ExecutedOnce
<1>1. IInv => ExecutedOnce
  BY DEF IInv, SendInv, ExecutedOnce, Orders
<1> QED BY <1>1, Invariance, PTL

\* No loop turns refusals into a success, what answers FILLED, PLACED, CLOSED or
\* CANCELLED was accepted; and a worker that raised BrokerLockBusy sent nothing.
THEOREM AnswersAreAlwaysTrue == Spec => []AnswersAreTrue
<1>1. IInv => AnswersAreTrue
  BY DEF IInv, AnswerInv, SendInv, AnswersAreTrue, Orders
<1> QED BY <1>1, Invariance, PTL

\* After FAILED, a market order is not sent any more, whatever still runs.
THEOREM FailuresAreFinal == Spec => FailedIsFinal
<1>1. IInv /\ [Next]_vars =>
        [\A c \in Market : answer[c] = "failed" => executed'[c] = executed[c]]_vars
  <2> SUFFICES ASSUME IInv, Next, NEW c \in Market, answer[c] = "failed"
               PROVE  executed'[c] = executed[c]
    BY DEF vars
  <2> USE DEF IInv, TypeOK
  <2>1. job[c] = "done" /\ c \in Calls /\ c \notin Direct
    BY CallsAssumption DEF AnswerInv, CallsAssumption, Calls, Direct
  <2>2. ASSUME NEW d \in Calls, Reply(d) PROVE executed'[c] = executed[c]
    BY <2>1, <2>2 DEF Reply
  <2>3. ASSUME NEW d \in Calls, DirectReply(d) PROVE executed'[c] = executed[c]
    BY <2>1, <2>3 DEF DirectReply, Direct
  <2>4. ASSUME UNCHANGED executed PROVE executed'[c] = executed[c]
    BY <2>4
  <2>5. ASSUME NEW d \in Calls, ~Reply(d), ~DirectReply(d),
               \/ Begin(d) \/ Native(d) \/ Waits(d) \/ Guard(d) \/ Result(d)
               \/ Bump(d) \/ Start(d) \/ LockWait(d) \/ Uncount(d)
        PROVE  UNCHANGED executed
    BY <2>5 DEF Begin, Native, AccountRead, Waits, DirectLock, DirectBusy, Guard,
       GetExecutor, Enqueue, Result, Answered, TimeOutQueued, TimeOutRunning, Bump,
       Start, LockWait, TakeLock, Busy, Uncount, ReadRelease, Release
  <2>6. ASSUME Quiet PROVE UNCHANGED executed
    BY <2>6 DEF Quiet, vars
  <2> QED BY <2>2, <2>3, <2>4, <2>5, <2>6 DEF Next, Native
<1> QED BY <1>1, Invariance, PTL DEF Spec, FailedIsFinal

\* The counter that decides when a pool is abandoned (_jarvis_stuck against
\* _max_workers in _get_executor) is, for any number of calls and workers, the
\* number of workers that were written off and have not come back, as long as no
\* two threads have updated it at once.
THEOREM StuckCounterIsExact == Spec => []StuckIsOwed
<1>1. IInv => StuckIsOwed
  BY DEF IInv, CountInv, StuckIsOwed
<1> QED BY <1>1, Invariance, PTL

\* A pool is abandoned when, and only when, as many workers as it has were written
\* off and have not come back (_get_executor, 45-61), unless its counter was updated
\* by two threads at once: no healthy pool is shut down under its callers, and no
\* call goes to one that is known to be wedged.
THEOREM WedgedPoolsAreReplaced ==
  Spec => [][\A c \in Calls :
               GetExecutor(c) /\ pool \notin raced
                 => (pool' # pool <=> Cardinality(Owed(pool)) >= Workers)]_vars
<1>1. IInv /\ [Next]_vars =>
        [\A c \in Calls :
           GetExecutor(c) /\ pool \notin raced
             => (pool' # pool <=> Cardinality(Owed(pool)) >= Workers)]_vars
  <2> SUFFICES ASSUME IInv, NEW c \in Calls, GetExecutor(c), pool \notin raced
               PROVE  pool' # pool <=> Cardinality(Owed(pool)) >= Workers
    OBVIOUS
  <2>1. stuck[pool] = Cardinality(Owed(pool)) /\ pool \in Nat
    BY SizesAssumption DEF IInv, TypeOK, CountInv, Pools, SizesAssumption
  <2> QED BY <2>1 DEF GetExecutor, Wedged
<1> QED BY <1>1, Invariance, PTL DEF Spec

-----------------------------------------------------------------------------
(* The market order, which alone is sent again after an accepted send.     *)

\* A reply of the broker to the send of a market order.
Sent(c, r) ==
  LET next == After(c, r) IN
  /\ job[c] = "native"
  /\ send'[c] = next.send
  /\ executed'[c] = IF r \in Accepted \cup {"lost"} THEN executed[c] + 1 ELSE executed[c]
  /\ next.result = "none" => job'[c] = job[c] /\ outcome'[c] = outcome[c]
  /\ next.result # "none" => job'[c] = "done" /\ outcome'[c] = next.result

\* Nothing was sent for it; what its job returned does not change any more.
NotSent(c) ==
  /\ send'[c] = send[c] /\ executed'[c] = executed[c]
  /\ job[c] = "done" => job'[c] = "done" /\ outcome'[c] = outcome[c]

LEMMA MarketMoves ==
  ASSUME IInv, [Next]_vars, NEW c \in Market
  PROVE  NotSent(c) \/ \E r \in Replies : Sent(c, r)
<1> USE DEF IInv, TypeOK
<1>1. c \in Calls /\ c \notin Direct
  BY CallsAssumption DEF CallsAssumption, Calls, Direct
<1>2. CASE Reply(c)
  <2>1. job[c] = "native" /\ c \notin Scans
    BY <1>1, <1>2 DEF Reply, Direct
  <2>2. CASE Finish(c, "failed") /\ UNCHANGED <<send, executed>>
    BY <2>1, <2>2 DEF NotSent
  <2>3. ASSUME NEW r \in Replies,
               send' = [send EXCEPT ![c] = After(c, r).send],
               executed' = [executed EXCEPT ![c] =
                              IF r \in Accepted \cup {"lost"} THEN @ + 1 ELSE @],
               IF After(c, r).result = "none" THEN UNCHANGED <<job, outcome, callback, lock>>
               ELSE Finish(c, After(c, r).result) /\ lock' = Free
        PROVE  Sent(c, r)
    BY <1>1, <2>1, <2>3 DEF Sent, Finish
  <2> QED BY <1>2, <2>1, <2>2, <2>3 DEF Reply
<1>3. ASSUME NEW d \in Calls, d # c, Reply(d) PROVE NotSent(c)
  BY <1>1, <1>3 DEF Reply, Finish, NotSent
<1>4. ASSUME NEW d \in Calls, DirectReply(d) PROVE NotSent(c)
  BY <1>1, <1>4 DEF DirectReply, Direct, NotSent
<1>5. ASSUME NEW d \in Calls,
             \/ Begin(d) \/ AccountRead(d) \/ Waits(d) \/ GetExecutor(d)
             \/ Answered(d) \/ TimeOutRunning(d) \/ Bump(d) \/ Uncount(d)
      PROVE  NotSent(c)
  BY <1>5 DEF Begin, AccountRead, Waits, DirectLock, DirectBusy, GetExecutor, Answered,
     TimeOutRunning, Bump, Uncount, ReadRelease, Release, NotSent
<1>6. ASSUME NEW d \in Calls, Enqueue(d) \/ TimeOutQueued(d) \/ Start(d) \/ LockWait(d)
      PROVE  NotSent(c)
  BY <1>1, <1>6 DEF Enqueue, TimeOutQueued, Start, LockWait, TakeLock, Busy, Finish,
     PlaceInv, NotSent
<1>7. CASE UNCHANGED vars
  BY <1>7 DEF vars, NotSent
<1> QED BY <1>2, <1>3, <1>4, <1>5, <1>6, <1>7 DEF Next, Native, Guard, Result, Quiet

\* What the loop does with a reply: it ends in success or failure as the order was
\* accepted or not, except that an order whose answer is lost was executed too, or
\* sends once more, in the attempt after a rejected filling mode and else in the
\* next attempt, as long as there is one.
LEMMA AfterMarketFact ==
  ASSUME TypeOK, NEW c \in Market, NEW r \in Replies
  PROVE  /\ After(c, r).result \in {"none", "ok", "failed"}
         /\ After(c, r).result = "failed" => r \notin Accepted
         /\ After(c, r).result = "none" =>
              \/ /\ r = "filling"
                 /\ After(c, r).send.attempt = send[c].attempt
              \/ /\ After(c, r).send.attempt = send[c].attempt + 1
                 /\ ~After(c, r).send.refill
                 /\ send[c].attempt + 1 < Attempts
                 /\ r \in Accepted => send[c].refill
         /\ After(c, r).result # "none" => After(c, r).send = send[c]
         /\ After(c, r).send.refill => send[c].refill \/ r = "filling"
<1> DEFINE s == send[c]
<1>1. s \in Sends /\ Attempts \in Nat
  BY SizesAssumption DEF TypeOK, Calls, SizesAssumption
<1>2. After(c, r) = AfterMarket(s, r)
  BY CallsAssumption DEF After, CallsAssumption
<1>3. s.attempt \in Nat /\ [s EXCEPT !.filling = 2].attempt = s.attempt
      /\ [s EXCEPT !.filling = 2].refill = s.refill
  BY <1>1 DEF Sends
<1> HIDE DEF s
<1>4. CASE ~s.refill /\ r \in Accepted
  BY <1>2, <1>4 DEF AfterMarket, Stop, s
<1>5. CASE r = "filling" /\ ~s.refill
  BY <1>2, <1>5 DEF AfterMarket, Again, Accepted, s
<1>6. CASE r = "filling" /\ s.refill /\ s.filling = 1
  <2>1. After(c, r) = Again([s EXCEPT !.filling = 2])
    BY <1>2, <1>6 DEF AfterMarket, Accepted, s
  <2>2. After(c, r).result = "none" /\ After(c, r).send = [s EXCEPT !.filling = 2]
    BY <2>1 DEF Again
  <2> QED BY <1>3, <1>6, <2>2 DEF Accepted, s
<1>7. CASE /\ s.attempt + 1 >= Attempts
           /\ ~(~s.refill /\ r \in Accepted)
           /\ ~(r = "filling" /\ (~s.refill \/ s.filling = 1))
  BY <1>2, <1>3, <1>7 DEF AfterMarket, Stop, s
<1>8. CASE /\ ~(s.attempt + 1 >= Attempts)
           /\ ~(~s.refill /\ r \in Accepted)
           /\ ~(r = "filling" /\ (~s.refill \/ s.filling = 1))
  <2>1. After(c, r) =
          Again([attempt |-> s.attempt + 1, filling |-> s.filling, refill |-> FALSE])
    BY <1>2, <1>8 DEF AfterMarket, s
  <2>2. /\ After(c, r).result = "none"
        /\ After(c, r).send.attempt = s.attempt + 1 /\ ~After(c, r).send.refill
    BY <2>1 DEF Again
  <2>3. s.attempt + 1 < Attempts
    BY <1>1, <1>3, <1>8
  <2> QED BY <1>8, <2>2, <2>3 DEF s
<1> QED BY <1>4, <1>5, <1>6, <1>7, <1>8

\* An attempt executes the order at most once, and the next attempt counts it.
BoundInv ==
  \A c \in Market :
    /\ send[c].attempt < Attempts
    /\ job[c] # "done" => executed[c] <= send[c].attempt
    /\ executed[c] <= Attempts

LEMMA BoundStep == IInv /\ BoundInv /\ [Next]_vars => BoundInv'
<1> SUFFICES ASSUME IInv, BoundInv, [Next]_vars, NEW c \in Market
             PROVE  /\ send'[c].attempt < Attempts
                    /\ job'[c] # "done" => executed'[c] <= send'[c].attempt
                    /\ executed'[c] <= Attempts
  BY DEF BoundInv
<1>1. /\ send[c].attempt \in Nat /\ executed[c] \in Nat /\ Attempts \in Nat
      /\ job[c] = "native" => job[c] # "done"
  BY SizesAssumption DEF IInv, TypeOK, Sends, Calls, SizesAssumption
<1>2. /\ send[c].attempt < Attempts
      /\ job[c] # "done" => executed[c] <= send[c].attempt
      /\ executed[c] <= Attempts
  BY DEF BoundInv
<1>3. CASE NotSent(c)
  BY <1>2, <1>3 DEF NotSent
<1>4. ASSUME NEW r \in Replies, Sent(c, r)
      PROVE  /\ send'[c].attempt < Attempts
             /\ job'[c] # "done" => executed'[c] <= send'[c].attempt
             /\ executed'[c] <= Attempts
  <2>1. CASE After(c, r).result # "none"
    BY <1>1, <1>2, <1>4, <2>1, AfterMarketFact DEF Sent, IInv
  <2>2. CASE After(c, r).result = "none"
    <3>1. CASE r = "filling" /\ After(c, r).send.attempt = send[c].attempt
      BY <1>1, <1>2, <1>4, <3>1 DEF Sent, Accepted
    <3>2. CASE /\ After(c, r).send.attempt = send[c].attempt + 1
               /\ send[c].attempt + 1 < Attempts
      BY <1>1, <1>2, <1>4, <3>2 DEF Sent
    <3> QED BY <2>2, <3>1, <3>2, AfterMarketFact DEF IInv
  <2> QED BY <2>1, <2>2
<1> QED BY <1>3, <1>4, MarketMoves

\* Whatever the broker answers, send_market_order executes its order at most once
\* per attempt: max_retries is all that bounds the doubling which the run that
\* violates MarketExecutedOnce shows.
THEOREM MarketExecutionsBounded == Spec => [](\A c \in Market : executed[c] <= Attempts)
<1>1. Init => BoundInv
  BY SizesAssumption DEF Init, BoundInv, FirstSend, Calls, SizesAssumption
<1>2. BoundInv => \A c \in Market : executed[c] <= Attempts
  BY DEF BoundInv
<1> QED BY <1>1, <1>2, BoundStep, Invariance, PTL DEF Spec

-----------------------------------------------------------------------------
(* When a market order is executed at most once after all.                 *)

\* With one attempt, or with a broker that neither rejects a filling mode nor
\* loses an answer.
OneSend == Attempts = 1 \/ Replies \cap {"filling", "lost"} = {}

\* A market order that is still being sent has not been executed, and, if no
\* answer is lost, one that failed has not either.
MarketInv ==
  \A c \in Market :
    /\ Attempts = 1 \/ ~send[c].refill
    /\ job[c] # "done" => executed[c] = 0
    /\ executed[c] <= 1
    /\ "lost" \notin Replies /\ outcome[c] = "failed" => executed[c] = 0

LEMMA MarketStep ==
  ASSUME OneSend, IInv, MarketInv, [Next]_vars
  PROVE  MarketInv'
<1> DEFINE Kept(c) ==
      /\ Attempts = 1 \/ ~send'[c].refill
      /\ job'[c] # "done" => executed'[c] = 0
      /\ executed'[c] <= 1
      /\ "lost" \notin Replies /\ outcome'[c] = "failed" => executed'[c] = 0
<1> SUFFICES ASSUME NEW c \in Market PROVE Kept(c)
  BY DEF MarketInv
<1>1. /\ Attempts = 1 \/ ~send[c].refill
      /\ job[c] # "done" => executed[c] = 0
      /\ executed[c] <= 1
      /\ "lost" \notin Replies /\ outcome[c] = "failed" => executed[c] = 0
  BY DEF MarketInv
<1>2. CASE NotSent(c)
  BY <1>1, <1>2 DEF NotSent
<1>3. ASSUME NEW r \in Replies, Sent(c, r) PROVE Kept(c)
  <2> DEFINE next == After(c, r)
  <2>1. /\ send'[c] = next.send
        /\ executed'[c] = IF r \in Accepted \cup {"lost"} THEN 1 ELSE 0
        /\ job'[c] # "done" => next.result = "none"
        /\ outcome'[c] = "failed" => next.result = "failed" \/ next.result = "none"
    BY <1>1, <1>3 DEF Sent
  <2>2. CASE next.result # "none"
    <3>1. next.send = send[c] /\ (next.result = "failed" => r \notin Accepted)
      BY <2>2, AfterMarketFact DEF IInv
    <3> HIDE DEF next
    <3> QED BY <1>1, <2>1, <2>2, <3>1
  <2>3. CASE next.result = "none" /\ r = "filling"
    <3>1. Attempts = 1
      BY <2>3 DEF OneSend
    <3> HIDE DEF next
    <3> QED BY <2>1, <2>3, <3>1 DEF Accepted
  <2>4. CASE next.result = "none" /\ r # "filling"
    <3>1. /\ send[c].attempt + 1 < Attempts /\ ~next.send.refill
          /\ r \in Accepted => send[c].refill
      BY <2>4, AfterMarketFact DEF IInv
    <3>2. Attempts # 1
      BY <3>1 DEF IInv, TypeOK, Sends, Calls
    <3>3. r \notin Accepted \cup {"lost"}
      BY <1>1, <3>1, <3>2 DEF OneSend
    <3> HIDE DEF next
    <3> QED BY <2>1, <3>1, <3>3
  <2> QED BY <2>2, <2>3, <2>4
<1> QED BY <1>2, <1>3, MarketMoves

LEMMA MarketInvariance == ASSUME OneSend PROVE Spec => []MarketInv
<1>1. Init => MarketInv
  BY DEF Init, MarketInv, FirstSend, Calls
<1>2. IInv /\ MarketInv /\ [Next]_vars => MarketInv'
  BY MarketStep
<1> QED BY <1>1, <1>2, Invariance, PTL DEF Spec

\* send_market_order can execute its order twice (MarketExecutedOnce is violated
\* in a run) only because it sends again after a rejected filling mode or a lost
\* answer AND has another attempt left: without either, at most once.
THEOREM MarketOnceWithoutResends == OneSend /\ Spec => []MarketExecutedOnce
<1> SUFFICES ASSUME OneSend PROVE Spec => []MarketExecutedOnce
  OBVIOUS
<1>1. MarketInv => MarketExecutedOnce
  BY DEF MarketInv, MarketExecutedOnce
<1>2. Spec => []MarketInv
  BY MarketInvariance
<1> QED BY <1>1, <1>2, PTL

\* FAILED then means that the order was not executed, which is what giving the
\* reservation back assumes (orchestrator.py:2371-2375).
THEOREM FailedWasNotExecuted ==
  OneSend /\ "lost" \notin Replies /\ Spec
    => [](\A c \in Market : answer[c] = "failed" => executed[c] = 0)
<1> SUFFICES ASSUME OneSend, "lost" \notin Replies
             PROVE  Spec => [](\A c \in Market : answer[c] = "failed" => executed[c] = 0)
  OBVIOUS
<1>1. IInv /\ MarketInv => \A c \in Market : answer[c] = "failed" => executed[c] = 0
  BY DEF IInv, AnswerInv, MarketInv, Calls
<1>2. Spec => []MarketInv
  BY MarketInvariance
<1> QED BY <1>1, <1>2, Invariance, PTL

-----------------------------------------------------------------------------
(* BrokerCalls implements MarketOrder.                                     *)

\* The four steps of MarketOrder, for the order of call c.
Unmoved(c) == Over(c)' = Over(c) /\ (executed'[c] > 0 <=> executed[c] > 0)
Untold(c) == answer'[c] = answer[c]
Lands(c) == ~Over(c) /\ executed[c] = 0 /\ Over(c)' /\ executed'[c] > 0 /\ Untold(c)
Lapses(c) == ~Over(c) /\ Over(c)' /\ executed'[c] = executed[c] /\ Untold(c)
Told(c) ==
  /\ answer[c] = "none" /\ executed'[c] = executed[c]
  /\ \/ answer'[c] = "ok" /\ executed[c] > 0 /\ Over(c)' = Over(c)
     \/ answer'[c] \in {"failed", "refused"} /\ executed[c] = 0 /\ Over(c)'
     \/ answer'[c] = "unknown" /\ (Over(c) => Over(c)')
OrderStep(c) == (Unmoved(c) /\ Untold(c)) \/ Lands(c) \/ Lapses(c) \/ Told(c)

\* A step of another call is no step of this order.
Elsewhere(c) ==
  /\ caller'[c] = caller[c] /\ answer'[c] = answer[c]
  /\ job'[c] = job[c] /\ executed'[c] = executed[c]

LEMMA ElsewhereFact ==
  ASSUME TypeOK, NEW c \in Calls, NEW d \in Calls, c # d,
         \/ Begin(d) \/ Native(d) \/ Waits(d) \/ Guard(d) \/ Result(d)
         \/ Bump(d) \/ Start(d) \/ LockWait(d) \/ Uncount(d)
  PROVE  Elsewhere(c)
<1> USE DEF TypeOK, Elsewhere, Goto, Return, Default
<1>1. CASE Begin(d) \/ AccountRead(d) \/ Waits(d) \/ GetExecutor(d)
  BY <1>1 DEF Begin, AccountRead, Waits, DirectLock, DirectBusy, GetExecutor
<1>2. CASE DirectReply(d)
  BY <1>2 DEF DirectReply
<1>3. CASE Reply(d)
  BY <1>3 DEF Reply, Finish
<1>4. CASE Enqueue(d) \/ Result(d) \/ Bump(d)
  BY <1>4 DEF Enqueue, Result, Answered, TimeOutQueued, TimeOutRunning, Bump
<1>5. CASE Start(d) \/ LockWait(d) \/ Uncount(d)
  BY <1>5 DEF Start, LockWait, TakeLock, Busy, Finish, Uncount, ReadRelease, Release
<1> QED BY <1>1, <1>2, <1>3, <1>4, <1>5 DEF Native, Guard

LEMMA OrderStepFact ==
  ASSUME OneSend, "lost" \notin Replies, IInv, MarketInv, [Next]_vars, NEW c \in Market
  PROVE  OrderStep(c)
<1> USE DEF IInv, TypeOK, OrderStep, Unmoved, Untold, Told, Over
<1>1. c \in Calls /\ c \notin Direct /\ c \notin Scans /\ c \in Orders
  BY CallsAssumption DEF CallsAssumption, Calls, Direct, Orders
<1>2. CASE Elsewhere(c)
  BY <1>2 DEF Elsewhere
<1>3. CASE UNCHANGED vars
  BY <1>3 DEF vars
<1>4. CASE Begin(c)
  BY <1>1, <1>4 DEF Begin, Goto
<1>5. CASE AccountRead(c)
  BY <1>1, <1>5 DEF AccountRead, Goto, Return, PlaceInv, AnswerInv, SendInv, Direct
<1>6. CASE Waits(c) \/ DirectReply(c)
  BY <1>1, <1>6 DEF Waits, DirectLock, DirectBusy, DirectReply, PlaceInv
<1>7. CASE GetExecutor(c)
  BY <1>1, <1>7 DEF GetExecutor, Goto
<1>8. CASE Enqueue(c)
  BY <1>1, <1>8 DEF Enqueue, Default, DefaultAnswer, Return, Goto, PlaceInv, AnswerInv
<1>9. CASE Answered(c)
  BY <1>1, <1>9 DEF Answered, Default, DefaultAnswer, Return, Goto, PlaceInv, AnswerInv,
     SendInv, MarketInv
<1>10. CASE TimeOutQueued(c)
  BY <1>1, <1>10 DEF TimeOutQueued, Default, DefaultAnswer, Return, Goto, AnswerInv
<1>11. CASE TimeOutRunning(c)
  BY <1>1, <1>11 DEF TimeOutRunning, Goto
<1>12. CASE Bump(c)
  BY <1>1, <1>12 DEF Bump, Default, DefaultAnswer, Return, Goto, AnswerInv, CallbackInv
<1>13. CASE Start(c)
  BY <1>1, <1>13 DEF Start
<1>14. CASE TakeLock(c)
  BY <1>1, <1>14 DEF TakeLock
<1>15. CASE Busy(c)
  BY <1>1, <1>15 DEF Busy, Finish, Lapses
<1>16. CASE Reply(c)
  <2>1. /\ job[c] = "native" /\ executed[c] = 0 /\ ~Over(c) /\ Untold(c)
        /\ caller'[c] = caller[c] /\ executed'[c] \in Nat
    <3>1. executed'[c] \in Nat
      BY TypeStep, <1>1
    <3> QED BY <1>1, <1>16, <3>1 DEF Reply, MarketInv
  <2>2. job'[c] = "native" \/ job'[c] = "done"
    BY <1>1, <1>16, <2>1 DEF Reply, Finish
  <2>3. CASE job'[c] = "done"
    BY <2>1, <2>3 DEF Lands, Lapses
  <2>4. CASE job'[c] = "native"
    <3>1. executed'[c] = 0
      BY <2>4, MarketStep DEF MarketInv
    <3> QED BY <2>1, <2>4, <3>1
  <2> QED BY <2>2, <2>3, <2>4
<1>17. CASE Uncount(c)
  BY <1>1, <1>17 DEF Uncount, ReadRelease, Release
<1>18. ASSUME NEW d \in Calls,
              \/ Begin(d) \/ Native(d) \/ Waits(d) \/ Guard(d) \/ Result(d)
              \/ Bump(d) \/ Start(d) \/ LockWait(d) \/ Uncount(d)
       PROVE  Elsewhere(c) \/ d = c
  BY <1>1, <1>18, ElsewhereFact
<1> HIDE DEF IInv, TypeOK, OrderStep, Unmoved, Untold, Told, Over
<1> QED BY <1>2, <1>3, <1>4, <1>5, <1>6, <1>7, <1>8, <1>9, <1>10, <1>11, <1>12, <1>13,
           <1>14, <1>15, <1>16, <1>17, <1>18
      DEF Next, Native, Guard, Result, LockWait, Quiet

\* What the dispatchers rely on (FAILED gives the reservation back and starts no
\* cooldown) is what the time-out guard, the lock and the retry loop together
\* deliver, in every order of their steps, under the two conditions the code leaves
\* to the broker: no lost answer, and no filling mode rejected unless there is only
\* one attempt.
THEOREM MarketOrderKept == OneSend /\ "lost" \notin Replies /\ Spec => ImplementsPromise
<1> SUFFICES ASSUME OneSend, "lost" \notin Replies PROVE Spec => ImplementsPromise
  OBVIOUS
<1>1. Init => Promise!Init
  <2> SUFFICES ASSUME Init PROVE Promise!Init
    OBVIOUS
  <2>1. \A c \in Market : ~Over(c) = TRUE
    BY DEF Init, Over, Calls
  <2>2. \A c \in Market : (executed[c] > 0) = FALSE
    BY DEF Init, Calls
  <2>3. \A c \in Market : Report[answer[c]] = "nothing"
    BY DEF Init, Report, Calls
  <2> QED BY <2>1, <2>2, <2>3, Zenon DEF Promise!Init
<1>2. IInv /\ MarketInv /\ [Next]_vars => [Promise!Next]_(Promise!vars)
  <2> SUFFICES ASSUME IInv, MarketInv, [Next]_vars PROVE Promise!Next
    OBVIOUS
  <2>1. ASSUME NEW c \in Market
        PROVE  /\ OrderStep(c)
               /\ answer[c] \in Answers /\ answer'[c] \in Answers
               /\ executed[c] \in Nat /\ executed'[c] \in Nat
    BY OrderStepFact, TypeStep DEF IInv, TypeOK, Calls
  <2>2. /\ Report["none"] = "nothing" /\ Report["ok"] = "accepted"
        /\ Report["failed"] = "failed" /\ Report["refused"] = "failed"
        /\ Report["unknown"] = "unknown"
    BY DEF Report
  <2>3. ASSUME NEW c \in Market
        PROVE  \/ Promise!Unmoved(c) /\ Promise!Untold(c)
               \/ Promise!Lands(c) \/ Promise!Lapses(c) \/ Promise!Reported(c)
    <3> USE <2>1, <2>2
    <3>1. Untold(c) => Promise!Untold(c)
      BY DEF Untold, Promise!Untold
    <3>2. Unmoved(c) => Promise!Unmoved(c)
      BY DEF Unmoved, Promise!Unmoved
    <3>3. Lands(c) => Promise!Lands(c)
      <4> SUFFICES ASSUME Lands(c) PROVE Promise!Lands(c)
        OBVIOUS
      <4>1. /\ ~Over(c) /\ Over(c)' /\ Untold(c)
            /\ ~(executed[c] > 0) /\ executed'[c] > 0
        BY DEF Lands
      <4> QED BY <3>1, <4>1, Zenon DEF Promise!Lands
    <3>4. Lapses(c) => Promise!Lapses(c)
      BY <3>1 DEF Lapses, Promise!Lapses
    <3>5. Told(c) => Promise!Reported(c)
      <4> SUFFICES ASSUME Told(c) PROVE Promise!Reported(c)
        OBVIOUS
      <4> USE DEF Promise!Reported
      <4>1. /\ Report[answer[c]] = "nothing"
            /\ (executed'[c] > 0) = (executed[c] > 0)
        BY DEF Told
      <4>2. CASE answer'[c] = "ok" /\ executed[c] > 0 /\ Over(c)' = Over(c)
        <5>1. Promise!Unmoved(c)
          BY <3>2, <4>1, <4>2 DEF Unmoved
        <5> QED BY <4>1, <4>2, <5>1 DEF Promise!ReportedAccepted
      <4>3. CASE answer'[c] \in {"failed", "refused"} /\ executed[c] = 0 /\ Over(c)'
        <5>1. ~(executed[c] > 0) /\ Report[answer'[c]] = "failed"
          BY <4>3
        <5> QED BY <4>1, <4>3, <5>1 DEF Promise!ReportedFailed
      <4>4. CASE answer'[c] = "unknown" /\ (Over(c) => Over(c)')
        BY <4>1, <4>4 DEF Promise!ReportedUnknown
      <4> QED BY <4>2, <4>3, <4>4 DEF Told
    <3> QED BY <3>1, <3>2, <3>3, <3>4, <3>5 DEF OrderStep
  <2> QED BY <2>3 DEF Promise!Next
<1>3. Spec => []MarketInv
  BY MarketInvariance
<1> QED BY <1>1, <1>2, <1>3, Invariance, PTL DEF Spec, ImplementsPromise, Promise!Spec
=============================================================================
