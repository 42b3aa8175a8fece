----------------------------- MODULE BrokerCalls -----------------------------
(***************************************************************************)
(* How a call reaches the broker.                                          *)
(*                                                                         *)
(* MT5Client sends every order through three mechanisms, modelled here     *)
(* together because each is only correct in the presence of the others:    *)
(*                                                                         *)
(*   TimeoutGuard.run_sync   runs the call in a worker of a bounded pool,  *)
(*                           waits at most five seconds and then answers   *)
(*                           with a default.  A worker that is inside a    *)
(*                           native call cannot be stopped: it is counted  *)
(*                           as stuck, and a pool whose workers are all    *)
(*                           stuck is replaced;                            *)
(*   TrackedRLock            one process-wide lock held across the native  *)
(*                           call.  A waiter gives up after ten seconds;   *)
(*   the retry loops         that resend an order whose filling mode or    *)
(*                           price the broker rejected.                    *)
(*                                                                         *)
(* Every call is made once.  A native call may take for ever.              *)
(***************************************************************************)
EXTENDS Naturals, FiniteSets

CONSTANTS
  Market,      \* send_market_order calls
  Pending,     \* place_pending_order calls
  Closing,     \* close_position calls
  Scans,       \* get_open_positions(symbol): lock held around a guarded lookup
  Cancels,     \* cancel_pending_order calls: lock and send in the caller's thread
  Workers,     \* TimeoutGuard._max_workers
  Attempts,    \* max_retries of send_market_order
  MaxPools,    \* bound: how often the pool may be replaced
  Replies,     \* the broker's answers the run considers
  Free         \* the owner of the lock when nobody holds it

Calls == Market \cup Pending \cup Closing \cup Scans \cup Cancels
Guarded == Calls \ Cancels
Direct == Scans \cup Cancels
Orders == Calls \ Scans

\* A thread is the caller of a call or the pool worker that runs its job.
CallerOf(c) == <<"caller", c>>
WorkerOf(c) == <<"worker", c>>
Threads == {CallerOf(c) : c \in Calls} \cup {WorkerOf(c) : c \in Calls}

\* "filling" is retcode 10030 or 10031, "requote" is 10004, "rejected" any
\* other retcode, or None for an order the broker never saw; "lost" is None
\* for an order that the broker did execute.
AllReplies == {"done", "placed", "filling", "requote", "rejected", "lost"}
Accepted == {"done", "placed"}

ASSUME CallsAssumption ==
  /\ Market \cap (Pending \cup Closing \cup Scans \cup Cancels) = {}
  /\ Pending \cap (Closing \cup Scans \cup Cancels) = {}
  /\ Closing \cap (Scans \cup Cancels) = {}
  /\ Scans \cap Cancels = {}
ASSUME SizesAssumption ==
  Workers \in Nat \ {0} /\ Attempts \in Nat \ {0} /\ MaxPools \in Nat
ASSUME RepliesAssumption == Replies \subseteq AllReplies
ASSUME FreeAssumption == Free \notin Threads

VARIABLES
  caller,    \* where the calling thread is
  answer,    \* what the call returned
  job,       \* where the submitted function is
  outcome,   \* what the submitted function returned, "busy" if it raised
  send,      \* the retry loop: attempt, filling mode, inside a refill
  executed,  \* how many times the broker accepted the order
  lock,      \* the thread that owns the broker lock
  pool,      \* the current pool: pools below it are shut down
  poolOf,    \* the pool a call got from _get_executor
  stuck,     \* per pool, _jarvis_stuck
  callback,  \* the done-callback of an abandoned job
  reg,       \* the _jarvis_stuck value a thread has read and not yet written
  raced      \* history: pools whose counter lost an update

stuckVars == <<stuck, callback, reg, raced>>
poolVars == <<pool, poolOf>>
vars == <<caller, answer, job, outcome, send, executed, lock,
          poolVars, stuckVars>>

Pools == 0..MaxPools
CallerStates == {"idle", "check", "lock", "submit", "enqueue", "waiting",
                 "bump", "native", "done"}
JobStates == {"none", "queued", "wants", "native", "done", "cancelled"}
Answers == {"none", "ok", "failed", "unknown", "refused"}
Sends == [attempt : 0..(Attempts + 1), filling : 0..2, refill : BOOLEAN]

FirstSend == [attempt |-> 0, filling |-> 0, refill |-> FALSE]

TypeOK ==
  /\ caller \in [Calls -> CallerStates]
  /\ answer \in [Calls -> Answers]
  /\ job \in [Calls -> JobStates]
  /\ outcome \in [Calls -> {"none", "ok", "failed", "busy"}]
  /\ send \in [Calls -> Sends]
  /\ executed \in [Calls -> Nat]
  /\ lock \in Threads \cup {Free}
  /\ pool \in Pools
  /\ poolOf \in [Calls -> Pools]
  /\ stuck \in [Pools -> Nat]
  /\ callback \in [Calls -> {"none", "registered", "due", "reading", "over"}]
  /\ reg \in [Calls -> Nat]
  /\ raced \in SUBSET Pools

Init ==
  /\ caller = [c \in Calls |-> "idle"]
  /\ answer = [c \in Calls |-> "none"]
  /\ job = [c \in Calls |-> "none"]
  /\ outcome = [c \in Calls |-> "none"]
  /\ send = [c \in Calls |-> FirstSend]
  /\ executed = [c \in Calls |-> 0]
  /\ lock = Free
  /\ pool = 0
  /\ poolOf = [c \in Calls |-> 0]
  /\ stuck = [p \in Pools |-> 0]
  /\ callback = [c \in Calls |-> "none"]
  /\ reg = [c \in Calls |-> 0]
  /\ raced = {}

-----------------------------------------------------------------------------
(* The calling thread, before the guard.                                   *)

Goto(c, where) == caller' = [caller EXCEPT ![c] = where]
Return(c, a) == Goto(c, "done") /\ answer' = [answer EXCEPT ![c] = a]

\* Mutant: a market order that timed out is reported as failed.
DefaultAnswer_Failed(c) == "failed"

\* The default of run_sync: a market order that timed out is indeterminate,
\* every other call answers FAILED.  A scan's lookup falls back to the name it
\* was given and the scan goes on to the native call.
DefaultAnswer(c) == IF c \in Market THEN "unknown" ELSE "failed"
Default(c) ==
  IF c \in Scans THEN Goto(c, "native") /\ UNCHANGED answer
  ELSE Return(c, DefaultAnswer(c))

\* An opening order first asks for the account, without lock or timeout; a
\* close goes straight to the guard; scans and cancels take the lock.
Begin(c) ==
  /\ caller[c] = "idle"
  /\ Goto(c, IF c \in Market \cup Pending THEN "check"
             ELSE IF c \in Closing THEN "submit" ELSE "lock")
  /\ UNCHANGED <<answer, job, outcome, send, executed, lock, poolVars, stuckVars>>

AccountRead(c) ==
  /\ caller[c] = "check"
  /\ \/ Goto(c, "submit") /\ UNCHANGED answer
     \/ Return(c, "refused")                  \* demo client, real account
  /\ UNCHANGED <<job, outcome, send, executed, lock, poolVars, stuckVars>>

\* `with self._lock` in the caller's thread.  A scan whose symbol is cached
\* skips the lookup.
DirectLock(c) ==
  /\ caller[c] = "lock"
  /\ lock = Free
  /\ lock' = CallerOf(c)
  /\ \/ Goto(c, "native")
     \/ c \in Scans /\ Goto(c, "submit")
  /\ UNCHANGED <<answer, job, outcome, send, executed, poolVars, stuckVars>>

\* Mutant: acquire without a timeout, in the caller or in a worker.
Acquire_NoTimeout(c) == FALSE /\ c \in Calls /\ UNCHANGED vars

\* acquire gives up and raises BrokerLockBusy.
DirectBusy(c) ==
  /\ caller[c] = "lock"
  /\ lock # Free
  /\ Return(c, "failed")
  /\ UNCHANGED <<job, outcome, send, executed, lock, poolVars, stuckVars>>

\* The native call made by the caller itself comes back.
DirectReply(c) ==
  /\ caller[c] = "native"
  /\ lock' = Free
  /\ \/ /\ c \in Scans
        /\ Return(c, "ok")
        /\ UNCHANGED executed
     \/ /\ c \in Cancels
        /\ \E r \in Replies :
             /\ Return(c, IF r \in Accepted THEN "ok" ELSE "failed")
             /\ executed' = [executed EXCEPT ![c] =
                               IF r \in Accepted \cup {"lost"} THEN @ + 1 ELSE @]
  /\ UNCHANGED <<job, outcome, send, poolVars, stuckVars>>

-----------------------------------------------------------------------------
(* TimeoutGuard.run_sync, in the calling thread.                           *)

Wedged == stuck[pool] >= Workers

\* _get_executor, under the guard's own lock.
GetExecutor(c) ==
  /\ caller[c] = "submit"
  /\ \/ ~Wedged /\ UNCHANGED pool
     \/ Wedged /\ pool < MaxPools /\ pool' = pool + 1
  /\ poolOf' = [poolOf EXCEPT ![c] = pool']
  /\ Goto(c, "enqueue")
  /\ UNCHANGED <<answer, job, outcome, send, executed, lock, stuckVars>>

\* submit: refused by a pool that another thread has shut down meanwhile.
Enqueue(c) ==
  /\ caller[c] = "enqueue"
  /\ IF poolOf[c] < pool
       THEN Default(c) /\ UNCHANGED job
       ELSE /\ Goto(c, "waiting")
            /\ job' = [job EXCEPT ![c] = "queued"]
            /\ UNCHANGED answer
  /\ UNCHANGED <<outcome, send, executed, lock, poolVars, stuckVars>>

\* future.result returns in time.  The function's exception is the default.
Answered(c) ==
  /\ caller[c] = "waiting"
  /\ job[c] = "done"
  /\ IF c \in Scans \/ outcome[c] = "busy" THEN Default(c)
     ELSE Return(c, outcome[c])
  /\ UNCHANGED <<job, outcome, send, executed, lock, poolVars, stuckVars>>

\* future.result times out and future.cancel() succeeds: the job never runs.
TimeOutQueued(c) ==
  /\ caller[c] = "waiting"
  /\ job[c] = "queued"
  /\ job' = [job EXCEPT ![c] = "cancelled"]
  /\ Default(c)
  /\ UNCHANGED <<outcome, send, executed, lock, poolVars, stuckVars>>

\* It times out and cannot be cancelled: _jarvis_stuck is read ...
TimeOutRunning(c) ==
  /\ caller[c] = "waiting"
  /\ job[c] \in {"wants", "native"}
  /\ reg' = [reg EXCEPT ![c] = stuck[poolOf[c]]]
  /\ Goto(c, "bump")
  /\ UNCHANGED <<answer, job, outcome, send, executed, lock, poolVars,
                 stuck, callback, raced>>

\* What a non-atomic update of a counter leaves, and whether one was lost.
Write(p, c, new) ==
  /\ stuck' = [stuck EXCEPT ![p] = new]
  /\ raced' = IF stuck[p] # reg[c] THEN raced \cup {p} ELSE raced
  /\ reg' = [reg EXCEPT ![c] = 0]

\* Mutant: a future that has finished meanwhile never runs its callback.
Bump_MissesFinished(c) ==
  /\ caller[c] = "bump"
  /\ Write(poolOf[c], c, reg[c] + 1)
  /\ callback' = [callback EXCEPT ![c] = "registered"]
  /\ Default(c)
  /\ UNCHANGED <<job, outcome, send, executed, lock, poolVars>>

\* ... and written back, one higher, with no lock held.  add_done_callback then
\* runs the callback at once if the future has finished meanwhile.
Bump(c) ==
  /\ caller[c] = "bump"
  /\ Write(poolOf[c], c, reg[c] + 1)
  /\ callback' = [callback EXCEPT ![c] =
                    IF job[c] = "done" THEN "due" ELSE "registered"]
  /\ Default(c)
  /\ UNCHANGED <<job, outcome, send, executed, lock, poolVars>>

-----------------------------------------------------------------------------
(* The pool's workers.                                                     *)

Running(p) == {c \in Calls : poolOf[c] = p /\ job[c] \in {"wants", "native"}}

\* A free worker takes a queued job; the order of the queue is left open.
Start(c) ==
  /\ job[c] = "queued"
  /\ Cardinality(Running(poolOf[c])) < Workers
  /\ job' = [job EXCEPT ![c] = "wants"]
  /\ UNCHANGED <<caller, answer, outcome, send, executed, lock, poolVars,
                 stuckVars>>

\* The function has returned: a registered callback is now due.
Finish(c, result) ==
  /\ job' = [job EXCEPT ![c] = "done"]
  /\ outcome' = [outcome EXCEPT ![c] = result]
  /\ callback' = [callback EXCEPT ![c] = IF @ = "registered" THEN "due" ELSE @]

TakeLock(c) ==
  /\ job[c] = "wants"
  /\ lock = Free
  /\ lock' = WorkerOf(c)
  /\ job' = [job EXCEPT ![c] = "native"]
  /\ UNCHANGED <<caller, answer, outcome, send, executed, poolVars, stuckVars>>

\* Mutant: the result of the timed acquire is not looked at.
Busy_Ignored(c) ==
  /\ job[c] = "wants"
  /\ lock # Free
  /\ caller[c] # "waiting"
  /\ job' = [job EXCEPT ![c] = "native"]
  /\ UNCHANGED <<caller, answer, outcome, send, executed, lock, poolVars, stuckVars>>

\* The ten-second lock wait outlasts the five seconds the caller waits, so a
\* worker gives up only after its caller did.
Busy(c) ==
  /\ job[c] = "wants"
  /\ lock # Free
  /\ caller[c] # "waiting"
  /\ Finish(c, "busy")
  /\ UNCHANGED <<caller, answer, send, executed, lock, poolVars, stuck, reg, raced>>

(* The retry loops.  Each says what follows reply r: another send, or the  *)
(* result of the call.                                                     *)
Again(s) == [send |-> s, result |-> "none"]
Stop(s, ok) == [send |-> s, result |-> IF ok THEN "ok" ELSE "failed"]

\* send_market_order: an accepted first send leaves the loop.  A rejected
\* filling mode is retried inside the attempt, as FOK and then as RETURN, and
\* the attempt's last reply is looked at only after the last attempt.
AfterMarket(s, r) ==
  LET over == s.attempt + 1 >= Attempts IN
  IF ~s.refill /\ r \in Accepted THEN Stop(s, TRUE)
  ELSE IF r = "filling" /\ ~s.refill
    THEN Again([attempt |-> s.attempt, filling |-> 1, refill |-> TRUE])
  ELSE IF r = "filling" /\ s.filling = 1
    THEN Again([s EXCEPT !.filling = 2])
  ELSE IF over THEN Stop(s, r \in Accepted)
  ELSE Again([attempt |-> s.attempt + 1, filling |-> s.filling, refill |-> FALSE])

AfterPending(s, r) ==
  IF r = "filling" /\ s.filling < 2 THEN Again([s EXCEPT !.filling = @ + 1])
  ELSE Stop(s, r \in Accepted)

\* Mutant: the close is sent again after any failure, an unanswered send included.
AfterClosing_RetryAll(s, r) ==
  IF r # "done" /\ s.attempt < 2 THEN Again([s EXCEPT !.attempt = @ + 1])
  ELSE Stop(s, r = "done")

\* Mutant: a close whose requotes are used up counts as closed.
AfterClosing_RequoteIsClosed(s, r) ==
  IF r = "requote" /\ s.attempt < 2 THEN Again([s EXCEPT !.attempt = @ + 1])
  ELSE Stop(s, r \in {"done", "requote"})

\* close_position: the filling modes first, then at most two requotes.
AfterClosing(s, r) ==
  IF r = "filling" /\ s.attempt = 0 /\ s.filling < 2
    THEN Again([s EXCEPT !.filling = @ + 1])
  ELSE IF r = "requote" /\ s.attempt < 2
    THEN Again([s EXCEPT !.attempt = @ + 1])
  ELSE Stop(s, r = "done")

After(c, r) ==
  CASE c \in Market  -> AfterMarket(send[c], r)
    [] c \in Pending -> AfterPending(send[c], r)
    [] c \in Closing -> AfterClosing(send[c], r)

\* The native call made by a worker comes back.
Reply(c) ==
  /\ job[c] = "native"
  /\ \/ /\ c \in Scans
        /\ Finish(c, "ok")
        /\ lock' = Free
        /\ UNCHANGED <<send, executed>>
     \/ /\ c \in Orders
        /\ send[c] = FirstSend             \* no tick, or nothing to close
        /\ Finish(c, "failed")
        /\ lock' = Free
        /\ UNCHANGED <<send, executed>>
     \/ /\ c \in Orders
        /\ \E r \in Replies :
             LET next == After(c, r) IN
             /\ send' = [send EXCEPT ![c] = next.send]
             /\ executed' = [executed EXCEPT ![c] =
                               IF r \in Accepted \cup {"lost"} THEN @ + 1 ELSE @]
             /\ IF next.result = "none" THEN UNCHANGED <<job, outcome, callback, lock>>
                ELSE Finish(c, next.result) /\ lock' = Free
  /\ UNCHANGED <<caller, answer, poolVars, stuck, reg, raced>>

\* _release: the worker that was written off has come back.
ReadRelease(c) ==
  /\ callback[c] = "due"
  /\ reg' = [reg EXCEPT ![c] = stuck[poolOf[c]]]
  /\ callback' = [callback EXCEPT ![c] = "reading"]
  /\ UNCHANGED <<caller, answer, job, outcome, send, executed, lock, poolVars,
                 stuck, raced>>

Release(c) ==
  /\ callback[c] = "reading"
  /\ Write(poolOf[c], c, IF reg[c] > 0 THEN reg[c] - 1 ELSE 0)
  /\ callback' = [callback EXCEPT ![c] = "over"]
  /\ UNCHANGED <<caller, answer, job, outcome, send, executed, lock, poolVars>>

-----------------------------------------------------------------------------
AllReturned ==
  /\ \A c \in Calls : caller[c] = "done"
  /\ \A c \in Calls : job[c] \in {"none", "done", "cancelled"}
  /\ \A c \in Calls : callback[c] \in {"none", "over"}
Quiet == AllReturned /\ UNCHANGED vars

\* Steps the scheduler owes a thread.
Waits(c) == DirectLock(c) \/ DirectBusy(c)
Guard(c) == GetExecutor(c) \/ Enqueue(c)
Result(c) == Answered(c) \/ TimeOutQueued(c) \/ TimeOutRunning(c)
LockWait(c) == TakeLock(c) \/ Busy(c)
Uncount(c) == ReadRelease(c) \/ Release(c)

\* Steps nobody owes: a call is made, the broker answers.
Native(c) == AccountRead(c) \/ DirectReply(c) \/ Reply(c)

Next ==
  \/ \E c \in Calls :
       \/ Begin(c) \/ Native(c) \/ Waits(c) \/ Guard(c) \/ Result(c)
       \/ Bump(c) \/ Start(c) \/ LockWait(c) \/ Uncount(c)
  \/ Quiet

Spec == Init /\ [][Next]_vars

\* Threads run, waits end; the broker owes nothing.
Fairness ==
  \A c \in Calls :
    /\ WF_vars(Waits(c)) /\ WF_vars(Guard(c)) /\ WF_vars(Result(c))
    /\ WF_vars(Bump(c)) /\ WF_vars(LockWait(c)) /\ WF_vars(Uncount(c))
FairSpec == Spec /\ Fairness
-----------------------------------------------------------------------------
(* Properties.                                                             *)

\* The bindings are not thread-safe: a thread that is inside a native call on
\* the order path owns the broker lock, whoever gave up waiting for it and
\* whichever caller was told that its call had timed out.  And no way out leaves
\* the lock behind, which would stop every later order: its owner is inside.
InNative == {WorkerOf(c) : c \in {d \in Calls : job[d] = "native"}} \cup
            {CallerOf(c) : c \in {d \in Calls : caller[d] = "native"}}
InBlock == InNative \cup
  {CallerOf(c) : c \in {d \in Scans : caller[d] \in {"submit", "enqueue", "waiting", "bump"}}}
OrdersSerialised ==
  /\ \A t \in InNative : lock = t
  /\ lock = Free \/ lock \in InBlock

\* A close, a cancellation or a resting order is executed at most once, however
\* often filling modes and requotes make the client send it again, and even
\* when the answer to a send that the broker executed is lost.
ExecutedOnce == \A c \in Orders \ Market : executed[c] <= 1

\* What a call tells its caller is true of the broker: success was accepted, and
\* BrokerLockBusy means that nothing was sent, since the lock is taken once,
\* before the first send, and kept across the retries.
AnswersAreTrue ==
  /\ \A c \in Orders : answer[c] = "ok" => executed[c] >= 1
  /\ \A c \in Calls : outcome[c] = "busy" => executed[c] = 0

\* FAILED for a market order is final: once the caller has read it, no worker
\* sends that order any more.  This is why a time-out answers UNKNOWN.
FailedIsFinal ==
  [][\A c \in Market : answer[c] = "failed" => executed'[c] = executed[c]]_vars

\* The stuck counter of a pool is the number of abandoned workers that have not
\* reported back, unless two threads have updated it at once.
Owed(p) == {c \in Calls :
              /\ poolOf[c] = p
              /\ \/ callback[c] \in {"due", "reading"}
                 \/ callback[c] = "registered" /\ job[c] # "done"}
StuckIsOwed == \A p \in Pools \ raced : stuck[p] = Cardinality(Owed(p))

\* Whatever hangs, a call that was made comes back, except while its own thread
\* is inside a native call that has no guard: the account check, a scan, a
\* cancellation.
EveryCallReturns ==
  \A c \in Calls :
    caller[c] # "idle" ~> caller[c] \in {"done", "check", "native"}

\* A worker does not wait for the lock for ever: only the thread that is inside
\* the native call stays.
WaitersLeave == \A c \in Calls : job[c] = "wants" ~> job[c] # "wants"

\* "re-send the same order and DOUBLE the position" is what the client says it
\* prevents; its own retry loop is to execute a market order at most once.
MarketExecutedOnce == \A c \in Market : executed[c] <= 1

-----------------------------------------------------------------------------
(* The market order as the dispatchers see it.                             *)

\* The job of the order has ended, or there is none and none will come.
Over(c) ==
  \/ job[c] \in {"done", "cancelled"}
  \/ job[c] = "none" /\ caller[c] = "done"

\* FILLED, PARTIAL and PLACED; BLOCKED and FAILED; UNKNOWN.  (An accepted order
\* without a volume is answered UNKNOWN, 778-783: "ok" here, which tells more.)
Report == [none |-> "nothing", ok |-> "accepted", refused |-> "failed",
           failed |-> "failed", unknown |-> "unknown"]

Promise == INSTANCE MarketOrder WITH
  Orders <- Market,
  open <- [c \in Market |-> ~Over(c)],
  landed <- [c \in Market |-> executed[c] > 0],
  told <- [c \in Market |-> Report[answer[c]]]

\* "Reporting FAILED made the caller release the risk reservation and skip the
\* cooldown" (849-853): whatever times out, waits or is retried, a market order
\* lands once or not at all, and what its caller is told of it stays true.
ImplementsPromise == Promise!Spec
=============================================================================
