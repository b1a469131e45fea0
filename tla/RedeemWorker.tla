---------------------------- MODULE RedeemWorker ----------------------------
(***************************************************************************)
(* The worker processes of mintcode_api/worker.py. A worker claims the     *)
(* first task that is due, takes one step on its behalf and gives it up.   *)
(*                                                                         *)
(* One database transaction runs from the claim's SELECT to the first      *)
(* commit. Under InnoDB's REPEATABLE READ the SELECT fixes the snapshot    *)
(* every later SELECT of it reads, whereas the claim's UPDATE works on the *)
(* current row, locks it, and is not visible to others before the commit.  *)
(* So a worker decides on the task as it is and on the provider state as   *)
(* it was at the SELECT. The purchase is preceded by a commit of its own:  *)
(* from there on the row is not locked, only leased.                       *)
(***************************************************************************)
EXTENDS Fivesim

CONSTANTS
    ApiKey,          \* BOOLEAN: FIVESIM_API_KEY is set
    UnknownCountry,  \* configurations whose country the SDK does not know
    InvalidProduct,  \* configurations whose operator or product is malformed
    Lifetimes,       \* how long a bought order lives; None: not told
    MaxFaults        \* crashes and database errors in a behaviour: a bound

ASSUME ConfigAssumption ==
    /\ ApiKey \in BOOLEAN
    /\ UnknownCountry \subseteq Config /\ InvalidProduct \subseteq Config
    /\ Lifetimes \subseteq Nat \union {None}
    /\ MaxFaults \in Nat

VARIABLES
    worker,   \* what each worker process has in memory
    faults    \* crashes and database errors so far

(* Where a worker is. "selected": between the claim's SELECT and its UPDATE; *)
(* "claimed", "finished", "expired": inside the claim's transaction, before  *)
(* and after the closing call to 5sim; "granted" to "failed": after the buy  *)
(* guard's commit; "rolledback", "cleaning": in run_loop's except branch.    *)
Locking == {"claimed", "finished", "expired"}
Buying == {"granted", "fallback", "bought", "failed", "rejected"}
Phase == {"idle", "selected", "rolledback", "cleaning", "down"}
           \union Locking \union Buying

WorkerState ==
    [pc : Phase, v : Voucher \union {None},
     claim : Time,                          \* utcnow() of the claim
     now : Time,                            \* utcnow() of the step after it
     st : ProviderState \union {None},      \* provider state as loaded, or bought
     cfg : Config \union {None},            \* configuration as loaded
     count : Nat,                           \* success_count as loaded
     owner : Worker \union {None}]          \* processing_owner as loaded

Idle == [pc |-> "idle", v |-> None, claim |-> 0, now |-> 0, st |-> None, cfg |-> None,
         count |-> 0, owner |-> None]

WorkerInit == worker = [w \in Worker |-> Idle] /\ faults = 0
WorkerTypeOK == worker \in [Worker -> WorkerState] /\ faults \in 0 .. MaxFaults

-----------------------------------------------------------------------------
(* Claiming a task.                                                          *)

(* The lease of a claimed task has run out. A variant that looks at no lease *)
(* and one that never sees it end stand here as faults for the checks.       *)
LapsedFromTheStart(task, t) == task.status = "PROCESSING"
LapsedNever(task, t) == FALSE
Lapsed(task, t) == task.status = "PROCESSING" /\ Due(task.until, t)

(* Which tasks are due. Faults: a delivered task is due before its expiry,   *)
(* or never.                                                                 *)
SelectableDelivered(v, t) ==
    /\ tasks[v] # None
    /\ \/ tasks[v].status \in {"PENDING", "WAITING_SMS", "CODE_READY"}
       \/ Lapsed(tasks[v], t)
    /\ sts[v] # None => sts[v].poll = None \/ Due(sts[v].poll, t)

SelectableUndelivered(v, t) ==
    /\ tasks[v] # None
    /\ tasks[v].status \in {"PENDING", "WAITING_SMS"} \/ Lapsed(tasks[v], t)
    /\ sts[v] # None => sts[v].poll = None \/ Due(sts[v].poll, t)

Selectable(v, t) ==
    /\ tasks[v] # None
    /\ \/ tasks[v].status \in {"PENDING", "WAITING_SMS"}
       \/ Lapsed(tasks[v], t)
       \/ tasks[v].status = "CODE_READY" /\ sts[v] # None /\ Due(sts[v].expires, t)
    /\ sts[v] # None => sts[v].poll = None \/ Due(sts[v].poll, t)

(* The condition of the claim's UPDATE; fault: the id alone.                 *)
ClaimableAlways(task, t) == TRUE
Claimable(task, t) ==
    \/ task.status \in {"PENDING", "WAITING_SMS", "CODE_READY"}
    \/ Lapsed(task, t)

(* The SELECT of the claim, and with it the snapshot. The task's id, the     *)
(* provider state and the configuration are read from it later.              *)
ClaimSelect(w, v) ==
    /\ worker[w].pc = "idle"
    /\ Selectable(v, now)
    /\ \A u \in Voucher : Selectable(u, now) => tasks[v].id <= tasks[u].id
    /\ worker' = [worker EXCEPT ![w] =
         [Idle EXCEPT !.pc = "selected", !.v = v, !.claim = now, !.st = sts[v],
                      !.cfg = config,
                      !.count = IF config = None THEN 0 ELSE successes[config]]]
    /\ UNCHANGED <<store, orders, faults>>

(* The UPDATE of the claim waits for the row lock and then tests the current *)
(* row. When it matches nothing the loop repeats the SELECT on the same      *)
(* snapshot, with the row locked, so all five rounds miss.                   *)
ClaimUpdate(w) ==
    LET v == worker[w].v IN
    /\ worker[w].pc = "selected"
    /\ lock[v] = None
    /\ IF Claimable(tasks[v], worker[w].claim)
         THEN /\ worker' = [worker EXCEPT ![w].pc = "claimed", ![w].now = now,
                                          ![w].owner = w]
              /\ lock' = [lock EXCEPT ![v] = w]
         ELSE /\ worker' = [worker EXCEPT ![w] = Idle]
              /\ UNCHANGED lock
    /\ UNCHANGED <<now, config, successes, tasks, sts, grants, orders, faults>>

-----------------------------------------------------------------------------
(* Ending a transaction.                                                     *)

(* The end of the lease a claim takes; fault: it takes none.                 *)
NoLease(w) == None
LeaseUntil(w) == Later(worker[w].claim, Lease)

(* The provider state a worker's UPDATE changes, or the one it inserts. The  *)
(* ORM writes changed columns only, so the others keep their current value.  *)
Current(w) ==
    IF worker[w].st = None THEN FreshState(worker[w].v) ELSE sts[worker[w].v]

(* The commit writes the task row, the provider state and frees the lock.    *)
Commit(w, task, st) ==
    LET v == worker[w].v IN
    /\ tasks' = [tasks EXCEPT ![v] = task]
    /\ sts' = [sts EXCEPT ![v] = st]
    /\ lock' = [lock EXCEPT ![v] = None]
    /\ UNCHANGED <<now, config>>

(* _release_with_status: owner and lease are cleared only when the task, as  *)
(* loaded, had them.                                                         *)
Released(w, status) ==
    LET task == [tasks[worker[w].v] EXCEPT !.status = status]
    IN  IF worker[w].owner = None THEN task
        ELSE [task EXCEPT !.owner = None, !.until = None]

(* Any database error undoes the transaction; run_loop then goes on with its *)
(* except branch, in a session of its own.                                   *)
Rollback(w) ==
    LET v == worker[w].v IN
    /\ worker' = [worker EXCEPT ![w] = [Idle EXCEPT !.pc = "rolledback", !.v = v]]
    /\ lock' = [lock EXCEPT ![v] = IF @ = w THEN None ELSE @]
    /\ UNCHANGED <<now, config, successes, tasks, sts, grants>>

(* The end of a step: write and go idle, or, when somebody else has inserted *)
(* the provider state meanwhile, fail on it and roll back.                   *)
Close(w, status, st) ==
    LET v == worker[w].v IN
    \/ /\ NoClash(worker[w].st, v)
       /\ Commit(w, Released(w, status), st)
       /\ worker' = [worker EXCEPT ![w] = Idle]
       /\ UNCHANGED <<successes, grants>>
    \/ ~NoClash(worker[w].st, v) /\ Rollback(w)

-----------------------------------------------------------------------------
(* The claimed task. The tests are those of _process_one in its order; the   *)
(* branches on CANCELED, DONE and CODE_READY are dead: the claim has set the *)
(* status to PROCESSING.                                                     *)

Serviceable(w) == worker[w].cfg # None /\ ApiKey
OrderOf(w) == IF worker[w].st = None THEN None ELSE worker[w].st.order

(* No configuration, or no API key: the task fails, with its lease left on.  *)
Unserviceable(w) ==
    LET v == worker[w].v IN
    /\ worker[w].pc = "claimed" /\ ~Serviceable(w)
    /\ \/ /\ NoClash(worker[w].st, v)
          /\ Commit(w, [tasks[v] EXCEPT !.status = "FAILED", !.owner = w,
                                        !.until = LeaseUntil(w)], Current(w))
          /\ worker' = [worker EXCEPT ![w] = Idle]
          /\ UNCHANGED <<successes, grants>>
       \/ ~NoClash(worker[w].st, v) /\ Rollback(w)
    /\ UNCHANGED <<orders, faults>>

CodeExpired(w) ==
    /\ tasks[worker[w].v].code # None
    /\ OrderOf(w) # None
    /\ Due(worker[w].st.expires, worker[w].now)

(* The code was delivered and the order's time is up: FINISH it, then DONE.  *)
FinishCall(w) ==
    /\ worker[w].pc = "claimed" /\ Serviceable(w) /\ CodeExpired(w)
    /\ TryFinish(OrderOf(w))
    /\ worker' = [worker EXCEPT ![w].pc = "finished"]
    /\ UNCHANGED <<store, faults>>

FinishCommit(w) ==
    LET v == worker[w].v IN
    /\ worker[w].pc = "finished"
    /\ Commit(w, Released(w, "DONE"), sts[v])
    /\ worker' = [worker EXCEPT ![w] = Idle]
    /\ UNCHANGED <<successes, grants, orders, faults>>

(* No code and no time left; fault: nobody looks at the time.                *)
OverdueNever(w) == FALSE
Overdue(w) ==
    LET st == worker[w].st IN
    /\ ~CodeExpired(w) /\ OrderOf(w) # None
    /\ Due(IF st.expires # None THEN st.expires ELSE Later(st.created, Wait),
           worker[w].now)

(* CANCEL the order, then FAILED.                           *)
ExpireCall(w) ==
    /\ worker[w].pc = "claimed" /\ Serviceable(w) /\ Overdue(w)
    /\ TryCancel(OrderOf(w))
    /\ worker' = [worker EXCEPT ![w].pc = "expired"]
    /\ UNCHANGED <<store, faults>>

ExpireCommit(w) ==
    /\ worker[w].pc = "expired"
    /\ Close(w, "FAILED", Current(w))
    /\ UNCHANGED <<orders, faults>>

-----------------------------------------------------------------------------
(* Buying a number.                                                          *)

Unbought(w) == worker[w].pc = "claimed" /\ Serviceable(w) /\ OrderOf(w) = None
Attempts(w) == IF worker[w].st = None THEN 0 ELSE worker[w].st.attempts

(* An earlier purchase may still be under way; fault: nobody looks.          *)
InFlightNever(w) == FALSE
InFlight(w) ==
    /\ worker[w].st # None
    /\ worker[w].st.inflight # None
    /\ worker[w].now < worker[w].st.inflight

(* A purchase may be tried once more; fault: without end.                    *)
MayBuyAlways(w) == TRUE
MayBuy(w) == Attempts(w) < MaxBuyAttempts

(* The provider state the guard leaves; fault: the attempt is not counted.   *)
GuardedUncounted(w) ==
    [Current(w) EXCEPT !.inflight = Later(worker[w].now, Inflight)]
Guarded(w) == [Current(w) EXCEPT !.attempts = Attempts(w) + 1,
                                 !.inflight = Later(worker[w].now, Inflight)]

AttemptsExhausted(w) ==
    /\ Unbought(w) /\ ~MayBuy(w)
    /\ Close(w, "FAILED", Current(w))
    /\ UNCHANGED <<orders, faults>>

(* Look again one unit later.                                                *)
InflightWait(w) ==
    /\ Unbought(w) /\ MayBuy(w) /\ InFlight(w)
    /\ Close(w, "WAITING_SMS",
             [Current(w) EXCEPT !.poll = Later(worker[w].now, 1)])
    /\ UNCHANGED <<orders, faults>>

(* The buy guard: the attempt and its flight time are committed before the   *)
(* purchase, and with them the claim becomes visible and the lock is freed.  *)
GuardCommit(w) ==
    LET v == worker[w].v IN
    /\ Unbought(w) /\ MayBuy(w) /\ ~InFlight(w)
    /\ \/ /\ NoClash(worker[w].st, v)
          /\ Commit(w, [tasks[v] EXCEPT !.status = "PROCESSING", !.owner = w,
                                        !.until = LeaseUntil(w)], Guarded(w))
          /\ worker' = [worker EXCEPT ![w].pc = "granted", ![w].st = Guarded(w)]
          /\ grants' = [grants EXCEPT ![v] = @ + 1]
          /\ UNCHANGED successes
       \/ ~NoClash(worker[w].st, v) /\ Rollback(w)
    /\ UNCHANGED <<orders, faults>>

(* The configuration is read again after the commit, and with it starts the  *)
(* snapshot from which the task will be. A country the SDK does not know     *)
(* raises, a malformed operator or product fails the task.                   *)
RefuseConfig(w) ==
    /\ worker[w].pc = "granted"
    /\ \E pc \in {"failed", "rejected"} :
         /\ IF pc = "failed" THEN config \in UnknownCountry
                            ELSE config \in InvalidProduct \ UnknownCountry
         /\ worker' = [worker EXCEPT ![w].pc = pc,
                                      ![w].owner = tasks[worker[w].v].owner]
    /\ UNCHANGED <<store, orders, faults>>

(* One request to buy: it succeeds, or it fails, with or without effect.     *)
(* owner is the task's, as the session knows it.                             *)
Purchase(w, owner, onError) ==
    LET Lost == worker' = [worker EXCEPT ![w].pc = onError, ![w].owner = owner]
        Got(o, l) == worker' = [worker EXCEPT ![w].pc = "bought",
                       ![w].owner = owner, ![w].st.order = o,
                       ![w].st.expires = IF l = None THEN None ELSE Later(now, l)]
    IN
    \/ \E o \in Stock, l \in Lifetimes :
         Buy(o, worker[w].v, worker[w].st.round) /\ (Got(o, l) \/ Lost)
    \/ UNCHANGED orders /\ Lost

(* buy_number of the SDK.                                                    *)
BuyNumber(w) ==
    /\ worker[w].pc = "granted"
    /\ config \notin UnknownCountry \union InvalidProduct
    /\ Purchase(w, tasks[worker[w].v].owner, "fallback")
    /\ UNCHANGED <<store, faults>>

(* Whatever went wrong in it, the same order is placed again by a plain GET; *)
(* fault: and again until it succeeds.                                       *)
BuyFallbackForever(w) ==
    /\ worker[w].pc = "fallback"
    /\ Purchase(w, worker[w].owner, "fallback")
    /\ UNCHANGED <<store, faults>>

BuyFallback(w) ==
    /\ worker[w].pc = "fallback"
    /\ Purchase(w, worker[w].owner, "failed")
    /\ UNCHANGED <<store, faults>>

(* The row is written as after a claim, whatever happened to it meanwhile.   *)
BoughtCommit(w) ==
    /\ worker[w].pc = "bought" /\ lock[worker[w].v] = None
    /\ Close(w, "WAITING_SMS",
             [Current(w) EXCEPT !.order = worker[w].st.order,
                !.expires = worker[w].st.expires,
                !.poll = Later(worker[w].now, Poll), !.inflight = None])
    /\ UNCHANGED <<orders, faults>>

(* The except branch of _process_one; the flight time of the guard stays.    *)
BuyFailedCommit(w) ==
    /\ worker[w].pc = "failed" /\ lock[worker[w].v] = None
    /\ Close(w, "WAITING_SMS",
             [Current(w) EXCEPT !.poll = Later(worker[w].now, Backoff)])
    /\ UNCHANGED <<orders, faults>>

RejectCommit(w) ==
    /\ worker[w].pc = "rejected" /\ lock[worker[w].v] = None
    /\ Close(w, "FAILED", Current(w))
    /\ UNCHANGED <<orders, faults>>

-----------------------------------------------------------------------------
(* Looking for the SMS. CHECK changes nothing upstream and the row stays     *)
(* locked till the commit, so the call and the commit are one step.          *)

Waiting(w) ==
    /\ worker[w].pc = "claimed" /\ Serviceable(w)
    /\ OrderOf(w) # None /\ ~CodeExpired(w) /\ ~Overdue(w)

(* 5sim's answer has a code; fault: an order alone passes for one.           *)
AnsweredAnyway(w) == Bought(OrderOf(w))
Answered(w) == HasSms(OrderOf(w))

(* The code goes into the task; the first one of a task also counts for the  *)
(* configuration, from the count as loaded. Inserting the count's row fails  *)
(* when another worker has inserted it meanwhile, and takes the code with    *)
(* it. The provider state is written only when 5sim's answer changed it.     *)
DeliverCode(w) ==
    LET v == worker[w].v
        c == worker[w].cfg
        first == tasks[v].code = None
        clash == first /\ worker[w].count = 0 /\ successes[c] # 0
    IN
    /\ Waiting(w) /\ Answered(w)
    /\ \/ /\ ~clash
          /\ Commit(w, [Released(w, "CODE_READY") EXCEPT !.code = OrderOf(w)], sts[v])
          /\ successes' = IF first
               THEN [successes EXCEPT ![c] = worker[w].count + 1] ELSE successes
          /\ worker' = [worker EXCEPT ![w] = Idle]
          /\ UNCHANGED grants
       \/ clash /\ Rollback(w)
    /\ UNCHANGED <<orders, faults>>

OrderLost(w) ==
    /\ Waiting(w) /\ Dead(OrderOf(w))
    /\ Close(w, "FAILED", Current(w))
    /\ UNCHANGED <<orders, faults>>

NoSmsYet(w) ==
    /\ Waiting(w) /\ ~Answered(w) /\ ~Dead(OrderOf(w))
    /\ Close(w, "WAITING_SMS",
             [Current(w) EXCEPT !.poll = Later(worker[w].now, Poll)])
    /\ UNCHANGED <<orders, faults>>

CheckFails(w) ==
    /\ Waiting(w)
    /\ Close(w, "WAITING_SMS",
             [Current(w) EXCEPT !.poll = Later(worker[w].now, Backoff)])
    /\ UNCHANGED <<orders, faults>>

-----------------------------------------------------------------------------
(* Errors, crashes, and run_loop's except branch.                            *)

DbError(w) ==
    /\ faults < MaxFaults
    /\ worker[w].pc \in Locking \union {"granted", "bought", "failed", "rejected"}
    /\ Rollback(w)
    /\ faults' = faults + 1
    /\ UNCHANGED orders

(* The process dies; the server drops its connection, and with it the lock.  *)
Crash(w) ==
    /\ faults < MaxFaults
    /\ worker[w].pc # "down"
    /\ worker' = [worker EXCEPT ![w] = [Idle EXCEPT !.pc = "down"]]
    /\ lock' = [v \in Voucher |-> IF lock[v] = w THEN None ELSE lock[v]]
    /\ faults' = faults + 1
    /\ UNCHANGED <<now, config, successes, tasks, sts, grants, orders>>

Restart(w) ==
    /\ worker[w].pc = "down"
    /\ worker' = [worker EXCEPT ![w] = Idle]
    /\ UNCHANGED <<store, orders, faults>>

CleanupRead(w) ==
    LET v == worker[w].v IN
    /\ worker[w].pc = "rolledback"
    /\ worker' = [worker EXCEPT ![w] =
         IF tasks[v].status \in {"PENDING", "PROCESSING"}
           THEN [@ EXCEPT !.pc = "cleaning", !.owner = tasks[v].owner] ELSE Idle]
    /\ UNCHANGED <<store, orders, faults>>

CleanupCommit(w) ==
    LET v == worker[w].v IN
    /\ worker[w].pc = "cleaning" /\ lock[v] = None
    /\ tasks' = [tasks EXCEPT ![v] = Released(w, "FAILED")]
    /\ worker' = [worker EXCEPT ![w] = Idle]
    /\ UNCHANGED <<now, config, successes, sts, lock, grants, orders, faults>>

-----------------------------------------------------------------------------
(* What a worker does by itself, short of failing.                           *)
WorkerStep(w) ==
    \/ \E v \in Voucher : ClaimSelect(w, v)
    \/ ClaimUpdate(w)
    \/ Unserviceable(w)
    \/ FinishCall(w) \/ FinishCommit(w)
    \/ ExpireCall(w) \/ ExpireCommit(w)
    \/ AttemptsExhausted(w) \/ InflightWait(w) \/ GuardCommit(w)
    \/ RefuseConfig(w) \/ BuyNumber(w) \/ BuyFallback(w)
    \/ BoughtCommit(w) \/ BuyFailedCommit(w) \/ RejectCommit(w)
    \/ DeliverCode(w) \/ OrderLost(w) \/ NoSmsYet(w) \/ CheckFails(w)
    \/ CleanupRead(w) \/ CleanupCommit(w)
=============================================================================
