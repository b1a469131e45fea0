----------------------------- MODULE RedeemApi -----------------------------
(***************************************************************************)
(* The handlers of routes_redeem.py and routes_dev.py that write a task:   *)
(* create, next, cancel, complete, and the developer API's create and      *)
(* cancel. Each reads the task in one transaction's snapshot, may call     *)
(* 5sim, and writes back what it decided on from the copy it read; only    *)
(* the commit waits for a worker's row lock. The web front end runs        *)
(* handlers in parallel: each element of Request is one in progress.       *)
(***************************************************************************)
EXTENDS RedeemWorker

CONSTANTS
    Request,     \* handlers that may be in progress at the same time
    Ops,         \* the operations the clients use
    MaxStates    \* provider states a voucher may go through: a bound

Operation == {"create", "next", "cancel", "dev_cancel", "complete"}

ASSUME ApiAssumption == Ops \subseteq Operation /\ MaxStates \in Nat \ {0}

VARIABLE request   \* what each handler in progress has read

(* "inserting", "resetting": about to commit; "calling": about to CANCEL or  *)
(* FINISH upstream before it commits the new status of target.               *)
RequestState ==
    [pc : {"idle", "inserting", "resetting", "calling", "closing"},
     v : Voucher \union {None},
     seen : Task \union {None},           \* the task as loaded
     st : ProviderState \union {None},    \* the provider state as loaded
     target : {"PENDING", "CANCELED", "DONE"}]

NoRequest == [pc |-> "idle", v |-> None, seen |-> None, st |-> None,
              target |-> "PENDING"]

ApiInit == request = [h \in Request |-> NoRequest]
ApiTypeOK == request \in [Request -> RequestState]

rest == <<now, config, successes, lock, worker, orders, faults>>

Load(h, v, pc, target) ==
    /\ request[h].pc = "idle"
    /\ request' = [request EXCEPT ![h] =
         [pc |-> pc, v |-> v, seen |-> tasks[v], st |-> sts[v], target |-> target]]
    /\ UNCHANGED <<rest, tasks, sts, grants>>

Answer(h) == request' = [request EXCEPT ![h] = NoRequest]

-----------------------------------------------------------------------------
(* A cancelled or failed task may start over, MaxStates bounding how often.  *)
Resettable(v) ==
    /\ tasks[v] # None /\ tasks[v].status \in Settled
    /\ sts[v] # None => sts[v].round < MaxStates

(* POST /redeem, and the task part of POST /dev/redeem. A task in progress   *)
(* is only shown and a consumed voucher refused: neither writes anything.    *)
CreateRead(h, v) ==
    /\ "create" \in Ops
    /\ \/ tasks[v] = None /\ Load(h, v, "inserting", "PENDING")
       \/ Resettable(v) /\ Load(h, v, "resetting", "PENDING")

(* voucher_id is unique: the slower of two requests gets an IntegrityError   *)
(* and shows the other's task.                                               *)
CreateInsert(h) ==
    LET v == request[h].v IN
    /\ request[h].pc = "inserting"
    /\ tasks' = IF tasks[v] = None THEN [tasks EXCEPT ![v] = NewTask] ELSE tasks
    /\ Answer(h)
    /\ UNCHANGED <<rest, sts, grants>>

(* POST /redeem/{task_id}/next.                                              *)
NextRead(h, v) ==
    /\ "next" \in Ops
    /\ Resettable(v)
    /\ Load(h, v, "resetting", "PENDING")

(* Replace the provider state and start over. Owner and lease of the task    *)
(* stay, and its code is cleared only if the copy loaded had one. When it    *)
(* had no provider state and has one now, the INSERT breaks the key and      *)
(* nothing is written.                                                       *)
ResetCommit(h) ==
    LET v == request[h].v
        pending == [tasks[v] EXCEPT !.status = "PENDING"]
    IN
    /\ request[h].pc = "resetting" /\ lock[v] = None
    /\ \/ /\ NoClash(request[h].st, v)
          /\ sts' = [sts EXCEPT ![v] = FreshState(v)]
          /\ tasks' = [tasks EXCEPT ![v] =
               IF request[h].seen.code = None THEN pending
               ELSE [pending EXCEPT !.code = None]]
          /\ grants' = [grants EXCEPT ![v] = 0]
       \/ ~NoClash(request[h].st, v) /\ UNCHANGED <<sts, tasks, grants>>
    /\ Answer(h)
    /\ UNCHANGED rest

-----------------------------------------------------------------------------
(* Cancelling and completing.                                                *)

CallFor(st) == IF st # None /\ st.order # None /\ ApiKey THEN "calling" ELSE "closing"

(* POST /redeem/{task_id}/cancel: whatever the status is.                    *)
CancelRead(h, v) ==
    /\ "cancel" \in Ops /\ tasks[v] # None
    /\ Load(h, v, CallFor(sts[v]), "CANCELED")

(* POST /dev/redeem/{task_id}/cancel: refused once the code is there, and    *)
(* 5sim is not told.                                                         *)
DevCancelRead(h, v) ==
    /\ "dev_cancel" \in Ops
    /\ tasks[v] # None /\ tasks[v].status \notin Consumed \union {"CANCELED"}
    /\ Load(h, v, "closing", "CANCELED")

(* POST /redeem/{task_id}/complete: only once the code is there; fault: any  *)
(* time.                                                                     *)
CompleteUnready(h, v) ==
    /\ "complete" \in Ops /\ tasks[v] # None
    /\ Load(h, v, CallFor(sts[v]), "DONE")

CompleteRead(h, v) ==
    /\ "complete" \in Ops
    /\ tasks[v] # None /\ tasks[v].status \in Consumed
    /\ Load(h, v, CallFor(sts[v]), "DONE")

(* The upstream call of cancel and complete, its errors swallowed.           *)
UpstreamCall(h) ==
    LET o == request[h].st.order IN
    /\ request[h].pc = "calling"
    /\ IF request[h].target = "DONE" THEN TryFinish(o) ELSE TryCancel(o)
    /\ request' = [request EXCEPT ![h].pc = "closing"]
    /\ UNCHANGED <<store, worker, faults>>

(* The status is written without looking at the row again, unless the copy   *)
(* loaded had it already.                                                    *)
CloseCommit(h) ==
    LET v == request[h].v
        target == request[h].target
    IN
    /\ request[h].pc = "closing" /\ lock[v] = None
    /\ tasks' = IF request[h].seen.status = target THEN tasks
                ELSE [tasks EXCEPT ![v].status = target]
    /\ Answer(h)
    /\ UNCHANGED <<rest, sts, grants>>

(* The connection breaks, the process restarts, or the database picks the    *)
(* handler as the victim of a deadlock: nothing it wrote is committed.       *)
RequestDies(h) ==
    /\ faults < MaxFaults
    /\ request[h].pc # "idle"
    /\ Answer(h)
    /\ faults' = faults + 1
    /\ UNCHANGED <<store, worker, orders>>

ApiStep(h) ==
    \/ \E v \in Voucher : \/ CreateRead(h, v) \/ NextRead(h, v)
                          \/ CancelRead(h, v) \/ DevCancelRead(h, v)
                          \/ CompleteRead(h, v)
    \/ CreateInsert(h) \/ ResetCommit(h)
    \/ UpstreamCall(h) \/ CloseCommit(h)
    \/ RequestDies(h)
=============================================================================
