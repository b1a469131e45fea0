---------------------------- MODULE RedeemSystem ----------------------------
(***************************************************************************)
(* The redeem service as a whole: handlers, workers and 5sim over the      *)
(* shared tables, and what is expected of them together.                   *)
(***************************************************************************)
EXTENDS RedeemApi

vars == <<store, orders, worker, faults, request>>

Init == StoreInit /\ FivesimInit /\ WorkerInit /\ ApiInit

Environment ==
    \/ (Tick \/ PutConfig) /\ UNCHANGED orders
    \/ \E o \in Order : SmsArrives(o) \/ UpstreamDrops(o)

Next ==
    \/ \E h \in Request : ApiStep(h)
    \/ /\ \E w \in Worker : WorkerStep(w) \/ DbError(w) \/ Crash(w) \/ Restart(w)
       /\ UNCHANGED request
    \/ Environment /\ UNCHANGED <<worker, faults, request>>

Spec == Init /\ [][Next]_vars

(* The clock goes on, and a worker that is up gets on with its loop. Nothing *)
(* makes a crashed worker restart, a client ask, or an SMS arrive.           *)
Fairness ==
    /\ WF_vars(Tick /\ UNCHANGED <<orders, worker, faults, request>>)
    /\ \A w \in Worker : WF_vars(WorkerStep(w) /\ UNCHANGED request)

FairSpec == Spec /\ Fairness

TypeOK == StoreTypeOK /\ FivesimTypeOK /\ WorkerTypeOK /\ ApiTypeOK

-----------------------------------------------------------------------------
(* Safety.                                                                   *)

HasStatus(v, S) == tasks[v] # None /\ tasks[v].status \in S

(* A task committed as PROCESSING always carries an owner and the end of its *)
(* lease: the claim's SELECT skips a PROCESSING row without one, so that it  *)
(* would be stuck for good (worker.py, _claim_next and every release).       *)
ProcessingHasLease ==
    \A v \in Voucher : HasStatus(v, {"PROCESSING"}) =>
        tasks[v].owner # None /\ tasks[v].until # None

(* While the lease of a PROCESSING task runs, no worker claims it, not even  *)
(* its owner after a restart (worker.py, the two tests of _claim_next).      *)
Leased(v) == HasStatus(v, {"PROCESSING"}) /\ ~Due(tasks[v].until, now)
ClaimsPassOverLeases ==
    \A v \in Voucher : Leased(v) /\ lock[v] = None => lock'[v] = None
LeaseRespected == [][ClaimsPassOverLeases]_vars

(* The code a task shows came with an order that was bought for its own      *)
(* voucher and did receive an SMS.                                           *)
CodeFromOwnOrder ==
    \A v \in Voucher : tasks[v] # None /\ tasks[v].code # None =>
        HasSms(tasks[v].code) /\ orders[tasks[v].code].voucher = v

(* Orders bought under the provider state a voucher has now.                 *)
Purchases(v) ==
    {o \in Order : /\ Bought(o) /\ orders[o].voucher = v
                   /\ sts[v] # None /\ orders[o].round = sts[v].round}

(* Every purchase is covered by a committed guard: one guard pays for the    *)
(* SDK's request and its fallback, never for more, whoever crashes or takes  *)
(* the task over.                                                            *)
PurchasesWithinGrants ==
    \A v \in Voucher : Cardinality(Purchases(v)) <= 2 * grants[v]

(* buy_attempts counts every purchase the guard let pass: none is forgotten  *)
(* by a crash, a rollback, a cancel or a reset. (It may count too many: a    *)
(* claim that spans a reset carries the old count over.) Needs a single      *)
(* worker: two may count from the same stale copy.                           *)
AttemptsRecorded ==
    \A v \in Voucher : sts[v] # None => grants[v] <= sts[v].attempts

(* The guard lets no purchase pass while an earlier one of the same provider *)
(* state may be under way (buy_inflight_until). Needs a single worker.       *)
NoBuyInsideInflight ==
    [][\A v \in Voucher : grants'[v] > grants[v] /\ sts[v] # None =>
         sts[v].inflight = None \/ Due(sts[v].inflight, now)]_vars

(* A consumed voucher has its code: DONE is reached through a delivered code *)
(* only. Needs a single handler per voucher at a time.                       *)
ConsumedHasCode ==
    \A v \in Voucher : HasStatus(v, Consumed) => tasks[v].code # None

(* No worker step takes a delivered code away, replaces it, or moves its     *)
(* task out of CODE_READY and DONE. Needs a single worker, and a single      *)
(* handler per voucher at a time.                                            *)
WorkerKeepsDelivered ==
    [][\A v \in Voucher : HasStatus(v, Consumed) /\ request' = request =>
         tasks'[v].status \in Consumed /\ tasks'[v].code = tasks[v].code]_vars

-----------------------------------------------------------------------------
(* Liveness, under Fairness.                                                 *)

(* A claimed task does not stay claimed: its worker ends the step, or the    *)
(* lease lapses and another worker takes it over.                            *)
ClaimEnds ==
    \A v \in Voucher :
        HasStatus(v, {"PROCESSING"}) ~> ~HasStatus(v, {"PROCESSING"})

(* Every redemption comes to an end: a code, a failure or a cancellation.    *)
RedemptionEnds ==
    \A v \in Voucher :
        HasStatus(v, {"PENDING", "WAITING_SMS"}) ~> HasStatus(v, Consumed \union Settled)

(* A delivered code does not keep its order open: once the order's time is   *)
(* up the worker closes it (or a client has).                                *)
DeliveryCloses ==
    \A v \in Voucher :
        HasStatus(v, {"CODE_READY"}) /\ sts[v] # None /\ sts[v].expires # None
          ~> ~HasStatus(v, {"CODE_READY"})

-----------------------------------------------------------------------------
(* What the documentation promises and the code does not keep.               *)

(* DEVELOPER_API.md 5.4: cancelling a CODE_READY or DONE task is refused.    *)
DeliveredNotCanceled ==
    [][\A v \in Voucher :
         HasStatus(v, Consumed) => tasks'[v].status # "CANCELED"]_vars

(* DEVELOPER_API.md, core principles: the service is complete once the code  *)
(* is delivered; so nothing but DONE follows CODE_READY.                     *)
DeliveredIsFinal ==
    [][\A v \in Voucher :
         HasStatus(v, {"CODE_READY"}) => tasks'[v].status \in Consumed]_vars
=============================================================================
