---------------------------- MODULE RedeemProofs ----------------------------
(***************************************************************************)
(* Invariants of RedeemSystem, proved for any finite set of vouchers, any  *)
(* sets of workers, orders and handlers and any setting of the limits.     *)
(***************************************************************************)
EXTENDS RedeemSystem, TLAPS, FiniteSetTheorems

(* A worker past its claim's SELECT works on a task that exists, and buys    *)
(* under a provider state it has written itself.                             *)
WorkerOnTask ==
    \A w \in Worker : worker[w].pc \notin {"idle", "down"} =>
        /\ worker[w].v \in Voucher
        /\ tasks[worker[w].v] # None
        /\ worker[w].pc \in Buying => worker[w].st # None
        /\ worker[w].st # None => sts[worker[w].v] # None

(* A handler past its read works on a voucher, and on a task that exists     *)
(* unless it is about to insert one.                                         *)
RequestOnTask ==
    \A h \in Request :
        /\ request[h].pc # "idle" => request[h].v \in Voucher
        /\ request[h].pc \in {"resetting", "calling", "closing"} =>
             tasks[request[h].v] # None /\ request[h].seen # None
        /\ request[h].pc = "calling" =>
             request[h].st # None /\ request[h].st.order # None
        /\ request[h].pc # "idle" /\ request[h].st # None =>
             sts[request[h].v] # None

(* No row is ever deleted without another one in its place.                  *)
RowsStay == /\ \A v \in Voucher : tasks[v] # None => tasks'[v] # None
            /\ \A v \in Voucher : sts[v] # None => sts'[v] # None

Shape == TypeOK /\ WorkerOnTask /\ RequestOnTask

USE DEF Shape, RowsStay

-----------------------------------------------------------------------------
(* Values written.                                                           *)

LEMMA LaterInTime == ASSUME NEW t \in Time, NEW d \in Nat PROVE Later(t, d) \in Time
  BY TimingAssumption DEF Later, Time

LEMMA FreshInType ==
  ASSUME Shape, NEW v \in Voucher
  PROVE  FreshState(v) \in ProviderState
<1>1. now \in Time /\ 0 \in 0 .. MaxBuyAttempts
  BY LimitAssumption DEF TypeOK, StoreTypeOK
<1>2. CASE sts[v] = None
  BY <1>1, <1>2 DEF FreshState, ProviderState, Deadline
<1>3. CASE sts[v] # None
  <2>1. sts[v].round + 1 \in Nat
    BY <1>3 DEF TypeOK, StoreTypeOK, ProviderState
  <2>2. QED  BY <1>1, <1>3, <2>1 DEF FreshState, ProviderState, Deadline
<1>4. QED  BY <1>2, <1>3

(* The provider state a worker writes has the type of one, unless its INSERT *)
(* fails.                                                                    *)
LEMMA CurrentInType ==
  ASSUME Shape, NEW w \in Worker, worker[w].pc \notin {"idle", "down"},
         NoClash(worker[w].st, worker[w].v)
  PROVE  Current(w) \in ProviderState
<1>1. CASE worker[w].st = None
  BY <1>1, FreshInType DEF Current, WorkerOnTask
<1>2. CASE worker[w].st # None
  BY <1>2 DEF Current, WorkerOnTask, TypeOK, StoreTypeOK
<1>3. QED  BY <1>1, <1>2

LEMMA IdleInType == Idle \in WorkerState /\ Idle.pc = "idle"
  BY TimingAssumption DEF Idle, WorkerState, Phase, Time

LEMMA NoRequestInType == NoRequest \in RequestState /\ NoRequest.pc = "idle"
  BY DEF NoRequest, RequestState

LEMMA ReleasedInType ==
  ASSUME Shape, NEW w \in Worker, worker[w].pc \notin {"idle", "down"},
         NEW status \in Status
  PROVE  /\ Released(w, status) \in Task
         /\ Released(w, status).code = tasks[worker[w].v].code
         /\ Released(w, status).status = status
<1>1. tasks[worker[w].v] \in Task
  BY DEF WorkerOnTask, TypeOK, StoreTypeOK
<1>2. QED  BY <1>1 DEF Released, Task, Deadline

-----------------------------------------------------------------------------
(* The ways in which a worker ends a step.                                   *)

LEMMA CommitKeepsShape ==
  ASSUME Shape, NEW w \in Worker, worker[w].pc \notin {"idle", "down"},
         NEW task \in Task, NEW st,
         st \in ProviderState \/ st = sts[worker[w].v],
         Commit(w, task, st), worker' = [worker EXCEPT ![w] = Idle],
         UNCHANGED <<successes, grants, orders, faults, request>>
  PROVE  Shape'
<1>1. worker[w].v \in Voucher
  BY DEF WorkerOnTask
<1>2. StoreTypeOK'
  BY <1>1 DEF Commit, TypeOK, StoreTypeOK
<1>3. FivesimTypeOK' /\ ApiTypeOK'
  BY DEF TypeOK, FivesimTypeOK, ApiTypeOK
<1>4. WorkerTypeOK'
  BY IdleInType DEF TypeOK, WorkerTypeOK
<1>5. \A v \in Voucher : tasks[v] # None => tasks'[v] # None
  BY <1>1, RowAssumption DEF Commit, TypeOK, StoreTypeOK
<1>6. \A v \in Voucher : sts[v] # None => sts'[v] # None
  BY <1>1, RowAssumption DEF Commit, TypeOK, StoreTypeOK
<1>7. WorkerOnTask'
  BY <1>5, <1>6, IdleInType DEF WorkerOnTask, TypeOK, WorkerTypeOK
<1>8. RequestOnTask'
  BY <1>5, <1>6 DEF RequestOnTask
<1>9. QED  BY <1>2, <1>3, <1>4, <1>7, <1>8 DEF TypeOK

LEMMA RollbackKeepsShape ==
  ASSUME Shape, NEW w \in Worker, worker[w].pc \notin {"idle", "down"},
         Rollback(w), faults' \in 0 .. MaxFaults, UNCHANGED <<orders, request>>
  PROVE  Shape'
<1>1. worker[w].v \in Voucher /\ tasks[worker[w].v] # None
  BY DEF WorkerOnTask
<1> DEFINE back == [Idle EXCEPT !.pc = "rolledback", !.v = worker[w].v]
<1>2. /\ back \in WorkerState /\ back.pc = "rolledback" /\ back.v = worker[w].v
      /\ back.st = None
  BY <1>1, IdleInType DEF WorkerState, Idle, Phase
<1>3. StoreTypeOK'
  BY <1>1 DEF Rollback, TypeOK, StoreTypeOK
<1>4. WorkerTypeOK'
  BY <1>2 DEF Rollback, TypeOK, WorkerTypeOK
<1>5. FivesimTypeOK' /\ ApiTypeOK' /\ RequestOnTask'
  BY DEF Rollback, TypeOK, FivesimTypeOK, ApiTypeOK, RequestOnTask
<1>6. WorkerOnTask'
  BY <1>1, <1>2 DEF Rollback, WorkerOnTask, TypeOK, WorkerTypeOK, Buying
<1>7. QED  BY <1>3, <1>4, <1>5, <1>6 DEF TypeOK

LEMMA CloseKeepsShape ==
  ASSUME Shape, NEW w \in Worker, worker[w].pc \notin {"idle", "down"},
         NEW status \in Status, NEW st,
         NoClash(worker[w].st, worker[w].v) => st \in ProviderState,
         Close(w, status, st), UNCHANGED <<orders, faults, request>>
  PROVE  Shape'
<1>1. worker[w].v \in Voucher /\ tasks[worker[w].v] # None
  BY DEF WorkerOnTask
<1>2. CASE NoClash(worker[w].st, worker[w].v) /\ ~Rollback(w)
  <2>1. Released(w, status) \in Task
    BY <1>1, ReleasedInType
  <2>2. QED  BY <1>2, <2>1, CommitKeepsShape DEF Close
<1>3. CASE Rollback(w)
  <2>1. faults' \in 0 .. MaxFaults
    BY DEF TypeOK, WorkerTypeOK
  <2>2. QED  BY <1>3, <2>1, RollbackKeepsShape
<1>4. QED  BY <1>2, <1>3 DEF Close

(* A step of a worker that stays in its own memory, but for the row lock it  *)
(* takes and the 5sim orders it touches.                                     *)
LEMMA LocalKeepsShape ==
  ASSUME Shape, NEW w \in Worker, NEW next \in WorkerState,
         worker' = [worker EXCEPT ![w] = next],
         next.pc \notin {"idle", "down"} =>
           /\ next.v \in Voucher /\ tasks[next.v] # None
           /\ next.pc \in Buying => next.st # None
           /\ next.st # None => sts[next.v] # None,
         FivesimTypeOK', lock' \in [Voucher -> Worker \union {None}],
         UNCHANGED <<now, config, successes, tasks, sts, grants, request>>,
         faults' \in 0 .. MaxFaults
  PROVE  Shape'
<1>1. StoreTypeOK' /\ ApiTypeOK' /\ RequestOnTask'
  BY DEF TypeOK, StoreTypeOK, ApiTypeOK, RequestOnTask
<1>2. WorkerTypeOK'
  BY DEF TypeOK, WorkerTypeOK
<1>3. WorkerOnTask'
  BY DEF WorkerOnTask, TypeOK, WorkerTypeOK
<1>4. QED  BY <1>1, <1>2, <1>3 DEF TypeOK

LEMMA PcInType ==
  ASSUME Shape, NEW w \in Worker, NEW pc \in Phase
  PROVE  /\ [worker[w] EXCEPT !.pc = pc] \in WorkerState
         /\ [worker[w] EXCEPT !.pc = pc].pc = pc
         /\ [worker[w] EXCEPT !.pc = pc].v = worker[w].v
         /\ [worker[w] EXCEPT !.pc = pc].st = worker[w].st
<1>1. worker[w] \in WorkerState
  BY DEF TypeOK, WorkerTypeOK
<1> DEFINE m == worker[w]
<1> HIDE DEF m
<1>2. \A n \in WorkerState : /\ [n EXCEPT !.pc = pc] \in WorkerState
                            /\ [n EXCEPT !.pc = pc].pc = pc
                            /\ [n EXCEPT !.pc = pc].v = n.v
                            /\ [n EXCEPT !.pc = pc].st = n.st
  BY DEF WorkerState
<1>3. QED  BY <1>1, <1>2

LEMMA TryInType ==
  ASSUME Shape, NEW o, TryCancel(o) \/ TryFinish(o)
  PROVE  FivesimTypeOK'
<1>1. CASE o \in Order
  BY <1>1 DEF TypeOK, FivesimTypeOK, UpstreamOrder, TryCancel, TryFinish, Bought
<1>2. CASE o \notin Order
  BY <1>2 DEF TypeOK, FivesimTypeOK, TryCancel, TryFinish
<1>3. QED  BY <1>1, <1>2

(* A step that only moves a worker's program counter, and may call 5sim.     *)
(* A worker goes on to pc, and may note the owner of its task and the time.  *)
Moved(w, pc) ==
    \/ worker' = [worker EXCEPT ![w].pc = pc]
    \/ \E owner \in Worker \union {None} :
         worker' = [worker EXCEPT ![w].pc = pc, ![w].owner = owner]
    \/ \E owner \in Worker \union {None}, t \in Time :
         worker' = [worker EXCEPT ![w].pc = pc, ![w].now = t, ![w].owner = owner]

LEMMA Moves ==
  ASSUME Shape, NEW w \in Worker, NEW pc \in Phase, Moved(w, pc)
  PROVE  \E next \in WorkerState :
           /\ worker' = [worker EXCEPT ![w] = next]
           /\ next.pc = pc /\ next.v = worker[w].v /\ next.st = worker[w].st
<1>1. CASE worker' = [worker EXCEPT ![w].pc = pc]
  <2> DEFINE next == [worker[w] EXCEPT !.pc = pc]
  <2>1. next \in WorkerState /\ next.pc = pc /\ next.v = worker[w].v
        /\ next.st = worker[w].st
    BY PcInType
  <2>2. worker' = [worker EXCEPT ![w] = next]
    BY <1>1 DEF TypeOK, WorkerTypeOK
  <2> HIDE DEF next
  <2>3. QED  BY <2>1, <2>2
<1>2. ASSUME NEW owner \in Worker \union {None},
             \/ worker' = [worker EXCEPT ![w].pc = pc, ![w].owner = owner]
             \/ \E t \in Time : worker' =
                  [worker EXCEPT ![w].pc = pc, ![w].now = t, ![w].owner = owner]
      PROVE  \E next \in WorkerState :
               /\ worker' = [worker EXCEPT ![w] = next]
               /\ next.pc = pc /\ next.v = worker[w].v /\ next.st = worker[w].st
  <2>1. worker[w] \in WorkerState
    BY DEF TypeOK, WorkerTypeOK
  <2>2. ASSUME NEW u \in Time,
               worker' = [worker EXCEPT ![w] =
                            [worker[w] EXCEPT !.pc = pc, !.now = u, !.owner = owner]]
        PROVE  \E next \in WorkerState :
                 /\ worker' = [worker EXCEPT ![w] = next]
                 /\ next.pc = pc /\ next.v = worker[w].v /\ next.st = worker[w].st
    <3> DEFINE next == [worker[w] EXCEPT !.pc = pc, !.now = u, !.owner = owner]
    <3>1. next \in WorkerState /\ next.pc = pc /\ next.v = worker[w].v
          /\ next.st = worker[w].st
      BY <2>1 DEF WorkerState
    <3>2. worker' = [worker EXCEPT ![w] = next]
      BY <2>2
    <3> HIDE DEF next
    <3>3. QED  BY <3>1, <3>2
  <2>3. CASE worker' = [worker EXCEPT ![w].pc = pc, ![w].owner = owner]
    <3>1. worker[w].now \in Time
      BY <2>1 DEF WorkerState
    <3>2. worker' = [worker EXCEPT ![w] = [worker[w] EXCEPT !.pc = pc,
                       !.now = worker[w].now, !.owner = owner]]
      BY <2>1, <2>3 DEF TypeOK, WorkerTypeOK, WorkerState
    <3>3. QED  BY <2>2, <3>1, <3>2
  <2>4. ASSUME NEW t \in Time,
               worker' = [worker EXCEPT ![w].pc = pc, ![w].now = t, ![w].owner = owner]
        PROVE  \E next \in WorkerState :
                 /\ worker' = [worker EXCEPT ![w] = next]
                 /\ next.pc = pc /\ next.v = worker[w].v /\ next.st = worker[w].st
    <3>1. worker' = [worker EXCEPT ![w] = [worker[w] EXCEPT !.pc = pc,
                       !.now = t, !.owner = owner]]
      BY <2>1, <2>4 DEF TypeOK, WorkerTypeOK, WorkerState
    <3>2. QED  BY <2>2, <3>1
  <2>5. QED  BY <1>2, <2>3, <2>4
<1>3. QED  BY <1>1, <1>2 DEF Moved

LEMMA MoveKeepsShape ==
  ASSUME Shape, NEW w \in Worker, NEW pc \in Phase,
         worker[w].pc \notin {"idle", "down"},
         pc \in Buying => worker[w].st # None,
         Moved(w, pc), FivesimTypeOK',
         UNCHANGED <<now, config, successes, tasks, sts, grants, request, faults>>,
         lock' \in [Voucher -> Worker \union {None}]
  PROVE  Shape'
<1>1. PICK next \in WorkerState :
        /\ worker' = [worker EXCEPT ![w] = next]
        /\ next.pc = pc /\ next.v = worker[w].v /\ next.st = worker[w].st
  BY Moves
<1>2. /\ next.v \in Voucher /\ tasks[next.v] # None
      /\ next.st # None => sts[next.v] # None
  BY <1>1 DEF WorkerOnTask
<1>3. faults' \in 0 .. MaxFaults
  BY DEF TypeOK, WorkerTypeOK
<1>4. QED  BY <1>1, <1>2, <1>3, LocalKeepsShape

-----------------------------------------------------------------------------
(* The worker's actions, in the order of WorkerStep.                         *)

LEMMA ClaimSelectShape ==
  ASSUME Shape, NEW w \in Worker, NEW v \in Voucher, ClaimSelect(w, v),
         UNCHANGED request
  PROVE  Shape'
<1> DEFINE next ==
      [Idle EXCEPT !.pc = "selected", !.v = v, !.claim = now, !.st = sts[v],
                   !.cfg = config,
                   !.count = IF config = None THEN 0 ELSE successes[config]]
<1>1. next \in WorkerState /\ next.pc = "selected" /\ next.v = v /\ next.st = sts[v]
  BY IdleInType DEF WorkerState, Phase, Idle, TypeOK, StoreTypeOK
<1>2. worker' = [worker EXCEPT ![w] = next] /\ tasks[v] # None
  BY DEF ClaimSelect, Selectable
<1>3. FivesimTypeOK' /\ faults' \in 0 .. MaxFaults
      /\ lock' \in [Voucher -> Worker \union {None}]
  BY DEF ClaimSelect, store, TypeOK, FivesimTypeOK, WorkerTypeOK, StoreTypeOK
<1>4. UNCHANGED <<now, config, successes, tasks, sts, grants, request>>
  BY DEF ClaimSelect, store
<1> HIDE DEF next
<1>5. QED  BY <1>1, <1>2, <1>3, <1>4, LocalKeepsShape DEF Buying

LEMMA ClaimUpdateShape ==
  ASSUME Shape, NEW w \in Worker, ClaimUpdate(w), UNCHANGED request
  PROVE  Shape'
<1>1. FivesimTypeOK' /\ faults' \in 0 .. MaxFaults
      /\ UNCHANGED <<now, config, successes, tasks, sts, grants, request, faults>>
  BY DEF ClaimUpdate, TypeOK, FivesimTypeOK, WorkerTypeOK
<1>2. lock' \in [Voucher -> Worker \union {None}] /\ worker[w].pc = "selected"
  BY DEF ClaimUpdate, TypeOK, StoreTypeOK
<1>3. CASE worker' = [worker EXCEPT ![w].pc = "claimed", ![w].now = now,
                                     ![w].owner = w]
  <2>1. now \in Time
    BY DEF TypeOK, StoreTypeOK
  <2>2. Moved(w, "claimed")
    BY <1>3, <2>1 DEF Moved
  <2>3. QED  BY <1>1, <1>2, <2>2, MoveKeepsShape DEF Phase, Locking, Buying
<1>4. CASE worker' = [worker EXCEPT ![w] = Idle]
  BY <1>1, <1>2, <1>4, LocalKeepsShape, IdleInType
<1>5. QED  BY <1>3, <1>4 DEF ClaimUpdate

LEMMA LeaseInTime == ASSUME Shape, NEW w \in Worker PROVE LeaseUntil(w) \in Time
  BY LaterInTime, TimingAssumption DEF LeaseUntil, TypeOK, WorkerTypeOK, WorkerState

(* The row a claim leaves when it is committed before the step is over.      *)
LEMMA ClaimedRowInType ==
  ASSUME Shape, NEW w \in Worker, NEW v \in Voucher, tasks[v] # None,
         NEW status \in Status
  PROVE  [tasks[v] EXCEPT !.status = status, !.owner = w, !.until = LeaseUntil(w)]
           \in Task
  BY LeaseInTime DEF Task, Deadline, TypeOK, StoreTypeOK

LEMMA UnserviceableShape ==
  ASSUME Shape, NEW w \in Worker, Unserviceable(w), UNCHANGED request
  PROVE  Shape'
<1>1. worker[w].pc = "claimed" /\ worker[w].v \in Voucher /\ tasks[worker[w].v] # None
  BY DEF Unserviceable, WorkerOnTask
<1>2. CASE Rollback(w)
  BY <1>1, <1>2, RollbackKeepsShape DEF Unserviceable, TypeOK, WorkerTypeOK
<1>3. CASE NoClash(worker[w].st, worker[w].v) /\ ~Rollback(w)
  <2> DEFINE task == [tasks[worker[w].v] EXCEPT !.status = "FAILED", !.owner = w,
                                                !.until = LeaseUntil(w)]
  <2>1. task \in Task
    BY <1>1, ClaimedRowInType DEF Status
  <2>2. Current(w) \in ProviderState
    BY <1>1, <1>3, CurrentInType
  <2>3. Commit(w, task, Current(w)) /\ worker' = [worker EXCEPT ![w] = Idle]
        /\ UNCHANGED <<successes, grants, orders, faults>>
    BY <1>3 DEF Unserviceable
  <2> HIDE DEF task
  <2>4. QED  BY <1>1, <2>1, <2>2, <2>3, CommitKeepsShape
<1>4. QED  BY <1>2, <1>3 DEF Unserviceable

LEMMA FinishShape ==
  ASSUME Shape, NEW w \in Worker, FinishCall(w) \/ FinishCommit(w), UNCHANGED request
  PROVE  Shape'
<1>1. CASE FinishCall(w)
  <2>1. FivesimTypeOK'
    BY <1>1, TryInType DEF FinishCall
  <2>2. Moved(w, "finished")
    BY <1>1 DEF FinishCall, Moved
  <2>3. QED
    BY <1>1, <2>1, <2>2, MoveKeepsShape
    DEF FinishCall, store, Phase, Locking, Buying, TypeOK, StoreTypeOK
<1>2. CASE FinishCommit(w)
  <2>1. worker[w].pc = "finished" /\ worker[w].v \in Voucher /\ tasks[worker[w].v] # None
    BY <1>2 DEF FinishCommit, WorkerOnTask
  <2>2. Released(w, "DONE") \in Task
    BY <2>1, ReleasedInType DEF Status
  <2>3. sts[worker[w].v] \in ProviderState \union {None}
    BY <2>1 DEF TypeOK, StoreTypeOK
  <2>4. QED  BY <1>2, <2>1, <2>2, <2>3, CommitKeepsShape DEF FinishCommit
<1>3. QED  BY <1>1, <1>2

LEMMA ExpireShape ==
  ASSUME Shape, NEW w \in Worker, ExpireCall(w) \/ ExpireCommit(w), UNCHANGED request
  PROVE  Shape'
<1>1. CASE ExpireCall(w)
  <2>1. FivesimTypeOK'
    BY <1>1, TryInType DEF ExpireCall
  <2>2. Moved(w, "expired")
    BY <1>1 DEF ExpireCall, Moved
  <2>3. QED
    BY <1>1, <2>1, <2>2, MoveKeepsShape
    DEF ExpireCall, store, Phase, Locking, Buying, TypeOK, StoreTypeOK
<1>2. CASE ExpireCommit(w)
  BY <1>2, CurrentInType, CloseKeepsShape DEF ExpireCommit, Status, WorkerOnTask
<1>3. QED  BY <1>1, <1>2

(* A provider state with a new poll time, and no other change.               *)
LEMMA PolledInType ==
  ASSUME NEW st \in ProviderState, NEW t \in Time
  PROVE  [st EXCEPT !.poll = t] \in ProviderState
  BY DEF ProviderState, Deadline

LEMMA WorkerNowInTime ==
  ASSUME Shape, NEW w \in Worker, NEW d \in Nat
  PROVE  Later(worker[w].now, d) \in Time
  BY LaterInTime DEF TypeOK, WorkerTypeOK, WorkerState

(* The steps that end by writing a poll time and releasing the task.         *)
LEMMA PollShape ==
  ASSUME Shape, NEW w \in Worker, NEW d \in Nat, NEW status \in Status,
         worker[w].pc \notin {"idle", "down"},
         Close(w, status, [Current(w) EXCEPT !.poll = Later(worker[w].now, d)]),
         UNCHANGED <<orders, faults, request>>
  PROVE  Shape'
<1> DEFINE st == [Current(w) EXCEPT !.poll = Later(worker[w].now, d)]
<1>1. worker[w].v \in Voucher
  BY DEF WorkerOnTask
<1>2. NoClash(worker[w].st, worker[w].v) => st \in ProviderState
  BY <1>1, CurrentInType, PolledInType, WorkerNowInTime
<1>3. Close(w, status, st)
  OBVIOUS
<1> HIDE DEF st
<1>4. QED  BY <1>2, <1>3, CloseKeepsShape

(* The steps that end by releasing the task.                                 *)
LEMMA ReleaseShape ==
  ASSUME Shape, NEW w \in Worker, NEW status \in Status,
         worker[w].pc \notin {"idle", "down"},
         Close(w, status, Current(w)), UNCHANGED <<orders, faults, request>>
  PROVE  Shape'
  BY CurrentInType, CloseKeepsShape DEF WorkerOnTask

LEMMA NoPurchaseShape ==
  ASSUME Shape, NEW w \in Worker, AttemptsExhausted(w) \/ InflightWait(w),
         UNCHANGED request
  PROVE  Shape'
<1>1. CASE AttemptsExhausted(w)
  BY <1>1, ReleaseShape DEF AttemptsExhausted, Unbought, Status
<1>2. CASE InflightWait(w)
  BY <1>2, PollShape DEF InflightWait, Unbought, Status
<1>3. QED  BY <1>1, <1>2

LEMMA GuardedInType ==
  ASSUME Shape, NEW w \in Worker, worker[w].pc \notin {"idle", "down"}, MayBuy(w),
         NoClash(worker[w].st, worker[w].v)
  PROVE  Guarded(w) \in ProviderState
<1>1. Current(w) \in ProviderState
  BY CurrentInType
<1>2. Attempts(w) \in Nat
  BY DEF Attempts, TypeOK, WorkerTypeOK, WorkerState, ProviderState
<1>3. Attempts(w) + 1 \in 0 .. MaxBuyAttempts
  BY <1>2, LimitAssumption DEF MayBuy
<1>4. Later(worker[w].now, Inflight) \in Time
  BY WorkerNowInTime, TimingAssumption
<1>5. QED  BY <1>1, <1>3, <1>4 DEF Guarded, ProviderState, Deadline

LEMMA GuardCommitShape ==
  ASSUME Shape, NEW w \in Worker, GuardCommit(w), UNCHANGED request
  PROVE  Shape'
<1>1. worker[w].pc = "claimed" /\ worker[w].v \in Voucher /\ tasks[worker[w].v] # None
  BY DEF GuardCommit, Unbought, WorkerOnTask
<1>2. CASE Rollback(w)
  BY <1>1, <1>2, RollbackKeepsShape DEF GuardCommit, TypeOK, WorkerTypeOK
<1>3. CASE NoClash(worker[w].st, worker[w].v) /\ ~Rollback(w)
  <2> DEFINE task == [tasks[worker[w].v] EXCEPT !.status = "PROCESSING", !.owner = w,
                                                !.until = LeaseUntil(w)]
             next == [worker[w] EXCEPT !.pc = "granted", !.st = Guarded(w)]
  <2>1. task \in Task
    BY <1>1, ClaimedRowInType DEF Status
  <2>2. Guarded(w) \in ProviderState
    BY <1>1, <1>3, GuardedInType DEF GuardCommit
  <2>3. /\ Commit(w, task, Guarded(w))
        /\ worker' = [worker EXCEPT ![w].pc = "granted", ![w].st = Guarded(w)]
        /\ grants' = [grants EXCEPT ![worker[w].v] = @ + 1]
        /\ UNCHANGED <<successes, orders, faults>>
    BY <1>3 DEF GuardCommit
  <2>4. worker[w] \in WorkerState
    BY DEF TypeOK, WorkerTypeOK
  <2>5. worker' = [worker EXCEPT ![w] = next]
    BY <2>3 DEF TypeOK, WorkerTypeOK
  <2>6. next \in WorkerState /\ next.pc = "granted" /\ next.v = worker[w].v
        /\ next.st = Guarded(w)
    BY <2>2, <2>4 DEF WorkerState, Phase, Buying
  <2> HIDE DEF task, next
  <2>7. StoreTypeOK'
    BY <1>1, <2>1, <2>2, <2>3 DEF Commit, TypeOK, StoreTypeOK
  <2>8. WorkerTypeOK' /\ FivesimTypeOK' /\ ApiTypeOK'
    BY <2>3, <2>5, <2>6 DEF TypeOK, WorkerTypeOK, FivesimTypeOK, ApiTypeOK
  <2>9. RowsStay
    BY <1>1, <2>1, <2>2, <2>3, RowAssumption DEF Commit, TypeOK, StoreTypeOK
  <2>10. sts'[worker[w].v] # None
    BY <1>1, <2>2, <2>3, RowAssumption DEF Commit, TypeOK, StoreTypeOK
  <2>11. WorkerOnTask'
    BY <1>1, <2>2, <2>5, <2>6, <2>9, <2>10, RowAssumption
    DEF WorkerOnTask, TypeOK, WorkerTypeOK
  <2>12. RequestOnTask'
    BY <2>9 DEF RequestOnTask
  <2>13. QED  BY <2>7, <2>8, <2>11, <2>12 DEF TypeOK
<1>4. QED  BY <1>2, <1>3 DEF GuardCommit

LEMMA OwnerInType ==
  ASSUME Shape, NEW w \in Worker, worker[w].pc \notin {"idle", "down"}
  PROVE  /\ tasks[worker[w].v].owner \in Worker \union {None}
         /\ worker[w].owner \in Worker \union {None}
  BY DEF WorkerOnTask, TypeOK, StoreTypeOK, Task, WorkerTypeOK, WorkerState

LEMMA RefuseConfigShape ==
  ASSUME Shape, NEW w \in Worker, RefuseConfig(w), UNCHANGED request
  PROVE  Shape'
<1>1. worker[w].pc = "granted" /\ worker[w].st # None
  BY DEF RefuseConfig, WorkerOnTask, Buying
<1>2. /\ FivesimTypeOK' /\ lock' \in [Voucher -> Worker \union {None}]
      /\ UNCHANGED <<now, config, successes, tasks, sts, grants, request, faults>>
  BY DEF RefuseConfig, store, TypeOK, FivesimTypeOK, StoreTypeOK
<1>3. Moved(w, "failed") \/ Moved(w, "rejected")
  BY <1>1, OwnerInType DEF RefuseConfig, Moved
<1>4. QED  BY <1>1, <1>2, <1>3, MoveKeepsShape DEF Phase, Buying

LEMMA BuyInType ==
  ASSUME Shape, NEW o \in Order, NEW v \in Voucher, NEW st \in ProviderState,
         Buy(o, v, st.round)
  PROVE  FivesimTypeOK'
  BY DEF Buy, TypeOK, FivesimTypeOK, UpstreamOrder, ProviderState

LEMMA PurchaseShape ==
  ASSUME Shape, NEW w \in Worker, NEW onError \in Buying, worker[w].pc \in Buying,
         NEW owner \in Worker \union {None},
         Purchase(w, owner, onError), UNCHANGED <<store, faults, request>>
  PROVE  Shape'
<1>1. /\ worker[w].v \in Voucher /\ tasks[worker[w].v] # None
      /\ worker[w].st \in ProviderState /\ worker[w].pc \notin {"idle", "down"}
  BY DEF WorkerOnTask, Buying, TypeOK, WorkerTypeOK, WorkerState
<1>2. FivesimTypeOK'
  BY <1>1, BuyInType DEF Purchase, Stock, TypeOK, FivesimTypeOK
<1>3. /\ lock' \in [Voucher -> Worker \union {None}] /\ faults' \in 0 .. MaxFaults
      /\ UNCHANGED <<now, config, successes, tasks, sts, grants, request, faults>>
  BY DEF store, TypeOK, StoreTypeOK, WorkerTypeOK
<1>4. CASE worker' = [worker EXCEPT ![w].pc = onError, ![w].owner = owner]
  BY <1>1, <1>2, <1>3, <1>4, MoveKeepsShape, RowAssumption DEF Moved, Phase
<1>5. ASSUME NEW o \in Order, NEW l \in Lifetimes,
             worker' = [worker EXCEPT ![w].pc = "bought", ![w].owner = owner,
               ![w].st.order = o,
               ![w].st.expires = IF l = None THEN None ELSE Later(now, l)]
      PROVE  Shape'
  <2> DEFINE e == IF l = None THEN None ELSE Later(now, l)
             got == [worker[w].st EXCEPT !.order = o, !.expires = e]
             next == [worker[w] EXCEPT !.pc = "bought", !.owner = owner, !.st = got]
  <2>1. e \in Deadline
    BY LaterInTime, ConfigAssumption DEF Deadline, TypeOK, StoreTypeOK
  <2> HIDE DEF e
  <2>2. got \in ProviderState
    BY <1>1, <2>1 DEF ProviderState
  <2>3. worker' = [worker EXCEPT ![w] = next]
    <3>1. worker \in [Worker -> WorkerState]
      BY DEF TypeOK, WorkerTypeOK
    <3>2. worker' = [worker EXCEPT ![w].pc = "bought", ![w].owner = owner,
                                   ![w].st.order = o, ![w].st.expires = e]
      BY <1>5 DEF e
    <3>3. worker[w] \in WorkerState
      BY <3>1
    <3>4. worker'[w] = next
      BY <3>1, <3>2, <3>3 DEF WorkerState
    <3>5. \A u \in Worker \ {w} : worker'[u] = worker[u]
      BY <3>1, <3>2
    <3>6. worker' = [u \in Worker |-> worker'[u]]
      BY <3>1, <3>2
    <3> HIDE DEF got, next
    <3> QED BY <3>1, <3>4, <3>5, <3>6
  <2>4. worker[w] \in WorkerState
    BY DEF TypeOK, WorkerTypeOK
  <2> HIDE DEF got
  <2>5. next \in WorkerState /\ next.pc = "bought" /\ next.v = worker[w].v
        /\ next.st # None /\ sts[next.v] # None
    BY <1>1, <2>2, <2>4, RowAssumption DEF WorkerState, Phase, Buying, WorkerOnTask
  <2> HIDE DEF next
  <2>6. QED  BY <1>1, <1>2, <1>3, <2>3, <2>5, LocalKeepsShape
<1>6. QED  BY <1>4, <1>5 DEF Purchase, Stock

LEMMA BuyShape ==
  ASSUME Shape, NEW w \in Worker, BuyNumber(w) \/ BuyFallback(w), UNCHANGED request
  PROVE  Shape'
<1>1. CASE BuyNumber(w)
  BY <1>1, PurchaseShape, OwnerInType DEF BuyNumber, Buying
<1>2. CASE BuyFallback(w)
  BY <1>2, PurchaseShape, OwnerInType DEF BuyFallback, Buying
<1>3. QED  BY <1>1, <1>2

LEMMA BoughtShape ==
  ASSUME Shape, NEW w \in Worker, BoughtCommit(w), UNCHANGED request
  PROVE  Shape'
<1> DEFINE st == [Current(w) EXCEPT !.order = worker[w].st.order,
                    !.expires = worker[w].st.expires,
                    !.poll = Later(worker[w].now, Poll), !.inflight = None]
<1>1. worker[w].pc = "bought" /\ worker[w].v \in Voucher
      /\ worker[w].st \in ProviderState
  BY DEF BoughtCommit, WorkerOnTask, Buying, TypeOK, WorkerTypeOK, WorkerState
<1>2. Later(worker[w].now, Poll) \in Time
  BY WorkerNowInTime, TimingAssumption
<1>3. NoClash(worker[w].st, worker[w].v) => st \in ProviderState
  <2>1. ASSUME NEW cur \in ProviderState
        PROVE  [cur EXCEPT !.order = worker[w].st.order,
                  !.expires = worker[w].st.expires,
                  !.poll = Later(worker[w].now, Poll), !.inflight = None]
                 \in ProviderState
    BY <1>1, <1>2 DEF ProviderState, Deadline
  <2>2. QED  BY <1>1, <2>1, CurrentInType
<1>4. Close(w, "WAITING_SMS", st) /\ UNCHANGED <<orders, faults>>
  BY DEF BoughtCommit
<1> HIDE DEF st
<1>5. QED  BY <1>1, <1>3, <1>4, CloseKeepsShape DEF Status

LEMMA NotBoughtShape ==
  ASSUME Shape, NEW w \in Worker, BuyFailedCommit(w) \/ RejectCommit(w),
         UNCHANGED request
  PROVE  Shape'
<1>1. CASE BuyFailedCommit(w)
  BY <1>1, PollShape, TimingAssumption DEF BuyFailedCommit, Status
<1>2. CASE RejectCommit(w)
  BY <1>2, ReleaseShape DEF RejectCommit, Status
<1>3. QED  BY <1>1, <1>2

LEMMA DeliverCodeShape ==
  ASSUME Shape, NEW w \in Worker, DeliverCode(w), UNCHANGED request
  PROVE  Shape'
<1>1. /\ worker[w].pc = "claimed" /\ worker[w].v \in Voucher
      /\ tasks[worker[w].v] # None /\ OrderOf(w) # None
  BY DEF DeliverCode, Waiting, WorkerOnTask
<1>2. CASE Rollback(w)
  BY <1>1, <1>2, RollbackKeepsShape DEF DeliverCode, TypeOK, WorkerTypeOK
<1>3. CASE ~Rollback(w)
  <2> DEFINE task == [Released(w, "CODE_READY") EXCEPT !.code = OrderOf(w)]
  <2>1. OrderOf(w) \in Order
    BY <1>1 DEF OrderOf, TypeOK, WorkerTypeOK, WorkerState, ProviderState
  <2>2. Released(w, "CODE_READY") \in Task
    BY <1>1, ReleasedInType DEF Status
  <2>3. task \in Task
    BY <2>1, <2>2 DEF Task
  <2>4. /\ Commit(w, task, sts[worker[w].v]) /\ worker' = [worker EXCEPT ![w] = Idle]
        /\ UNCHANGED <<grants, orders, faults>>
        /\ \/ successes' = [successes EXCEPT ![worker[w].cfg] = worker[w].count + 1]
           \/ successes' = successes
    BY <1>3 DEF DeliverCode
  <2> HIDE DEF task
  <2>5. successes' \in [Config -> Nat] /\ sts[worker[w].v] \in ProviderState \union {None}
    BY <1>1, <2>4 DEF TypeOK, StoreTypeOK, WorkerTypeOK, WorkerState
  <2>6. StoreTypeOK'
    BY <1>1, <2>3, <2>4, <2>5 DEF Commit, TypeOK, StoreTypeOK
  <2>7. FivesimTypeOK' /\ ApiTypeOK' /\ WorkerTypeOK'
    BY <2>4, IdleInType DEF TypeOK, FivesimTypeOK, ApiTypeOK, WorkerTypeOK
  <2>8. RowsStay
    BY <1>1, <2>3, <2>4, RowAssumption DEF Commit, TypeOK, StoreTypeOK
  <2>9. WorkerOnTask' /\ RequestOnTask'
    BY <2>4, <2>8, IdleInType DEF WorkerOnTask, RequestOnTask, TypeOK, WorkerTypeOK
  <2>10. QED  BY <2>6, <2>7, <2>9 DEF TypeOK
<1>4. QED  BY <1>2, <1>3

LEMMA CheckShape ==
  ASSUME Shape, NEW w \in Worker, OrderLost(w) \/ NoSmsYet(w) \/ CheckFails(w),
         UNCHANGED request
  PROVE  Shape'
<1>1. CASE OrderLost(w)
  BY <1>1, ReleaseShape DEF OrderLost, Waiting, Status
<1>2. CASE NoSmsYet(w)
  BY <1>2, PollShape, TimingAssumption DEF NoSmsYet, Waiting, Status
<1>3. CASE CheckFails(w)
  BY <1>3, PollShape, TimingAssumption DEF CheckFails, Waiting, Status
<1>4. QED  BY <1>1, <1>2, <1>3

LEMMA CleanupShape ==
  ASSUME Shape, NEW w \in Worker, CleanupRead(w) \/ CleanupCommit(w),
         UNCHANGED request
  PROVE  Shape'
<1>1. CASE CleanupRead(w)
  <2>1. /\ worker[w] \in WorkerState /\ worker[w].v \in Voucher
        /\ tasks[worker[w].v] # None
        /\ tasks[worker[w].v].owner \in Worker \union {None}
    BY <1>1 DEF CleanupRead, WorkerOnTask, TypeOK, WorkerTypeOK, StoreTypeOK, Task
  <2>2. /\ FivesimTypeOK' /\ lock' \in [Voucher -> Worker \union {None}]
        /\ UNCHANGED <<now, config, successes, tasks, sts, grants, request>>
        /\ faults' \in 0 .. MaxFaults
    BY <1>1 DEF CleanupRead, store, TypeOK, FivesimTypeOK, StoreTypeOK, WorkerTypeOK
  <2> DEFINE next == [worker[w] EXCEPT !.pc = "cleaning",
                                       !.owner = tasks[worker[w].v].owner]
  <2>3. /\ next \in WorkerState /\ next.pc = "cleaning" /\ next.v = worker[w].v
        /\ next.st # None => sts[next.v] # None
    BY <1>1, <2>1 DEF CleanupRead, WorkerState, Phase, WorkerOnTask
  <2>4. worker' = [worker EXCEPT ![w] = next] \/ worker' = [worker EXCEPT ![w] = Idle]
    BY <1>1 DEF CleanupRead, TypeOK, WorkerTypeOK
  <2> HIDE DEF next
  <2>5. CASE worker' = [worker EXCEPT ![w] = next]
    BY <2>1, <2>2, <2>3, <2>5, LocalKeepsShape DEF Buying
  <2>6. CASE worker' = [worker EXCEPT ![w] = Idle]
    BY <2>2, <2>6, IdleInType, LocalKeepsShape
  <2>7. QED  BY <2>4, <2>5, <2>6
<1>2. CASE CleanupCommit(w)
  <2> DEFINE v == worker[w].v
             task == Released(w, "FAILED")
  <2>1. v \in Voucher /\ tasks[v] \in Task /\ worker[w].pc = "cleaning"
    BY <1>2 DEF CleanupCommit, WorkerOnTask, TypeOK, StoreTypeOK
  <2>2. task \in Task
    BY <2>1, ReleasedInType DEF Status
  <2>3. /\ tasks' = [tasks EXCEPT ![v] = task]
        /\ worker' = [worker EXCEPT ![w] = Idle]
        /\ UNCHANGED <<now, config, successes, sts, lock, grants, orders, faults>>
    BY <1>2 DEF CleanupCommit
  <2> HIDE DEF task, v
  <2>4. StoreTypeOK'
    BY <2>1, <2>2, <2>3 DEF TypeOK, StoreTypeOK
  <2>5. FivesimTypeOK' /\ ApiTypeOK' /\ WorkerTypeOK'
    BY <2>3, IdleInType DEF TypeOK, FivesimTypeOK, ApiTypeOK, WorkerTypeOK
  <2>6. \A u \in Voucher : tasks[u] # None => tasks'[u] # None
    BY <2>1, <2>2, <2>3, RowAssumption DEF TypeOK, StoreTypeOK
  <2>7. WorkerOnTask' /\ RequestOnTask'
    BY <2>3, <2>6, IdleInType DEF WorkerOnTask, RequestOnTask, TypeOK, WorkerTypeOK
  <2>8. QED  BY <2>4, <2>5, <2>7 DEF TypeOK
<1>3. QED  BY <1>1, <1>2

LEMMA WorkerStepShape ==
  ASSUME Shape, NEW w \in Worker, WorkerStep(w), UNCHANGED request
  PROVE  Shape'
<1>1. CASE \E v \in Voucher : ClaimSelect(w, v)
  BY <1>1, ClaimSelectShape
<1>2. CASE ClaimUpdate(w) \/ Unserviceable(w)
  BY <1>2, ClaimUpdateShape, UnserviceableShape
<1>3. CASE FinishCall(w) \/ FinishCommit(w) \/ ExpireCall(w) \/ ExpireCommit(w)
  BY <1>3, FinishShape, ExpireShape
<1>4. CASE AttemptsExhausted(w) \/ InflightWait(w) \/ GuardCommit(w)
  BY <1>4, NoPurchaseShape, GuardCommitShape
<1>5. CASE RefuseConfig(w) \/ BuyNumber(w) \/ BuyFallback(w)
  BY <1>5, RefuseConfigShape, BuyShape
<1>6. CASE BoughtCommit(w) \/ BuyFailedCommit(w) \/ RejectCommit(w)
  BY <1>6, BoughtShape, NotBoughtShape
<1>7. CASE DeliverCode(w) \/ OrderLost(w) \/ NoSmsYet(w) \/ CheckFails(w)
  BY <1>7, DeliverCodeShape, CheckShape
<1>8. CASE CleanupRead(w) \/ CleanupCommit(w)
  BY <1>8, CleanupShape
<1>9. QED
  BY <1>1, <1>2, <1>3, <1>4, <1>5, <1>6, <1>7, <1>8 DEF WorkerStep

(* Faults of a worker, and its restart.                                      *)
LEMMA FaultShape ==
  ASSUME Shape, NEW w \in Worker, DbError(w) \/ Crash(w) \/ Restart(w),
         UNCHANGED request
  PROVE  Shape'
<1>1. CASE DbError(w)
  <2>1. faults' \in 0 .. MaxFaults
    BY <1>1, ConfigAssumption DEF DbError, TypeOK, WorkerTypeOK
  <2>2. QED  BY <1>1, <2>1, RollbackKeepsShape DEF DbError, Locking
<1>2. CASE Crash(w)
  <2> DEFINE next == [Idle EXCEPT !.pc = "down"]
  <2>1. next \in WorkerState /\ next.pc = "down"
    BY IdleInType DEF WorkerState, Phase, Idle
  <2>2. worker' = [worker EXCEPT ![w] = next] /\ faults' \in 0 .. MaxFaults
        /\ lock' \in [Voucher -> Worker \union {None}]
        /\ UNCHANGED <<now, config, successes, tasks, sts, grants, orders>>
    BY <1>2, ConfigAssumption DEF Crash, TypeOK, WorkerTypeOK, StoreTypeOK
  <2>3. FivesimTypeOK'
    BY <2>2 DEF TypeOK, FivesimTypeOK
  <2> HIDE DEF next
  <2>4. QED  BY <2>1, <2>2, <2>3, LocalKeepsShape
<1>3. CASE Restart(w)
  BY <1>3, LocalKeepsShape, IdleInType
  DEF Restart, store, TypeOK, FivesimTypeOK, StoreTypeOK, WorkerTypeOK
<1>4. QED  BY <1>1, <1>2, <1>3

-----------------------------------------------------------------------------
(* The handlers.                                                             *)

(* A handler's read: the copies it takes have the types of the rows.         *)
LEMMA LoadShape ==
  ASSUME Shape, NEW h \in Request, NEW v \in Voucher,
         NEW pc \in {"inserting", "resetting", "calling", "closing"},
         NEW target \in {"PENDING", "CANCELED", "DONE"},
         Load(h, v, pc, target),
         pc # "inserting" => tasks[v] # None,
         pc = "calling" => sts[v] # None /\ sts[v].order # None
  PROVE  Shape'
<1> DEFINE next == [pc |-> pc, v |-> v, seen |-> tasks[v], st |-> sts[v],
                    target |-> target]
<1>1. next \in RequestState
  BY DEF RequestState, TypeOK, StoreTypeOK
<1>2. request' = [request EXCEPT ![h] = next]
      /\ UNCHANGED <<now, config, successes, lock, worker, orders, faults,
                     tasks, sts, grants>>
  BY DEF Load, rest
<1>3. next.pc = pc /\ next.v = v /\ next.seen = tasks[v] /\ next.st = sts[v]
  OBVIOUS
<1> HIDE DEF next
<1>4. StoreTypeOK' /\ FivesimTypeOK' /\ WorkerTypeOK' /\ WorkerOnTask'
  BY <1>2 DEF TypeOK, StoreTypeOK, FivesimTypeOK, WorkerTypeOK, WorkerOnTask
<1>5. ApiTypeOK'
  BY <1>1, <1>2 DEF TypeOK, ApiTypeOK
<1>6. RequestOnTask'
  BY <1>2, <1>3 DEF RequestOnTask, TypeOK, ApiTypeOK
<1>7. QED  BY <1>4, <1>5, <1>6 DEF TypeOK

(* A handler's commit, or its death: it answers, and leaves well-typed rows. *)
LEMMA AnswerShape ==
  ASSUME Shape, NEW h \in Request, Answer(h),
         tasks' \in [Voucher -> Task \union {None}],
         sts' \in [Voucher -> ProviderState \union {None}],
         grants' \in [Voucher -> Nat],
         RowsStay,
         faults' \in 0 .. MaxFaults,
         UNCHANGED <<now, config, successes, lock, worker, orders>>
  PROVE  Shape'
<1>1. StoreTypeOK' /\ FivesimTypeOK' /\ WorkerTypeOK'
  BY DEF TypeOK, StoreTypeOK, FivesimTypeOK, WorkerTypeOK
<1>2. ApiTypeOK' /\ RequestOnTask'
  BY NoRequestInType DEF Answer, TypeOK, ApiTypeOK, RequestOnTask
<1>3. WorkerOnTask'
  BY DEF WorkerOnTask
<1>4. QED  BY <1>1, <1>2, <1>3 DEF TypeOK

LEMMA ReadShape ==
  ASSUME Shape, NEW h \in Request, NEW v \in Voucher,
         \/ CreateRead(h, v) \/ NextRead(h, v) \/ CancelRead(h, v)
         \/ DevCancelRead(h, v) \/ CompleteRead(h, v)
  PROVE  Shape'
<1>1. CASE CreateRead(h, v) \/ NextRead(h, v)
  BY <1>1, LoadShape DEF CreateRead, NextRead, Resettable
<1>2. CallFor(sts[v]) \in {"calling", "closing"}
      /\ (CallFor(sts[v]) = "calling" => sts[v] # None /\ sts[v].order # None)
  BY DEF CallFor
<1>3. CASE CancelRead(h, v) \/ DevCancelRead(h, v) \/ CompleteRead(h, v)
  BY <1>2, <1>3, LoadShape DEF CancelRead, DevCancelRead, CompleteRead
<1>4. QED  BY <1>1, <1>3

LEMMA NewTaskInType == NewTask.status = "PENDING" /\ NewTask.code = None
                       /\ NewTask.owner = None /\ NewTask.until = None
  BY DEF NewTask

LEMMA CreateInsertShape ==
  ASSUME Shape, NEW h \in Request, CreateInsert(h)
  PROVE  Shape'
<1>1. Cardinality({v \in Voucher : tasks[v] # None}) \in Nat
  BY LimitAssumption, FS_Subset, FS_CardinalityType
<1>2. NewTask \in Task
  BY <1>1 DEF NewTask, Task, Status, Deadline
<1>3. \/ tasks' = tasks
      \/ tasks' = [tasks EXCEPT ![request[h].v] = NewTask]
  BY DEF CreateInsert
<1>4. /\ tasks' \in [Voucher -> Task \union {None}]
      /\ \A v \in Voucher : tasks[v] # None => tasks'[v] # None
  BY <1>2, <1>3, RowAssumption DEF TypeOK, StoreTypeOK
<1>5. /\ Answer(h)
      /\ UNCHANGED <<now, config, successes, lock, worker, orders, faults, sts, grants>>
  BY DEF CreateInsert, rest
<1>6. QED
  BY <1>4, <1>5, AnswerShape DEF TypeOK, StoreTypeOK, WorkerTypeOK

LEMMA ResetCommitShape ==
  ASSUME Shape, NEW h \in Request, ResetCommit(h)
  PROVE  Shape'
<1> DEFINE v == request[h].v
           pending == [tasks[v] EXCEPT !.status = "PENDING"]
<1>1. v \in Voucher /\ tasks[v] \in Task
  BY DEF ResetCommit, RequestOnTask, TypeOK, StoreTypeOK
<1>2. pending \in Task
  BY <1>1 DEF Task, Status
<1> HIDE DEF pending
<1>3. [pending EXCEPT !.code = None] \in Task
  BY <1>2 DEF Task
<1>4. FreshState(v) \in ProviderState
  BY <1>1, FreshInType
<1>5. /\ sts' = sts \/ sts' = [sts EXCEPT ![v] = FreshState(v)]
      /\ grants' = grants \/ grants' = [grants EXCEPT ![v] = 0]
      /\ \/ tasks' = tasks \/ tasks' = [tasks EXCEPT ![v] = pending]
         \/ tasks' = [tasks EXCEPT ![v] = [pending EXCEPT !.code = None]]
  BY DEF ResetCommit, pending
<1> HIDE DEF v
<1>6. /\ tasks' \in [Voucher -> Task \union {None}]
      /\ \A u \in Voucher : tasks[u] # None => tasks'[u] # None
  BY <1>1, <1>2, <1>3, <1>5, RowAssumption DEF TypeOK, StoreTypeOK
<1>7. sts' \in [Voucher -> ProviderState \union {None}] /\ grants' \in [Voucher -> Nat]
      /\ \A u \in Voucher : sts[u] # None => sts'[u] # None
  BY <1>4, <1>5, RowAssumption DEF TypeOK, StoreTypeOK
<1>8. Answer(h) /\ UNCHANGED <<now, config, successes, lock, worker, orders, faults>>
  BY DEF ResetCommit, rest
<1>9. QED  BY <1>6, <1>7, <1>8, AnswerShape DEF TypeOK, WorkerTypeOK

LEMMA UpstreamCallShape ==
  ASSUME Shape, NEW h \in Request, UpstreamCall(h)
  PROVE  Shape'
<1>1. FivesimTypeOK'
  BY TryInType DEF UpstreamCall
<1>2. /\ request' = [request EXCEPT ![h].pc = "closing"]
      /\ UNCHANGED <<now, config, successes, tasks, sts, lock, grants, worker, faults>>
      /\ request[h].pc = "calling"
  BY DEF UpstreamCall, store
<1>3. StoreTypeOK' /\ WorkerTypeOK' /\ WorkerOnTask'
  BY <1>2 DEF TypeOK, StoreTypeOK, WorkerTypeOK, WorkerOnTask
<1>4. ApiTypeOK' /\ RequestOnTask'
  BY <1>2 DEF TypeOK, ApiTypeOK, RequestState, RequestOnTask
<1>5. QED  BY <1>1, <1>3, <1>4 DEF TypeOK

LEMMA CloseCommitShape ==
  ASSUME Shape, NEW h \in Request, CloseCommit(h)
  PROVE  Shape'
<1> DEFINE v == request[h].v
           closed == [tasks[v] EXCEPT !.status = request[h].target]
<1>1. v \in Voucher /\ tasks[v] \in Task /\ request[h].target \in Status
  BY DEF CloseCommit, RequestOnTask, TypeOK, StoreTypeOK, ApiTypeOK, RequestState,
         Status
<1>2. closed \in Task
  BY <1>1 DEF Task
<1>3. tasks' = tasks \/ tasks' = [tasks EXCEPT ![v] = closed]
  BY <1>1 DEF CloseCommit, TypeOK, StoreTypeOK
<1>4. /\ Answer(h)
      /\ UNCHANGED <<now, config, successes, lock, worker, orders, faults, sts, grants>>
  BY DEF CloseCommit, rest
<1> HIDE DEF v, closed
<1>5. /\ tasks' \in [Voucher -> Task \union {None}]
      /\ \A u \in Voucher : tasks[u] # None => tasks'[u] # None
  BY <1>1, <1>2, <1>3, RowAssumption DEF TypeOK, StoreTypeOK
<1>6. QED
  BY <1>4, <1>5, AnswerShape DEF TypeOK, StoreTypeOK, WorkerTypeOK

LEMMA RequestDiesShape ==
  ASSUME Shape, NEW h \in Request, RequestDies(h)
  PROVE  Shape'
<1>1. faults' \in 0 .. MaxFaults
  BY ConfigAssumption DEF RequestDies, TypeOK, WorkerTypeOK
<1>2. Answer(h)
      /\ UNCHANGED <<now, config, successes, tasks, sts, lock, grants, worker, orders>>
  BY DEF RequestDies, store
<1>3. QED  BY <1>1, <1>2, AnswerShape DEF TypeOK, StoreTypeOK

LEMMA EnvironmentShape ==
  ASSUME Shape, Environment, UNCHANGED <<worker, faults, request>>
  PROVE  Shape'
<1>1. StoreTypeOK'
  <2>1. CASE Tick
    BY <2>1, TimingAssumption DEF Tick, TypeOK, StoreTypeOK, Time
  <2>2. CASE PutConfig
    BY <2>2 DEF PutConfig, TypeOK, StoreTypeOK
  <2>3. CASE UNCHANGED store
    BY <2>3 DEF store, TypeOK, StoreTypeOK
  <2>4. QED  BY <2>1, <2>2, <2>3 DEF Environment, SmsArrives, UpstreamDrops
<1>2. FivesimTypeOK'
  BY DEF Environment, SmsArrives, UpstreamDrops, Bought, TypeOK, FivesimTypeOK,
         UpstreamOrder
<1>3. UNCHANGED <<tasks, sts>>
  BY DEF Environment, Tick, PutConfig, SmsArrives, UpstreamDrops, store
<1>4. WorkerTypeOK' /\ ApiTypeOK' /\ WorkerOnTask' /\ RequestOnTask'
  BY <1>3 DEF TypeOK, WorkerTypeOK, ApiTypeOK, WorkerOnTask, RequestOnTask
<1>5. QED  BY <1>1, <1>2, <1>4 DEF TypeOK

-----------------------------------------------------------------------------
(* Type correctness, with the shape of the work in progress.                 *)

LEMMA InitShape == Init => Shape
<1> SUFFICES ASSUME Init PROVE Shape
  OBVIOUS
<1>1. StoreTypeOK
  BY TimingAssumption DEF Init, StoreInit, StoreTypeOK, Time
<1>2. FivesimTypeOK /\ WorkerTypeOK /\ ApiTypeOK
  BY IdleInType, NoRequestInType, ConfigAssumption
  DEF Init, FivesimInit, WorkerInit, ApiInit, FivesimTypeOK, WorkerTypeOK, ApiTypeOK
<1>3. WorkerOnTask /\ RequestOnTask
  BY IdleInType, NoRequestInType
  DEF Init, WorkerInit, ApiInit, WorkerOnTask, RequestOnTask
<1>4. QED  BY <1>1, <1>2, <1>3 DEF TypeOK

LEMMA ApiStepShape ==
  ASSUME Shape, NEW h \in Request, ApiStep(h)
  PROVE  Shape'
  BY ReadShape, CreateInsertShape, ResetCommitShape, UpstreamCallShape,
     CloseCommitShape, RequestDiesShape DEF ApiStep

LEMMA StutterShape == ASSUME Shape, UNCHANGED vars PROVE Shape'
  BY DEF vars, store, TypeOK, StoreTypeOK, FivesimTypeOK, WorkerTypeOK, ApiTypeOK,
         WorkerOnTask, RequestOnTask

LEMMA NextShape == Shape /\ [Next]_vars => Shape'
<1> SUFFICES ASSUME Shape, [Next]_vars PROVE Shape'
  OBVIOUS
<1>1. CASE \E h \in Request : ApiStep(h)
  BY <1>1, ApiStepShape
<1>2. ASSUME NEW w \in Worker, WorkerStep(w), UNCHANGED request PROVE Shape'
  BY <1>2, WorkerStepShape
<1>3. ASSUME NEW w \in Worker, DbError(w) \/ Crash(w) \/ Restart(w), UNCHANGED request
      PROVE  Shape'
  BY <1>3, FaultShape
<1>4. CASE Environment /\ UNCHANGED <<worker, faults, request>>
  BY <1>4, EnvironmentShape
<1>5. CASE UNCHANGED vars
  BY <1>5, StutterShape
<1>6. QED  BY <1>1, <1>2, <1>3, <1>4, <1>5 DEF Next

(* Every state of the service is well typed, and every worker and handler in *)
(* the middle of its work holds a task that exists.                          *)
THEOREM TypeCorrect == Spec => []TypeOK
<1>1. Spec => []Shape
  BY InitShape, NextShape, PTL DEF Spec
<1>2. QED  BY <1>1, PTL

-----------------------------------------------------------------------------
(* A lease is respected: a worker tests the lease with a clock reading that  *)
(* is not ahead of the clock.                                                *)

ClocksBehind == \A w \in Worker : worker[w].claim <= now

LEMMA ClocksStep == Shape /\ ClocksBehind /\ [Next]_vars => ClocksBehind'
<1> SUFFICES ASSUME Shape, ClocksBehind, [Next]_vars PROVE ClocksBehind'
  OBVIOUS
<1> USE DEF ClocksBehind
<1>0. now \in Nat /\ \A w \in Worker : worker[w] \in WorkerState
  BY TimingAssumption DEF TypeOK, StoreTypeOK, WorkerTypeOK, Time
<1>idle. Idle.claim = 0
  BY DEF Idle
<1>1. CASE UNCHANGED <<now, worker>>
  BY <1>1
<1>2. CASE Tick /\ UNCHANGED worker
  BY <1>0, <1>2, TimingAssumption DEF Tick, WorkerState, Time
<1>3. ASSUME NEW w \in Worker, NEW n, worker' = [worker EXCEPT ![w] = n],
             n.claim = worker[w].claim \/ n.claim = 0 \/ n.claim = now, UNCHANGED now
      PROVE  ClocksBehind'
  BY <1>0, <1>3 DEF TypeOK, WorkerTypeOK
<1>4. ASSUME NEW w \in Worker, WorkerStep(w) \/ DbError(w) \/ Crash(w) \/ Restart(w)
      PROVE  ClocksBehind'
  <2>1. ASSUME NEW v \in Voucher, ClaimSelect(w, v) PROVE ClocksBehind'
    BY <1>3, <2>1 DEF ClaimSelect, store, Idle
  <2>2. ASSUME NEW pc, worker' = [worker EXCEPT ![w].pc = pc], UNCHANGED now
        PROVE  ClocksBehind'
    <3>1. worker' = [worker EXCEPT ![w] = [worker[w] EXCEPT !.pc = pc]]
          /\ [worker[w] EXCEPT !.pc = pc].claim = worker[w].claim
      BY <1>0, <2>2 DEF TypeOK, WorkerTypeOK, WorkerState
    <3>2. QED  BY <1>3, <2>2, <3>1
  <2>moved. ASSUME NEW pc, NEW owner, UNCHANGED now,
               worker' = [worker EXCEPT ![w].pc = pc, ![w].owner = owner]
        PROVE  ClocksBehind'
    BY <1>0, <2>moved DEF TypeOK, WorkerTypeOK, WorkerState
  <2>3. CASE worker' = [worker EXCEPT ![w] = Idle] /\ UNCHANGED now
    BY <1>3, <1>idle, <2>3
  <2>4. CASE Rollback(w)
    BY <1>3, <2>4 DEF Rollback, Idle
  <2>5. ASSUME NEW status, NEW st, Close(w, status, st) PROVE ClocksBehind'
    BY <2>3, <2>4, <2>5 DEF Close, Commit
  <2>6. CASE ClaimUpdate(w) \/ Unserviceable(w) \/ FinishCall(w) \/ FinishCommit(w)
             \/ ExpireCall(w) \/ ExpireCommit(w)
    <3>1. CASE ClaimUpdate(w)
      <4>1. CASE worker' = [worker EXCEPT ![w] = Idle]
        BY <2>3, <3>1, <4>1 DEF ClaimUpdate
      <4>2. CASE worker' = [worker EXCEPT ![w].pc = "claimed", ![w].now = now, ![w].owner = w]
        <5> DEFINE n == [worker[w] EXCEPT !.pc = "claimed", !.now = now, !.owner = w]
        <5>1. n.claim = worker[w].claim
          BY <1>0 DEF WorkerState
        <5>2. worker' = [worker EXCEPT ![w] = n]
          BY <4>2
        <5> HIDE DEF n
        <5>3. UNCHANGED now
          BY <3>1 DEF ClaimUpdate
        <5> QED BY <1>3, <5>1, <5>2, <5>3
      <4> QED BY <3>1, <4>1, <4>2 DEF ClaimUpdate
    <3>2. CASE Unserviceable(w)
      BY <2>3, <2>4, <3>2 DEF Unserviceable, Commit
    <3>3. CASE FinishCall(w) \/ ExpireCall(w)
      BY <2>2, <3>3 DEF FinishCall, ExpireCall, store
    <3>4. CASE FinishCommit(w)
      BY <2>3, <3>4 DEF FinishCommit, Commit
    <3>5. CASE ExpireCommit(w)
      BY <2>5, <3>5 DEF ExpireCommit
    <3> QED BY <2>6, <3>1, <3>2, <3>3, <3>4, <3>5
  <2>7. CASE AttemptsExhausted(w) \/ InflightWait(w)
             \/ BoughtCommit(w) \/ BuyFailedCommit(w) \/ RejectCommit(w)
             \/ OrderLost(w) \/ NoSmsYet(w) \/ CheckFails(w)
    BY <2>5, <2>7 DEF AttemptsExhausted, InflightWait, BoughtCommit,
       BuyFailedCommit, RejectCommit, OrderLost, NoSmsYet, CheckFails
  <2>8. CASE GuardCommit(w)
    <3>1. CASE Rollback(w)
      BY <2>4, <3>1
    <3>2. CASE ~Rollback(w)
      <4>1. worker' = [worker EXCEPT ![w].pc = "granted", ![w].st = Guarded(w)]
            /\ UNCHANGED now
        BY <2>8, <3>2 DEF GuardCommit, Commit
      <4>2. QED  BY <1>0, <4>1 DEF TypeOK, WorkerTypeOK, WorkerState
    <3>3. QED  BY <3>1, <3>2
  <2>9. CASE RefuseConfig(w)
    BY <2>moved, <2>9 DEF RefuseConfig, store
  <2>10. CASE BuyNumber(w) \/ BuyFallback(w)
    <3>1. ASSUME NEW owner, NEW onError, Purchase(w, owner, onError), UNCHANGED now
          PROVE  ClocksBehind'
      <4>1. ASSUME NEW o, NEW e,
                   worker' = [worker EXCEPT ![w].pc = "bought", ![w].owner = owner,
                                            ![w].st.order = o, ![w].st.expires = e]
            PROVE  ClocksBehind'
        BY <1>0, <3>1, <4>1 DEF TypeOK, WorkerTypeOK, WorkerState
      <4>2. QED  BY <2>moved, <3>1, <4>1 DEF Purchase
    <3>2. QED  BY <2>10, <3>1 DEF BuyNumber, BuyFallback, store
  <2>11. CASE DeliverCode(w)
    BY <2>3, <2>4, <2>11 DEF DeliverCode, Commit
  <2>12. CASE CleanupRead(w)
    <3> DEFINE n == [worker[w] EXCEPT !.pc = "cleaning",
                                      !.owner = tasks[worker[w].v].owner]
    <3>1. worker' = [worker EXCEPT ![w] = n] \/ worker' = [worker EXCEPT ![w] = Idle]
      BY <2>12 DEF CleanupRead, TypeOK, WorkerTypeOK
    <3>2. n.claim = worker[w].claim /\ UNCHANGED now
      BY <1>0, <2>12 DEF CleanupRead, store, WorkerState
    <3> HIDE DEF n
    <3>3. QED  BY <1>3, <2>3, <3>1, <3>2
  <2>13. CASE CleanupCommit(w) \/ Restart(w)
    BY <2>3, <2>13 DEF CleanupCommit, Restart, store
  <2>14. CASE DbError(w)
    BY <2>4, <2>14 DEF DbError
  <2>15. CASE Crash(w)
    BY <1>3, <2>15 DEF Crash, Idle
  <2>16. QED
    BY <1>4, <2>1, <2>6, <2>7, <2>8, <2>9, <2>10, <2>11, <2>12, <2>13, <2>14, <2>15
    DEF WorkerStep
<1>5. CASE \E h \in Request : ApiStep(h)
  <2>1. PICK h \in Request : ApiStep(h)
    BY <1>5
  <2>2. UNCHANGED <<now, worker>>
    <3>1. CASE CreateInsert(h) \/ ResetCommit(h) \/ CloseCommit(h)
      BY <3>1 DEF CreateInsert, ResetCommit, CloseCommit, rest
    <3>2. CASE UpstreamCall(h) \/ RequestDies(h)
      BY <3>2 DEF UpstreamCall, RequestDies, store
    <3>3. \A u, pc, target : Load(h, u, pc, target) => UNCHANGED <<now, worker>>
      BY DEF Load, rest
    <3> QED
      BY <2>1, <3>1, <3>2, <3>3
      DEF ApiStep, CreateRead, NextRead, CancelRead, DevCancelRead, CompleteRead
  <2> QED BY <1>1, <2>2
<1>6. CASE Environment /\ UNCHANGED worker
  BY <1>1, <1>2, <1>6 DEF Environment, PutConfig, SmsArrives, UpstreamDrops, store
<1>7. CASE UNCHANGED vars
  BY <1>1, <1>7 DEF vars, store
<1>8. QED  BY <1>4, <1>5, <1>6, <1>7 DEF Next

(* Only the claim's UPDATE takes a row lock.                                 *)
LEMMA LockTaken ==
  ASSUME Shape, [Next]_vars, NEW v \in Voucher, lock[v] = None, lock'[v] # None
  PROVE  \E w \in Worker : ClaimUpdate(w) /\ worker[w].v = v
                           /\ Claimable(tasks[v], worker[w].claim)
<1> DEFINE Kept == lock' = lock \/ (\E u : lock' = [lock EXCEPT ![u] = None])
<1>0. lock \in [Voucher -> Worker \union {None}]
  BY DEF TypeOK, StoreTypeOK
<1>1. ~Kept
  BY <1>0
<1>2. ASSUME NEW w \in Worker, WorkerStep(w) \/ DbError(w) \/ Crash(w) \/ Restart(w),
             ~ClaimUpdate(w)
      PROVE  FALSE
  <2>1. ~Rollback(w)
    BY <1>0, <1>1 DEF Rollback
  <2>2. \A task, st : ~Commit(w, task, st)
    BY <1>1 DEF Commit
  <2>3. \A status, st : ~Close(w, status, st)
    BY <2>1, <2>2 DEF Close
  <2>4. ~Crash(w)
    BY <1>0 DEF Crash
  <2>5. lock' # lock
    BY <1>1
  <2>6. QED
    BY <1>2, <2>1, <2>2, <2>3, <2>4, <2>5
    DEF WorkerStep, ClaimSelect, Unserviceable, FinishCall, FinishCommit, ExpireCall,
        ExpireCommit, AttemptsExhausted, InflightWait, GuardCommit, RefuseConfig,
        BuyNumber, BuyFallback, BoughtCommit, BuyFailedCommit, RejectCommit,
        DeliverCode, OrderLost, NoSmsYet, CheckFails, CleanupRead, CleanupCommit,
        DbError, Restart, store
<1>3. ASSUME NEW h \in Request, ApiStep(h) PROVE FALSE
  <2>1. lock' # lock
    BY <1>1
  <2>2. ~(CreateInsert(h) \/ ResetCommit(h) \/ CloseCommit(h))
    BY <2>1 DEF CreateInsert, ResetCommit, CloseCommit, rest
  <2>3. ~(UpstreamCall(h) \/ RequestDies(h))
    BY <2>1 DEF UpstreamCall, RequestDies, store
  <2>4. \A u, pc, target : ~Load(h, u, pc, target)
    BY <2>1 DEF Load, rest
  <2>5. QED
    BY <1>3, <2>2, <2>3, <2>4
    DEF ApiStep, CreateRead, NextRead, CancelRead, DevCancelRead, CompleteRead
<1>4. ~Environment /\ ~UNCHANGED vars
  BY <1>1 DEF Environment, Tick, PutConfig, SmsArrives, UpstreamDrops, vars, store
<1>5. PICK w \in Worker : ClaimUpdate(w)
  BY <1>2, <1>3, <1>4 DEF Next
<1>6. worker[w].v = v /\ Claimable(tasks[v], worker[w].claim)
  BY <1>0, <1>1, <1>5 DEF ClaimUpdate
<1>7. QED  BY <1>5, <1>6

(* While the lease of a task runs nobody claims it, however the claims,      *)
(* crashes and restarts of any number of workers interleave.                 *)
THEOREM LeaseSafe == Spec => LeaseRespected
<1> DEFINE Inv == Shape /\ ClocksBehind
<1>1. Init => Inv
  BY InitShape, IdleInType DEF Init, WorkerInit, StoreInit, ClocksBehind, Idle
<1>2. Inv /\ [Next]_vars => Inv'
  BY NextShape, ClocksStep
<1>3. Inv /\ [Next]_vars => ClaimsPassOverLeases
  <2> SUFFICES ASSUME Inv, [Next]_vars, NEW v \in Voucher, Leased(v),
                      lock[v] = None, lock'[v] # None
               PROVE  FALSE
    BY DEF ClaimsPassOverLeases
  <2>1. PICK w \in Worker : Claimable(tasks[v], worker[w].claim)
    BY LockTaken
  <2>2. tasks[v].status = "PROCESSING" /\ tasks[v] \in Task
    BY DEF Leased, HasStatus, TypeOK, StoreTypeOK
  <2>3. Due(tasks[v].until, worker[w].claim)
    BY <2>1, <2>2 DEF Claimable, Lapsed
  <2>4. worker[w].claim \in Int /\ now \in Int /\ worker[w].claim <= now
    BY TimingAssumption
    DEF ClocksBehind, TypeOK, StoreTypeOK, WorkerTypeOK, WorkerState, Time
  <2>5. tasks[v].until # None => tasks[v].until \in Int
    BY <2>2, TimingAssumption DEF Task, Deadline, Time
  <2>6. QED  BY <2>3, <2>4, <2>5 DEF Due, Leased
<1> HIDE DEF Inv
<1>4. QED  BY <1>1, <1>2, <1>3, PTL DEF Spec, LeaseRespected

-----------------------------------------------------------------------------
(* Codes and leases. A code is that of an order bought for its own voucher   *)
(* because every order a row or a worker refers to was, which is therefore   *)
(* part of the invariant.                                                    *)

Owned(o, v) == o # None => o \in Order /\ Bought(o) /\ orders[o].voucher = v

OwnedNext(o, v) ==
    o # None => o \in Order /\ orders'[o] # None /\ orders'[o].voucher = v

StatesOwned == \A v \in Voucher : sts[v] # None => Owned(sts[v].order, v)

WorkersOwned ==
    \A w \in Worker :
        worker[w].pc \notin {"idle", "down"} /\ worker[w].st # None
          => Owned(worker[w].st.order, worker[w].v)

Ownership == /\ StatesOwned /\ WorkersOwned
             /\ CodeFromOwnOrder /\ ProcessingHasLease

(* What a step may do to the rows of a voucher, and to a worker's copy.      *)
TaskStep(v) ==
    \/ tasks'[v] = tasks[v]
    \/ /\ \/ tasks'[v].code = None
          \/ tasks[v] # None /\ tasks'[v].code = tasks[v].code
          \/ /\ tasks'[v].code \in Order
             /\ HasSms(tasks'[v].code) /\ orders[tasks'[v].code].voucher = v
       /\ tasks'[v].status = "PROCESSING" =>
            tasks'[v].owner # None /\ tasks'[v].until # None

StateStep(v) == sts'[v] = sts[v] \/ Owned(sts'[v].order, v)

CopyStep(w) ==
    \/ worker'[w].pc \in {"idle", "down"}
    \/ worker'[w].st = None
    \/ /\ worker[w].pc \notin {"idle", "down"} /\ worker[w].st # None
       /\ worker'[w].v = worker[w].v /\ worker'[w].st.order = worker[w].st.order
    \/ OwnedNext(worker'[w].st.order, worker'[w].v)

(* An order stays with its voucher, and an SMS that came does not go away.   *)
OrderStep(o) ==
    orders[o] # None =>
      /\ orders'[o] # None /\ orders'[o].voucher = orders[o].voucher
      /\ orders[o].state \in {"RECEIVED", "FINISHED"} =>
           orders'[o].state \in {"RECEIVED", "FINISHED"}

LEMMA OwnershipStep ==
  ASSUME Shape, Shape', Ownership,
         \A v \in Voucher : TaskStep(v) /\ StateStep(v),
         \A w \in Worker : CopyStep(w),
         \A o \in Order : OrderStep(o)
  PROVE  Ownership'
<1>1. \A o, v : Owned(o, v) => OwnedNext(o, v)
  BY DEF Owned, OwnedNext, OrderStep, Bought
<1>2. StatesOwned'
  <2>1. \A v \in Voucher : sts'[v] # None => OwnedNext(sts'[v].order, v)
    BY <1>1 DEF Ownership, StatesOwned, StateStep
  <2>2. QED  BY <2>1 DEF StatesOwned, Owned, OwnedNext, Bought
<1>3. WorkersOwned'
  <2>1. \A w \in Worker : worker'[w].pc \notin {"idle", "down"} /\ worker'[w].st # None
          => OwnedNext(worker'[w].st.order, worker'[w].v)
    BY <1>1 DEF Ownership, WorkersOwned, CopyStep
  <2>2. QED  BY <2>1 DEF WorkersOwned, Owned, OwnedNext, Bought
<1>4. CodeFromOwnOrder'
  <2> SUFFICES ASSUME NEW v \in Voucher, tasks'[v] # None, tasks'[v].code # None
               PROVE  /\ orders'[tasks'[v].code] # None
                      /\ orders'[tasks'[v].code].state \in {"RECEIVED", "FINISHED"}
                      /\ orders'[tasks'[v].code].voucher = v
    BY DEF CodeFromOwnOrder, HasSms, Bought
  <2>1. tasks'[v].code \in Order
    BY DEF TypeOK, StoreTypeOK, Task
  <2>2. HasSms(tasks'[v].code) /\ orders[tasks'[v].code].voucher = v
    BY DEF TaskStep, Ownership, CodeFromOwnOrder
  <2>3. QED  BY <2>1, <2>2 DEF OrderStep, HasSms, Bought
<1>5. ProcessingHasLease'
  BY DEF Ownership, ProcessingHasLease, HasStatus, TaskStep
<1>6. QED  BY <1>2, <1>3, <1>4, <1>5 DEF Ownership

(* Orders: what 5sim and its callers may do keeps them.                      *)
LEMMA OrdersKept ==
  ASSUME Shape, NEW o \in Order,
         \/ UNCHANGED orders
         \/ \E p : TryCancel(p) \/ TryFinish(p) \/ SmsArrives(p) \/ UpstreamDrops(p)
         \/ \E p \in Stock : \E v, id : Buy(p, v, id)
  PROVE  OrderStep(o)
<1>1. orders[o] # None => orders[o] \in UpstreamOrder
  BY DEF TypeOK, FivesimTypeOK
<1>2. CASE UNCHANGED orders
  BY <1>2 DEF OrderStep
<1>3. ASSUME NEW p, TryCancel(p) \/ TryFinish(p) \/ SmsArrives(p) \/ UpstreamDrops(p)
      PROVE  OrderStep(o)
  <2>1. \/ UNCHANGED orders
        \/ /\ orders[p] # None /\ orders[p].state = "PENDING"
           /\ \/ orders' = [orders EXCEPT ![p].state = "CANCELED"]
              \/ orders' = [orders EXCEPT ![p].state = "RECEIVED"]
        \/ /\ orders[p] # None /\ orders[p].state = "RECEIVED"
           /\ orders' = [orders EXCEPT ![p].state = "FINISHED"]
    BY <1>3 DEF TryCancel, TryFinish, SmsArrives, UpstreamDrops, Bought
  <2>2. orders'[o] = orders[o]
        \/ \E state \in {"RECEIVED", "FINISHED", "CANCELED"} :
             /\ orders'[o] = [orders[o] EXCEPT !.state = state]
             /\ orders[o] # None
             /\ \/ orders[o].state = "PENDING"
                \/ orders[o].state = "RECEIVED" /\ state = "FINISHED"
    BY <2>1 DEF TypeOK, FivesimTypeOK
  <2>3. CASE orders'[o] = orders[o]
    BY <2>3 DEF OrderStep
  <2>4. ASSUME NEW state \in {"RECEIVED", "FINISHED", "CANCELED"},
               orders'[o] = [orders[o] EXCEPT !.state = state], orders[o] # None,
               \/ orders[o].state = "PENDING"
               \/ orders[o].state = "RECEIVED" /\ state = "FINISHED"
        PROVE  OrderStep(o)
    <3>1. orders'[o] \in UpstreamOrder /\ orders'[o].voucher = orders[o].voucher
          /\ orders'[o].state = state
      BY <1>1, <2>4 DEF UpstreamOrder
    <3>2. orders'[o] # None
      BY <3>1, OrderAssumption
    <3>3. QED  BY <2>4, <3>1, <3>2 DEF OrderStep
  <2>5. QED  BY <2>2, <2>3, <2>4
<1>4. ASSUME NEW p \in Stock, NEW v, NEW id, Buy(p, v, id) PROVE OrderStep(o)
  <2>1. orders[o] # None => orders'[o] = orders[o]
    BY <1>4 DEF Buy, Stock, TypeOK, FivesimTypeOK
  <2>2. QED  BY <2>1 DEF OrderStep
<1>5. QED  BY <1>2, <1>3, <1>4

LEMMA CurrentOwned ==
  ASSUME Shape, Ownership, NEW w \in Worker, worker[w].pc \notin {"idle", "down"},
         NoClash(worker[w].st, worker[w].v)
  PROVE  Owned(Current(w).order, worker[w].v)
<1>1. CASE worker[w].st = None
  BY <1>1 DEF Current, FreshState, Owned
<1>2. CASE worker[w].st # None
  BY <1>2 DEF Current, WorkerOnTask, Ownership, StatesOwned
<1>3. QED  BY <1>1, <1>2

(* A commit of worker w touches its own voucher's rows only.                 *)
LEMMA CommitOwned ==
  ASSUME Shape, Shape', Ownership, NEW w \in Worker, NEW task, NEW st,
         worker[w].pc \notin {"idle", "down"},
         Commit(w, task, st), UNCHANGED orders,
         \/ task.code = tasks[worker[w].v].code
         \/ task.code = OrderOf(w) /\ HasSms(OrderOf(w)) /\ OrderOf(w) # None,
         task.status = "PROCESSING" => task.owner # None /\ task.until # None,
         st = sts[worker[w].v] \/ Owned(st.order, worker[w].v),
         \A x \in Worker : x # w => worker'[x] = worker[x],
         CopyStep(w)
  PROVE  Ownership'
<1>1. worker[w].v \in Voucher /\ tasks[worker[w].v] # None
  BY DEF WorkerOnTask
<1>2. \A v \in Voucher : v # worker[w].v => tasks'[v] = tasks[v] /\ sts'[v] = sts[v]
  BY <1>1 DEF Commit, TypeOK, StoreTypeOK
<1>3. tasks'[worker[w].v] = task /\ sts'[worker[w].v] = st
  BY <1>1 DEF Commit, TypeOK, StoreTypeOK
<1>4. StateStep(worker[w].v)
  BY <1>3 DEF StateStep
<1>5. OrderOf(w) # None => Owned(OrderOf(w), worker[w].v)
  BY DEF OrderOf, Ownership, WorkersOwned
<1>6. TaskStep(worker[w].v)
  BY <1>1, <1>3, <1>5 DEF TaskStep, Owned
<1>7. \A v \in Voucher : TaskStep(v) /\ StateStep(v)
  BY <1>2, <1>4, <1>6 DEF TaskStep, StateStep
<1>8. \A x \in Worker : CopyStep(x)
  BY DEF CopyStep
<1>9. \A o \in Order : OrderStep(o)
  BY OrdersKept
<1>10. QED  BY <1>7, <1>8, <1>9, OwnershipStep

(* A step that leaves both tables alone.                                     *)
LEMMA LocalOwned ==
  ASSUME Shape, Shape', Ownership, UNCHANGED <<tasks, sts>>,
         \A w \in Worker : CopyStep(w), \A o \in Order : OrderStep(o)
  PROVE  Ownership'
  BY OwnershipStep DEF TaskStep, StateStep

LEMMA SameCopies ==
  ASSUME UNCHANGED worker, NEW w \in Worker
  PROVE  CopyStep(w)
  BY DEF CopyStep

(* Idle copies, and those of a worker whose program counter alone moved.     *)
LEMMA CopyMoves ==
  ASSUME Shape, Ownership, NEW w \in Worker, NEW n,
         worker' = [worker EXCEPT ![w] = n],
         n.pc \in {"idle", "down"} \/ n.st = None
           \/ (worker[w].pc \notin {"idle", "down"} /\ n.v = worker[w].v
                 /\ n.st = worker[w].st)
           \/ (n.v \in Voucher /\ n.st = sts[n.v] /\ UNCHANGED orders),
         \A o \in Order : OrderStep(o)
  PROVE  \A x \in Worker : CopyStep(x)
<1>1. worker'[w] = n
  BY DEF TypeOK, WorkerTypeOK
<1>2. CASE n.v \in Voucher /\ n.st = sts[n.v] /\ n.st # None /\ UNCHANGED orders
  <2>1. Owned(n.st.order, n.v)
    BY <1>2 DEF Ownership, StatesOwned
  <2>2. OwnedNext(worker'[w].st.order, worker'[w].v)
    BY <1>1, <1>2, <2>1 DEF Owned, OwnedNext, Bought
  <2>3. CopyStep(w)
    BY <2>2 DEF CopyStep
  <2>4. \A x \in Worker \ {w} : worker'[x] = worker[x]
    BY DEF TypeOK, WorkerTypeOK
  <2>5. QED  BY <2>3, <2>4 DEF CopyStep
<1>3. CASE ~(n.v \in Voucher /\ n.st = sts[n.v] /\ n.st # None /\ UNCHANGED orders)
  <2>1. CopyStep(w)
    BY <1>1, <1>3 DEF CopyStep
  <2>2. \A x \in Worker \ {w} : worker'[x] = worker[x]
    BY DEF TypeOK, WorkerTypeOK
  <2>3. QED  BY <2>1, <2>2 DEF CopyStep
<1>4. QED  BY <1>2, <1>3

LEMMA RollbackOwned ==
  ASSUME Shape, Shape', Ownership, NEW w \in Worker, Rollback(w), UNCHANGED orders
  PROVE  Ownership'
<1> DEFINE n == [Idle EXCEPT !.pc = "rolledback", !.v = worker[w].v]
<1>1. worker' = [worker EXCEPT ![w] = n] /\ UNCHANGED <<tasks, sts>>
  BY DEF Rollback
<1>2. n.st = None
  BY DEF Idle
<1>3. \A o \in Order : OrderStep(o)
  BY OrdersKept
<1> HIDE DEF n
<1>4. \A x \in Worker : CopyStep(x)
  BY <1>1, <1>2, <1>3, CopyMoves
<1>5. QED  BY <1>1, <1>3, <1>4, LocalOwned

(* A worker that goes idle with its commit.                                  *)
LEMMA IdleCommitOwned ==
  ASSUME Shape, Shape', Ownership, NEW w \in Worker, NEW task, NEW st,
         worker[w].pc \notin {"idle", "down"},
         Commit(w, task, st), worker' = [worker EXCEPT ![w] = Idle], UNCHANGED orders,
         \/ task.code = tasks[worker[w].v].code
         \/ task.code = OrderOf(w) /\ HasSms(OrderOf(w)) /\ OrderOf(w) # None,
         task.status = "PROCESSING" => task.owner # None /\ task.until # None,
         st = sts[worker[w].v] \/ Owned(st.order, worker[w].v)
  PROVE  Ownership'
<1>1. CopyStep(w) /\ \A x \in Worker : x # w => worker'[x] = worker[x]
  BY IdleInType DEF CopyStep, TypeOK, WorkerTypeOK
<1>2. QED  BY <1>1, CommitOwned

LEMMA CloseOwned ==
  ASSUME Shape, Shape', Ownership, NEW w \in Worker, NEW status \in Status, NEW st,
         worker[w].pc \notin {"idle", "down"}, Close(w, status, st),
         status # "PROCESSING",
         NoClash(worker[w].st, worker[w].v) => Owned(st.order, worker[w].v),
         UNCHANGED orders
  PROVE  Ownership'
<1>1. CASE Rollback(w)
  BY <1>1, RollbackOwned
<1>2. CASE ~Rollback(w)
  <2>1. worker[w].v \in Voucher /\ tasks[worker[w].v] \in Task
    BY DEF WorkerOnTask, TypeOK, StoreTypeOK
  <2>2. Released(w, status).code = tasks[worker[w].v].code
        /\ Released(w, status).status = status
    BY <2>1 DEF Released, Task
  <2>3. QED  BY <1>2, <2>2, IdleCommitOwned DEF Close
<1>3. QED  BY <1>1, <1>2

LEMMA ReleaseOwned ==
  ASSUME Shape, Shape', Ownership, NEW w \in Worker, NEW status \in Status,
         worker[w].pc \notin {"idle", "down"}, Close(w, status, Current(w)),
         status # "PROCESSING", UNCHANGED orders
  PROVE  Ownership'
  BY CloseOwned, CurrentOwned DEF WorkerOnTask

LEMMA PollOwned ==
  ASSUME Shape, Shape', Ownership, NEW w \in Worker, NEW status \in Status, NEW t,
         worker[w].pc \notin {"idle", "down"},
         Close(w, status, [Current(w) EXCEPT !.poll = t]),
         status # "PROCESSING", UNCHANGED orders
  PROVE  Ownership'
<1>1. worker[w].v \in Voucher
  BY DEF WorkerOnTask
<1>2. NoClash(worker[w].st, worker[w].v)
        => Owned([Current(w) EXCEPT !.poll = t].order, worker[w].v)
  <2>1. ASSUME NEW cur \in ProviderState PROVE [cur EXCEPT !.poll = t].order = cur.order
    BY DEF ProviderState
  <2>2. QED  BY <1>1, <2>1, CurrentOwned, CurrentInType
<1> DEFINE st == [Current(w) EXCEPT !.poll = t]
<1>3. Close(w, status, st) /\ (NoClash(worker[w].st, worker[w].v) => Owned(st.order, worker[w].v))
  BY <1>2
<1> HIDE DEF st
<1>4. QED  BY <1>3, CloseOwned

(* A worker that only moves on, whatever it asks of 5sim.                    *)
LEMMA MoveOwned ==
  ASSUME Shape, Shape', Ownership, NEW w \in Worker, NEW pc \in Phase,
         worker[w].pc \notin {"idle", "down"},
         Moved(w, pc), UNCHANGED <<tasks, sts>>, \A o \in Order : OrderStep(o)
  PROVE  Ownership'
<1>1. PICK n \in WorkerState :
        /\ worker' = [worker EXCEPT ![w] = n]
        /\ n.v = worker[w].v /\ n.st = worker[w].st
  BY Moves
<1>2. \A x \in Worker : CopyStep(x)
  BY <1>1, CopyMoves
<1>3. QED  BY <1>2, LocalOwned

LEMMA IdleOwned ==
  ASSUME Shape, Shape', Ownership, NEW w \in Worker, NEW n,
         worker' = [worker EXCEPT ![w] = n], n.pc \in {"idle", "down"},
         UNCHANGED <<tasks, sts, orders>>
  PROVE  Ownership'
<1>1. \A o \in Order : OrderStep(o)
  BY OrdersKept
<1>2. \A x \in Worker : CopyStep(x)
  BY <1>1, CopyMoves
<1>3. QED  BY <1>1, <1>2, LocalOwned

LEMMA ClaimOwned ==
  ASSUME Shape, Shape', Ownership, NEW w \in Worker, NEW v \in Voucher,
         ClaimSelect(w, v) \/ ClaimUpdate(w)
  PROVE  Ownership'
<1>1. UNCHANGED <<tasks, sts, orders>> /\ \A o \in Order : OrderStep(o)
  BY OrdersKept DEF ClaimSelect, ClaimUpdate, store
<1>2. CASE ClaimSelect(w, v)
  <2> DEFINE n == [Idle EXCEPT !.pc = "selected", !.v = v, !.claim = now, !.st = sts[v],
                   !.cfg = config,
                   !.count = IF config = None THEN 0 ELSE successes[config]]
  <2>1. worker' = [worker EXCEPT ![w] = n] /\ n.v = v /\ n.st = sts[v]
    BY <1>2 DEF ClaimSelect, Idle
  <2> HIDE DEF n
  <2>2. \A x \in Worker : CopyStep(x)
    BY <1>1, <2>1, CopyMoves
  <2>3. QED  BY <1>1, <2>2, LocalOwned
<1>3. CASE ClaimUpdate(w)
  <2>1. now \in Time
    BY DEF TypeOK, StoreTypeOK
  <2>2. QED
    BY <1>1, <1>3, <2>1, MoveOwned, IdleOwned, IdleInType
    DEF ClaimUpdate, Moved, Phase, Locking
<1>4. QED  BY <1>2, <1>3

LEMMA UnserviceableOwned ==
  ASSUME Shape, Shape', Ownership, NEW w \in Worker, Unserviceable(w)
  PROVE  Ownership'
<1>1. CASE Rollback(w)
  BY <1>1, RollbackOwned DEF Unserviceable
<1>2. CASE NoClash(worker[w].st, worker[w].v) /\ ~Rollback(w)
  <2> DEFINE task == [tasks[worker[w].v] EXCEPT !.status = "FAILED", !.owner = w,
                                                !.until = LeaseUntil(w)]
  <2>1. worker[w].pc = "claimed" /\ worker[w].v \in Voucher /\ tasks[worker[w].v] \in Task
    BY DEF Unserviceable, WorkerOnTask, TypeOK, StoreTypeOK
  <2>2. task.code = tasks[worker[w].v].code /\ task.status = "FAILED"
    BY <2>1 DEF Task
  <2>3. /\ Commit(w, task, Current(w)) /\ worker' = [worker EXCEPT ![w] = Idle]
        /\ UNCHANGED orders
    BY <1>2 DEF Unserviceable
  <2> HIDE DEF task
  <2>4. Owned(Current(w).order, worker[w].v)
    BY <1>2, <2>1, CurrentOwned
  <2>5. QED  BY <2>1, <2>2, <2>3, <2>4, IdleCommitOwned
<1>3. QED  BY <1>1, <1>2 DEF Unserviceable

LEMMA GuardOwned ==
  ASSUME Shape, Shape', Ownership, NEW w \in Worker, GuardCommit(w)
  PROVE  Ownership'
<1>1. worker[w].pc = "claimed" /\ worker[w].v \in Voucher /\ tasks[worker[w].v] \in Task
  BY DEF GuardCommit, Unbought, WorkerOnTask, TypeOK, StoreTypeOK
<1>2. CASE Rollback(w)
  BY <1>2, RollbackOwned DEF GuardCommit
<1>3. CASE NoClash(worker[w].st, worker[w].v) /\ ~Rollback(w)
  <2> DEFINE task == [tasks[worker[w].v] EXCEPT !.status = "PROCESSING", !.owner = w,
                                                !.until = LeaseUntil(w)]
  <2>1. task.code = tasks[worker[w].v].code /\ task.owner = w /\ task.until = LeaseUntil(w)
    BY <1>1 DEF Task
  <2>2. w # None /\ LeaseUntil(w) # None
    BY LeaseInTime, NoneAssumption, TimingAssumption DEF Time
  <2>3. /\ Commit(w, task, Guarded(w)) /\ UNCHANGED orders
        /\ worker' = [worker EXCEPT ![w].pc = "granted", ![w].st = Guarded(w)]
    BY <1>3 DEF GuardCommit
  <2> HIDE DEF task
  <2>4. Current(w) \in ProviderState /\ Owned(Current(w).order, worker[w].v)
    BY <1>1, <1>3, CurrentInType, CurrentOwned
  <2>5. Guarded(w).order = Current(w).order
    BY <2>4 DEF Guarded, ProviderState
  <2>6. /\ worker'[w].st = Guarded(w) /\ worker'[w].v = worker[w].v
        /\ \A x \in Worker : x # w => worker'[x] = worker[x]
    BY <2>3 DEF TypeOK, WorkerTypeOK, WorkerState
  <2>7. CopyStep(w)
    BY <2>3, <2>4, <2>5, <2>6 DEF CopyStep, Owned, OwnedNext, Bought
  <2>8. QED  BY <1>1, <2>1, <2>2, <2>3, <2>4, <2>5, <2>6, <2>7, CommitOwned
<1>4. QED  BY <1>2, <1>3 DEF GuardCommit

LEMMA PurchaseOwned ==
  ASSUME Shape, Shape', Ownership, NEW w \in Worker, NEW onError \in Buying,
         NEW owner \in Worker \union {None},
         worker[w].pc \in Buying, Purchase(w, owner, onError), UNCHANGED store
  PROVE  Ownership'
<1>1. worker[w].pc \notin {"idle", "down"} /\ onError \in Phase
      /\ UNCHANGED <<tasks, sts>>
  BY DEF Buying, Phase, store
<1>2. \A o \in Order : OrderStep(o)
  BY OrdersKept DEF Purchase
<1>3. CASE worker' = [worker EXCEPT ![w].pc = onError, ![w].owner = owner]
  BY <1>1, <1>2, <1>3, MoveOwned DEF Moved
<1>4. ASSUME NEW o \in Stock, NEW e, Buy(o, worker[w].v, worker[w].st.round),
             worker' = [worker EXCEPT ![w].pc = "bought", ![w].owner = owner,
                                      ![w].st.order = o, ![w].st.expires = e]
      PROVE  Ownership'
  <2>1. worker[w].st \in ProviderState /\ worker[w] \in WorkerState
    BY DEF WorkerOnTask, Buying, TypeOK, WorkerTypeOK, WorkerState
  <2>2. /\ worker'[w].st.order = o /\ worker'[w].v = worker[w].v
        /\ \A x \in Worker : x # w => worker'[x] = worker[x]
    BY <1>4, <2>1 DEF TypeOK, WorkerTypeOK, WorkerState, ProviderState
  <2>3. o \in Order /\ orders'[o] # None /\ orders'[o].voucher = worker[w].v
    <3>1. o \in Order /\ orders'[o] = [voucher |-> worker[w].v, round |-> worker[w].st.round,
                                       state |-> "PENDING"]
      BY <1>4 DEF Buy, Stock, TypeOK, FivesimTypeOK
    <3>2. orders'[o] \in UpstreamOrder
      BY <2>1, <3>1, <1>1 DEF UpstreamOrder, WorkerOnTask, ProviderState
    <3>3. QED  BY <3>1, <3>2, OrderAssumption
  <2>4. \A x \in Worker : CopyStep(x)
    BY <2>2, <2>3 DEF CopyStep, OwnedNext
  <2>5. QED  BY <1>1, <1>2, <2>4, LocalOwned
<1>5. QED  BY <1>3, <1>4 DEF Purchase

LEMMA BoughtOwned ==
  ASSUME Shape, Shape', Ownership, NEW w \in Worker, BoughtCommit(w)
  PROVE  Ownership'
<1> DEFINE st == [Current(w) EXCEPT !.order = worker[w].st.order,
                    !.expires = worker[w].st.expires,
                    !.poll = Later(worker[w].now, Poll), !.inflight = None]
<1>1. worker[w].pc = "bought" /\ worker[w].st # None /\ worker[w].v \in Voucher
  BY DEF BoughtCommit, WorkerOnTask, Buying
<1>2. Owned(worker[w].st.order, worker[w].v)
  BY <1>1 DEF Ownership, WorkersOwned
<1>3. NoClash(worker[w].st, worker[w].v) => st.order = worker[w].st.order
  <2>1. ASSUME NEW cur \in ProviderState
        PROVE  [cur EXCEPT !.order = worker[w].st.order,
                  !.expires = worker[w].st.expires,
                  !.poll = Later(worker[w].now, Poll), !.inflight = None].order
                 = worker[w].st.order
    BY DEF ProviderState
  <2>2. QED  BY <1>1, <2>1, CurrentInType
<1>4. Close(w, "WAITING_SMS", st) /\ UNCHANGED orders
  BY DEF BoughtCommit
<1> HIDE DEF st
<1>5. QED  BY <1>1, <1>2, <1>3, <1>4, CloseOwned DEF Status

LEMMA DeliverOwned ==
  ASSUME Shape, Shape', Ownership, NEW w \in Worker, DeliverCode(w)
  PROVE  Ownership'
<1>1. /\ worker[w].pc = "claimed" /\ worker[w].v \in Voucher
      /\ tasks[worker[w].v] \in Task /\ OrderOf(w) # None /\ HasSms(OrderOf(w))
  BY DEF DeliverCode, Waiting, Answered, WorkerOnTask, TypeOK, StoreTypeOK
<1>2. CASE Rollback(w)
  BY <1>2, RollbackOwned DEF DeliverCode
<1>3. CASE ~Rollback(w)
  <2> DEFINE task == [Released(w, "CODE_READY") EXCEPT !.code = OrderOf(w)]
  <2>1. task.code = OrderOf(w) /\ task.status = "CODE_READY"
    BY <1>1 DEF Released, Task
  <2>2. /\ Commit(w, task, sts[worker[w].v]) /\ worker' = [worker EXCEPT ![w] = Idle]
        /\ UNCHANGED orders
    BY <1>3 DEF DeliverCode
  <2> HIDE DEF task
  <2>3. QED  BY <1>1, <2>1, <2>2, IdleCommitOwned
<1>4. QED  BY <1>2, <1>3

LEMMA FinishOwned ==
  ASSUME Shape, Shape', Ownership, NEW w \in Worker,
         FinishCall(w) \/ FinishCommit(w)
  PROVE  Ownership'
<1>1. CASE FinishCall(w)
  <2>1. UNCHANGED <<tasks, sts>> /\ \A o \in Order : OrderStep(o)
    BY <1>1, OrdersKept DEF FinishCall, store
  <2>2. QED  BY <1>1, <2>1, MoveOwned DEF FinishCall, Moved, Phase, Locking
<1>2. CASE FinishCommit(w)
  <2>1. tasks[worker[w].v] \in Task
    BY <1>2 DEF FinishCommit, WorkerOnTask, TypeOK, StoreTypeOK
  <2>2. /\ Released(w, "DONE").code = tasks[worker[w].v].code
        /\ Released(w, "DONE").status = "DONE"
    BY <2>1 DEF Released, Task
  <2>3. QED  BY <1>2, <2>2, IdleCommitOwned DEF FinishCommit
<1>3. QED  BY <1>1, <1>2

LEMMA ExpireOwned ==
  ASSUME Shape, Shape', Ownership, NEW w \in Worker,
         ExpireCall(w) \/ ExpireCommit(w)
  PROVE  Ownership'
<1>1. CASE ExpireCall(w)
  <2>1. UNCHANGED <<tasks, sts>> /\ \A o \in Order : OrderStep(o)
    BY <1>1, OrdersKept DEF ExpireCall, store
  <2>2. QED  BY <1>1, <2>1, MoveOwned DEF ExpireCall, Moved, Phase, Locking
<1>2. CASE ExpireCommit(w)
  BY <1>2, ReleaseOwned DEF ExpireCommit, Status
<1>3. QED  BY <1>1, <1>2

LEMMA NoPurchaseOwned ==
  ASSUME Shape, Shape', Ownership, NEW w \in Worker,
         AttemptsExhausted(w) \/ InflightWait(w)
  PROVE  Ownership'
<1>1. CASE AttemptsExhausted(w)
  BY <1>1, ReleaseOwned DEF AttemptsExhausted, Unbought, Status
<1>2. CASE InflightWait(w)
  BY <1>2, PollOwned DEF InflightWait, Unbought, Status
<1>3. QED  BY <1>1, <1>2

LEMMA BuyOwned ==
  ASSUME Shape, Shape', Ownership, NEW w \in Worker,
         RefuseConfig(w) \/ BuyNumber(w) \/ BuyFallback(w)
  PROVE  Ownership'
<1>1. CASE RefuseConfig(w)
  <2>1. UNCHANGED <<tasks, sts>> /\ \A o \in Order : OrderStep(o)
    BY <1>1, OrdersKept DEF RefuseConfig, store
  <2>2. worker[w].pc = "granted" /\ (Moved(w, "failed") \/ Moved(w, "rejected"))
    BY <1>1, OwnerInType DEF RefuseConfig, Moved
  <2>3. QED  BY <2>1, <2>2, MoveOwned DEF Phase, Buying
<1>2. CASE BuyNumber(w)
  BY <1>2, PurchaseOwned, OwnerInType DEF BuyNumber, Buying
<1>3. CASE BuyFallback(w)
  BY <1>3, PurchaseOwned, OwnerInType DEF BuyFallback, Buying
<1>4. QED  BY <1>1, <1>2, <1>3

LEMMA NotBoughtOwned ==
  ASSUME Shape, Shape', Ownership, NEW w \in Worker,
         BuyFailedCommit(w) \/ RejectCommit(w)
  PROVE  Ownership'
<1>1. CASE BuyFailedCommit(w)
  BY <1>1, PollOwned DEF BuyFailedCommit, Status
<1>2. CASE RejectCommit(w)
  BY <1>2, ReleaseOwned DEF RejectCommit, Status
<1>3. QED  BY <1>1, <1>2

LEMMA CheckOwned ==
  ASSUME Shape, Shape', Ownership, NEW w \in Worker,
         OrderLost(w) \/ NoSmsYet(w) \/ CheckFails(w)
  PROVE  Ownership'
<1>1. CASE OrderLost(w)
  BY <1>1, ReleaseOwned DEF OrderLost, Waiting, Status
<1>2. CASE NoSmsYet(w)
  BY <1>2, PollOwned DEF NoSmsYet, Waiting, Status
<1>3. CASE CheckFails(w)
  BY <1>3, PollOwned DEF CheckFails, Waiting, Status
<1>4. QED  BY <1>1, <1>2, <1>3

(* A step that rewrites the task of one voucher, and no worker's copy.       *)
LEMMA TaskOwned ==
  ASSUME Shape, Shape', Ownership, NEW v \in Voucher, NEW task,
         tasks' = [tasks EXCEPT ![v] = task],
         task.code = None \/ (tasks[v] # None /\ task.code = tasks[v].code),
         task.status # "PROCESSING",
         \A u \in Voucher : StateStep(u), \A x \in Worker : CopyStep(x),
         UNCHANGED orders
  PROVE  Ownership'
<1>1. \A u \in Voucher : TaskStep(u)
  BY DEF TaskStep, TypeOK, StoreTypeOK
<1>2. \A o \in Order : OrderStep(o)
  BY OrdersKept
<1>3. QED  BY <1>1, <1>2, OwnershipStep

LEMMA CleanupOwned ==
  ASSUME Shape, Shape', Ownership, NEW w \in Worker,
         CleanupRead(w) \/ CleanupCommit(w)
  PROVE  Ownership'
<1>1. worker[w].pc \notin {"idle", "down"} /\ worker[w].v \in Voucher
      /\ tasks[worker[w].v] \in Task /\ worker[w] \in WorkerState
  BY DEF CleanupRead, CleanupCommit, WorkerOnTask, TypeOK, StoreTypeOK, WorkerTypeOK
<1>2. CASE CleanupRead(w)
  <2>1. UNCHANGED <<tasks, sts, orders>> /\ \A o \in Order : OrderStep(o)
    BY <1>2, OrdersKept DEF CleanupRead, store
  <2>2. CASE worker' = [worker EXCEPT ![w] = Idle]
    BY <2>1, <2>2, IdleOwned, IdleInType
  <2>3. CASE worker' # [worker EXCEPT ![w] = Idle]
    <3> DEFINE n == [worker[w] EXCEPT !.pc = "cleaning",
                                      !.owner = tasks[worker[w].v].owner]
    <3>1. worker' = [worker EXCEPT ![w] = n]
      BY <1>2, <2>3 DEF CleanupRead, TypeOK, WorkerTypeOK
    <3>2. n.v = worker[w].v /\ n.st = worker[w].st
      BY <1>1 DEF WorkerState
    <3> HIDE DEF n
    <3>3. \A x \in Worker : CopyStep(x)
      BY <1>1, <2>1, <3>1, <3>2, CopyMoves
    <3>4. QED  BY <2>1, <3>3, LocalOwned
  <2>4. QED  BY <2>2, <2>3
<1>3. CASE CleanupCommit(w)
  <2> DEFINE task == Released(w, "FAILED")
  <2>1. task.code = tasks[worker[w].v].code /\ task.status = "FAILED"
    BY <1>1, ReleasedInType DEF Status
  <2>2. tasks' = [tasks EXCEPT ![worker[w].v] = task]
    BY <1>3 DEF CleanupCommit
  <2>3. \A u \in Voucher : StateStep(u)
    BY <1>3 DEF CleanupCommit, StateStep
  <2>4. \A x \in Worker : CopyStep(x)
    BY <1>3, IdleInType DEF CleanupCommit, CopyStep, TypeOK, WorkerTypeOK
  <2>5. tasks[worker[w].v] # None /\ UNCHANGED orders
    BY <1>1, <1>3, RowAssumption DEF CleanupCommit
  <2> HIDE DEF task
  <2>6. QED  BY <1>1, <2>1, <2>2, <2>3, <2>4, <2>5, TaskOwned
<1>4. QED  BY <1>2, <1>3

LEMMA WorkerStepOwned ==
  ASSUME Shape, Shape', Ownership, NEW w \in Worker, WorkerStep(w)
  PROVE  Ownership'
<1>1. CASE (\E v \in Voucher : ClaimSelect(w, v)) \/ ClaimUpdate(w)
  <2>1. CASE \E v \in Voucher : ClaimSelect(w, v)
    BY <2>1, ClaimOwned
  <2>2. CASE ClaimUpdate(w)
    <3>1. worker[w].v \in Voucher
      BY <2>2 DEF ClaimUpdate, WorkerOnTask
    <3>2. QED  BY <2>2, <3>1, ClaimOwned
  <2>3. QED  BY <1>1, <2>1, <2>2
<1>2. CASE Unserviceable(w) \/ FinishCall(w) \/ FinishCommit(w)
           \/ ExpireCall(w) \/ ExpireCommit(w)
  BY <1>2, UnserviceableOwned, FinishOwned, ExpireOwned
<1>3. CASE AttemptsExhausted(w) \/ InflightWait(w) \/ GuardCommit(w)
  BY <1>3, NoPurchaseOwned, GuardOwned
<1>4. CASE RefuseConfig(w) \/ BuyNumber(w) \/ BuyFallback(w)
  BY <1>4, BuyOwned
<1>5. CASE BoughtCommit(w) \/ BuyFailedCommit(w) \/ RejectCommit(w)
  BY <1>5, BoughtOwned, NotBoughtOwned
<1>6. CASE DeliverCode(w) \/ OrderLost(w) \/ NoSmsYet(w) \/ CheckFails(w)
  BY <1>6, DeliverOwned, CheckOwned
<1>7. CASE CleanupRead(w) \/ CleanupCommit(w)
  BY <1>7, CleanupOwned
<1>8. QED  BY <1>1, <1>2, <1>3, <1>4, <1>5, <1>6, <1>7 DEF WorkerStep

LEMMA FaultOwned ==
  ASSUME Shape, Shape', Ownership, NEW w \in Worker,
         DbError(w) \/ Crash(w) \/ Restart(w)
  PROVE  Ownership'
<1>1. CASE DbError(w)
  BY <1>1, RollbackOwned DEF DbError
<1>2. CASE Crash(w)
  <2> DEFINE n == [Idle EXCEPT !.pc = "down"]
  <2>1. n.pc = "down" /\ worker' = [worker EXCEPT ![w] = n]
        /\ UNCHANGED <<tasks, sts, orders>>
    BY <1>2 DEF Crash, Idle
  <2> HIDE DEF n
  <2>2. QED  BY <2>1, IdleOwned
<1>3. CASE Restart(w)
  BY <1>3, IdleOwned, IdleInType DEF Restart, store
<1>4. QED  BY <1>1, <1>2, <1>3

-----------------------------------------------------------------------------
(* The handlers and the environment.                                         *)

(* A step that leaves the tables, the orders and the workers' copies alone.  *)
LEMMA ElsewhereOwned ==
  ASSUME Shape, Shape', Ownership, UNCHANGED <<tasks, sts, worker>>,
         \A o \in Order : OrderStep(o)
  PROVE  Ownership'
<1>1. \A w \in Worker : CopyStep(w)
  BY SameCopies
<1>2. QED  BY <1>1, LocalOwned

LEMMA ReadOwned ==
  ASSUME Shape, Shape', Ownership, NEW h \in Request, NEW v \in Voucher,
         \/ CreateRead(h, v) \/ NextRead(h, v) \/ CancelRead(h, v)
         \/ DevCancelRead(h, v) \/ CompleteRead(h, v)
  PROVE  Ownership'
<1>1. UNCHANGED <<tasks, sts, worker, orders>>
  BY DEF CreateRead, NextRead, CancelRead, DevCancelRead, CompleteRead, Load, rest
<1>2. \A o \in Order : OrderStep(o)
  BY <1>1, OrdersKept
<1>3. QED  BY <1>1, <1>2, ElsewhereOwned

LEMMA CreateInsertOwned ==
  ASSUME Shape, Shape', Ownership, NEW h \in Request, CreateInsert(h)
  PROVE  Ownership'
<1>1. request[h].v \in Voucher
  BY DEF CreateInsert, RequestOnTask
<1>2. UNCHANGED <<sts, worker, orders>> /\ \A o \in Order : OrderStep(o)
  BY OrdersKept DEF CreateInsert, rest
<1>3. \A x \in Worker : CopyStep(x)
  BY <1>2, SameCopies
<1>4. \A u \in Voucher : StateStep(u)
  BY <1>2 DEF StateStep
<1>5. CASE tasks' = tasks
  BY <1>2, <1>5, ElsewhereOwned
<1>6. CASE tasks' = [tasks EXCEPT ![request[h].v] = NewTask]
  BY <1>1, <1>2, <1>3, <1>4, <1>6, TaskOwned, NewTaskInType
<1>7. QED  BY <1>5, <1>6 DEF CreateInsert

LEMMA ResetCommitOwned ==
  ASSUME Shape, Shape', Ownership, NEW h \in Request, ResetCommit(h)
  PROVE  Ownership'
<1>1. /\ request[h].v \in Voucher /\ tasks[request[h].v] # None
      /\ tasks[request[h].v] \in Task
  BY DEF ResetCommit, RequestOnTask, TypeOK, StoreTypeOK
<1>2. UNCHANGED <<worker, orders>> /\ \A o \in Order : OrderStep(o)
  BY OrdersKept DEF ResetCommit, rest
<1>3. \A x \in Worker : CopyStep(x)
  BY <1>2, SameCopies
<1>4. CASE UNCHANGED <<sts, tasks>>
  BY <1>2, <1>4, ElsewhereOwned
<1>5. CASE ~UNCHANGED <<sts, tasks>>
  <2> DEFINE pending == [tasks[request[h].v] EXCEPT !.status = "PENDING"]
             task == IF request[h].seen.code = None THEN pending
                     ELSE [pending EXCEPT !.code = None]
  <2>1. /\ sts' = [sts EXCEPT ![request[h].v] = FreshState(request[h].v)]
        /\ tasks' = [tasks EXCEPT ![request[h].v] = task]
    BY <1>5 DEF ResetCommit
  <2>2. task.code \in {None, tasks[request[h].v].code} /\ task.status = "PENDING"
    BY <1>1 DEF Task
  <2> HIDE DEF task
  <2>3. FreshState(request[h].v).order = None
    BY DEF FreshState
  <2>4. \A u \in Voucher : StateStep(u)
    BY <2>1, <2>3 DEF StateStep, Owned, TypeOK, StoreTypeOK
  <2>5. QED  BY <1>1, <1>2, <1>3, <2>1, <2>2, <2>4, TaskOwned
<1>6. QED  BY <1>4, <1>5

LEMMA CloseCommitOwned ==
  ASSUME Shape, Shape', Ownership, NEW h \in Request, CloseCommit(h)
  PROVE  Ownership'
<1>1. /\ request[h].v \in Voucher /\ tasks[request[h].v] # None
      /\ tasks[request[h].v] \in Task
      /\ request[h].target \in {"PENDING", "CANCELED", "DONE"}
  BY DEF CloseCommit, RequestOnTask, TypeOK, StoreTypeOK, ApiTypeOK, RequestState
<1>2. UNCHANGED <<sts, worker, orders>> /\ \A o \in Order : OrderStep(o)
  BY OrdersKept DEF CloseCommit, rest
<1>3. \A x \in Worker : CopyStep(x)
  BY <1>2, SameCopies
<1>4. \A u \in Voucher : StateStep(u)
  BY <1>2 DEF StateStep
<1>5. CASE tasks' = tasks
  BY <1>2, <1>5, ElsewhereOwned
<1>6. CASE tasks' # tasks
  <2> DEFINE task == [tasks[request[h].v] EXCEPT !.status = request[h].target]
  <2>1. task.code = tasks[request[h].v].code /\ task.status # "PROCESSING"
    BY <1>1 DEF Task
  <2>2. tasks' = [tasks EXCEPT ![request[h].v] = task]
    BY <1>6 DEF CloseCommit, TypeOK, StoreTypeOK
  <2> HIDE DEF task
  <2>3. QED  BY <1>1, <1>2, <1>3, <1>4, <2>1, <2>2, TaskOwned
<1>7. QED  BY <1>5, <1>6

LEMMA ApiStepOwned ==
  ASSUME Shape, Shape', Ownership, NEW h \in Request, ApiStep(h)
  PROVE  Ownership'
<1>1. CASE UpstreamCall(h)
  <2>1. UNCHANGED <<tasks, sts, worker>> /\ \A o \in Order : OrderStep(o)
    BY <1>1, OrdersKept DEF UpstreamCall, store
  <2>2. QED  BY <2>1, ElsewhereOwned
<1>2. CASE RequestDies(h)
  <2>1. UNCHANGED <<tasks, sts, worker>> /\ \A o \in Order : OrderStep(o)
    BY <1>2, OrdersKept DEF RequestDies, store
  <2>2. QED  BY <2>1, ElsewhereOwned
<1>3. QED  BY <1>1, <1>2, ReadOwned, CreateInsertOwned, ResetCommitOwned,
              CloseCommitOwned DEF ApiStep

LEMMA EnvironmentOwned ==
  ASSUME Shape, Shape', Ownership, Environment, UNCHANGED <<worker, faults, request>>
  PROVE  Ownership'
<1>1. UNCHANGED <<tasks, sts>> /\ \A o \in Order : OrderStep(o)
  BY OrdersKept DEF Environment, Tick, PutConfig, SmsArrives, UpstreamDrops, store
<1>2. QED  BY <1>1, ElsewhereOwned

LEMMA OwnershipNext == Shape /\ Ownership /\ [Next]_vars => Ownership'
<1> SUFFICES ASSUME Shape, Ownership, [Next]_vars PROVE Ownership'
  OBVIOUS
<1>1. Shape'
  BY NextShape
<1>2. CASE UNCHANGED vars
  <2>1. UNCHANGED <<tasks, sts, worker, orders>> /\ \A o \in Order : OrderStep(o)
    BY <1>2, OrdersKept DEF vars, store
  <2>2. QED  BY <1>1, <2>1, ElsewhereOwned
<1>3. CASE Next
  BY <1>1, <1>3, ApiStepOwned, WorkerStepOwned, FaultOwned, EnvironmentOwned DEF Next
<1>4. QED  BY <1>2, <1>3

LEMMA OwnershipInit == Init => Ownership
  BY IdleInType DEF Init, StoreInit, WorkerInit, Ownership, StatesOwned, WorkersOwned,
     CodeFromOwnOrder, ProcessingHasLease, HasStatus

LEMMA OwnershipInvariant == Spec => []Ownership
<1>1. Init => Shape /\ Ownership
  BY InitShape, OwnershipInit
<1>2. Shape /\ Ownership /\ [Next]_vars => (Shape /\ Ownership)'
  BY NextShape, OwnershipNext
<1>3. QED  BY <1>1, <1>2, PTL DEF Spec

(* The code a task shows always came with an order bought for its voucher    *)
(* that received an SMS, however workers, handlers and faults interleave.    *)
THEOREM CodesSafe == Spec => []CodeFromOwnOrder
<1>1. Ownership => CodeFromOwnOrder
  BY DEF Ownership
<1>2. QED  BY <1>1, OwnershipInvariant, PTL

(* No PROCESSING task is ever without an owner and a lease, so none is out   *)
(* of the reach of a claim for good.                                         *)
THEOREM LeasesSet == Spec => []ProcessingHasLease
<1>1. Ownership => ProcessingHasLease
  BY DEF Ownership
<1>2. QED  BY <1>1, OwnershipInvariant, PTL
=============================================================================
