----------------------------- MODULE LifeProofs -----------------------------
(***************************************************************************)
(* What becomes of a delivered code, and that the redeem service           *)
(* implements TaskLife. The parts that need a single handler, or a single  *)
(* worker, per voucher at a time say so in their hypotheses.               *)
(***************************************************************************)
EXTENDS RedeemLife, RedeemProofs

Choosing == {"selected", "claimed"}
Open == {"PENDING", "PROCESSING", "WAITING_SMS"}

(* What a worker's step does to the task it works on. All leave the other    *)
(* workers, the handlers and the configuration alone.                        *)
Others(w) == \A x \in Worker \ {w} : worker'[x] = worker[x]

Frees(w) ==
    \A u \in Voucher : lock'[u] = lock[u] \/ (lock[u] = w /\ lock'[u] = None)

(* It loads a task; a delivered one only when its order's time is up.        *)
Selects(w) ==
    LET n == worker'[w] IN
    /\ worker[w].pc = "idle" /\ n.pc = "selected" /\ n.v \in Voucher
    /\ n.st = sts[n.v] /\ n.cfg = config /\ n.claim = now
    /\ HasStatus(n.v, {"CODE_READY"}) => sts[n.v] # None /\ Due(sts[n.v].expires, now)
    /\ UNCHANGED <<tasks, lock>>

Remembers(w) ==
    /\ worker'[w].v = worker[w].v /\ worker'[w].cfg = worker[w].cfg
    /\ worker'[w].claim = worker[w].claim

Claims(w) ==
    /\ worker[w].pc = "selected" /\ worker'[w].pc = "claimed"
    /\ Remembers(w) /\ worker'[w].st = worker[w].st /\ worker'[w].now = now
    /\ HasStatus(worker[w].v, Open \union {"CODE_READY"})
    /\ lock[worker[w].v] = None /\ lock' = [lock EXCEPT ![worker[w].v] = w]
    /\ UNCHANGED tasks

(* It moves on without a word to the database.                               *)
Goes(w) ==
    /\ Remembers(w) /\ worker'[w].now = worker[w].now
    /\ \/ /\ worker[w].pc = "claimed" /\ Serviceable(w)
          /\ \/ worker'[w].pc = "finished" /\ CodeExpired(w)
             \/ worker'[w].pc = "expired" /\ Overdue(w)
       \/ worker[w].pc \in Buying /\ worker'[w].pc \in Buying
       \/ /\ worker[w].pc = "rolledback" /\ worker'[w].pc = "cleaning"
          /\ HasStatus(worker[w].v, Open)
    /\ UNCHANGED <<tasks, lock>>

Leaves(w) ==
    /\ worker'[w].pc \in {"idle", "rolledback", "down"} /\ worker'[w].cfg = None
    /\ Frees(w) /\ UNCHANGED tasks

(* It writes the task, which it has locked or which nobody has.              *)
Writes(w, status, code) ==
    LET v == worker[w].v IN
    /\ v \in Voucher /\ tasks[v] # None
    /\ tasks'[v] # None /\ tasks'[v].status = status /\ tasks'[v].code = code
    /\ \A u \in Voucher \ {v} : tasks'[u] = tasks[u]
    /\ worker[w].pc \in Locking \/ lock[v] = None
    /\ Frees(w)

Ends(w) == worker'[w].pc = "idle" /\ worker'[w].cfg = None

Decides(w) ==
    LET code == tasks[worker[w].v].code IN
    /\ worker[w].pc = "claimed" /\ ~(Serviceable(w) /\ CodeExpired(w))
    /\ \/ Ends(w) /\ \E s \in {"FAILED", "WAITING_SMS"} : Writes(w, s, code)
       \/ worker'[w].pc = "granted" /\ Remembers(w) /\ Writes(w, "PROCESSING", code)
       \/ /\ Ends(w) /\ Serviceable(w)
          /\ OrderOf(w) \in Order /\ Writes(w, "CODE_READY", OrderOf(w))

Finishes(w) ==
    worker[w].pc = "finished" /\ Ends(w) /\ Writes(w, "DONE", tasks[worker[w].v].code)

Expires(w) ==
    worker[w].pc = "expired" /\ Ends(w) /\ Writes(w, "FAILED", tasks[worker[w].v].code)

Concludes(w) ==
    /\ worker[w].pc \in Buying \union {"cleaning"} /\ Ends(w)
    /\ \E s \in {"FAILED", "WAITING_SMS"} : Writes(w, s, tasks[worker[w].v].code)

WorkerKinds(w) ==
    /\ Others(w) /\ UNCHANGED <<config, request>>
    /\ \/ Selects(w) \/ Claims(w) \/ Goes(w) \/ Leaves(w)
       \/ Decides(w) \/ Finishes(w) \/ Expires(w) \/ Concludes(w)

(* A row lock is held by the worker it is held for, so that what a worker    *)
(* writes in the claim's transaction is the row as its claim found it.       *)
Locked == \A w \in Worker : worker[w].pc \in Locking => lock[worker[w].v] = w

-----------------------------------------------------------------------------
(* The worker's actions, each as one of the kinds.                           *)

LEMMA OneMoves ==
  ASSUME Shape, NEW w \in Worker, NEW n, worker' = [worker EXCEPT ![w] = n]
  PROVE  worker'[w] = n /\ Others(w)
  BY DEF Shape, TypeOK, WorkerTypeOK, Others

LEMMA IdleEnds ==
  ASSUME Shape, NEW w \in Worker, worker' = [worker EXCEPT ![w] = Idle]
  PROVE  Ends(w) /\ Others(w)
<1>1. Idle.pc = "idle" /\ Idle.cfg = None
  BY DEF Idle
<1>2. QED  BY <1>1, OneMoves DEF Ends

LEMMA IdleLeaves ==
  ASSUME Shape, NEW w \in Worker, worker' = [worker EXCEPT ![w] = Idle],
         UNCHANGED <<config, request, tasks, lock>>
  PROVE  WorkerKinds(w)
  BY IdleEnds DEF Ends, Leaves, Frees, WorkerKinds

LEMMA RollbackLeaves ==
  ASSUME Shape, NEW w \in Worker, Rollback(w), UNCHANGED request
  PROVE  WorkerKinds(w)
<1> DEFINE n == [Idle EXCEPT !.pc = "rolledback", !.v = worker[w].v]
<1>1. n.pc = "rolledback" /\ n.cfg = None
  BY DEF Idle
<1>2. worker' = [worker EXCEPT ![w] = n] /\ UNCHANGED <<tasks, config>>
  BY DEF Rollback
<1>3. Frees(w)
  BY DEF Rollback, Frees, Shape, TypeOK, StoreTypeOK
<1> HIDE DEF n
<1>4. worker'[w] = n /\ Others(w)
  BY <1>2, OneMoves
<1>5. QED  BY <1>1, <1>2, <1>3, <1>4 DEF Leaves, WorkerKinds

(* What a commit writes.                                                     *)
LEMMA CommitWrites ==
  ASSUME Shape, Locked, NEW w \in Worker, worker[w].pc \notin {"idle", "down"},
         NEW task, NEW st, Commit(w, task, st), task \in Task,
         worker[w].pc \in Locking \/ lock[worker[w].v] = None
  PROVE  Writes(w, task.status, task.code)
<1> DEFINE v == worker[w].v
<1>1. v \in Voucher /\ tasks[v] # None
  BY DEF Shape, WorkerOnTask
<1>2. /\ tasks'[v] = task /\ task # None
      /\ \A u \in Voucher \ {v} : tasks'[u] = tasks[u]
  BY <1>1, RowAssumption DEF Commit, Shape, TypeOK, StoreTypeOK
<1>3. Frees(w)
  BY <1>1 DEF Locked, Commit, Frees, Shape, TypeOK, StoreTypeOK
<1>4. QED  BY <1>1, <1>2, <1>3 DEF Writes

LEMMA CloseWrites ==
  ASSUME Shape, Locked, NEW w \in Worker, worker[w].pc \notin {"idle", "down"},
         NEW status \in Status, NEW st, Close(w, status, st), UNCHANGED request,
         worker[w].pc \in Locking \/ lock[worker[w].v] = None
  PROVE  \/ WorkerKinds(w)
         \/ /\ Ends(w) /\ Others(w) /\ UNCHANGED <<config, request>>
            /\ Writes(w, status, tasks[worker[w].v].code)
<1>1. CASE Rollback(w)
  BY <1>1, RollbackLeaves
<1>2. CASE ~Rollback(w)
  <2>1. Commit(w, Released(w, status), st) /\ worker' = [worker EXCEPT ![w] = Idle]
    BY <1>2 DEF Close
  <2>2. /\ Released(w, status) \in Task /\ Released(w, status).status = status
        /\ Released(w, status).code = tasks[worker[w].v].code
    BY ReleasedInType
  <2>3. Writes(w, status, tasks[worker[w].v].code)
    BY <2>1, <2>2, CommitWrites
  <2>4. UNCHANGED config
    BY <2>1 DEF Commit
  <2>5. QED  BY <2>1, <2>3, <2>4, IdleEnds
<1>3. QED  BY <1>1, <1>2

LEMMA ClaimSelectKind ==
  ASSUME Shape, NEW w \in Worker, NEW v \in Voucher, ClaimSelect(w, v),
         UNCHANGED request
  PROVE  WorkerKinds(w)
<1> DEFINE n == [Idle EXCEPT !.pc = "selected", !.v = v, !.claim = now, !.st = sts[v],
                   !.cfg = config,
                   !.count = IF config = None THEN 0 ELSE successes[config]]
<1>1. n.pc = "selected" /\ n.v = v /\ n.st = sts[v] /\ n.cfg = config /\ n.claim = now
  BY DEF Idle
<1>2. worker' = [worker EXCEPT ![w] = n] /\ worker[w].pc = "idle"
      /\ UNCHANGED <<tasks, lock, config>>
  BY DEF ClaimSelect, store
<1> HIDE DEF n
<1>3. worker'[w] = n /\ Others(w)
  BY <1>2, OneMoves
<1>4. HasStatus(v, {"CODE_READY"}) => sts[v] # None /\ Due(sts[v].expires, now)
  BY DEF ClaimSelect, Selectable, HasStatus, Lapsed
<1>5. Selects(w)
  BY <1>1, <1>2, <1>3, <1>4 DEF Selects
<1>6. QED  BY <1>2, <1>3, <1>5 DEF WorkerKinds

LEMMA ClaimUpdateKind ==
  ASSUME Shape, NEW w \in Worker, ClaimUpdate(w), UNCHANGED request
  PROVE  WorkerKinds(w)
<1>1. CASE worker' = [worker EXCEPT ![w] = Idle] /\ UNCHANGED lock
  BY <1>1, IdleLeaves DEF ClaimUpdate
<1>2. CASE ~(worker' = [worker EXCEPT ![w] = Idle] /\ UNCHANGED lock)
  <2>1. worker[w].pc = "selected" /\ worker[w] \in WorkerState
        /\ tasks[worker[w].v] # None
    BY DEF ClaimUpdate, Shape, WorkerOnTask, TypeOK, WorkerTypeOK
  <2>2. /\ Claimable(tasks[worker[w].v], worker[w].claim)
        /\ worker' = [worker EXCEPT ![w].pc = "claimed", ![w].now = now, ![w].owner = w]
        /\ lock[worker[w].v] = None /\ lock' = [lock EXCEPT ![worker[w].v] = w]
        /\ UNCHANGED <<tasks, config>>
    BY <1>2 DEF ClaimUpdate
  <2>3. HasStatus(worker[w].v, Open \union {"CODE_READY"})
    BY <2>1, <2>2 DEF Claimable, Lapsed, HasStatus, Open
  <2> DEFINE n == [worker[w] EXCEPT !.pc = "claimed", !.now = now, !.owner = w]
  <2>4. worker' = [worker EXCEPT ![w] = n]
    BY <2>1, <2>2 DEF Shape, TypeOK, WorkerTypeOK, WorkerState
  <2>5. n.pc = "claimed" /\ n.v = worker[w].v /\ n.st = worker[w].st /\ n.now = now
        /\ n.cfg = worker[w].cfg /\ n.claim = worker[w].claim
    BY <2>1 DEF WorkerState
  <2> HIDE DEF n
  <2>6. worker'[w] = n /\ Others(w)
    BY <2>4, OneMoves
  <2>7. Claims(w)
    BY <2>1, <2>2, <2>3, <2>5, <2>6 DEF Claims, Remembers
  <2>8. QED  BY <2>2, <2>6, <2>7 DEF WorkerKinds
<1>3. QED  BY <1>1, <1>2

(* A worker that only goes on.                                               *)
Stays(w, pc) == worker' = [worker EXCEPT ![w].pc = pc]
MovesOn(w, pc, owner) == worker' = [worker EXCEPT ![w].pc = pc, ![w].owner = owner]
Obtains(w, owner, o, e) ==
    worker' = [worker EXCEPT ![w].pc = "bought", ![w].owner = owner,
                             ![w].st.order = o, ![w].st.expires = e]

LEMMA MoveOn ==
  ASSUME Shape, NEW w \in Worker, NEW pc,
         \/ Stays(w, pc)
         \/ \E owner : MovesOn(w, pc, owner)
         \/ pc = "bought" /\ \E owner, o, e : Obtains(w, owner, o, e)
  PROVE  /\ worker'[w].pc = pc /\ Remembers(w) /\ worker'[w].now = worker[w].now
         /\ Others(w)
<1>1. worker[w] \in WorkerState /\ worker \in [Worker -> WorkerState]
  BY DEF Shape, TypeOK, WorkerTypeOK
<1>2. CASE Stays(w, pc)
  BY <1>1, <1>2 DEF WorkerState, Remembers, Others, Stays
<1>3. ASSUME NEW owner, MovesOn(w, pc, owner)
      PROVE  /\ worker'[w].pc = pc /\ Remembers(w) /\ worker'[w].now = worker[w].now
             /\ Others(w)
  BY <1>1, <1>3 DEF WorkerState, Remembers, Others, MovesOn
<1>4. ASSUME NEW owner, NEW o, NEW e, Obtains(w, owner, o, e), pc = "bought"
      PROVE  /\ worker'[w].pc = pc /\ Remembers(w) /\ worker'[w].now = worker[w].now
             /\ Others(w)
  BY <1>1, <1>4 DEF WorkerState, Remembers, Others, Obtains
<1>5. QED  BY <1>2, <1>3, <1>4

LEMMA CallKind ==
  ASSUME Shape, NEW w \in Worker, FinishCall(w) \/ ExpireCall(w), UNCHANGED request
  PROVE  WorkerKinds(w)
<1>1. UNCHANGED <<tasks, lock, config>> /\ worker[w].pc = "claimed" /\ Serviceable(w)
  BY DEF FinishCall, ExpireCall, store
<1>2. CASE FinishCall(w)
  BY <1>1, <1>2, MoveOn DEF FinishCall, Stays, Goes, WorkerKinds
<1>3. CASE ExpireCall(w)
  BY <1>1, <1>3, MoveOn DEF ExpireCall, Stays, Goes, WorkerKinds
<1>4. QED  BY <1>2, <1>3

LEMMA PurchaseKind ==
  ASSUME Shape, NEW w \in Worker, UNCHANGED request,
         RefuseConfig(w) \/ BuyNumber(w) \/ BuyFallback(w)
  PROVE  WorkerKinds(w)
<1>1. UNCHANGED <<tasks, lock, config>> /\ worker[w].pc \in Buying
  BY DEF RefuseConfig, BuyNumber, BuyFallback, store, Buying
<1>2. \E pc \in Buying : \/ \E owner : MovesOn(w, pc, owner)
                         \/ pc = "bought" /\ \E owner, o, e : Obtains(w, owner, o, e)
  <2>1. CASE RefuseConfig(w)
    <3>1. PICK pc \in {"failed", "rejected"} :
             worker' = [worker EXCEPT ![w].pc = pc,
                                      ![w].owner = tasks[worker[w].v].owner]
      BY <2>1 DEF RefuseConfig
    <3>2. MovesOn(w, pc, tasks[worker[w].v].owner) /\ pc \in Buying
      BY <3>1 DEF MovesOn, Buying
    <3>3. QED  BY <3>2
  <2>2. ASSUME NEW owner, NEW onError \in Buying, Purchase(w, owner, onError)
        PROVE  \/ MovesOn(w, onError, owner)
               \/ \E o, e : Obtains(w, owner, o, e)
    BY <2>2 DEF Purchase, MovesOn, Obtains
  <2>3. CASE BuyNumber(w) \/ BuyFallback(w)
    <3>1. PICK owner : \E onError \in Buying : Purchase(w, owner, onError)
      BY <2>3 DEF BuyNumber, BuyFallback, Buying
    <3>2. PICK onError \in Buying : Purchase(w, owner, onError)
      BY <3>1
    <3>3. MovesOn(w, onError, owner) \/ \E o, e : Obtains(w, owner, o, e)
      BY <2>2, <3>2
    <3>4. "bought" \in Buying
      BY DEF Buying
    <3>5. QED  BY <3>3, <3>4
  <2>4. QED  BY <2>1, <2>3
<1>3. Goes(w) /\ Others(w)
  BY <1>1, <1>2, MoveOn DEF Goes
<1>4. QED  BY <1>1, <1>3 DEF WorkerKinds

(* Decisions that give the task up with a status of its own.                 *)
LEMMA GiveUpKind ==
  ASSUME Shape, Locked, NEW w \in Worker, worker[w].pc = "claimed",
         ~(Serviceable(w) /\ CodeExpired(w)), NEW status \in {"FAILED", "WAITING_SMS"},
         NEW st, Close(w, status, st), UNCHANGED request
  PROVE  WorkerKinds(w)
<1>1. status \in Status /\ worker[w].pc \in Locking
  BY DEF Status, Locking
<1>2. CASE WorkerKinds(w)
  BY <1>2
<1>3. CASE /\ Ends(w) /\ Others(w) /\ UNCHANGED <<config, request>>
           /\ Writes(w, status, tasks[worker[w].v].code)
  BY <1>3 DEF Decides, WorkerKinds
<1>4. QED  BY <1>1, <1>2, <1>3, CloseWrites

LEMMA UndecidedKind ==
  ASSUME Shape, Locked, NEW w \in Worker, UNCHANGED request,
         \/ AttemptsExhausted(w) \/ InflightWait(w)
         \/ OrderLost(w) \/ NoSmsYet(w) \/ CheckFails(w)
  PROVE  WorkerKinds(w)
<1>1. worker[w].pc = "claimed" /\ ~(Serviceable(w) /\ CodeExpired(w))
  BY DEF AttemptsExhausted, InflightWait, Unbought, CodeExpired,
         OrderLost, NoSmsYet, CheckFails, Waiting
<1>2. \E status \in {"FAILED", "WAITING_SMS"} : \E st : Close(w, status, st)
  BY DEF AttemptsExhausted, InflightWait, OrderLost, NoSmsYet, CheckFails
<1>3. QED  BY <1>1, <1>2, GiveUpKind

LEMMA UnserviceableKind ==
  ASSUME Shape, Locked, NEW w \in Worker, Unserviceable(w), UNCHANGED request
  PROVE  WorkerKinds(w)
<1>1. worker[w].pc = "claimed" /\ ~Serviceable(w) /\ worker[w].v \in Voucher
      /\ tasks[worker[w].v] \in Task /\ worker[w].pc \in Locking
  BY DEF Unserviceable, Shape, WorkerOnTask, TypeOK, StoreTypeOK, Locking
<1>2. CASE Rollback(w)
  BY <1>2, RollbackLeaves
<1>3. CASE ~Rollback(w)
  <2> DEFINE task == [tasks[worker[w].v] EXCEPT !.status = "FAILED", !.owner = w,
                                        !.until = LeaseUntil(w)]
  <2>1. /\ Commit(w, task, Current(w)) /\ worker' = [worker EXCEPT ![w] = Idle]
        /\ UNCHANGED config
    BY <1>3 DEF Unserviceable, Commit
  <2>2. task.status = "FAILED" /\ task.code = tasks[worker[w].v].code
    BY <1>1 DEF Task
  <2>3. task \in Task
    BY <1>1, ClaimedRowInType, RowAssumption DEF Status
  <2> HIDE DEF task
  <2>4. Writes(w, "FAILED", tasks[worker[w].v].code)
    BY <1>1, <2>1, <2>2, <2>3, CommitWrites
  <2>5. QED  BY <1>1, <2>1, <2>4, IdleEnds DEF Decides, WorkerKinds
<1>4. QED  BY <1>2, <1>3

LEMMA GuardKind ==
  ASSUME Shape, Locked, NEW w \in Worker, GuardCommit(w), UNCHANGED request
  PROVE  WorkerKinds(w)
<1>1. worker[w].pc = "claimed" /\ ~(Serviceable(w) /\ CodeExpired(w))
      /\ worker[w].v \in Voucher
      /\ tasks[worker[w].v] \in Task /\ worker[w].pc \in Locking
  BY DEF GuardCommit, Unbought, CodeExpired, Shape, WorkerOnTask, TypeOK, StoreTypeOK,
         Locking
<1>2. CASE Rollback(w)
  BY <1>2, RollbackLeaves
<1>3. CASE ~Rollback(w)
  <2> DEFINE task == [tasks[worker[w].v] EXCEPT !.status = "PROCESSING", !.owner = w,
                                        !.until = LeaseUntil(w)]
  <2>1. /\ Commit(w, task, Guarded(w)) /\ UNCHANGED config
        /\ worker' = [worker EXCEPT ![w].pc = "granted", ![w].st = Guarded(w)]
    BY <1>3 DEF GuardCommit, Commit
  <2>2. task.status = "PROCESSING" /\ task.code = tasks[worker[w].v].code
    BY <1>1 DEF Task
  <2>3. task \in Task
    BY <1>1, ClaimedRowInType, RowAssumption DEF Status
  <2> HIDE DEF task
  <2>4. Writes(w, "PROCESSING", tasks[worker[w].v].code)
    BY <1>1, <2>1, <2>2, <2>3, CommitWrites
  <2>5. worker'[w].pc = "granted" /\ Remembers(w) /\ Others(w)
    BY <2>1 DEF Shape, TypeOK, WorkerTypeOK, WorkerState, Remembers, Others
  <2>6. QED  BY <1>1, <2>1, <2>4, <2>5 DEF Decides, WorkerKinds
<1>4. QED  BY <1>2, <1>3

LEMMA DeliverKind ==
  ASSUME Shape, Locked, NEW w \in Worker, DeliverCode(w), UNCHANGED request
  PROVE  WorkerKinds(w)
<1>1. worker[w].pc = "claimed" /\ Serviceable(w) /\ ~CodeExpired(w)
      /\ OrderOf(w) # None /\ worker[w].pc \in Locking
  BY DEF DeliverCode, Waiting, Locking
<1>2. OrderOf(w) \in Order
  BY <1>1 DEF OrderOf, Shape, TypeOK, WorkerTypeOK, WorkerState, ProviderState
<1>3. CASE Rollback(w)
  BY <1>3, RollbackLeaves
<1>4. CASE ~Rollback(w)
  <2> DEFINE task == [Released(w, "CODE_READY") EXCEPT !.code = OrderOf(w)]
  <2>1. /\ Commit(w, task, sts[worker[w].v]) /\ UNCHANGED config
        /\ worker' = [worker EXCEPT ![w] = Idle]
    BY <1>4 DEF DeliverCode, Commit
  <2>2. Released(w, "CODE_READY") \in Task
        /\ Released(w, "CODE_READY").status = "CODE_READY"
    BY <1>1, ReleasedInType DEF Status
  <2>3. task.status = "CODE_READY" /\ task.code = OrderOf(w) /\ task \in Task
    BY <1>2, <2>2 DEF Task
  <2> HIDE DEF task
  <2>4. Writes(w, "CODE_READY", OrderOf(w))
    BY <1>1, <2>1, <2>3, CommitWrites
  <2>5. QED  BY <1>1, <1>2, <2>1, <2>4, IdleEnds DEF Decides, WorkerKinds
<1>5. QED  BY <1>3, <1>4

LEMMA ClosingKind ==
  ASSUME Shape, Locked, NEW w \in Worker, FinishCommit(w) \/ ExpireCommit(w),
         UNCHANGED request
  PROVE  WorkerKinds(w)
<1>1. worker[w].pc \in {"finished", "expired"} /\ worker[w].pc \in Locking
      /\ {"DONE", "FAILED"} \subseteq Status
  BY DEF FinishCommit, ExpireCommit, Locking, Status
<1>2. CASE FinishCommit(w)
  <2>1. Commit(w, Released(w, "DONE"), sts[worker[w].v])
        /\ worker' = [worker EXCEPT ![w] = Idle] /\ UNCHANGED config
    BY <1>2 DEF FinishCommit, Commit
  <2>2. Writes(w, "DONE", tasks[worker[w].v].code)
    BY <1>1, <2>1, ReleasedInType, CommitWrites
  <2>3. QED  BY <1>2, <2>1, <2>2, IdleEnds DEF FinishCommit, Finishes, WorkerKinds
<1>3. CASE ExpireCommit(w)
  BY <1>1, <1>3, CloseWrites DEF ExpireCommit, Expires, WorkerKinds
<1>4. QED  BY <1>2, <1>3

LEMMA AfterPurchaseKind ==
  ASSUME Shape, Locked, NEW w \in Worker, UNCHANGED request,
         BoughtCommit(w) \/ BuyFailedCommit(w) \/ RejectCommit(w)
  PROVE  WorkerKinds(w)
<1>1. /\ worker[w].pc \in Buying /\ lock[worker[w].v] = None
      /\ worker[w].pc \notin {"idle", "down"}
  BY DEF BoughtCommit, BuyFailedCommit, RejectCommit, Buying
<1>2. PICK status \in {"FAILED", "WAITING_SMS"} : \E st : Close(w, status, st)
  BY DEF BoughtCommit, BuyFailedCommit, RejectCommit
<1>3. status \in Status
  BY DEF Status
<1>4. \/ WorkerKinds(w)
      \/ /\ Ends(w) /\ Others(w) /\ UNCHANGED <<config, request>>
         /\ Writes(w, status, tasks[worker[w].v].code)
  BY <1>1, <1>2, <1>3, CloseWrites
<1>5. QED  BY <1>1, <1>4 DEF Concludes, WorkerKinds

LEMMA CleanupKind ==
  ASSUME Shape, Locked, NEW w \in Worker, UNCHANGED request,
         CleanupRead(w) \/ CleanupCommit(w)
  PROVE  WorkerKinds(w)
<1>1. worker[w].v \in Voucher /\ tasks[worker[w].v] # None
      /\ worker[w] \in WorkerState
  BY DEF CleanupRead, CleanupCommit, Shape, WorkerOnTask, TypeOK, WorkerTypeOK
<1>2. CASE CleanupRead(w)
  <2>1. UNCHANGED <<tasks, lock, config>> /\ worker[w].pc = "rolledback"
    BY <1>2 DEF CleanupRead, store
  <2>2. CASE worker' = [worker EXCEPT ![w] = Idle]
    BY <2>1, <2>2, IdleLeaves
  <2>3. CASE worker' # [worker EXCEPT ![w] = Idle]
    <3> DEFINE n == [worker[w] EXCEPT !.pc = "cleaning",
                                      !.owner = tasks[worker[w].v].owner]
    <3>1. worker' = [worker EXCEPT ![w] = n]
          /\ tasks[worker[w].v].status \in {"PENDING", "PROCESSING"}
      BY <1>2, <2>3 DEF CleanupRead, Shape, TypeOK, WorkerTypeOK
    <3>2. n.pc = "cleaning" /\ n.v = worker[w].v /\ n.cfg = worker[w].cfg
          /\ n.claim = worker[w].claim /\ n.now = worker[w].now
      BY <1>1 DEF WorkerState
    <3> HIDE DEF n
    <3>3. worker'[w] = n /\ Others(w)
      BY <3>1, OneMoves
    <3>4. HasStatus(worker[w].v, Open)
      BY <1>1, <3>1 DEF HasStatus, Open
    <3>5. Goes(w)
      BY <2>1, <3>2, <3>3, <3>4 DEF Goes, Remembers
    <3>6. QED  BY <2>1, <3>3, <3>5 DEF WorkerKinds
  <2>4. QED  BY <2>2, <2>3
<1>3. CASE CleanupCommit(w)
  <2>1. /\ tasks' = [tasks EXCEPT ![worker[w].v] = Released(w, "FAILED")]
        /\ worker' = [worker EXCEPT ![w] = Idle] /\ UNCHANGED <<lock, config>>
        /\ worker[w].pc = "cleaning" /\ lock[worker[w].v] = None
    BY <1>3 DEF CleanupCommit
  <2>2. /\ Released(w, "FAILED") \in Task /\ Released(w, "FAILED").status = "FAILED"
        /\ Released(w, "FAILED").code = tasks[worker[w].v].code
    BY <2>1, ReleasedInType DEF Status
  <2>3. Writes(w, "FAILED", tasks[worker[w].v].code)
    BY <1>1, <2>1, <2>2, RowAssumption DEF Writes, Frees, Shape, TypeOK, StoreTypeOK
  <2>4. QED  BY <2>1, <2>3, IdleEnds DEF Concludes, WorkerKinds
<1>4. QED  BY <1>2, <1>3

LEMMA FaultKind ==
  ASSUME Shape, NEW w \in Worker, DbError(w) \/ Crash(w) \/ Restart(w),
         UNCHANGED request
  PROVE  WorkerKinds(w)
<1>1. CASE DbError(w)
  BY <1>1, RollbackLeaves DEF DbError
<1>2. CASE Crash(w)
  <2> DEFINE n == [Idle EXCEPT !.pc = "down"]
  <2>1. n.pc = "down" /\ n.cfg = None
    BY DEF Idle
  <2>2. worker' = [worker EXCEPT ![w] = n] /\ UNCHANGED <<tasks, config>>
    BY <1>2 DEF Crash
  <2>3. Frees(w)
    BY <1>2 DEF Crash, Frees
  <2> HIDE DEF n
  <2>4. worker'[w] = n /\ Others(w)
    BY <2>2, OneMoves
  <2>5. QED  BY <2>1, <2>2, <2>3, <2>4 DEF Leaves, WorkerKinds
<1>3. CASE Restart(w)
  BY <1>3, IdleLeaves DEF Restart, store
<1>4. QED  BY <1>1, <1>2, <1>3

LEMMA WorkerStepKind ==
  ASSUME Shape, Locked, NEW w \in Worker, UNCHANGED request,
         WorkerStep(w) \/ DbError(w) \/ Crash(w) \/ Restart(w)
  PROVE  WorkerKinds(w)
  BY ClaimSelectKind, ClaimUpdateKind, UnserviceableKind, CallKind, ClosingKind,
     UndecidedKind, GuardKind, PurchaseKind, AfterPurchaseKind, DeliverKind,
     CleanupKind, FaultKind DEF WorkerStep

-----------------------------------------------------------------------------
(* What a handler's step does to the task it works on. All leave the         *)
(* workers, the locks, the configuration and the other handlers alone.       *)
Elsewhere(h) == \A g \in Request \ {h} : request'[g] = request[g]

Plans(h) ==
    LET n == request'[h] IN
    /\ request[h].pc = "idle" /\ n.v \in Voucher /\ n.seen = tasks[n.v]
    /\ \/ n.pc = "inserting" /\ tasks[n.v] = None
       \/ n.pc = "resetting" /\ HasStatus(n.v, Settled)
       \/ /\ n.pc \in {"calling", "closing"} /\ tasks[n.v] # None
          /\ n.target = "CANCELED" \/ (n.target = "DONE" /\ HasStatus(n.v, Consumed))
    /\ UNCHANGED tasks

Calls(h) ==
    /\ request[h].pc = "calling" /\ request'[h].pc = "closing"
    /\ request'[h].v = request[h].v /\ request'[h].target = request[h].target
    /\ UNCHANGED tasks

Answers(h) ==
    request[h].pc # "idle" /\ request'[h].pc = "idle" /\ UNCHANGED tasks

Puts(h, status, code) ==
    LET v == request[h].v IN
    /\ v \in Voucher /\ request'[h].pc = "idle"
    /\ tasks'[v] # None /\ tasks'[v].status = status /\ tasks'[v].code = code
    /\ \A u \in Voucher \ {v} : tasks'[u] = tasks[u]

Inserts(h) ==
    /\ request[h].pc = "inserting" /\ tasks[request[h].v] = None
    /\ Puts(h, "PENDING", None)

Resets(h) ==
    LET v == request[h].v IN
    /\ request[h].pc = "resetting" /\ lock[v] = None /\ tasks[v] # None
    /\ Puts(h, "PENDING", IF request[h].seen.code = None THEN tasks[v].code ELSE None)

Rewrites(h) ==
    LET v == request[h].v IN
    /\ request[h].pc = "closing" /\ lock[v] = None /\ tasks[v] # None
    /\ Puts(h, request[h].target, tasks[v].code)

HandlerKinds(h) ==
    /\ Elsewhere(h) /\ UNCHANGED <<worker, lock, config>>
    /\ Plans(h) \/ Calls(h) \/ Answers(h) \/ Inserts(h) \/ Resets(h) \/ Rewrites(h)

(* Steps of nobody: no task is touched, a configuration at most stored.      *)
Neither ==
    /\ UNCHANGED <<tasks, lock, worker, request>>
    /\ config # None => config' # None

LEMMA AnswerEnds ==
  ASSUME Shape, NEW h \in Request, Answer(h)
  PROVE  request'[h].pc = "idle" /\ Elsewhere(h)
  BY NoRequestInType DEF Answer, Elsewhere, Shape, TypeOK, ApiTypeOK

LEMMA LoadPlans ==
  ASSUME Shape, NEW h \in Request, NEW v \in Voucher, NEW pc, NEW target,
         Load(h, v, pc, target)
  PROVE  /\ request[h].pc = "idle" /\ request'[h].pc = pc /\ request'[h].v = v
         /\ request'[h].seen = tasks[v] /\ request'[h].target = target
         /\ Elsewhere(h) /\ UNCHANGED <<worker, lock, config, tasks>>
  BY DEF Load, Elsewhere, Shape, TypeOK, ApiTypeOK, rest

LEMMA ReadKind ==
  ASSUME Shape, NEW h \in Request, NEW v \in Voucher,
         \/ CreateRead(h, v) \/ NextRead(h, v) \/ CancelRead(h, v)
         \/ DevCancelRead(h, v) \/ CompleteRead(h, v)
  PROVE  HandlerKinds(h)
<1> USE LoadPlans DEF Plans, HandlerKinds, HasStatus
<1>1. CASE CreateRead(h, v) \/ NextRead(h, v)
  BY <1>1 DEF CreateRead, NextRead, Resettable
<1>2. CASE CancelRead(h, v)
  BY <1>2 DEF CancelRead, CallFor
<1>3. CASE DevCancelRead(h, v)
  BY <1>3 DEF DevCancelRead
<1>4. CASE CompleteRead(h, v)
  BY <1>4 DEF CompleteRead, CallFor
<1>5. QED  BY <1>1, <1>2, <1>3, <1>4

LEMMA InsertKind ==
  ASSUME Shape, NEW h \in Request, CreateInsert(h)
  PROVE  HandlerKinds(h)
<1>1. request[h].v \in Voucher /\ request[h].pc = "inserting"
      /\ UNCHANGED <<worker, lock, config>>
  BY DEF CreateInsert, rest, Shape, RequestOnTask
<1>2. request'[h].pc = "idle" /\ Elsewhere(h)
  BY AnswerEnds DEF CreateInsert
<1>3. CASE tasks' = tasks
  BY <1>1, <1>2, <1>3 DEF Answers, HandlerKinds
<1>4. CASE tasks' # tasks
  <2>1. tasks[request[h].v] = None /\ tasks' = [tasks EXCEPT ![request[h].v] = NewTask]
    BY <1>4 DEF CreateInsert
  <2>2. NewTask.status = "PENDING" /\ NewTask.code = None /\ NewTask # None
    <3>1. tasks'[request[h].v] = NewTask
      BY <1>1, <2>1 DEF Shape, TypeOK, StoreTypeOK
    <3>2. NewTask # None
      BY <1>1, <1>4, <2>1, <3>1 DEF Shape, TypeOK, StoreTypeOK
    <3>3. QED  BY <3>2 DEF NewTask
  <2>3. Puts(h, "PENDING", None)
    BY <1>1, <1>2, <2>1, <2>2 DEF Puts, Shape, TypeOK, StoreTypeOK
  <2>4. QED  BY <1>1, <1>2, <2>1, <2>3 DEF Inserts, HandlerKinds
<1>5. QED  BY <1>3, <1>4

LEMMA ResetKind ==
  ASSUME Shape, NEW h \in Request, ResetCommit(h)
  PROVE  HandlerKinds(h)
<1>1. /\ request[h].v \in Voucher /\ request[h].pc = "resetting"
      /\ tasks[request[h].v] # None /\ tasks[request[h].v] \in Task
      /\ lock[request[h].v] = None /\ UNCHANGED <<worker, lock, config>>
  BY DEF ResetCommit, rest, Shape, RequestOnTask, TypeOK, StoreTypeOK
<1>2. request'[h].pc = "idle" /\ Elsewhere(h)
  BY AnswerEnds DEF ResetCommit
<1>3. CASE UNCHANGED tasks
  BY <1>1, <1>2, <1>3 DEF Answers, HandlerKinds
<1>4. CASE ~UNCHANGED tasks
  <2> DEFINE pending == [tasks[request[h].v] EXCEPT !.status = "PENDING"]
             task == IF request[h].seen.code = None THEN pending
                     ELSE [pending EXCEPT !.code = None]
  <2>1. tasks' = [tasks EXCEPT ![request[h].v] = task]
    BY <1>4 DEF ResetCommit
  <2>2. /\ task \in Task /\ task.status = "PENDING"
        /\ task.code = IF request[h].seen.code = None THEN tasks[request[h].v].code
                       ELSE None
    BY <1>1 DEF Task, Status
  <2> HIDE DEF task
  <2>3. Puts(h, "PENDING", IF request[h].seen.code = None THEN tasks[request[h].v].code
                           ELSE None)
    BY <1>1, <1>2, <2>1, <2>2, RowAssumption DEF Puts, Shape, TypeOK, StoreTypeOK
  <2>4. QED  BY <1>1, <1>2, <2>3 DEF Resets, HandlerKinds
<1>5. QED  BY <1>3, <1>4

LEMMA CloseKind ==
  ASSUME Shape, NEW h \in Request, CloseCommit(h)
  PROVE  HandlerKinds(h)
<1>1. /\ request[h].v \in Voucher /\ request[h].pc = "closing"
      /\ tasks[request[h].v] # None /\ tasks[request[h].v] \in Task
      /\ request[h].target \in Status
      /\ lock[request[h].v] = None /\ UNCHANGED <<worker, lock, config>>
  BY DEF CloseCommit, rest, Shape, RequestOnTask, TypeOK, StoreTypeOK, ApiTypeOK,
         RequestState, Status
<1>2. request'[h].pc = "idle" /\ Elsewhere(h)
  BY AnswerEnds DEF CloseCommit
<1>3. CASE tasks' = tasks
  BY <1>1, <1>2, <1>3 DEF Answers, HandlerKinds
<1>4. CASE tasks' # tasks
  <2> DEFINE task == [tasks[request[h].v] EXCEPT !.status = request[h].target]
  <2>1. tasks' = [tasks EXCEPT ![request[h].v] = task]
    BY <1>1, <1>4 DEF CloseCommit, Shape, TypeOK, StoreTypeOK
  <2>2. /\ task \in Task /\ task.status = request[h].target
        /\ task.code = tasks[request[h].v].code
    BY <1>1 DEF Task
  <2> HIDE DEF task
  <2>3. Puts(h, request[h].target, tasks[request[h].v].code)
    BY <1>1, <1>2, <2>1, <2>2, RowAssumption DEF Puts, Shape, TypeOK, StoreTypeOK
  <2>4. QED  BY <1>1, <1>2, <2>3 DEF Rewrites, HandlerKinds
<1>5. QED  BY <1>3, <1>4

LEMMA ApiStepKind ==
  ASSUME Shape, NEW h \in Request, ApiStep(h)
  PROVE  HandlerKinds(h)
<1>1. CASE UpstreamCall(h)
  <2>1. request[h] \in RequestState /\ request \in [Request -> RequestState]
    BY DEF Shape, TypeOK, ApiTypeOK
  <2>2. QED  BY <1>1, <2>1 DEF UpstreamCall, store, RequestState, Calls, Elsewhere,
                HandlerKinds
<1>2. CASE RequestDies(h)
  BY <1>2, AnswerEnds DEF RequestDies, store, Answers, HandlerKinds
<1>3. QED
  BY <1>1, <1>2, ReadKind, InsertKind, ResetKind, CloseKind DEF ApiStep

LEMMA LifeKinds ==
  ASSUME Shape, Locked, [Next]_vars
  PROVE  \/ Neither
         \/ \E w \in Worker : WorkerKinds(w)
         \/ \E h \in Request : HandlerKinds(h)
<1>1. CASE UNCHANGED vars
  BY <1>1 DEF vars, store, Neither
<1>2. CASE Environment /\ UNCHANGED <<worker, faults, request>>
  BY <1>2, NoneAssumption
  DEF Environment, Tick, PutConfig, SmsArrives, UpstreamDrops, store, Neither
<1>3. CASE Next
  BY <1>2, <1>3, ApiStepKind, WorkerStepKind DEF Next
<1>4. QED  BY <1>1, <1>3

-----------------------------------------------------------------------------
(* Row locks, and codes that stay while a handler is to complete the task.   *)

LEMMA LockedNext == ASSUME Shape, Locked, [Next]_vars PROVE Locked'
<1>1. ASSUME NEW w \in Worker, WorkerKinds(w), NEW x \in Worker, worker'[x].pc \in Locking
      PROVE  lock'[worker'[x].v] = x
  <2>1. CASE x # w
    <3>1. /\ worker'[x] = worker[x] /\ worker[x].v \in Voucher
          /\ lock[worker[x].v] = x /\ x # None
      BY <1>1, <2>1, NoneAssumption
      DEF WorkerKinds, Others, Locked, Shape, WorkerOnTask, Locking
    <3>2. lock'[worker[x].v] = lock[worker[x].v]
      BY <1>1, <2>1, <3>1 DEF WorkerKinds, Selects, Claims, Goes, Leaves, Frees, Writes,
         Decides, Finishes, Expires, Concludes, Shape, TypeOK, StoreTypeOK
    <3>3. QED  BY <3>1, <3>2
  <2>2. CASE x = w
    <3>1. CASE Claims(w)
      BY <2>2, <3>1 DEF Claims, Remembers, Shape, WorkerOnTask, TypeOK, StoreTypeOK
    <3>2. CASE Goes(w)
      BY <1>1, <2>2, <3>2 DEF Goes, Remembers, Locked, Locking, Buying
    <3>3. CASE ~Claims(w) /\ ~Goes(w)
      BY <1>1, <2>2, <3>3 DEF WorkerKinds, Selects, Leaves, Decides, Finishes, Expires,
         Concludes, Ends, Locking
    <3>4. QED  BY <3>1, <3>2, <3>3
  <2>3. QED  BY <2>1, <2>2
<1>2. ASSUME UNCHANGED <<worker, lock>> PROVE Locked'
  BY <1>2 DEF Locked
<1>3. (\E w \in Worker : WorkerKinds(w)) => Locked'
  BY <1>1 DEF Locked
<1>4. QED  BY <1>2, <1>3, LifeKinds DEF Neither, HandlerKinds

LEMMA LockedInit == Init => Locked
  BY IdleInType DEF Init, WorkerInit, Locked, Locking

OneHandlerEach ==
    \A g, h \in Request :
        g # h /\ request[g].pc # "idle" /\ request[h].pc # "idle" =>
          request[g].v # request[h].v

(* A handler that is to complete a task.                                     *)
Completing(h) == request[h].pc \in {"calling", "closing"} /\ request[h].target = "DONE"

HasCode(v) == tasks[v] # None /\ tasks[v].code # None

CodesKept ==
    /\ \A v \in Voucher : HasStatus(v, Consumed) => HasCode(v)
    /\ \A w \in Worker : worker[w].pc = "finished" => HasCode(worker[w].v)
    /\ \A h \in Request : Completing(h) => HasCode(request[h].v)

(* A worker leaves no task without the code it had.                          *)
LEMMA WorkerKeepsCodes ==
  ASSUME Shape, NEW w \in Worker, WorkerKinds(w), NEW v \in Voucher, HasCode(v)
  PROVE  HasCode(v)'
<1>1. CASE v # worker[w].v \/ UNCHANGED tasks
  BY <1>1 DEF WorkerKinds, Selects, Claims, Goes, Leaves, Writes, Decides, Finishes,
     Expires, Concludes, HasCode
<1>2. CASE v = worker[w].v
  BY <1>2, NoneAssumption DEF WorkerKinds, Selects, Claims, Goes, Leaves, Writes,
     Decides, Finishes, Expires, Concludes, HasCode
<1>3. QED  BY <1>1, <1>2

LEMMA WorkerCodes ==
  ASSUME Shape, CodesKept, NEW w \in Worker, WorkerKinds(w)
  PROVE  CodesKept'
<1>1. ASSUME NEW v \in Voucher, HasStatus(v, Consumed)' PROVE HasCode(v)'
  <2>1. CASE HasStatus(v, Consumed)
    BY <2>1, WorkerKeepsCodes DEF CodesKept
  <2>2. CASE ~HasStatus(v, Consumed)
    <3>1. tasks'[v] # tasks[v] /\ v = worker[w].v
      BY <1>1, <2>2 DEF WorkerKinds, Selects, Claims, Goes, Leaves, Writes, Decides,
         Finishes, Expires, Concludes, HasStatus
    <3>2. CASE Finishes(w)
      BY <3>1, <3>2, WorkerKeepsCodes DEF Finishes, CodesKept
    <3>3. CASE Decides(w)
      BY <1>1, <3>1, <3>3, NoneAssumption
      DEF Decides, Writes, HasStatus, HasCode, Consumed
    <3>4. CASE Expires(w) \/ Concludes(w)
      BY <1>1, <3>1, <3>4 DEF Expires, Concludes, Writes, HasStatus, Consumed
    <3>5. QED
      BY <3>1, <3>2, <3>3, <3>4 DEF WorkerKinds, Selects, Claims, Goes, Leaves
  <2>3. QED  BY <2>1, <2>2
<1>2. ASSUME NEW x \in Worker, worker'[x].pc = "finished" PROVE HasCode(worker[x].v)'
  <2>1. CASE x # w
    BY <1>2, <2>1, WorkerKeepsCodes
    DEF WorkerKinds, Others, CodesKept, Shape, WorkerOnTask
  <2>2. CASE x = w
    <3>1. Goes(w) /\ CodeExpired(w) /\ worker[w].pc = "claimed"
      BY <1>2, <2>2 DEF WorkerKinds, Selects, Claims, Goes, Leaves, Decides, Finishes,
         Expires, Concludes, Ends, Buying
    <3>2. HasCode(worker[w].v)
      BY <3>1 DEF CodeExpired, HasCode, Shape, WorkerOnTask
    <3>3. QED  BY <2>2, <3>1, <3>2 DEF Goes, Remembers, HasCode
  <2>3. QED  BY <2>1, <2>2
<1>3. ASSUME NEW h \in Request, Completing(h)' PROVE HasCode(request[h].v)'
  <2>1. request' = request /\ request[h].v \in Voucher /\ HasCode(request[h].v)
    BY <1>3 DEF WorkerKinds, Completing, CodesKept, Shape, RequestOnTask
  <2>2. QED  BY <2>1, WorkerKeepsCodes
<1>4. QED  BY <1>1, <1>2, <1>3 DEF CodesKept

(* What a handler does to a task whose row no worker has locked.             *)
LEMMA HandlerKeepsCodes ==
  ASSUME Shape, NEW h \in Request, HandlerKinds(h), NEW v \in Voucher, HasCode(v)
  PROVE  \/ HasCode(v)'
         \/ request[h].pc # "idle" /\ request[h].v = v /\ lock[v] = None
  BY DEF HandlerKinds, Plans, Calls, Answers, Inserts, Resets, Rewrites, Puts, HasCode

LEMMA HandlerCodes ==
  ASSUME Shape, Locked, CodesKept, OneHandlerEach, NEW h \in Request, HandlerKinds(h)
  PROVE  CodesKept'
<1>1. ASSUME NEW v \in Voucher, HasStatus(v, Consumed)' PROVE HasCode(v)'
  <2>1. CASE v # request[h].v \/ UNCHANGED tasks
    BY <1>1, <2>1 DEF HandlerKinds, Plans, Calls, Answers, Inserts, Resets, Rewrites,
       Puts, HasStatus, HasCode, CodesKept
  <2>2. CASE v = request[h].v /\ ~UNCHANGED tasks
    <3>1. Rewrites(h)
      BY <1>1, <2>2 DEF HandlerKinds, Plans, Calls, Answers, Inserts, Resets, Puts,
         HasStatus, Consumed
    <3>2. request[h].target \in {"PENDING", "CANCELED", "DONE"}
      BY DEF Shape, TypeOK, ApiTypeOK, RequestState
    <3>3. Completing(h)
      BY <1>1, <2>2, <3>1, <3>2 DEF Rewrites, Puts, HasStatus, Consumed, Completing
    <3>4. QED  BY <2>2, <3>1, <3>3 DEF Rewrites, Puts, CodesKept, HasCode
  <2>3. QED  BY <2>1, <2>2
<1>2. ASSUME NEW x \in Worker, worker'[x].pc = "finished" PROVE HasCode(worker[x].v)'
  <2>1. /\ worker' = worker /\ worker[x].pc = "finished" /\ worker[x].v \in Voucher
        /\ HasCode(worker[x].v) /\ lock[worker[x].v] = x /\ x # None
    BY <1>2, NoneAssumption
    DEF HandlerKinds, CodesKept, Shape, WorkerOnTask, Locked, Locking
  <2>2. QED  BY <2>1, HandlerKeepsCodes
<1>3. ASSUME NEW g \in Request, Completing(g)' PROVE HasCode(request[g].v)'
  <2>1. CASE g # h
    <3>1. request'[g] = request[g] /\ Completing(g) /\ request[g].pc # "idle"
      BY <1>3, <2>1 DEF HandlerKinds, Elsewhere, Completing
    <3>2. request[g].v \in Voucher /\ HasCode(request[g].v)
      BY <3>1 DEF Shape, RequestOnTask, CodesKept
    <3>3. QED  BY <2>1, <3>1, <3>2, HandlerKeepsCodes DEF OneHandlerEach
  <2>2. CASE g = h
    <3>1. CASE Plans(h)
      BY <1>3, <2>2, <3>1 DEF Plans, Completing, CodesKept, HasCode
    <3>2. CASE Calls(h)
      BY <1>3, <2>2, <3>2 DEF Calls, Completing, CodesKept, HasCode
    <3>3. QED
      BY <1>3, <2>2, <3>1, <3>2 DEF HandlerKinds, Answers, Inserts, Resets, Rewrites,
         Puts, Completing
  <2>3. QED  BY <2>1, <2>2
<1>4. QED  BY <1>1, <1>2, <1>3 DEF CodesKept

LEMMA CodesNext ==
  ASSUME Shape, Locked, CodesKept, OneHandlerEach, [Next]_vars PROVE CodesKept'
<1>1. CASE Neither
  BY <1>1 DEF Neither, CodesKept, HasCode, HasStatus, Completing
<1>2. QED  BY <1>1, LifeKinds, WorkerCodes, HandlerCodes

LEMMA CodesInit == Init => CodesKept
  BY IdleInType, NoRequestInType
  DEF Init, StoreInit, WorkerInit, ApiInit, CodesKept, HasStatus, Completing

(* A consumed voucher has its code, for any number of workers, as long as    *)
(* its client's requests come one at a time: neither a release, a takeover   *)
(* nor a crash takes the code off a task that is about to be completed       *)
(* (routes_redeem.py, redeem_complete; worker.py, _process_one).             *)
THEOREM ConsumedCodes == Spec /\ []OneHandlerEach => []ConsumedHasCode
<1>1. Init => Shape /\ Locked /\ CodesKept
  BY InitShape, LockedInit, CodesInit
<1>2. Shape /\ Locked /\ CodesKept /\ OneHandlerEach /\ [Next]_vars
        => (Shape /\ Locked /\ CodesKept)'
  BY NextShape, LockedNext, CodesNext
<1>3. CodesKept => ConsumedHasCode
  BY DEF CodesKept, ConsumedHasCode, HasCode
<1>4. QED  BY <1>1, <1>2, <1>3, PTL DEF Spec
-----------------------------------------------------------------------------
(* An order's time is never known without the order.                         *)
Timed(st) == st # None /\ st.expires # None => st.order # None

AllTimed == /\ \A v \in Voucher : Timed(sts[v])
            /\ \A w \in Worker : Timed(worker[w].st)

LEMMA FreshTimed == ASSUME NEW v \in Voucher PROVE Timed(FreshState(v))
  BY DEF Timed, FreshState

LEMMA CurrentTimed ==
  ASSUME Shape, AllTimed, NEW w \in Worker, worker[w].pc \notin {"idle", "down"},
         NoClash(worker[w].st, worker[w].v)
  PROVE  /\ Timed(Current(w)) /\ Current(w) \in ProviderState
         /\ Current(w) # None
  BY CurrentInType, FreshTimed, RowAssumption DEF Current, AllTimed, Shape, WorkerOnTask

(* The columns a step writes beside the order and its time.                  *)
LEMMA PolledTimed ==
  ASSUME NEW st \in ProviderState, Timed(st), NEW poll
  PROVE  Timed([st EXCEPT !.poll = poll])
<1>1. st # None
  BY RowAssumption
<1>2. /\ [st EXCEPT !.poll = poll].expires = st.expires
      /\ [st EXCEPT !.poll = poll].order = st.order
  BY DEF ProviderState
<1>3. QED  BY <1>1, <1>2 DEF Timed

LEMMA GuardedTimed ==
  ASSUME Shape, AllTimed, NEW w \in Worker, worker[w].pc \notin {"idle", "down"},
         NoClash(worker[w].st, worker[w].v)
  PROVE  Timed(Guarded(w))
<1>1. Timed(Current(w)) /\ Current(w) \in ProviderState /\ Current(w) # None
  BY CurrentTimed
<1>2. Guarded(w).expires = Current(w).expires /\ Guarded(w).order = Current(w).order
  BY <1>1 DEF Guarded, ProviderState
<1>3. QED  BY <1>1, <1>2 DEF Timed

LEMMA CommitTimed ==
  ASSUME Shape, AllTimed, NEW w \in Worker, worker[w].pc \notin {"idle", "down"},
         NEW task, NEW st, Commit(w, task, st), Timed(st),
         Others(w), Timed(worker'[w].st)
  PROVE  AllTimed'
<1>1. \A v \in Voucher : sts'[v] = sts[v] \/ sts'[v] = st
  BY DEF Commit, Shape, TypeOK, StoreTypeOK
<1>2. \A x \in Worker : Timed(worker'[x].st)
  BY DEF Others, AllTimed
<1>3. QED  BY <1>1, <1>2 DEF AllTimed, Timed

LEMMA IdleTimed ==
  ASSUME Shape, NEW w \in Worker, worker' = [worker EXCEPT ![w] = Idle]
  PROVE  Others(w) /\ Timed(worker'[w].st)
<1>1. Idle.st = None
  BY DEF Idle
<1>2. QED  BY <1>1, OneMoves DEF Timed

LEMMA OneCopyTimed ==
  ASSUME Shape, AllTimed, NEW w \in Worker, Others(w), Timed(worker'[w].st),
         UNCHANGED sts
  PROVE  AllTimed'
  BY DEF AllTimed, Others, Timed

LEMMA RollbackTimed ==
  ASSUME Shape, AllTimed, NEW w \in Worker, Rollback(w)
  PROVE  AllTimed'
<1> DEFINE n == [Idle EXCEPT !.pc = "rolledback", !.v = worker[w].v]
<1>1. n.st = None
  BY DEF Idle
<1>2. worker' = [worker EXCEPT ![w] = n] /\ UNCHANGED sts
  BY DEF Rollback
<1> HIDE DEF n
<1>3. QED  BY <1>1, <1>2, OneMoves, OneCopyTimed DEF Timed

LEMMA CloseTimed ==
  ASSUME Shape, AllTimed, NEW w \in Worker, worker[w].pc \notin {"idle", "down"},
         NEW status, NEW st, Close(w, status, st),
         NoClash(worker[w].st, worker[w].v) => Timed(st)
  PROVE  AllTimed'
<1>1. CASE Rollback(w)
  BY <1>1, RollbackTimed
<1>2. CASE ~Rollback(w)
  BY <1>2, IdleTimed, CommitTimed DEF Close
<1>3. QED  BY <1>1, <1>2

LEMMA UndecidedTimed ==
  ASSUME Shape, AllTimed, NEW w \in Worker,
         \/ ExpireCommit(w) \/ AttemptsExhausted(w) \/ OrderLost(w) \/ RejectCommit(w)
         \/ InflightWait(w) \/ NoSmsYet(w) \/ CheckFails(w) \/ BuyFailedCommit(w)
  PROVE  AllTimed'
<1>1. worker[w].pc \notin {"idle", "down"}
  BY DEF ExpireCommit, AttemptsExhausted, Unbought, OrderLost, RejectCommit,
         InflightWait, NoSmsYet, CheckFails, Waiting, BuyFailedCommit
<1>2. \/ \E status : Close(w, status, Current(w))
      \/ \E status, poll : Close(w, status, [Current(w) EXCEPT !.poll = poll])
  BY DEF ExpireCommit, AttemptsExhausted, OrderLost, RejectCommit,
         InflightWait, NoSmsYet, CheckFails, BuyFailedCommit
<1>3. NoClash(worker[w].st, worker[w].v) =>
        /\ Timed(Current(w))
        /\ \A poll : Timed([Current(w) EXCEPT !.poll = poll])
  BY <1>1, CurrentTimed, PolledTimed
<1>4. QED  BY <1>1, <1>2, <1>3, CloseTimed

LEMMA BoughtTimed ==
  ASSUME Shape, AllTimed, NEW w \in Worker, BoughtCommit(w)
  PROVE  AllTimed'
<1> DEFINE st == [Current(w) EXCEPT !.order = worker[w].st.order,
                !.expires = worker[w].st.expires,
                !.poll = Later(worker[w].now, Poll), !.inflight = None]
<1>1. worker[w].pc = "bought" /\ Close(w, "WAITING_SMS", st)
  BY DEF BoughtCommit
<1>2. worker[w].st # None /\ Timed(worker[w].st)
  BY <1>1 DEF Shape, WorkerOnTask, Buying, AllTimed
<1>3. NoClash(worker[w].st, worker[w].v) =>
        st.order = worker[w].st.order /\ st.expires = worker[w].st.expires
  BY <1>1, CurrentTimed DEF ProviderState
<1>4. NoClash(worker[w].st, worker[w].v) => Timed(st)
  BY <1>2, <1>3 DEF Timed
<1> HIDE DEF st
<1>5. QED  BY <1>1, <1>4, CloseTimed

LEMMA GuardCommitTimed ==
  ASSUME Shape, AllTimed, NEW w \in Worker, GuardCommit(w)
  PROVE  AllTimed'
<1>1. worker[w].pc = "claimed"
  BY DEF GuardCommit, Unbought
<1>2. CASE Rollback(w)
  BY <1>2, RollbackTimed
<1>3. CASE ~Rollback(w)
  <2>1. PICK task : Commit(w, task, Guarded(w))
    BY <1>3 DEF GuardCommit
  <2>2. NoClash(worker[w].st, worker[w].v)
        /\ worker' = [worker EXCEPT ![w].pc = "granted", ![w].st = Guarded(w)]
    BY <1>3 DEF GuardCommit
  <2>3. Timed(Guarded(w))
    BY <1>1, <2>2, GuardedTimed
  <2>4. Others(w) /\ worker'[w].st = Guarded(w)
    BY <2>2 DEF Others, Shape, TypeOK, WorkerTypeOK, WorkerState
  <2>5. QED  BY <1>1, <2>1, <2>3, <2>4, CommitTimed
<1>4. QED  BY <1>2, <1>3

(* Steps that end the claim's transaction and write no provider state, or    *)
(* the one there is.                                                         *)
LEMMA WrittenTimed ==
  ASSUME Shape, AllTimed, NEW w \in Worker,
         Unserviceable(w) \/ FinishCommit(w) \/ DeliverCode(w) \/ CleanupCommit(w)
  PROVE  AllTimed'
<1>1. worker[w].pc \notin {"idle", "down"} /\ worker[w].v \in Voucher
  BY DEF Unserviceable, FinishCommit, DeliverCode, Waiting, CleanupCommit, Shape,
         WorkerOnTask
<1>2. CASE Rollback(w)
  BY <1>2, RollbackTimed
<1>3. CASE CleanupCommit(w)
  BY <1>3, IdleTimed, OneCopyTimed DEF CleanupCommit
<1>4. CASE ~Rollback(w) /\ ~CleanupCommit(w)
  <2>1. worker' = [worker EXCEPT ![w] = Idle]
        /\ \/ \E task : Commit(w, task, sts[worker[w].v])
           \/ /\ NoClash(worker[w].st, worker[w].v)
              /\ \E task : Commit(w, task, Current(w))
    BY <1>4 DEF Unserviceable, FinishCommit, DeliverCode
  <2>2. Timed(sts[worker[w].v])
    BY <1>1 DEF AllTimed
  <2>3. QED  BY <1>1, <2>1, <2>2, CurrentTimed, IdleTimed, CommitTimed
<1>5. QED  BY <1>2, <1>3, <1>4

(* Steps of a worker in its own memory.                                      *)
LEMMA MovesTimed ==
  ASSUME Shape, AllTimed, NEW w \in Worker,
         \/ \E v \in Voucher : ClaimSelect(w, v)
         \/ ClaimUpdate(w) \/ FinishCall(w) \/ ExpireCall(w) \/ RefuseConfig(w)
         \/ CleanupRead(w) \/ Crash(w) \/ Restart(w)
  PROVE  AllTimed'
<1>1. UNCHANGED sts
  BY DEF ClaimSelect, ClaimUpdate, FinishCall, ExpireCall, RefuseConfig, CleanupRead,
         Crash, Restart, store
<1>2. Others(w) /\ (worker'[w].st = worker[w].st \/ worker'[w].st = None
                      \/ \E v \in Voucher : worker'[w].st = sts[v])
  <2> USE DEF Shape, TypeOK, WorkerTypeOK, Others
  <2>1. CASE \E v \in Voucher : ClaimSelect(w, v)
    <3>1. PICK v \in Voucher : ClaimSelect(w, v)
      BY <2>1
    <3> DEFINE n == [Idle EXCEPT !.pc = "selected", !.v = v, !.claim = now, !.st = sts[v],
                                 !.cfg = config,
                                 !.count = IF config = None THEN 0 ELSE successes[config]]
    <3>2. worker' = [worker EXCEPT ![w] = n]
      BY <3>1 DEF ClaimSelect
    <3>3. n.st = sts[v]
      BY DEF Idle
    <3> HIDE DEF n
    <3> QED BY <3>2, <3>3
  <2>2. CASE ClaimUpdate(w)
    BY <2>2 DEF ClaimUpdate, Idle, WorkerState
  <2>3. CASE FinishCall(w) \/ ExpireCall(w)
    BY <2>3 DEF FinishCall, ExpireCall, WorkerState
  <2>4. CASE RefuseConfig(w)
    BY <2>4 DEF RefuseConfig, WorkerState
  <2>5. CASE CleanupRead(w)
    BY <2>5 DEF CleanupRead, Idle, WorkerState
  <2>6. CASE Crash(w) \/ Restart(w)
    BY <2>6 DEF Crash, Restart, Idle
  <2>7. QED  BY <2>1, <2>2, <2>3, <2>4, <2>5, <2>6
<1>3. Timed(worker'[w].st)
  BY <1>2 DEF AllTimed, Timed
<1>4. QED  BY <1>1, <1>2, <1>3, OneCopyTimed

LEMMA PurchaseTimed ==
  ASSUME Shape, AllTimed, NEW w \in Worker, BuyNumber(w) \/ BuyFallback(w)
  PROVE  AllTimed'
<1>1. UNCHANGED sts /\ worker[w].pc \in Buying /\ worker[w] \in WorkerState
      /\ worker[w].st # None
  BY DEF BuyNumber, BuyFallback, store, Buying, Shape, WorkerOnTask, TypeOK, WorkerTypeOK
<1>2. PICK owner, onError : Purchase(w, owner, onError)
  BY DEF BuyNumber, BuyFallback
<1>3. \/ MovesOn(w, onError, owner)
      \/ \E o \in Stock : \E e : Obtains(w, owner, o, e)
  BY <1>2 DEF Purchase, MovesOn, Obtains
<1>4. CASE MovesOn(w, onError, owner)
  <2>1. Others(w) /\ worker'[w].st = worker[w].st
    BY <1>1, <1>4 DEF MovesOn, Others, Shape, TypeOK, WorkerTypeOK, WorkerState
  <2>2. QED  BY <1>1, <2>1, OneCopyTimed DEF AllTimed
<1>5. ASSUME NEW o \in Stock, NEW e, Obtains(w, owner, o, e)
      PROVE  AllTimed'
  <2>1. o # None
    BY NoneAssumption DEF Stock
  <2>2. Others(w) /\ worker'[w].st.order = o
    BY <1>1, <1>5 DEF Obtains, Others, Shape, TypeOK, WorkerTypeOK, WorkerState,
       ProviderState
  <2>3. QED  BY <1>1, <2>1, <2>2, OneCopyTimed DEF Timed
<1>6. QED  BY <1>3, <1>4, <1>5

LEMMA ApiTimed ==
  ASSUME Shape, AllTimed, NEW h \in Request, ApiStep(h)
  PROVE  AllTimed'
<1>1. UNCHANGED worker
  BY DEF ApiStep, CreateRead, NextRead, CancelRead, DevCancelRead, CompleteRead, Load,
         CreateInsert, ResetCommit, UpstreamCall, CloseCommit, RequestDies, rest, store
<1>2. CASE ResetCommit(h) /\ ~UNCHANGED sts
  <2>1. request[h].v \in Voucher
        /\ sts' = [sts EXCEPT ![request[h].v] = FreshState(request[h].v)]
    BY <1>2 DEF ResetCommit, Shape, RequestOnTask
  <2>2. \A v \in Voucher : sts'[v] = sts[v] \/ sts'[v] = FreshState(v)
    BY <2>1 DEF Shape, TypeOK, StoreTypeOK
  <2>3. QED  BY <1>1, <2>2, FreshTimed DEF AllTimed, Timed
<1>3. CASE ~(ResetCommit(h) /\ ~UNCHANGED sts)
  <2>1. UNCHANGED sts
    BY <1>3 DEF ApiStep, CreateRead, NextRead, CancelRead, DevCancelRead, CompleteRead,
       Load, CreateInsert, UpstreamCall, CloseCommit, RequestDies, rest, store
  <2>2. QED  BY <1>1, <2>1 DEF AllTimed, Timed
<1>4. QED  BY <1>2, <1>3

LEMMA TimedNext == ASSUME Shape, AllTimed, [Next]_vars PROVE AllTimed'
<1>1. CASE UNCHANGED <<sts, worker>>
  BY <1>1 DEF AllTimed, Timed
<1>2. ASSUME NEW w \in Worker, WorkerStep(w) \/ DbError(w) \/ Crash(w) \/ Restart(w)
      PROVE  AllTimed'
  <2>1. CASE DbError(w)
    BY <2>1, RollbackTimed DEF DbError
  <2>2. CASE WorkerStep(w) \/ Crash(w) \/ Restart(w)
    BY <2>2, UndecidedTimed, BoughtTimed, GuardCommitTimed, WrittenTimed, MovesTimed,
       PurchaseTimed DEF WorkerStep
  <2>3. QED  BY <1>2, <2>1, <2>2
<1>3. CASE Environment /\ UNCHANGED <<worker, faults, request>>
  BY <1>1, <1>3 DEF Environment, Tick, PutConfig, SmsArrives, UpstreamDrops, store
<1>4. CASE UNCHANGED vars
  BY <1>1, <1>4 DEF vars, store
<1>5. QED  BY <1>2, <1>3, <1>4, ApiTimed DEF Next

LEMMA TimedInit == Init => AllTimed
  BY DEF Init, StoreInit, WorkerInit, Idle, AllTimed, Timed

-----------------------------------------------------------------------------
(* A delivered task has a configuration and a key for the worker that is to  *)
(* close its order: neither is taken back.                                   *)
Configured ==
    /\ \A v \in Voucher : HasStatus(v, {"CODE_READY"}) => config # None /\ ApiKey
    /\ \A w \in Worker : worker[w].cfg # None => config # None

LEMMA WorkerConfigured ==
  ASSUME Configured, NEW w \in Worker, WorkerKinds(w)
  PROVE  Configured'
<1>1. UNCHANGED config /\ Others(w)
  BY DEF WorkerKinds
<1>2. worker'[w].cfg # None => config # None
  BY DEF WorkerKinds, Selects, Claims, Goes, Leaves, Decides, Finishes, Expires,
     Concludes, Ends, Remembers, Configured
<1>3. ASSUME NEW v \in Voucher, HasStatus(v, {"CODE_READY"})' PROVE config # None /\ ApiKey
  <2>1. CASE HasStatus(v, {"CODE_READY"})
    BY <2>1 DEF Configured
  <2>2. CASE ~HasStatus(v, {"CODE_READY"})
    <3>1. Serviceable(w)
      BY <1>3, <2>2 DEF HasStatus, WorkerKinds, Selects, Claims, Goes, Leaves, Decides,
         Finishes, Expires, Concludes, Writes
    <3>2. QED  BY <3>1 DEF Serviceable, Configured
  <2>3. QED  BY <2>1, <2>2
<1>4. QED  BY <1>1, <1>2, <1>3 DEF Configured, Others

LEMMA HandlerConfigured ==
  ASSUME Shape, Configured, NEW h \in Request, HandlerKinds(h)
  PROVE  Configured'
<1>1. UNCHANGED <<worker, config>> /\ request[h].target # "CODE_READY"
  BY DEF HandlerKinds, Shape, TypeOK, ApiTypeOK, RequestState
<1>2. ASSUME NEW v \in Voucher, HasStatus(v, {"CODE_READY"})'
      PROVE  HasStatus(v, {"CODE_READY"})
  BY <1>1, <1>2 DEF HasStatus, HandlerKinds, Plans, Calls, Answers, Inserts, Resets,
     Rewrites, Puts
<1>3. QED  BY <1>1, <1>2 DEF Configured

LEMMA ConfiguredNext ==
  ASSUME Shape, Locked, Configured, [Next]_vars PROVE Configured'
<1>1. CASE Neither
  BY <1>1 DEF Neither, Configured, HasStatus
<1>2. QED  BY <1>1, LifeKinds, WorkerConfigured, HandlerConfigured

LEMMA ConfiguredInit == Init => Configured
  BY DEF Init, StoreInit, WorkerInit, Idle, Configured, HasStatus

-----------------------------------------------------------------------------
(* One worker, as well as one handler, busy with a task at a time.           *)
OneWorkerEach ==
    \A w, x \in Worker :
        /\ w # x
        /\ worker[w].pc \notin {"idle", "down"} /\ worker[x].pc \notin {"idle", "down"}
        => worker[w].v # worker[x].v

Alone == OneWorkerEach /\ OneHandlerEach

(* What a worker knows of its task then. It claims a task that is open, or   *)
(* delivered and past its order's time; it gives up an open one only, and    *)
(* purchases for one that is not delivered meanwhile.                        *)
ClaimFits(w) ==
    /\ worker[w].pc \in Locking =>
         /\ HasStatus(worker[w].v, Open \union {"CODE_READY"})
         /\ worker[w].claim <= worker[w].now
    /\ worker[w].pc \in Choosing /\ HasStatus(worker[w].v, {"CODE_READY"}) =>
         /\ worker[w].st # None /\ Due(worker[w].st.expires, worker[w].claim)
         /\ Serviceable(w)
    /\ worker[w].pc = "expired" => HasStatus(worker[w].v, Open)
    /\ worker[w].pc \in Buying \union {"cleaning"} => ~HasStatus(worker[w].v, Consumed)

(* What a handler knows of the task it is about to write: one that it is to  *)
(* start over without looking at its code has none, or was delivered since.  *)
PlanFits(h) ==
    /\ request[h].pc = "resetting" =>
         \/ request[h].seen.code # None
         \/ tasks[request[h].v].code = None
         \/ HasStatus(request[h].v, Consumed)
    /\ Completing(h) => HasStatus(request[h].v, Consumed)
    /\ request[h].pc \in {"calling", "closing"} => request[h].target \in {"CANCELED", "DONE"}

Fitting == (\A w \in Worker : ClaimFits(w)) /\ (\A h \in Request : PlanFits(h))

LifeInv ==
    /\ Shape /\ ClocksBehind /\ Locked /\ CodesKept /\ AllTimed /\ Configured /\ Fitting

(* A delivered task that is claimed has a code and an order whose time is    *)
(* up: the worker's first test applies.                                      *)
LEMMA DeliveredIsExpired ==
  ASSUME LifeInv, NEW w \in Worker, worker[w].pc = "claimed",
         HasStatus(worker[w].v, {"CODE_READY"})
  PROVE  Serviceable(w) /\ CodeExpired(w)
<1>1. worker[w].v \in Voucher /\ worker[w] \in WorkerState
  BY DEF LifeInv, Shape, WorkerOnTask, TypeOK, WorkerTypeOK
<1>2. /\ worker[w].st # None /\ Due(worker[w].st.expires, worker[w].claim)
      /\ Serviceable(w) /\ worker[w].claim <= worker[w].now
  BY DEF LifeInv, Fitting, ClaimFits, Choosing, Locking
<1>3. tasks[worker[w].v].code # None
  BY <1>1 DEF LifeInv, CodesKept, HasStatus, Consumed, HasCode
<1>4. worker[w].st.order # None
  BY <1>2 DEF LifeInv, AllTimed, Timed, Due
<1>5. Due(worker[w].st.expires, worker[w].now)
  <2>1. worker[w].st \in ProviderState /\ worker[w].claim \in Time /\ worker[w].now \in Time
    BY <1>1, <1>2 DEF WorkerState
  <2>2. worker[w].st.expires \in Time
    BY <1>2, <2>1 DEF ProviderState, Deadline, Due
  <2>3. QED  BY <1>2, <2>1, <2>2, TimingAssumption DEF Due, Time
<1>6. QED  BY <1>2, <1>3, <1>4, <1>5 DEF CodeExpired, OrderOf

LEMMA DecidesOpen ==
  ASSUME LifeInv, NEW w \in Worker, Decides(w)
  PROVE  HasStatus(worker[w].v, Open)
<1>1. HasStatus(worker[w].v, Open \union {"CODE_READY"})
  BY DEF LifeInv, Fitting, ClaimFits, Decides, Locking
<1>2. ~HasStatus(worker[w].v, {"CODE_READY"})
  BY DeliveredIsExpired DEF Decides
<1>3. QED  BY <1>1, <1>2 DEF HasStatus

(* What becomes of a task that a worker writes.                              *)
Untouched(v) == tasks'[v] = tasks[v]

Undelivered(v) ==
    /\ tasks[v] # None /\ tasks[v].status \notin Consumed
    /\ tasks'[v] # None /\ tasks'[v].status \notin Consumed
    /\ tasks'[v].code = tasks[v].code

Delivered(w) ==
    /\ worker[w].pc = "claimed" /\ Serviceable(w) /\ HasStatus(worker[w].v, Open)
    /\ tasks'[worker[w].v] # None /\ tasks'[worker[w].v].status = "CODE_READY"

Completed(w) ==
    LET v == worker[w].v IN
    /\ worker[w].pc = "finished" /\ HasStatus(v, Open \union {"CODE_READY"})
    /\ tasks'[v] # None /\ tasks'[v].status = "DONE" /\ tasks'[v].code = tasks[v].code

LEMMA WorkerTouches ==
  ASSUME LifeInv, NEW w \in Worker, WorkerKinds(w), NEW v \in Voucher
  PROVE  \/ Untouched(v)
         \/ /\ v = worker[w].v /\ worker[w].pc \notin {"idle", "down"}
            /\ Undelivered(v) \/ Delivered(w) \/ Completed(w)
<1>1. CASE Selects(w) \/ Claims(w) \/ Goes(w) \/ Leaves(w)
  BY <1>1 DEF Selects, Claims, Goes, Leaves, Untouched
<1>2. CASE Decides(w)
  <2>1. HasStatus(worker[w].v, Open)
    BY <1>2, DecidesOpen
  <2>2. QED
    BY <1>2, <2>1 DEF Decides, Writes, HasStatus, Open, Consumed, Untouched, Undelivered,
       Delivered
<1>3. CASE Finishes(w)
  <2>1. HasStatus(worker[w].v, Open \union {"CODE_READY"})
    BY <1>3 DEF Finishes, LifeInv, Fitting, ClaimFits, Locking
  <2>2. QED  BY <1>3, <2>1 DEF Finishes, Writes, Untouched, Completed
<1>4. CASE Expires(w)
  <2>1. HasStatus(worker[w].v, Open)
    BY <1>4 DEF Expires, LifeInv, Fitting, ClaimFits
  <2>2. QED
    BY <1>4, <2>1 DEF Expires, Writes, HasStatus, Open, Consumed, Untouched, Undelivered
<1>5. CASE Concludes(w)
  <2>1. ~HasStatus(worker[w].v, Consumed)
    BY <1>5 DEF Concludes, LifeInv, Fitting, ClaimFits
  <2>2. QED
    BY <1>5, <2>1 DEF Concludes, Writes, HasStatus, Consumed, Untouched, Undelivered,
       Buying
<1>6. QED  BY <1>1, <1>2, <1>3, <1>4, <1>5 DEF WorkerKinds

-----------------------------------------------------------------------------
(* Steps keep what the others know.                                          *)

LEMMA SameTaskSameFit ==
  ASSUME Shape, NEW w \in Worker, ClaimFits(w), worker'[w] = worker[w],
         worker[w].pc \notin {"idle", "down"} => Untouched(worker[w].v)
  PROVE  ClaimFits(w)'
  BY DEF ClaimFits, HasStatus, Untouched, Serviceable, Locking, Choosing, Buying

LEMMA WorkerKeepsClaims ==
  ASSUME LifeInv, OneWorkerEach, NEW w \in Worker, WorkerKinds(w),
         NEW x \in Worker \ {w}
  PROVE  ClaimFits(x)'
<1>1. worker'[x] = worker[x]
  BY DEF WorkerKinds, Others
<1>2. ASSUME worker[x].pc \notin {"idle", "down"} PROVE Untouched(worker[x].v)
  <2>1. worker[x].v \in Voucher
    BY <1>2 DEF LifeInv, Shape, WorkerOnTask
  <2>2. worker[w].pc \notin {"idle", "down"} => worker[w].v # worker[x].v
    BY <1>2 DEF OneWorkerEach
  <2>3. QED  BY <2>1, <2>2, WorkerTouches
<1>3. QED  BY <1>1, <1>2, SameTaskSameFit DEF LifeInv, Fitting

LEMMA WorkerClaims ==
  ASSUME LifeInv, NEW w \in Worker, WorkerKinds(w)
  PROVE  ClaimFits(w)'
<1> USE DEF LifeInv
<1>1. CASE Selects(w)
  <2>1. /\ worker'[w].pc = "selected" /\ tasks' = tasks /\ worker'[w].v \in Voucher
        /\ worker'[w].st = sts[worker'[w].v] /\ worker'[w].claim = now
        /\ worker'[w].cfg = config
    BY <1>1 DEF Selects
  <2>2. HasStatus(worker'[w].v, {"CODE_READY"}) =>
          /\ worker'[w].st # None /\ Due(worker'[w].st.expires, worker'[w].claim)
          /\ worker'[w].cfg # None /\ ApiKey
    BY <1>1, <2>1 DEF Selects, Configured
  <2>3. QED
    BY <2>1, <2>2 DEF ClaimFits, HasStatus, Locking, Choosing, Buying, Serviceable
<1>2. CASE Claims(w)
  <2>1. now \in Time /\ worker[w].claim <= now
    BY DEF ClocksBehind, Shape, TypeOK, StoreTypeOK
  <2>2. /\ worker[w].pc = "selected" /\ worker'[w].pc = "claimed" /\ tasks' = tasks
        /\ worker'[w].v = worker[w].v /\ worker'[w].cfg = worker[w].cfg
        /\ worker'[w].claim = worker[w].claim /\ worker'[w].st = worker[w].st
        /\ worker'[w].now = now /\ HasStatus(worker[w].v, Open \union {"CODE_READY"})
    BY <1>2 DEF Claims, Remembers
  <2>3. QED
    BY <2>1, <2>2 DEF Fitting, ClaimFits, HasStatus, Locking, Choosing, Buying,
       Serviceable
<1>3. CASE Goes(w)
  <2>1. /\ worker'[w].v = worker[w].v /\ worker'[w].claim = worker[w].claim
        /\ worker'[w].now = worker[w].now /\ tasks' = tasks
    BY <1>3 DEF Goes, Remembers
  <2>2. CASE worker[w].pc = "claimed"
    <3>1. worker'[w].pc \in {"finished", "expired"}
      BY <1>3, <2>2 DEF Goes, Buying
    <3>2. worker'[w].pc = "expired" => HasStatus(worker[w].v, Open)
      <4>1. worker'[w].pc = "expired" => ~CodeExpired(w)
        BY <1>3, <2>2 DEF Goes, Overdue, Buying
      <4>2. worker'[w].pc = "expired" => ~HasStatus(worker[w].v, {"CODE_READY"})
        BY <2>2, <4>1, DeliveredIsExpired
      <4>3. QED  BY <2>2, <4>2 DEF Fitting, ClaimFits, Locking, HasStatus
    <3>3. QED
      BY <2>1, <2>2, <3>1, <3>2 DEF Fitting, ClaimFits, HasStatus, Locking, Choosing, Buying
  <2>3. CASE worker[w].pc # "claimed"
    <3>1. worker'[w].pc \in Buying \union {"cleaning"} /\ ~HasStatus(worker[w].v, Consumed)
      BY <1>3, <2>3 DEF Goes, Fitting, ClaimFits, HasStatus, Open, Consumed
    <3>2. QED
      BY <2>1, <3>1 DEF ClaimFits, HasStatus, Locking, Choosing, Buying
  <2>4. QED  BY <2>2, <2>3
<1>4. CASE Decides(w) /\ worker'[w].pc = "granted"
  <2>1. worker'[w].v = worker[w].v /\ tasks'[worker[w].v].status = "PROCESSING"
    BY <1>4 DEF Decides, Ends, Remembers, Writes
  <2>2. QED
    BY <1>4, <2>1 DEF ClaimFits, HasStatus, Locking, Choosing, Buying, Consumed
<1>5. CASE worker'[w].pc \in {"idle", "rolledback", "down"}
  BY <1>5 DEF ClaimFits, Locking, Choosing, Buying
<1>6. QED
  BY <1>1, <1>2, <1>3, <1>4, <1>5
  DEF WorkerKinds, Leaves, Decides, Finishes, Expires, Concludes, Ends

LEMMA WorkerKeepsPlans ==
  ASSUME LifeInv, NEW w \in Worker, WorkerKinds(w), NEW h \in Request
  PROVE  PlanFits(h)'
<1>1. PlanFits(h) /\ UNCHANGED request
  BY DEF LifeInv, Fitting, WorkerKinds
<1>2. CASE request[h].pc \notin {"resetting", "calling", "closing"}
  BY <1>1, <1>2 DEF PlanFits, Completing
<1>3. CASE request[h].pc \in {"resetting", "calling", "closing"}
  <2>1. request[h].v \in Voucher
    BY <1>3 DEF LifeInv, Shape, RequestOnTask
  <2>2. \/ Untouched(request[h].v)
        \/ Undelivered(request[h].v)
        \/ tasks'[request[h].v] # None /\ tasks'[request[h].v].status \in Consumed
    BY <2>1, WorkerTouches DEF Delivered, Completed, Consumed
  <2>3. QED
    BY <1>1, <2>2 DEF PlanFits, Completing, HasStatus, Untouched, Undelivered
<1>4. QED  BY <1>2, <1>3

(* A handler writes no task whose row is locked, and none to complete it     *)
(* that is not delivered.                                                    *)
LEMMA HandlerTouches ==
  ASSUME LifeInv, NEW h \in Request, HandlerKinds(h), NEW v \in Voucher
  PROVE  \/ Untouched(v)
         \/ /\ v = request[h].v /\ request[h].pc \in {"inserting", "resetting", "closing"}
            /\ tasks[v] = None \/ lock[v] = None
            /\ HasStatus(v, Consumed)' => HasStatus(v, Consumed)
            /\ HasStatus(v, {"CODE_READY"})' => HasStatus(v, {"CODE_READY"})
<1>1. CASE Plans(h) \/ Calls(h) \/ Answers(h)
  BY <1>1 DEF Plans, Calls, Answers, Untouched
<1>2. CASE Inserts(h) \/ Resets(h)
  BY <1>2 DEF Inserts, Resets, Puts, Untouched, HasStatus, Consumed
<1>3. CASE Rewrites(h)
  <2>1. request[h].target \in {"CANCELED", "DONE"}
        /\ (request[h].target = "DONE" => HasStatus(request[h].v, Consumed))
    BY <1>3 DEF LifeInv, Fitting, PlanFits, Completing, Rewrites
  <2>2. QED
    BY <1>3, <2>1 DEF Rewrites, Puts, Untouched, HasStatus, Consumed
<1>4. QED  BY <1>1, <1>2, <1>3 DEF HandlerKinds

LEMMA HandlerKeepsClaims ==
  ASSUME LifeInv, NEW h \in Request, HandlerKinds(h), NEW w \in Worker
  PROVE  ClaimFits(w)'
<1>1. ClaimFits(w) /\ worker' = worker /\ Shape
  BY DEF LifeInv, Fitting, HandlerKinds
<1>2. CASE worker[w].pc \in {"idle", "down"}
  BY <1>1, <1>2, SameTaskSameFit
<1>3. CASE worker[w].pc \notin {"idle", "down"}
  <2>1. worker[w].v \in Voucher /\ tasks[worker[w].v] # None /\ w # None
    BY <1>3, NoneAssumption DEF LifeInv, Shape, WorkerOnTask
  <2>2. CASE Untouched(worker[w].v)
    BY <1>1, <2>2, SameTaskSameFit
  <2>3. CASE ~Untouched(worker[w].v)
    <3>1. /\ lock[worker[w].v] = None
          /\ HasStatus(worker[w].v, Consumed)' => HasStatus(worker[w].v, Consumed)
          /\ HasStatus(worker[w].v, {"CODE_READY"})' => HasStatus(worker[w].v, {"CODE_READY"})
      BY <1>1, <2>1, <2>3, HandlerTouches DEF HasStatus
    <3>2. worker[w].pc \notin Locking
      BY <2>1, <3>1 DEF LifeInv, Locked
    <3>3. QED
      BY <1>1, <3>1, <3>2 DEF ClaimFits, HasStatus, Locking, Serviceable
  <2>4. QED  BY <2>2, <2>3
<1>4. QED  BY <1>2, <1>3

LEMMA HandlerKeepsPlans ==
  ASSUME LifeInv, OneHandlerEach, NEW h \in Request, HandlerKinds(h),
         NEW g \in Request \ {h}
  PROVE  PlanFits(g)'
<1>1. PlanFits(g) /\ request'[g] = request[g]
  BY DEF LifeInv, Fitting, HandlerKinds, Elsewhere
<1>2. CASE request[g].pc \notin {"resetting", "calling", "closing"}
  BY <1>1, <1>2 DEF PlanFits, Completing
<1>3. CASE request[g].pc \in {"resetting", "calling", "closing"}
  <2>1. request[g].v \in Voucher
    BY <1>3 DEF LifeInv, Shape, RequestOnTask
  <2>2. request[h].pc # "idle" => request[h].v # request[g].v
    BY <1>3 DEF OneHandlerEach
  <2>3. Untouched(request[g].v)
    BY <2>1, <2>2, HandlerTouches
  <2>4. QED  BY <1>1, <2>3 DEF PlanFits, Completing, HasStatus, Untouched
<1>4. QED  BY <1>2, <1>3

LEMMA HandlerPlans ==
  ASSUME LifeInv, NEW h \in Request, HandlerKinds(h)
  PROVE  PlanFits(h)'
<1>1. CASE Plans(h)
  BY <1>1 DEF Plans, PlanFits, Completing, HasStatus
<1>2. CASE Calls(h)
  BY <1>2 DEF Calls, LifeInv, Fitting, PlanFits, Completing, HasStatus
<1>3. CASE request'[h].pc = "idle"
  BY <1>3 DEF PlanFits, Completing
<1>4. QED
  BY <1>1, <1>2, <1>3 DEF HandlerKinds, Answers, Inserts, Resets, Rewrites, Puts

LEMMA FittingNext ==
  ASSUME LifeInv, Alone, [Next]_vars PROVE Fitting'
<1>1. CASE Neither
  BY <1>1 DEF Neither, LifeInv, Fitting, ClaimFits, PlanFits, Completing, HasStatus,
     Serviceable
<1>2. ASSUME NEW w \in Worker, WorkerKinds(w) PROVE Fitting'
  BY <1>2, WorkerKeepsClaims, WorkerClaims, WorkerKeepsPlans DEF Fitting, Alone
<1>3. ASSUME NEW h \in Request, HandlerKinds(h) PROVE Fitting'
  BY <1>3, HandlerKeepsClaims, HandlerKeepsPlans, HandlerPlans DEF Fitting, Alone
<1>4. QED  BY <1>1, <1>2, <1>3, LifeKinds DEF LifeInv

LEMMA FittingInit == Init => Fitting
  BY IdleInType, NoRequestInType
  DEF Init, WorkerInit, ApiInit, Fitting, ClaimFits, PlanFits, Completing, Locking,
      Choosing, Buying

LEMMA LifeInvInit == Init => LifeInv
<1>1. Init => ClocksBehind
  BY TimingAssumption DEF Init, StoreInit, WorkerInit, Idle, ClocksBehind
<1>2. QED
  BY <1>1, InitShape, LockedInit, CodesInit, TimedInit, ConfiguredInit, FittingInit
  DEF LifeInv

LEMMA LifeInvNext == LifeInv /\ Alone /\ [Next]_vars => LifeInv'
  BY NextShape, ClocksStep, LockedNext, CodesNext, TimedNext, ConfiguredNext, FittingNext
  DEF LifeInv, Alone

-----------------------------------------------------------------------------
(* TaskLife's view of a voucher, and how its actions are recognised in it.   *)

Live(v) == IF tasks[v] = None THEN None ELSE LifeOf[tasks[v].status]
Shows(v) == IF tasks[v] = None THEN None ELSE tasks[v].code
BuyPlan(v) == IF Purchasing(v) THEN {"buy"} ELSE {}
Held(v) == Planned(v) \union BuyPlan(v)

Steady(v) == Live(v)' = Live(v) /\ Shows(v)' = Shows(v) /\ Held(v)' = Held(v)
Apart(v) == \A u \in Voucher \ {v} : Steady(u)

LifeStep == Life!LifeNext \/ UNCHANGED <<TaskLives, TaskCodes, TaskPlans>>

LEMMA Views ==
  ASSUME NEW v \in Voucher
  PROVE  TaskLives[v] = Live(v) /\ TaskCodes[v] = Shows(v) /\ TaskPlans[v] = Held(v)
  BY DEF TaskLives, TaskCodes, TaskPlans, Live, Shows, Held, BuyPlan

LEMMA LivesChange ==
  ASSUME NEW v \in Voucher, Apart(v)
  PROVE  /\ TaskLives' = [TaskLives EXCEPT ![v] = Live(v)']
         /\ Live(v)' = Live(v) => TaskLives' = TaskLives
<1>1. TaskLives = [u \in Voucher |-> Live(u)] /\ TaskLives' = [u \in Voucher |-> Live(u)']
  BY DEF TaskLives, Live
<1>2. \A u \in Voucher \ {v} : Live(u)' = Live(u)
  BY DEF Apart, Steady
<1>3. QED  BY <1>1, <1>2

LEMMA CodesChange ==
  ASSUME NEW v \in Voucher, Apart(v)
  PROVE  /\ TaskCodes' = [TaskCodes EXCEPT ![v] = Shows(v)']
         /\ Shows(v)' = Shows(v) => TaskCodes' = TaskCodes
<1>1. TaskCodes = [u \in Voucher |-> Shows(u)] /\ TaskCodes' = [u \in Voucher |-> Shows(u)']
  BY DEF TaskCodes, Shows
<1>2. \A u \in Voucher \ {v} : Shows(u)' = Shows(u)
  BY DEF Apart, Steady
<1>3. QED  BY <1>1, <1>2

LEMMA PlansChange ==
  ASSUME NEW v \in Voucher, Apart(v)
  PROVE  /\ TaskPlans' = [TaskPlans EXCEPT ![v] = Held(v)']
         /\ Held(v)' = Held(v) => TaskPlans' = TaskPlans
<1>1. TaskPlans = [u \in Voucher |-> Held(u)] /\ TaskPlans' = [u \in Voucher |-> Held(u)']
  BY DEF TaskPlans, Held, BuyPlan
<1>2. \A u \in Voucher \ {v} : Held(u)' = Held(u)
  BY DEF Apart, Steady
<1>3. QED  BY <1>1, <1>2

LEMMA StutterStep ==
  ASSUME \A v \in Voucher : Steady(v) PROVE LifeStep
<1>1. /\ \A v \in Voucher : Live(v)' = Live(v) /\ Shows(v)' = Shows(v)
      /\ \A v \in Voucher : Held(v)' = Held(v)
  BY DEF Steady
<1>2. TaskLives' = TaskLives
  BY <1>1 DEF TaskLives, Live
<1>3. TaskCodes' = TaskCodes
  BY <1>1 DEF TaskCodes, Shows
<1>4. TaskPlans' = TaskPlans
  BY <1>1 DEF TaskPlans, Held, BuyPlan
<1>5. QED  BY <1>2, <1>3, <1>4 DEF LifeStep

LEMMA RedeemStep ==
  ASSUME NEW v \in Voucher, Apart(v), Live(v) = None, Live(v)' = "open",
         Shows(v)' = Shows(v), Held(v)' = Held(v)
  PROVE  LifeStep
<1>1. Life!Redeem(v)
  BY Views, LivesChange, CodesChange, PlansChange DEF Life!Redeem, Life!Become
<1>2. QED  BY <1>1 DEF LifeStep, Life!LifeNext

LEMMA DeliverStep ==
  ASSUME NEW v \in Voucher, Apart(v), Live(v) = "open", "buy" \notin Held(v),
         Live(v)' = "delivered", Shows(v)' \in Order, Held(v)' = Held(v)
  PROVE  LifeStep
<1>1. Life!Deliver(v)
  BY Views, LivesChange, CodesChange, PlansChange DEF Life!Deliver, Life!Become
<1>2. QED  BY <1>1 DEF LifeStep, Life!LifeNext

LEMMA FailStep ==
  ASSUME NEW v \in Voucher, Apart(v), Live(v) = "open", "buy" \notin Held(v),
         Live(v)' = "failed", Shows(v)' = Shows(v), Held(v)' = Held(v)
  PROVE  LifeStep
<1>1. Life!Fail(v)
  BY Views, LivesChange, CodesChange, PlansChange DEF Life!Fail, Life!Become
<1>2. QED  BY <1>1 DEF LifeStep, Life!LifeNext

LEMMA FinishStep ==
  ASSUME NEW v \in Voucher, Apart(v), "buy" \notin Held(v),
         Live(v) = "delivered" \/ (Live(v) = "open" /\ Shows(v) # None),
         Live(v)' = "done", Shows(v)' = Shows(v), Held(v)' = Held(v)
  PROVE  LifeStep
<1>1. Life!Finish(v)
  BY Views, LivesChange, CodesChange, PlansChange DEF Life!Finish, Life!Become
<1>2. QED  BY <1>1 DEF LifeStep, Life!LifeNext

LEMMA FormStep ==
  ASSUME NEW v \in Voucher, Apart(v), Live(v)' = Live(v), Shows(v)' = Shows(v),
         NEW plan \in Life!Plan \ Held(v), Live(v) \in Life!Allowed[plan],
         plan = "buy" \/ Held(v) \subseteq {"buy"},
         Held(v)' = Held(v) \union {plan}
  PROVE  LifeStep
<1>1. Life!Form(v, plan)
  BY Views, LivesChange, CodesChange, PlansChange DEF Life!Form
<1>2. QED  BY <1>1, Views DEF LifeStep, Life!LifeNext

LEMMA DropStep ==
  ASSUME NEW v \in Voucher, Apart(v), Live(v)' = Live(v), Shows(v)' = Shows(v),
         NEW plan \in Held(v), Held(v)' = Held(v) \ {plan}
  PROVE  LifeStep
<1>1. Life!Drop(v, plan)
  BY Views, LivesChange, CodesChange, PlansChange DEF Life!Drop
<1>2. QED  BY <1>1, Views DEF LifeStep, Life!LifeNext

LEMMA EffectStep ==
  ASSUME NEW v \in Voucher, Apart(v),
         NEW plan \in Held(v), Held(v)' = Held(v) \ {plan},
         Live(v)' \in Life!Outcome[plan],
         \/ Shows(v)' = Shows(v) /\ (plan # "start" \/ Live(v) \notin Life!Allowed["start"])
         \/ Shows(v)' = None /\ plan = "start"
  PROVE  LifeStep
<1>1. \E l \in Life!Outcome[plan] : Life!Become(v, l)
  BY LivesChange DEF Life!Become
<1>2. TaskPlans' = [TaskPlans EXCEPT ![v] = @ \ {plan}]
  BY Views, PlansChange
<1>3. IF plan # "start" THEN UNCHANGED TaskCodes
      ELSE \/ TaskCodes' = [TaskCodes EXCEPT ![v] = None]
           \/ TaskLives[v] \notin Life!Allowed["start"] /\ UNCHANGED TaskCodes
  BY Views, CodesChange
<1>4. Life!TakeEffect(v, plan)
  BY <1>1, <1>2, <1>3 DEF Life!TakeEffect
<1>5. QED  BY <1>4, Views DEF LifeStep, Life!LifeNext

-----------------------------------------------------------------------------
(* The plans a step leaves, for the one who takes it.                        *)

LEMMA SameTask ==
  ASSUME NEW v, tasks'[v] = tasks[v] PROVE Live(v)' = Live(v) /\ Shows(v)' = Shows(v)
  BY DEF Live, Shows

PlansFor(h, v) == request[h].v = v /\ request[h].pc \notin {"idle", "inserting"}
BuysFor(w, v) == worker[w].v = v /\ worker[w].pc \in Buying \union {"cleaning"}

LEMMA ClientPlans ==
  ASSUME NEW v PROVE Planned(v) \subseteq {"start", "complete", "cancel"}
  BY DEF Planned, PlanOf

LEMMA HeldSame ==
  ASSUME NEW v, UNCHANGED <<worker, request>> PROVE Held(v)' = Held(v)
  BY DEF Held, BuyPlan, Planned, PlanOf, Purchasing

LEMMA BusyHolds ==
  ASSUME LifeInv, OneWorkerEach, NEW w \in Worker, WorkerKinds(w),
         worker[w].pc \notin {"idle", "down"}, NEW v, v = worker[w].v
  PROVE  /\ Held(v) = Planned(v) \union (IF BuysFor(w, v) THEN {"buy"} ELSE {})
         /\ Held(v)' = Planned(v) \union (IF BuysFor(w, v)' THEN {"buy"} ELSE {})
<1>1. \A x \in Worker \ {w} : worker'[x] = worker[x] /\ ~BuysFor(x, v)
  BY DEF WorkerKinds, Others, OneWorkerEach, BuysFor, Buying
<1>2. Purchasing(v) <=> BuysFor(w, v)
  BY <1>1 DEF Purchasing, BuysFor
<1>3. Purchasing(v)' <=> BuysFor(w, v)'
  BY <1>1 DEF Purchasing, BuysFor
<1>4. Planned(v)' = Planned(v)
  BY DEF WorkerKinds, Planned, PlanOf
<1>5. QED  BY <1>2, <1>3, <1>4 DEF Held, BuyPlan

LEMMA WorkerHeldSame ==
  ASSUME NEW w \in Worker, WorkerKinds(w), NEW v, BuysFor(w, v)' <=> BuysFor(w, v)
  PROVE  Held(v)' = Held(v)
<1>1. \A x \in Worker : BuysFor(x, v)' <=> BuysFor(x, v)
  BY DEF WorkerKinds, Others, BuysFor
<1>2. Purchasing(v)' <=> Purchasing(v)
  BY <1>1 DEF Purchasing, BuysFor
<1>3. Planned(v)' = Planned(v)
  BY DEF WorkerKinds, Planned, PlanOf
<1>4. QED  BY <1>2, <1>3 DEF Held, BuyPlan

LEMMA BusyApart ==
  ASSUME LifeInv, OneWorkerEach, NEW w \in Worker, WorkerKinds(w),
         worker[w].pc \notin {"idle", "down"}
  PROVE  worker[w].v \in Voucher /\ Apart(worker[w].v)
<1>1. worker[w].v \in Voucher
  BY DEF LifeInv, Shape, WorkerOnTask
<1>2. ~Selects(w)
  BY DEF Selects
<1>3. ASSUME NEW u \in Voucher \ {worker[w].v} PROVE Steady(u)
  <2>1. tasks'[u] = tasks[u]
    BY WorkerTouches DEF Untouched
  <2>2. worker'[w].v = worker[w].v \/ worker'[w].pc \in {"idle", "rolledback", "down"}
    BY <1>2 DEF WorkerKinds, Claims, Goes, Leaves, Decides, Finishes, Expires,
       Concludes, Ends, Remembers
  <2>3. ~BuysFor(w, u) /\ ~BuysFor(w, u)'
    BY <2>2 DEF BuysFor, Buying
  <2>4. QED  BY <2>1, <2>3, SameTask, WorkerHeldSame DEF Steady
<1>4. QED  BY <1>1, <1>3 DEF Apart

LEMMA OnlyHandler ==
  ASSUME NEW h \in Request, Elsewhere(h), UNCHANGED worker, NEW v,
         \A g \in Request \ {h} : ~PlansFor(g, v)
  PROVE  /\ Held(v) = BuyPlan(v) \union (IF PlansFor(h, v) THEN {PlanOf(h)} ELSE {})
         /\ Held(v)' = BuyPlan(v) \union (IF PlansFor(h, v)' THEN {PlanOf(h)'} ELSE {})
<1>1. \A g \in Request \ {h} : ~PlansFor(g, v)'
  BY DEF Elsewhere, PlansFor
<1>2. Planned(v) = IF PlansFor(h, v) THEN {PlanOf(h)} ELSE {}
  BY DEF Planned, PlansFor
<1>3. Planned(v)' = IF PlansFor(h, v)' THEN {PlanOf(h)'} ELSE {}
  BY <1>1 DEF Planned, PlansFor
<1>4. BuyPlan(v)' = BuyPlan(v)
  BY DEF BuyPlan, Purchasing
<1>5. QED  BY <1>2, <1>3, <1>4 DEF Held

LEMMA HandlerHeldSame ==
  ASSUME NEW h \in Request, Elsewhere(h), UNCHANGED worker, NEW v,
         PlansFor(h, v)' <=> PlansFor(h, v), PlansFor(h, v) => PlanOf(h)' = PlanOf(h)
  PROVE  Held(v)' = Held(v)
<1>1. \A g \in Request : /\ PlansFor(g, v)' <=> PlansFor(g, v)
                         /\ PlansFor(g, v) => PlanOf(g)' = PlanOf(g)
  BY DEF Elsewhere, PlansFor, PlanOf
<1>2. Planned(v)' = Planned(v)
  <2>1. Planned(v) = {PlanOf(g) : g \in {g \in Request : PlansFor(g, v)}}
    BY DEF Planned, PlansFor
  <2>2. Planned(v)' = {PlanOf(g)' : g \in {g \in Request : PlansFor(g, v)'}}
    BY DEF Planned, PlansFor
  <2>3. {g \in Request : PlansFor(g, v)'} = {g \in Request : PlansFor(g, v)}
    BY <1>1
  <2>4. QED  BY <1>1, <2>1, <2>2, <2>3
<1>3. BuyPlan(v)' = BuyPlan(v)
  BY DEF BuyPlan, Purchasing
<1>4. QED  BY <1>2, <1>3 DEF Held

LEMMA BuyPlanOnly == ASSUME NEW v PROVE BuyPlan(v) \subseteq {"buy"}
  BY DEF BuyPlan

LEMMA PlanOfClient == ASSUME NEW h PROVE PlanOf(h) \in {"start", "complete", "cancel"}
  BY DEF PlanOf

-----------------------------------------------------------------------------
(* A worker's step, as TaskLife sees it.                                     *)

LEMMA LoadStep ==
  ASSUME NEW w \in Worker, WorkerKinds(w), UNCHANGED tasks,
         \A v \in Voucher : BuysFor(w, v)' <=> BuysFor(w, v)
  PROVE  LifeStep
  BY SameTask, WorkerHeldSame, StutterStep DEF Steady

LEMMA GoesStep ==
  ASSUME LifeInv, OneWorkerEach, NEW w \in Worker, WorkerKinds(w), Goes(w)
  PROVE  LifeStep
<1>1. worker'[w].v = worker[w].v /\ tasks' = tasks
  BY DEF Goes, Remembers
<1>2. CASE worker[w].pc # "rolledback"
  <2>1. \A v : BuysFor(w, v)' <=> BuysFor(w, v)
    BY <1>1, <1>2 DEF Goes, BuysFor, Buying
  <2>2. QED  BY <1>1, <2>1, LoadStep
<1>3. CASE worker[w].pc = "rolledback"
  <2> PICK v : v = worker[w].v
    OBVIOUS
  <2>1. worker'[w].pc = "cleaning" /\ HasStatus(v, Open)
    BY <1>3 DEF Goes, Buying
  <2>2. v \in Voucher /\ Apart(v)
    BY <1>3, BusyApart
  <2>3. Held(v) = Planned(v) /\ Held(v)' = Planned(v) \union {"buy"}
    <3>1. ~BuysFor(w, v) /\ BuysFor(w, v)'
      BY <1>1, <1>3, <2>1 DEF BuysFor, Buying
    <3>2. QED  BY <1>3, <3>1, BusyHolds
  <2>4. "buy" \in Life!Plan \ Held(v)
    BY <2>3, ClientPlans DEF Life!Plan
  <2>5. Live(v) \in Life!Allowed["buy"]
    BY <2>1 DEF Live, LifeOf, HasStatus, Open, Life!Allowed
  <2>6. Live(v)' = Live(v) /\ Shows(v)' = Shows(v)
    BY <1>1, SameTask
  <2>7. QED  BY <2>2, <2>3, <2>4, <2>5, <2>6, FormStep
<1>4. QED  BY <1>2, <1>3

LEMMA LeavesStep ==
  ASSUME LifeInv, OneWorkerEach, NEW w \in Worker, WorkerKinds(w), Leaves(w)
  PROVE  LifeStep
<1>1. tasks' = tasks /\ \A v : ~BuysFor(w, v)'
  BY DEF Leaves, BuysFor, Buying
<1>2. CASE \A v : ~BuysFor(w, v)
  BY <1>1, <1>2, LoadStep
<1>3. CASE BuysFor(w, worker[w].v)
  <2> PICK v : v = worker[w].v
    OBVIOUS
  <2>1. worker[w].pc \notin {"idle", "down"}
    BY <1>3 DEF BuysFor, Buying
  <2>2. v \in Voucher /\ Apart(v)
    BY <2>1, BusyApart
  <2>3. Held(v) = Planned(v) \union {"buy"} /\ Held(v)' = Planned(v)
    BY <1>1, <1>3, <2>1, BusyHolds
  <2>4. "buy" \in Held(v) /\ Held(v)' = Held(v) \ {"buy"}
    BY <2>3, ClientPlans
  <2>5. Live(v)' = Live(v) /\ Shows(v)' = Shows(v)
    BY <1>1, SameTask
  <2>6. QED  BY <2>2, <2>4, <2>5, DropStep
<1>4. QED  BY <1>2, <1>3 DEF BuysFor

(* Lives of a task, from and after what a worker writes.                     *)
LEMMA LiveOpen == ASSUME NEW v, HasStatus(v, Open) PROVE Live(v) = "open"
  BY DEF HasStatus, Open, Live, LifeOf

LEMMA LiveWritten ==
  ASSUME NEW w \in Worker, NEW status \in Status, NEW code, Writes(w, status, code),
         NEW v, v = worker[w].v
  PROVE  Live(v)' = LifeOf[status] /\ Shows(v)' = code
  BY DEF Writes, Live, Shows

LEMMA DecidesStep ==
  ASSUME LifeInv, OneWorkerEach, NEW w \in Worker, WorkerKinds(w), Decides(w)
  PROVE  LifeStep
<1> PICK v : v = worker[w].v
  OBVIOUS
<1>1. /\ worker[w].pc = "claimed" /\ worker[w].pc \notin {"idle", "down"}
      /\ ~BuysFor(w, v) /\ tasks[v] # None
  BY DEF Decides, Writes, BuysFor, Buying
<1>2. v \in Voucher /\ Apart(v)
  BY <1>1, BusyApart
<1>3. Live(v) = "open" /\ Shows(v) = tasks[v].code
  BY <1>1, DecidesOpen, LiveOpen DEF Shows
<1>4. Held(v) = Planned(v) /\ "buy" \notin Held(v)
  BY <1>1, BusyHolds, ClientPlans
<1>5. ASSUME Ends(w) PROVE Held(v)' = Held(v)
  <2>1. ~BuysFor(w, v)'
    BY <1>5 DEF Ends, BuysFor, Buying
  <2>2. QED  BY <1>1, <1>4, <2>1, BusyHolds
<1>6. CASE Ends(w) /\ Writes(w, "FAILED", tasks[v].code)
  <2>1. Live(v)' = "failed" /\ Shows(v)' = Shows(v)
    BY <1>3, <1>6, LiveWritten DEF LifeOf, Status
  <2>2. QED  BY <1>2, <1>3, <1>4, <1>5, <1>6, <2>1, FailStep
<1>7. CASE Ends(w) /\ Writes(w, "WAITING_SMS", tasks[v].code)
  <2>1. Live(v)' = "open" /\ Shows(v)' = Shows(v)
    BY <1>3, <1>7, LiveWritten DEF LifeOf, Status
  <2>2. Steady(v)
    BY <1>3, <1>5, <1>7, <2>1 DEF Steady
  <2>3. QED  BY <1>2, <2>2, StutterStep DEF Apart
<1>8. CASE /\ worker'[w].pc = "granted" /\ Remembers(w)
           /\ Writes(w, "PROCESSING", tasks[v].code)
  <2>1. Live(v)' = "open" /\ Shows(v)' = Shows(v)
    BY <1>3, <1>8, LiveWritten DEF LifeOf, Status
  <2>2. BuysFor(w, v)'
    BY <1>8 DEF Remembers, BuysFor, Buying
  <2>3. Held(v)' = Held(v) \union {"buy"}
    BY <1>1, <1>4, <2>2, BusyHolds
  <2>4. "buy" \in Life!Plan \ Held(v) /\ Live(v) \in Life!Allowed["buy"]
    BY <1>3, <1>4 DEF Life!Plan, Life!Allowed
  <2>5. QED  BY <1>2, <1>3, <2>1, <2>3, <2>4, FormStep
<1>9. CASE Ends(w) /\ OrderOf(w) \in Order /\ Writes(w, "CODE_READY", OrderOf(w))
  <2>1. Live(v)' = "delivered" /\ Shows(v)' \in Order
    BY <1>9, LiveWritten DEF LifeOf, Status
  <2>2. QED  BY <1>2, <1>3, <1>4, <1>5, <1>9, <2>1, DeliverStep
<1>10. QED  BY <1>6, <1>7, <1>8, <1>9 DEF Decides

LEMMA ClosesStep ==
  ASSUME LifeInv, OneWorkerEach, NEW w \in Worker, WorkerKinds(w),
         Finishes(w) \/ Expires(w)
  PROVE  LifeStep
<1> PICK v : v = worker[w].v
  OBVIOUS
<1>1. /\ worker[w].pc \in Locking /\ worker[w].pc \notin {"idle", "down"}
      /\ Ends(w) /\ ~BuysFor(w, v) /\ tasks[v] # None
  BY DEF Finishes, Expires, Writes, Locking, BuysFor, Buying
<1>2. v \in Voucher /\ Apart(v)
  BY <1>1, BusyApart
<1>3. "buy" \notin Held(v) /\ Held(v)' = Held(v)
  <2>1. ~BuysFor(w, v)'
    BY <1>1 DEF Ends, BuysFor, Buying
  <2>2. Held(v) = Planned(v) /\ Held(v)' = Planned(v)
    BY <1>1, <2>1, BusyHolds
  <2>3. QED  BY <2>2, ClientPlans
<1>4. Shows(v) = tasks[v].code
  BY <1>1 DEF Shows
<1>5. CASE Finishes(w)
  <2>1. Live(v)' = "done" /\ Shows(v)' = Shows(v)
    BY <1>4, <1>5, LiveWritten DEF Finishes, LifeOf, Status
  <2>2. Shows(v) # None
    BY <1>4, <1>5 DEF Finishes, LifeInv, CodesKept, HasCode
  <2>3. Live(v) \in {"open", "delivered"}
    BY <1>1, <1>5 DEF LifeInv, Fitting, ClaimFits, HasStatus, Open, Live, LifeOf
  <2>4. QED  BY <1>2, <1>3, <2>1, <2>2, <2>3, FinishStep
<1>6. CASE Expires(w)
  <2>1. Live(v)' = "failed" /\ Shows(v)' = Shows(v)
    BY <1>4, <1>6, LiveWritten DEF Expires, LifeOf, Status
  <2>2. Live(v) = "open"
    BY <1>6, LiveOpen DEF Expires, LifeInv, Fitting, ClaimFits
  <2>3. QED  BY <1>2, <1>3, <2>1, <2>2, FailStep
<1>7. QED  BY <1>5, <1>6

LEMMA ConcludesStep ==
  ASSUME LifeInv, OneWorkerEach, NEW w \in Worker, WorkerKinds(w), Concludes(w)
  PROVE  LifeStep
<1> PICK v : v = worker[w].v
  OBVIOUS
<1>1. /\ worker[w].pc \notin {"idle", "down"} /\ Ends(w) /\ BuysFor(w, v)
      /\ tasks[v] # None
  BY DEF Concludes, Writes, BuysFor, Buying
<1>2. v \in Voucher /\ Apart(v)
  BY <1>1, BusyApart
<1>3. "buy" \in Held(v) /\ Held(v)' = Held(v) \ {"buy"}
  <2>1. ~BuysFor(w, v)'
    BY <1>1 DEF Ends, BuysFor, Buying
  <2>2. QED  BY <1>1, <2>1, BusyHolds, ClientPlans
<1>4. PICK s \in {"FAILED", "WAITING_SMS"} : Writes(w, s, tasks[v].code)
  BY DEF Concludes
<1>5. Live(v)' = LifeOf[s] /\ Shows(v)' = Shows(v)
  BY <1>1, <1>4, LiveWritten DEF Shows, Status
<1>6. Live(v)' \in Life!Outcome["buy"]
  BY <1>5 DEF LifeOf, Life!Outcome
<1>7. QED  BY <1>2, <1>3, <1>5, <1>6, EffectStep

LEMMA WorkerLifeStep ==
  ASSUME LifeInv, OneWorkerEach, NEW w \in Worker, WorkerKinds(w)
  PROVE  LifeStep
<1>1. CASE Selects(w) \/ Claims(w)
  <2>1. tasks' = tasks /\ \A v : ~BuysFor(w, v) /\ ~BuysFor(w, v)'
    BY <1>1 DEF Selects, Claims, BuysFor, Buying
  <2>2. QED  BY <2>1, LoadStep
<1>2. QED
  BY <1>1, GoesStep, LeavesStep, DecidesStep, ClosesStep, ConcludesStep DEF WorkerKinds

-----------------------------------------------------------------------------
(* A handler's step, as TaskLife sees it.                                    *)

LEMMA PlansStep ==
  ASSUME LifeInv, OneHandlerEach', NEW h \in Request, HandlerKinds(h), Plans(h)
  PROVE  LifeStep
<1> PICK v : v = request'[h].v
  OBVIOUS
<1>1. /\ request[h].pc = "idle" /\ request'[h].pc # "idle" /\ v \in Voucher
      /\ tasks' = tasks /\ Elsewhere(h) /\ UNCHANGED worker
  BY DEF Plans, HandlerKinds
<1>2. Live(v)' = Live(v) /\ Shows(v)' = Shows(v)
  BY <1>1 DEF Live, Shows
<1>3. \A u \in Voucher : ~PlansFor(h, u)
  BY <1>1 DEF PlansFor
<1>4. Apart(v)
  <2>1. ASSUME NEW u \in Voucher \ {v} PROVE Steady(u)
    <3>1. ~PlansFor(h, u)'
      BY <2>1 DEF PlansFor
    <3>2. QED  BY <1>1, <1>3, <3>1, SameTask, HandlerHeldSame DEF Steady
  <2>2. QED  BY <2>1 DEF Apart
<1>5. CASE request'[h].pc = "inserting"
  <2>1. \A u \in Voucher : ~PlansFor(h, u)'
    BY <1>5 DEF PlansFor
  <2>2. QED  BY <1>1, <1>3, <2>1, SameTask, HandlerHeldSame, StutterStep DEF Steady
<1>6. CASE request'[h].pc # "inserting"
  <2>1. \A g \in Request \ {h} : ~PlansFor(g, v)
    BY <1>1 DEF OneHandlerEach, PlansFor, Elsewhere
  <2>2. request'[h].pc \in {"resetting", "calling", "closing"} /\ tasks[v] # None
    BY <1>6 DEF Plans, HasStatus
  <2> DEFINE plan == PlanOf(h)'
  <2>3. Live(v) \in Life!Allowed[plan]
    <3>1. CASE request'[h].pc = "resetting"
      <4>1. plan = "start" /\ HasStatus(v, Settled)
        BY <3>1 DEF PlanOf, Plans
      <4>2. QED  BY <4>1 DEF HasStatus, Settled, Live, LifeOf, Life!Allowed
    <3>2. CASE request'[h].pc # "resetting" /\ request'[h].target = "DONE"
      <4>1. plan = "complete" /\ HasStatus(v, Consumed)
        BY <1>6, <3>2 DEF PlanOf, Plans
      <4>2. QED  BY <4>1 DEF HasStatus, Consumed, Live, LifeOf, Life!Allowed
    <3>3. CASE request'[h].pc # "resetting" /\ request'[h].target # "DONE"
      <4>1. plan = "cancel"
        BY <3>3 DEF PlanOf
      <4>2. tasks[v].status \in Status
        BY <1>1, <2>2 DEF LifeInv, Shape, TypeOK, StoreTypeOK, Task
      <4>3. QED  BY <2>2, <4>1, <4>2 DEF Live, LifeOf, Status, Life!Allowed, Life!Lives
    <3>4. QED  BY <3>1, <3>2, <3>3
  <2>4. Held(v) = BuyPlan(v) /\ Held(v)' = BuyPlan(v) \union {plan}
    <3>1. ~PlansFor(h, v) /\ request'[h].v = v /\ request'[h].pc \notin {"idle", "inserting"}
      BY <1>1, <1>3, <1>6
    <3>2. (request[h].v = v /\ request[h].pc \notin {"idle", "inserting"}) = PlansFor(h, v)
      BY DEF PlansFor
    <3>3. Held(v) = BuyPlan(v)
      BY <1>1, <2>1, <3>1, OnlyHandler
    <3>4. QED  BY <1>1, <2>1, <3>1, <3>3, OnlyHandler DEF PlansFor
  <2>5. plan \in Life!Plan \ Held(v) /\ Held(v) \subseteq {"buy"}
    BY <2>4, BuyPlanOnly DEF PlanOf, Life!Plan
  <2>6. Held(v)' = Held(v) \union {plan}
    BY <2>4
  <2> HIDE DEF plan
  <2>7. QED  BY <1>1, <1>2, <1>4, <2>3, <2>5, <2>6, FormStep
<1>7. QED  BY <1>5, <1>6

LEMMA AnswerHeld ==
  ASSUME LifeInv, OneHandlerEach, NEW h \in Request, HandlerKinds(h),
         request[h].pc # "idle", request'[h].pc = "idle",
         NEW v \in Voucher, v = request[h].v,
         \A u \in Voucher \ {v} : tasks'[u] = tasks[u]
  PROVE  /\ Apart(v) /\ Held(v)' = BuyPlan(v)
         /\ Held(v) = BuyPlan(v) \union (IF request[h].pc = "inserting" THEN {}
                                        ELSE {PlanOf(h)})
<1>1. Elsewhere(h) /\ UNCHANGED worker
  BY DEF HandlerKinds
<1>2. ASSUME NEW u \in Voucher \ {v} PROVE Steady(u)
  <2>1. ~PlansFor(h, u) /\ ~PlansFor(h, u)'
    BY <1>2 DEF PlansFor
  <2>2. QED  BY <1>1, <2>1, SameTask, HandlerHeldSame DEF Steady
<1>3. \A g \in Request \ {h} : ~PlansFor(g, v)
  BY DEF OneHandlerEach, PlansFor
<1>4. ~PlansFor(h, v)' /\ (PlansFor(h, v) <=> request[h].pc # "inserting")
  BY DEF PlansFor
<1>5. Held(v)' = BuyPlan(v)
  BY <1>1, <1>3, <1>4, OnlyHandler
<1>6. Held(v) = BuyPlan(v) \union (IF PlansFor(h, v) THEN {PlanOf(h)} ELSE {})
  BY <1>1, <1>3, OnlyHandler
<1>7. Apart(v)
  BY <1>2 DEF Apart
<1>8. QED  BY <1>4, <1>5, <1>6, <1>7

(* A handler that is not inserting had one plan, and drops it or carries it  *)
(* out as it answers.                                                        *)
LEMMA OnePlan ==
  ASSUME NEW h, NEW v, Held(v)' = BuyPlan(v), Held(v) = BuyPlan(v) \union {PlanOf(h)}
  PROVE  PlanOf(h) \in Held(v) /\ Held(v)' = Held(v) \ {PlanOf(h)}
<1>1. PlanOf(h) \notin BuyPlan(v)
  BY BuyPlanOnly, PlanOfClient
<1>2. QED  BY <1>1

LEMMA AnswersStep ==
  ASSUME LifeInv, OneHandlerEach, NEW h \in Request, HandlerKinds(h), Answers(h)
  PROVE  LifeStep
<1> PICK v : v = request[h].v
  OBVIOUS
<1>1. /\ request[h].pc # "idle" /\ request'[h].pc = "idle" /\ v \in Voucher
      /\ tasks' = tasks
  BY DEF Answers, LifeInv, Shape, RequestOnTask
<1>2. Apart(v) /\ Live(v)' = Live(v) /\ Shows(v)' = Shows(v)
  BY <1>1, AnswerHeld, SameTask
<1>3. CASE request[h].pc = "inserting"
  <2>1. Held(v)' = BuyPlan(v) /\ Held(v) = BuyPlan(v) \union {}
    BY <1>1, <1>3, AnswerHeld
  <2>2. Held(v)' = Held(v)
    BY <2>1
  <2>3. QED  BY <1>2, <2>2, StutterStep DEF Steady, Apart
<1>4. CASE request[h].pc # "inserting"
  <2>1. Held(v)' = BuyPlan(v) /\ Held(v) = BuyPlan(v) \union {PlanOf(h)}
    BY <1>1, <1>4, AnswerHeld
  <2>2. QED  BY <1>1, <1>2, <2>1, OnePlan, DropStep
<1>5. QED  BY <1>3, <1>4

LEMMA InsertsStep ==
  ASSUME LifeInv, OneHandlerEach, NEW h \in Request, HandlerKinds(h), Inserts(h)
  PROVE  LifeStep
<1> PICK v : v = request[h].v
  OBVIOUS
<1>1. /\ request[h].pc = "inserting" /\ request'[h].pc = "idle" /\ v \in Voucher
      /\ \A u \in Voucher \ {v} : tasks'[u] = tasks[u]
      /\ tasks[v] = None /\ tasks'[v] # None
      /\ tasks'[v].status = "PENDING" /\ tasks'[v].code = None
  BY DEF Inserts, Puts
<1>2. Apart(v) /\ Held(v)' = Held(v)
  <2>1. /\ Apart(v) /\ Held(v)' = BuyPlan(v)
        /\ Held(v) = BuyPlan(v) \union (IF request[h].pc = "inserting" THEN {} ELSE {PlanOf(h)})
    BY <1>1, AnswerHeld
  <2>2. PICK b : b = BuyPlan(v)
    OBVIOUS
  <2>3. Held(v) = b \union {}
    BY <1>1, <2>1, <2>2
  <2>4. Held(v)' = b
    BY <2>1, <2>2
  <2> QED BY <2>1, <2>3, <2>4
<1>3. Live(v) = None /\ Live(v)' = "open" /\ Shows(v)' = Shows(v)
  BY <1>1 DEF Live, LifeOf, Shows
<1>4. QED  BY <1>1, <1>2, <1>3, RedeemStep

LEMMA ResetsStep ==
  ASSUME LifeInv, OneHandlerEach, NEW h \in Request, HandlerKinds(h), Resets(h)
  PROVE  LifeStep
<1> PICK v : v = request[h].v
  OBVIOUS
<1>1. /\ request[h].pc = "resetting" /\ request'[h].pc = "idle" /\ v \in Voucher
      /\ \A u \in Voucher \ {v} : tasks'[u] = tasks[u]
      /\ tasks[v] # None /\ tasks'[v] # None /\ tasks'[v].status = "PENDING"
      /\ tasks'[v].code = IF request[h].seen.code = None THEN tasks[v].code ELSE None
  BY DEF Resets, Puts
<1>2. Apart(v) /\ Held(v)' = BuyPlan(v) /\ Held(v) = BuyPlan(v) \union {PlanOf(h)}
  BY <1>1, AnswerHeld
<1>3. PlanOf(h) = "start"
  BY <1>1 DEF PlanOf
<1>4. "start" \in Held(v) /\ Held(v)' = Held(v) \ {"start"}
  BY <1>2, <1>3, OnePlan
<1>5. Live(v)' \in Life!Outcome["start"]
  BY <1>1 DEF Live, LifeOf, Life!Outcome
<1>6. Shows(v)' = tasks'[v].code /\ Shows(v) = tasks[v].code
  BY <1>1 DEF Shows
<1>7. \/ request[h].seen.code # None
      \/ tasks[v].code = None
      \/ HasStatus(v, Consumed)
  BY <1>1 DEF LifeInv, Fitting, PlanFits
<1>8. HasStatus(v, Consumed) => Live(v) \notin Life!Allowed["start"]
  BY DEF HasStatus, Consumed, Live, LifeOf, Life!Allowed
<1>9. \/ Shows(v)' = Shows(v) /\ Live(v) \notin Life!Allowed["start"]
      \/ Shows(v)' = None
  BY <1>1, <1>6, <1>7, <1>8
<1>10. QED  BY <1>1, <1>2, <1>4, <1>5, <1>9, EffectStep

LEMMA RewritesStep ==
  ASSUME LifeInv, OneHandlerEach, NEW h \in Request, HandlerKinds(h), Rewrites(h)
  PROVE  LifeStep
<1> PICK v : v = request[h].v
  OBVIOUS
<1>1. /\ request[h].pc = "closing" /\ request'[h].pc = "idle" /\ v \in Voucher
      /\ \A u \in Voucher \ {v} : tasks'[u] = tasks[u]
      /\ tasks[v] # None /\ tasks'[v] # None
      /\ tasks'[v].status = request[h].target /\ tasks'[v].code = tasks[v].code
  BY DEF Rewrites, Puts
<1>2. Apart(v) /\ Held(v)' = BuyPlan(v) /\ Held(v) = BuyPlan(v) \union {PlanOf(h)}
  BY <1>1, AnswerHeld
<1>3. PlanOf(h) \in Held(v) /\ Held(v)' = Held(v) \ {PlanOf(h)}
  BY <1>2, OnePlan
<1>4. request[h].target \in {"CANCELED", "DONE"}
  BY <1>1 DEF LifeInv, Fitting, PlanFits
<1>5. Live(v)' \in Life!Outcome[PlanOf(h)] /\ PlanOf(h) # "start"
  BY <1>1, <1>4 DEF Live, LifeOf, PlanOf, Life!Outcome
<1>6. Shows(v)' = Shows(v)
  BY <1>1 DEF Shows
<1>7. QED  BY <1>1, <1>2, <1>3, <1>5, <1>6, EffectStep

LEMMA CallsStep ==
  ASSUME NEW h \in Request, HandlerKinds(h), Calls(h)
  PROVE  LifeStep
<1>1. Elsewhere(h) /\ UNCHANGED <<worker, tasks>>
  BY DEF HandlerKinds, Calls
<1>2. ASSUME NEW v \in Voucher PROVE Steady(v)
  <2>1. /\ PlansFor(h, v)' <=> PlansFor(h, v)
        /\ PlanOf(h)' = PlanOf(h)
    BY DEF Calls, PlansFor, PlanOf
  <2>2. QED  BY <1>1, <2>1, SameTask, HandlerHeldSame DEF Steady
<1>3. QED  BY <1>2, StutterStep

LEMMA HandlerLifeStep ==
  ASSUME LifeInv, OneHandlerEach, OneHandlerEach', NEW h \in Request, HandlerKinds(h)
  PROVE  LifeStep
  BY PlansStep, CallsStep, AnswersStep, InsertsStep, ResetsStep, RewritesStep
  DEF HandlerKinds

LEMMA NeitherLifeStep == ASSUME Neither PROVE LifeStep
  BY SameTask, HeldSame, StutterStep DEF Neither, Steady

LEMMA LifeNextStep ==
  LifeInv /\ Alone /\ Alone' /\ [Next]_vars => LifeStep
<1> SUFFICES ASSUME LifeInv, Alone, Alone', [Next]_vars PROVE LifeStep
  OBVIOUS
<1>1. OneWorkerEach /\ OneHandlerEach /\ OneHandlerEach'
  BY DEF Alone
<1>2. \/ Neither
      \/ \E w \in Worker : WorkerKinds(w)
      \/ \E h \in Request : HandlerKinds(h)
  BY LifeKinds DEF LifeInv
<1>3. QED  BY <1>1, <1>2, NeitherLifeStep, WorkerLifeStep, HandlerLifeStep

LEMMA LifeInitStep == Init => Life!LifeInit
<1> SUFFICES ASSUME Init PROVE Life!LifeInit
  OBVIOUS
<1>1. /\ \A v \in Voucher : tasks[v] = None
      /\ \A w \in Worker : worker[w].pc = "idle"
      /\ \A h \in Request : request[h].pc = "idle"
  BY IdleInType, NoRequestInType DEF Init, StoreInit, WorkerInit, ApiInit
<1>2. \A v \in Voucher : Planned(v) = {} /\ ~Purchasing(v)
  BY <1>1 DEF Planned, Purchasing, Buying
<1>3. QED  BY <1>1, <1>2 DEF Life!LifeInit, TaskLives, TaskCodes, TaskPlans

(* Where a task has one worker and one handler at a time, whatever they do   *)
(* to it, and whatever of it is lost to crashes, is what TaskLife promises   *)
(* (worker.py, _process_one; routes_redeem.py, routes_dev.py).               *)
THEOREM TaskLifeImplemented == Spec /\ []Alone => ImplementsTaskLife
<1>1. Init => LifeInv /\ Life!LifeInit
  BY LifeInvInit, LifeInitStep
<1>2. LifeInv /\ Alone /\ [Next]_vars => LifeInv'
  BY LifeInvNext
<1>3. LifeInv /\ Alone /\ Alone' /\ [Next]_vars
        => [Life!LifeNext]_<<TaskLives, TaskCodes, TaskPlans>>
  BY LifeNextStep DEF LifeStep
<1>4. QED  BY <1>1, <1>2, <1>3, PTL DEF Spec, ImplementsTaskLife, Life!LifeSpec

(* No step of a worker takes a delivered code away, replaces it or moves its *)
(* task out of CODE_READY and DONE, however long ago it claimed the task     *)
(* (worker.py).                                                              *)
THEOREM DeliveredKept == Spec /\ []Alone => WorkerKeepsDelivered
<1>1. LifeInv /\ [Next]_vars =>
        [\A v \in Voucher : HasStatus(v, Consumed) /\ request' = request =>
           tasks'[v].status \in Consumed /\ tasks'[v].code = tasks[v].code]_vars
  <2> SUFFICES ASSUME LifeInv, [Next]_vars, NEW v \in Voucher, HasStatus(v, Consumed),
                      request' = request
               PROVE  tasks'[v].status \in Consumed /\ tasks'[v].code = tasks[v].code
    OBVIOUS
  <2>1. CASE Untouched(v)
    BY <2>1 DEF Untouched, HasStatus
  <2>2. ASSUME NEW w \in Worker, WorkerKinds(w), ~Untouched(v)
        PROVE  tasks'[v].status \in Consumed /\ tasks'[v].code = tasks[v].code
    BY <2>2, WorkerTouches
    DEF Undelivered, Delivered, Completed, HasStatus, Open, Consumed
  <2>3. ASSUME NEW h \in Request, HandlerKinds(h) PROVE Untouched(v)
    BY <2>3 DEF HandlerKinds, Plans, Calls, Answers, Inserts, Resets, Rewrites, Puts,
       Untouched
  <2>4. Neither => Untouched(v)
    BY DEF Neither, Untouched
  <2>5. QED  BY <2>1, <2>2, <2>3, <2>4, LifeKinds DEF LifeInv
<1>2. QED
  BY <1>1, LifeInvInit, LifeInvNext, PTL DEF Spec, WorkerKeepsDelivered

(* One worker process and one handler at a time are always alone.            *)
THEOREM SingleService ==
  ASSUME NEW x, Worker = {x}, NEW y, Request = {y}
  PROVE  Spec => ImplementsTaskLife /\ WorkerKeepsDelivered /\ []ConsumedHasCode
<1>1. Alone /\ OneHandlerEach
  BY DEF Alone, OneWorkerEach, OneHandlerEach
<1>2. []Alone /\ []OneHandlerEach
  BY <1>1, PTL
<1>3. QED  BY <1>2, TaskLifeImplemented, DeliveredKept, ConsumedCodes, PTL

-----------------------------------------------------------------------------
(* What TaskLife promises its clients, so promised by the service.           *)
Promised == INSTANCE TaskLifeProofs
              WITH life <- TaskLives, code <- TaskCodes, plans <- TaskPlans

(* A delivered code stays on its task, which is neither opened again nor     *)
(* failed, unless the client cancels it or had a new start under way         *)
(* (worker.py, routes_redeem.py).                                            *)
THEOREM ServiceKeepsCodes ==
  ASSUME None \notin Life!Lives
  PROVE  Spec /\ []Alone => Life!DeliveredStays
<1>1. None \notin Promised!Lives
  BY DEF Promised!Lives, Life!Lives
<1>2. Promised!LifeSpec => Promised!DeliveredStays
  BY <1>1, Promised!DeliveredCodeStays
<1>3. Life!LifeInit => Promised!LifeInit
  BY DEF Life!LifeInit, Promised!LifeInit
<1>4. Life!LifeNext => Promised!LifeNext
  BY DEF Life!LifeNext, Promised!LifeNext, Life!Redeem, Promised!Redeem,
      Life!Deliver, Promised!Deliver, Life!Fail, Promised!Fail,
      Life!Finish, Promised!Finish, Life!Drop, Promised!Drop,
      Life!TakeEffect, Promised!TakeEffect, Life!Form, Promised!Form,
      Life!Become, Promised!Become, Life!Allowed, Promised!Allowed,
      Life!Outcome, Promised!Outcome, Life!Plan, Promised!Plan, Life!Lives,
      Promised!Lives
<1>5. Life!LifeSpec => Promised!LifeSpec
  BY <1>3, <1>4, PTL DEF Life!LifeSpec, Promised!LifeSpec
<1>6. Promised!DeliveredStays => Life!DeliveredStays
  BY PTL DEF Life!DeliveredStays, Promised!DeliveredStays
<1>7. QED
  BY <1>2, <1>5, <1>6, TaskLifeImplemented, PTL DEF ImplementsTaskLife
=============================================================================
