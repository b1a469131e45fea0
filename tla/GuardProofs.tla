----------------------------- MODULE GuardProofs -----------------------------
(***************************************************************************)
(* The buy guard of RedeemSystem: what is bought is covered by a committed *)
(* guard, for any number of workers, and, where a single worker is busy    *)
(* with a task at a time, the guard counts every attempt and keeps out of  *)
(* the flight time of the one before.                                      *)
(***************************************************************************)
EXTENDS RedeemProofs

(* Every step is one of three. It lets a purchase pass the guard, it buys,   *)
(* or it does neither and then changes of a provider state, of what a worker *)
(* goes by and of the orders no more than the following.                     *)

(* A row keeps the columns the guard reads and writes, but for the end of    *)
(* a flight, or it is replaced by a fresh one.                               *)
Kept(v) ==
    /\ grants'[v] = grants[v]
    /\ \/ sts[v] = None /\ sts'[v] = None
       \/ /\ sts[v] # None /\ sts'[v] # None
          /\ sts'[v].round = sts[v].round
          /\ sts'[v].attempts = sts[v].attempts
          /\ sts'[v].inflight \in {sts[v].inflight, None}

Replaced(v) ==
    /\ sts'[v] # None
    /\ IF sts[v] = None THEN sts'[v].round = 1 ELSE sts'[v].round = sts[v].round + 1
    /\ sts'[v].attempts = 0 /\ sts'[v].inflight = None
    /\ \/ grants'[v] = 0
       \/ sts[v] = None /\ grants'[v] = grants[v]

(* What a worker loaded, from the claim's SELECT to the end of a purchase.   *)
Deciding == {"selected", "claimed"} \union Buying

Onward(w) ==
    /\ worker[w].pc \in Deciding
    /\ worker'[w].v = worker[w].v /\ worker'[w].st = worker[w].st
    /\ CASE worker'[w].pc = "selected" -> worker[w].pc = "selected"
         [] worker'[w].pc = "claimed"  -> worker[w].pc \in {"selected", "claimed"}
         [] worker'[w].pc = "granted"  -> worker[w].pc = "granted"
         [] worker'[w].pc = "fallback" -> worker[w].pc \in {"granted", "fallback"}
         [] OTHER                      -> worker[w].pc \in Buying

Selects(w) ==
    /\ worker'[w].pc = "selected" /\ worker'[w].v \in Voucher
    /\ worker'[w].st = sts[worker'[w].v]
    /\ UNCHANGED <<sts, grants>>

Remembers(w) == worker'[w].pc \notin Deciding \/ Selects(w) \/ Onward(w)

Noted(w) == worker'[w].now \in {0, now, worker[w].now}

OrdersOnly(S) ==
    \A o \in Order \ S : orders'[o] # None =>
        /\ orders[o] # None
        /\ orders'[o].voucher = orders[o].voucher /\ orders'[o].round = orders[o].round

Quiet ==
    /\ \A v \in Voucher : Kept(v) \/ Replaced(v)
    /\ \A w \in Worker : Remembers(w) /\ Noted(w)
    /\ OrdersOnly({})
    /\ now <= now'

(* The guard's commit, and a purchase that has its effect.                   *)
Grants(w) ==
    LET v == worker[w].v IN
    /\ worker[w].pc = "claimed" /\ v \in Voucher /\ MayBuy(w) /\ ~InFlight(w)
    /\ NoClash(worker[w].st, v)
    /\ sts' = [sts EXCEPT ![v] = Guarded(w)]
    /\ grants' = [grants EXCEPT ![v] = @ + 1]
    /\ worker' = [worker EXCEPT ![w].pc = "granted", ![w].st = Guarded(w)]
    /\ UNCHANGED <<now, orders>>

Buys(w) ==
    /\ worker[w].v \in Voucher
    /\ \E o \in Stock : Buy(o, worker[w].v, worker[w].st.round)
    /\ \/ worker[w].pc = "granted" /\ worker'[w].pc \in {"fallback", "bought"}
       \/ worker[w].pc = "fallback" /\ worker'[w].pc \in {"failed", "bought"}
    /\ worker'[w].v = worker[w].v /\ worker'[w].st.round = worker[w].st.round
    /\ worker'[w].now = worker[w].now
    /\ \A x \in Worker \ {w} : worker'[x] = worker[x]
    /\ UNCHANGED <<now, sts, grants>>

-----------------------------------------------------------------------------
(* The parts of a quiet step.                                                *)

LEMMA SameRow == ASSUME NEW v \in Voucher, UNCHANGED <<sts, grants>> PROVE Kept(v)
  BY DEF Kept

LEMMA SameMemory == ASSUME NEW w \in Worker, worker'[w] = worker[w]
                    PROVE Remembers(w) /\ Noted(w)
  BY DEF Remembers, Onward, Noted, Deciding, Buying

LEMMA ClockOn == ASSUME Shape, now' \in {now, now + 1} PROVE now <= now'
  BY TimingAssumption DEF Shape, TypeOK, StoreTypeOK, Time

LEMMA SameOrders == ASSUME UNCHANGED orders PROVE OrdersOnly({})
  BY DEF OrdersOnly

(* What 5sim does to an order that was bought.                               *)
LEMMA OrdersStay ==
  ASSUME Shape, NEW o, TryCancel(o) \/ TryFinish(o) \/ SmsArrives(o) \/ UpstreamDrops(o)
  PROVE  OrdersOnly({})
<1>1. CASE UNCHANGED orders
  BY <1>1, SameOrders
<1>2. ASSUME NEW state, orders' = [orders EXCEPT ![o].state = state], Bought(o)
      PROVE  OrdersOnly({})
  <2>1. orders \in [Order -> UpstreamOrder \union {None}]
    BY DEF Shape, TypeOK, FivesimTypeOK
  <2>2. ASSUME NEW p \in Order
        PROVE  \/ orders'[p] = orders[p]
               \/ (p = o /\ orders'[p] = [orders[p] EXCEPT !.state = state])
    BY <1>2, <2>1
  <2>3. ASSUME NEW r \in UpstreamOrder
        PROVE  /\ [r EXCEPT !.state = state].voucher = r.voucher
               /\ [r EXCEPT !.state = state].round = r.round
    BY DEF UpstreamOrder
  <2>4. QED  BY <1>2, <2>1, <2>2, <2>3 DEF OrdersOnly, Bought
<1>3. QED  BY <1>1, <1>2 DEF TryCancel, TryFinish, SmsArrives, UpstreamDrops

(* Steps that leave the provider states alone.                               *)
LEMMA QuietRows ==
  ASSUME Shape, UNCHANGED <<sts, grants>>, now' \in {now, now + 1}, OrdersOnly({}),
         \A w \in Worker : Remembers(w) /\ Noted(w)
  PROVE  Quiet
  BY SameRow, ClockOn DEF Quiet

LEMMA OneMoves ==
  ASSUME Shape, NEW w \in Worker, NEW n, worker' = [worker EXCEPT ![w] = n],
         Remembers(w), Noted(w)
  PROVE  \A x \in Worker : Remembers(x) /\ Noted(x)
<1>1. \A x \in Worker \ {w} : worker'[x] = worker[x]
  BY DEF Shape, TypeOK, WorkerTypeOK
<1>2. QED  BY <1>1, SameMemory

(* A worker that gives up what it has in memory.                             *)
LEMMA Forgets ==
  ASSUME Shape, NEW w \in Worker, NEW n, worker' = [worker EXCEPT ![w] = n],
         n.pc \notin Deciding, n.now = 0
  PROVE  \A x \in Worker : Remembers(x) /\ Noted(x)
<1>1. worker'[w] = n
  BY DEF Shape, TypeOK, WorkerTypeOK
<1>2. QED  BY <1>1, OneMoves DEF Remembers, Noted

LEMMA IdleForgets ==
  Idle.pc \notin Deciding /\ Idle.now = 0
  BY DEF Idle, Deciding, Buying

LEMMA RollbackQuiet ==
  ASSUME Shape, NEW w \in Worker, Rollback(w), UNCHANGED orders
  PROVE  Quiet
<1> DEFINE n == [Idle EXCEPT !.pc = "rolledback", !.v = worker[w].v]
<1>1. n.pc = "rolledback" /\ n.now = 0
  BY DEF Idle
<1>2. worker' = [worker EXCEPT ![w] = n] /\ UNCHANGED <<now, sts, grants>>
  BY DEF Rollback
<1> HIDE DEF n
<1>3. QED  BY <1>1, <1>2, Forgets, QuietRows, SameOrders DEF Deciding, Buying

LEMMA FreshReplaces ==
  ASSUME Shape, NEW v \in Voucher, sts'[v] = FreshState(v),
         \/ grants'[v] = 0
         \/ sts[v] = None /\ grants'[v] = grants[v]
  PROVE  Replaced(v)
<1>1. sts'[v] # None
  BY FreshInType, RowAssumption
<1>2. sts'[v].attempts = 0 /\ sts'[v].inflight = None
      /\ sts'[v].round = IF sts[v] = None THEN 1 ELSE sts[v].round + 1
  BY DEF FreshState
<1>3. QED  BY <1>1, <1>2 DEF Replaced

(* A commit at the end of a step, of the worker's own row or a fresh one.    *)
LEMMA CommitQuiet ==
  ASSUME Shape, NEW w \in Worker, worker[w].pc \notin {"idle", "down"},
         NEW task, NEW st, Commit(w, task, st),
         worker' = [worker EXCEPT ![w] = Idle], UNCHANGED <<grants, orders>>,
         NoClash(worker[w].st, worker[w].v),
         \/ st = sts[worker[w].v]
         \/ /\ st \in ProviderState
            /\ st.round = Current(w).round /\ st.attempts = Current(w).attempts
            /\ st.inflight \in {Current(w).inflight, None}
  PROVE  Quiet
<1> DEFINE v == worker[w].v
<1>1. v \in Voucher /\ (worker[w].st # None => sts[v] # None)
  BY DEF Shape, WorkerOnTask
<1>2. sts \in [Voucher -> ProviderState \union {None}]
  BY DEF Shape, TypeOK, StoreTypeOK
<1>3. sts' = [sts EXCEPT ![v] = st] /\ now' = now
  BY DEF Commit
<1>4. \A u \in Voucher \ {v} : Kept(u)
  BY <1>1, <1>2, <1>3 DEF Kept
<1>5. Kept(v) \/ Replaced(v)
  <2>1. sts'[v] = st
    BY <1>1, <1>2, <1>3
  <2>2. CASE st = sts[v]
    BY <2>1, <2>2 DEF Kept
  <2>3. CASE st # sts[v] /\ worker[w].st # None
    BY <1>1, <2>1, <2>3, RowAssumption DEF Kept, Current
  <2>4. CASE st # sts[v] /\ worker[w].st = None
    <3>1. sts[v] = None
      BY <2>4 DEF NoClash
    <3>2. st \in ProviderState /\ st.round = 1 /\ st.attempts = 0 /\ st.inflight = None
      BY <2>4, <3>1 DEF Current, FreshState
    <3>3. QED  BY <2>1, <3>1, <3>2, RowAssumption DEF Replaced
  <2>5. QED  BY <2>2, <2>3, <2>4
<1>6. \A x \in Worker : Remembers(x) /\ Noted(x)
  BY Forgets, IdleForgets
<1>7. QED  BY <1>1, <1>3, <1>4, <1>5, <1>6, ClockOn, SameOrders DEF Quiet

LEMMA CloseQuiet ==
  ASSUME Shape, NEW w \in Worker, worker[w].pc \notin {"idle", "down"},
         NEW status, NEW st, Close(w, status, st), UNCHANGED orders,
         NoClash(worker[w].st, worker[w].v) =>
            /\ st \in ProviderState
            /\ st.round = Current(w).round /\ st.attempts = Current(w).attempts
            /\ st.inflight \in {Current(w).inflight, None}
  PROVE  Quiet
  BY CommitQuiet, RollbackQuiet DEF Close

LEMMA ReleaseQuiet ==
  ASSUME Shape, NEW w \in Worker, worker[w].pc \notin {"idle", "down"},
         NEW status, Close(w, status, Current(w)), UNCHANGED orders
  PROVE  Quiet
  BY CloseQuiet, CurrentInType

LEMMA PollQuiet ==
  ASSUME Shape, NEW w \in Worker, worker[w].pc \notin {"idle", "down"},
         NEW status, NEW d \in Nat, UNCHANGED orders,
         Close(w, status, [Current(w) EXCEPT !.poll = Later(worker[w].now, d)])
  PROVE  Quiet
<1> DEFINE st == [Current(w) EXCEPT !.poll = Later(worker[w].now, d)]
<1>1. NoClash(worker[w].st, worker[w].v) =>
            /\ st \in ProviderState
            /\ st.round = Current(w).round /\ st.attempts = Current(w).attempts
            /\ st.inflight = Current(w).inflight
  <2>1. ASSUME NEW cur \in ProviderState, NEW t
        PROVE  /\ [cur EXCEPT !.poll = t].round = cur.round
               /\ [cur EXCEPT !.poll = t].attempts = cur.attempts
               /\ [cur EXCEPT !.poll = t].inflight = cur.inflight
    BY DEF ProviderState
  <2>2. QED  BY <2>1, CurrentInType, PolledInType, WorkerNowInTime
<1>2. Close(w, status, st)
  OBVIOUS
<1> HIDE DEF st
<1>3. QED  BY <1>1, <1>2, CloseQuiet

-----------------------------------------------------------------------------
(* The actions, each as one of the three.                                    *)

LEMMA ClaimQuiet ==
  ASSUME Shape, NEW w \in Worker, NEW v \in Voucher, ClaimSelect(w, v) \/ ClaimUpdate(w)
  PROVE  Quiet
<1>1. UNCHANGED <<now, sts, grants, orders>>
  BY DEF ClaimSelect, ClaimUpdate, store
<1>2. CASE ClaimSelect(w, v)
  <2> DEFINE n == [Idle EXCEPT !.pc = "selected", !.v = v, !.claim = now, !.st = sts[v],
                   !.cfg = config,
                   !.count = IF config = None THEN 0 ELSE successes[config]]
  <2>1. n.pc = "selected" /\ n.v = v /\ n.st = sts[v] /\ n.now = 0
    BY DEF Idle
  <2>2. worker' = [worker EXCEPT ![w] = n]
    BY <1>2 DEF ClaimSelect
  <2> HIDE DEF n
  <2>3. worker'[w] = n
    BY <2>2 DEF Shape, TypeOK, WorkerTypeOK
  <2>4. Remembers(w) /\ Noted(w)
    BY <1>1, <2>1, <2>3 DEF Remembers, Selects, Noted
  <2>5. QED  BY <1>1, <2>2, <2>4, OneMoves, QuietRows, SameOrders
<1>3. CASE ClaimUpdate(w) /\ worker' # [worker EXCEPT ![w] = Idle]
  <2>1. worker[w].pc = "selected" /\ worker[w] \in WorkerState
    BY <1>3 DEF ClaimUpdate, Shape, TypeOK, WorkerTypeOK
  <2> DEFINE n == [worker[w] EXCEPT !.pc = "claimed", !.now = now, !.owner = w]
  <2>2. worker' = [worker EXCEPT ![w] = n]
    BY <1>3, <2>1 DEF ClaimUpdate, Shape, TypeOK, WorkerTypeOK, WorkerState
  <2>3. n.pc = "claimed" /\ n.v = worker[w].v /\ n.st = worker[w].st /\ n.now = now
    BY <2>1 DEF WorkerState
  <2> HIDE DEF n
  <2>4. worker'[w] = n
    BY <2>2 DEF Shape, TypeOK, WorkerTypeOK
  <2>5. Remembers(w) /\ Noted(w)
    BY <2>1, <2>3, <2>4 DEF Remembers, Onward, Deciding, Noted
  <2>6. QED  BY <1>1, <2>2, <2>5, OneMoves, QuietRows, SameOrders
<1>4. CASE worker' = [worker EXCEPT ![w] = Idle]
  BY <1>1, <1>4, Forgets, IdleForgets, QuietRows, SameOrders
<1>5. QED  BY <1>2, <1>3, <1>4

(* A worker that leaves the decision behind, or goes on within a purchase.   *)
LEMMA MoveQuiet ==
  ASSUME Shape, NEW w \in Worker, NEW pc \in Phase,
         \/ worker' = [worker EXCEPT ![w].pc = pc]
         \/ \E owner : worker' = [worker EXCEPT ![w].pc = pc, ![w].owner = owner],
         \/ pc \notin Deciding
         \/ worker[w].pc = "granted" /\ pc \in {"fallback", "failed", "rejected"}
         \/ worker[w].pc = "fallback" /\ pc = "failed",
         UNCHANGED <<now, sts, grants>>, OrdersOnly({})
  PROVE  Quiet
<1>1. PICK n : /\ worker' = [worker EXCEPT ![w] = n]
               /\ n.pc = pc /\ n.v = worker[w].v /\ n.st = worker[w].st
               /\ n.now = worker[w].now
  <2>1. worker \in [Worker -> WorkerState] /\ worker[w] \in WorkerState
    BY DEF Shape, TypeOK, WorkerTypeOK
  <2>2. CASE worker' = [worker EXCEPT ![w].pc = pc]
    <3> DEFINE n == [worker[w] EXCEPT !.pc = pc]
    <3>1. /\ n.pc = pc /\ n.v = worker[w].v /\ n.st = worker[w].st
          /\ n.now = worker[w].now
      BY <2>1 DEF WorkerState
    <3>2. worker' = [worker EXCEPT ![w] = n]
      BY <2>1, <2>2
    <3> HIDE DEF n
    <3>3. QED  BY <3>1, <3>2
  <2>3. ASSUME NEW owner, worker' = [worker EXCEPT ![w].pc = pc, ![w].owner = owner]
        PROVE  \E n : /\ worker' = [worker EXCEPT ![w] = n]
                      /\ n.pc = pc /\ n.v = worker[w].v /\ n.st = worker[w].st
                      /\ n.now = worker[w].now
    <3> DEFINE n == [worker[w] EXCEPT !.pc = pc, !.owner = owner]
    <3>1. /\ n.pc = pc /\ n.v = worker[w].v /\ n.st = worker[w].st
          /\ n.now = worker[w].now
      BY <2>1 DEF WorkerState
    <3>2. worker' = [worker EXCEPT ![w] = n]
      BY <2>1, <2>3
    <3> HIDE DEF n
    <3>3. QED  BY <3>1, <3>2
  <2>4. QED  BY <2>2, <2>3
<1>2. worker'[w] = n
  BY <1>1 DEF Shape, TypeOK, WorkerTypeOK
<1>3. Remembers(w) /\ Noted(w)
  BY <1>1, <1>2 DEF Remembers, Onward, Noted, Deciding, Buying
<1>4. QED  BY <1>1, <1>3, OneMoves, QuietRows

LEMMA CallsQuiet ==
  ASSUME Shape, NEW w \in Worker, FinishCall(w) \/ ExpireCall(w)
  PROVE  Quiet
<1>1. OrdersOnly({}) /\ UNCHANGED <<now, sts, grants>>
  BY OrdersStay DEF FinishCall, ExpireCall, store
<1>2. QED  BY <1>1, MoveQuiet DEF FinishCall, ExpireCall, Phase, Locking, Deciding, Buying

LEMMA RefuseQuiet ==
  ASSUME Shape, NEW w \in Worker, RefuseConfig(w)
  PROVE  Quiet
  BY MoveQuiet, SameOrders DEF RefuseConfig, store, Phase, Buying

LEMMA UnserviceableQuiet ==
  ASSUME Shape, NEW w \in Worker, Unserviceable(w)
  PROVE  Quiet
<1>1. worker[w].pc = "claimed" /\ UNCHANGED orders
  BY DEF Unserviceable
<1>2. CASE Rollback(w)
  BY <1>1, <1>2, RollbackQuiet
<1>3. CASE ~Rollback(w)
  <2>1. PICK task : /\ NoClash(worker[w].st, worker[w].v)
                    /\ Commit(w, task, Current(w))
                    /\ worker' = [worker EXCEPT ![w] = Idle]
                    /\ UNCHANGED grants
    BY <1>3 DEF Unserviceable
  <2>2. Current(w) \in ProviderState
    BY <1>1, <2>1, CurrentInType
  <2>3. QED  BY <1>1, <2>1, <2>2, CommitQuiet
<1>4. QED  BY <1>2, <1>3

LEMMA OwnRowQuiet ==
  ASSUME Shape, NEW w \in Worker, FinishCommit(w) \/ DeliverCode(w)
  PROVE  Quiet
<1>1. worker[w].pc \in {"claimed", "finished"} /\ UNCHANGED orders
  BY DEF FinishCommit, DeliverCode, Waiting
<1>2. CASE Rollback(w)
  BY <1>1, <1>2, RollbackQuiet
<1>3. CASE ~Rollback(w)
  <2>1. PICK task : /\ Commit(w, task, sts[worker[w].v])
                    /\ worker' = [worker EXCEPT ![w] = Idle]
                    /\ UNCHANGED grants
    BY <1>3 DEF FinishCommit, DeliverCode
  <2>2. UNCHANGED <<now, sts>>
    BY <2>1 DEF Commit, Shape, TypeOK, StoreTypeOK
  <2>3. QED  BY <1>1, <2>1, <2>2, Forgets, IdleForgets, QuietRows, SameOrders
<1>4. QED  BY <1>2, <1>3

LEMMA ReleasesQuiet ==
  ASSUME Shape, NEW w \in Worker,
         \/ ExpireCommit(w) \/ AttemptsExhausted(w) \/ RejectCommit(w) \/ OrderLost(w)
  PROVE  Quiet
<1>1. worker[w].pc \notin {"idle", "down"} /\ UNCHANGED orders
  BY DEF ExpireCommit, AttemptsExhausted, Unbought, RejectCommit, OrderLost, Waiting
<1>2. QED
  BY <1>1, ReleaseQuiet DEF ExpireCommit, AttemptsExhausted, RejectCommit, OrderLost

LEMMA PollsQuiet ==
  ASSUME Shape, NEW w \in Worker,
         \/ InflightWait(w) \/ BuyFailedCommit(w) \/ NoSmsYet(w) \/ CheckFails(w)
  PROVE  Quiet
<1>1. worker[w].pc \notin {"idle", "down"} /\ UNCHANGED orders
  BY DEF InflightWait, Unbought, BuyFailedCommit, NoSmsYet, CheckFails, Waiting
<1>2. QED
  BY <1>1, PollQuiet, TimingAssumption
  DEF InflightWait, BuyFailedCommit, NoSmsYet, CheckFails

LEMMA BoughtQuiet ==
  ASSUME Shape, NEW w \in Worker, BoughtCommit(w)
  PROVE  Quiet
<1> DEFINE st == [Current(w) EXCEPT !.order = worker[w].st.order,
                    !.expires = worker[w].st.expires,
                    !.poll = Later(worker[w].now, Poll), !.inflight = None]
<1>1. worker[w].pc = "bought" /\ worker[w].v \in Voucher
      /\ worker[w].st \in ProviderState /\ UNCHANGED orders
  BY DEF BoughtCommit, Shape, WorkerOnTask, Buying, TypeOK, WorkerTypeOK, WorkerState
<1>2. Later(worker[w].now, Poll) \in Time
  BY WorkerNowInTime, TimingAssumption
<1>3. NoClash(worker[w].st, worker[w].v) =>
        /\ st \in ProviderState
        /\ st.round = Current(w).round /\ st.attempts = Current(w).attempts
        /\ st.inflight = None
  <2>1. ASSUME NEW cur \in ProviderState, NEW s, s =
                 [cur EXCEPT !.order = worker[w].st.order,
                    !.expires = worker[w].st.expires,
                    !.poll = Later(worker[w].now, Poll), !.inflight = None]
        PROVE  /\ s \in ProviderState
               /\ s.round = cur.round /\ s.attempts = cur.attempts /\ s.inflight = None
    BY <1>1, <1>2, <2>1 DEF ProviderState, Deadline
  <2>2. QED  BY <1>1, <2>1, CurrentInType
<1>4. Close(w, "WAITING_SMS", st)
  BY DEF BoughtCommit
<1> HIDE DEF st
<1>5. QED  BY <1>1, <1>3, <1>4, CloseQuiet

LEMMA CleanupQuiet ==
  ASSUME Shape, NEW w \in Worker, CleanupRead(w) \/ CleanupCommit(w)
  PROVE  Quiet
<1>1. UNCHANGED <<now, sts, grants, orders>>
  BY DEF CleanupRead, CleanupCommit, store
<1>2. CASE worker' = [worker EXCEPT ![w] = Idle]
  BY <1>1, <1>2, Forgets, IdleForgets, QuietRows, SameOrders
<1>3. CASE worker' # [worker EXCEPT ![w] = Idle]
  <2>1. worker' = [worker EXCEPT ![w] = [worker[w] EXCEPT !.pc = "cleaning",
                                           !.owner = tasks[worker[w].v].owner]]
    BY <1>3 DEF CleanupRead, CleanupCommit, Shape, TypeOK, WorkerTypeOK
  <2>2. worker' = [worker EXCEPT ![w].pc = "cleaning",
                                 ![w].owner = tasks[worker[w].v].owner]
    BY <2>1 DEF Shape, TypeOK, WorkerTypeOK, WorkerState
  <2>3. QED  BY <1>1, <2>2, MoveQuiet, SameOrders DEF Phase, Deciding, Buying
<1>4. QED  BY <1>2, <1>3

LEMMA FaultQuiet ==
  ASSUME Shape, NEW w \in Worker, DbError(w) \/ Crash(w) \/ Restart(w)
  PROVE  Quiet
<1>1. CASE DbError(w)
  BY <1>1, RollbackQuiet DEF DbError
<1>2. CASE Crash(w)
  <2> DEFINE n == [Idle EXCEPT !.pc = "down"]
  <2>1. n.pc = "down" /\ n.now = 0
    BY DEF Idle
  <2>2. worker' = [worker EXCEPT ![w] = n] /\ UNCHANGED <<now, sts, grants, orders>>
    BY <1>2 DEF Crash
  <2> HIDE DEF n
  <2>3. QED  BY <2>1, <2>2, Forgets, QuietRows, SameOrders DEF Deciding, Buying
<1>3. CASE Restart(w)
  BY <1>3, Forgets, IdleForgets, QuietRows, SameOrders DEF Restart, store
<1>4. QED  BY <1>1, <1>2, <1>3

(* Purchases: without effect upstream they are quiet.                        *)
LEMMA PurchaseOrQuiet ==
  ASSUME Shape, NEW w \in Worker, BuyNumber(w) \/ BuyFallback(w)
  PROVE  Quiet \/ Buys(w)
<1>1. /\ worker[w].pc \in {"granted", "fallback"}
      /\ worker[w].v \in Voucher /\ worker[w].st \in ProviderState
      /\ UNCHANGED <<now, sts, grants>>
  BY DEF BuyNumber, BuyFallback, Shape, WorkerOnTask, Buying, store,
         TypeOK, WorkerTypeOK, WorkerState
<1>2. worker \in [Worker -> WorkerState] /\ worker[w] \in WorkerState
  BY DEF Shape, TypeOK, WorkerTypeOK
<1> DEFINE onError == IF worker[w].pc = "granted" THEN "fallback" ELSE "failed"
<1>3. PICK owner : Purchase(w, owner, onError)
  BY DEF BuyNumber, BuyFallback
<1> DEFINE Lost == worker' = [worker EXCEPT ![w].pc = onError, ![w].owner = owner]
           Got(o, e) == worker' = [worker EXCEPT ![w].pc = "bought",
                          ![w].owner = owner, ![w].st.order = o, ![w].st.expires = e]
<1>4. \/ \E o \in Stock : Buy(o, worker[w].v, worker[w].st.round)
                          /\ (Lost \/ \E e : Got(o, e))
      \/ UNCHANGED orders /\ Lost
  BY <1>3 DEF Purchase
<1>5. CASE UNCHANGED orders /\ Lost
  BY <1>1, <1>5, MoveQuiet, SameOrders DEF Phase, Buying
<1>6. ASSUME NEW o \in Stock, Buy(o, worker[w].v, worker[w].st.round), Lost
      PROVE  Buys(w)
  <2>1. /\ worker'[w].pc = onError /\ worker'[w].v = worker[w].v
        /\ worker'[w].st = worker[w].st /\ worker'[w].now = worker[w].now
        /\ \A x \in Worker \ {w} : worker'[x] = worker[x]
    BY <1>2, <1>6 DEF WorkerState
  <2>2. QED  BY <1>1, <1>6, <2>1 DEF Buys
<1>7. ASSUME NEW o \in Stock, Buy(o, worker[w].v, worker[w].st.round),
             NEW e, Got(o, e)
      PROVE  Buys(w)
  <2>1. /\ worker'[w].pc = "bought" /\ worker'[w].v = worker[w].v
        /\ worker'[w].now = worker[w].now
        /\ worker'[w].st = [worker[w].st EXCEPT !.order = o, !.expires = e]
        /\ \A x \in Worker \ {w} : worker'[x] = worker[x]
    BY <1>2, <1>7 DEF WorkerState
  <2>2. worker'[w].st.round = worker[w].st.round
    BY <1>1, <2>1 DEF ProviderState
  <2>3. QED  BY <1>1, <1>7, <2>1, <2>2 DEF Buys
<1>8. QED  BY <1>4, <1>5, <1>6, <1>7

LEMMA GuardGrants ==
  ASSUME Shape, NEW w \in Worker, GuardCommit(w)
  PROVE  Quiet \/ Grants(w)
<1>1. /\ worker[w].pc = "claimed" /\ worker[w].v \in Voucher
      /\ MayBuy(w) /\ ~InFlight(w) /\ UNCHANGED orders
  BY DEF GuardCommit, Unbought, Shape, WorkerOnTask
<1>2. CASE Rollback(w)
  BY <1>1, <1>2, RollbackQuiet
<1>3. CASE ~Rollback(w)
  BY <1>1, <1>3 DEF GuardCommit, Commit, Grants
<1>4. QED  BY <1>2, <1>3

LEMMA WorkerStepKinds ==
  ASSUME Shape, NEW w \in Worker,
         WorkerStep(w) \/ DbError(w) \/ Crash(w) \/ Restart(w)
  PROVE  Quiet \/ Grants(w) \/ Buys(w)
<1>1. CASE \E v \in Voucher : ClaimSelect(w, v)
  BY <1>1, ClaimQuiet
<1>2. CASE ClaimUpdate(w)
  <2>1. worker[w].v \in Voucher
    BY <1>2 DEF ClaimUpdate, Shape, WorkerOnTask
  <2>2. QED  BY <1>2, <2>1, ClaimQuiet
<1>3. CASE Unserviceable(w) \/ FinishCall(w) \/ FinishCommit(w) \/ ExpireCall(w)
             \/ ExpireCommit(w)
  BY <1>3, UnserviceableQuiet, CallsQuiet, OwnRowQuiet, ReleasesQuiet
<1>4. CASE AttemptsExhausted(w) \/ InflightWait(w) \/ GuardCommit(w)
  BY <1>4, ReleasesQuiet, PollsQuiet, GuardGrants
<1>5. CASE RefuseConfig(w) \/ BuyNumber(w) \/ BuyFallback(w)
  BY <1>5, RefuseQuiet, PurchaseOrQuiet
<1>6. CASE BoughtCommit(w) \/ BuyFailedCommit(w) \/ RejectCommit(w)
  BY <1>6, BoughtQuiet, PollsQuiet, ReleasesQuiet
<1>7. CASE DeliverCode(w) \/ OrderLost(w) \/ NoSmsYet(w) \/ CheckFails(w)
  BY <1>7, OwnRowQuiet, ReleasesQuiet, PollsQuiet
<1>8. CASE CleanupRead(w) \/ CleanupCommit(w)
  BY <1>8, CleanupQuiet
<1>9. CASE DbError(w) \/ Crash(w) \/ Restart(w)
  BY <1>9, FaultQuiet
<1>10. QED
  BY <1>1, <1>2, <1>3, <1>4, <1>5, <1>6, <1>7, <1>8, <1>9 DEF WorkerStep

LEMMA ElsewhereQuiet ==
  ASSUME Shape, UNCHANGED <<sts, grants, worker>>, now' \in {now, now + 1}, OrdersOnly({})
  PROVE  Quiet
  BY SameMemory, QuietRows

LEMMA ResetQuiet ==
  ASSUME Shape, NEW h \in Request, ResetCommit(h)
  PROVE  Quiet
<1> DEFINE v == request[h].v
<1>1. v \in Voucher /\ UNCHANGED <<now, orders, worker>>
  BY DEF ResetCommit, rest, Shape, RequestOnTask
<1>2. CASE UNCHANGED <<sts, grants>>
  BY <1>1, <1>2, ElsewhereQuiet, SameOrders
<1>3. CASE ~UNCHANGED <<sts, grants>>
  <2>1. /\ sts' = [sts EXCEPT ![v] = FreshState(v)]
        /\ grants' = [grants EXCEPT ![v] = 0]
    BY <1>3 DEF ResetCommit
  <2>2. sts'[v] = FreshState(v) /\ grants'[v] = 0
        /\ \A u \in Voucher \ {v} : sts'[u] = sts[u] /\ grants'[u] = grants[u]
    BY <1>1, <2>1 DEF Shape, TypeOK, StoreTypeOK
  <2>3. Replaced(v) /\ \A u \in Voucher \ {v} : Kept(u)
    BY <1>1, <2>2, FreshReplaces DEF Kept
  <2>4. QED  BY <1>1, <2>3, ClockOn, SameMemory, SameOrders DEF Quiet
<1>4. QED  BY <1>2, <1>3

LEMMA ApiQuiet ==
  ASSUME Shape, NEW h \in Request, ApiStep(h)
  PROVE  Quiet
<1>1. CASE ResetCommit(h)
  BY <1>1, ResetQuiet
<1>2. CASE UpstreamCall(h)
  BY <1>2, OrdersStay, ElsewhereQuiet DEF UpstreamCall, store
<1>3. CASE ~ResetCommit(h) /\ ~UpstreamCall(h)
  <2>1. UNCHANGED <<now, sts, grants, worker, orders>>
    BY <1>3 DEF ApiStep, CreateRead, NextRead, CancelRead, DevCancelRead, CompleteRead,
       Load, CreateInsert, CloseCommit, RequestDies, rest, store
  <2>2. QED  BY <2>1, ElsewhereQuiet, SameOrders
<1>4. QED  BY <1>1, <1>2, <1>3

LEMMA EnvironmentQuiet ==
  ASSUME Shape, Environment, UNCHANGED worker
  PROVE  Quiet
<1>1. UNCHANGED <<sts, grants, worker>> /\ now' \in {now, now + 1}
  BY DEF Environment, Tick, PutConfig, SmsArrives, UpstreamDrops, store
<1>2. OrdersOnly({})
  BY OrdersStay, SameOrders DEF Environment
<1>3. QED  BY <1>1, <1>2, ElsewhereQuiet

LEMMA StepKinds ==
  ASSUME Shape, [Next]_vars
  PROVE  Quiet \/ \E w \in Worker : Grants(w) \/ Buys(w)
<1>1. CASE UNCHANGED vars
  BY <1>1, ElsewhereQuiet, SameOrders DEF vars, store
<1>2. CASE Next
  BY <1>2, ApiQuiet, WorkerStepKinds, EnvironmentQuiet DEF Next
<1>3. QED  BY <1>1, <1>2

-----------------------------------------------------------------------------
(* Purchases are covered by guards. A guard grants two requests, the SDK's   *)
(* and its fallback; those a worker has not made yet are its credits, as     *)
(* long as the provider state is the one it was granted under. What was      *)
(* bought and what may still be bought stay within twice the grants.         *)
Credits(v) ==
    {c \in Worker \X {1, 2} :
        /\ worker[c[1]].v = v /\ sts[v] # None
        /\ \/ worker[c[1]].pc = "granted"
           \/ worker[c[1]].pc = "fallback" /\ c[2] = 1
        /\ worker[c[1]].st.round = sts[v].round}

(* No order and no purchase under way belongs to a provider state to come.   *)
RoundsPast ==
    /\ \A o \in Order : Bought(o) =>
         /\ sts[orders[o].voucher] # None
         /\ orders[o].round <= sts[orders[o].voucher].round
    /\ \A w \in Worker : worker[w].pc \in Buying =>
         worker[w].st.round <= sts[worker[w].v].round

Covered ==
    \A v \in Voucher :
        /\ IsFiniteSet(Purchases(v)) /\ IsFiniteSet(Credits(v))
        /\ Cardinality(Purchases(v)) + Cardinality(Credits(v)) <= 2 * grants[v]

Guard == RoundsPast /\ Covered

LEMMA RoundInNat ==
  ASSUME Shape
  PROVE  /\ \A v \in Voucher : sts[v] # None => sts[v].round \in Nat
         /\ \A w \in Worker : worker[w].st # None => worker[w].st.round \in Nat
         /\ \A o \in Order : Bought(o) => orders[o].voucher \in Voucher
                                          /\ orders[o].round \in Nat
<1>1. \A v \in Voucher : sts[v] # None => sts[v].round \in Nat
  BY DEF Shape, TypeOK, StoreTypeOK, ProviderState
<1>2. \A w \in Worker : worker[w].st # None => worker[w].st.round \in Nat
  BY DEF Shape, TypeOK, WorkerTypeOK, WorkerState, ProviderState
<1>3. \A o \in Order : Bought(o) => orders[o].voucher \in Voucher
                                    /\ orders[o].round \in Nat
  BY DEF Shape, TypeOK, FivesimTypeOK, UpstreamOrder, Bought
<1>4. QED  BY <1>1, <1>2, <1>3

(* A worker that buys does so for a voucher, under a provider state there is. *)
LEMMA BuyingOnRow ==
  ASSUME Shape, NEW w \in Worker, worker[w].pc \in Buying
  PROVE  worker[w].v \in Voucher /\ worker[w].st # None /\ sts[worker[w].v] # None
  BY DEF Shape, WorkerOnTask, Buying

LEMMA QuietRounds ==
  ASSUME Shape, Shape', RoundsPast, Quiet PROVE RoundsPast'
<1>1. \A v \in Voucher : sts[v] # None =>
        sts'[v] # None /\ sts[v].round <= sts'[v].round
  BY RoundInNat DEF Quiet, Kept, Replaced
<1>2. ASSUME NEW o \in Order, Bought(o)'
      PROVE  /\ sts'[orders'[o].voucher] # None
             /\ orders'[o].round <= sts'[orders'[o].voucher].round
  <2>1. Bought(o) /\ orders'[o].voucher = orders[o].voucher
        /\ orders'[o].round = orders[o].round
    BY <1>2 DEF Quiet, OrdersOnly, Bought
  <2>2. /\ orders[o].voucher \in Voucher /\ orders[o].round \in Nat
        /\ sts[orders[o].voucher] # None
        /\ orders[o].round <= sts[orders[o].voucher].round
    BY <2>1, RoundInNat DEF RoundsPast
  <2>3. sts[orders[o].voucher].round \in Nat /\ sts'[orders[o].voucher].round \in Nat
    BY <1>1, <2>2, RoundInNat DEF Shape, TypeOK, StoreTypeOK, ProviderState
  <2>4. QED  BY <1>1, <2>1, <2>2, <2>3
<1>3. ASSUME NEW w \in Worker, worker'[w].pc \in Buying
      PROVE  worker'[w].st.round <= sts'[worker'[w].v].round
  <2>1. /\ worker[w].pc \in Buying
        /\ worker'[w].v = worker[w].v /\ worker'[w].st = worker[w].st
    BY <1>3 DEF Quiet, Remembers, Selects, Onward, Deciding, Buying
  <2>2. /\ worker[w].v \in Voucher /\ sts[worker[w].v] # None
        /\ worker[w].st.round \in Nat
        /\ worker[w].st.round <= sts[worker[w].v].round
    BY <2>1, BuyingOnRow, RoundInNat DEF RoundsPast
  <2>3. sts[worker[w].v].round \in Nat /\ sts'[worker[w].v].round \in Nat
    BY <1>1, <2>2, RoundInNat DEF Shape, TypeOK, StoreTypeOK, ProviderState
  <2>4. QED  BY <1>1, <2>1, <2>2, <2>3
<1>4. QED  BY <1>2, <1>3 DEF RoundsPast

(* Under a provider state that is kept nothing is added to either.           *)
LEMMA KeptCovers ==
  ASSUME Shape, Quiet, NEW v \in Voucher, Kept(v)
  PROVE  Purchases(v)' \subseteq Purchases(v) /\ Credits(v)' \subseteq Credits(v)
<1>1. ASSUME NEW o \in Purchases(v)' PROVE o \in Purchases(v)
  BY <1>1 DEF Purchases, Quiet, OrdersOnly, Kept, Bought
<1>2. ASSUME NEW c \in Credits(v)' PROVE c \in Credits(v)
  <2>1. /\ c \in Worker \X {1, 2} /\ c[1] \in Worker
        /\ worker'[c[1]].v = v /\ sts'[v] # None
        /\ worker'[c[1]].pc = "granted" \/ (worker'[c[1]].pc = "fallback" /\ c[2] = 1)
        /\ worker'[c[1]].st.round = sts'[v].round
    BY <1>2 DEF Credits
  <2>2. Onward(c[1])
    BY <2>1 DEF Quiet, Remembers, Selects, Deciding, Buying
  <2>3. QED  BY <2>1, <2>2 DEF Onward, Kept, Credits
<1>3. QED  BY <1>1, <1>2

(* Under a fresh one there is neither.                                       *)
LEMMA ReplacedClears ==
  ASSUME Shape, RoundsPast, Quiet, NEW v \in Voucher, Replaced(v)
  PROVE  Purchases(v)' = {} /\ Credits(v)' = {}
<1>1. ASSUME NEW o \in Purchases(v)' PROVE FALSE
  <2>1. Bought(o) /\ orders[o].voucher = v /\ orders[o].round = sts'[v].round
    BY <1>1 DEF Purchases, Quiet, OrdersOnly, Bought
  <2>2. sts[v] # None /\ orders[o].round <= sts[v].round /\ sts[v].round \in Nat
    BY <1>1, <2>1, RoundInNat DEF RoundsPast, Purchases
  <2>3. QED  BY <2>1, <2>2 DEF Replaced
<1>2. ASSUME NEW c \in Credits(v)' PROVE FALSE
  <2>1. /\ c[1] \in Worker /\ worker'[c[1]].v = v
        /\ worker'[c[1]].pc \in {"granted", "fallback"}
        /\ worker'[c[1]].st.round = sts'[v].round
    BY <1>2 DEF Credits
  <2>2. /\ worker[c[1]].pc \in Buying /\ worker[c[1]].v = v
        /\ worker[c[1]].st.round = sts'[v].round
    BY <2>1 DEF Quiet, Remembers, Selects, Onward, Deciding, Buying
  <2>3. /\ sts[v] # None /\ worker[c[1]].st.round <= sts[v].round
        /\ sts[v].round \in Nat
    BY <2>1, <2>2, BuyingOnRow, RoundInNat DEF RoundsPast
  <2>4. QED  BY <2>2, <2>3 DEF Replaced
<1>3. QED  BY <1>1, <1>2

LEMMA QuietCovers ==
  ASSUME Shape, Shape', Guard, Quiet PROVE Covered'
<1>1. ASSUME NEW v \in Voucher
      PROVE  /\ IsFiniteSet(Purchases(v)') /\ IsFiniteSet(Credits(v)')
             /\ Cardinality(Purchases(v)') + Cardinality(Credits(v)') <= 2 * grants'[v]
  <2>1. grants[v] \in Nat /\ grants'[v] \in Nat
    BY DEF Shape, TypeOK, StoreTypeOK
  <2>2. /\ IsFiniteSet(Purchases(v)) /\ IsFiniteSet(Credits(v))
        /\ Cardinality(Purchases(v)) + Cardinality(Credits(v)) <= 2 * grants[v]
    BY DEF Guard, Covered
  <2>3. CASE Kept(v)
    <3>1. /\ IsFiniteSet(Purchases(v)') /\ IsFiniteSet(Credits(v)')
          /\ Cardinality(Purchases(v)') <= Cardinality(Purchases(v))
          /\ Cardinality(Credits(v)') <= Cardinality(Credits(v))
      BY <2>2, <2>3, KeptCovers, FS_Subset
    <3>2. /\ Cardinality(Purchases(v)) \in Nat /\ Cardinality(Purchases(v)') \in Nat
          /\ Cardinality(Credits(v)) \in Nat /\ Cardinality(Credits(v)') \in Nat
      BY <2>2, <3>1, FS_CardinalityType
    <3>3. QED  BY <2>1, <2>2, <2>3, <3>1, <3>2 DEF Kept
  <2>4. CASE Replaced(v)
    BY <2>1, <2>4, ReplacedClears, FS_EmptySet DEF Guard
  <2>5. QED  BY <2>3, <2>4 DEF Quiet
<1>2. QED  BY <1>1 DEF Covered

-----------------------------------------------------------------------------
LEMMA AddOne ==
  ASSUME NEW S, IsFiniteSet(S), NEW x
  PROVE  /\ IsFiniteSet(S \union {x})
         /\ Cardinality(S \union {x}) <= Cardinality(S) + 1
         /\ Cardinality(S \union {x}) \in Nat
<1>1. IsFiniteSet(S \union {x})
      /\ Cardinality(S \union {x}) = IF x \in S THEN Cardinality(S) ELSE Cardinality(S) + 1
  BY FS_AddElement
<1>2. Cardinality(S) \in Nat
  BY FS_CardinalityType
<1>3. QED  BY <1>1, <1>2

(* A guard grants two credits and is counted once.                           *)
LEMMA GrantedRow ==
  ASSUME Shape, NEW w \in Worker, Grants(w)
  PROVE  /\ sts'[worker[w].v] = Guarded(w) /\ worker'[w].st = Guarded(w)
         /\ worker'[w].v = worker[w].v /\ worker'[w].pc = "granted"
         /\ worker'[w].now = worker[w].now
         /\ \A x \in Worker \ {w} : worker'[x] = worker[x]
         /\ \A u \in Voucher \ {worker[w].v} :
              sts'[u] = sts[u] /\ grants'[u] = grants[u]
         /\ grants'[worker[w].v] = grants[worker[w].v] + 1
         /\ Guarded(w) # None
         /\ Guarded(w).round = Current(w).round
         /\ Guarded(w).attempts = Attempts(w) + 1
<1>1. worker[w] \in WorkerState /\ worker \in [Worker -> WorkerState]
  BY DEF Shape, TypeOK, WorkerTypeOK
<1>2. Current(w) \in ProviderState
  BY CurrentInType DEF Grants
<1>3. Guarded(w).round = Current(w).round /\ Guarded(w).attempts = Attempts(w) + 1
  BY <1>2 DEF Guarded, ProviderState
<1>4. sts' \in [Voucher -> ProviderState \union {None}]
      /\ sts'[worker[w].v] = Guarded(w) /\ Guarded(w) # None
  <2>1. sts'[worker[w].v] = Guarded(w)
    BY DEF Grants, Shape, TypeOK, StoreTypeOK
  <2>2. Guarded(w) \in ProviderState
    BY GuardedInType DEF Grants
  <2>3. sts' \in [Voucher -> ProviderState \union {None}]
    BY <2>2 DEF Grants, Shape, TypeOK, StoreTypeOK
  <2>4. QED  BY <2>1, <2>2, <2>3, RowAssumption
<1>5. /\ worker'[w].st = Guarded(w) /\ worker'[w].v = worker[w].v
      /\ worker'[w].pc = "granted" /\ worker'[w].now = worker[w].now
      /\ \A x \in Worker \ {w} : worker'[x] = worker[x]
  BY <1>1 DEF Grants, WorkerState
<1>6. /\ \A u \in Voucher \ {worker[w].v} :
           sts'[u] = sts[u] /\ grants'[u] = grants[u]
      /\ grants'[worker[w].v] = grants[worker[w].v] + 1
  BY DEF Grants, Shape, TypeOK, StoreTypeOK
<1>7. QED  BY <1>3, <1>4, <1>5, <1>6

(* The row of a guard is the one there was, or the first.                    *)
LEMMA GrantedRound ==
  ASSUME Shape, NEW w \in Worker, Grants(w)
  PROVE  sts[worker[w].v] # None => Guarded(w).round = sts[worker[w].v].round
  BY GrantedRow DEF Grants, NoClash, Current

LEMMA GrantsRounds ==
  ASSUME Shape, Shape', RoundsPast, NEW w \in Worker, Grants(w) PROVE RoundsPast'
<1>1. \A v \in Voucher : sts[v] # None =>
        sts'[v] # None /\ sts[v].round = sts'[v].round
  BY GrantedRow, GrantedRound
<1>2. ASSUME NEW o \in Order, Bought(o)'
      PROVE  /\ sts'[orders'[o].voucher] # None
             /\ orders'[o].round <= sts'[orders'[o].voucher].round
  <2>1. Bought(o) /\ orders' = orders
    BY <1>2 DEF Grants, Bought
  <2>2. QED  BY <1>1, <2>1, RoundInNat DEF RoundsPast
<1>3. ASSUME NEW x \in Worker, worker'[x].pc \in Buying
      PROVE  worker'[x].st.round <= sts'[worker'[x].v].round
  <2>1. CASE x = w
    <3>1. worker'[w].st.round = sts'[worker'[w].v].round /\ worker'[w].st # None
      BY GrantedRow
    <3>2. worker'[w].st.round \in Nat
      BY <3>1 DEF Shape, TypeOK, WorkerTypeOK, WorkerState, ProviderState
    <3>3. QED  BY <2>1, <3>1, <3>2
  <2>2. CASE x # w
    <3>1. worker'[x] = worker[x] /\ worker[x].pc \in Buying
      BY <1>3, <2>2, GrantedRow
    <3>2. QED  BY <1>1, <3>1, BuyingOnRow DEF RoundsPast
  <2>3. QED  BY <2>1, <2>2
<1>4. QED  BY <1>2, <1>3 DEF RoundsPast

LEMMA GrantsCredit ==
  ASSUME Shape, RoundsPast, NEW w \in Worker, Grants(w), NEW v \in Voucher
  PROVE  /\ Purchases(v)' \subseteq Purchases(v)
         /\ Credits(v)' \subseteq Credits(v) \union
              (IF v = worker[w].v THEN {<<w, 1>>} \union {<<w, 2>>} ELSE {})
<1>1. ASSUME NEW o \in Purchases(v)' PROVE o \in Purchases(v)
  <2>1. Bought(o) /\ orders' = orders /\ o \in Order /\ orders[o].voucher = v
        /\ orders[o].round = sts'[v].round
    BY <1>1 DEF Grants, Purchases, Bought
  <2>2. sts[v] # None
    BY <2>1 DEF RoundsPast
  <2>3. sts'[v].round = sts[v].round
    BY <2>2, GrantedRow, GrantedRound
  <2>4. QED  BY <2>1, <2>2, <2>3 DEF Purchases
<1>2. ASSUME NEW c \in Credits(v)',
             c \notin (IF v = worker[w].v THEN {<<w, 1>>} \union {<<w, 2>>} ELSE {})
      PROVE  c \in Credits(v)
  <2>1. /\ c \in Worker \X {1, 2} /\ c[1] \in Worker /\ c[2] \in {1, 2}
        /\ c = <<c[1], c[2]>>
        /\ worker'[c[1]].v = v
        /\ worker'[c[1]].pc = "granted" \/ (worker'[c[1]].pc = "fallback" /\ c[2] = 1)
        /\ worker'[c[1]].st.round = sts'[v].round
    BY <1>2 DEF Credits
  <2>2. c[1] # w
    <3>1. SUFFICES ASSUME c[1] = w PROVE FALSE
      OBVIOUS
    <3>2. v = worker[w].v /\ (c = <<w, 1>> \/ c = <<w, 2>>)
      BY <2>1, <3>1, GrantedRow
    <3>3. QED  BY <1>2, <3>2
  <2>3. worker'[c[1]] = worker[c[1]]
    BY <2>1, <2>2, GrantedRow
  <2>4. sts[v] # None
    BY <2>1, <2>3, BuyingOnRow DEF Buying
  <2>5. sts'[v].round = sts[v].round
    BY <2>4, GrantedRow, GrantedRound
  <2>6. QED  BY <2>1, <2>3, <2>4, <2>5 DEF Credits
<1>3. QED  BY <1>1, <1>2

LEMMA GrantsCovers ==
  ASSUME Shape, Shape', Guard, NEW w \in Worker, Grants(w) PROVE Covered'
<1>1. ASSUME NEW v \in Voucher
      PROVE  /\ IsFiniteSet(Purchases(v)') /\ IsFiniteSet(Credits(v)')
             /\ Cardinality(Purchases(v)') + Cardinality(Credits(v)') <= 2 * grants'[v]
  <2>1. grants[v] \in Nat
    BY DEF Shape, TypeOK, StoreTypeOK
  <2>2. /\ IsFiniteSet(Purchases(v)) /\ IsFiniteSet(Credits(v))
        /\ Cardinality(Purchases(v)) + Cardinality(Credits(v)) <= 2 * grants[v]
    BY DEF Guard, Covered
  <2>3. /\ IsFiniteSet(Purchases(v)')
        /\ Cardinality(Purchases(v)') <= Cardinality(Purchases(v))
    BY <2>2, GrantsCredit, FS_Subset DEF Guard
  <2>4. /\ Cardinality(Purchases(v)) \in Nat /\ Cardinality(Purchases(v)') \in Nat
        /\ Cardinality(Credits(v)) \in Nat
    BY <2>2, <2>3, FS_CardinalityType
  <2>5. CASE v = worker[w].v
    <3> DEFINE one == Credits(v) \union {<<w, 1>>}
               two == one \union {<<w, 2>>}
    <3>1. /\ IsFiniteSet(one) /\ Cardinality(one) <= Cardinality(Credits(v)) + 1
          /\ Cardinality(one) \in Nat
      BY <2>2, <2>4, AddOne
    <3> HIDE DEF one
    <3>2. /\ IsFiniteSet(two) /\ Cardinality(two) <= Cardinality(one) + 1
          /\ Cardinality(two) \in Nat
      BY <3>1, AddOne
    <3>3. Credits(v)' \subseteq two
      BY <2>5, GrantsCredit DEF one, Guard
    <3> HIDE DEF two
    <3>4. /\ IsFiniteSet(Credits(v)') /\ Cardinality(Credits(v)') <= Cardinality(two)
          /\ Cardinality(Credits(v)') \in Nat
      BY <3>2, <3>3, FS_Subset, FS_CardinalityType
    <3>5. grants'[v] = grants[v] + 1
      BY <2>5, GrantedRow
    <3>6. QED  BY <2>1, <2>2, <2>3, <2>4, <3>1, <3>2, <3>4, <3>5
  <2>6. CASE v # worker[w].v
    <3>1. /\ IsFiniteSet(Credits(v)')
          /\ Cardinality(Credits(v)') <= Cardinality(Credits(v))
          /\ Cardinality(Credits(v)') \in Nat
      BY <2>2, <2>6, GrantsCredit, FS_Subset, FS_CardinalityType DEF Guard
    <3>2. grants'[v] = grants[v]
      BY <2>6, GrantedRow
    <3>3. QED  BY <2>1, <2>2, <2>3, <2>4, <3>1, <3>2
  <2>7. QED  BY <2>5, <2>6
<1>2. QED  BY <1>1 DEF Covered

(* A purchase uses a credit up, unless its provider state is gone.           *)
LEMMA BuysRounds ==
  ASSUME Shape, Shape', RoundsPast, NEW w \in Worker, Buys(w) PROVE RoundsPast'
<1>1. worker[w].pc \in Buying /\ sts' = sts
  BY DEF Buys, Buying
<1>2. PICK p \in Stock : Buy(p, worker[w].v, worker[w].st.round)
  BY DEF Buys
<1>3. /\ worker[w].v \in Voucher /\ sts[worker[w].v] # None
      /\ worker[w].st.round <= sts[worker[w].v].round
  BY <1>1, BuyingOnRow DEF RoundsPast
<1>4. ASSUME NEW o \in Order, Bought(o)'
      PROVE  /\ sts'[orders'[o].voucher] # None
             /\ orders'[o].round <= sts'[orders'[o].voucher].round
  <2>1. orders \in [Order -> UpstreamOrder \union {None}]
    BY DEF Shape, TypeOK, FivesimTypeOK
  <2>2. CASE o = p
    BY <1>1, <1>2, <1>3, <2>1, <2>2 DEF Buy
  <2>3. CASE o # p
    <3>1. orders'[o] = orders[o]
      BY <1>2, <2>1, <2>3 DEF Buy
    <3>2. QED  BY <1>1, <1>4, <3>1 DEF RoundsPast, Bought
  <2>4. QED  BY <2>2, <2>3
<1>5. ASSUME NEW x \in Worker, worker'[x].pc \in Buying
      PROVE  worker'[x].st.round <= sts'[worker'[x].v].round
  <2>1. worker'[x].v = worker[x].v /\ worker'[x].st.round = worker[x].st.round
        /\ worker[x].pc \in Buying
    BY <1>1, <1>5 DEF Buys
  <2>2. QED  BY <1>1, <2>1 DEF RoundsPast
<1>6. QED  BY <1>4, <1>5 DEF RoundsPast

LEMMA BuysCredit ==
  ASSUME Shape, NEW w \in Worker, Buys(w), NEW v \in Voucher
  PROVE  \/ /\ Purchases(v)' \subseteq Purchases(v)
            /\ Credits(v)' \subseteq Credits(v)
         \/ \E o, c : /\ Purchases(v)' \subseteq Purchases(v) \union {o}
                      /\ c \in Credits(v) /\ Credits(v)' \subseteq Credits(v) \ {c}
<1>1. PICK p \in Stock : Buy(p, worker[w].v, worker[w].st.round)
  BY DEF Buys
<1>2. orders \in [Order -> UpstreamOrder \union {None}]
  BY DEF Shape, TypeOK, FivesimTypeOK
<1>3. Purchases(v)' \subseteq Purchases(v) \union {p}
  BY <1>1, <1>2 DEF Buys, Buy, Purchases, Bought
<1>4. Credits(v)' \subseteq Credits(v)
  <2>1. SUFFICES ASSUME NEW c \in Credits(v)' PROVE c \in Credits(v)
    OBVIOUS
  <2>2. /\ c \in Worker \X {1, 2} /\ c[1] \in Worker
        /\ worker'[c[1]].v = v /\ sts'[v] # None
        /\ worker'[c[1]].pc = "granted" \/ (worker'[c[1]].pc = "fallback" /\ c[2] = 1)
        /\ worker'[c[1]].st.round = sts'[v].round
    BY <2>1 DEF Credits
  <2>3. /\ sts' = sts /\ worker[c[1]].v = worker'[c[1]].v
        /\ worker[c[1]].st.round = worker'[c[1]].st.round
        /\ worker[c[1]].pc = "granted" \/ (worker[c[1]].pc = "fallback" /\ c[2] = 1)
    BY <2>2 DEF Buys
  <2>4. QED  BY <2>2, <2>3 DEF Credits
<1>5. CASE p \in Purchases(v)'
  <2>1. worker[w].v = v /\ worker[w].st.round = sts[v].round /\ sts[v] # None
    BY <1>1, <1>2, <1>5 DEF Buys, Buy, Purchases, Stock
  <2> DEFINE c == IF worker[w].pc = "granted" THEN <<w, 2>> ELSE <<w, 1>>
  <2>2. c \in Worker \X {1, 2} /\ c[1] = w
        /\ c[2] = (IF worker[w].pc = "granted" THEN 2 ELSE 1)
    OBVIOUS
  <2> HIDE DEF c
  <2>3. c \in Credits(v)
    BY <2>1, <2>2 DEF Buys, Credits
  <2>4. c \notin Credits(v)'
    BY <2>2 DEF Buys, Credits
  <2>5. QED  BY <1>3, <1>4, <2>3, <2>4
<1>6. CASE p \notin Purchases(v)'
  BY <1>3, <1>4, <1>6
<1>7. QED  BY <1>5, <1>6

LEMMA BuysCovers ==
  ASSUME Shape, Guard, NEW w \in Worker, Buys(w) PROVE Covered'
<1>1. ASSUME NEW v \in Voucher
      PROVE  /\ IsFiniteSet(Purchases(v)') /\ IsFiniteSet(Credits(v)')
             /\ Cardinality(Purchases(v)') + Cardinality(Credits(v)') <= 2 * grants'[v]
  <2>1. grants[v] \in Nat /\ grants'[v] = grants[v]
    BY DEF Shape, TypeOK, StoreTypeOK, Buys
  <2>2. /\ IsFiniteSet(Purchases(v)) /\ IsFiniteSet(Credits(v))
        /\ Cardinality(Purchases(v)) + Cardinality(Credits(v)) <= 2 * grants[v]
        /\ Cardinality(Purchases(v)) \in Nat /\ Cardinality(Credits(v)) \in Nat
    BY FS_CardinalityType DEF Guard, Covered
  <2>3. CASE /\ Purchases(v)' \subseteq Purchases(v)
             /\ Credits(v)' \subseteq Credits(v)
    <3>1. /\ IsFiniteSet(Purchases(v)') /\ IsFiniteSet(Credits(v)')
          /\ Cardinality(Purchases(v)') <= Cardinality(Purchases(v))
          /\ Cardinality(Credits(v)') <= Cardinality(Credits(v))
      BY <2>2, <2>3, FS_Subset
    <3>2. Cardinality(Purchases(v)') \in Nat /\ Cardinality(Credits(v)') \in Nat
      BY <3>1, FS_CardinalityType
    <3>3. QED  BY <2>1, <2>2, <3>1, <3>2
  <2>4. ASSUME NEW o, NEW c, Purchases(v)' \subseteq Purchases(v) \union {o},
               c \in Credits(v), Credits(v)' \subseteq Credits(v) \ {c}
        PROVE  /\ IsFiniteSet(Purchases(v)') /\ IsFiniteSet(Credits(v)')
               /\ Cardinality(Purchases(v)') + Cardinality(Credits(v)') <= 2 * grants'[v]
    <3> DEFINE more == Purchases(v) \union {o}
               less == Credits(v) \ {c}
    <3>1. IsFiniteSet(more) /\ Cardinality(more) <= Cardinality(Purchases(v)) + 1
          /\ Cardinality(more) \in Nat
      BY <2>2, AddOne
    <3>2. IsFiniteSet(less) /\ Cardinality(less) = Cardinality(Credits(v)) - 1
          /\ Cardinality(less) \in Nat
      BY <2>2, <2>4, FS_RemoveElement, FS_CardinalityType
    <3>3. Purchases(v)' \subseteq more /\ Credits(v)' \subseteq less
      BY <2>4
    <3> HIDE DEF more, less
    <3>4. /\ IsFiniteSet(Purchases(v)') /\ IsFiniteSet(Credits(v)')
          /\ Cardinality(Purchases(v)') <= Cardinality(more)
          /\ Cardinality(Credits(v)') <= Cardinality(less)
      BY <3>1, <3>2, <3>3, FS_Subset
    <3>5. Cardinality(Purchases(v)') \in Nat /\ Cardinality(Credits(v)') \in Nat
      BY <3>4, FS_CardinalityType
    <3>6. QED  BY <2>1, <2>2, <3>1, <3>2, <3>4, <3>5
  <2>5. QED  BY <2>3, <2>4, BuysCredit
<1>2. QED  BY <1>1 DEF Covered

LEMMA GuardNext == ASSUME Shape, Guard, [Next]_vars PROVE Guard'
<1>1. Shape'
  BY NextShape
<1>2. CASE Quiet
  BY <1>1, <1>2, QuietRounds, QuietCovers DEF Guard
<1>3. ASSUME NEW w \in Worker, Grants(w) PROVE Guard'
  BY <1>1, <1>3, GrantsRounds, GrantsCovers DEF Guard
<1>4. ASSUME NEW w \in Worker, Buys(w) PROVE Guard'
  BY <1>1, <1>4, BuysRounds, BuysCovers DEF Guard
<1>5. QED  BY <1>2, <1>3, <1>4, StepKinds

LEMMA GuardInit == Init => Guard
<1> SUFFICES ASSUME Init PROVE Guard
  OBVIOUS
<1>1. /\ \A o \in Order : ~Bought(o)
      /\ \A w \in Worker : worker[w].pc = "idle"
      /\ \A v \in Voucher : grants[v] = 0
  BY IdleInType DEF Init, StoreInit, FivesimInit, WorkerInit, Bought
<1>2. RoundsPast
  BY <1>1 DEF RoundsPast, Buying
<1>3. \A v \in Voucher : Purchases(v) = {} /\ Credits(v) = {}
  BY <1>1 DEF Purchases, Credits
<1>4. QED  BY <1>1, <1>2, <1>3, FS_EmptySet DEF Guard, Covered

LEMMA GuardInvariant == Spec => [](Shape /\ Guard)
<1>1. Init => Shape /\ Guard
  BY InitShape, GuardInit
<1>2. Shape /\ Guard /\ [Next]_vars => (Shape /\ Guard)'
  BY NextShape, GuardNext
<1>3. QED  BY <1>1, <1>2, PTL DEF Spec

(* Every purchase is covered by a committed guard, two requests each, for    *)
(* any number of workers: whoever crashes between the guard and the commit,  *)
(* is taken over, or buys under a provider state that a reset has replaced   *)
(* (worker.py, the buy guard of _process_one).                               *)
THEOREM PurchasesCovered == Spec => []PurchasesWithinGrants
<1>1. ASSUME Shape, Guard PROVE PurchasesWithinGrants
  <2>1. ASSUME NEW v \in Voucher
        PROVE  Cardinality(Purchases(v)) <= 2 * grants[v]
    <3>1. /\ Cardinality(Purchases(v)) \in Nat /\ Cardinality(Credits(v)) \in Nat
          /\ Cardinality(Purchases(v)) + Cardinality(Credits(v)) <= 2 * grants[v]
      BY <1>1, FS_CardinalityType DEF Guard, Covered
    <3>2. grants[v] \in Nat
      BY <1>1 DEF Shape, TypeOK, StoreTypeOK
    <3>3. QED  BY <3>1, <3>2
  <2>2. QED  BY <2>1 DEF PurchasesWithinGrants
<1>2. QED  BY <1>1, GuardInvariant, PTL

-----------------------------------------------------------------------------
(* What the guard promises beyond that needs the copy it decides on to be    *)
(* current: of two workers that have selected the same task and not passed   *)
(* the guard yet, the second goes by the provider state from before the      *)
(* first one's purchase. A single worker never meets another one; with more, *)
(* what follows holds as long as no two of them decide on the same voucher.  *)
Choosing == {"selected", "claimed"}

OneDecides ==
    \A w, x \in Worker :
        w # x /\ worker[w].pc \in Choosing /\ worker[x].pc \in Choosing =>
          worker[w].v # worker[x].v

(* The count a worker goes by is not behind the guards of the voucher.       *)
Counts ==
    /\ \A v \in Voucher : sts[v] = None => grants[v] = 0
    /\ \A w \in Worker : worker[w].pc \in Choosing =>
         grants[worker[w].v] <= Attempts(w)

Counted == AttemptsRecorded /\ Counts

(* The flight time it goes by is the row's, unless that has ended.           *)
Flights ==
    \A w \in Worker :
        /\ worker[w].now <= now
        /\ worker[w].pc \in Choosing /\ worker[w].st # None =>
             sts[worker[w].v].inflight \in {worker[w].st.inflight, None}

LEMMA ChoosingOnTask ==
  ASSUME Shape, NEW w \in Worker, worker[w].pc \in Choosing
  PROVE  /\ worker[w].v \in Voucher
         /\ worker[w].st # None => sts[worker[w].v] # None
  BY DEF Shape, WorkerOnTask, Choosing

LEMMA CountInNat ==
  ASSUME Shape
  PROVE  /\ \A w \in Worker : Attempts(w) \in Nat
         /\ \A v \in Voucher : grants[v] \in Nat
         /\ \A v \in Voucher : sts[v] # None => sts[v].attempts \in Nat
<1>1. \A w \in Worker : Attempts(w) \in Nat
  BY LimitAssumption
  DEF Attempts, Shape, TypeOK, WorkerTypeOK, WorkerState, ProviderState
<1>2. \A v \in Voucher : sts[v] # None => sts[v].attempts \in Nat
  BY LimitAssumption DEF Shape, TypeOK, StoreTypeOK, ProviderState
<1>3. \A v \in Voucher : grants[v] \in Nat
  BY DEF Shape, TypeOK, StoreTypeOK
<1>4. QED  BY <1>1, <1>2, <1>3

LEMMA QuietCounted ==
  ASSUME Shape, Shape', Counted, Quiet PROVE Counted'
<1>1. AttemptsRecorded'
  BY CountInNat DEF Quiet, Kept, Replaced, Counted, Counts, AttemptsRecorded
<1>2. \A v \in Voucher : sts'[v] = None => grants'[v] = 0
  BY DEF Quiet, Kept, Replaced, Counted, Counts
<1>3. \A v \in Voucher : grants'[v] <= grants[v]
  BY CountInNat DEF Quiet, Kept, Replaced
<1>4. ASSUME NEW w \in Worker, worker'[w].pc \in Choosing
      PROVE  grants'[worker'[w].v] <= Attempts(w)'
  <2>1. CASE Selects(w)
    <3>1. /\ worker'[w].v \in Voucher /\ worker'[w].st = sts[worker'[w].v]
          /\ grants' = grants
      BY <2>1 DEF Selects
    <3>2. grants[worker'[w].v] <= Attempts(w)'
      BY <3>1, CountInNat DEF Attempts, Counted, Counts, AttemptsRecorded
    <3>3. QED  BY <3>1, <3>2
  <2>2. CASE Onward(w)
    <3>1. /\ worker[w].pc \in Choosing /\ worker'[w].v = worker[w].v
          /\ worker'[w].st = worker[w].st
      BY <1>4, <2>2 DEF Onward, Choosing
    <3>2. /\ grants[worker[w].v] <= Attempts(w) /\ Attempts(w)' = Attempts(w)
          /\ worker[w].v \in Voucher
      BY <3>1, ChoosingOnTask DEF Attempts, Counted, Counts
    <3>3. grants'[worker[w].v] \in Nat /\ grants[worker[w].v] \in Nat
          /\ Attempts(w) \in Nat
      BY <3>2, CountInNat DEF Shape, TypeOK, StoreTypeOK
    <3>4. grants'[worker'[w].v] = grants'[worker[w].v]
          /\ grants'[worker[w].v] <= grants[worker[w].v]
      BY <1>3, <3>1, <3>2
    <3>5. QED  BY <3>2, <3>3, <3>4
  <2>3. QED  BY <1>4, <2>1, <2>2 DEF Quiet, Remembers, Deciding, Choosing
<1>5. QED  BY <1>1, <1>2, <1>4 DEF Counted, Counts

(* A guard counts on from the current number, if nobody else decides.        *)
LEMMA GrantsCounted ==
  ASSUME Shape, Shape', Counted, OneDecides, NEW w \in Worker, Grants(w)
  PROVE  Counted'
<1>1. worker[w].pc \in Choosing /\ worker[w].v \in Voucher
  BY DEF Grants, Choosing
<1>2. grants[worker[w].v] <= Attempts(w)
  BY <1>1 DEF Counted, Counts
<1>3. AttemptsRecorded'
  BY <1>1, <1>2, GrantedRow, CountInNat DEF Counted, AttemptsRecorded
<1>4. \A v \in Voucher : sts'[v] = None => grants'[v] = 0
  BY <1>1, GrantedRow DEF Counted, Counts
<1>5. ASSUME NEW x \in Worker, worker'[x].pc \in Choosing
      PROVE  grants'[worker'[x].v] <= Attempts(x)'
  <2>1. x # w /\ worker'[x] = worker[x]
    BY <1>5, GrantedRow DEF Choosing
  <2>2. worker[x].v \in Voucher \ {worker[w].v} /\ Attempts(x)' = Attempts(x)
    BY <1>1, <1>5, <2>1, ChoosingOnTask DEF OneDecides, Attempts
  <2>3. grants'[worker[x].v] = grants[worker[x].v]
    BY <2>2, GrantedRow
  <2>4. QED  BY <1>5, <2>1, <2>2, <2>3 DEF Counted, Counts
<1>6. QED  BY <1>3, <1>4, <1>5 DEF Counted, Counts

LEMMA BuysCounted ==
  ASSUME Shape, Counted, NEW w \in Worker, Buys(w) PROVE Counted'
<1>1. UNCHANGED <<sts, grants>>
  BY DEF Buys
<1>2. ASSUME NEW x \in Worker, worker'[x].pc \in Choosing
      PROVE  worker'[x] = worker[x]
  BY <1>2 DEF Buys, Choosing
<1>3. QED  BY <1>1, <1>2 DEF Counted, Counts, AttemptsRecorded, Attempts

LEMMA CountedNext ==
  ASSUME Shape, Counted, OneDecides, [Next]_vars PROVE Counted'
  BY NextShape, StepKinds, QuietCounted, GrantsCounted, BuysCounted

LEMMA CountedInit == Init => Counted
  BY IdleInType DEF Init, StoreInit, WorkerInit, Counted, Counts, AttemptsRecorded,
     Choosing

(* buy_attempts counts every purchase the guard let pass, through crashes,   *)
(* rollbacks, cancellations and resets, as long as no two workers decide on  *)
(* the same voucher at once (worker.py, the buy guard of _process_one).      *)
THEOREM AttemptsCounted == Spec /\ []OneDecides => []AttemptsRecorded
<1>1. Init => Shape /\ Counted
  BY InitShape, CountedInit
<1>2. Shape /\ Counted /\ OneDecides /\ [Next]_vars => (Shape /\ Counted)'
  BY NextShape, CountedNext
<1>3. Counted => AttemptsRecorded
  BY DEF Counted
<1>4. QED  BY <1>1, <1>2, <1>3, PTL DEF Spec

-----------------------------------------------------------------------------
LEMMA NowInTime ==
  ASSUME Shape
  PROVE  now \in Int /\ 0 <= now /\ \A w \in Worker : worker[w].now \in Int
  BY TimingAssumption
  DEF Shape, TypeOK, StoreTypeOK, WorkerTypeOK, WorkerState, Time

LEMMA QuietFlights ==
  ASSUME Shape, Shape', Flights, Quiet PROVE Flights'
<1>1. ASSUME NEW w \in Worker PROVE worker'[w].now <= now'
  <2>1. now \in Int /\ now' \in Int /\ 0 <= now /\ worker[w].now \in Int
    BY NowInTime DEF Shape, TypeOK, StoreTypeOK, Time
  <2>2. now <= now' /\ worker'[w].now \in {0, now, worker[w].now}
        /\ worker[w].now <= now
    BY DEF Quiet, Noted, Flights
  <2>3. QED  BY <2>1, <2>2
<1>2. ASSUME NEW w \in Worker, worker'[w].pc \in Choosing, worker'[w].st # None
      PROVE  sts'[worker'[w].v].inflight \in {worker'[w].st.inflight, None}
  <2>1. CASE Selects(w)
    BY <2>1 DEF Selects
  <2>2. CASE Onward(w)
    <3>1. /\ worker[w].pc \in Choosing /\ worker'[w].v = worker[w].v
          /\ worker'[w].st = worker[w].st
      BY <1>2, <2>2 DEF Onward, Choosing
    <3>2. /\ worker[w].v \in Voucher /\ sts[worker[w].v] # None
          /\ sts[worker[w].v].inflight \in {worker[w].st.inflight, None}
      BY <1>2, <3>1, ChoosingOnTask DEF Flights
    <3>3. QED  BY <3>1, <3>2 DEF Quiet, Kept, Replaced
  <2>3. QED  BY <1>2, <2>1, <2>2 DEF Quiet, Remembers, Deciding, Choosing
<1>3. QED  BY <1>1, <1>2 DEF Flights

LEMMA GrantsFlights ==
  ASSUME Shape, Flights, OneDecides, NEW w \in Worker, Grants(w) PROVE Flights'
<1>1. now' = now /\ worker[w].pc \in Choosing
  BY DEF Grants, Choosing
<1>2. ASSUME NEW x \in Worker PROVE worker'[x].now <= now'
  <2>1. worker'[x].now = worker[x].now
    BY GrantedRow
  <2>2. QED  BY <1>1, <2>1 DEF Flights
<1>3. ASSUME NEW x \in Worker, worker'[x].pc \in Choosing, worker'[x].st # None
      PROVE  sts'[worker'[x].v].inflight \in {worker'[x].st.inflight, None}
  <2>1. x # w /\ worker'[x] = worker[x]
    BY <1>3, GrantedRow DEF Choosing
  <2>2. worker[x].v \in Voucher \ {worker[w].v}
    BY <1>1, <1>3, <2>1, ChoosingOnTask DEF OneDecides
  <2>3. sts'[worker[x].v] = sts[worker[x].v]
    BY <2>2, GrantedRow
  <2>4. QED  BY <1>3, <2>1, <2>3 DEF Flights
<1>4. QED  BY <1>2, <1>3 DEF Flights

LEMMA BuysFlights ==
  ASSUME Shape, Flights, NEW w \in Worker, Buys(w) PROVE Flights'
<1>1. UNCHANGED <<sts, now>> /\ \A x \in Worker : worker'[x].now = worker[x].now
  BY DEF Buys
<1>2. ASSUME NEW x \in Worker, worker'[x].pc \in Choosing
      PROVE  worker'[x] = worker[x]
  BY <1>2 DEF Buys, Choosing
<1>3. QED  BY <1>1, <1>2 DEF Flights

LEMMA FlightsNext ==
  ASSUME Shape, Flights, OneDecides, [Next]_vars PROVE Flights'
  BY NextShape, StepKinds, QuietFlights, GrantsFlights, BuysFlights

LEMMA FlightsInit == Init => Flights
<1> SUFFICES ASSUME Init PROVE Flights
  OBVIOUS
<1>1. \A w \in Worker : worker[w].pc = "idle" /\ worker[w].now = 0
  BY DEF Init, WorkerInit, Idle
<1>2. QED  BY <1>1 DEF Init, StoreInit, Flights, Choosing

(* A guard that lets a purchase pass finds the flight time of the row over.  *)
LEMMA GrantOutOfFlight ==
  ASSUME Shape, Flights, [Next]_vars, NEW v \in Voucher,
         grants'[v] > grants[v], sts[v] # None
  PROVE  sts[v].inflight = None \/ Due(sts[v].inflight, now)
<1>1. ~Quiet /\ ~\E w \in Worker : Buys(w)
  <2>1. grants'[v] # grants[v] /\ ~(grants'[v] = 0)
    BY CountInNat
  <2>2. QED  BY <2>1 DEF Quiet, Kept, Replaced, Buys
<1>2. PICK w \in Worker : Grants(w)
  BY <1>1, StepKinds
<1>3. worker[w].v = v
  BY <1>2, GrantedRow, CountInNat
<1>4. worker[w].st # None /\ worker[w].pc \in Choosing
  BY <1>2, <1>3 DEF Grants, NoClash, Choosing
<1>5. sts[v].inflight \in {worker[w].st.inflight, None} /\ worker[w].now <= now
  BY <1>3, <1>4 DEF Flights
<1>6. worker[w].st.inflight = None \/ ~(worker[w].now < worker[w].st.inflight)
  BY <1>2, <1>4 DEF Grants, InFlight
<1>7. /\ worker[w].now \in Int /\ now \in Int
      /\ worker[w].st.inflight \in Int \union {None}
  BY <1>4, NowInTime DEF Shape, TypeOK, WorkerTypeOK, WorkerState, ProviderState,
     Deadline, Time
<1>8. QED  BY <1>5, <1>6, <1>7 DEF Due

(* The guard lets no purchase pass while an earlier one of the same provider *)
(* state may be under way, as long as no two workers decide on the same      *)
(* voucher at once (worker.py, buy_inflight_until).                          *)
THEOREM FlightsRespected == Spec /\ []OneDecides => NoBuyInsideInflight
<1>1. Init => Shape /\ Flights
  BY InitShape, FlightsInit
<1>2. Shape /\ Flights /\ OneDecides /\ [Next]_vars => (Shape /\ Flights)'
  BY NextShape, FlightsNext
<1>3. Shape /\ Flights /\ [Next]_vars =>
        [\A v \in Voucher : grants'[v] > grants[v] /\ sts[v] # None =>
           sts[v].inflight = None \/ Due(sts[v].inflight, now)]_vars
  BY GrantOutOfFlight
<1>4. QED  BY <1>1, <1>2, <1>3, PTL DEF Spec, NoBuyInsideInflight

(* A single worker process is enough for both.                               *)
THEOREM SingleWorkerGuard ==
  ASSUME NEW x, Worker = {x}
  PROVE  Spec => []AttemptsRecorded /\ NoBuyInsideInflight
<1>1. OneDecides
  BY DEF OneDecides
<1>2. QED  BY <1>1, AttemptsCounted, FlightsRespected, PTL
=============================================================================
