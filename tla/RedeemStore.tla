---------------------------- MODULE RedeemStore ----------------------------
(***************************************************************************)
(* The MySQL tables the redeem service works on (mintcode_api/models.py),  *)
(* as the committed state every new transaction sees, the row lock a       *)
(* worker's claim takes on a task, and the clock that leases, poll times   *)
(* and expiries are compared with.                                         *)
(*                                                                         *)
(* A voucher has at most one task (voucher_id is unique) and a task at     *)
(* most one provider state (task_id is its key), so both tables are        *)
(* functions of the voucher; None stands for "no row" and for SQL NULL.    *)
(***************************************************************************)
EXTENDS Integers, FiniteSets

CONSTANTS
    Voucher,         \* vouchers that exist
    Worker,          \* worker processes
    Order,           \* upstream orders that can be bought: a bound
    Config,          \* configurations an admin may store for the SKU
    None,            \* SQL NULL, a missing row
    Lease,           \* worker_lease_seconds
    Inflight,        \* buy_inflight_seconds
    Poll,            \* poll_interval_seconds of the configuration
    Backoff,         \* max(5, poll_interval_seconds)
    Wait,            \* redeem_wait_seconds
    MaxBuyAttempts,  \* max_buy_attempts
    Horizon          \* the last instant told apart: a bound on the clock

ASSUME NoneAssumption ==
    /\ None \notin Int
    /\ None \notin Worker
    /\ None \notin Order
    /\ None \notin Voucher
    /\ None \notin Config

ASSUME TimingAssumption ==
    /\ Lease \in Nat /\ Inflight \in Nat /\ Poll \in Nat /\ Backoff \in Nat
    /\ Wait \in Nat /\ Horizon \in Nat

ASSUME LimitAssumption == MaxBuyAttempts \in Nat /\ IsFiniteSet(Voucher)

VARIABLES
    now,        \* the clock of the database host and the workers
    config,     \* the SKU's row of sku_provider_configs
    successes,  \* success_count of the row of each configuration, 0: no row
    tasks,      \* redeem_tasks, by voucher
    sts,        \* redeem_task_provider_states, by voucher
    lock,       \* the worker whose open transaction holds the task's row lock
    grants      \* history: purchases the guard let pass on the current state

store == <<now, config, successes, tasks, sts, lock, grants>>

Status == {"PENDING", "PROCESSING", "WAITING_SMS", "CODE_READY", "DONE",
           "FAILED", "CANCELED"}

Time == 0 .. Horizon
Deadline == Time \union {None}

Task == [id : Nat, status : Status, code : Order \union {None},
         owner : Worker \union {None}, until : Deadline]

ProviderState ==
    [round : Nat, order : Order \union {None}, expires : Deadline,
     poll : Deadline, attempts : 0 .. MaxBuyAttempts, inflight : Deadline,
     created : Time]

ASSUME RowAssumption == None \notin Task /\ None \notin ProviderState

-----------------------------------------------------------------------------
(* Deadlines beyond the horizon are cut to it: at the horizon the clock      *)
(* stands still and every deadline is due.                                   *)
Later(t, d) == IF t + d <= Horizon THEN t + d ELSE Horizon

(* "d is not None and d <= t", the form of every time test in the code.      *)
Due(d, t) == d # None /\ d <= t

(* The row a handler or a worker inserts for a task that has none, or after  *)
(* deleting the old one. The round is history: it tells the rows apart that  *)
(* a task has one after the other, which the code does not.                  *)
FreshState(v) ==
    [round |-> IF sts[v] = None THEN 1 ELSE sts[v].round + 1,
     order |-> None, expires |-> None, poll |-> None, attempts |-> 0,
     inflight |-> None, created |-> now]

NewTask ==
    [id |-> 1 + Cardinality({v \in Voucher : tasks[v] # None}),
     status |-> "PENDING", code |-> None, owner |-> None, until |-> None]

(* A session that found no provider state inserts one, which fails, and the  *)
(* session with it, when there is one by now. A session that found one goes  *)
(* by its key, the task's id: it updates or deletes the row there is now,    *)
(* even if that has replaced the one it loaded.                              *)
NoClash(loaded, v) == loaded = None => sts[v] = None

Settled == {"CANCELED", "FAILED"}   \* a new redemption may start
Consumed == {"CODE_READY", "DONE"}  \* the code was delivered

-----------------------------------------------------------------------------
StoreInit ==
    /\ now = 0
    /\ config \in Config \union {None}
    /\ successes = [c \in Config |-> 0]
    /\ tasks = [v \in Voucher |-> None]
    /\ sts = [v \in Voucher |-> None]
    /\ lock = [v \in Voucher |-> None]
    /\ grants = [v \in Voucher |-> 0]

(* Time passes while a worker sleeps, or waits for a remote answer.          *)
Tick ==
    /\ now < Horizon
    /\ now' = now + 1
    /\ UNCHANGED <<config, successes, tasks, sts, lock, grants>>

(* An admin stores a configuration; there is no operation that deletes one.  *)
PutConfig ==
    /\ \E c \in Config \ {config} : config' = c
    /\ UNCHANGED <<now, successes, tasks, sts, lock, grants>>

StoreTypeOK ==
    /\ now \in Time
    /\ config \in Config \union {None}
    /\ successes \in [Config -> Nat]
    /\ tasks \in [Voucher -> Task \union {None}]
    /\ sts \in [Voucher -> ProviderState \union {None}]
    /\ lock \in [Voucher -> Worker \union {None}]
    /\ grants \in [Voucher -> Nat]
=============================================================================
