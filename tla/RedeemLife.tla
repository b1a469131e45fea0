----------------------------- MODULE RedeemLife -----------------------------
(***************************************************************************)
(* The redeem service implements TaskLife: what a client sees of a task,   *)
(* and the plans its handlers and its worker hold.                         *)
(***************************************************************************)
EXTENDS RedeemSystem

LifeOf == [PENDING |-> "open", PROCESSING |-> "open", WAITING_SMS |-> "open",
           CODE_READY |-> "delivered", DONE |-> "done",
           FAILED |-> "failed", CANCELED |-> "canceled"]

(* Between the buy guard's commit and the next one, and in the cleanup after *)
(* an error, the worker goes by what it has in memory.                       *)
Purchasing(v) ==
    \E w \in Worker : worker[w].v = v /\ worker[w].pc \in Buying \union {"cleaning"}

PlanOf(h) ==
    IF request[h].pc = "resetting" THEN "start"
    ELSE IF request[h].target = "DONE" THEN "complete" ELSE "cancel"

Planned(v) ==
    {PlanOf(h) : h \in {g \in Request : /\ request[g].v = v
                                        /\ request[g].pc \notin {"idle", "inserting"}}}

(* What TaskLife sees of the task of each voucher.                           *)
TaskLives == [v \in Voucher |-> IF tasks[v] = None THEN None ELSE LifeOf[tasks[v].status]]
TaskCodes == [v \in Voucher |-> IF tasks[v] = None THEN None ELSE tasks[v].code]
TaskPlans == [v \in Voucher |-> Planned(v) \union (IF Purchasing(v) THEN {"buy"} ELSE {})]

Life == INSTANCE TaskLife WITH life <- TaskLives, code <- TaskCodes, plans <- TaskPlans

(* A task changes as TaskLife promises: a client's or the worker's decision  *)
(* takes effect once and as it was formed, what it was based on may have     *)
(* changed only by the others under way, and a code is delivered, kept and   *)
(* taken off with the task's life. Needs a single worker, and a single       *)
(* handler per voucher at a time (worker.py, routes_redeem.py).              *)
ImplementsTaskLife == Life!LifeSpec
=============================================================================
