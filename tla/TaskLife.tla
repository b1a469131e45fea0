------------------------------ MODULE TaskLife ------------------------------
(***************************************************************************)
(* What the redeem service promises of one task per voucher, without       *)
(* leases, snapshots, polls, guards and upstream calls. A task is open,    *)
(* delivered, done, failed or canceled. A change that is not made at once  *)
(* is a plan: it is formed when the task's life allows it and takes effect *)
(* later, whatever the task's life is by then, or never.                   *)
(***************************************************************************)
CONSTANTS
    Voucher,   \* vouchers that exist
    Order,     \* what a delivered code came with
    None       \* no task, no code

VARIABLES
    life,      \* the task of each voucher
    code,      \* the code it shows
    plans      \* what handlers and the worker are about to do to it

Plan == {"start", "cancel", "complete", "buy"}
Lives == {"open", "delivered", "done", "failed", "canceled"}

(* When a plan may be formed, and what becomes of the task by it. A purchase *)
(* (or the cleanup after an error) leaves the task open or failed.           *)
Allowed == [start |-> {"failed", "canceled"}, cancel |-> Lives,
            complete |-> {"delivered", "done"}, buy |-> {"open"}]
Outcome == [start |-> {"open"}, cancel |-> {"canceled"},
            complete |-> {"done"}, buy |-> {"open", "failed"}]

LifeTypeOK ==
    /\ life \in [Voucher -> Lives \union {None}]
    /\ code \in [Voucher -> Order \union {None}]
    /\ plans \in [Voucher -> SUBSET Plan]

LifeInit ==
    /\ life = [v \in Voucher |-> None]
    /\ code = [v \in Voucher |-> None]
    /\ plans = [v \in Voucher |-> {}]

Become(v, l) == life' = [life EXCEPT ![v] = l]

Redeem(v) ==
    /\ life[v] = None
    /\ Become(v, "open")
    /\ UNCHANGED <<code, plans>>

(* The client has one plan at a time, beside the worker's purchase.          *)
Form(v, plan) ==
    /\ life[v] \in Allowed[plan]
    /\ plan = "buy" \/ plans[v] \subseteq {"buy"}
    /\ plans' = [plans EXCEPT ![v] = @ \union {plan}]
    /\ UNCHANGED <<life, code>>

Drop(v, plan) ==
    /\ plans' = [plans EXCEPT ![v] = @ \ {plan}]
    /\ UNCHANGED <<life, code>>

(* A new start takes the code off, but for one that was delivered after it   *)
(* was planned (a purchase took effect in between).                          *)
TakeEffect(v, plan) ==
    /\ plans' = [plans EXCEPT ![v] = @ \ {plan}]
    /\ \E l \in Outcome[plan] : Become(v, l)
    /\ IF plan # "start" THEN UNCHANGED code
       ELSE \/ code' = [code EXCEPT ![v] = None]
            \/ life[v] \notin Allowed["start"] /\ UNCHANGED code

(* Nothing is delivered while a purchase is planned.                         *)
Deliver(v) ==
    /\ life[v] = "open" /\ "buy" \notin plans[v]
    /\ Become(v, "delivered")
    /\ \E o \in Order : code' = [code EXCEPT ![v] = o]
    /\ UNCHANGED plans

Fail(v) ==
    /\ life[v] = "open" /\ "buy" \notin plans[v]
    /\ Become(v, "failed")
    /\ UNCHANGED <<code, plans>>

(* A code that a new start did not take off counts as delivered.             *)
Finish(v) ==
    /\ life[v] = "delivered" \/ (life[v] = "open" /\ code[v] # None)
    /\ "buy" \notin plans[v]
    /\ Become(v, "done")
    /\ UNCHANGED <<code, plans>>

LifeNext ==
    \E v \in Voucher :
       \/ Redeem(v) \/ Deliver(v) \/ Fail(v) \/ Finish(v)
       \/ \E plan \in plans[v] : Drop(v, plan) \/ TakeEffect(v, plan)
       \/ \E plan \in Plan \ plans[v] : Form(v, plan)

LifeSpec == LifeInit /\ [][LifeNext]_<<life, code, plans>>

-----------------------------------------------------------------------------
(* What clients may rely on. A delivered or completed task shows its code.   *)
DeliveredShowsCode ==
    \A v \in Voucher : life[v] \in {"delivered", "done"} => code[v] \in Order

(* A code that was delivered is not replaced, and its task neither opened    *)
(* again nor failed, unless the client cancels it or had planned a new start *)
(* before it was delivered.                                                  *)
DeliveredStays ==
    [][\A v \in Voucher :
         life[v] \in {"delivered", "done"} /\ "start" \notin plans[v] =>
           /\ life'[v] \in {"delivered", "done", "canceled"}
           /\ code'[v] = code[v]]_<<life, code, plans>>
=============================================================================
