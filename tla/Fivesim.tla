------------------------------ MODULE Fivesim ------------------------------
(***************************************************************************)
(* The 5sim service, which is not part of the repository, as the worker    *)
(* and the handlers use it: an order is bought, its SMS may arrive, it may *)
(* be cancelled or finished. Every call may fail, and a call that fails    *)
(* may still have had its effect (a lost answer).                          *)
(***************************************************************************)
EXTENDS RedeemStore

VARIABLE orders   \* the orders the account holds, None: not bought

(* CANCELED stands for CANCELED, TIMEOUT and BANNED: the code treats them    *)
(* alike. voucher and round are history, for whom, and under which of its    *)
(* provider states, the order was bought: 5sim knows neither.                *)
UpstreamOrder == [voucher : Voucher, round : Nat,
                  state : {"PENDING", "RECEIVED", "FINISHED", "CANCELED"}]

ASSUME OrderAssumption == None \notin UpstreamOrder

FivesimInit == orders = [o \in Order |-> None]
FivesimTypeOK == orders \in [Order -> UpstreamOrder \union {None}]

Stock == {o \in Order : orders[o] = None}
Bought(o) == orders[o] # None
HasSms(o) == Bought(o) /\ orders[o].state \in {"RECEIVED", "FINISHED"}
Dead(o) == Bought(o) /\ orders[o].state = "CANCELED"

Buy(o, v, round) ==
    orders' = [orders EXCEPT ![o] =
                 [voucher |-> v, round |-> round, state |-> "PENDING"]]

(* CANCEL has an effect on an order without an SMS only, FINISH on one with  *)
(* an SMS; the caller swallows a refusal and a network error alike.          *)
TryCancel(o) ==
    \/ UNCHANGED orders
    \/ Bought(o) /\ orders[o].state = "PENDING"
       /\ orders' = [orders EXCEPT ![o].state = "CANCELED"]

TryFinish(o) ==
    \/ UNCHANGED orders
    \/ Bought(o) /\ orders[o].state = "RECEIVED"
       /\ orders' = [orders EXCEPT ![o].state = "FINISHED"]

SmsArrives(o) ==
    /\ Bought(o) /\ orders[o].state = "PENDING"
    /\ orders' = [orders EXCEPT ![o].state = "RECEIVED"]
    /\ UNCHANGED store

(* 5sim gives the order up: it timed out, or the number was banned.          *)
UpstreamDrops(o) ==
    /\ Bought(o) /\ orders[o].state = "PENDING"
    /\ orders' = [orders EXCEPT ![o].state = "CANCELED"]
    /\ UNCHANGED store
=============================================================================
