--------------------------- MODULE TaskLifeProofs ---------------------------
(* What TaskLife promises, proved for any vouchers and codes.                *)
EXTENDS TaskLife, TLAPS

tvars == <<life, code, plans>>

Delivered == {"delivered", "done"}

(* A purchase and a completion exclude each other, and so do two plans of    *)
(* the client.                                                               *)
PlansFit ==
    \A v \in Voucher :
        /\ "buy" \in plans[v] => life[v] \in {"open", "canceled"}
        /\ "complete" \in plans[v] => life[v] \in Delivered
        /\ \A p, q \in plans[v] \ {"buy"} : p = q
        /\ "start" \in plans[v] => life[v] # None

LifeInv == LifeTypeOK /\ PlansFit /\ DeliveredShowsCode

LEMMA LifeInitInv ==
    ASSUME None \notin Lives
    PROVE  LifeInit => LifeInv
BY DEF LifeInit, LifeInv, LifeTypeOK, PlansFit, DeliveredShowsCode, Lives, Delivered

(* What a step must keep of one voucher, and that it keeps the others'.       *)
Fits(v) ==
    /\ "buy" \in plans[v] => life[v] \in {"open", "canceled"}
    /\ "complete" \in plans[v] => life[v] \in Delivered
    /\ \A p, q \in plans[v] \ {"buy"} : p = q
    /\ "start" \in plans[v] => life[v] # None
    /\ life[v] \in Delivered => code[v] \in Order

Stays(v) ==
    life[v] \in Delivered /\ "start" \notin plans[v] =>
        /\ life'[v] \in Delivered \union {"canceled"}
        /\ code'[v] = code[v]

Untouched(v) == life'[v] = life[v] /\ code'[v] = code[v] /\ plans'[v] = plans[v]

LEMMA OthersUntouched ==
    ASSUME LifeInv, LifeTypeOK', NEW u \in Voucher, Fits(u)', Stays(u),
           \A v \in Voucher \ {u} : Untouched(v)
    PROVE  LifeInv' /\ \A v \in Voucher : Stays(v)
<1>1. ASSUME NEW v \in Voucher PROVE Fits(v)' /\ Stays(v)
  <2>1. CASE v = u
    BY <2>1
  <2>2. CASE v # u
    BY <2>2 DEF Untouched, Fits, Stays, LifeInv, PlansFit, DeliveredShowsCode, Delivered
  <2> QED BY <2>1, <2>2
<1>2. PlansFit' /\ DeliveredShowsCode'
  BY <1>1 DEF Fits, PlansFit, DeliveredShowsCode, Delivered
<1> QED BY <1>1, <1>2 DEF LifeInv

LEMMA RedeemKeeps ==
    ASSUME LifeInv, None \notin Lives, NEW u \in Voucher, Redeem(u)
    PROVE  LifeInv' /\ \A v \in Voucher : Stays(v)
<1> USE DEF LifeInv, LifeTypeOK, Redeem, Become
<1>1. LifeTypeOK'
  BY DEF Lives, Plan
<1>2. \A v \in Voucher \ {u} : Untouched(v)
  BY DEF Untouched
<1>3. Fits(u)' /\ Stays(u)
  BY DEF Fits, Stays, PlansFit, DeliveredShowsCode, Lives, Delivered, Plan
<1> QED BY <1>1, <1>2, <1>3, OthersUntouched

LEMMA DeliverKeeps ==
    ASSUME LifeInv, None \notin Lives, NEW u \in Voucher, Deliver(u)
    PROVE  LifeInv' /\ \A v \in Voucher : Stays(v)
<1> USE DEF LifeInv, LifeTypeOK, Deliver, Become
<1>1. LifeTypeOK'
  BY DEF Lives, Plan
<1>2. \A v \in Voucher \ {u} : Untouched(v)
  BY DEF Untouched
<1>3. Fits(u)' /\ Stays(u)
  BY DEF Fits, Stays, PlansFit, DeliveredShowsCode, Lives, Delivered, Plan
<1> QED BY <1>1, <1>2, <1>3, OthersUntouched

LEMMA FailKeeps ==
    ASSUME LifeInv, None \notin Lives, NEW u \in Voucher, Fail(u)
    PROVE  LifeInv' /\ \A v \in Voucher : Stays(v)
<1> USE DEF LifeInv, LifeTypeOK, Fail, Become
<1>1. LifeTypeOK'
  BY DEF Lives, Plan
<1>2. \A v \in Voucher \ {u} : Untouched(v)
  BY DEF Untouched
<1>3. Fits(u)' /\ Stays(u)
  BY DEF Fits, Stays, PlansFit, DeliveredShowsCode, Lives, Delivered, Plan
<1> QED BY <1>1, <1>2, <1>3, OthersUntouched

LEMMA FinishKeeps ==
    ASSUME LifeInv, None \notin Lives, NEW u \in Voucher, Finish(u)
    PROVE  LifeInv' /\ \A v \in Voucher : Stays(v)
<1> USE DEF LifeInv, LifeTypeOK, Finish, Become
<1>1. LifeTypeOK'
  BY DEF Lives, Plan
<1>2. \A v \in Voucher \ {u} : Untouched(v)
  BY DEF Untouched
<1>3. Fits(u)' /\ Stays(u)
  BY DEF Fits, Stays, PlansFit, DeliveredShowsCode, Lives, Delivered, Plan
<1> QED BY <1>1, <1>2, <1>3, OthersUntouched

LEMMA DropKeeps ==
    ASSUME LifeInv, None \notin Lives, NEW u \in Voucher,
           NEW plan \in plans[u], Drop(u, plan)
    PROVE  LifeInv' /\ \A v \in Voucher : Stays(v)
<1> USE DEF LifeInv, LifeTypeOK, Drop
<1>1. LifeTypeOK'
  BY DEF Lives, Plan
<1>2. \A v \in Voucher \ {u} : Untouched(v)
  BY DEF Untouched
<1>3. Fits(u)' /\ Stays(u)
  BY DEF Fits, Stays, PlansFit, DeliveredShowsCode, Lives, Delivered, Plan
<1> QED BY <1>1, <1>2, <1>3, OthersUntouched

LEMMA FormKeeps ==
    ASSUME LifeInv, None \notin Lives, NEW u \in Voucher,
           NEW plan \in Plan \ plans[u], Form(u, plan)
    PROVE  LifeInv' /\ \A v \in Voucher : Stays(v)
<1> USE DEF LifeInv, LifeTypeOK, Form, Allowed
<1>1. LifeTypeOK'
  BY DEF Lives, Plan
<1>2. \A v \in Voucher \ {u} : Untouched(v)
  BY DEF Untouched
<1>3. Fits(u)' /\ Stays(u)
  BY DEF Fits, Stays, PlansFit, DeliveredShowsCode, Lives, Delivered, Plan
<1> QED BY <1>1, <1>2, <1>3, OthersUntouched

LEMMA TakeEffectKeeps ==
    ASSUME LifeInv, None \notin Lives, NEW u \in Voucher,
           NEW plan \in plans[u], TakeEffect(u, plan)
    PROVE  LifeInv' /\ \A v \in Voucher : Stays(v)
<1> USE DEF LifeInv, LifeTypeOK, TakeEffect, Become, Allowed, Outcome
<1>1. LifeTypeOK'
  BY DEF Lives, Plan
<1>2. \A v \in Voucher \ {u} : Untouched(v)
  BY DEF Untouched
<1>3. Fits(u)' /\ Stays(u)
  BY DEF Fits, Stays, PlansFit, DeliveredShowsCode, Lives, Delivered, Plan
<1> QED BY <1>1, <1>2, <1>3, OthersUntouched

-----------------------------------------------------------------------------
LEMMA NextKeeps ==
    ASSUME LifeInv, None \notin Lives, [LifeNext]_tvars
    PROVE  LifeInv' /\ \A v \in Voucher : Stays(v)
<1>1. CASE UNCHANGED tvars
  BY <1>1 DEF tvars, LifeInv, LifeTypeOK, PlansFit, DeliveredShowsCode, Stays, Delivered
<1>2. CASE LifeNext
  <2>1. PICK u \in Voucher :
           \/ Redeem(u) \/ Deliver(u) \/ Fail(u) \/ Finish(u)
           \/ \E plan \in plans[u] : Drop(u, plan) \/ TakeEffect(u, plan)
           \/ \E plan \in Plan \ plans[u] : Form(u, plan)
    BY <1>2 DEF LifeNext
  <2>2. CASE Redeem(u)
    BY <2>2, RedeemKeeps
  <2>3. CASE Deliver(u)
    BY <2>3, DeliverKeeps
  <2>4. CASE Fail(u)
    BY <2>4, FailKeeps
  <2>5. CASE Finish(u)
    BY <2>5, FinishKeeps
  <2>6. ASSUME NEW plan \in plans[u], Drop(u, plan)
        PROVE  LifeInv' /\ \A v \in Voucher : Stays(v)
    BY <2>6, DropKeeps
  <2>7. ASSUME NEW plan \in plans[u], TakeEffect(u, plan)
        PROVE  LifeInv' /\ \A v \in Voucher : Stays(v)
    BY <2>7, TakeEffectKeeps
  <2>8. ASSUME NEW plan \in Plan \ plans[u], Form(u, plan)
        PROVE  LifeInv' /\ \A v \in Voucher : Stays(v)
    BY <2>8, FormKeeps
  <2> QED BY <2>1, <2>2, <2>3, <2>4, <2>5, <2>6, <2>7, <2>8
<1> QED BY <1>1, <1>2

THEOREM LifeInvariant == ASSUME None \notin Lives PROVE LifeSpec => []LifeInv
<1>1. LifeInit => LifeInv
  BY LifeInitInv
<1>2. LifeInv /\ [LifeNext]_tvars => LifeInv'
  BY NextKeeps
<1> QED BY <1>1, <1>2, PTL DEF LifeSpec, tvars

(* A delivered or completed task always shows its code (routes_redeem.py,    *)
(* complete; worker.py, the delivery).                                       *)
THEOREM DeliveredHasItsCode ==
    ASSUME None \notin Lives PROVE LifeSpec => []DeliveredShowsCode
<1>1. LifeInv => DeliveredShowsCode
  BY DEF LifeInv
<1> QED BY <1>1, LifeInvariant, PTL

(* Whatever a late purchase, completion or cleanup writes, a delivered code  *)
(* stays, unless the client cancels or had a new start under way.            *)
THEOREM DeliveredCodeStays ==
    ASSUME None \notin Lives PROVE LifeSpec => DeliveredStays
<1> DEFINE Kept == \A v \in Voucher : Stays(v)
<1>1. LifeInv /\ [LifeNext]_tvars => [Kept]_tvars
  BY NextKeeps
<1>2. Kept <=> \A v \in Voucher :
         life[v] \in {"delivered", "done"} /\ "start" \notin plans[v] =>
           /\ life'[v] \in {"delivered", "done", "canceled"}
           /\ code'[v] = code[v]
  BY DEF Stays, Delivered
<1> HIDE DEF Kept
<1> QED BY <1>1, <1>2, LifeInvariant, PTL DEF LifeSpec, DeliveredStays, tvars
=============================================================================
