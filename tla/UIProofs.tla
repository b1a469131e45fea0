------------------------------ MODULE UIProofs ------------------------------
(***************************************************************************)
(* Proofs about RedeemUI: its invariants, and when it falls silent, for    *)
(* any number of vouchers and of requests in flight.                       *)
(***************************************************************************)
EXTENDS RedeemUI, TLAPS

(* A task that the page, or a request for it, knows exists; a task is never  *)
(* deleted. Hence a status is there when it is answered.                     *)
Known(r) == r.kind # "start" \/ r.answer \notin {"sent", "refused"}

CallOK(r, st) ==
    /\ Known(r) => st[r.task] # None
    /\ r.kind = "poll" => r.answer # "refused"

CallsOK == \A c \in Call : calls[c] # None => CallOK(calls[c], status)
PageOK == page.currentTaskId # None => status[page.currentTaskId] # None

UIInv == UITypeOK /\ NoTimerLeak /\ FormUsable /\ CallsOK /\ PageOK

-----------------------------------------------------------------------------
(* The functions of the script.                                              *)
Sound(p) == p \in Page /\ p.timers = IF p.pollTimer THEN 1 ELSE 0

Timed(p, n, b) == [p EXCEPT !.timers = n, !.pollTimer = b]

LEMMA TimerType ==
  ASSUME NEW p \in Page, NEW n \in Nat, NEW b \in BOOLEAN
  PROVE  /\ Timed(p, n, b) \in Page
         /\ Timed(p, n, b).timers = n /\ Timed(p, n, b).pollTimer = b
         /\ Timed(p, n, b).currentTaskId = p.currentTaskId
         /\ Timed(p, n, b).card = p.card /\ Timed(p, n, b).disabled = p.disabled
         /\ Timed(p, n, b).shown = p.shown
<1> DEFINE Card == {"input", "status"}
           Status == Stage \union {None}
<1> HIDE DEF Card, Status
<1>1. Page = [currentTaskId : Voucher \union {None}, currentVoucher : Voucher \union {None},
              card : Card, shown : Status, disabled : BOOLEAN, pollTimer : BOOLEAN, timers : Nat]
  BY DEF Page, Card, Status
<1>2. QED  BY <1>1 DEF Timed

LEMMA StopType ==
  ASSUME NEW p \in Page, Sound(p)
  PROVE  /\ Sound(StopPolling(p)) /\ StopPolling(p).timers = 0
         /\ StopPolling(p).currentTaskId = p.currentTaskId
         /\ StopPolling(p).card = p.card /\ StopPolling(p).disabled = p.disabled
         /\ StopPolling(p).shown = p.shown
<1>1. CASE p.pollTimer
  <2>1. p.timers - 1 = 0
    BY <1>1 DEF Sound
  <2>2. StopPolling(p) = Timed(p, 0, FALSE)
    BY <1>1, <2>1 DEF StopPolling, Timed
  <2>3. PICK q : q = Timed(p, 0, FALSE)
    OBVIOUS
  <2>4. /\ q \in Page /\ q.timers = 0 /\ q.pollTimer = FALSE
        /\ q.currentTaskId = p.currentTaskId /\ q.card = p.card
        /\ q.disabled = p.disabled /\ q.shown = p.shown
    <3>1. p \in Page /\ 0 \in Nat /\ FALSE \in BOOLEAN
      BY DEF Sound
    <3> QED BY <2>3, <3>1, TimerType
  <2>5. Sound(q)
    BY <2>4 DEF Sound
  <2>6. QED  BY <2>2, <2>3, <2>4, <2>5
<1>2. CASE ~p.pollTimer
  BY <1>2 DEF StopPolling, Sound
<1>3. QED  BY <1>1, <1>2

LEMMA StartType ==
  ASSUME NEW p \in Page, Sound(p)
  PROVE  /\ Sound(StartPolling(p)) /\ StartPolling(p).pollTimer
         /\ StartPolling(p).currentTaskId = p.currentTaskId
         /\ StartPolling(p).card = p.card /\ StartPolling(p).disabled = p.disabled
         /\ StartPolling(p).shown = p.shown
<1>1. PICK q \in Page : q = StopPolling(p) /\ Sound(q) /\ q.timers = 0
  BY StopType DEF Sound
<1>2. StartPolling(p) = Timed(q, 1, TRUE)
  BY <1>1 DEF StartPolling, Timed
<1>3. /\ q.currentTaskId = p.currentTaskId /\ q.card = p.card /\ q.disabled = p.disabled
      /\ q.shown = p.shown
  BY <1>1, StopType
<1>4. PICK t : t = Timed(q, 1, TRUE)
  OBVIOUS
<1>5. /\ t \in Page /\ t.timers = 1 /\ t.pollTimer = TRUE
      /\ t.currentTaskId = q.currentTaskId /\ t.card = q.card
      /\ t.disabled = q.disabled /\ t.shown = q.shown
  <2>1. PICK n \in Nat, b \in BOOLEAN : n = 1 /\ b = TRUE
    OBVIOUS
  <2>2. t = Timed(q, n, b)
    BY <1>4, <2>1
  <2>3. /\ t \in Page /\ t.timers = n /\ t.pollTimer = b
        /\ t.currentTaskId = q.currentTaskId /\ t.card = q.card
        /\ t.disabled = q.disabled /\ t.shown = q.shown
    BY <2>2, TimerType
  <2>4. QED  BY <2>1, <2>3
<1>6. Sound(t)
  BY <1>5 DEF Sound
<1>7. StartPolling(p) = t
  BY <1>2, <1>4
<1>8. Sound(StartPolling(p))
  BY <1>6, <1>7
<1>9. QED  BY <1>3, <1>5, <1>7, <1>8

LEMMA UpdateType ==
  ASSUME NEW p \in Page, Sound(p), NEW s \in Stage
  PROVE  /\ Sound(UpdateUI(p, s)) /\ UpdateUI(p, s).shown = s
         /\ UpdateUI(p, s).currentTaskId = p.currentTaskId
         /\ UpdateUI(p, s).card = p.card /\ UpdateUI(p, s).disabled = p.disabled
         /\ s \notin Final => UpdateUI(p, s).pollTimer = p.pollTimer
<1>1. CASE s \in Final
  <2>1. PICK q \in Page : q = StopPolling(p) /\ Sound(q)
    BY StopType DEF Sound
  <2>2. UpdateUI(p, s) = [q EXCEPT !.shown = s]
    BY <1>1, <2>1 DEF UpdateUI
  <2>3. q.currentTaskId = p.currentTaskId /\ q.card = p.card /\ q.disabled = p.disabled
    BY <2>1, StopType
  <2>4. PICK t : t = [q EXCEPT !.shown = s]
    OBVIOUS
  <2>5. /\ t \in Page /\ t.timers = q.timers /\ t.pollTimer = q.pollTimer /\ t.shown = s
        /\ t.currentTaskId = q.currentTaskId /\ t.card = q.card /\ t.disabled = q.disabled
    BY <2>4 DEF Page
  <2>6. Sound(t)
    BY <2>1, <2>5 DEF Sound
  <2>7. QED  BY <1>1, <2>2, <2>3, <2>4, <2>5, <2>6
<1>2. CASE s \notin Final
  BY <1>2 DEF UpdateUI, Sound, Page
<1>3. QED  BY <1>1, <1>2

LEMMA ResetType ==
  ASSUME NEW p \in Page, Sound(p)
  PROVE  /\ Sound(ResetUI(p)) /\ ResetUI(p).card = "input" /\ ~ResetUI(p).disabled
         /\ ResetUI(p).currentTaskId = None
<1>1. PICK q \in Page : q = StopPolling(p) /\ Sound(q)
  BY StopType DEF Sound
<1>2. ResetUI(p) = [q EXCEPT !.currentTaskId = None, !.currentVoucher = None,
                 !.card = "input", !.shown = None, !.disabled = FALSE]
  BY <1>1 DEF ResetUI
<1>3. QED  BY <1>1, <1>2 DEF Sound, Page

Shown(p) == p.card = "status" => p.currentTaskId # None /\ p.shown # None

(* What an answer may change.                                                *)
LEMMA AnsweredType ==
  ASSUME NEW p \in Page, Sound(p), Shown(p), NEW r \in CallState,
         r.answer \in Stage \union {"refused"}, r.kind = "poll" => r.answer # "refused",
         NEW q, q = Answered(p, r)
  PROVE  /\ Sound(q) /\ Shown(q)
         /\ \/ q.currentTaskId = p.currentTaskId
            \/ q.currentTaskId = r.task /\ Known(r)
         /\ q.card = "input" /\ q.disabled =>
              p.card = "input" /\ p.disabled /\ r.kind # "start"
<1>0. None \notin Voucher /\ None \notin Stage /\ r.task \in Voucher
      /\ r.kind \in {"start", "poll"} \union Action /\ r.answer \in Stage \union {"refused"}
  BY UIAssumption, NullAssumption DEF CallState
<1>1. CASE r.kind = "start" /\ r.answer = "refused"
  <2>1. q = [p EXCEPT !.disabled = FALSE]
    BY <1>1 DEF Answered, Action
  <2>2. /\ q \in Page /\ q.timers = p.timers /\ q.pollTimer = p.pollTimer
        /\ q.currentTaskId = p.currentTaskId /\ q.card = p.card
        /\ q.disabled = FALSE /\ q.shown = p.shown
    BY <2>1 DEF Page
  <2>3. QED  BY <2>2 DEF Sound, Shown
<1>2. CASE r.kind = "start" /\ r.answer \in Stage
  <2>1. PICK t \in Page : t = [p EXCEPT !.currentTaskId = r.task, !.card = "status"]
    BY <1>0 DEF Page
  <2>2. Sound(t) /\ t.currentTaskId = r.task /\ t.card = "status"
    BY <2>1 DEF Sound, Page
  <2>3. PICK u : u = UpdateUI(t, r.answer)
    OBVIOUS
  <2>4. Sound(u) /\ u.currentTaskId = r.task /\ u.card = "status" /\ u.shown = r.answer
    BY <1>2, <2>2, <2>3, UpdateType
  <2>5. q = StartPolling(u)
    BY <1>2, <1>0, <2>1, <2>3 DEF Answered, Action, Stage
  <2>6. Sound(q) /\ q.currentTaskId = r.task /\ q.card = "status" /\ q.shown = r.answer
    BY <2>4, <2>5, StartType DEF Sound
  <2>7. QED  BY <1>0, <1>2, <2>6 DEF Shown, Known, Stage
<1>3. CASE r.kind # "start" /\ r.answer = "refused"
  <2>1. q = p
    BY <1>0, <1>3 DEF Answered, Action
  <2>2. QED  BY <1>3, <2>1
<1>4. CASE r.kind # "start" /\ r.answer \in Stage
  <2>1. PICK u : u = UpdateUI(p, r.answer)
    OBVIOUS
  <2>2. /\ Sound(u) /\ u.currentTaskId = p.currentTaskId /\ u.card = p.card
        /\ u.shown = r.answer /\ u.disabled = p.disabled
    BY <1>4, <2>1, UpdateType
  <2>3. q = u \/ q = StartPolling(u)
    BY <1>0, <1>4, <2>1 DEF Answered, Action, Stage
  <2>4. /\ Sound(q) /\ q.currentTaskId = p.currentTaskId /\ q.card = p.card
        /\ q.shown = r.answer /\ q.disabled = p.disabled
    BY <2>2, <2>3, StartType DEF Sound
  <2>5. QED  BY <1>0, <1>4, <2>4 DEF Shown
<1>5. QED  BY <1>0, <1>1, <1>2, <1>3, <1>4

-----------------------------------------------------------------------------
(* The actions. A call is sent, changed or removed while no task is deleted. *)
Grows == status' \in [Voucher -> Stage \union {None}]
           /\ \A v \in Voucher : status[v] # None => status'[v] # None

LEMMA CallChanges ==
  ASSUME UIInv, Grows, NEW c \in Call, NEW r,
         r # None => r \in CallState /\ CallOK(r, status'),
         calls' = [calls EXCEPT ![c] = r]
  PROVE  /\ calls' \in [Call -> CallState \union {None}] /\ CallsOK'
         /\ calls'[c] = r /\ \A d \in Call \ {c} : calls'[d] = calls[d]
<1>1. calls \in [Call -> CallState \union {None}] /\ CallsOK
  BY DEF UIInv, UITypeOK
<1>2. calls'[c] = r /\ \A d \in Call \ {c} : calls'[d] = calls[d]
  BY <1>1
<1>3. calls' \in [Call -> CallState \union {None}]
  BY <1>1
<1>4. ASSUME NEW d \in Call, calls'[d] # None
      PROVE  CallOK(calls'[d], status')
  <2>1. CASE d = c
    BY <1>2, <1>4, <2>1
  <2>2. CASE d # c
    <3>1. PICK t \in CallState : t = calls[d] /\ calls'[d] = t
      BY <1>1, <1>2, <1>4, <2>2
    <3>2. CallOK(t, status) /\ t.task \in Voucher
      BY <1>1, <1>2, <1>4, <2>2, <3>1 DEF CallsOK, CallState
    <3>3. CallOK(t, status')
      BY <3>2 DEF CallOK, Grows
    <3>4. QED  BY <3>1, <3>3
  <2>3. QED  BY <2>1, <2>2
<1>5. QED  BY <1>2, <1>3, <1>4 DEF CallsOK

LEMMA Sending ==
  ASSUME UIInv, UNCHANGED status, NEW kind \in {"start", "poll"} \union Action,
         NEW task \in Voucher, NEW code \in Voucher \union {None},
         kind # "start" => status[task] # None, Send(kind, task, code)
  PROVE  /\ calls' \in [Call -> CallState \union {None}] /\ CallsOK'
         /\ \A d \in Call : calls[d] # None => calls'[d] = calls[d]
         /\ \E d \in Call : calls'[d] # None /\ calls'[d].kind = kind
<1> DEFINE r == [kind |-> kind, task |-> task, code |-> code, answer |-> "sent"]
<1>1. PICK c \in Call : calls[c] = None /\ calls' = [calls EXCEPT ![c] = r]
  BY DEF Send
<1>2. r \in CallState /\ CallOK(r, status')
  BY DEF CallState, CallOK, Known
<1>3. Grows
  BY DEF Grows, UIInv, UITypeOK
<1>4. r # None
  BY <1>2, NullAssumption
<1>5. PICK t : t = r
  OBVIOUS
<1>6. /\ calls' \in [Call -> CallState \union {None}] /\ CallsOK'
      /\ calls'[c] = t /\ \A d \in Call \ {c} : calls'[d] = calls[d]
  BY <1>1, <1>2, <1>3, <1>5, CallChanges
<1>7. t # None /\ t.kind = kind
  BY <1>4, <1>5
<1>8. QED  BY <1>1, <1>6, <1>7

(* What is left to show of a step that changes the page and the calls.       *)
LEMMA Assemble ==
  ASSUME UIInv, Grows, others' \in 0 .. Changes, Sound(page'), Shown(page'),
         calls' \in [Call -> CallState \union {None}], CallsOK', FormUsable', PageOK'
  PROVE  UIInv'
BY DEF UIInv, UITypeOK, Sound, Shown, NoTimerLeak, Grows

LEMMA Before ==
  ASSUME UIInv
  PROVE  /\ Sound(page) /\ Shown(page) /\ page \in Page
         /\ others \in 0 .. Changes /\ (UNCHANGED status => Grows)
         /\ calls \in [Call -> CallState \union {None}]
         /\ \A c \in Call : calls[c] # None => calls[c] \in CallState /\ CallOK(calls[c], status)
         /\ PageOK /\ FormUsable
BY DEF UIInv, UITypeOK, Sound, Shown, NoTimerLeak, Grows, CallsOK

LEMMA StartRedeemInv == ASSUME UIInv, StartRedeem PROVE UIInv'
<1>1. PICK v \in Voucher : /\ page' = [page EXCEPT !.currentVoucher = v, !.disabled = TRUE]
                           /\ Send("start", v, v) /\ page.card = "input"
                           /\ UNCHANGED <<status, others>>
  BY DEF StartRedeem
<1>2. /\ calls' \in [Call -> CallState \union {None}] /\ CallsOK'
      /\ \E c \in Call : calls'[c] # None /\ calls'[c].kind = "start"
  <2>1. PICK k \in {"start", "poll"} \union Action : k = "start"
    OBVIOUS
  <2>2. Send(k, v, v)
    BY <1>1, <2>1
  <2>3. QED  BY <1>1, <2>1, <2>2, Sending
<1>3. Sound(page') /\ Shown(page') /\ page'.currentTaskId = page.currentTaskId
  BY <1>1, Before DEF Sound, Shown, Page
<1>4. FormUsable' /\ PageOK'
  BY <1>1, <1>2, <1>3, Before DEF FormUsable, PageOK
<1>5. QED  BY <1>1, <1>2, <1>3, <1>4, Before, Assemble

(* Actions of the page that leave it as it is, but for a call.               *)
LEMMA SameForm ==
  ASSUME UIInv, page' = page,
         \A c \in Call : calls[c] # None => calls'[c] # None /\ calls'[c].kind = calls[c].kind
  PROVE  FormUsable'
BY Before DEF FormUsable

LEMMA AskInv ==
  ASSUME UIInv, UNCHANGED <<status, others, page>>, page.currentTaskId # None,
         NEW kind \in {"poll"} \union Action, NEW code \in Voucher \union {None},
         Send(kind, page.currentTaskId, code)
  PROVE  UIInv'
<1>1. PICK v \in Voucher : v = page.currentTaskId /\ status[v] # None
  BY Before DEF Page, PageOK
<1>2. kind \in {"start", "poll"} \union Action /\ kind # "start" /\ Send(kind, v, code)
  BY <1>1 DEF Action
<1>3. /\ calls' \in [Call -> CallState \union {None}] /\ CallsOK'
      /\ \A d \in Call : calls[d] # None => calls'[d] = calls[d]
  BY <1>1, <1>2, Sending
<1>4. Sound(page') /\ Shown(page') /\ PageOK' /\ Grows /\ others' \in 0 .. Changes
  BY Before DEF PageOK
<1>5. FormUsable'
  BY <1>3, SameForm
<1>6. QED  BY <1>3, <1>4, <1>5, Assemble

LEMMA DoActionInv == ASSUME UIInv, DoAction PROVE UIInv'
<1>1. PICK kind \in Buttons(page.shown) : Send(kind, page.currentTaskId, page.currentVoucher)
  BY DEF DoAction
<1>2. page.shown \in Stage /\ page.currentVoucher \in Voucher \union {None}
  BY Before DEF DoAction, Shown, Page
<1>3. Buttons(page.shown) \subseteq Action
  BY <1>2 DEF Buttons, Action, Stage
<1>4. QED  BY <1>1, <1>2, <1>3, AskInv DEF DoAction

LEMMA TickInv == ASSUME UIInv, Tick PROVE UIInv'
<1>1. PICK kind \in {"poll"} \union Action : kind = "poll"
  OBVIOUS
<1>2. Send(kind, page.currentTaskId, None) /\ None \in Voucher \union {None}
  BY <1>1 DEF Tick
<1>3. QED  BY <1>2, AskInv DEF Tick

LEMMA AnotherInv == ASSUME UIInv, Another PROVE UIInv'
<1>1. Sound(page') /\ page'.card = "input" /\ ~page'.disabled /\ page'.currentTaskId = None
  BY Before, ResetType DEF Another
<1>2. /\ Grows /\ others' \in 0 .. Changes /\ CallsOK'
      /\ calls' \in [Call -> CallState \union {None}]
  BY Before DEF Another, CallsOK
<1>3. Shown(page') /\ FormUsable' /\ PageOK'
  BY <1>1 DEF Shown, FormUsable, PageOK
<1>4. QED  BY <1>1, <1>2, <1>3, Assemble

LEMMA DeliverInv == ASSUME UIInv, NEW c \in Call, Deliver(c) PROVE UIInv'
<1>1. PICK r \in CallState : r = calls[c] /\ CallOK(r, status)
                             /\ r.answer \in Stage \union {"refused"}
  BY Before DEF Deliver
<1>2. page' = Answered(page, r) /\ (r.kind = "poll" => r.answer # "refused")
  BY <1>1 DEF Deliver, CallOK
<1>3. /\ Sound(page') /\ Shown(page')
      /\ \/ page'.currentTaskId = page.currentTaskId
         \/ page'.currentTaskId = r.task /\ Known(r)
      /\ page'.card = "input" /\ page'.disabled =>
           page.card = "input" /\ page.disabled /\ r.kind # "start"
  BY <1>1, <1>2, Before, AnsweredType
<1>4. /\ calls' \in [Call -> CallState \union {None}] /\ CallsOK' /\ Grows
      /\ others' \in 0 .. Changes
      /\ calls'[c] = None /\ \A d \in Call \ {c} : calls'[d] = calls[d]
  BY Before, CallChanges DEF Deliver
<1>5. PageOK'
  BY <1>1, <1>3, Before DEF PageOK, CallOK, Deliver
<1>6. FormUsable'
  BY <1>1, <1>3, <1>4, Before DEF FormUsable
<1>7. QED  BY <1>3, <1>4, <1>5, <1>6, Assemble

LEMMA FailsInv == ASSUME UIInv, NEW c \in Call, Fails(c) PROVE UIInv'
<1>1. /\ calls' \in [Call -> CallState \union {None}] /\ CallsOK' /\ Grows
      /\ others' \in 0 .. Changes
      /\ calls'[c] = None /\ \A d \in Call \ {c} : calls'[d] = calls[d]
  BY Before, CallChanges DEF Fails
<1>2. CASE calls[c].kind = "start"
  <2>1. page' = [page EXCEPT !.disabled = FALSE]
    BY <1>2 DEF Fails
  <2>2. /\ page' \in Page /\ page'.timers = page.timers /\ page'.pollTimer = page.pollTimer
        /\ page'.currentTaskId = page.currentTaskId /\ page'.card = page.card
        /\ page'.disabled = FALSE /\ page'.shown = page.shown
    BY <2>1, Before DEF Page
  <2>3. Sound(page') /\ Shown(page') /\ PageOK' /\ FormUsable'
    BY <2>2, Before DEF Sound, Shown, PageOK, FormUsable, Fails
  <2>4. QED  BY <1>1, <2>3, Assemble
<1>3. CASE calls[c].kind # "start"
  <2>1. page' = page /\ status' = status
    BY <1>3 DEF Fails
  <2>2. Sound(page') /\ Shown(page') /\ PageOK'
    BY <2>1, Before DEF PageOK
  <2>3. FormUsable'
    BY <1>1, <1>3, <2>1, Before DEF FormUsable
  <2>4. QED  BY <1>1, <2>2, <2>3, Assemble
<1>4. QED  BY <1>2, <1>3

(* The server answers a call, which keeps its kind and its task.             *)
LEMMA AnswerInv ==
  ASSUME UIInv, Grows, UNCHANGED <<others, page>>, NEW c \in Call, calls[c] # None,
         NEW a \in Stage \union {"written", "refused"},
         calls' = [calls EXCEPT ![c].answer = a],
         a # "refused" => status'[calls[c].task] # None,
         a = "refused" => calls[c].kind # "poll"
  PROVE  UIInv'
<1>1. PICK r \in CallState : r = calls[c] /\ CallOK(r, status)
  BY Before
<1>2. PICK t \in CallState : t = [r EXCEPT !.answer = a]
  BY DEF CallState
<1>3. t.kind = r.kind /\ t.task = r.task /\ t.code = r.code /\ t.answer = a /\ r.task \in Voucher
  BY <1>2 DEF CallState
<1>4. CallOK(t, status')
  BY <1>1, <1>3 DEF CallOK, Known, Grows, Action
<1>5. calls' = [calls EXCEPT ![c] = t] /\ t # None
  BY <1>1, <1>2, Before, NullAssumption
<1>6. /\ calls' \in [Call -> CallState \union {None}] /\ CallsOK'
      /\ calls'[c] = t /\ \A d \in Call \ {c} : calls'[d] = calls[d]
  BY <1>4, <1>5, CallChanges
<1>7. FormUsable'
  BY <1>1, <1>3, <1>5, <1>6, SameForm
<1>8. Sound(page') /\ Shown(page') /\ PageOK' /\ others' \in 0 .. Changes
  BY Before DEF PageOK, Grows, Page
<1>9. QED  BY <1>6, <1>7, <1>8, Assemble

LEMMA ServeInv == ASSUME UIInv, NEW c \in Call, Serve(c) PROVE UIInv'
<1>1. PICK r \in CallState : r = calls[c] /\ CallOK(r, status) /\ r.answer = "sent"
                             /\ r # None /\ r.task \in Voucher
  BY Before DEF Serve, CallState
<1>2. r.kind \in {"start", "poll", "cancel", "next", "complete"}
  BY DEF CallState, Action
<1>3. CASE Refuses(r) /\ calls' = [calls EXCEPT ![c].answer = "refused"] /\ UNCHANGED status
  <2>1. r.kind # "poll"
    BY <1>3 DEF Refuses
  <2>2. PICK a \in Stage \union {"written", "refused"} : a = "refused"
    OBVIOUS
  <2>3. QED  BY <1>1, <1>3, <2>1, <2>2, Before, AnswerInv DEF Serve
<1>4. ASSUME ~Refuses(r)
      PROVE  Becomes(r) \in Stage
  <2>1. CASE r.kind = "poll"
    <3>1. status[r.task] \in Stage
      BY <1>1, <2>1, Before DEF CallOK, Known, UIInv, UITypeOK
    <3>2. QED  BY <2>1, <3>1 DEF Becomes
  <2>2. CASE r.kind # "poll"
    BY <1>2, <2>2 DEF Becomes, Stage
  <2>3. QED  BY <2>1, <2>2
<1>5. CASE /\ ~Refuses(r) /\ Becomes(r) = status[r.task]
           /\ calls' = [calls EXCEPT ![c].answer = status[r.task]] /\ UNCHANGED status
  <2>1. PICK a \in Stage : a = status[r.task]
    BY <1>4, <1>5
  <2>2. a # "refused" /\ a # None
    BY NullAssumption DEF Stage
  <2>3. QED  BY <1>1, <1>4, <1>5, <2>1, <2>2, Before, AnswerInv DEF Serve
<1>6. CASE /\ ~Refuses(r) /\ calls' = [calls EXCEPT ![c].answer = "written"]
           /\ status' = [status EXCEPT ![r.task] = Becomes(r)]
  <2>1. PICK b \in Stage : b = Becomes(r) /\ b # None
    BY <1>4, <1>6, NullAssumption
  <2>2. Grows /\ status'[r.task] # None
    BY <1>1, <1>6, <2>1 DEF Grows, UIInv, UITypeOK
  <2>3. PICK a \in Stage \union {"written", "refused"} : a = "written" /\ a # "refused"
    OBVIOUS
  <2>4. QED  BY <1>1, <1>4, <1>6, <2>2, <2>3, AnswerInv DEF Serve
<1>7. QED  BY <1>1, <1>3, <1>5, <1>6 DEF Serve

LEMMA RespondInv == ASSUME UIInv, NEW c \in Call, Respond(c) PROVE UIInv'
<1>1. PICK r \in CallState : r = calls[c] /\ CallOK(r, status) /\ r.answer = "written"
                             /\ r # None /\ r.task \in Voucher
  BY Before DEF Respond, CallState
<1>2. PICK a \in Stage : a = status[r.task] /\ a # None /\ a # "refused"
  BY <1>1, NullAssumption DEF CallOK, Known, UIInv, UITypeOK, Stage
<1>3. calls' = [calls EXCEPT ![c].answer = a] /\ UNCHANGED status
  BY <1>1, <1>2 DEF Respond
<1>4. QED  BY <1>1, <1>2, <1>3, Before, AnswerInv DEF Respond

LEMMA OthersInv == ASSUME UIInv, Others PROVE UIInv'
<1>1. PICK v \in Voucher, s \in Stage : s # None /\ status' = [status EXCEPT ![v] = s]
  BY NullAssumption DEF Others
<1>2. Grows
  BY <1>1 DEF Grows, UIInv, UITypeOK
<1>3. others' \in 0 .. Changes
  BY UIAssumption DEF Others, UIInv, UITypeOK
<1>4. /\ calls' \in [Call -> CallState \union {None}] /\ FormUsable'
      /\ Sound(page') /\ Shown(page')
  BY Before DEF Others, FormUsable
<1>5. PageOK'
  BY <1>2, Before DEF Others, PageOK, Grows, Page
<1>6. CallsOK'
  <2>1. ASSUME NEW d \in Call, calls[d] # None
        PROVE  CallOK(calls[d], status')
    BY <1>2, <2>1, Before DEF CallOK, Grows, CallState
  <2>2. QED  BY <2>1 DEF CallsOK, Others
<1>7. QED  BY <1>2, <1>3, <1>4, <1>5, <1>6, Assemble

-----------------------------------------------------------------------------
LEMMA UIInitInv == UIInit => UIInv
BY UIAssumption, NullAssumption
   DEF UIInit, UIInv, UITypeOK, NoTimerLeak, FormUsable, CallsOK, PageOK, Blank, Page

LEMMA UINextInv == UIInv /\ [UINext]_uiVars => UIInv'
<1> SUFFICES ASSUME UIInv, [UINext]_uiVars PROVE UIInv'
  OBVIOUS
<1>1. CASE StartRedeem  BY <1>1, StartRedeemInv
<1>2. CASE DoAction     BY <1>2, DoActionInv
<1>3. CASE Another      BY <1>3, AnotherInv
<1>4. CASE Tick         BY <1>4, TickInv
<1>5. ASSUME NEW c \in Call, Deliver(c) PROVE UIInv'  BY <1>5, DeliverInv
<1>6. ASSUME NEW c \in Call, Fails(c)   PROVE UIInv'  BY <1>6, FailsInv
<1>7. ASSUME NEW c \in Call, Serve(c)   PROVE UIInv'  BY <1>7, ServeInv
<1>8. ASSUME NEW c \in Call, Respond(c) PROVE UIInv'  BY <1>8, RespondInv
<1>9. CASE Others       BY <1>9, OthersInv
<1>10. CASE UNCHANGED uiVars
  BY <1>10 DEF uiVars, UIInv, UITypeOK, NoTimerLeak, FormUsable, CallsOK, PageOK
<1>11. QED
  BY <1>1, <1>2, <1>3, <1>4, <1>5, <1>6, <1>7, <1>8, <1>9, <1>10 DEF UINext

THEOREM UIInvariant == UISpec => []UIInv
BY UIInitInv, UINextInv, PTL DEF UISpec

(* The script's state has its types: a status card that is visible has a     *)
(* task (currentTaskId) and a status that updateUI has drawn buttons for.    *)
THEOREM UITypeCorrect == UISpec => []UITypeOK
<1>1. UIInv => UITypeOK
  BY DEF UIInv
<1>2. QED  BY <1>1, UIInvariant, PTL

(* startPolling and stopPolling lose no interval, in whatever order answers  *)
(* come.                                                                     *)
THEOREM NoLeak == UISpec => []NoTimerLeak
<1>1. UIInv => NoTimerLeak
  BY DEF UIInv
<1>2. QED  BY <1>1, UIInvariant, PTL

(* startRedeem enables its button again however the request ends, and so     *)
(* does resetUI.                                                             *)
THEOREM FormStaysUsable == UISpec => []FormUsable
<1>1. UIInv => FormUsable
  BY DEF UIInv
<1>2. QED  BY <1>1, UIInvariant, PTL

-----------------------------------------------------------------------------
(* Of the answers only a poll's, once polling has been stopped, leaves a     *)
(* status on the page that nothing refreshes.                                *)
LEMMA AnsweredSilent ==
  ASSUME NEW p \in Page, Sound(p), NEW r \in CallState,
         r.answer \in Stage \union {"refused"}, r.kind = "poll" => r.answer # "refused",
         NEW q, q = Answered(p, r), ~Silent(p), Silent(q)
  PROVE  r.kind = "poll" /\ r.answer \notin Final /\ p.shown \in Final /\ ~p.pollTimer
<1>0. r.kind \in {"start", "poll"} \union Action
  BY DEF CallState
<1>1. r.answer # "refused"
  <2>1. CASE r.kind = "start" /\ r.answer = "refused"
    <3>1. q = [p EXCEPT !.disabled = FALSE]
      BY <2>1 DEF Answered, Action
    <3>2. q.card = p.card /\ q.shown = p.shown /\ q.pollTimer = p.pollTimer
      BY <3>1 DEF Page
    <3> QED BY <3>2 DEF Silent
  <2>2. CASE r.kind \in Action /\ r.answer = "refused"
    <3>1. q = p
      BY <2>2 DEF Answered, Action
    <3> QED BY <3>1
  <2> QED BY <1>0, <2>1, <2>2
<1>2. r.answer \in Stage
  BY <1>1
<1>3. r.kind # "start"
  <2> SUFFICES ASSUME r.kind = "start" PROVE FALSE
    OBVIOUS
  <2>1. r.task \in Voucher
    BY DEF CallState
  <2>2. PICK t \in Page : t = [p EXCEPT !.currentTaskId = r.task, !.card = "status"]
    BY <2>1 DEF Page
  <2>3. Sound(t)
    BY <2>2 DEF Sound, Page
  <2>4. PICK u : u = UpdateUI(t, r.answer)
    OBVIOUS
  <2>5. Sound(u)
    BY <1>2, <2>3, <2>4, UpdateType
  <2>6. q = StartPolling(u)
    BY <1>1, <1>2, <2>2, <2>4 DEF Answered, Action, Stage
  <2>7. q.pollTimer
    BY <2>5, <2>6, StartType DEF Sound
  <2> QED BY <2>7 DEF Silent
<1>4. PICK u : u = UpdateUI(p, r.answer)
  OBVIOUS
<1>5. /\ Sound(u) /\ u.card = p.card /\ u.shown = r.answer
      /\ r.answer \notin Final => u.pollTimer = p.pollTimer
  BY <1>2, <1>4, UpdateType
<1>6. r.answer \notin Final /\ q = u
  <2>1. ASSUME q = StartPolling(u) PROVE FALSE
    <3>1. q.pollTimer
      BY <1>5, <2>1, StartType DEF Sound
    <3> QED BY <3>1 DEF Silent
  <2>2. q = u
    BY <1>0, <1>1, <1>3, <1>4, <2>1 DEF Answered, Action
  <2> QED BY <1>5, <2>2 DEF Silent
<1>7. p.card = "status" /\ ~p.pollTimer
  BY <1>5, <1>6 DEF Silent
<1>8. p.shown \in Final
  BY <1>7 DEF Silent
<1>9. r.kind = "poll"
  <2> SUFFICES ASSUME r.kind \in Action PROVE FALSE
    BY <1>0, <1>3
  <2>1. q = StartPolling(u)
    BY <1>1, <1>4, <1>6 DEF Answered, Action
  <2>2. q.pollTimer
    BY <1>5, <2>1, StartType DEF Sound
  <2> QED BY <2>2 DEF Silent
<1> QED BY <1>6, <1>7, <1>8, <1>9

LEMMA FallsSilent ==
  ASSUME UIInv, [UINext]_uiVars, ~Silent(page), Silent(page)'
  PROVE  \E c \in Call : /\ Deliver(c) /\ calls[c].kind = "poll"
                         /\ calls[c].answer \notin Final
                         /\ page.shown \in Final /\ ~page.pollTimer
<1>1. page' # page
  BY DEF Silent
<1>2. ~ Another
  <2> SUFFICES ASSUME Another PROVE FALSE
    OBVIOUS
  <2>1. page'.card = "input"
    BY Before, ResetType DEF Another
  <2> QED BY <2>1 DEF Silent
<1>3. ~ StartRedeem
  <2> SUFFICES ASSUME StartRedeem PROVE FALSE
    OBVIOUS
  <2>1. PICK v \in Voucher : page' = [page EXCEPT !.currentVoucher = v, !.disabled = TRUE]
    BY DEF StartRedeem
  <2>2. page'.card = page.card
    BY <2>1, Before DEF Page
  <2> QED BY <2>2 DEF Silent, StartRedeem
<1>4. \A c \in Call : ~ Fails(c)
  <2> SUFFICES ASSUME NEW c \in Call, Fails(c) PROVE FALSE
    OBVIOUS
  <2>1. page' = [page EXCEPT !.disabled = FALSE]
    BY <1>1 DEF Fails
  <2>2. page'.card = page.card /\ page'.shown = page.shown /\ page'.pollTimer = page.pollTimer
    BY <2>1, Before DEF Page
  <2> QED BY <2>2 DEF Silent
<1>5. PICK c \in Call : Deliver(c)
  BY <1>1, <1>2, <1>3, <1>4
     DEF UINext, uiVars, DoAction, Tick, Serve, Respond, Others
<1>6. PICK r \in CallState : r = calls[c] /\ CallOK(r, status)
                             /\ r.answer \in Stage \union {"refused"}
  BY <1>5, Before DEF Deliver
<1>7. PICK q : q = page' /\ Silent(q)
  BY DEF Silent
<1>8. q = Answered(page, r) /\ (r.kind = "poll" => r.answer # "refused")
  BY <1>5, <1>6, <1>7 DEF Deliver, CallOK
<1>9. r.kind = "poll" /\ r.answer \notin Final /\ page.shown \in Final /\ ~page.pollTimer
  BY <1>6, <1>7, <1>8, Before, AnsweredSilent
<1> QED BY <1>5, <1>6, <1>9

(* Every way a status that may still change comes onto the page also polls   *)
(* for its next value (startPolling after a start and after an action), but  *)
(* for the answer to a poll that comes after polling has been stopped.       *)
THEOREM SilencedLate == UISpec => OnlyLatePollSilences
<1>1. UIInv /\ [UINext]_uiVars =>
        [~Silent(page) /\ Silent(page)' =>
           \E c \in Call : /\ Deliver(c) /\ calls[c].kind = "poll"
                           /\ calls[c].answer \notin Final
                           /\ page.shown \in Final /\ ~page.pollTimer]_uiVars
  BY FallsSilent
<1>2. QED  BY <1>1, UIInvariant, PTL DEF UISpec, OnlyLatePollSilences
=============================================================================
