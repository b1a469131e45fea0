------------------------------ MODULE RedeemUI ------------------------------
(***************************************************************************)
(* The redeem page (the script in mintcode_api/app.py): a form to start,   *)
(* buttons for the current task, and a poll every two seconds. Its         *)
(* requests are answered in any order, or fail. The server's handlers are  *)
(* those of routes_redeem.py; RedeemApi has them in detail.                *)
(***************************************************************************)
EXTENDS Naturals, FiniteSets

CONSTANTS
    Voucher,    \* vouchers the user has; each has at most one task
    Call,       \* requests that may be in flight at once: a bound
    Changes,    \* how often others change a task's status: a bound
    None        \* null

ASSUME UIAssumption == None \notin Voucher /\ Changes \in Nat

VARIABLES
    status,   \* at the server, the status of each voucher's task
    others,   \* how often others have changed one
    calls,    \* what is in flight
    page      \* what the script and the document keep

uiVars == <<status, others, calls, page>>

(* "open": PENDING, PROCESSING, WAITING_SMS; "ready": CODE_READY; "done":    *)
(* DONE; "dead": CANCELED, FAILED. The page tells no more apart.             *)
Stage == {"open", "ready", "done", "dead"}
Final == {"done", "dead"}

Action == {"cancel", "next", "complete"}

(* A task has the name of its voucher; code is the voucher code sent along.  *)
CallState == [kind : {"start", "poll"} \union Action, task : Voucher, code : Voucher \union {None},
              answer : Stage \union {"sent", "written", "refused"}]

ASSUME NullAssumption == None \notin Stage /\ None \notin CallState

Page == [currentTaskId : Voucher \union {None}, currentVoucher : Voucher \union {None},
         card : {"input", "status"},    \* which of the two cards is visible
         shown : Stage \union {None},   \* the status displayed, with its buttons
         disabled : BOOLEAN,            \* the start button
         pollTimer : BOOLEAN,           \* the script has a timer to stop
         timers : Nat]                  \* polling intervals that are running

Blank == [currentTaskId |-> None, currentVoucher |-> None, card |-> "input",
          shown |-> None, disabled |-> FALSE, pollTimer |-> FALSE, timers |-> 0]

UIInit ==
    /\ status = [v \in Voucher |-> None] /\ others = 0
    /\ calls = [c \in Call |-> None]
    /\ page = Blank

-----------------------------------------------------------------------------
(* The script's functions.                                                   *)
StopPolling(p) ==
    IF p.pollTimer THEN [p EXCEPT !.timers = @ - 1, !.pollTimer = FALSE] ELSE p

(* Fault: the timer that runs is not stopped first.                          *)
StartPollingAgain(p) == [p EXCEPT !.timers = @ + 1, !.pollTimer = TRUE]
StartPolling(p) == [StopPolling(p) EXCEPT !.timers = @ + 1, !.pollTimer = TRUE]

UpdateUI(p, s) ==
    IF s \in Final THEN [StopPolling(p) EXCEPT !.shown = s] ELSE [p EXCEPT !.shown = s]

(* Faults: the card stays; the button stays disabled.                        *)
ResetUIHere(p) == [Blank EXCEPT !.card = p.card]
ResetUIDisabled(p) == [Blank EXCEPT !.disabled = p.disabled]
ResetUI(p) == [StopPolling(p) EXCEPT !.currentTaskId = None, !.currentVoucher = None,
                 !.card = "input", !.shown = None, !.disabled = FALSE]

Buttons(s) == CASE s = "open" -> {"cancel"} [] s = "ready" -> {"complete"}
                [] s = "done" -> {} [] s = "dead" -> {"next"}

Send(kind, task, code) ==
    \E c \in Call :
        /\ calls[c] = None
        /\ calls' = [calls EXCEPT ![c] =
             [kind |-> kind, task |-> task, code |-> code, answer |-> "sent"]]

(* The form, with whatever voucher is in it. Enter submits it also while the *)
(* button is disabled.                                                       *)
StartRedeem ==
    /\ page.card = "input"
    /\ \E v \in Voucher :
         /\ page' = [page EXCEPT !.currentVoucher = v, !.disabled = TRUE]
         /\ Send("start", v, v)
    /\ UNCHANGED <<status, others>>

DoAction ==
    /\ page.card = "status" /\ page.currentTaskId # None
    /\ \E kind \in Buttons(page.shown) : Send(kind, page.currentTaskId, page.currentVoucher)
    /\ UNCHANGED <<status, others, page>>

Another ==
    /\ page.card = "status" /\ page.shown = "done"
    /\ page' = ResetUI(page)
    /\ UNCHANGED <<status, others, calls>>

(* A poll, also while the last one is in flight. Fault: none for a code.     *)
TickOpen ==
    /\ page.timers > 0 /\ page.currentTaskId # None /\ page.shown = "open"
    /\ Send("poll", page.currentTaskId, None)
    /\ UNCHANGED <<status, others, page>>

Tick ==
    /\ page.timers > 0 /\ page.currentTaskId # None
    /\ Send("poll", page.currentTaskId, None)
    /\ UNCHANGED <<status, others, page>>

(* What an answer does to the page; a refused poll does nothing. Fault: the  *)
(* polling that a final status has stopped is not started again.             *)
AnsweredOnce(p, r) ==
    CASE r.kind = "start" ->
           IF r.answer = "refused" THEN [p EXCEPT !.disabled = FALSE]
           ELSE StartPolling(UpdateUI([p EXCEPT !.currentTaskId = r.task, !.card = "status"],
                                      r.answer))
      [] r.kind # "start" -> IF r.answer = "refused" THEN p ELSE UpdateUI(p, r.answer)

Answered(p, r) ==
    CASE r.kind = "start" ->
           IF r.answer = "refused" THEN [p EXCEPT !.disabled = FALSE]
           ELSE StartPolling(UpdateUI([p EXCEPT !.currentTaskId = r.task, !.card = "status"],
                                      r.answer))
      [] r.kind = "poll" -> UpdateUI(p, r.answer)
      [] r.kind \in Action ->
           IF r.answer = "refused" THEN p
           ELSE IF r.answer \in Final THEN UpdateUI(p, r.answer)
           ELSE StartPolling(UpdateUI(p, r.answer))

Deliver(c) ==
    /\ calls[c] # None /\ calls[c].answer \in Stage \union {"refused"}
    /\ page' = Answered(page, calls[c])
    /\ calls' = [calls EXCEPT ![c] = None]
    /\ UNCHANGED <<status, others>>

(* The request fails, before or after its effect.                            *)
Fails(c) ==
    /\ calls[c] # None
    /\ page' = IF calls[c].kind = "start" THEN [page EXCEPT !.disabled = FALSE] ELSE page
    /\ calls' = [calls EXCEPT ![c] = None]
    /\ UNCHANGED <<status, others>>

-----------------------------------------------------------------------------
(* The server. An action must come with the voucher of its task.             *)
Refuses(r) ==
    CASE r.kind = "start" -> status[r.task] \in {"ready", "done"}
      [] r.kind = "poll" -> FALSE
      [] r.kind = "cancel" -> r.code # r.task
      [] r.kind = "next" -> r.code # r.task \/ status[r.task] # "dead"
      [] r.kind = "complete" -> r.code # r.task \/ status[r.task] \notin {"ready", "done"}

(* What a request that is not refused makes of the status it finds.          *)
Becomes(r) ==
    CASE r.kind = "cancel" -> "dead"
      [] r.kind = "complete" -> "done"
      [] r.kind \in {"start", "next"} -> "open"
      [] r.kind = "poll" -> status[r.task]

(* A handler that writes reads its answer again after the commit.            *)
Serve(c) ==
    LET r == calls[c] IN
    /\ r # None /\ r.answer = "sent"
    /\ \/ /\ Refuses(r)
          /\ calls' = [calls EXCEPT ![c].answer = "refused"] /\ UNCHANGED status
       \/ /\ ~Refuses(r) /\ Becomes(r) = status[r.task]
          /\ calls' = [calls EXCEPT ![c].answer = status[r.task]] /\ UNCHANGED status
       \/ /\ ~Refuses(r) /\ Becomes(r) # status[r.task]
          /\ calls' = [calls EXCEPT ![c].answer = "written"]
          /\ status' = [status EXCEPT ![r.task] = Becomes(r)]
    /\ UNCHANGED <<others, page>>

Respond(c) ==
    /\ calls[c] # None /\ calls[c].answer = "written"
    /\ calls' = [calls EXCEPT ![c].answer = status[calls[c].task]]
    /\ UNCHANGED <<status, others, page>>

(* Workers, developers, the admin's page and other pages.                    *)
Others ==
    /\ others < Changes /\ others' = others + 1
    /\ \E v \in Voucher, s \in Stage : status[v] # s /\ status' = [status EXCEPT ![v] = s]
    /\ UNCHANGED <<calls, page>>

-----------------------------------------------------------------------------
UINext ==
    \/ StartRedeem \/ DoAction \/ Another \/ Tick
    \/ \E c \in Call : Deliver(c) \/ Fails(c) \/ Serve(c) \/ Respond(c)
    \/ Others

UISpec == UIInit /\ [][UINext]_uiVars

(* Timers fire; requests end. Any poll may fail, but of polls sent again and *)
(* again one is served, and of those one is answered. (Tick is treated       *)
(* strongly because only our bound on Call may disable it.)                  *)
Polls(c) == calls[c] # None /\ calls[c].kind = "poll"
PollServed == \E c \in Call : Polls(c) /\ Serve(c)
PollArrives == \E c \in Call : Polls(c) /\ Deliver(c)

UIFairness ==
    /\ SF_uiVars(Tick) /\ SF_uiVars(PollServed) /\ SF_uiVars(PollArrives)
    /\ \A c \in Call : WF_uiVars(Serve(c) \/ Respond(c) \/ Deliver(c) \/ Fails(c))

UIFairSpec == UISpec /\ UIFairness

-----------------------------------------------------------------------------
(* Types; the visible status card has a task and a status with its buttons,  *)
(* so that the user can go on.                                               *)
UITypeOK ==
    /\ status \in [Voucher -> Stage \union {None}]
    /\ others \in 0 .. Changes
    /\ calls \in [Call -> CallState \union {None}]
    /\ page \in Page
    /\ page.card = "status" => page.currentTaskId # None /\ page.shown # None

(* Whatever the order of answers, no interval runs that the script has no    *)
(* handle for: stopPolling stops all there is.                               *)
NoTimerLeak == page.timers = IF page.pollTimer THEN 1 ELSE 0

(* The form is disabled only while its request is in flight, also after a    *)
(* failure, a refusal, or a redemption that has ended.                       *)
FormUsable ==
    page.card = "input" /\ page.disabled =>
        \E c \in Call : calls[c] # None /\ calls[c].kind = "start"

(* A status that may still change is not left on the page without polling    *)
(* for its next value; with one exception: the answer to a poll that is late *)
(* comes after a final status has stopped the polling, and is shown in its   *)
(* place (doAction starts the polling again, updateUI does not).             *)
Silent(p) == p.card = "status" /\ p.shown \notin Final /\ ~p.pollTimer
OnlyLatePollSilences ==
    [][~Silent(page) /\ Silent(page)' =>
         \E c \in Call : /\ Deliver(c) /\ calls[c].kind = "poll"
                         /\ calls[c].answer \notin Final
                         /\ page.shown \in Final /\ ~page.pollTimer]_uiVars

(* While the page polls, it comes to show the status that the task has, and  *)
(* stays with it; so it does not poll for ever when that is a final one.     *)
PageCatchesUp ==
    \A v \in Voucher, s \in Stage :
        <>[](page.pollTimer /\ page.currentTaskId = v /\ status[v] = s)
            => <>[](page.shown = s)
=============================================================================
