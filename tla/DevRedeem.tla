----------------------------- MODULE DevRedeem -----------------------------
(***************************************************************************)
(* The developer API's create and wait (mintcode_api/routes_dev.py): the   *)
(* idempotency key, the public id of a task, and the long poll.            *)
(*                                                                         *)
(* create runs in a thread of its own, beside other handlers, the workers  *)
(* and the user API. It is a chain of transactions: each ends with a       *)
(* commit, after which the session reads again what it needs. A task is    *)
(* here what this code sees of it; RedeemSystem tells how workers and user *)
(* handlers change its status, for which this module lets anything happen. *)
(***************************************************************************)
EXTENDS DevSecurity

CONSTANTS
    Request,     \* handlers that may be in progress at the same time
    IdemKey,     \* Idempotency-Key values of one developer key
    PublicId,    \* public ids that can be generated: a bound
    None         \* SQL NULL, a missing row or header

ASSUME DevRedeemAssumption ==
    None \notin Voucher /\ None \notin IdemKey /\ None \notin PublicId

VARIABLES
    tasks,     \* redeem_tasks: public_id and what the status means for create
    idem,      \* developer_idempotency_keys: the request's body and its task
    request,   \* what each handler in progress has read
    answers    \* history: the successful answers of create

devVars == <<security, tasks, idem, request, answers>>

(* "active": PENDING, PROCESSING, WAITING_SMS; "settled": FAILED, CANCELED;  *)
(* "consumed": CODE_READY, DONE.                                             *)
Stage == {"active", "settled", "consumed"}
Task == [public : PublicId \union {None}, stage : Stage]

(* A body names a voucher; two bodies with one voucher are the same body.    *)
IdemRow == [body : Voucher, task : Voucher]

ASSUME RowAssumption == None \notin Task /\ None \notin IdemRow

Acting == {"inserting", "resetting", "loading", "naming", "recording"}
RequestState ==
    [pc : {"idle", "arrived", "admitted", "counted", "answering", "waiting"} \union Acting,
     key : DevKey \union {None}, address : Address \union {None},
     ts : Instant, nonce : Nonce \union {None}, at : Instant,
     voucher : Voucher \union {None}, idem : IdemKey \union {None},
     task : Voucher \union {None},       \* the task the answer will show
     stage : Stage,                      \* status of a waiting handler's task
     retry : BOOLEAN]                    \* history: its key had its row before

NoRequest == [pc |-> "idle", key |-> None, address |-> None, ts |-> 0,
              nonce |-> None, at |-> 0, voucher |-> None, idem |-> None,
              task |-> None, stage |-> "active", retry |-> FALSE]

ReplyType == [idem : IdemKey \union {None}, voucher : Voucher, task : Voucher,
              public : PublicId]

DevInit ==
    /\ SecurityInit
    /\ tasks = [v \in Voucher |-> None]
    /\ idem = [i \in IdemKey |-> None]
    /\ request = [h \in Request |-> NoRequest]
    /\ answers = {}

DevTypeOK ==
    /\ SecurityTypeOK
    /\ tasks \in [Voucher -> Task \union {None}]
    /\ idem \in [IdemKey -> IdemRow \union {None}]
    /\ request \in [Request -> RequestState]
    /\ answers \subseteq ReplyType

-----------------------------------------------------------------------------
Goes(h, pc) == request' = [request EXCEPT ![h].pc = pc]
Ends(h) == request' = [request EXCEPT ![h] = NoRequest]
Fresh == PublicId \ {tasks[v].public : v \in {u \in Voucher : tasks[u] # None}}

(* With an Idempotency-Key its row is written before the answer.             *)
Last(h) == IF request[h].idem = None THEN "answering" ELSE "recording"

(* A task without a public id gets one, with one goes on; fault: both do.    *)
NamedNever(h, v) == Last(h)
Named(h, v) == IF tasks[v].public = None THEN "naming" ELSE Last(h)

(* The first part of require_dev, up to the wait for the body.               *)
Arrive(h) ==
    /\ request[h].pc = "idle"
    /\ \E k \in DevKey, a \in Address, ts \in Instant, n \in Nonce :
         /\ Presentable(k, ts)
         /\ request' = [request EXCEPT ![h] =
              [NoRequest EXCEPT !.pc = "arrived", !.key = k, !.address = a,
                                !.ts = ts, !.nonce = n, !.at = clock]]
    /\ UNCHANGED <<security, tasks, idem, answers>>

(* The second part: refused as a replay or by a limit, or admitted. The      *)
(* window is that of the arrival.                                            *)
Authenticate(h) ==
    LET r == request[h]
        m == <<r.key, r.ts, r.nonce>>
        w == Window(r.at)
    IN
    /\ r.pc = "arrived"
    /\ \/ Replay(m) /\ Ends(h) /\ UNCHANGED security
       \/ /\ Admit(m, r.address, w)
          /\ request' = [request EXCEPT ![h] =
               IF Passes(r.key, r.address, w) THEN [NoRequest EXCEPT !.pc = "admitted"]
               ELSE NoRequest]
    /\ UNCHANGED <<tasks, idem, answers>>

(* The handler of create begins, with its voucher and idempotency key. The   *)
(* request is a retry when the key has its row already, from the same body.  *)
OnRecord(i, v) == i # None /\ idem[i] # None /\ idem[i].body = v

LimitVoucher(h) ==
    /\ request[h].pc = "admitted"
    /\ \E v \in Voucher, i \in IdemKey \union {None} :
         /\ CountVoucher(v)
         /\ request' = [request EXCEPT ![h] =
              IF Over(v, Window(clock)) THEN NoRequest
              ELSE [@ EXCEPT !.pc = "counted", !.voucher = v, !.idem = i,
                             !.retry = OnRecord(i, v)]]
    /\ UNCHANGED <<tasks, idem, answers>>

(* One snapshot serves the look at the key's row and at the task. A known    *)
(* key answers with its task, or refuses another body; else a settled task   *)
(* starts over, a consumed one is refused. Faults: the body is not compared; *)
(* a settled task starts over before the key is looked at.                   *)
Found(h, v) == request' = [request EXCEPT ![h].pc = "answering", ![h].task = v]

Known(h) == request[h].idem # None /\ idem[request[h].idem] # None
Matches(h) == OnRecord(request[h].idem, request[h].voucher)

Start(h) ==
    LET v == request[h].voucher IN
    CASE tasks[v] = None -> Goes(h, "inserting")
      [] tasks[v] # None /\ tasks[v].stage = "settled" -> Goes(h, "resetting")
      [] tasks[v] # None /\ tasks[v].stage = "active" ->
           request' = [request EXCEPT ![h].pc = Named(h, v), ![h].task = v]
      [] tasks[v] # None /\ tasks[v].stage = "consumed" -> Ends(h)

LookupAnyBody(h) ==
    /\ request[h].pc = "counted"
    /\ IF Known(h) THEN Found(h, idem[request[h].idem].task) ELSE Start(h)
    /\ UNCHANGED <<security, tasks, idem, answers>>

LookupLast(h) ==
    LET v == request[h].voucher IN
    /\ request[h].pc = "counted"
    /\ IF tasks[v] # None /\ tasks[v].stage = "settled"
         THEN Goes(h, "resetting")
         ELSE IF ~Known(h) THEN Start(h)
              ELSE IF Matches(h) THEN Found(h, idem[request[h].idem].task) ELSE Ends(h)
    /\ UNCHANGED <<security, tasks, idem, answers>>

Lookup(h) ==
    /\ request[h].pc = "counted"
    /\ IF ~Known(h) THEN Start(h)
       ELSE IF Matches(h) THEN Found(h, idem[request[h].idem].task) ELSE Ends(h)
    /\ UNCHANGED <<security, tasks, idem, answers>>

(* voucher_id is unique: the slower of two inserts finds the other's task,   *)
(* which may be one of the user API, without a public id.                    *)
Insert(h) ==
    LET v == request[h].voucher IN
    /\ request[h].pc = "inserting"
    /\ \/ /\ tasks[v] = None
          /\ \E p \in Fresh :
               tasks' = [tasks EXCEPT ![v] = [public |-> p, stage |-> "active"]]
       \/ tasks[v] # None /\ UNCHANGED tasks
    /\ Goes(h, "loading")
    /\ UNCHANGED <<security, idem, answers>>

(* The status is written whatever it is by now.                              *)
Reset(h) ==
    LET v == request[h].voucher IN
    /\ request[h].pc = "resetting"
    /\ tasks' = [tasks EXCEPT ![v].stage = "active"]
    /\ Goes(h, "loading")
    /\ UNCHANGED <<security, idem, answers>>

Load(h) ==
    LET v == request[h].voucher IN
    /\ request[h].pc = "loading"
    /\ request' = [request EXCEPT ![h].pc = Named(h, v), ![h].task = v]
    /\ UNCHANGED <<security, tasks, idem, answers>>

(* The task had no public id when it was read.                               *)
Name(h) ==
    /\ request[h].pc = "naming"
    /\ \E p \in Fresh : tasks' = [tasks EXCEPT ![request[h].task].public = p]
    /\ Goes(h, Last(h))
    /\ UNCHANGED <<security, idem, answers>>

(* The key is unique: when another request has recorded it meanwhile the     *)
(* handler fails, with what it did before committed. Fault: it goes on.      *)
RecordAnyway(h) ==
    LET r == request[h] IN
    /\ r.pc = "recording"
    /\ idem' = IF idem[r.idem] # None THEN idem
               ELSE [idem EXCEPT ![r.idem] = [body |-> r.voucher, task |-> r.task]]
    /\ Goes(h, "answering")
    /\ UNCHANGED <<security, tasks, answers>>

Record(h) ==
    LET r == request[h] IN
    /\ r.pc = "recording"
    /\ \/ /\ idem[r.idem] = None
          /\ idem' = [idem EXCEPT ![r.idem] = [body |-> r.voucher, task |-> r.task]]
          /\ Goes(h, "answering")
       \/ idem[r.idem] # None /\ Ends(h) /\ UNCHANGED idem
    /\ UNCHANGED <<security, tasks, answers>>

(* The audit row is committed, and the task read once more for the answer.   *)
Reply(h) ==
    LET r == request[h] IN
    /\ r.pc = "answering"
    /\ answers' = answers \union {[idem |-> r.idem, voucher |-> r.voucher, task |-> r.task,
                                   public |-> tasks[r.task].public]}
    /\ Ends(h)
    /\ UNCHANGED <<security, tasks, idem>>

-----------------------------------------------------------------------------
(* GET /dev/redeem/{task_id}/wait. All rounds of the loop read in one        *)
(* transaction, through one session: what the first round has read.          *)
WaitBegin(h) ==
    /\ request[h].pc = "admitted"
    /\ \E v \in Voucher :
         /\ tasks[v] # None /\ tasks[v].public # None
         /\ IF tasks[v].stage # "active" THEN Ends(h)
            ELSE request' = [request EXCEPT ![h].pc = "waiting", ![h].task = v,
                                            ![h].stage = tasks[v].stage]
    /\ UNCHANGED <<security, tasks, idem, answers>>

(* The last round, at the time limit: no final status yet, try again.        *)
WaitGivesUp(h) ==
    /\ request[h].pc = "waiting" /\ request[h].stage = "active"
    /\ Ends(h)
    /\ UNCHANGED <<security, tasks, idem, answers>>

-----------------------------------------------------------------------------
(* A handler dies with its process, or on a database error: what it has      *)
(* committed stays.                                                          *)
Dies(h) ==
    /\ request[h].pc \notin {"idle", "arrived"}
    /\ Ends(h)
    /\ UNCHANGED <<security, tasks, idem, answers>>

(* The user API creates tasks without a public id; it and the workers change *)
(* the status.                                                               *)
Others ==
    /\ \E v \in Voucher :
         \/ /\ tasks[v] = None
            /\ tasks' = [tasks EXCEPT ![v] = [public |-> None, stage |-> "active"]]
         \/ /\ tasks[v] # None
            /\ \E s \in Stage \ {tasks[v].stage} : tasks' = [tasks EXCEPT ![v].stage = s]
    /\ UNCHANGED <<security, idem, request, answers>>

DevStep(h) ==
    \/ Arrive(h) \/ Authenticate(h) \/ LimitVoucher(h) \/ Lookup(h)
    \/ Insert(h) \/ Reset(h) \/ Load(h) \/ Name(h) \/ Record(h) \/ Reply(h)
    \/ WaitBegin(h) \/ WaitGivesUp(h)
    \/ Dies(h)

DevNext ==
    \/ \E h \in Request : DevStep(h)
    \/ Others
    \/ SecurityEnvironment /\ UNCHANGED <<tasks, idem, request, answers>>

DevSpec == DevInit /\ [][DevNext]_devVars

-----------------------------------------------------------------------------
(* A successful answer given under an idempotency key is on record with its  *)
(* task: a retry finds it, so two answers under one key name one task.       *)
AnswersRecorded ==
    \A a \in answers : a.idem # None =>
        idem[a.idem] # None /\ idem[a.idem].task = a.task

(* The task of an answer is that of the voucher asked for, also when it was  *)
(* found by the idempotency key.                                             *)
AnswersOwnVoucher == \A a \in answers : a.task = a.voucher

(* A retry whose key is on record acts no more: it creates nothing, starts   *)
(* nothing over, renames nothing, whatever has become of the task.           *)
RetryNeverActs ==
    \A h \in Request : request[h].retry => request[h].pc \notin Acting

-----------------------------------------------------------------------------
(* DEVELOPER_API.md 5.1: with an active task for the voucher the task_id     *)
(* that exists is returned; so a task keeps the id it has.                   *)
PublicIdKept ==
    [][\A v \in Voucher : tasks[v] # None /\ tasks[v].public # None =>
         tasks'[v].public = tasks[v].public]_devVars

(* DEVELOPER_API.md 5.2: when the code has arrived the long poll answers     *)
(* with it; so the round that gives up does so with no code there.           *)
WaitTellsCode ==
    [][\A h \in Request : WaitGivesUp(h) => tasks[request[h].task].stage # "consumed"]_devVars
=============================================================================
