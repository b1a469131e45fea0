----------------------------- MODULE DevProofs -----------------------------
(***************************************************************************)
(* Proofs about DevRedeem: its types, the two promises of DevSecurity, and *)
(* what idempotency keys guarantee.                                        *)
(***************************************************************************)
EXTENDS DevRedeem, TLAPS

(* What a handler's phase says about what it has read. Rows that exist stay, *)
(* a public id once set may change but not vanish, and an idempotency row is *)
(* final, so other handlers cannot falsify it.                               *)
Reading == {"counted", "inserting"}
OnTask == {"resetting", "loading"}
Chosen == {"naming", "recording", "answering"}
Exists(v) == v \in Voucher /\ tasks[v] # None
HasId(v) == Exists(v) /\ tasks[v].public # None

HandlerOK(r) ==
    /\ r.pc = "arrived" => r.key \in DevKey /\ r.address \in Address /\ r.nonce \in Nonce
    /\ r.pc \in Reading => r.voucher \in Voucher
    /\ r.pc \in OnTask => Exists(r.voucher)
    /\ r.pc \in Chosen => Exists(r.voucher) /\ r.task = r.voucher
    /\ r.pc \in {"recording", "answering"} => HasId(r.task)
    /\ r.pc = "recording" => r.idem # None
    /\ r.pc = "answering" /\ r.idem # None =>
         idem[r.idem] # None /\ idem[r.idem].task = r.task
    /\ r.pc = "waiting" => Exists(r.task)
    /\ r.retry => OnRecord(r.idem, r.voucher) /\ r.pc \in {"counted", "answering"}

HandlersOK == \A h \in Request : HandlerOK(request[h])
RowsOK == \A i \in IdemKey : idem[i] # None =>
              idem[i].body = idem[i].task /\ HasId(idem[i].task)

(* A counter is never behind what it let pass, and an admitted signature is  *)
(* on record.                                                                *)
Counting ==
    /\ \A s \in Counted, w \in Instant : passed[s][w] <= counts[s][w]
    /\ LimitsKept
Remembering ==
    /\ \A m \in Signature : m \notin nonces => admitted[m] = 0
    /\ AdmittedOnce

Answers == AnswersRecorded /\ AnswersOwnVoucher

(* What every step keeps of the rows.                                        *)
RowsGrow ==
    /\ \A v \in Voucher : tasks[v] # None => tasks'[v] # None
    /\ \A v \in Voucher : tasks[v] # None /\ tasks[v].public # None =>
         tasks'[v].public # None
    /\ \A i \in IdemKey : idem[i] # None => idem'[i] = idem[i]

DevShape == DevTypeOK /\ HandlersOK /\ RowsOK

-----------------------------------------------------------------------------
(* DevSecurity.                                                              *)

LEMMA LimitType == \A s : Limit(s) \in Nat
  BY SecurityAssumption DEF Limit

LEMMA AddType ==
  ASSUME NEW tally \in Tally, NEW S, NEW w
  PROVE  /\ Add(tally, S, w) \in Tally
         /\ \A s \in Counted, t \in Instant :
              Add(tally, S, w)[s][t] = tally[s][t] + (IF s \in S /\ t = w THEN 1 ELSE 0)
<1>1. ASSUME NEW s \in Counted
      PROVE  /\ Add(tally, S, w)[s] \in [Instant -> Nat]
             /\ \A t \in Instant :
                  Add(tally, S, w)[s][t] = tally[s][t] + (IF s \in S /\ t = w THEN 1 ELSE 0)
  <2>1. tally[s] \in [Instant -> Nat]
    BY DEF Tally
  <2>2. Add(tally, S, w)[s]
          = [t \in Instant |-> IF t = w THEN (IF s \in S THEN tally[s][w] + 1 ELSE tally[s][w])
                                       ELSE tally[s][t]]
    BY <2>1 DEF Add
  <2>3. \A t \in Instant :
          /\ Add(tally, S, w)[s][t] \in Nat
          /\ Add(tally, S, w)[s][t] = tally[s][t] + (IF s \in S /\ t = w THEN 1 ELSE 0)
    <3> TAKE t \in Instant
    <3>1. tally[s][t] \in Nat
      BY <2>1
    <3>2. CASE t = w
      BY <2>2, <3>1, <3>2
    <3>3. CASE t # w
      BY <2>2, <3>1, <3>3
    <3>4. QED  BY <3>2, <3>3
  <2>4. QED
    <3>1. Add(tally, S, w)[s] = [t \in Instant |-> Add(tally, S, w)[s][t]]
      BY <2>2
    <3>2. QED  BY <3>1, <2>3
<1>2. Add(tally, S, w) = [s \in Counted |-> Add(tally, S, w)[s]]
  BY DEF Add
<1>3. QED  BY <1>1, <1>2 DEF Tally

(* What a step may do to the counters.                                       *)
Counts(S, P, w) ==
    /\ counts' = Add(counts, S, w) /\ passed' = Add(passed, P, w)
    /\ P \subseteq S /\ \A s \in P : ~Over(s, w)

LEMMA CountsKeep ==
  ASSUME SecurityTypeOK, Counting, NEW S, NEW P, NEW w, Counts(S, P, w)
  PROVE  Counting' /\ counts' \in Tally /\ passed' \in Tally
<1>1. counts' \in Tally /\ passed' \in Tally
  BY AddType DEF SecurityTypeOK, Counts
<1>2. ASSUME NEW s \in Counted, NEW t \in Instant
      PROVE  passed'[s][t] <= counts'[s][t] /\ passed'[s][t] <= Limit(s)
  <2>1. /\ passed[s][t] \in Nat /\ counts[s][t] \in Nat /\ Limit(s) \in Nat
        /\ passed[s][t] <= counts[s][t] /\ passed[s][t] <= Limit(s)
    BY LimitType DEF SecurityTypeOK, Tally, Counting, LimitsKept
  <2>2. /\ passed'[s][t] = passed[s][t] + (IF s \in P /\ t = w THEN 1 ELSE 0)
        /\ counts'[s][t] = counts[s][t] + (IF s \in S /\ t = w THEN 1 ELSE 0)
    BY AddType DEF SecurityTypeOK, Counts
  <2>3. s \in P /\ t = w => s \in S /\ counts[s][t] < Limit(s)
    BY <2>1 DEF Counts, Over
  <2>4. QED  BY <2>1, <2>2, <2>3
<1>3. QED  BY <1>1, <1>2 DEF Counting, LimitsKept, Limit

LEMMA AdmitKeeps ==
  ASSUME SecurityTypeOK, Counting, Remembering, NEW m \in Signature, NEW a, NEW w,
         Admit(m, a, w)
  PROVE  SecurityTypeOK' /\ Counting' /\ Remembering'
<1>1. Counts(Reached(m[1], a, w), Passing(m[1], a, w), w)
  BY DEF Admit, Counts, Passing
<1>2. Counting' /\ counts' \in Tally /\ passed' \in Tally
  BY <1>1, CountsKeep
<1>3. m \notin nonces /\ nonces' = nonces \union {m}
  BY DEF Admit, Replay
<1>4. admitted' = admitted \/ admitted' = [admitted EXCEPT ![m] = @ + 1]
  BY DEF Admit
<1>5. SecurityTypeOK'
  BY <1>2, <1>3, <1>4 DEF SecurityTypeOK, Admit
<1>6. Remembering'
  BY <1>3, <1>4 DEF Remembering, AdmittedOnce, SecurityTypeOK
<1>7. QED  BY <1>2, <1>5, <1>6

LEMMA CountVoucherKeeps ==
  ASSUME SecurityTypeOK, Counting, Remembering, NEW v, CountVoucher(v)
  PROVE  SecurityTypeOK' /\ Counting' /\ Remembering'
<1> DEFINE w == Window(clock)
           P == IF Over(v, w) THEN {} ELSE {v}
<1>1. Counts({v}, P, w)
  BY DEF CountVoucher, Counts
<1>2. Counting' /\ counts' \in Tally /\ passed' \in Tally
  <2> HIDE DEF P, w
  <2> QED  BY <1>1, CountsKeep
<1>3. SecurityTypeOK' /\ Remembering'
  BY <1>2 DEF SecurityTypeOK, CountVoucher, Remembering, AdmittedOnce
<1>4. QED  BY <1>2, <1>3

LEMMA SecurityRest ==
  ASSUME SecurityTypeOK, Counting, Remembering,
         UNCHANGED security \/ SecurityEnvironment
  PROVE  SecurityTypeOK' /\ Counting' /\ Remembering'
<1>1. UNCHANGED <<nonces, counts, admitted, passed>> /\ clock' \in Instant
      /\ enabled' \subseteq DevKey
  BY SecurityAssumption DEF security, SecurityEnvironment, SecurityTypeOK, Instant
<1>2. QED  BY <1>1 DEF SecurityTypeOK, Counting, LimitsKept, Limit, Remembering, AdmittedOnce

-----------------------------------------------------------------------------
(* DevRedeem: rows only grow, so what a handler has read stays true.         *)

LEMMA HandlerStays ==
  ASSUME DevTypeOK, RowsGrow, NEW r \in RequestState, HandlerOK(r)
  PROVE  HandlerOK(r)'
<1>1. \A v : Exists(v) => Exists(v)'
  BY DEF Exists, RowsGrow
<1>2. \A v : HasId(v) => HasId(v)'
  BY DEF HasId, Exists, RowsGrow
<1>3. r.idem \in IdemKey \union {None}
  BY DEF RequestState
<1>4. r.idem # None /\ idem[r.idem] # None => idem'[r.idem] = idem[r.idem]
  BY <1>3 DEF RowsGrow
<1>5. OnRecord(r.idem, r.voucher) => OnRecord(r.idem, r.voucher)'
  BY <1>4 DEF OnRecord
<1>6. QED  BY <1>1, <1>2, <1>4, <1>5 DEF HandlerOK

LEMMA HandlerMoves ==
  ASSUME DevShape, RowsGrow, NEW h \in Request, NEW r \in RequestState,
         request' = [request EXCEPT ![h] = r], HandlerOK(r)'
  PROVE  HandlersOK' /\ request' \in [Request -> RequestState]
<1>1. request \in [Request -> RequestState]
  BY DEF DevShape, DevTypeOK
<1>2. \A g \in Request : HandlerOK(request[g])'
  <2> TAKE g \in Request
  <2>1. CASE g = h
    BY <1>1, <2>1 DEF HandlerOK, Exists, HasId, OnRecord
  <2>2. CASE g # h
    <3>1. request'[g] = request[g] /\ request[g] \in RequestState
      BY <1>1, <2>2
    <3>2. HandlerOK(request[g])
      BY DEF DevShape, HandlersOK
    <3>3. PICK q \in RequestState : q = request[g]
      BY <3>1
    <3>4. HandlerOK(q)'
      BY <3>2, <3>3, HandlerStays DEF DevShape
    <3>5. QED  BY <3>1, <3>3, <3>4 DEF HandlerOK, Exists, HasId, OnRecord
  <2>3. QED  BY <2>1, <2>2
<1>3. QED  BY <1>1, <1>2 DEF HandlersOK

LEMMA HandlersStay ==
  ASSUME DevShape, RowsGrow, request' = request
  PROVE  HandlersOK' /\ request' \in [Request -> RequestState]
<1>1. request \in [Request -> RequestState]
  BY DEF DevShape, DevTypeOK
<1>2. \A g \in Request : HandlerOK(request[g])'
  <2> TAKE g \in Request
  <2>1. PICK q \in RequestState : q = request[g]
    BY <1>1
  <2>2. HandlerOK(q)'
    BY <2>1, HandlerStays DEF DevShape, HandlersOK
  <2>3. QED  BY <2>1, <2>2 DEF HandlerOK, Exists, HasId, OnRecord
<1>3. QED  BY <1>1, <1>2 DEF HandlersOK

LEMMA RowsKept ==
  ASSUME RowsOK, RowsGrow, idem' = idem
  PROVE  RowsOK'
BY DEF RowsOK, RowsGrow, HasId, Exists

(* A handler that ends, or stands where it knows nothing of the rows.        *)
LEMMA EndsType == NoRequest \in RequestState /\ HandlerOK(NoRequest)'
<1>1. NoRequest \in RequestState
  BY SecurityAssumption DEF NoRequest, RequestState, Instant, Stage
<1>2. HandlerOK(NoRequest)'
  BY DEF NoRequest, HandlerOK, Reading, OnTask, Chosen
<1>3. QED  BY <1>1, <1>2

LEMMA EndsOK ==
  ASSUME DevShape, NEW h \in Request, Ends(h), UNCHANGED <<tasks, idem>>
  PROVE  RowsGrow /\ RowsOK' /\ HandlersOK' /\ request' \in [Request -> RequestState]
<1>1. RowsGrow
  BY DEF RowsGrow
<1>2. RowsOK'
  BY <1>1, RowsKept DEF DevShape
<1>3. QED  BY <1>1, <1>2, EndsType, HandlerMoves DEF Ends

(* What a step owes besides DevSecurity's part.                              *)
Kept ==
    /\ RowsGrow /\ RowsOK' /\ HandlersOK'
    /\ request' \in [Request -> RequestState]
    /\ tasks' \in [Voucher -> Task \union {None}]
    /\ idem' \in [IdemKey -> IdemRow \union {None}]

LEMMA ReadsOK ==
  ASSUME DevShape, NEW h \in Request, NEW r \in RequestState,
         request' = [request EXCEPT ![h] = r], UNCHANGED <<tasks, idem>>, HandlerOK(r)
  PROVE  Kept
<1>1. RowsGrow
  BY DEF RowsGrow
<1>2. RowsOK'
  BY <1>1, RowsKept DEF DevShape
<1>3. HandlerOK(r)'
  BY <1>1, HandlerStays DEF DevShape
<1>4. HandlersOK' /\ request' \in [Request -> RequestState]
  BY <1>1, <1>3, HandlerMoves
<1>5. QED  BY <1>1, <1>2, <1>4 DEF Kept, DevShape, DevTypeOK

LEMMA EndsKept ==
  ASSUME DevShape, NEW h \in Request, Ends(h), UNCHANGED <<tasks, idem>>
  PROVE  Kept
BY EndsOK DEF Kept, DevShape, DevTypeOK

LEMMA MovesType ==
  ASSUME NEW r \in RequestState, NEW task \in Voucher \union {None},
         NEW pc \in Acting \union {"counted", "answering"}
  PROVE  [r EXCEPT !.pc = pc, !.task = task] \in RequestState
<1> DEFINE P == {"idle", "arrived", "admitted", "counted", "answering", "waiting"} \union Acting
<1>1. pc \in P
  OBVIOUS
<1> HIDE DEF P
<1>2. RequestState = [pc : P, key : DevKey \union {None}, address : Address \union {None},
        ts : Instant, nonce : Nonce \union {None}, at : Instant,
        voucher : Voucher \union {None}, idem : IdemKey \union {None},
        task : Voucher \union {None}, stage : Stage, retry : BOOLEAN]
  BY DEF RequestState, P
<1>3. QED  BY <1>1, <1>2

LEMMA LastOK ==
  ASSUME DevShape, NEW h \in Request, NEW v \in Voucher, tasks[v] # None,
         request[h].voucher = v, ~request[h].retry,
         request' = [request EXCEPT ![h].pc = Named(h, v), ![h].task = v],
         UNCHANGED <<tasks, idem>>
  PROVE  Kept
<1>1. request[h] \in RequestState
  BY DEF DevShape, DevTypeOK
<1>2. Named(h, v) \in {"naming", "recording", "answering"}
  BY DEF Named, Last
<1>3. PICK r \in RequestState : r = [request[h] EXCEPT !.pc = Named(h, v), !.task = v]
  BY <1>1, <1>2, MovesType DEF Acting
<1>4. /\ r.pc = Named(h, v) /\ r.task = v /\ r.voucher = v /\ r.idem = request[h].idem
      /\ ~r.retry
  BY <1>1, <1>3 DEF RequestState
<1>5. HandlerOK(r)
  BY <1>2, <1>4 DEF HandlerOK, Named, Last, HasId, Exists, Reading, OnTask, Chosen
<1>6. request' = [request EXCEPT ![h] = r]
  BY <1>3 DEF DevShape, DevTypeOK
<1>7. QED  BY <1>5, <1>6, ReadsOK

(* One lemma per step of a handler.                                          *)
LEMMA ArriveKeeps ==
  ASSUME DevShape, NEW h \in Request, Arrive(h)
  PROVE  Kept
<1>1. PICK k \in DevKey, a \in Address, ts \in Instant, n \in Nonce :
        request' = [request EXCEPT ![h] =
              [NoRequest EXCEPT !.pc = "arrived", !.key = k, !.address = a,
                                !.ts = ts, !.nonce = n, !.at = clock]]
  BY DEF Arrive
<1>2. PICK r \in RequestState :
        r = [NoRequest EXCEPT !.pc = "arrived", !.key = k, !.address = a,
                              !.ts = ts, !.nonce = n, !.at = clock]
  BY EndsType DEF NoRequest, RequestState, DevShape, DevTypeOK, SecurityTypeOK
<1>3. r.pc = "arrived" /\ r.key = k /\ r.address = a /\ r.nonce = n /\ ~r.retry
  BY <1>2 DEF NoRequest
<1>4. HandlerOK(r)
  BY <1>3 DEF HandlerOK, Reading, OnTask, Chosen
<1>5. QED  BY <1>1, <1>2, <1>4, ReadsOK DEF Arrive

LEMMA AuthenticateKeeps ==
  ASSUME DevShape, NEW h \in Request, Authenticate(h)
  PROVE  Kept
<1>1. UNCHANGED <<tasks, idem>>
  BY DEF Authenticate
<1>2. CASE Ends(h)
  BY <1>1, <1>2, EndsKept
<1>3. CASE request' = [request EXCEPT ![h] = [NoRequest EXCEPT !.pc = "admitted"]]
  <2>1. PICK r \in RequestState : r = [NoRequest EXCEPT !.pc = "admitted"]
    BY EndsType DEF NoRequest, RequestState
  <2>2. r.pc = "admitted" /\ ~r.retry
    BY <2>1 DEF NoRequest
  <2>3. HandlerOK(r)
    BY <2>2 DEF HandlerOK, Reading, OnTask, Chosen
  <2>4. QED  BY <1>1, <1>3, <2>1, <2>3, ReadsOK
<1>4. QED  BY <1>2, <1>3 DEF Authenticate, Ends

LEMMA CountedType ==
  ASSUME NEW q \in RequestState, NEW v \in Voucher, NEW i \in IdemKey \union {None},
         NEW b \in BOOLEAN
  PROVE  [q EXCEPT !.pc = "counted", !.voucher = v, !.idem = i, !.retry = b] \in RequestState
<1>1. \A pc \in {"counted"} : [q EXCEPT !.pc = pc] \in RequestState
  BY DEF RequestState
<1>2. PICK p : p = [q EXCEPT !.pc = "counted"]
  OBVIOUS
<1>3. p \in RequestState
  BY <1>1, <1>2
<1>4. PICK n : n = [p EXCEPT !.voucher = v, !.idem = i, !.retry = b]
  OBVIOUS
<1>5. n \in RequestState
  BY <1>3, <1>4 DEF RequestState
<1>6. n = [q EXCEPT !.pc = "counted", !.voucher = v, !.idem = i, !.retry = b]
  BY <1>2, <1>4
<1> QED BY <1>5, <1>6

LEMMA LimitVoucherKeeps ==
  ASSUME DevShape, NEW h \in Request, LimitVoucher(h)
  PROVE  Kept
<1>1. UNCHANGED <<tasks, idem>> /\ request[h] \in RequestState
  BY DEF LimitVoucher, DevShape, DevTypeOK
<1>2. PICK v \in Voucher, i \in IdemKey \union {None} :
        request' = [request EXCEPT ![h] =
              IF Over(v, Window(clock)) THEN NoRequest
              ELSE [@ EXCEPT !.pc = "counted", !.voucher = v, !.idem = i,
                             !.retry = OnRecord(i, v)]]
  BY DEF LimitVoucher
<1>3. CASE Over(v, Window(clock))
  BY <1>1, <1>2, <1>3, EndsKept DEF Ends
<1>4. CASE ~Over(v, Window(clock))
  <2>1. OnRecord(i, v) \in BOOLEAN
    BY DEF OnRecord
  <2>2. PICK r \in RequestState :
          r = [request[h] EXCEPT !.pc = "counted", !.voucher = v, !.idem = i,
                                 !.retry = OnRecord(i, v)]
    <3>1. PICK q, b : q = request[h] /\ b = OnRecord(i, v)
      OBVIOUS
    <3>2. q \in RequestState /\ b \in BOOLEAN
      BY <1>1, <2>1, <3>1
    <3>3. [q EXCEPT !.pc = "counted", !.voucher = v, !.idem = i, !.retry = b] \in RequestState
      BY <3>2, CountedType
    <3> QED BY <3>1, <3>3
  <2>3. r.pc = "counted" /\ r.voucher = v /\ r.idem = i /\ r.retry = OnRecord(i, v)
    BY <1>1, <2>2 DEF RequestState
  <2>4. HandlerOK(r)
    BY <2>3 DEF HandlerOK, Reading, OnTask, Chosen
  <2>5. request' = [request EXCEPT ![h] = r]
    BY <1>2, <1>4, <2>2 DEF DevShape, DevTypeOK
  <2>6. QED  BY <1>1, <2>4, <2>5, ReadsOK
<1>5. QED  BY <1>3, <1>4

(* A handler that goes on without having read anything new.                  *)
LEMMA GoesType ==
  ASSUME DevShape, NEW h \in Request, NEW pc, Goes(h, pc),
         pc \in {"inserting", "resetting", "loading", "recording", "answering"}
  PROVE  \E r \in RequestState :
           /\ request' = [request EXCEPT ![h] = r]
           /\ r.pc = pc /\ r.voucher = request[h].voucher /\ r.task = request[h].task
           /\ r.idem = request[h].idem /\ r.retry = request[h].retry
<1>1. request[h] \in RequestState
  BY DEF DevShape, DevTypeOK
<1>2. PICK r \in RequestState : r = [request[h] EXCEPT !.pc = pc]
  <2>1. [request[h] EXCEPT !.pc = pc] = [request[h] EXCEPT !.pc = pc, !.task = request[h].task]
    BY <1>1 DEF RequestState
  <2>2. request[h].task \in Voucher \union {None}
    BY <1>1 DEF RequestState
  <2>3. QED  BY <1>1, <2>1, <2>2, MovesType DEF Acting
<1>3. /\ r.pc = pc /\ r.voucher = request[h].voucher /\ r.task = request[h].task
      /\ r.idem = request[h].idem /\ r.retry = request[h].retry
  BY <1>1, <1>2 DEF RequestState
<1>4. request' = [request EXCEPT ![h] = r]
  BY <1>2 DEF Goes, DevShape, DevTypeOK
<1>5. QED  BY <1>3, <1>4

LEMMA StartKeeps ==
  ASSUME DevShape, NEW h \in Request, request[h].pc = "counted", ~Known(h), Start(h),
         UNCHANGED <<tasks, idem>>
  PROVE  Kept
<1> DEFINE v == request[h].voucher
<1>1. v \in Voucher /\ ~request[h].retry
  BY DEF DevShape, HandlersOK, HandlerOK, Reading, Known, OnRecord
<1>2. CASE tasks[v] = None
  <2>1. Goes(h, "inserting")
    BY <1>2 DEF Start
  <2>2. PICK r \in RequestState :
           /\ request' = [request EXCEPT ![h] = r]
           /\ r.pc = "inserting" /\ r.voucher = v /\ r.retry = request[h].retry
    BY <2>1, GoesType
  <2>3. HandlerOK(r)
    BY <1>1, <2>2 DEF HandlerOK, Reading, OnTask, Chosen
  <2>4. QED  BY <2>2, <2>3, ReadsOK
<1>3. CASE tasks[v] # None /\ tasks[v].stage = "settled"
  <2>1. Goes(h, "resetting")
    BY <1>3 DEF Start
  <2>2. PICK r \in RequestState :
           /\ request' = [request EXCEPT ![h] = r]
           /\ r.pc = "resetting" /\ r.voucher = v /\ r.retry = request[h].retry
    BY <2>1, GoesType
  <2>3. HandlerOK(r)
    BY <1>1, <1>3, <2>2 DEF HandlerOK, Exists, Reading, OnTask, Chosen
  <2>4. QED  BY <2>2, <2>3, ReadsOK
<1>4. CASE tasks[v] # None /\ tasks[v].stage = "active"
  <2>1. request' = [request EXCEPT ![h].pc = Named(h, v), ![h].task = v]
    BY <1>4 DEF Start
  <2>2. QED  BY <1>1, <1>4, <2>1, LastOK
<1>5. CASE tasks[v] # None /\ tasks[v].stage = "consumed"
  <2>1. Ends(h)
    BY <1>5 DEF Start
  <2>2. QED  BY <2>1, EndsKept
<1>6. tasks[v] # None => tasks[v].stage \in Stage
  BY <1>1 DEF DevShape, DevTypeOK, Task
<1>7. QED  BY <1>2, <1>3, <1>4, <1>5, <1>6 DEF Stage

LEMMA LookupKeeps ==
  ASSUME DevShape, NEW h \in Request, Lookup(h)
  PROVE  Kept
<1> DEFINE i == request[h].idem
           t == idem[i].task
<1>1. UNCHANGED <<tasks, idem>> /\ request[h].pc = "counted" /\ request[h] \in RequestState
  BY DEF Lookup, DevShape, DevTypeOK
<1>2. CASE ~Known(h)
  BY <1>1, <1>2, StartKeeps DEF Lookup
<1>3. CASE Known(h) /\ Matches(h)
  <2>1. Found(h, t)
    BY <1>3 DEF Lookup
  <2>2. i \in IdemKey /\ i # None /\ idem[i] # None /\ idem[i].body = request[h].voucher
    BY <1>1, <1>3 DEF Known, Matches, OnRecord, RequestState
  <2>3. HasId(t) /\ t = request[h].voucher
    BY <2>2 DEF DevShape, RowsOK
  <2>4. t \in Voucher
    BY <2>3 DEF HasId, Exists
  <2>5. PICK r \in RequestState : r = [request[h] EXCEPT !.pc = "answering", !.task = t]
    BY <1>1, <2>4, MovesType
  <2>6. /\ r.pc = "answering" /\ r.task = t /\ r.voucher = request[h].voucher
        /\ r.idem = i /\ r.retry = request[h].retry
    BY <1>1, <2>5 DEF RequestState
  <2>7. request' = [request EXCEPT ![h] = r]
    BY <2>1, <2>5 DEF Found, DevShape, DevTypeOK
  <2>8. HandlerOK(r)
    BY <2>2, <2>3, <2>6 DEF HandlerOK, OnRecord, HasId, Exists, Reading, OnTask, Chosen
  <2>9. QED  BY <1>1, <2>7, <2>8, ReadsOK
<1>4. CASE Known(h) /\ ~Matches(h)
  BY <1>1, <1>4, EndsKept DEF Lookup
<1>5. QED  BY <1>2, <1>3, <1>4

(* Writing to one task: it goes on to exist and to have the id it may have.  *)
LEMMA TaskWritten ==
  ASSUME DevShape, NEW v \in Voucher, NEW t \in Task,
         tasks[v] # None /\ tasks[v].public # None => t.public # None,
         tasks' = [tasks EXCEPT ![v] = t], UNCHANGED idem
  PROVE  /\ RowsGrow /\ RowsOK' /\ Exists(v)' /\ tasks'[v] = t
         /\ tasks' \in [Voucher -> Task \union {None}]
<1>1. tasks \in [Voucher -> Task \union {None}] /\ t # None
  BY RowAssumption DEF DevShape, DevTypeOK
<1>2. RowsGrow
  BY <1>1 DEF RowsGrow
<1>3. RowsOK'
  BY <1>2, RowsKept DEF DevShape
<1>4. QED  BY <1>1, <1>2, <1>3 DEF Exists

LEMMA FreshId == \A p \in Fresh : p \in PublicId /\ p # None
BY DevRedeemAssumption DEF Fresh

LEMMA InsertKeeps ==
  ASSUME DevShape, NEW h \in Request, Insert(h)
  PROVE  Kept
<1>0. PICK v \in Voucher : v = request[h].voucher
  BY DEF Insert, DevShape, HandlersOK, HandlerOK, Reading
<1>1. v \in Voucher /\ ~request[h].retry /\ idem' = idem /\ Goes(h, "loading")
  BY <1>0 DEF Insert, DevShape, HandlersOK, HandlerOK, Reading
<1>2. PICK r \in RequestState :
           /\ request' = [request EXCEPT ![h] = r]
           /\ r.pc = "loading" /\ r.voucher = v /\ r.retry = request[h].retry
  BY <1>0, <1>1, GoesType
<1>3. CASE tasks[v] # None /\ UNCHANGED tasks
  <2>1. HandlerOK(r)
    BY <1>0, <1>1, <1>2, <1>3 DEF HandlerOK, Exists, Reading, OnTask, Chosen
  <2>2. QED  BY <1>0, <1>1, <1>2, <1>3, <2>1, ReadsOK
<1>4. ASSUME NEW p \in Fresh, tasks[v] = None,
             tasks' = [tasks EXCEPT ![v] = [public |-> p, stage |-> "active"]]
      PROVE  Kept
  <2>1. PICK t \in Task : t = [public |-> p, stage |-> "active"]
    BY FreshId DEF Task, Stage
  <2>2. /\ RowsGrow /\ RowsOK' /\ Exists(v)'
        /\ tasks' \in [Voucher -> Task \union {None}]
    BY <1>0, <1>1, <1>4, <2>1, TaskWritten
  <2>3. HandlerOK(r)'
    BY <1>0, <1>1, <1>2, <2>2 DEF HandlerOK, Exists, Reading, OnTask, Chosen
  <2>4. QED  BY <1>0, <1>1, <1>2, <2>2, <2>3, HandlerMoves DEF Kept, DevShape, DevTypeOK
<1>5. QED  BY <1>0, <1>3, <1>4 DEF Insert

LEMMA ResetKeeps ==
  ASSUME DevShape, NEW h \in Request, Reset(h)
  PROVE  Kept
<1>0. PICK v \in Voucher : v = request[h].voucher
  BY DEF Reset, DevShape, HandlersOK, HandlerOK, OnTask, Exists
<1>1. v \in Voucher /\ tasks[v] # None /\ ~request[h].retry /\ idem' = idem
      /\ Goes(h, "loading")
  BY <1>0 DEF Reset, DevShape, HandlersOK, HandlerOK, OnTask, Exists
<1>2. PICK r \in RequestState :
           /\ request' = [request EXCEPT ![h] = r]
           /\ r.pc = "loading" /\ r.voucher = v /\ r.retry = request[h].retry
  BY <1>0, <1>1, GoesType
<1>3. tasks[v] \in Task
  BY <1>0, <1>1 DEF DevShape, DevTypeOK
<1>4. PICK t \in Task : t = [tasks[v] EXCEPT !.stage = "active"]
  BY <1>3 DEF Task, Stage
<1>5. t.public = tasks[v].public /\ tasks' = [tasks EXCEPT ![v] = t]
  BY <1>0, <1>1, <1>3, <1>4 DEF Reset, Task, DevShape, DevTypeOK
<1>6. RowsGrow /\ RowsOK' /\ Exists(v)' /\ tasks' \in [Voucher -> Task \union {None}]
  BY <1>0, <1>1, <1>5, TaskWritten
<1>7. HandlerOK(r)'
  BY <1>0, <1>1, <1>2, <1>6 DEF HandlerOK, Exists, Reading, OnTask, Chosen
<1>8. QED  BY <1>0, <1>1, <1>2, <1>6, <1>7, HandlerMoves DEF Kept, DevShape, DevTypeOK

LEMMA LoadKeeps ==
  ASSUME DevShape, NEW h \in Request, Load(h)
  PROVE  Kept
<1>1. Exists(request[h].voucher) /\ ~request[h].retry
  BY DEF Load, DevShape, HandlersOK, HandlerOK, OnTask
<1>2. QED  BY <1>1, LastOK DEF Load, Exists

LEMMA NameKeeps ==
  ASSUME DevShape, NEW h \in Request, Name(h)
  PROVE  Kept
<1>0. PICK v \in Voucher : v = request[h].task
  BY DEF Name, DevShape, HandlersOK, HandlerOK, Chosen, Exists
<1>1. /\ v \in Voucher /\ tasks[v] # None /\ v = request[h].voucher /\ ~request[h].retry
      /\ idem' = idem /\ Goes(h, Last(h))
  BY <1>0 DEF Name, DevShape, HandlersOK, HandlerOK, Chosen, Exists
<1>2. PICK p \in Fresh : tasks' = [tasks EXCEPT ![v].public = p]
  BY <1>0 DEF Name
<1>3. tasks[v] \in Task
  BY <1>0, <1>1 DEF DevShape, DevTypeOK
<1>4. PICK t \in Task : t = [tasks[v] EXCEPT !.public = p]
  BY <1>3, FreshId DEF Task
<1>5. t.public = p /\ p # None /\ tasks' = [tasks EXCEPT ![v] = t]
  BY <1>0, <1>1, <1>2, <1>3, <1>4, FreshId DEF Task, DevShape, DevTypeOK
<1>6. /\ RowsGrow /\ RowsOK' /\ Exists(v)' /\ tasks'[v] = t
      /\ tasks' \in [Voucher -> Task \union {None}]
  BY <1>0, <1>1, <1>5, TaskWritten
<1>7. PICK r \in RequestState :
           /\ request' = [request EXCEPT ![h] = r]
           /\ r.pc = Last(h) /\ r.voucher = v /\ r.task = v
           /\ r.idem = request[h].idem /\ r.retry = request[h].retry
  <2>1. PICK l \in {"recording", "answering"} : l = Last(h)
    BY DEF Last
  <2>2. Goes(h, l)
    BY <1>1, <2>1
  <2>3. PICK r \in RequestState :
           /\ request' = [request EXCEPT ![h] = r]
           /\ r.pc = l /\ r.voucher = request[h].voucher /\ r.task = request[h].task
           /\ r.idem = request[h].idem /\ r.retry = request[h].retry
    BY <2>2, GoesType
  <2>4. QED  BY <1>0, <1>1, <2>1, <2>3
<1>8. HandlerOK(r)'
  BY <1>0, <1>1, <1>5, <1>6, <1>7 DEF HandlerOK, Last, HasId, Exists, Reading, OnTask, Chosen
<1>9. QED  BY <1>0, <1>1, <1>6, <1>7, <1>8, HandlerMoves DEF Kept, DevShape, DevTypeOK

LEMMA RecordKeeps ==
  ASSUME DevShape, NEW h \in Request, Record(h)
  PROVE  Kept
<1>1. request[h] \in RequestState /\ tasks' = tasks /\ request[h].pc = "recording"
  BY DEF Record, DevShape, DevTypeOK
<1>2. CASE idem[request[h].idem] # None /\ Ends(h) /\ UNCHANGED idem
  BY <1>1, <1>2, EndsKept
<1>3. CASE /\ idem[request[h].idem] = None
           /\ idem' = [idem EXCEPT ![request[h].idem] =
                          [body |-> request[h].voucher, task |-> request[h].task]]
           /\ Goes(h, "answering")
  <2>1. PICK v \in Voucher, i \in IdemKey :
          v = request[h].task /\ v = request[h].voucher /\ i = request[h].idem
    BY <1>1 DEF DevShape, HandlersOK, HandlerOK, Chosen, Exists, RequestState
  <2>2. HasId(v) /\ ~request[h].retry /\ i # None
    BY <1>1, <2>1 DEF DevShape, HandlersOK, HandlerOK
  <2>3. PICK row \in IdemRow : row = [body |-> v, task |-> v]
    BY DEF IdemRow
  <2>4. row # None /\ row.body = v /\ row.task = v
    BY <2>3, RowAssumption
  <2>5. idem' = [idem EXCEPT ![i] = row] /\ idem[i] = None
    BY <1>3, <2>1, <2>3
  <2>6. idem \in [IdemKey -> IdemRow \union {None}]
    BY DEF DevShape, DevTypeOK
  <2>7. RowsGrow
    BY <1>1, <2>5, <2>6 DEF RowsGrow
  <2>8. RowsOK'
    BY <1>1, <2>2, <2>4, <2>5, <2>6 DEF RowsOK, DevShape, HasId, Exists
  <2>9. PICK r \in RequestState :
           /\ request' = [request EXCEPT ![h] = r]
           /\ r.pc = "answering" /\ r.voucher = v /\ r.task = v
           /\ r.idem = i /\ r.retry = request[h].retry
    <3>1. Goes(h, "answering")
      BY <1>3
    <3>2. PICK r \in RequestState :
           /\ request' = [request EXCEPT ![h] = r]
           /\ r.pc = "answering" /\ r.voucher = request[h].voucher
           /\ r.task = request[h].task
           /\ r.idem = request[h].idem /\ r.retry = request[h].retry
      BY <3>1, GoesType
    <3>3. QED  BY <2>1, <3>2
  <2>10. idem'[i] = row
    BY <2>5, <2>6
  <2>11. HasId(v)'
    BY <1>1, <2>2 DEF HasId, Exists
  <2>12. HandlerOK(r)'
    BY <2>2, <2>4, <2>9, <2>10, <2>11 DEF HandlerOK, HasId, Exists, Reading, OnTask, Chosen
  <2>13. idem' \in [IdemKey -> IdemRow \union {None}]
    BY <2>5, <2>6
  <2>14. QED
    BY <1>1, <2>7, <2>8, <2>9, <2>12, <2>13, HandlerMoves DEF Kept, DevShape, DevTypeOK
<1>4. QED  BY <1>2, <1>3 DEF Record

LEMMA WaitBeginKeeps ==
  ASSUME DevShape, NEW h \in Request, WaitBegin(h)
  PROVE  Kept
<1>1. /\ UNCHANGED <<tasks, idem>> /\ request[h] \in RequestState
      /\ request[h].pc = "admitted" /\ ~request[h].retry
  BY DEF WaitBegin, DevShape, DevTypeOK, HandlersOK, HandlerOK
<1>2. PICK v \in Voucher :
         /\ tasks[v] # None
         /\ IF tasks[v].stage # "active" THEN Ends(h)
            ELSE request' = [request EXCEPT ![h].pc = "waiting", ![h].task = v,
                                            ![h].stage = tasks[v].stage]
  BY DEF WaitBegin
<1>3. CASE tasks[v].stage # "active"
  BY <1>1, <1>2, <1>3, EndsKept
<1>4. CASE tasks[v].stage = "active"
  <2>1. PICK s \in Stage : s = tasks[v].stage
    BY <1>4 DEF Stage
  <2>2. PICK r \in RequestState :
          r = [request[h] EXCEPT !.pc = "waiting", !.task = v, !.stage = s]
    BY <1>1 DEF RequestState
  <2>3. r.pc = "waiting" /\ r.task = v /\ r.retry = request[h].retry
    BY <1>1, <2>2 DEF RequestState
  <2>4. HandlerOK(r)
    BY <1>1, <1>2, <2>3 DEF HandlerOK, Exists, Reading, OnTask, Chosen
  <2>5. request' = [request EXCEPT ![h] = r]
    BY <1>2, <1>4, <2>1, <2>2 DEF DevShape, DevTypeOK
  <2>6. QED  BY <1>1, <2>4, <2>5, ReadsOK
<1>5. QED  BY <1>3, <1>4

LEMMA StepKeeps ==
  ASSUME DevShape, NEW h \in Request, DevStep(h)
  PROVE  Kept
<1>1. CASE Reply(h) \/ WaitGivesUp(h) \/ Dies(h)
  BY <1>1, EndsKept DEF Reply, WaitGivesUp, Dies
<1>2. QED
  BY <1>1, ArriveKeeps, AuthenticateKeeps, LimitVoucherKeeps, LookupKeeps, InsertKeeps,
     ResetKeeps, LoadKeeps, NameKeeps, RecordKeeps, WaitBeginKeeps DEF DevStep

LEMMA RestKeeps ==
  ASSUME DevShape, UNCHANGED <<tasks, idem, request>>
  PROVE  Kept
<1>1. RowsGrow
  BY DEF RowsGrow
<1>2. QED
  BY <1>1, RowsKept, HandlersStay DEF Kept, DevShape, DevTypeOK

LEMMA OthersKeep ==
  ASSUME DevShape, Others
  PROVE  Kept
<1>1. UNCHANGED <<idem, request>>
  BY DEF Others
<1>2. PICK v \in Voucher :
         \/ /\ tasks[v] = None
            /\ tasks' = [tasks EXCEPT ![v] = [public |-> None, stage |-> "active"]]
         \/ /\ tasks[v] # None
            /\ \E s \in Stage \ {tasks[v].stage} : tasks' = [tasks EXCEPT ![v].stage = s]
  BY DEF Others
<1>3. \E t \in Task :
         /\ tasks' = [tasks EXCEPT ![v] = t]
         /\ tasks[v] # None /\ tasks[v].public # None => t.public # None
  <2>1. CASE tasks[v] = None
    <3>1. PICK t \in Task : t = [public |-> None, stage |-> "active"]
      BY DEF Task, Stage
    <3>2. QED  BY <1>2, <2>1, <3>1
  <2>2. CASE tasks[v] # None
    <3>1. tasks[v] \in Task
      BY <2>2 DEF DevShape, DevTypeOK
    <3>2. PICK s \in Stage : tasks' = [tasks EXCEPT ![v].stage = s]
      BY <1>2, <2>2
    <3>3. PICK t \in Task : t = [tasks[v] EXCEPT !.stage = s]
      BY <3>1 DEF Task
    <3>4. t.public = tasks[v].public
      BY <3>1, <3>3 DEF Task
    <3>5. tasks' = [tasks EXCEPT ![v] = t]
      BY <3>2, <3>3 DEF DevShape, DevTypeOK
    <3>6. QED  BY <3>4, <3>5
  <2>3. QED  BY <2>1, <2>2
<1>4. RowsGrow /\ RowsOK' /\ tasks' \in [Voucher -> Task \union {None}]
  BY <1>1, <1>3, TaskWritten
<1>5. QED  BY <1>1, <1>4, HandlersStay DEF Kept, DevShape, DevTypeOK

-----------------------------------------------------------------------------
(* DevSecurity's part of a step, and the answers.                            *)

LEMMA StepSecure ==
  ASSUME DevShape, Counting, Remembering, NEW h \in Request, DevStep(h)
  PROVE  SecurityTypeOK' /\ Counting' /\ Remembering'
<1>0. SecurityTypeOK
  BY DEF DevShape, DevTypeOK
<1>1. CASE UNCHANGED security
  BY <1>0, <1>1, SecurityRest
<1>2. CASE Authenticate(h) /\ ~UNCHANGED security
  <2>1. PICK m, a, w : /\ m = <<request[h].key, request[h].ts, request[h].nonce>>
                       /\ a = request[h].address /\ w = Window(request[h].at)
    OBVIOUS
  <2>2. Admit(m, a, w)
    BY <1>2, <2>1 DEF Authenticate
  <2>3. request[h] \in RequestState /\ request[h].pc = "arrived"
    BY <1>2 DEF Authenticate, DevShape, DevTypeOK
  <2>4. m \in Signature
    BY <2>1, <2>3 DEF Signature, DevShape, HandlersOK, HandlerOK, RequestState
  <2>5. QED  BY <1>0, <2>2, <2>4, AdmitKeeps
<1>3. CASE LimitVoucher(h)
  <2>1. PICK v \in Voucher : CountVoucher(v)
    BY <1>3 DEF LimitVoucher
  <2>2. QED  BY <1>0, <2>1, CountVoucherKeeps
<1>4. QED
  BY <1>1, <1>2, <1>3 DEF DevStep, Arrive, Lookup, Insert, Reset, Load, Name, Record,
     Reply, WaitBegin, WaitGivesUp, Dies

LEMMA AnswersKept ==
  ASSUME DevShape, Kept, Answers, answers' = answers
  PROVE  answers' \subseteq ReplyType /\ Answers'
<1>1. answers \subseteq ReplyType
  BY DEF DevShape, DevTypeOK
<1>2. ASSUME NEW a \in answers, a.idem # None
      PROVE  idem'[a.idem] = idem[a.idem]
  BY <1>1, <1>2 DEF ReplyType, Answers, AnswersRecorded, Kept, RowsGrow
<1>3. QED  BY <1>1, <1>2 DEF Answers, AnswersRecorded, AnswersOwnVoucher

LEMMA ReplyAnswers ==
  ASSUME DevShape, Answers, NEW h \in Request, Reply(h)
  PROVE  answers' \subseteq ReplyType /\ Answers'
<1>1. PICK v, i : v = request[h].task /\ i = request[h].idem
  OBVIOUS
<1>2. /\ HasId(v) /\ v = request[h].voucher /\ i \in IdemKey \union {None}
      /\ i # None => idem[i] # None /\ idem[i].task = v
  BY <1>1 DEF Reply, DevShape, DevTypeOK, HandlersOK, HandlerOK, Chosen, RequestState
<1>3. tasks[v].public \in PublicId /\ v \in Voucher
  BY <1>2 DEF HasId, Exists, DevShape, DevTypeOK, Task
<1>4. PICK a \in ReplyType :
        a = [idem |-> i, voucher |-> v, task |-> v, public |-> tasks[v].public]
  BY <1>2, <1>3 DEF ReplyType
<1>5. a.idem = i /\ a.voucher = v /\ a.task = v
  BY <1>4
<1>6. answers' = answers \union {a} /\ idem' = idem
  BY <1>1, <1>2, <1>4 DEF Reply
<1>7. QED
  BY <1>2, <1>5, <1>6 DEF DevShape, DevTypeOK, Answers, AnswersRecorded, AnswersOwnVoucher

-----------------------------------------------------------------------------
(* The inductive invariant.                                                  *)
DevInv == DevShape /\ Counting /\ Remembering /\ Answers

LEMMA InitInv == DevInit => DevInv
<1> SUFFICES ASSUME DevInit PROVE DevInv
  OBVIOUS
<1>1. NoTally \in Tally /\ \A s \in Counted, w \in Instant : NoTally[s][w] = 0
  BY DEF NoTally, Tally
<1>2. SecurityTypeOK
  BY <1>1, SecurityAssumption DEF DevInit, SecurityInit, SecurityTypeOK, Instant
<1>3. Counting /\ Remembering
  BY <1>1, LimitType DEF DevInit, SecurityInit, Counting, LimitsKept, Remembering, AdmittedOnce
<1>4. NoRequest \in RequestState /\ HandlerOK(NoRequest)
  BY EndsType DEF NoRequest, HandlerOK, Reading, OnTask, Chosen
<1>5. HandlersOK /\ request \in [Request -> RequestState]
  BY <1>4 DEF DevInit, HandlersOK
<1>6. RowsOK /\ Answers /\ answers \subseteq ReplyType
  BY DEF DevInit, RowsOK, Answers, AnswersRecorded, AnswersOwnVoucher
<1>7. /\ tasks \in [Voucher -> Task \union {None}]
      /\ idem \in [IdemKey -> IdemRow \union {None}]
  BY DEF DevInit
<1>8. QED  BY <1>2, <1>3, <1>5, <1>6, <1>7 DEF DevInv, DevShape, DevTypeOK

LEMMA NextInv == DevInv /\ [DevNext]_devVars => DevInv'
<1> SUFFICES ASSUME DevInv, [DevNext]_devVars PROVE DevInv'
  OBVIOUS
<1>0. DevShape /\ Counting /\ Remembering /\ Answers /\ SecurityTypeOK
  BY DEF DevInv, DevShape, DevTypeOK
<1>1. Kept
  BY <1>0, StepKeeps, RestKeeps, OthersKeep DEF DevNext, devVars
<1>2. SecurityTypeOK' /\ Counting' /\ Remembering'
  BY <1>0, StepSecure, SecurityRest DEF DevNext, devVars, Others
<1>3. answers' \subseteq ReplyType /\ Answers'
  <2>1. CASE answers' = answers
    BY <1>0, <1>1, <2>1, AnswersKept
  <2>2. CASE \E h \in Request : Reply(h)
    BY <1>0, <2>2, ReplyAnswers
  <2>3. QED
    BY <2>1, <2>2 DEF DevNext, DevStep, devVars, Others, Arrive, Authenticate, LimitVoucher,
       Lookup, Insert, Reset, Load, Name, Record, WaitBegin, WaitGivesUp, Dies
<1>4. QED  BY <1>1, <1>2, <1>3 DEF DevInv, DevShape, DevTypeOK, Kept

THEOREM DevInvariant == DevSpec => []DevInv
<1>1. QED  BY InitInv, NextInv, PTL DEF DevSpec

(* Every state of the developer API is well typed.                           *)
THEOREM DevTypeCorrect == DevSpec => []DevTypeOK
<1>1. DevInv => DevTypeOK
  BY DEF DevInv, DevShape
<1>2. QED  BY <1>1, DevInvariant, PTL

(* However a signed request is delivered again, it is admitted once.         *)
THEOREM AdmittedOnceHolds == DevSpec => []AdmittedOnce
<1>1. DevInv => AdmittedOnce
  BY DEF DevInv, Remembering
<1>2. QED  BY <1>1, DevInvariant, PTL

(* No window lets pass more than the limit of a key, an address, a voucher.  *)
THEOREM LimitsHold == DevSpec => []LimitsKept
<1>1. DevInv => LimitsKept
  BY DEF DevInv, Counting
<1>2. QED  BY <1>1, DevInvariant, PTL

(* A successful answer of create under an idempotency key is on record with  *)
(* the task it names, so that a retry is answered with the same task.        *)
THEOREM AnswersOnRecord == DevSpec => []AnswersRecorded
<1>1. DevInv => AnswersRecorded
  BY DEF DevInv, Answers
<1>2. QED  BY <1>1, DevInvariant, PTL

(* An answer of create names the task of the voucher that was asked for.     *)
THEOREM AnswersOwn == DevSpec => []AnswersOwnVoucher
<1>1. DevInv => AnswersOwnVoucher
  BY DEF DevInv, Answers
<1>2. QED  BY <1>1, DevInvariant, PTL

(* A retry whose key is on record starts, resets and renames nothing.        *)
THEOREM RetriesQuiet == DevSpec => []RetryNeverActs
<1>1. DevInv => RetryNeverActs
  BY DEF DevInv, DevShape, HandlersOK, HandlerOK, RetryNeverActs, Acting
<1>2. QED  BY <1>1, DevInvariant, PTL
=============================================================================
