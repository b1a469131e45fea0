----------------------------- MODULE AdminProofs ----------------------------
(***************************************************************************)
(* Proofs about AdminApi, for any number of requests, payloads and keys:   *)
(* the tables and who may change them, the counts of the batches, the      *)
(* configuration in force and its history, the audit log, and the codes,   *)
(* from the encoder of Vouchers to the table.                              *)
(***************************************************************************)
EXTENDS AdminApi, SequenceTheorems, FiniteSetTheorems, FunctionTheorems, WellFoundedInduction,
        TLAPS

GenerateFields == {"phase", "payload", "batch", "inserted", "todo", "log"}
ChangeFields ==
    {"phase", "step", "on", "wanted", "loaded", "by", "row", "log", "entry"}

(* What a request holds while it is served.                                  *)
Holds(r) ==
    \/ r = Idle
    \/ /\ r.phase \in {"drawing", "inserting", "logged"}
       /\ DOMAIN r = GenerateFields
       /\ r.batch \in DOMAIN batches /\ r.payload \in Payload
       /\ batches[r.batch].state = "open"
    \/ /\ r.phase = "upsert" /\ DOMAIN r = ChangeFields
       /\ r.on = "sku" /\ r.by \in Nat
       /\ r.wanted \in Config /\ r.loaded \in Config \union {None}
       /\ r.row \in Config \union {None}
       /\ r.loaded # None => config # None
    \/ /\ r.phase = "key" /\ DOMAIN r = ChangeFields
       /\ r.on \in DevKey /\ r.by \in Nat
       /\ r.wanted \in BOOLEAN /\ r.row \in BOOLEAN \union {None}

BatchRow == [payload : Payload, state : RowState]
HistoryRow == [config : Config, changed : SUBSET Columns, by : Nat, state : RowState]

Logs == {"generate", "upsert", "key"}
GenerateLogRow == [batch : Nat, payload : Payload, state : RowState]
UpsertLogRow == [config : Config, by : Nat, state : RowState]
KeyLogRow == [key : DevKey, enabled : BOOLEAN, by : Nat, state : RowState]
LogRow(action) ==
    IF action = "generate" THEN GenerateLogRow
    ELSE IF action = "upsert" THEN UpsertLogRow ELSE KeyLogRow

AuditTyped ==
    /\ audit = [action \in Logs |-> audit[action]]
    /\ \A action \in Logs : audit[action] \in Seq(LogRow(action))

RowsTyped ==
    /\ batches \in Seq(BatchRow)
    /\ config \in Config \union {None}
    /\ history \in Seq(HistoryRow)
    /\ enabled \in [DevKey -> BOOLEAN \union {None}]
    /\ DOMAIN request = Request
    /\ request = [h \in Request |-> request[h]]
    /\ served \in 0 .. MaxRequests /\ failures \in 0 .. MaxFailures

(* The open batches are the ones of the requests that generate, one each.    *)
BatchesServed ==
    /\ \A h \in Request : Holds(request[h])
    /\ \A g, h \in Request : Generating(g) /\ Generating(h)
                             /\ request[g].batch = request[h].batch => g = h
    /\ \A b \in DOMAIN batches : batches[b].state = "open" =>
         \E h \in Request : Generating(h) /\ request[h].batch = b

VouchersKept ==
    \A v \in vouchers : /\ v.batch \in DOMAIN batches
                        /\ batches[v.batch].state \in {"open", "committed"}

AdminInv == RowsTyped /\ AuditTyped /\ BatchesServed /\ VouchersKept /\ CodesOnce

LEMMA AdminInitInv == AdminInit => AdminInv
<1> SUFFICES ASSUME AdminInit PROVE AdminInv
  OBVIOUS
<1> USE DEF AdminInit
<1>1. RowsTyped
  BY BoundAssumption DEF RowsTyped
<1>2. BatchesServed
  BY DEF BatchesServed, Holds, Idle, Generating
<1>3. VouchersKept /\ CodesOnce
  BY DEF VouchersKept, CodesOnce
<1>4. AuditTyped
  BY DEF AuditTyped, Logs
<1> QED BY <1>1, <1>2, <1>3, <1>4 DEF AdminInv

LEMMA InvTypeOK == AdminInv => AdminTypeOK
<1> SUFFICES ASSUME AdminInv PROVE AdminTypeOK
  OBVIOUS
<1> USE DEF AdminInv
<1>1. \A b \in DOMAIN batches : batches[b] \in BatchRow
  BY DEF RowsTyped
<1>2. \A b \in DOMAIN batches : batches[b].state = "open" <=>
        \E h \in Request : Generating(h) /\ request[h].batch = b
  BY DEF BatchesServed, Holds, Generating, Idle
<1>3. \A i \in DOMAIN history : history[i] \in HistoryRow
  BY DEF RowsTyped
<1>4. \A h \in Request : request[h].phase \in
         {"idle", "drawing", "inserting", "logged", "upsert", "key"}
  BY DEF BatchesServed, Holds, Idle
<1> QED BY <1>1, <1>2, <1>3, <1>4
        DEF AdminTypeOK, VouchersKept, RowsTyped, BatchRow, HistoryRow

-----------------------------------------------------------------------------
(* A request goes on, and no batch is opened or closed by it.                *)
Generates(r) == r.phase \in {"drawing", "inserting", "logged"}

Moves(h, r) ==
    /\ request' = [request EXCEPT ![h] = r]
    /\ Holds(r)'
    /\ Generates(r) <=> Generating(h)
    /\ Generates(r) => r.batch = request[h].batch

LEMMA RequestMoves ==
    ASSUME AdminInv, NEW h \in Request, NEW r, Moves(h, r), batches' = batches,
           config' = config \/ config' # None
    PROVE  BatchesServed' /\ DOMAIN request' = Request
             /\ request' = [g \in Request |-> request'[g]]
<1> USE DEF AdminInv, RowsTyped, Moves
<1>1. DOMAIN request' = Request /\ request' = [g \in Request |-> request'[g]]
  OBVIOUS
<1>2. \A g \in Request : request'[g] = IF g = h THEN r ELSE request[g]
  OBVIOUS
<1>3. ASSUME NEW g \in Request PROVE Holds(request[g])'
  <2>1. CASE g = h
    BY <2>1, <1>2
  <2>2. CASE g # h
    <3>1. request'[g] = request[g] /\ Holds(request[g])
      BY <2>2, <1>2 DEF BatchesServed
    <3> QED BY <3>1 DEF Holds
  <2> QED BY <2>1, <2>2
<1>4. \A g \in Request : Generating(g)' <=> Generating(g)
  BY <1>2 DEF Generating, Generates
<1>5. \A g \in Request : Generating(g) => request'[g].batch = request[g].batch
  BY <1>2 DEF Generating, Generates
<1> QED BY <1>1, <1>3, <1>4, <1>5 DEF BatchesServed

(* What needs a look besides: each of the other rows that a step changes.    *)
LEMMA NothingElse ==
    ASSUME AdminInv, NEW h \in Request, NEW r, Moves(h, r), UNCHANGED tables,
           served' \in 0 .. MaxRequests, failures' \in 0 .. MaxFailures
    PROVE  AdminInv'
<1>1. BatchesServed' /\ DOMAIN request' = Request
        /\ request' = [g \in Request |-> request'[g]]
  BY RequestMoves DEF tables
<1> QED BY <1>1 DEF AdminInv, RowsTyped, AuditTyped, VouchersKept, CodesOnce, tables

-----------------------------------------------------------------------------
(* One lemma per action.                                                     *)
LEMMA OpenBatch ==
    ASSUME AdminInv, NEW h \in Request, Generating(h)
    PROVE  /\ DOMAIN request[h] = GenerateFields
           /\ request[h].batch \in DOMAIN batches
           /\ batches[request[h].batch].state = "open"
           /\ request[h].payload \in Payload
BY DEF AdminInv, BatchesServed, Holds, Generating, Idle

LEMMA DrawCodesKeeps ==
    ASSUME AdminInv, NEW h \in Request, NEW candidates, DrawCodes(h, candidates)
    PROVE  AdminInv'
<1>1. PICK r : r = [request[h] EXCEPT !.phase = "inserting", !.todo = Sorted(candidates)]
  OBVIOUS
<1>2. Generating(h)
  BY DEF DrawCodes, Drawing, Generating
<1>3. /\ DOMAIN r = GenerateFields /\ r.phase = "inserting"
      /\ r.batch = request[h].batch /\ r.payload \in Payload
  BY <1>1, <1>2, OpenBatch DEF GenerateFields
<1>4. UNCHANGED tables /\ UNCHANGED <<served, failures>>
  BY DEF DrawCodes, To
<1>5. Holds(r)'
  BY <1>2, <1>3, <1>4, OpenBatch DEF Holds, tables
<1>6. Moves(h, r)
  BY <1>1, <1>2, <1>3, <1>5 DEF Moves, DrawCodes, To, Generates
<1> QED BY <1>4, <1>6, NothingElse DEF AdminInv, RowsTyped

LEMMA InsertRowKeeps ==
    ASSUME AdminInv, NEW h \in Request, InsertRow(h)
    PROVE  AdminInv'
<1> DEFINE code == Head(request[h].todo)
           own  == {v \in vouchers' : v.batch = request[h].batch}
           rest == Tail(request[h].todo)
<1>1. PICK r : r = IF rest # <<>> THEN [request[h] EXCEPT !.todo = rest]
                   ELSE [request[h] EXCEPT !.todo = rest, !.phase = "drawing",
                                           !.inserted = Cardinality(own)]
  OBVIOUS
<1>2. Generating(h)
  BY DEF InsertRow, Inserting, Generating
<1>3. /\ DOMAIN r = GenerateFields /\ Generates(r)
      /\ r.batch = request[h].batch /\ r.payload \in Payload
  BY <1>1, <1>2, OpenBatch DEF GenerateFields, Generates, InsertRow, Inserting
<1>4. /\ vouchers' = IF Stored(code) # {} THEN vouchers
                     ELSE vouchers \union {[code |-> code, batch |-> request[h].batch]}
      /\ request' = [request EXCEPT ![h] = r]
      /\ UNCHANGED <<batches, config, history, enabled, audit, served, failures>>
  BY <1>1 DEF InsertRow, To
<1>5. Holds(r)'
  BY <1>2, <1>3, <1>4, OpenBatch DEF Holds, Generates
<1>6. Moves(h, r)
  BY <1>2, <1>3, <1>4, <1>5 DEF Moves, Generates, Generating
<1>7. BatchesServed' /\ DOMAIN request' = Request
        /\ request' = [g \in Request |-> request'[g]]
  BY <1>4, <1>6, RequestMoves
<1>8. VouchersKept' /\ CodesOnce'
  BY <1>2, <1>4, OpenBatch DEF VouchersKept, CodesOnce, AdminInv, Stored
<1> QED BY <1>4, <1>7, <1>8 DEF AdminInv, RowsTyped, AuditTyped

(* A sequence whose elements are replaced one for one.                       *)
LEMMA SameLength ==
    ASSUME NEW S, NEW s \in Seq(S), NEW t, t = [i \in DOMAIN s |-> t[i]],
           \A i \in DOMAIN s : t[i] \in S
    PROVE  t \in Seq(S) /\ DOMAIN t = DOMAIN s
<1>1. PICK n \in Nat : DOMAIN s = 1 .. n
  OBVIOUS
<1>2. DOMAIN t = 1 .. n /\ t = [i \in 1 .. n |-> t[i]] /\ \A i \in 1 .. n : t[i] \in S
  BY <1>1
<1>3. t \in [1 .. n -> S]
  BY <1>2
<1> QED BY <1>1, <1>2, <1>3

(* The batch h has open, and no other, gets another state.                   *)
LEMMA BatchEnds ==
    ASSUME AdminInv, NEW h \in Request, Generating(h), NEW s \in {"committed", "none"},
           batches' = [batches EXCEPT ![request[h].batch].state = s],
           request' = [request EXCEPT ![h] = Idle],
           UNCHANGED config
    PROVE  /\ BatchesServed' /\ DOMAIN request' = Request
           /\ request' = [g \in Request |-> request'[g]]
           /\ batches' \in Seq(BatchRow) /\ DOMAIN batches' = DOMAIN batches
           /\ \A b \in DOMAIN batches :
                batches'[b].state = IF b = request[h].batch THEN s ELSE batches[b].state
<1> DEFINE mine == request[h].batch
<1> USE DEF AdminInv, RowsTyped
<1>1. DOMAIN request' = Request /\ request' = [g \in Request |-> request'[g]]
  OBVIOUS
<1>2. \A g \in Request : request'[g] = IF g = h THEN Idle ELSE request[g]
  OBVIOUS
<1>3. mine \in DOMAIN batches
  BY OpenBatch
<1>4. \A b \in DOMAIN batches : batches[b] \in BatchRow
  OBVIOUS
<1>5. \A b \in DOMAIN batches :
        batches'[b] = IF b = mine THEN [batches[b] EXCEPT !.state = s] ELSE batches[b]
  BY <1>3
<1>6. \A b \in DOMAIN batches :
        batches'[b] \in BatchRow /\ batches'[b].state = IF b = mine THEN s ELSE batches[b].state
  BY <1>4, <1>5 DEF BatchRow, RowState
<1>7. batches' \in Seq(BatchRow) /\ DOMAIN batches' = DOMAIN batches
  <2>1. PICK old, new : old = batches /\ new = batches'
    OBVIOUS
  <2>2. new = [b \in DOMAIN old |-> new[b]]
    BY <2>1
  <2>3. old \in Seq(BatchRow) /\ \A b \in DOMAIN old : new[b] \in BatchRow
    BY <1>6, <2>1
  <2>4. new \in Seq(BatchRow) /\ DOMAIN new = DOMAIN old
    BY <2>2, <2>3, SameLength
  <2> QED BY <2>1, <2>4
<1>8. ASSUME NEW g \in Request PROVE Holds(request[g])'
  <2>1. CASE g = h
    BY <2>1, <1>2 DEF Holds
  <2>2. CASE g # h
    <3>1. request'[g] = request[g] /\ Holds(request[g])
      BY <2>2, <1>2 DEF BatchesServed
    <3>2. Generating(g) => request[g].batch # mine
      BY <2>2 DEF BatchesServed
    <3> QED BY <3>1, <3>2, <1>6, <1>7 DEF Holds, Generating
  <2> QED BY <2>1, <2>2
<1>9. \A g \in Request : Generating(g)' <=> Generating(g) /\ g # h
  BY <1>2 DEF Generating, Idle
<1>10. ASSUME NEW b \in DOMAIN batches', batches'[b].state = "open"
       PROVE  \E g \in Request : Generating(g)' /\ request'[g].batch = b
  <2>1. b # mine /\ batches[b].state = "open"
    BY <1>6, <1>7, <1>10
  <2>2. PICK g \in Request : Generating(g) /\ request[g].batch = b
    BY <2>1, <1>7 DEF BatchesServed
  <2> QED BY <2>1, <2>2, <1>2, <1>9
<1>11. \A f, g \in Request : Generating(f)' /\ Generating(g)'
                               /\ request'[f].batch = request'[g].batch => f = g
  BY <1>2, <1>9 DEF BatchesServed
<1> QED BY <1>1, <1>6, <1>7, <1>8, <1>10, <1>11 DEF BatchesServed

(* A row that gets its end keeps its place and all but its state.            *)
Ended(fields, rows, new, id, t) ==
    /\ DOMAIN new = DOMAIN rows
    /\ \A i \in DOMAIN rows : /\ new[i].state = IF i = id THEN t ELSE rows[i].state
                             /\ \A f \in fields : new[i][f] = rows[i][f]

StateApart(S, fields, t) ==
    \A x \in S : /\ [x EXCEPT !.state = t] \in S
                 /\ "state" \in DOMAIN x /\ fields \subseteq DOMAIN x \ {"state"}

LEMMA SettledRows ==
    ASSUME NEW S, NEW rows \in Seq(S), NEW id, NEW t, NEW new, new = Settled(rows, id, t),
           NEW fields, StateApart(S, fields, t)
    PROVE  /\ new \in Seq(S) /\ Ended(fields, rows, new, id, t)
           /\ id \notin DOMAIN rows => new = rows
<1>1. PICK n \in Nat : DOMAIN rows = 1 .. n /\ n = Len(rows)
  OBVIOUS
<1>2. \A i \in 1 .. n : rows[i] \in S
  BY <1>1
<1>3. new = [i \in 1 .. n |-> IF i = id THEN [rows[i] EXCEPT !.state = t] ELSE rows[i]]
  BY <1>1 DEF Settled
<1>4. new \in [1 .. n -> S]
  BY <1>2, <1>3 DEF StateApart
<1>5. new \in Seq(S) /\ DOMAIN new = 1 .. n
  BY <1>4
<1>6. ASSUME NEW i \in 1 .. n
      PROVE  /\ new[i].state = IF i = id THEN t ELSE rows[i].state
             /\ \A f \in fields : new[i][f] = rows[i][f]
  <2>1. PICK x : x = rows[i] /\ x \in S
    BY <1>2
  <2>2. /\ [x EXCEPT !.state = t].state = t
        /\ \A f \in fields : [x EXCEPT !.state = t][f] = x[f]
    BY <2>1 DEF StateApart
  <2>3. new[i] = IF i = id THEN [x EXCEPT !.state = t] ELSE x
    BY <1>3, <2>1
  <2> QED BY <2>1, <2>2, <2>3
<1>7. id \notin 1 .. n => new = rows
  <2> SUFFICES ASSUME id \notin 1 .. n PROVE new = rows
    OBVIOUS
  <2>1. \A i \in 1 .. n : new[i] = rows[i]
    BY <1>3
  <2>2. Len(new) = n /\ Len(rows) = n
    BY <1>1, <1>4
  <2> QED BY <1>1, <1>5, <2>1, <2>2, SeqEqual
<1> QED BY <1>1, <1>5, <1>6, <1>7 DEF Ended

HistoryFields == {"config", "changed", "by"}
RowFields(action) ==
    IF action = "generate" THEN {"batch", "payload"}
    ELSE IF action = "upsert" THEN {"config", "by"} ELSE {"key", "enabled", "by"}

LEMMA HistorySettles ==
    ASSUME AdminInv, NEW id, NEW t \in RowState, history' = Settled(history, id, t)
    PROVE  /\ history' \in Seq(HistoryRow)
           /\ Ended(HistoryFields, history, history', id, t)
           /\ id \notin DOMAIN history => history' = history
<1>1. history \in Seq(HistoryRow)
  BY DEF AdminInv, RowsTyped
<1>2. StateApart(HistoryRow, HistoryFields, t)
  BY DEF StateApart, HistoryRow, HistoryFields
<1>3. PICK new, fields, S : new = history' /\ fields = HistoryFields /\ S = HistoryRow
  OBVIOUS
<1> QED BY <1>1, <1>2, <1>3, SettledRows

LEMMA AuditSettles ==
    ASSUME AdminInv, NEW action \in Logs, NEW id, NEW t \in RowState,
           audit' = [audit EXCEPT ![action] = Settled(@, id, t)]
    PROVE  /\ AuditTyped'
           /\ \A other \in Logs : other # action => audit'[other] = audit[other]
           /\ Ended(RowFields(action), audit[action], audit'[action], id, t)
           /\ id \notin DOMAIN audit[action] => audit' = audit
<1>1. /\ audit = [other \in Logs |-> audit[other]]
      /\ \A other \in Logs : audit[other] \in Seq(LogRow(other))
  BY DEF AdminInv, AuditTyped
<1>2. PICK new, rows, S, fields : /\ new = Settled(audit[action], id, t) /\ rows = audit[action]
                                  /\ S = LogRow(action) /\ fields = RowFields(action)
  OBVIOUS
<1>3. /\ audit' = [other \in Logs |-> audit'[other]] /\ audit'[action] = new
      /\ \A other \in Logs : other # action => audit'[other] = audit[other]
  BY <1>1, <1>2
<1>4. StateApart(S, fields, t)
  BY <1>2 DEF StateApart, LogRow, GenerateLogRow, UpsertLogRow, KeyLogRow, RowFields
<1>5. rows \in Seq(S) /\ new = Settled(rows, id, t)
  BY <1>1, <1>2
<1>6. /\ new \in Seq(S) /\ Ended(fields, rows, new, id, t)
      /\ id \notin DOMAIN rows => new = rows
  BY <1>4, <1>5, SettledRows
<1>7. AuditTyped'
  BY <1>1, <1>2, <1>3, <1>6 DEF AuditTyped
<1>8. id \notin DOMAIN rows => audit' = audit
  BY <1>1, <1>2, <1>3, <1>6
<1> QED BY <1>2, <1>3, <1>6, <1>7, <1>8

(* What add_audit_log adds comes last.                                       *)
LEMMA AuditLogs ==
    ASSUME AdminInv, NEW action \in Logs, NEW row \in LogRow(action), Log(action, row),
           NEW n, n = LogId(action)
    PROVE  /\ AuditTyped'
           /\ \A other \in Logs : other # action => audit'[other] = audit[other]
           /\ n \in Nat \ {0} /\ n \notin DOMAIN audit[action]
           /\ DOMAIN audit'[action] = DOMAIN audit[action] \union {n}
           /\ audit'[action][n] = row
           /\ \A i \in DOMAIN audit[action] : i < n /\ audit'[action][i] = audit[action][i]
<1>1. /\ audit = [other \in Logs |-> audit[other]]
      /\ \A other \in Logs : audit[other] \in Seq(LogRow(other))
  BY DEF AdminInv, AuditTyped
<1>2. PICK s : s = audit[action]
  OBVIOUS
<1>3. /\ audit' = [other \in Logs |-> audit'[other]] /\ audit'[action] = Append(s, row)
      /\ \A other \in Logs : other # action => audit'[other] = audit[other]
  BY <1>1, <1>2 DEF Log
<1>4. s \in Seq(LogRow(action)) /\ n = Len(s) + 1
  BY <1>1, <1>2 DEF LogId
<1>5. /\ Append(s, row) \in Seq(LogRow(action))
      /\ n \in Nat \ {0} /\ DOMAIN s = 1 .. n - 1
      /\ DOMAIN Append(s, row) = 1 .. n
      /\ Append(s, row)[n] = row
      /\ \A i \in 1 .. n - 1 : Append(s, row)[i] = s[i]
  BY <1>4
<1>6. 1 .. n = (1 .. n - 1) \union {n} /\ n \notin 1 .. n - 1 /\ \A i \in 1 .. n - 1 : i < n
  BY <1>5
<1>7. AuditTyped'
  BY <1>1, <1>3, <1>5 DEF AuditTyped
<1> QED BY <1>2, <1>3, <1>5, <1>6, <1>7

LEMMA UndoKeeps ==
    ASSUME AdminInv, NEW h \in Request, Generating(h), Undo(h),
           request' = [request EXCEPT ![h] = Idle],
           served' = served, failures' \in 0 .. MaxFailures
    PROVE  AdminInv'
<1>1. /\ batches' = [batches EXCEPT ![request[h].batch].state = "none"]
      /\ vouchers' = vouchers \ Own(h)
      /\ audit' = [audit EXCEPT !["generate"] = Settled(@, request[h].log, "none")]
      /\ UNCHANGED <<config, history, enabled>>
  BY DEF Undo, EndBatch
<1>2. /\ BatchesServed' /\ DOMAIN request' = Request
      /\ request' = [g \in Request |-> request'[g]]
      /\ batches' \in Seq(BatchRow) /\ DOMAIN batches' = DOMAIN batches
      /\ \A b \in DOMAIN batches :
           batches'[b].state = IF b = request[h].batch THEN "none" ELSE batches[b].state
  BY <1>1, BatchEnds
<1>3. VouchersKept' /\ CodesOnce'
  BY <1>1, <1>2 DEF VouchersKept, CodesOnce, AdminInv, Own
<1>4. AuditTyped'
  <2>1. "generate" \in Logs /\ "none" \in RowState
    BY DEF Logs, RowState
  <2>2. PICK id : id = request[h].log
    OBVIOUS
  <2> QED BY <1>1, <2>1, <2>2, AuditSettles
<1> QED BY <1>1, <1>2, <1>3, <1>4 DEF AdminInv, RowsTyped

LEMMA GenerateLogKeeps ==
    ASSUME AdminInv, NEW h \in Request, GenerateLog(h)
    PROVE  AdminInv'
<1>1. PICK r : r = [request[h] EXCEPT !.phase = "logged", !.log = LogId("generate")]
  OBVIOUS
<1>2. PICK row : row = [batch |-> request[h].batch, payload |-> request[h].payload,
                        state |-> "open"]
  OBVIOUS
<1>3. Generating(h)
  BY DEF GenerateLog, Drawing, Generating
<1>4. /\ DOMAIN r = GenerateFields /\ r.phase = "logged" /\ r.batch = request[h].batch
      /\ r.batch \in DOMAIN batches /\ batches[r.batch].state = "open"
      /\ r.payload = request[h].payload /\ r.payload \in Payload
  BY <1>1, <1>3, OpenBatch DEF GenerateFields
<1>5. /\ request' = [request EXCEPT ![h] = r] /\ Log("generate", row)
      /\ UNCHANGED <<vouchers, batches, config, history, enabled, served, failures>>
  BY <1>1, <1>2 DEF GenerateLog, To
<1>6. Holds(r)'
  BY <1>4, <1>5 DEF Holds
<1>7. Moves(h, r)
  BY <1>3, <1>4, <1>5, <1>6 DEF Moves, Generates, Generating
<1>8. BatchesServed' /\ DOMAIN request' = Request
        /\ request' = [g \in Request |-> request'[g]]
  BY <1>5, <1>7, RequestMoves
<1>9. row \in LogRow("generate") /\ "generate" \in Logs
  <2>1. request[h].batch \in Nat
    BY <1>4 DEF AdminInv, RowsTyped
  <2> QED BY <1>2, <1>4, <2>1 DEF LogRow, GenerateLogRow, RowState, Logs
<1>10. AuditTyped'
  BY <1>5, <1>9, AuditLogs
<1> QED BY <1>5, <1>8, <1>10 DEF AdminInv, RowsTyped, VouchersKept, CodesOnce

LEMMA GenerateCommitKeeps ==
    ASSUME AdminInv, NEW h \in Request, GenerateCommit(h)
    PROVE  AdminInv'
<1>1. /\ batches' = [batches EXCEPT ![request[h].batch].state = "committed"]
      /\ request' = [request EXCEPT ![h] = Idle]
      /\ audit' = [audit EXCEPT !["generate"] = Settled(@, request[h].log, "committed")]
      /\ UNCHANGED <<vouchers, config, history, enabled, served, failures>>
  BY DEF GenerateCommit, EndBatch, To
<1>2. Generating(h)
  BY DEF GenerateCommit, Generating
<1>3. /\ BatchesServed' /\ DOMAIN request' = Request
      /\ request' = [g \in Request |-> request'[g]]
      /\ batches' \in Seq(BatchRow) /\ DOMAIN batches' = DOMAIN batches
      /\ \A b \in DOMAIN batches :
           batches'[b].state = IF b = request[h].batch THEN "committed" ELSE batches[b].state
  BY <1>1, <1>2, BatchEnds
<1>4. VouchersKept' /\ CodesOnce'
  BY <1>1, <1>3 DEF VouchersKept, CodesOnce, AdminInv
<1>5. AuditTyped'
  <2>1. "generate" \in Logs /\ "committed" \in RowState
    BY DEF Logs, RowState
  <2>2. PICK id : id = request[h].log
    OBVIOUS
  <2> QED BY <1>1, <2>1, <2>2, AuditSettles
<1> QED BY <1>1, <1>3, <1>4, <1>5 DEF AdminInv, RowsTyped

LEMMA GenerateBeginKeeps ==
    ASSUME AdminInv, NEW h \in Request, NEW p \in Payload, GenerateBegin(h, p)
    PROVE  AdminInv'
<1> DEFINE id == Len(batches) + 1
<1> USE DEF AdminInv
<1>1. PICK r : r = [phase |-> "drawing", payload |-> p, batch |-> id,
                    inserted |-> 0, todo |-> <<>>, log |-> 0]
  OBVIOUS
<1>2. /\ r.phase = "drawing" /\ r.batch = id /\ DOMAIN r = GenerateFields
      /\ r.payload \in Payload
  BY <1>1 DEF GenerateFields
<1>3. /\ request[h] = Idle
      /\ request' = [request EXCEPT ![h] = r]
      /\ batches' = Append(batches, [payload |-> p, state |-> "open"])
      /\ served < MaxRequests /\ served' = served + 1
      /\ UNCHANGED <<vouchers, config, history, enabled, audit, failures>>
  BY <1>1 DEF GenerateBegin, Begin
<1>4. /\ batches' \in Seq(BatchRow)
      /\ DOMAIN batches' = DOMAIN batches \union {id} /\ id \notin DOMAIN batches
      /\ batches'[id].state = "open"
      /\ \A b \in DOMAIN batches : batches'[b] = batches[b]
  <2>1. batches \in Seq(BatchRow) /\ [payload |-> p, state |-> "open"] \in BatchRow
    BY DEF RowsTyped, BatchRow, RowState
  <2>2. /\ batches' \in Seq(BatchRow) /\ Len(batches') = id
        /\ DOMAIN batches' = 1 .. id /\ DOMAIN batches = 1 .. Len(batches)
        /\ Len(batches) \in Nat
    BY <1>3, <2>1
  <2>3. batches'[id] = [payload |-> p, state |-> "open"]
    BY <1>3, <2>1
  <2>4. \A b \in 1 .. Len(batches) : batches'[b] = batches[b]
    BY <1>3, <2>1
  <2> QED BY <2>2, <2>3, <2>4
<1>5. DOMAIN request' = Request /\ request' = [g \in Request |-> request'[g]]
  BY <1>3 DEF RowsTyped
<1>6. \A g \in Request : request'[g] = IF g = h THEN r ELSE request[g]
  BY <1>3 DEF RowsTyped
<1>7. ASSUME NEW g \in Request PROVE Holds(request[g])'
  <2>1. CASE g = h
    <3>1. request'[g] = r
      BY <2>1, <1>6
    <3> QED BY <3>1, <1>2, <1>4 DEF Holds
  <2>2. CASE g # h
    <3>1. request'[g] = request[g] /\ Holds(request[g])
      BY <2>2, <1>6 DEF BatchesServed
    <3> QED BY <3>1, <1>3, <1>4 DEF Holds
  <2> QED BY <2>1, <2>2
<1>8. \A g \in Request : Generating(g)' <=> Generating(g) \/ g = h
  BY <1>2, <1>6 DEF Generating
<1>9. \A g \in Request : g # h /\ Generating(g) => request'[g].batch \in DOMAIN batches
  BY <1>6, OpenBatch
<1>10. ~Generating(h)
  BY <1>3 DEF Generating, Idle
<1>11. \A f, g \in Request : Generating(f)' /\ Generating(g)'
                               /\ request'[f].batch = request'[g].batch => f = g
  BY <1>2, <1>4, <1>6, <1>8, <1>9 DEF BatchesServed
<1>12. ASSUME NEW b \in DOMAIN batches', batches'[b].state = "open"
       PROVE  \E g \in Request : Generating(g)' /\ request'[g].batch = b
  <2>1. CASE b = id
    BY <2>1, <1>2, <1>6, <1>8
  <2>2. CASE b # id
    <3>1. PICK g \in Request : Generating(g) /\ request[g].batch = b
      BY <2>2, <1>4, <1>12 DEF BatchesServed
    <3> QED BY <3>1, <1>6, <1>8, <1>10
  <2> QED BY <2>1, <2>2
<1>13. BatchesServed'
  BY <1>7, <1>11, <1>12 DEF BatchesServed
<1>14. VouchersKept' /\ CodesOnce' /\ AuditTyped'
  BY <1>3, <1>4 DEF VouchersKept, CodesOnce, AuditTyped
<1>15. served' \in 0 .. MaxRequests
  BY <1>3, BoundAssumption DEF RowsTyped
<1> QED BY <1>3, <1>4, <1>5, <1>13, <1>14, <1>15 DEF RowsTyped

-----------------------------------------------------------------------------
(* The requests that change one row: no voucher and no batch.                *)
LEMMA RowMoves ==
    ASSUME AdminInv, NEW h \in Request, NEW r, Moves(h, r),
           UNCHANGED <<vouchers, batches>>,
           config' \in Config \union {None}, config' = config \/ config' # None,
           history' \in Seq(HistoryRow), enabled' \in [DevKey -> BOOLEAN \union {None}],
           AuditTyped',
           served' \in 0 .. MaxRequests, failures' \in 0 .. MaxFailures
    PROVE  AdminInv'
<1>1. BatchesServed' /\ DOMAIN request' = Request
        /\ request' = [g \in Request |-> request'[g]]
  BY RequestMoves
<1> QED BY <1>1 DEF AdminInv, RowsTyped, VouchersKept, CodesOnce

LEMMA Begins ==
    ASSUME AdminInv, NEW h \in Request, NEW r, Begin(h, r), Holds(r)', ~Generates(r),
           UNCHANGED tables
    PROVE  AdminInv'
<1>1. Moves(h, r)
  BY DEF Moves, Begin, Generates, Generating, Idle
<1>2. served' \in 0 .. MaxRequests /\ failures' \in 0 .. MaxFailures
  BY BoundAssumption DEF Begin, AdminInv, RowsTyped
<1> QED BY <1>1, <1>2, NothingElse

LEMMA ChangeHolds ==
    ASSUME AdminInv, NEW h \in Request, Changing(h)
    PROVE  /\ DOMAIN request[h] = ChangeFields /\ request[h].by \in Nat
           /\ ~Generating(h) /\ request[h] # Idle
           /\ request[h].phase = "upsert" =>
                /\ request[h].on = "sku"
                /\ request[h].wanted \in Config /\ request[h].loaded \in Config \union {None}
                /\ request[h].row \in Config \union {None}
                /\ request[h].loaded # None => config # None
           /\ request[h].phase = "key" =>
                /\ request[h].on \in DevKey
                /\ request[h].wanted \in BOOLEAN /\ request[h].row \in BOOLEAN \union {None}
BY DEF AdminInv, BatchesServed, Holds, Changing, Generating, Idle

(* What a change keeps from its SELECT to its end.                           *)
SameChange(r, q) ==
    /\ DOMAIN r = ChangeFields /\ DOMAIN q = ChangeFields
    /\ r.phase = q.phase /\ r.on = q.on /\ r.by = q.by
    /\ r.wanted = q.wanted /\ r.loaded = q.loaded

LEMMA ChangeGoesOn ==
    ASSUME AdminInv, NEW h \in Request, Changing(h), NEW r, SameChange(r, request[h]),
           r.row = request[h].row
             \/ r.row \in (IF r.phase = "upsert" THEN Config ELSE BOOLEAN),
           request' = [request EXCEPT ![h] = r], UNCHANGED <<batches, config>>
    PROVE  Moves(h, r)
<1>1. Holds(r)'
  BY ChangeHolds DEF Holds, SameChange, Changing
<1> QED BY <1>1, ChangeHolds DEF Moves, Generates, SameChange, Changing

LEMMA ChangeOver ==
    ASSUME NEW h \in Request, Changing(h), request' = [request EXCEPT ![h] = Idle]
    PROVE  Moves(h, Idle)
BY DEF Moves, Holds, Generates, Generating, Idle, Changing

LEMMA EndKeeps ==
    ASSUME AdminInv, NEW h \in Request, Changing(h), NEW t \in RowState, EndChange(h, t)
    PROVE  /\ Moves(h, Idle) /\ UNCHANGED <<vouchers, batches, served>>
           /\ history' \in Seq(HistoryRow) /\ AuditTyped'
<1>1. Moves(h, Idle)
  BY ChangeOver DEF EndChange
<1>2. PICK action, log, entry : /\ action = request[h].phase /\ log = request[h].log
                                /\ entry = request[h].entry
  OBVIOUS
<1>3. action \in Logs
  BY <1>2 DEF Changing, Logs
<1>4. /\ audit' = [audit EXCEPT ![action] = Settled(@, log, t)]
      /\ history' = Settled(history, entry, t)
      /\ UNCHANGED <<vouchers, batches, served>>
  BY <1>2 DEF EndChange
<1> QED BY <1>1, <1>3, <1>4, AuditSettles, HistorySettles

LEMMA UpsertLoadKeeps ==
    ASSUME AdminInv, NEW h \in Request, NEW c \in Config, UpsertLoad(h, c)
    PROVE  AdminInv'
<1>1. PICK r : r = Change("upsert", "sku", c, config)
  OBVIOUS
<1>2. Begin(h, r) /\ UNCHANGED tables
  BY <1>1 DEF UpsertLoad
<1>3. config \in Config \union {None} /\ served + 1 \in Nat
  BY BoundAssumption DEF AdminInv, RowsTyped
<1>4. Holds(r)' /\ ~Generates(r)
  BY <1>1, <1>2, <1>3 DEF Holds, Generates, tables, Change, ChangeFields
<1> QED BY <1>2, <1>4, Begins

LEMMA UpsertLogKeeps ==
    ASSUME AdminInv, NEW h \in Request, UpsertLog(h)
    PROVE  AdminInv'
<1>1. PICK r, row : /\ r = [request[h] EXCEPT !.step = "logged", !.log = LogId("upsert")]
                    /\ row = [config |-> request[h].wanted, by |-> request[h].by,
                              state |-> "open"]
  OBVIOUS
<1>2. /\ request' = [request EXCEPT ![h] = r] /\ Log("upsert", row)
      /\ UNCHANGED <<vouchers, batches, config, history, enabled, served, failures>>
      /\ Changing(h) /\ request[h].phase = "upsert"
  BY <1>1 DEF UpsertLog, At, To, Changing
<1>3. SameChange(r, request[h]) /\ r.row = request[h].row
  BY <1>1, <1>2, ChangeHolds DEF SameChange, ChangeFields
<1>4. row \in LogRow("upsert") /\ "upsert" \in Logs
  BY <1>1, <1>2, ChangeHolds DEF LogRow, UpsertLogRow, RowState, Logs
<1>5. AuditTyped'
  BY <1>2, <1>4, AuditLogs
<1> QED BY <1>2, <1>3, <1>5, ChangeGoesOn, RowMoves DEF AdminInv, RowsTyped

LEMMA UpdatedTyped ==
    ASSUME AdminInv, NEW h \in Request, request[h].phase = "upsert",
           request[h].loaded = None => config = None
    PROVE  /\ Updated(config, request[h].loaded, request[h].wanted) \in Config
           /\ request[h].loaded = None =>
                Updated(config, request[h].loaded, request[h].wanted) = request[h].wanted
<1>1. PICK w, l : w = request[h].wanted /\ l = request[h].loaded
  OBVIOUS
<1>2. /\ w \in Config /\ l \in Config \union {None}
      /\ l # None => config # None
  BY <1>1, ChangeHolds DEF Changing
<1>3. config \in Config \union {None}
  BY DEF AdminInv, RowsTyped
<1>4. CASE l = None
  <2>1. Changed(l, w) = DOMAIN w
    BY <1>4 DEF Changed
  <2>2. Updated(config, l, w) = [f \in DOMAIN w |-> w[f]]
    BY <2>1 DEF Updated
  <2>3. w = [f \in DOMAIN w |-> w[f]]
    BY <1>2, ConfigAssumption
  <2> QED BY <1>1, <1>2, <2>2, <2>3
<1>5. CASE l # None
  BY <1>1, <1>2, <1>3, <1>5, ConfigAssumption
<1> QED BY <1>4, <1>5

LEMMA UpsertRowKeeps ==
    ASSUME AdminInv, NEW h \in Request, UpsertRow(h)
    PROVE  AdminInv'
<1>1. PICK new : new = Updated(config, request[h].loaded, request[h].wanted)
  OBVIOUS
<1>2. PICK r : r = IF request[h].wanted = request[h].loaded
                   THEN [request[h] EXCEPT !.step = "stored"]
                   ELSE [request[h] EXCEPT !.step = "stored", !.row = new]
  OBVIOUS
<1>3. /\ request' = [request EXCEPT ![h] = r] /\ UNCHANGED tables
      /\ UNCHANGED <<served, failures>> /\ Changing(h) /\ request[h].phase = "upsert"
      /\ request[h].wanted # request[h].loaded =>
           (request[h].loaded = None => config = None)
  BY <1>1, <1>2 DEF UpsertRow, At, To, Changing
<1>4. SameChange(r, request[h])
        /\ r.row = (IF request[h].wanted = request[h].loaded THEN request[h].row ELSE new)
  BY <1>2, <1>3, ChangeHolds DEF SameChange, ChangeFields
<1>5. r.row = request[h].row \/ r.row \in Config
  BY <1>1, <1>3, <1>4, UpdatedTyped
<1>6. Moves(h, r)
  BY <1>3, <1>4, <1>5, ChangeGoesOn DEF SameChange, tables
<1> QED BY <1>3, <1>6, NothingElse DEF AdminInv, RowsTyped

LEMMA UpsertHistoryKeeps ==
    ASSUME AdminInv, NEW h \in Request, UpsertHistory(h)
    PROVE  AdminInv'
<1>1. PICK r, row : /\ r = [request[h] EXCEPT !.step = "recorded", !.entry = Len(history) + 1]
                    /\ row = [config |-> request[h].wanted,
                              changed |-> Changed(request[h].loaded, request[h].wanted),
                              by |-> request[h].by, state |-> "open"]
  OBVIOUS
<1>2. /\ request' = [request EXCEPT ![h] = r] /\ history' = Append(history, row)
      /\ UNCHANGED <<vouchers, batches, config, audit, enabled, served, failures>>
      /\ Changing(h) /\ request[h].phase = "upsert"
  BY <1>1 DEF UpsertHistory, At, To, Changing
<1>3. SameChange(r, request[h]) /\ r.row = request[h].row
  BY <1>1, <1>2, ChangeHolds DEF SameChange, ChangeFields
<1>4. row \in HistoryRow
  <2>1. request[h].wanted \in Config /\ request[h].by \in Nat
    BY <1>2, ChangeHolds
  <2>2. Changed(request[h].loaded, request[h].wanted) \in SUBSET Columns
    BY <2>1 DEF Changed, Columns
  <2> QED BY <1>1, <2>1, <2>2 DEF HistoryRow, RowState
<1>5. history' \in Seq(HistoryRow)
  BY <1>2, <1>4 DEF AdminInv, RowsTyped
<1>6. Moves(h, r)
  BY <1>2, <1>3, ChangeGoesOn
<1>7. AuditTyped'
  BY <1>2 DEF AdminInv, AuditTyped
<1> QED BY <1>2, <1>5, <1>6, <1>7, RowMoves DEF AdminInv, RowsTyped

LEMMA UpsertEndsKeeps ==
    ASSUME AdminInv, NEW h \in Request, UpsertFails(h) \/ UpsertCommit(h)
    PROVE  AdminInv'
<1>1. PICK t \in RowState : EndChange(h, t)
  BY DEF UpsertFails, UpsertCommit, RowState
<1>2. /\ Changing(h) /\ request[h].phase = "upsert" /\ UNCHANGED <<enabled, failures>>
      /\ config' = config \/ (config' = request[h].row /\ request[h].row # None)
  BY DEF UpsertFails, UpsertCommit, At, Changing
<1>3. config' \in Config \union {None} /\ (config' = config \/ config' # None)
  BY <1>2, ChangeHolds DEF AdminInv, RowsTyped
<1> QED BY <1>1, <1>2, <1>3, EndKeeps, RowMoves DEF AdminInv, RowsTyped

LEMMA CreateKeyKeeps ==
    ASSUME AdminInv, NEW h \in Request, NEW k \in DevKey, CreateKey(h, k)
    PROVE  AdminInv'
<1>1. PICK r : r = Change("key", k, TRUE, None)
  OBVIOUS
<1>2. Begin(h, r) /\ UNCHANGED tables
  BY <1>1 DEF CreateKey
<1>3. served + 1 \in Nat
  BY BoundAssumption DEF AdminInv, RowsTyped
<1>4. Holds(r)' /\ ~Generates(r)
  BY <1>1, <1>3 DEF Holds, Generates, Change, ChangeFields
<1> QED BY <1>2, <1>4, Begins

LEMMA SwitchLoadKeeps ==
    ASSUME AdminInv, NEW h \in Request, NEW k \in DevKey, NEW on \in BOOLEAN,
           SwitchLoad(h, k, on)
    PROVE  AdminInv'
<1>1. PICK r : r = IF enabled[k] = None THEN Idle ELSE Change("key", k, on, enabled[k])
  OBVIOUS
<1>2. Begin(h, r) /\ UNCHANGED tables
  BY <1>1 DEF SwitchLoad
<1>3. served + 1 \in Nat
  BY BoundAssumption DEF AdminInv, RowsTyped
<1>4. Holds(r)' /\ ~Generates(r)
  <2>1. CASE enabled[k] = None
    BY <1>1, <2>1 DEF Holds, Generates, Idle
  <2>2. CASE enabled[k] # None
    BY <1>1, <1>3, <2>2 DEF Holds, Generates, Change, ChangeFields
  <2> QED BY <2>1, <2>2
<1> QED BY <1>2, <1>4, Begins

LEMMA SwitchLogKeeps ==
    ASSUME AdminInv, NEW h \in Request, SwitchLog(h)
    PROVE  AdminInv'
<1>1. PICK r, row : /\ r = [request[h] EXCEPT !.step = "logged", !.log = LogId("key")]
                    /\ row = [key |-> request[h].on, enabled |-> request[h].wanted,
                              by |-> request[h].by, state |-> "open"]
  OBVIOUS
<1>2. /\ request' = [request EXCEPT ![h] = r] /\ Log("key", row)
      /\ UNCHANGED <<vouchers, batches, config, history, enabled, served, failures>>
      /\ Changing(h) /\ request[h].phase = "key"
  BY <1>1 DEF SwitchLog, At, To, Changing
<1>3. SameChange(r, request[h]) /\ r.row = request[h].row
  BY <1>1, <1>2, ChangeHolds DEF SameChange, ChangeFields
<1>4. row \in LogRow("key") /\ "key" \in Logs
  BY <1>1, <1>2, ChangeHolds DEF LogRow, KeyLogRow, RowState, Logs
<1>5. AuditTyped'
  BY <1>2, <1>4, AuditLogs
<1> QED BY <1>2, <1>3, <1>5, ChangeGoesOn, RowMoves DEF AdminInv, RowsTyped

LEMMA SwitchRowKeeps ==
    ASSUME AdminInv, NEW h \in Request, SwitchRow(h)
    PROVE  AdminInv'
<1>1. PICK r : r = IF request[h].wanted = request[h].loaded
                   THEN [request[h] EXCEPT !.step = "stored"]
                   ELSE [request[h] EXCEPT !.step = "stored", !.row = request[h].wanted]
  OBVIOUS
<1>2. /\ request' = [request EXCEPT ![h] = r] /\ UNCHANGED tables
      /\ UNCHANGED <<served, failures>> /\ Changing(h) /\ request[h].phase = "key"
  BY <1>1 DEF SwitchRow, At, To, Changing
<1>3. SameChange(r, request[h])
        /\ r.row = (IF request[h].wanted = request[h].loaded THEN request[h].row
                    ELSE request[h].wanted)
  BY <1>1, <1>2, ChangeHolds DEF SameChange, ChangeFields
<1>4. r.row = request[h].row \/ r.row \in BOOLEAN
  BY <1>2, <1>3, ChangeHolds
<1>5. Moves(h, r)
  BY <1>2, <1>3, <1>4, ChangeGoesOn DEF SameChange, tables
<1> QED BY <1>2, <1>5, NothingElse DEF AdminInv, RowsTyped

LEMMA SwitchCommitKeeps ==
    ASSUME AdminInv, NEW h \in Request, SwitchCommit(h)
    PROVE  AdminInv'
<1>1. PICK k, row : k = request[h].on /\ row = request[h].row
  OBVIOUS
<1>2. /\ Changing(h) /\ request[h].phase = "key" /\ EndChange(h, "committed")
      /\ UNCHANGED <<config, failures>>
      /\ enabled' = IF row = None THEN enabled ELSE [enabled EXCEPT ![k] = row]
  BY <1>1 DEF SwitchCommit, At, Changing
<1>3. k \in DevKey /\ row \in BOOLEAN \union {None} /\ "committed" \in RowState
  BY <1>1, <1>2, ChangeHolds DEF RowState
<1>4. enabled' \in [DevKey -> BOOLEAN \union {None}]
  BY <1>2, <1>3 DEF AdminInv, RowsTyped
<1> QED BY <1>2, <1>3, <1>4, EndKeeps, RowMoves DEF AdminInv, RowsTyped

LEMMA LostKeeps ==
    ASSUME AdminInv, NEW h \in Request, GenerateLost(h) \/ ChangeLost(h)
    PROVE  AdminInv'
<1>1. failures' \in 0 .. MaxFailures
  BY BoundAssumption DEF GenerateLost, ChangeLost, AdminInv, RowsTyped
<1>2. CASE GenerateLost(h)
  BY <1>1, <1>2, UndoKeeps DEF GenerateLost
<1>3. CASE ChangeLost(h)
  <2>1. "none" \in RowState /\ Changing(h) /\ EndChange(h, "none")
          /\ UNCHANGED <<config, enabled>>
    BY <1>3 DEF ChangeLost, RowState
  <2> QED BY <1>1, <2>1, EndKeeps, RowMoves DEF AdminInv, RowsTyped
<1> QED BY <1>2, <1>3

-----------------------------------------------------------------------------
UpsertStep(h) ==
    UpsertLog(h) \/ UpsertRow(h) \/ UpsertFails(h) \/ UpsertHistory(h) \/ UpsertCommit(h)
SwitchStep(h) == SwitchLog(h) \/ SwitchRow(h) \/ SwitchCommit(h)

LEMMA StepKeeps ==
    ASSUME AdminInv, NEW h \in Request, AdminStep(h)
    PROVE  AdminInv'
<1>1. CASE DrawsSome(h)
  BY <1>1, DrawCodesKeeps DEF DrawsSome
<1>2. CASE InsertRow(h)
  BY <1>2, InsertRowKeeps
<1>3. CASE GenerateLog(h) \/ GenerateCommit(h)
  BY <1>3, GenerateLogKeeps, GenerateCommitKeeps
<1>4. CASE GenerateRaises(h) \/ Deadlock(h)
  <2>1. Generating(h)
    BY <1>4 DEF GenerateRaises, Deadlock, WaitsFor, Inserting, Generating
  <2>2. Undo(h) /\ To(h, Idle)
    BY <1>4 DEF GenerateRaises, Deadlock
  <2> QED BY <2>1, <2>2, UndoKeeps DEF To, AdminInv, RowsTyped
<1>5. CASE UpsertStep(h)
  BY <1>5, UpsertLogKeeps, UpsertRowKeeps, UpsertHistoryKeeps, UpsertEndsKeeps DEF UpsertStep
<1>6. CASE SwitchStep(h)
  BY <1>6, SwitchLogKeeps, SwitchRowKeeps, SwitchCommitKeeps DEF SwitchStep
<1> QED BY <1>1, <1>2, <1>3, <1>4, <1>5, <1>6 DEF AdminStep, Stores, UpsertStep, SwitchStep

LEMMA ArrivesKeeps ==
    ASSUME AdminInv, NEW h \in Request, Arrives(h)
    PROVE  AdminInv'
BY GenerateBeginKeeps, UpsertLoadKeeps, CreateKeyKeeps, SwitchLoadKeeps DEF Arrives

LEMMA NextKeeps == AdminInv /\ [AdminNext]_vars => AdminInv'
<1> SUFFICES ASSUME AdminInv, [AdminNext]_vars PROVE AdminInv'
  OBVIOUS
<1>1. CASE AdminNext
  <2>1. PICK h \in Request : Arrives(h) \/ AdminStep(h) \/ GenerateLost(h) \/ ChangeLost(h)
    BY <1>1 DEF AdminNext
  <2> QED BY <2>1, ArrivesKeeps, StepKeeps, LostKeeps
<1>2. CASE UNCHANGED vars
  BY <1>2 DEF vars, AdminInv, RowsTyped, AuditTyped, BatchesServed, VouchersKept, CodesOnce,
              Holds, Generating
<1> QED BY <1>1, <1>2

LEMMA AdminInvariant == AdminSpec => []AdminInv
BY AdminInitInv, NextKeeps, PTL DEF AdminSpec

(* What a step of a change leaves alone: the batches and their rows.         *)
ChangeStep(h) ==
    \/ \E c \in Config : UpsertLoad(h, c)
    \/ \E k \in DevKey : CreateKey(h, k) \/ \E on \in BOOLEAN : SwitchLoad(h, k, on)
    \/ UpsertStep(h) \/ SwitchStep(h) \/ ChangeLost(h)

GenerateStep(h) ==
    \/ \E p \in Payload : GenerateBegin(h, p)
    \/ DrawsSome(h) \/ Stores(h) \/ GenerateLost(h)

LEMMA TwoKinds ==
    ASSUME AdminNext
    PROVE  \E h \in Request : ChangeStep(h) \/ GenerateStep(h)
BY DEF AdminNext, Arrives, AdminStep, ChangeStep, GenerateStep, UpsertStep, SwitchStep

LEMMA GenerateSteps ==
    ASSUME AdminInv, NEW h \in Request, GenerateStep(h)
    PROVE  \/ \E p \in Payload : GenerateBegin(h, p)
           \/ \E candidates : DrawCodes(h, candidates)
           \/ InsertRow(h) \/ GenerateLog(h) \/ GenerateCommit(h)
           \/ /\ Generating(h) /\ Undo(h) /\ request' = [request EXCEPT ![h] = Idle]
              /\ UNCHANGED <<served, overlapped>>
<1>1. CASE GenerateRaises(h) \/ Deadlock(h)
  BY <1>1 DEF GenerateRaises, Deadlock, WaitsFor, Inserting, Generating, To
<1> QED BY <1>1 DEF GenerateStep, DrawsSome, Stores, GenerateLost

LEMMA ChangeSteps ==
    ASSUME AdminInv, NEW h \in Request, ChangeStep(h)
    PROVE  \E r : /\ request' = [request EXCEPT ![h] = r] /\ ~Generates(r) /\ ~Generating(h)
                  /\ UNCHANGED <<vouchers, batches>>
                  /\ audit'["generate"] = audit["generate"]
<1>1. ASSUME NEW r, Begin(h, r), r = Idle \/ r.phase \in {"upsert", "key"}, UNCHANGED tables
      PROVE  /\ request' = [request EXCEPT ![h] = r] /\ ~Generates(r) /\ ~Generating(h)
             /\ UNCHANGED <<vouchers, batches>> /\ audit'["generate"] = audit["generate"]
  BY <1>1 DEF Begin, Generates, Generating, Idle, tables
<1>2. ASSUME NEW c \in Config, UpsertLoad(h, c)
      PROVE  \E r : Begin(h, r) /\ (r = Idle \/ r.phase \in {"upsert", "key"}) /\ UNCHANGED tables
  <2>1. Change("upsert", "sku", c, config).phase = "upsert"
    BY DEF Change
  <2> QED BY <1>2, <2>1 DEF UpsertLoad
<1>3. ASSUME NEW k \in DevKey, NEW on \in BOOLEAN, CreateKey(h, k) \/ SwitchLoad(h, k, on)
      PROVE  \E r : Begin(h, r) /\ (r = Idle \/ r.phase \in {"upsert", "key"}) /\ UNCHANGED tables
  <2>1. /\ Change("key", k, TRUE, None).phase = "key"
        /\ Change("key", k, on, enabled[k]).phase = "key"
    BY DEF Change
  <2> QED BY <1>3, <2>1 DEF CreateKey, SwitchLoad
<1>4. ASSUME Changing(h), NEW t, EndChange(h, t)
      PROVE  /\ request' = [request EXCEPT ![h] = Idle] /\ ~Generates(Idle) /\ ~Generating(h)
             /\ UNCHANGED <<vouchers, batches>> /\ audit'["generate"] = audit["generate"]
  <2>1. audit = [action \in Logs |-> audit[action]]
    BY DEF AdminInv, AuditTyped
  <2>2. PICK action, rows : action = request[h].phase
                              /\ rows = Settled(audit[action], request[h].log, t)
    OBVIOUS
  <2>3. action # "generate" /\ audit' = [audit EXCEPT ![action] = rows]
    BY <1>4, <2>2 DEF EndChange, Changing
  <2>4. audit'["generate"] = audit["generate"]
    BY <2>1, <2>3 DEF Logs
  <2> QED BY <1>4, <2>4 DEF EndChange, Generates, Generating, Idle, Changing
<1>5. ASSUME NEW r, request[h].phase \in {"upsert", "key"}, To(h, r),
             r.phase = request[h].phase, UNCHANGED <<vouchers, batches>>,
             audit' = audit \/ (\E row : Log(request[h].phase, row))
      PROVE  /\ request' = [request EXCEPT ![h] = r] /\ ~Generates(r) /\ ~Generating(h)
             /\ UNCHANGED <<vouchers, batches>> /\ audit'["generate"] = audit["generate"]
  <2>1. audit = [action \in Logs |-> audit[action]]
    BY DEF AdminInv, AuditTyped
  <2>2. ASSUME NEW row, Log(request[h].phase, row) PROVE audit'["generate"] = audit["generate"]
    BY <1>5, <2>1, <2>2 DEF Log, Logs
  <2> QED BY <1>5, <2>2 DEF To, Generates, Generating
<1>6. CASE UpsertFails(h) \/ UpsertCommit(h) \/ SwitchCommit(h) \/ ChangeLost(h)
  BY <1>4, <1>6 DEF UpsertFails, UpsertCommit, SwitchCommit, ChangeLost, At, Changing
<1>7. ASSUME UpsertLog(h) \/ UpsertRow(h) \/ UpsertHistory(h) \/ SwitchLog(h) \/ SwitchRow(h)
      PROVE  \E r : /\ request[h].phase \in {"upsert", "key"} /\ To(h, r)
                    /\ r.phase = request[h].phase /\ UNCHANGED <<vouchers, batches>>
                    /\ audit' = audit \/ (\E row : Log(request[h].phase, row))
  <2>1. request[h].phase \in {"upsert", "key"}
    BY <1>7 DEF UpsertLog, UpsertRow, UpsertHistory, SwitchLog, SwitchRow, At
  <2>2. DOMAIN request[h] = ChangeFields
    BY <2>1, ChangeHolds DEF Changing
  <2>3. \A s, l : [request[h] EXCEPT !.step = s, !.log = l].phase = request[h].phase
    BY <2>2 DEF ChangeFields
  <2>4. \A s, l : [request[h] EXCEPT !.step = s, !.row = l].phase = request[h].phase
    BY <2>2 DEF ChangeFields
  <2>5. \A s, l : [request[h] EXCEPT !.step = s, !.entry = l].phase = request[h].phase
    BY <2>2 DEF ChangeFields
  <2>6. \A s : [request[h] EXCEPT !.step = s].phase = request[h].phase
    BY <2>2 DEF ChangeFields
  <2>7. CASE UpsertLog(h) \/ SwitchLog(h)
    BY <2>1, <2>3, <2>7 DEF UpsertLog, SwitchLog, At
  <2>8. CASE UpsertRow(h) \/ SwitchRow(h)
    BY <2>1, <2>4, <2>6, <2>8 DEF UpsertRow, SwitchRow, tables
  <2>9. CASE UpsertHistory(h)
    BY <2>1, <2>5, <2>9 DEF UpsertHistory
  <2> QED BY <1>7, <2>7, <2>8, <2>9
<1>8. CASE UpsertLog(h) \/ UpsertRow(h) \/ UpsertHistory(h) \/ SwitchLog(h) \/ SwitchRow(h)
  <2>1. PICK r : /\ request[h].phase \in {"upsert", "key"} /\ To(h, r)
                 /\ r.phase = request[h].phase /\ UNCHANGED <<vouchers, batches>>
                 /\ audit' = audit \/ (\E row : Log(request[h].phase, row))
    BY <1>7, <1>8
  <2> QED BY <1>5, <2>1
<1>9. CASE \/ \E c \in Config : UpsertLoad(h, c)
           \/ \E k \in DevKey : CreateKey(h, k) \/ \E on \in BOOLEAN : SwitchLoad(h, k, on)
  <2>1. PICK r : Begin(h, r) /\ (r = Idle \/ r.phase \in {"upsert", "key"}) /\ UNCHANGED tables
    BY <1>2, <1>3, <1>9
  <2> QED BY <1>1, <2>1
<1> QED BY <1>6, <1>8, <1>9 DEF ChangeStep, UpsertStep, SwitchStep

(* The tables and requests are of their types, and the batches that are open *)
(* are exactly those of the requests that generate.                          *)
THEOREM AdminTypeCorrect == AdminSpec => []AdminTypeOK
BY AdminInvariant, InvTypeOK, PTL

(* No code is ever in two vouchers, in whatever order any number of batches  *)
(* draw, insert, wait, commit and fail (admin_generate_vouchers).            *)
THEOREM CodesNeverTwice == AdminSpec => []CodesOnce
<1>1. AdminInv => CodesOnce
  BY DEF AdminInv
<1> QED BY <1>1, AdminInvariant, PTL

(* How many codes a batch gets.                                              *)

(* A sorted set is a sequence as long as the set is large.                   *)
LEMMA SortedLength ==
    ASSUME NEW S, IsFiniteSet(S)
    PROVE  /\ Len(Sorted(S)) = Cardinality(S)
           /\ \E C : Sorted(S) \in Seq(C)
<1> DEFINE n == Cardinality(S)
           e(i) == CHOOSE code \in S : Cardinality({other \in S : Before(other, code)}) = i - 1
<1>1. n \in Nat
  BY FS_CardinalityType
<1>2. Sorted(S) = [i \in 1 .. n |-> e(i)]
  BY DEF Sorted
<1> HIDE DEF e
<1>3. Sorted(S) \in Seq({e(i) : i \in 1 .. n}) /\ Len(Sorted(S)) = n
  BY <1>1, <1>2
<1> QED BY <1>3

LEMMA CodesFinite ==
    ASSUME NEW p \in Payload
    PROVE  IsFiniteSet(CodesFor[p])
<1> DEFINE R == Random(TokenBytes(p.length))
           T == {Code(p, bytes) : bytes \in R}
<1>1. IsFiniteSet(T)
  <2> DEFINE f == [bytes \in R |-> Code(p, bytes)]
  <2>1. f \in Surjection(R, T)
    BY DEF Surjection
  <2>2. IsFiniteSet(R)
    BY PayloadAssumption
  <2> HIDE DEF f, R, T
  <2> QED BY <2>1, <2>2, FS_Surjection
<1>2. CodesFor[p] = IF Unmakeable(p) THEN {} ELSE T
  BY DEF CodesFor, Codes
<1> QED BY <1>1, <1>2, FS_EmptySet

LEMMA DrawnLength ==
    ASSUME NEW h \in Request, request[h].payload \in Payload, Need(h) \in Nat,
           NEW candidates \in Drawn(h)
    PROVE  /\ Len(Sorted(candidates)) = Need(h)
           /\ \E C : Sorted(candidates) \in Seq(C)
<1>1. PICK p : p = request[h].payload
  OBVIOUS
<1>2. candidates \in SUBSET CodesFor[p] /\ Cardinality(candidates) = Need(h)
  BY <1>1 DEF Drawn, kSubset
<1>3. IsFiniteSet(candidates)
  BY <1>1, <1>2, CodesFinite, FS_Subset
<1> QED BY <1>2, <1>3, SortedLength

(* The vouchers of a batch are those it has been given and, while a round is *)
(* inserted, at most the rest of the round will come to them.                *)
GenerateFits(h) ==
    LET r == request[h]
        rows == Cardinality(Batch(r.batch))
    IN /\ r.payload = batches[r.batch].payload
       /\ Drawing(h) => r.inserted = rows /\ rows <= r.payload.count
       /\ r.phase = "logged" => rows = r.payload.count
       /\ Inserting(h) => /\ \E C : r.todo \in Seq(C)
                          /\ r.todo # <<>>
                          /\ rows + Len(r.todo) <= r.payload.count

CountsFit ==
    /\ \A b \in DOMAIN batches :
         /\ IsFiniteSet(Batch(b))
         /\ batches[b].state = "committed" => Cardinality(Batch(b)) = batches[b].payload.count
    /\ \A h \in Request : Generating(h) => GenerateFits(h)

LEMMA CountsStay ==
    ASSUME CountsFit, UNCHANGED <<vouchers, batches>>,
           \A h \in Request : Generating(h)' => Generating(h) /\ request'[h] = request[h]
    PROVE  CountsFit'
<1>1. \A b : Batch(b)' = Batch(b)
  BY DEF Batch
<1>2. ASSUME NEW h \in Request, Generating(h)' PROVE GenerateFits(h)'
  <2>1. GenerateFits(h) /\ request'[h] = request[h]
    BY <1>2 DEF CountsFit
  <2> QED BY <1>1, <2>1 DEF GenerateFits, Drawing, Inserting, Batch
<1>3. ASSUME NEW b \in DOMAIN batches'
      PROVE  /\ IsFiniteSet(Batch(b)')
             /\ batches'[b].state = "committed" =>
                  Cardinality(Batch(b)') = batches'[b].payload.count
  BY <1>1 DEF CountsFit
<1> QED BY <1>2, <1>3 DEF CountsFit

LEMMA GenerateBeginCounts ==
    ASSUME AdminInv, CountsFit, NEW h \in Request, NEW p \in Payload, GenerateBegin(h, p)
    PROVE  CountsFit'
<1>0. PICK id : id = Len(batches) + 1
  OBVIOUS
<1>1. PICK r : r = [phase |-> "drawing", payload |-> p, batch |-> id,
                    inserted |-> 0, todo |-> <<>>, log |-> 0]
  OBVIOUS
<1>2. /\ request' = [request EXCEPT ![h] = r] /\ UNCHANGED vouchers
      /\ batches' = Append(batches, [payload |-> p, state |-> "open"])
  BY <1>0, <1>1 DEF GenerateBegin, Begin
<1>3. \A g \in Request : request'[g] = IF g = h THEN r ELSE request[g]
  BY <1>2 DEF AdminInv, RowsTyped
<1>4. /\ DOMAIN batches' = DOMAIN batches \union {id} /\ id \notin DOMAIN batches
      /\ batches'[id] = [payload |-> p, state |-> "open"]
      /\ \A b \in DOMAIN batches : batches'[b] = batches[b]
  <2>1. batches \in Seq(BatchRow)
    BY DEF AdminInv, RowsTyped
  <2>2. /\ DOMAIN batches' = 1 .. id /\ DOMAIN batches = 1 .. Len(batches)
        /\ Len(batches) \in Nat
    BY <1>0, <1>2, <2>1
  <2>3. batches'[id] = [payload |-> p, state |-> "open"]
    BY <1>0, <1>2, <2>1
  <2>4. \A b \in 1 .. Len(batches) : batches'[b] = batches[b]
    BY <1>2, <2>1
  <2> QED BY <1>0, <2>2, <2>3, <2>4
<1>5. \A b : Batch(b)' = Batch(b)
  BY <1>2 DEF Batch
<1>6. Batch(id) = {}
  BY <1>4 DEF Batch, AdminInv, VouchersKept
<1>7. ASSUME NEW b \in DOMAIN batches'
      PROVE  /\ IsFiniteSet(Batch(b)')
             /\ batches'[b].state = "committed" =>
                  Cardinality(Batch(b)') = batches'[b].payload.count
  <2>1. CASE b = id
    BY <1>4, <1>5, <1>6, <2>1, FS_EmptySet
  <2>2. CASE b # id
    BY <1>4, <1>5, <1>7, <2>2 DEF CountsFit
  <2> QED BY <2>1, <2>2
<1>8. ASSUME NEW g \in Request, Generating(g)' PROVE GenerateFits(g)'
  <2>1. CASE g = h
    <3>1. /\ request'[g] = r /\ r.phase = "drawing" /\ r.payload = p /\ r.batch = id
          /\ r.inserted = 0
      BY <1>1, <1>3, <2>1
    <3>2. Cardinality(Batch(id)') = 0 /\ 0 <= p.count
      <4>1. p.count \in Nat
        BY PayloadAssumption
      <4>2. Cardinality(Batch(id)') = 0
        BY <1>5, <1>6, FS_EmptySet
      <4> QED BY <4>1, <4>2
    <3>3. batches'[id].payload = p
      BY <1>4
    <3>4. Drawing(g)' /\ ~ Inserting(g)' /\ request'[g].phase # "logged"
      BY <3>1 DEF Drawing, Inserting
    <3> QED BY <3>1, <3>2, <3>3, <3>4 DEF GenerateFits, Batch
  <2>2. CASE g # h
    <3>1. request'[g] = request[g] /\ Generating(g)
      BY <1>3, <1>8, <2>2 DEF Generating
    <3>2. GenerateFits(g) /\ request[g].batch \in DOMAIN batches
      BY <3>1, OpenBatch DEF CountsFit
    <3> QED BY <1>4, <1>5, <3>1, <3>2 DEF GenerateFits, Drawing, Inserting, Batch
  <2> QED BY <2>1, <2>2
<1> QED BY <1>7, <1>8 DEF CountsFit

LEMMA FitsStay ==
    ASSUME NEW h, GenerateFits(h), request'[h] = request[h],
           batches'[request[h].batch].payload = batches[request[h].batch].payload,
           Batch(request[h].batch)' = Batch(request[h].batch)
    PROVE  GenerateFits(h)'
<1>1. PICK r, n : r = request[h] /\ n = Cardinality(Batch(r.batch))
  OBVIOUS
<1>2. r = request'[h] /\ n = Cardinality(Batch(r.batch)') /\ r.payload = batches'[r.batch].payload
  BY <1>1 DEF GenerateFits
<1>3. /\ r.phase = "drawing" => r.inserted = n /\ n <= r.payload.count
      /\ r.phase = "inserting" => /\ \E C : r.todo \in Seq(C)
                                 /\ r.todo # <<>>
                                 /\ n + Len(r.todo) <= r.payload.count
      /\ r.phase = "logged" => n = r.payload.count
  BY <1>1 DEF GenerateFits, Drawing, Inserting
<1>4. Batch(r.batch)' = {v \in vouchers' : v.batch = r.batch}
  BY DEF Batch
<1> QED BY <1>2, <1>3, <1>4 DEF GenerateFits, Drawing, Inserting, Batch

LEMMA PayloadOf ==
    ASSUME AdminInv, CountsFit, NEW h \in Request, Generating(h)
    PROVE  /\ request[h].payload \in Payload /\ request[h].payload.count \in Nat
           /\ Cardinality(Batch(request[h].batch)) \in Nat
<1>1. request[h].batch \in DOMAIN batches /\ request[h].payload \in Payload
  BY OpenBatch
<1>2. IsFiniteSet(Batch(request[h].batch))
  BY <1>1 DEF CountsFit
<1> QED BY <1>1, <1>2, PayloadAssumption, FS_CardinalityType

LEMMA DrawCodesCounts ==
    ASSUME AdminInv, CountsFit, NEW h \in Request, NEW candidates, DrawCodes(h, candidates)
    PROVE  CountsFit'
<1> DEFINE mine == request[h].batch
<1>1. PICK r : r = [request[h] EXCEPT !.phase = "inserting", !.todo = Sorted(candidates)]
  OBVIOUS
<1>2. Drawing(h) /\ Generating(h)
  BY DEF DrawCodes, Drawing, Generating
<1>3. /\ r.phase = "inserting" /\ r.todo = Sorted(candidates) /\ r.batch = mine
      /\ r.payload = request[h].payload
  BY <1>1, <1>2, OpenBatch DEF GenerateFields
<1>4. GenerateFits(h) /\ mine \in DOMAIN batches
  BY <1>2, OpenBatch DEF CountsFit
<1>5. /\ request[h].payload.count \in Nat /\ request[h].inserted \in Nat
      /\ request[h].inserted = Cardinality(Batch(mine))
  BY <1>2, <1>4, PayloadOf DEF GenerateFits
<1>6. Need(h) \in Nat /\ Need(h) > 0 /\ Need(h) + request[h].inserted = r.payload.count
  BY <1>3, <1>5 DEF DrawCodes, Need
<1>7. Len(r.todo) = Need(h) /\ \E C : r.todo \in Seq(C)
  BY <1>2, <1>3, <1>6, PayloadOf, DrawnLength DEF DrawCodes
<1>8. r.todo # <<>>
  BY <1>6, <1>7
<1>9. Cardinality(Batch(mine)) + Len(r.todo) <= r.payload.count
  BY <1>5, <1>6, <1>7
<1>10. request' = [request EXCEPT ![h] = r] /\ UNCHANGED <<vouchers, batches>>
  BY <1>1 DEF DrawCodes, To, tables
<1>11. \A g \in Request : request'[g] = IF g = h THEN r ELSE request[g]
  BY <1>10 DEF AdminInv, RowsTyped
<1>12. \A b : Batch(b)' = Batch(b)
  BY <1>10 DEF Batch
<1>13. ASSUME NEW g \in Request, Generating(g)' PROVE GenerateFits(g)'
  <2>1. CASE g = h
    <3>1. request'[g] = r /\ ~ Drawing(g)' /\ r.phase # "logged"
      BY <1>3, <1>11, <2>1 DEF Drawing
    <3>2. r.payload = batches'[r.batch].payload
      BY <1>3, <1>4, <1>10 DEF GenerateFits
    <3>3. Cardinality(Batch(r.batch)') + Len(r.todo) <= r.payload.count
      BY <1>3, <1>9, <1>12
    <3> QED BY <1>7, <1>8, <3>1, <3>2, <3>3 DEF GenerateFits, Batch
  <2>2. CASE g # h
    <3>1. request'[g] = request[g] /\ Generating(g)
      BY <1>11, <1>13, <2>2 DEF Generating
    <3>2. GenerateFits(g)
      BY <3>1 DEF CountsFit
    <3> QED BY <1>10, <1>12, <3>1, <3>2, FitsStay
  <2> QED BY <2>1, <2>2
<1>14. ASSUME NEW b \in DOMAIN batches'
       PROVE  /\ IsFiniteSet(Batch(b)')
              /\ batches'[b].state = "committed" =>
                   Cardinality(Batch(b)') = batches'[b].payload.count
  BY <1>10, <1>12 DEF CountsFit
<1> QED BY <1>13, <1>14 DEF CountsFit

(* A row that is stored already is passed over, and the round gets shorter   *)
(* all the same.                                                             *)
LEMMA InsertRowCounts ==
    ASSUME AdminInv, CountsFit, NEW h \in Request, InsertRow(h)
    PROVE  CountsFit'
<1>0. PICK mine, todo : mine = request[h].batch /\ todo = request[h].todo
  OBVIOUS
<1> DEFINE code == Head(todo)
           rest == Tail(todo)
<1>1. PICK own : own = {v \in vouchers' : v.batch = mine}
  OBVIOUS
<1>2. PICK r : r = IF rest # <<>> THEN [request[h] EXCEPT !.todo = rest]
                   ELSE [request[h] EXCEPT !.todo = rest, !.phase = "drawing",
                                           !.inserted = Cardinality(own)]
  OBVIOUS
<1>3. Inserting(h) /\ Generating(h)
  BY DEF InsertRow, Inserting, Generating
<1>4. /\ vouchers' = IF Stored(code) # {} THEN vouchers
                     ELSE vouchers \union {[code |-> code, batch |-> mine]}
      /\ request' = [request EXCEPT ![h] = r] /\ UNCHANGED batches
  BY <1>0, <1>1, <1>2 DEF InsertRow, To
<1>5. GenerateFits(h) /\ mine \in DOMAIN batches /\ batches[mine].state = "open"
        /\ DOMAIN request[h] = GenerateFields
  BY <1>0, <1>3, OpenBatch DEF CountsFit
<1>6. /\ r.batch = mine /\ r.payload = request[h].payload /\ r.todo = rest
      /\ r.phase = IF rest # <<>> THEN "inserting" ELSE "drawing"
      /\ rest = <<>> => r.inserted = Cardinality(own)
  BY <1>0, <1>2, <1>3, <1>5 DEF GenerateFields, Inserting
<1>7. PICK rows : rows = Batch(mine)
  OBVIOUS
<1>8. /\ IsFiniteSet(rows) /\ Cardinality(rows) \in Nat
      /\ r.payload.count \in Nat
  BY <1>0, <1>3, <1>5, <1>6, <1>7, PayloadOf DEF CountsFit
<1>9. own = rows \/ own = rows \union {[code |-> code, batch |-> mine]}
  BY <1>1, <1>4, <1>7 DEF Batch
<1>10. IsFiniteSet(own) /\ Cardinality(own) \in Nat /\ Cardinality(own) <= Cardinality(rows) + 1
  <2>1. PICK new : own = rows \/ own = rows \union {new}
    BY <1>9
  <2>2. /\ IsFiniteSet(rows \union {new})
        /\ Cardinality(rows \union {new}) =
             IF new \in rows THEN Cardinality(rows) ELSE Cardinality(rows) + 1
    BY <1>8, FS_AddElement
  <2> QED BY <1>8, <2>1, <2>2
<1>11. /\ \E C : rest \in Seq(C)
       /\ Len(rest) \in Nat /\ Cardinality(rows) + Len(rest) + 1 <= r.payload.count
       /\ rest = <<>> => Len(rest) = 0
  <2>1. PICK C : todo \in Seq(C)
    BY <1>0, <1>3, <1>5 DEF GenerateFits
  <2>2. todo # <<>> /\ Cardinality(rows) + Len(todo) <= r.payload.count
    BY <1>0, <1>3, <1>5, <1>6, <1>7 DEF GenerateFits
  <2>3. rest \in Seq(C) /\ Len(rest) = Len(todo) - 1 /\ Len(todo) \in Nat /\ Len(todo) > 0
    BY <2>1, <2>2
  <2>4. Len(rest) \in Nat /\ Cardinality(rows) + Len(rest) + 1 <= r.payload.count
    BY <1>8, <2>2, <2>3
  <2>5. Len(<<>>) = 0
    OBVIOUS
  <2> HIDE DEF rest
  <2> QED BY <2>3, <2>4, <2>5
<1> HIDE DEF rest, code
<1>12. Cardinality(own) + Len(rest) <= r.payload.count /\ Cardinality(own) <= r.payload.count
  BY <1>8, <1>10, <1>11
<1>13. \A g \in Request : request'[g] = IF g = h THEN r ELSE request[g]
  BY <1>4 DEF AdminInv, RowsTyped
<1>14. Batch(mine)' = own
  BY <1>1 DEF Batch
<1>15. ASSUME NEW b, b # mine PROVE Batch(b)' = Batch(b)
  BY <1>4, <1>15 DEF Batch
<1>16. ASSUME NEW g \in Request, Generating(g)' PROVE GenerateFits(g)'
  <2>1. CASE g = h
    <3>1. request'[g] = r
      BY <1>13, <2>1
    <3>2. r.payload = batches'[r.batch].payload
      BY <1>0, <1>4, <1>5, <1>6 DEF GenerateFits
    <3>3. Drawing(g)' => rest = <<>> /\ r.inserted = Cardinality(own)
      BY <1>6, <3>1 DEF Drawing
    <3>4. Inserting(g)' => rest # <<>>
      BY <1>6, <3>1 DEF Inserting
    <3> QED BY <1>6, <1>11, <1>12, <1>14, <3>1, <3>2, <3>3, <3>4 DEF GenerateFits, Batch
  <2>2. CASE g # h
    <3>1. request'[g] = request[g] /\ Generating(g)
      BY <1>13, <1>16, <2>2 DEF Generating
    <3>2. PICK b : b = request[g].batch
      OBVIOUS
    <3>3. b # mine
      BY <1>0, <1>3, <2>2, <3>1, <3>2 DEF AdminInv, BatchesServed
    <3>4. Batch(b)' = Batch(b)
      BY <1>15, <3>3
    <3>5. GenerateFits(g)
      BY <3>1 DEF CountsFit
    <3> QED BY <1>4, <3>1, <3>2, <3>4, <3>5 DEF GenerateFits, Drawing, Inserting, Batch
  <2> QED BY <2>1, <2>2
<1>17. ASSUME NEW b \in DOMAIN batches'
       PROVE  /\ IsFiniteSet(Batch(b)')
              /\ batches'[b].state = "committed" =>
                   Cardinality(Batch(b)') = batches'[b].payload.count
  <2>1. CASE b = mine
    <3>1. Batch(b)' = own
      BY <1>1, <2>1 DEF Batch
    <3> QED BY <1>4, <1>5, <1>10, <2>1, <3>1
  <2>2. CASE b # mine
    BY <1>4, <1>15, <2>2 DEF CountsFit
  <2> QED BY <2>1, <2>2
<1> QED BY <1>16, <1>17 DEF CountsFit

(* The batch h has open ends: the others are as they were.                   *)
LEMMA EndCounts ==
    ASSUME AdminInv, CountsFit, NEW h \in Request, Generating(h),
           NEW s \in {"committed", "none"},
           batches' = [batches EXCEPT ![request[h].batch].state = s],
           request' = [request EXCEPT ![h] = Idle],
           \A v : v.batch # request[h].batch => (v \in vouchers' <=> v \in vouchers),
           vouchers' \subseteq vouchers,
           s = "committed" =>
             /\ vouchers' = vouchers
             /\ Cardinality(Batch(request[h].batch)) = request[h].payload.count
    PROVE  CountsFit'
<1>1. PICK mine : mine = request[h].batch
  OBVIOUS
<1>2. mine \in DOMAIN batches /\ GenerateFits(h)
  BY <1>1, OpenBatch DEF CountsFit
<1>3. \A g \in Request : request'[g] = IF g = h THEN Idle ELSE request[g]
  BY DEF AdminInv, RowsTyped
<1>4. \A b \in DOMAIN batches :
        batches'[b] = IF b = mine THEN [batches[b] EXCEPT !.state = s] ELSE batches[b]
  BY <1>1, <1>2 DEF AdminInv, RowsTyped
<1>5. DOMAIN batches' = DOMAIN batches
  BY <1>1, <1>2 DEF AdminInv, RowsTyped
<1>6. \A b \in DOMAIN batches : batches[b] \in BatchRow
  BY DEF AdminInv, RowsTyped
<1>7. batches'[mine].state = s /\ batches'[mine].payload = batches[mine].payload
  BY <1>2, <1>4, <1>6 DEF BatchRow
<1>8. ASSUME NEW b, b # mine PROVE Batch(b)' = Batch(b)
  BY <1>1, <1>8 DEF Batch
<1>9. ASSUME NEW g \in Request, Generating(g)' PROVE GenerateFits(g)'
  <2>1. g # h
    BY <1>3, <1>9 DEF Generating, Idle
  <2>2. request'[g] = request[g] /\ Generating(g)
    BY <1>3, <1>9, <2>1 DEF Generating
  <2>3. PICK b : b = request[g].batch
    OBVIOUS
  <2>4. b # mine /\ b \in DOMAIN batches
    BY <1>1, <2>1, <2>2, <2>3, OpenBatch DEF AdminInv, BatchesServed
  <2>5. Batch(b)' = Batch(b) /\ batches'[b] = batches[b]
    BY <1>4, <1>8, <2>4
  <2>6. GenerateFits(g)
    BY <2>2 DEF CountsFit
  <2> QED BY <2>2, <2>3, <2>5, <2>6 DEF GenerateFits, Drawing, Inserting, Batch
<1>10. ASSUME NEW b \in DOMAIN batches'
       PROVE  /\ IsFiniteSet(Batch(b)')
              /\ batches'[b].state = "committed" =>
                   Cardinality(Batch(b)') = batches'[b].payload.count
  <2>1. CASE b = mine
    <3>1. Batch(b)' \subseteq Batch(b) /\ IsFiniteSet(Batch(b))
      BY <1>2, <2>1 DEF Batch, CountsFit
    <3>2. IsFiniteSet(Batch(b)')
      BY <3>1, FS_Subset
    <3>3. ASSUME s = "committed" PROVE Cardinality(Batch(b)') = batches'[b].payload.count
      <4>1. Batch(b)' = Batch(b)
        BY <3>3 DEF Batch
      <4>2. Cardinality(Batch(b)) = request[h].payload.count
        BY <1>1, <2>1, <3>3
      <4>3. batches'[b].payload = request[h].payload
        BY <1>1, <1>2, <1>7, <2>1 DEF GenerateFits
      <4> QED BY <4>1, <4>2, <4>3
    <3> QED BY <1>7, <2>1, <3>2, <3>3
  <2>2. CASE b # mine
    <3>1. b \in DOMAIN batches /\ batches'[b] = batches[b]
      BY <1>4, <1>5, <1>10, <2>2
    <3>2. Batch(b)' = Batch(b)
      BY <1>8, <2>2
    <3>3. /\ IsFiniteSet(Batch(b))
          /\ batches[b].state = "committed" => Cardinality(Batch(b)) = batches[b].payload.count
      BY <3>1 DEF CountsFit
    <3> QED BY <3>1, <3>2, <3>3
  <2> QED BY <2>1, <2>2
<1> QED BY <1>9, <1>10 DEF CountsFit

LEMMA GenerateLogCounts ==
    ASSUME AdminInv, CountsFit, NEW h \in Request, GenerateLog(h)
    PROVE  CountsFit'
<1>1. Drawing(h) /\ Generating(h)
  BY DEF GenerateLog, Drawing, Generating
<1>2. GenerateFits(h)
  BY <1>1 DEF CountsFit
<1>3. PICK c, i : c = request[h].payload.count /\ i = request[h].inserted
  OBVIOUS
<1>4. c \in Nat /\ i \in Nat /\ i <= c /\ c - i <= 0 /\ i = Cardinality(Batch(request[h].batch))
  BY <1>1, <1>2, <1>3, PayloadOf DEF GenerateFits, GenerateLog, Need
<1>5. i = c
  BY <1>4
<1>6. PICK r : r = [request[h] EXCEPT !.phase = "logged", !.log = LogId("generate")]
  OBVIOUS
<1>7. /\ r.phase = "logged" /\ r.batch = request[h].batch /\ r.payload = request[h].payload
  BY <1>1, <1>6, OpenBatch DEF GenerateFields
<1>8. request' = [request EXCEPT ![h] = r] /\ UNCHANGED <<vouchers, batches>>
  BY <1>6 DEF GenerateLog, To
<1>9. \A g \in Request : request'[g] = IF g = h THEN r ELSE request[g]
  BY <1>8 DEF AdminInv, RowsTyped
<1>10. \A b : Batch(b)' = Batch(b)
  BY <1>8 DEF Batch
<1>11. ASSUME NEW g \in Request, Generating(g)' PROVE GenerateFits(g)'
  <2>1. CASE g = h
    <3>1. request'[g] = r /\ ~ Drawing(g)' /\ ~ Inserting(g)'
      BY <1>7, <1>9, <2>1 DEF Drawing, Inserting
    <3>2. r.payload = batches'[r.batch].payload
      BY <1>2, <1>7, <1>8 DEF GenerateFits
    <3>3. Cardinality(Batch(r.batch)') = r.payload.count
      BY <1>3, <1>4, <1>5, <1>7, <1>10
    <3> QED BY <3>1, <3>2, <3>3 DEF GenerateFits, Batch
  <2>2. CASE g # h
    <3>1. request'[g] = request[g] /\ Generating(g)
      BY <1>9, <1>11, <2>2 DEF Generating
    <3>2. GenerateFits(g)
      BY <3>1 DEF CountsFit
    <3> QED BY <1>8, <1>10, <3>1, <3>2, FitsStay
  <2> QED BY <2>1, <2>2
<1>12. ASSUME NEW b \in DOMAIN batches'
       PROVE  /\ IsFiniteSet(Batch(b)')
              /\ batches'[b].state = "committed" =>
                   Cardinality(Batch(b)') = batches'[b].payload.count
  BY <1>8, <1>10 DEF CountsFit
<1> QED BY <1>11, <1>12 DEF CountsFit

LEMMA GenerateCommitCounts ==
    ASSUME AdminInv, CountsFit, NEW h \in Request, GenerateCommit(h)
    PROVE  CountsFit'
<1>1. Generating(h) /\ request[h].phase = "logged"
  BY DEF GenerateCommit, Generating
<1>2. Cardinality(Batch(request[h].batch)) = request[h].payload.count
  BY <1>1 DEF CountsFit, GenerateFits
<1> QED BY <1>1, <1>2, EndCounts DEF GenerateCommit, EndBatch, To

LEMMA UndoCounts ==
    ASSUME AdminInv, CountsFit, NEW h \in Request, Generating(h), Undo(h),
           request' = [request EXCEPT ![h] = Idle]
    PROVE  CountsFit'
<1>1. vouchers' = vouchers \ Own(h)
  BY DEF Undo
<1>2. \A v : v.batch # request[h].batch => (v \in vouchers' <=> v \in vouchers)
  BY <1>1 DEF Own
<1>3. vouchers' \subseteq vouchers
  BY <1>1
<1>4. batches' = [batches EXCEPT ![request[h].batch].state = "none"]
  BY DEF Undo, EndBatch
<1> QED BY <1>2, <1>3, <1>4, EndCounts

LEMMA OtherCounts ==
    ASSUME AdminInv, CountsFit, NEW h \in Request, NEW r,
           request' = [request EXCEPT ![h] = r], ~ Generates(r), UNCHANGED <<vouchers, batches>>
    PROVE  CountsFit'
<1>1. \A g \in Request : request'[g] = IF g = h THEN r ELSE request[g]
  BY DEF AdminInv, RowsTyped
<1>2. \A g \in Request : Generating(g)' => Generating(g) /\ request'[g] = request[g]
  BY <1>1 DEF Generating, Generates
<1> QED BY <1>2, CountsStay

LEMMA CountsKept ==
    ASSUME AdminInv, CountsFit, [AdminNext]_vars
    PROVE  CountsFit'
<1>1. CASE UNCHANGED vars
  BY <1>1, CountsStay DEF vars, Generating
<1>2. ASSUME NEW h \in Request, ChangeStep(h) PROVE CountsFit'
  BY <1>2, ChangeSteps, OtherCounts
<1>3. ASSUME NEW h \in Request, GenerateStep(h) PROVE CountsFit'
  BY <1>3, GenerateSteps, GenerateBeginCounts, DrawCodesCounts, InsertRowCounts,
     GenerateLogCounts, GenerateCommitCounts, UndoCounts
<1> QED BY <1>1, <1>2, <1>3, TwoKinds

LEMMA CountsAlways == AdminSpec => []CountsFit
<1>1. AdminInit => CountsFit
  BY DEF AdminInit, CountsFit, Generating, Idle
<1>2. AdminInv /\ CountsFit /\ [AdminNext]_vars => CountsFit'
  BY CountsKept
<1> QED BY <1>1, <1>2, AdminInvariant, PTL DEF AdminSpec

(* A batch that is committed has exactly the count asked for, of codes no    *)
(* other batch has, however many rounds, collisions and concurrent batches   *)
(* it took (admin_generate_vouchers).                                        *)
THEOREM BatchesExact == AdminSpec => []BatchExact
<1>1. AdminInv /\ CountsFit => BatchExact
  BY DEF AdminInv, CountsFit, BatchExact, Committed
<1> QED BY <1>1, AdminInvariant, CountsAlways, PTL

-----------------------------------------------------------------------------
(* What each step of a change does to the requests and to the rows.          *)
LEMMA KeptStays ==
    ASSUME NEW fields, NEW rows, NEW new, NEW id, NEW t, Ended(fields, rows, new, id, t),
           t # "committed", id \in DOMAIN rows => rows[id].state = "open"
    PROVE  Kept(new) = Kept(rows)
BY DEF Kept, Ended

LEMMA KeptGrows ==
    ASSUME NEW fields, NEW rows, NEW new, NEW id, Ended(fields, rows, new, id, "committed"),
           id \in DOMAIN rows
    PROVE  Kept(new) = Kept(rows) \union {id}
BY DEF Kept, Ended

(* A row that is added comes last, and its transaction is open.              *)
Added(rows, new, n) ==
    /\ n \in Nat \ {0} /\ n \notin DOMAIN rows
    /\ DOMAIN new = DOMAIN rows \union {n} /\ new[n].state = "open"
    /\ \A i \in DOMAIN rows : i < n /\ new[i] = rows[i]

LEMMA KeptAdds ==
    ASSUME NEW rows, NEW new, NEW n, Added(rows, new, n)
    PROVE  Kept(new) = Kept(rows)
BY DEF Kept, Added

OthersSame(h) == \A g \in Request \ {h} : request'[g] = request[g]

LEMMA RequestOf ==
    ASSUME AdminInv, NEW h \in Request, NEW r, request' = [request EXCEPT ![h] = r]
    PROVE  OthersSame(h) /\ request'[h] = r
BY DEF AdminInv, RowsTyped, OthersSame

LEMMA Loading ==
    ASSUME AdminInv, NEW h \in Request, NEW phase \in {"upsert", "key"}, NEW on, NEW wanted,
           NEW loaded, Begin(h, Change(phase, on, wanted, loaded))
    PROVE  /\ ~ Changing(h) /\ Changing(h)' /\ OthersSame(h)
           /\ DOMAIN request'[h] = ChangeFields
           /\ request'[h].phase = phase /\ request'[h].on = on
           /\ request'[h].wanted = wanted /\ request'[h].loaded = loaded
           /\ request'[h].step = "loaded" /\ request'[h].row = None
           /\ request'[h].log = 0 /\ request'[h].entry = 0
           /\ request'[h].by = served + 1 /\ served' = served + 1 /\ served \in Nat
<1>1. PICK r : r = Change(phase, on, wanted, loaded)
  OBVIOUS
<1>2. OthersSame(h) /\ request'[h] = r /\ request[h] = Idle /\ served' = served + 1
  BY <1>1, RequestOf DEF Begin
<1>3. served \in Nat
  BY BoundAssumption DEF AdminInv, RowsTyped
<1> QED BY <1>1, <1>2, <1>3 DEF Change, Changing, Idle, ChangeFields

LEMMA Logging ==
    ASSUME AdminInv, NEW h \in Request, UpsertLog(h) \/ SwitchLog(h),
           NEW a, a = request[h].phase
    PROVE  /\ Changing(h) /\ OthersSame(h) /\ request[h].step = "loaded" /\ a \in Logs
           /\ SameChange(request'[h], request[h]) /\ request'[h].step = "logged"
           /\ request'[h].row = request[h].row /\ request'[h].entry = request[h].entry
           /\ Added(audit[a], audit'[a], request'[h].log)
           /\ audit'[a][request'[h].log].by = request[h].by
           /\ a = "upsert" => audit'[a][request'[h].log].config = request[h].wanted
           /\ a = "key" => /\ audit'[a][request'[h].log].key = request[h].on
                           /\ audit'[a][request'[h].log].enabled = request[h].wanted
           /\ \A other \in Logs : other # a => audit'[other] = audit[other]
           /\ UNCHANGED <<batches, config, history, enabled, served, overlapped>>
<1>1. PICK n, r, row :
        /\ n = LogId(a) /\ r = [request[h] EXCEPT !.step = "logged", !.log = n]
        /\ row = IF a = "upsert" THEN [config |-> request[h].wanted, by |-> request[h].by,
                                       state |-> "open"]
                 ELSE [key |-> request[h].on, enabled |-> request[h].wanted,
                       by |-> request[h].by, state |-> "open"]
  OBVIOUS
<1>2. /\ request' = [request EXCEPT ![h] = r] /\ Log(a, row) /\ Changing(h)
      /\ request[h].step = "loaded" /\ a \in {"upsert", "key"}
      /\ UNCHANGED <<batches, config, history, enabled, served, overlapped>>
  BY <1>1 DEF UpsertLog, SwitchLog, At, To, Changing
<1>3. row \in LogRow(a) /\ a \in Logs
  BY <1>1, <1>2, ChangeHolds
     DEF LogRow, UpsertLogRow, KeyLogRow, RowState, Logs
<1>4. /\ SameChange(r, request[h]) /\ r.step = "logged" /\ r.log = n
      /\ r.row = request[h].row /\ r.entry = request[h].entry
  BY <1>1, <1>2, ChangeHolds DEF SameChange, ChangeFields
<1>5. /\ row.by = request[h].by /\ row.state = "open"
      /\ a = "upsert" => row.config = request[h].wanted
      /\ a = "key" => row.key = request[h].on /\ row.enabled = request[h].wanted
  BY <1>1
<1>6. OthersSame(h) /\ request'[h] = r
  BY <1>2, RequestOf
<1>7. /\ \A other \in Logs : other # a => audit'[other] = audit[other]
      /\ Added(audit[a], audit'[a], n) /\ audit'[a][n] = row
  BY <1>1, <1>2, <1>3, <1>5, AuditLogs DEF Added
<1> QED BY <1>2, <1>3, <1>4, <1>5, <1>6, <1>7

LEMMA Writing ==
    ASSUME AdminInv, NEW h \in Request, UpsertRow(h) \/ SwitchRow(h)
    PROVE  /\ Changing(h) /\ OthersSame(h) /\ request[h].step = "logged"
           /\ SameChange(request'[h], request[h]) /\ request'[h].step = "stored"
           /\ request'[h].log = request[h].log /\ request'[h].entry = request[h].entry
           /\ request[h].wanted = request[h].loaded => request'[h].row = request[h].row
           /\ request[h].wanted # request[h].loaded =>
                /\ ~ Locked(h)
                /\ request[h].phase = "key" => request'[h].row = request[h].wanted
                /\ request[h].phase = "upsert" =>
                     /\ request[h].loaded = None => config = None
                     /\ request'[h].row =
                          Updated(config, request[h].loaded, request[h].wanted)
           /\ UNCHANGED <<batches, config, history, enabled, audit, served, overlapped>>
<1>1. PICK new : new = IF request[h].phase = "key" THEN request[h].wanted
                       ELSE Updated(config, request[h].loaded, request[h].wanted)
  OBVIOUS
<1>2. PICK r : r = IF request[h].wanted = request[h].loaded
                   THEN [request[h] EXCEPT !.step = "stored"]
                   ELSE [request[h] EXCEPT !.step = "stored", !.row = new]
  OBVIOUS
<1>3. /\ request' = [request EXCEPT ![h] = r] /\ Changing(h) /\ request[h].step = "logged"
      /\ request[h].wanted # request[h].loaded =>
           /\ ~ Locked(h)
           /\ request[h].phase = "upsert" => (request[h].loaded = None => config = None)
      /\ UNCHANGED <<batches, config, history, enabled, audit, served, overlapped>>
  BY <1>1, <1>2 DEF UpsertRow, SwitchRow, At, To, Changing, tables
<1>4. /\ SameChange(r, request[h]) /\ r.step = "stored"
      /\ r.log = request[h].log /\ r.entry = request[h].entry
      /\ r.row = IF request[h].wanted = request[h].loaded THEN request[h].row ELSE new
  BY <1>2, <1>3, ChangeHolds DEF SameChange, ChangeFields
<1>5. OthersSame(h) /\ request'[h] = r
  BY <1>3, RequestOf
<1> QED BY <1>1, <1>3, <1>4, <1>5

LEMMA Recording ==
    ASSUME AdminInv, NEW h \in Request, UpsertHistory(h)
    PROVE  /\ Changing(h) /\ OthersSame(h) /\ request[h].step = "stored"
           /\ request[h].phase = "upsert"
           /\ SameChange(request'[h], request[h]) /\ request'[h].step = "recorded"
           /\ request'[h].row = request[h].row /\ request'[h].log = request[h].log
           /\ Added(history, history', request'[h].entry)
           /\ history'[request'[h].entry].by = request[h].by
           /\ history'[request'[h].entry].config = request[h].wanted
           /\ history'[request'[h].entry].changed =
                Changed(request[h].loaded, request[h].wanted)
           /\ UNCHANGED <<batches, config, enabled, audit, served, overlapped>>
<1>1. PICK n, r, row :
        /\ n = Len(history) + 1 /\ r = [request[h] EXCEPT !.step = "recorded", !.entry = n]
        /\ row = [config |-> request[h].wanted,
                  changed |-> Changed(request[h].loaded, request[h].wanted),
                  by |-> request[h].by, state |-> "open"]
  OBVIOUS
<1>2. /\ request' = [request EXCEPT ![h] = r] /\ history' = Append(history, row)
      /\ Changing(h) /\ request[h].step = "stored" /\ request[h].phase = "upsert"
      /\ UNCHANGED <<batches, config, enabled, audit, served, overlapped>>
  BY <1>1 DEF UpsertHistory, At, To, Changing
<1>3. /\ SameChange(r, request[h]) /\ r.step = "recorded" /\ r.entry = n
      /\ r.row = request[h].row /\ r.log = request[h].log
  BY <1>1, <1>2, ChangeHolds DEF SameChange, ChangeFields
<1>4. OthersSame(h) /\ request'[h] = r
  BY <1>2, RequestOf
<1>5. Added(history, history', n) /\ history'[n] = row
  <2>1. PICK s : s = history
    OBVIOUS
  <2>2. s \in Seq(HistoryRow) /\ n = Len(s) + 1
    BY <1>1, <2>1 DEF AdminInv, RowsTyped
  <2>3. /\ n \in Nat \ {0} /\ DOMAIN s = 1 .. n - 1
        /\ DOMAIN Append(s, row) = 1 .. n /\ Append(s, row)[n] = row
        /\ \A i \in 1 .. n - 1 : Append(s, row)[i] = s[i]
    BY <2>2
  <2>4. 1 .. n = (1 .. n - 1) \union {n} /\ n \notin 1 .. n - 1 /\ \A i \in 1 .. n - 1 : i < n
    BY <2>3
  <2>5. row.state = "open"
    BY <1>1
  <2> QED BY <1>2, <2>1, <2>3, <2>4, <2>5 DEF Added
<1>6. /\ row.by = request[h].by /\ row.config = request[h].wanted
      /\ row.changed = Changed(request[h].loaded, request[h].wanted)
  BY <1>1
<1>7. SameChange(request'[h], request[h]) /\ request'[h].entry = n
  BY <1>3, <1>4
<1> QED BY <1>2, <1>3, <1>4, <1>5, <1>6, <1>7

LEMMA Ending ==
    ASSUME AdminInv, NEW h \in Request, Changing(h), NEW t \in RowState, EndChange(h, t),
           NEW a, a = request[h].phase
    PROVE  /\ OthersSame(h) /\ request'[h] = Idle /\ a \in Logs
           /\ Ended(RowFields(a), audit[a], audit'[a], request[h].log, t)
           /\ \A other \in Logs : other # a => audit'[other] = audit[other]
           /\ request[h].log \notin DOMAIN audit[a] => audit' = audit
           /\ Ended(HistoryFields, history, history', request[h].entry, t)
           /\ request[h].entry \notin DOMAIN history => history' = history
           /\ UNCHANGED <<batches, served, overlapped>>
<1>1. OthersSame(h) /\ request'[h] = Idle
  BY RequestOf DEF EndChange
<1>2. PICK log, entry : log = request[h].log /\ entry = request[h].entry
  OBVIOUS
<1>3. a \in Logs
  BY DEF Changing, Logs
<1>4. /\ audit' = [audit EXCEPT ![a] = Settled(@, log, t)]
      /\ history' = Settled(history, entry, t)
      /\ UNCHANGED <<batches, served, overlapped>>
  BY <1>2 DEF EndChange
<1>5. /\ Ended(RowFields(a), audit[a], audit'[a], log, t)
      /\ \A other \in Logs : other # a => audit'[other] = audit[other]
      /\ log \notin DOMAIN audit[a] => audit' = audit
  BY <1>3, <1>4, AuditSettles
<1>6. /\ Ended(HistoryFields, history, history', entry, t)
      /\ entry \notin DOMAIN history => history' = history
  BY <1>4, HistorySettles
<1> QED BY <1>1, <1>2, <1>3, <1>4, <1>5, <1>6

(* The other steps: what a change reads stays as it is.                      *)
ChangesRest ==
    /\ \A g \in Request : Changing(g)' <=> Changing(g)
    /\ \A g \in Request : Changing(g) => request'[g] = request[g]
    /\ UNCHANGED <<config, history, enabled, overlapped>>
    /\ audit'["upsert"] = audit["upsert"] /\ audit'["key"] = audit["key"]
    /\ served \in Nat /\ served' \in Nat /\ served <= served'

LEMMA RestOf ==
    ASSUME AdminInv, NEW h \in Request, NEW r, request' = [request EXCEPT ![h] = r],
           ~ Changing(h), r.phase \notin {"upsert", "key"},
           UNCHANGED <<config, history, enabled, overlapped>>,
           audit'["upsert"] = audit["upsert"], audit'["key"] = audit["key"],
           served' = served \/ served' = served + 1
    PROVE  ChangesRest
<1>1. OthersSame(h) /\ request'[h] = r
  BY RequestOf
<1>2. \A g \in Request : Changing(g)' <=> Changing(g)
  BY <1>1 DEF OthersSame, Changing
<1>3. \A g \in Request : Changing(g) => request'[g] = request[g]
  BY <1>1 DEF OthersSame
<1>4. served \in Nat /\ served' \in Nat /\ served <= served'
  BY BoundAssumption DEF AdminInv, RowsTyped
<1> QED BY <1>2, <1>3, <1>4 DEF ChangesRest

LEMMA GenerateApart ==
    ASSUME AdminInv, NEW h \in Request, GenerateStep(h)
    PROVE  ChangesRest
<1>0. audit = [action \in Logs |-> audit[action]]
  BY DEF AdminInv, AuditTyped
<1>1. CASE \E p \in Payload : GenerateBegin(h, p)
  <2>1. PICK p \in Payload : GenerateBegin(h, p)
    BY <1>1
  <2>2. PICK r : r = [phase |-> "drawing", payload |-> p, batch |-> Len(batches) + 1,
                      inserted |-> 0, todo |-> <<>>, log |-> 0]
    OBVIOUS
  <2>3. /\ request' = [request EXCEPT ![h] = r] /\ request[h] = Idle /\ served' = served + 1
        /\ UNCHANGED <<config, history, enabled, audit, overlapped>>
    BY <2>1, <2>2 DEF GenerateBegin, Begin
  <2>4. r.phase = "drawing"
    BY <2>2
  <2>5. ~ Changing(h)
    BY <2>3 DEF Changing, Idle
  <2> QED BY <2>3, <2>4, <2>5, RestOf
<1>2. CASE \E candidates : DrawCodes(h, candidates)
  <2>1. PICK candidates : DrawCodes(h, candidates)
    BY <1>2
  <2>2. PICK r : r = [request[h] EXCEPT !.phase = "inserting", !.todo = Sorted(candidates)]
    OBVIOUS
  <2>3. r.phase = "inserting" /\ ~ Changing(h)
    BY <2>1, <2>2, OpenBatch DEF DrawCodes, Drawing, Generating, GenerateFields, Changing
  <2> QED BY <2>1, <2>2, <2>3, RestOf DEF DrawCodes, To, tables
<1>3. CASE InsertRow(h)
  <2>1. PICK own : own = {v \in vouchers' : v.batch = request[h].batch}
    OBVIOUS
  <2>2. PICK rest : rest = Tail(request[h].todo)
    OBVIOUS
  <2>3. PICK r : r = IF rest # <<>> THEN [request[h] EXCEPT !.todo = rest]
                     ELSE [request[h] EXCEPT !.todo = rest, !.phase = "drawing",
                                             !.inserted = Cardinality(own)]
    OBVIOUS
  <2>4. r.phase \in {"drawing", "inserting"} /\ ~ Changing(h)
    BY <1>3, <2>3, OpenBatch DEF InsertRow, Inserting, Generating, GenerateFields, Changing
  <2>5. request' = [request EXCEPT ![h] = r] /\ UNCHANGED <<served, overlapped>>
          /\ UNCHANGED <<config, history, enabled, audit>>
    BY <1>3, <2>1, <2>2, <2>3 DEF InsertRow, To
  <2> QED BY <2>4, <2>5, RestOf
<1>4. CASE GenerateLog(h)
  <2>1. PICK r : r = [request[h] EXCEPT !.phase = "logged", !.log = LogId("generate")]
    OBVIOUS
  <2>2. r.phase = "logged" /\ ~ Changing(h)
    BY <1>4, <2>1, OpenBatch DEF GenerateLog, Drawing, Generating, GenerateFields, Changing
  <2>3. audit'["upsert"] = audit["upsert"] /\ audit'["key"] = audit["key"]
    BY <1>0, <1>4 DEF GenerateLog, Log, Logs
  <2> QED BY <1>4, <2>1, <2>2, <2>3, RestOf DEF GenerateLog, To
<1>5. ASSUME Generating(h), NEW s, EndBatch(h, s), request' = [request EXCEPT ![h] = Idle],
             UNCHANGED <<served, overlapped>>
      PROVE  ChangesRest
  <2>1. audit'["upsert"] = audit["upsert"] /\ audit'["key"] = audit["key"]
    BY <1>0, <1>5 DEF EndBatch, Logs
  <2>2. ~ Changing(h) /\ Idle.phase = "idle"
    BY <1>5 DEF Changing, Generating, Idle
  <2> QED BY <1>5, <2>1, <2>2, RestOf DEF EndBatch
<1>6. CASE GenerateCommit(h)
  BY <1>5, <1>6 DEF GenerateCommit, To, Generating
<1>7. CASE Generating(h) /\ Undo(h) /\ request' = [request EXCEPT ![h] = Idle]
             /\ UNCHANGED <<served, overlapped>>
  BY <1>5, <1>7 DEF Undo
<1> QED BY <1>1, <1>2, <1>3, <1>4, <1>6, <1>7, GenerateSteps

LEMMA StutterApart ==
    ASSUME AdminInv, UNCHANGED vars
    PROVE  ChangesRest
<1>1. served \in Nat
  BY BoundAssumption DEF AdminInv, RowsTyped
<1> QED BY <1>1 DEF vars, ChangesRest, Changing

-----------------------------------------------------------------------------
(* A request has its number for itself, and so have the rows with it.        *)
NumbersFit ==
    /\ \A h \in Request : Changing(h) => request[h].by \in 1 .. served
    /\ \A g, h \in Request :
         Changing(g) /\ Changing(h) /\ request[g].by = request[h].by => g = h
    /\ \A a \in {"upsert", "key"} : \A i \in DOMAIN audit[a] : audit[a][i].by \in 1 .. served
    /\ \A i \in DOMAIN history : history[i].by \in 1 .. served
    /\ overlapped \subseteq 1 .. served

LEMMA NumbersRest ==
    ASSUME NumbersFit, ChangesRest
    PROVE  NumbersFit'
<1>1. \A n \in 1 .. served : n \in 1 .. served'
  BY DEF ChangesRest
<1>2. \A h \in Request : Changing(h)' => Changing(h) /\ request'[h] = request[h]
  BY DEF ChangesRest
<1>3. \A a \in {"upsert", "key"} : audit'[a] = audit[a]
  BY DEF ChangesRest
<1>4. history' = history /\ overlapped' = overlapped
  BY DEF ChangesRest
<1> QED BY <1>1, <1>2, <1>3, <1>4 DEF NumbersFit

LEMMA NumbersLoad ==
    ASSUME AdminInv, NumbersFit, NEW h \in Request, ~ Changing(h), OthersSame(h),
           request'[h].by = served + 1, served' = served + 1, served \in Nat,
           \A n \in overlapped' : \/ n \in overlapped \/ n = served + 1
                                  \/ \E g \in Request : Changing(g) /\ n = request[g].by,
           UNCHANGED <<audit, history>>
    PROVE  NumbersFit'
<1>1. \A n \in 1 .. served : n \in 1 .. served' /\ n # served + 1
  OBVIOUS
<1>2. served + 1 \in 1 .. served'
  OBVIOUS
<1>3. \A g \in Request : g # h /\ Changing(g)' => Changing(g) /\ request'[g] = request[g]
  BY DEF OthersSame, Changing
<1>4. \A g \in Request : g # h /\ Changing(g)' => request'[g].by \in 1 .. served
  BY <1>3 DEF NumbersFit
<1>5. \A g \in Request : Changing(g)' => request'[g].by \in 1 .. served'
  BY <1>1, <1>2, <1>4
<1>6. ASSUME NEW f \in Request, NEW g \in Request, Changing(f)', Changing(g)',
             request'[f].by = request'[g].by
      PROVE  f = g
  BY <1>1, <1>3, <1>4, <1>6 DEF NumbersFit
<1>7. overlapped' \subseteq 1 .. served'
  <2>1. \A g \in Request : Changing(g) => request[g].by \in 1 .. served'
    BY <1>1 DEF NumbersFit
  <2>2. \A n \in overlapped : n \in 1 .. served'
    BY <1>1 DEF NumbersFit
  <2> QED BY <1>2, <2>1, <2>2
<1>8. \A a \in {"upsert", "key"} : \A i \in DOMAIN audit[a] : audit[a][i].by \in 1 .. served'
  BY <1>1 DEF NumbersFit
<1>9. \A i \in DOMAIN history : history[i].by \in 1 .. served'
  BY <1>1 DEF NumbersFit
<1> QED BY <1>5, <1>6, <1>7, <1>8, <1>9 DEF NumbersFit

LEMMA NumbersGoOn ==
    ASSUME NumbersFit, NEW h \in Request, Changing(h), OthersSame(h),
           request'[h] = Idle \/ request'[h].by = request[h].by,
           UNCHANGED <<served, overlapped>>,
           \A a \in {"upsert", "key"} : \A i \in DOMAIN audit'[a] :
              \/ audit'[a][i].by = request[h].by
              \/ i \in DOMAIN audit[a] /\ audit'[a][i].by = audit[a][i].by,
           \A i \in DOMAIN history' :
              \/ history'[i].by = request[h].by
              \/ i \in DOMAIN history /\ history'[i].by = history[i].by
    PROVE  NumbersFit'
<1>1. \A g \in Request : Changing(g)' => Changing(g) /\ request'[g].by = request[g].by
  BY DEF OthersSame, Changing, Idle
<1>2. request[h].by \in 1 .. served
  BY DEF NumbersFit
<1>3. \A a \in {"upsert", "key"} : \A i \in DOMAIN audit'[a] : audit'[a][i].by \in 1 .. served
  BY <1>2 DEF NumbersFit
<1>4. \A i \in DOMAIN history' : history'[i].by \in 1 .. served
  BY <1>2 DEF NumbersFit
<1> QED BY <1>1, <1>3, <1>4 DEF NumbersFit

LEMMA NumbersEnd ==
    ASSUME AdminInv, NumbersFit, NEW h \in Request, Changing(h), NEW t \in RowState,
           EndChange(h, t)
    PROVE  NumbersFit'
<1>1. PICK a : a = request[h].phase
  OBVIOUS
<1>2. /\ OthersSame(h) /\ request'[h] = Idle /\ a \in Logs
      /\ Ended(RowFields(a), audit[a], audit'[a], request[h].log, t)
      /\ \A other \in Logs : other # a => audit'[other] = audit[other]
      /\ Ended(HistoryFields, history, history', request[h].entry, t)
      /\ UNCHANGED <<served, overlapped>>
  BY <1>1, Ending
<1>3. a \in {"upsert", "key"} /\ "by" \in RowFields(a)
  BY <1>1 DEF Changing, RowFields
<1>4. \A i \in DOMAIN audit'[a] : i \in DOMAIN audit[a] /\ audit'[a][i].by = audit[a][i].by
  BY <1>2, <1>3 DEF Ended
<1>5. \A other \in {"upsert", "key"} : \A i \in DOMAIN audit'[other] :
        i \in DOMAIN audit[other] /\ audit'[other][i].by = audit[other][i].by
  BY <1>2, <1>4 DEF Logs
<1>6. \A i \in DOMAIN history' : i \in DOMAIN history /\ history'[i].by = history[i].by
  BY <1>2 DEF Ended, HistoryFields
<1> QED BY <1>2, <1>5, <1>6, NumbersGoOn

LEMMA NumbersLog ==
    ASSUME AdminInv, NumbersFit, NEW h \in Request, UpsertLog(h) \/ SwitchLog(h)
    PROVE  NumbersFit'
<1>1. PICK a, n : a = request[h].phase /\ n = request'[h].log
  OBVIOUS
<1>2. /\ Changing(h) /\ OthersSame(h) /\ SameChange(request'[h], request[h])
      /\ Added(audit[a], audit'[a], n) /\ audit'[a][n].by = request[h].by
      /\ \A other \in Logs : other # a => audit'[other] = audit[other]
      /\ UNCHANGED <<history, served, overlapped>>
  BY <1>1, Logging
<1>3. \A i \in DOMAIN audit'[a] : \/ audit'[a][i].by = request[h].by
                                  \/ i \in DOMAIN audit[a] /\ audit'[a][i].by = audit[a][i].by
  BY <1>2 DEF Added
<1>4. \A other \in {"upsert", "key"} : \A i \in DOMAIN audit'[other] :
        \/ audit'[other][i].by = request[h].by
        \/ i \in DOMAIN audit[other] /\ audit'[other][i].by = audit[other][i].by
  BY <1>2, <1>3 DEF Logs
<1> QED BY <1>2, <1>4, NumbersGoOn DEF SameChange

LEMMA NumbersKept ==
    ASSUME AdminInv, NumbersFit, [AdminNext]_vars
    PROVE  NumbersFit'
<1>1. CASE UNCHANGED vars
  BY <1>1, StutterApart, NumbersRest
<1>2. ASSUME NEW h \in Request, GenerateStep(h) PROVE NumbersFit'
  BY <1>2, GenerateApart, NumbersRest
<1>3. ASSUME NEW h \in Request, UpsertStep(h) \/ SwitchStep(h) \/ ChangeLost(h) PROVE NumbersFit'
  <2>1. CASE UpsertFails(h) \/ UpsertCommit(h) \/ SwitchCommit(h) \/ ChangeLost(h)
    BY <2>1, NumbersEnd
       DEF UpsertFails, UpsertCommit, SwitchCommit, ChangeLost, At, Changing, RowState
  <2>2. CASE UpsertLog(h) \/ SwitchLog(h)
    BY <2>2, NumbersLog
  <2>3. CASE UpsertRow(h) \/ SwitchRow(h)
    BY <2>3, Writing, NumbersGoOn DEF SameChange
  <2>4. CASE UpsertHistory(h)
    <3>1. /\ Changing(h) /\ OthersSame(h) /\ SameChange(request'[h], request[h])
          /\ Added(history, history', request'[h].entry)
          /\ history'[request'[h].entry].by = request[h].by
          /\ UNCHANGED <<audit, served, overlapped>>
      BY <2>4, Recording
    <3>2. \A i \in DOMAIN history' :
            \/ history'[i].by = request[h].by
            \/ i \in DOMAIN history /\ history'[i].by = history[i].by
      BY <3>1 DEF Added
    <3> QED BY <3>1, <3>2, NumbersGoOn DEF SameChange
  <2> QED BY <1>3, <2>1, <2>2, <2>3, <2>4 DEF UpsertStep, SwitchStep
<1>4. ASSUME NEW h \in Request, NEW c \in Config, UpsertLoad(h, c) PROVE NumbersFit'
  <2>1. UNCHANGED <<audit, history, overlapped>>
    BY <1>4 DEF UpsertLoad, tables
  <2> QED BY <1>4, <2>1, Loading, NumbersLoad DEF UpsertLoad
<1>5. ASSUME NEW h \in Request, NEW k \in DevKey, CreateKey(h, k) PROVE NumbersFit'
  <2>1. UNCHANGED <<audit, history, overlapped>>
    BY <1>5 DEF CreateKey, tables
  <2> QED BY <1>5, <2>1, Loading, NumbersLoad DEF CreateKey
<1>6. ASSUME NEW h \in Request, NEW k \in DevKey, NEW on \in BOOLEAN, SwitchLoad(h, k, on)
      PROVE  NumbersFit'
  <2>1. UNCHANGED <<config, enabled, audit, history>>
    BY <1>6 DEF SwitchLoad, tables
  <2>2. CASE enabled[k] = None
    <3>1. ChangesRest
      BY <1>6, <2>1, <2>2, RestOf DEF SwitchLoad, Begin, Changing, Idle
    <3> QED BY <3>1, NumbersRest
  <2>3. CASE enabled[k] # None
    <3>1. Begin(h, Change("key", k, on, enabled[k])) /\ Meets(k)
      BY <1>6, <2>3 DEF SwitchLoad
    <3>2. \A n \in overlapped' : \/ n \in overlapped \/ n = served + 1
                                \/ \E g \in Request : Changing(g) /\ n = request[g].by
      BY <3>1 DEF Meets, OnKey, Changing
    <3> QED BY <2>1, <3>1, <3>2, Loading, NumbersLoad
  <2> QED BY <2>2, <2>3
<1> QED BY <1>1, <1>2, <1>3, <1>4, <1>5, <1>6, TwoKinds DEF ChangeStep

-----------------------------------------------------------------------------
(* The rows that a change has inserted, and nobody else's, have its number.  *)
LogHeld(r) ==
    /\ r.log \in DOMAIN audit[r.phase]
    /\ audit[r.phase][r.log].state = "open" /\ audit[r.phase][r.log].by = r.by
    /\ r.phase = "upsert" => audit[r.phase][r.log].config = r.wanted
    /\ r.phase = "key" => /\ audit[r.phase][r.log].key = r.on
                          /\ audit[r.phase][r.log].enabled = r.wanted

EntryHeld(r) ==
    /\ r.phase = "upsert" /\ r.entry \in DOMAIN history
    /\ history[r.entry].state = "open" /\ history[r.entry].by = r.by
    /\ history[r.entry].config = r.wanted
    /\ history[r.entry].changed = Changed(r.loaded, r.wanted)

RowsHeld(r) ==
    /\ r.step \in {"loaded", "logged", "stored", "recorded"}
    /\ IF r.step = "loaded" THEN r.log = 0 ELSE LogHeld(r)
    /\ IF r.step = "recorded" THEN EntryHeld(r) ELSE r.entry = 0
    /\ \A i \in DOMAIN audit[r.phase] : audit[r.phase][i].by = r.by => i = r.log
    /\ r.phase = "upsert" => \A i \in DOMAIN history : history[i].by = r.by => i = r.entry

Unique(rows) == \A i, j \in DOMAIN rows : rows[i].by = rows[j].by => i = j

(* Every row of the history has its row in the audit log, and the reverse.   *)
Matched ==
    /\ \A i \in Kept(history) : \E j \in Kept(audit["upsert"]) :
         /\ audit["upsert"][j].by = history[i].by
         /\ audit["upsert"][j].config = history[i].config
    /\ \A j \in Kept(audit["upsert"]) : \E i \in Kept(history) :
         history[i].by = audit["upsert"][j].by

PlacesFit ==
    /\ \A h \in Request : Changing(h) => RowsHeld(request[h])
    /\ Unique(history) /\ Unique(audit["upsert"]) /\ Matched

LEMMA NotARow ==
    ASSUME AdminInv
    PROVE  0 \notin DOMAIN history /\ \A a \in Logs : 0 \notin DOMAIN audit[a]
BY DEF AdminInv, RowsTyped, AuditTyped

(* The rows with a number are as they were.                                  *)
Untouched(fields, rows, new, by) ==
    /\ \A i \in DOMAIN rows : rows[i].by = by =>
         /\ i \in DOMAIN new /\ new[i].state = rows[i].state
         /\ \A f \in fields : new[i][f] = rows[i][f]
    /\ \A i \in DOMAIN new : new[i].by = by => i \in DOMAIN rows /\ rows[i].by = by

LEMMA EndedUntouched ==
    ASSUME NEW fields, NEW rows, NEW new, NEW id, NEW t, Ended(fields, rows, new, id, t),
           "by" \in fields, NEW by, id \in DOMAIN rows => rows[id].by # by
    PROVE  Untouched(fields, rows, new, by)
BY DEF Ended, Untouched

LEMMA AddedUntouched ==
    ASSUME NEW fields, NEW rows, NEW new, NEW n, Added(rows, new, n), NEW by, new[n].by # by
    PROVE  Untouched(fields, rows, new, by)
BY DEF Added, Untouched

LEMMA SameUntouched ==
    ASSUME NEW fields, NEW rows, NEW by
    PROVE  Untouched(fields, rows, rows, by)
BY DEF Untouched

LEMMA HeldStays ==
    ASSUME NEW r, RowsHeld(r), r.phase \in {"upsert", "key"},
           Untouched(RowFields(r.phase), audit[r.phase], audit'[r.phase], r.by),
           r.phase = "upsert" => Untouched(HistoryFields, history, history', r.by)
    PROVE  RowsHeld(r)'
<1>1. LogHeld(r) => LogHeld(r)'
  BY DEF LogHeld, Untouched, RowFields
<1>2. EntryHeld(r) => EntryHeld(r)'
  BY DEF EntryHeld, Untouched, HistoryFields
<1>3. \A i \in DOMAIN audit'[r.phase] : audit'[r.phase][i].by = r.by => i = r.log
  BY DEF RowsHeld, Untouched
<1>4. r.phase = "upsert" => \A i \in DOMAIN history' : history'[i].by = r.by => i = r.entry
  BY DEF RowsHeld, Untouched
<1> QED BY <1>1, <1>2, <1>3, <1>4 DEF RowsHeld

LEMMA PlacesRest ==
    ASSUME PlacesFit, ChangesRest
    PROVE  PlacesFit'
<1>1. ASSUME NEW h \in Request, Changing(h)' PROVE RowsHeld(request[h])'
  <2>1. PICK r : r = request[h]
    OBVIOUS
  <2>2. request'[h] = r /\ RowsHeld(r) /\ r.phase \in {"upsert", "key"}
    BY <1>1, <2>1 DEF ChangesRest, PlacesFit, Changing
  <2>3. audit'[r.phase] = audit[r.phase] /\ history' = history
    BY <2>2 DEF ChangesRest
  <2>4. RowsHeld(r)'
    BY <2>2, <2>3, SameUntouched, HeldStays
  <2> QED BY <2>2, <2>4
<1>2. Unique(history)' /\ Unique(audit["upsert"])' /\ Matched'
  BY DEF ChangesRest, PlacesFit, Unique, Matched
<1> QED BY <1>1, <1>2 DEF PlacesFit

(* The other requests, whatever h does to the rows with its own number.      *)
LEMMA OthersHeld ==
    ASSUME NumbersFit, PlacesFit, NEW h \in Request, Changing(h), OthersSame(h),
           \A by : by # request[h].by =>
              /\ Untouched(HistoryFields, history, history', by)
              /\ \A a \in {"upsert", "key"} : Untouched(RowFields(a), audit[a], audit'[a], by)
    PROVE  \A g \in Request : g # h /\ Changing(g)' => RowsHeld(request[g])'
<1> SUFFICES ASSUME NEW g \in Request, g # h, Changing(g)' PROVE RowsHeld(request[g])'
  OBVIOUS
<1>1. PICK r : r = request[g]
  OBVIOUS
<1>2. request'[g] = r /\ Changing(g)
  BY <1>1 DEF OthersSame, Changing
<1>3. RowsHeld(r) /\ r.phase \in {"upsert", "key"} /\ r.by # request[h].by
  BY <1>1, <1>2 DEF PlacesFit, NumbersFit, Changing
<1>4. RowsHeld(r)'
  BY <1>3, HeldStays
<1> QED BY <1>2, <1>4

LEMMA PlacesLoad ==
    ASSUME AdminInv, NumbersFit, PlacesFit, NEW h \in Request, OthersSame(h),
           request'[h].phase \in {"upsert", "key"}, request'[h].step = "loaded",
           request'[h].log = 0, request'[h].entry = 0, request'[h].by = served + 1,
           UNCHANGED <<audit, history>>
    PROVE  PlacesFit'
<1>0. served \in Nat
  BY BoundAssumption DEF AdminInv, RowsTyped
<1>1. ASSUME NEW g \in Request, Changing(g)' PROVE RowsHeld(request[g])'
  <2>1. CASE g = h
    <3>1. PICK r : r = request'[h]
      OBVIOUS
    <3>2. \A n \in 1 .. served : n # r.by
      BY <1>0, <3>1
    <3>3. \A i \in DOMAIN audit[r.phase] : audit[r.phase][i].by # r.by
      BY <3>1, <3>2 DEF NumbersFit
    <3>4. \A i \in DOMAIN history : history[i].by # r.by
      BY <3>1, <3>2 DEF NumbersFit
    <3> QED BY <2>1, <3>1, <3>3, <3>4 DEF RowsHeld
  <2>2. CASE g # h
    <3>1. PICK r : r = request[g]
      OBVIOUS
    <3>2. request'[g] = r /\ RowsHeld(r) /\ r.phase \in {"upsert", "key"}
      BY <1>1, <2>2, <3>1 DEF OthersSame, PlacesFit, Changing
    <3>3. RowsHeld(r)'
      BY <3>2, SameUntouched, HeldStays
    <3> QED BY <3>2, <3>3
  <2> QED BY <2>1, <2>2
<1>2. Unique(history)' /\ Unique(audit["upsert"])' /\ Matched'
  BY DEF PlacesFit, Unique, Matched
<1> QED BY <1>1, <1>2 DEF PlacesFit

LEMMA UniqueAdds ==
    ASSUME NEW rows, NEW new, NEW n, Added(rows, new, n), Unique(rows),
           \A i \in DOMAIN rows : rows[i].by # new[n].by
    PROVE  Unique(new)
BY DEF Added, Unique

LEMMA PlacesLog ==
    ASSUME AdminInv, NumbersFit, PlacesFit, NEW h \in Request, UpsertLog(h) \/ SwitchLog(h)
    PROVE  PlacesFit'
<1>1. PICK a, n, r, q : /\ a = request[h].phase /\ n = request'[h].log
                        /\ r = request[h] /\ q = request'[h]
  OBVIOUS
<1>2. /\ Changing(h) /\ OthersSame(h) /\ r.step = "loaded" /\ a \in Logs
      /\ SameChange(q, r) /\ q.step = "logged" /\ q.entry = r.entry
      /\ Added(audit[a], audit'[a], n)
      /\ audit'[a][n].by = r.by
      /\ a = "upsert" => audit'[a][n].config = r.wanted
      /\ a = "key" => audit'[a][n].key = r.on /\ audit'[a][n].enabled = r.wanted
      /\ \A other \in Logs : other # a => audit'[other] = audit[other]
      /\ history' = history
  BY <1>1, Logging
<1>3. RowsHeld(r) /\ a \in {"upsert", "key"} /\ r.log = 0 /\ q.phase = a /\ q.by = r.by
  BY <1>1, <1>2 DEF PlacesFit, Changing, RowsHeld, SameChange
<1>4. \A i \in DOMAIN audit[a] : audit[a][i].by # r.by
  BY <1>1, <1>2, <1>3, NotARow DEF RowsHeld
<1>5. \A by : by # r.by => /\ Untouched(HistoryFields, history, history', by)
                           /\ \A other \in {"upsert", "key"} :
                                Untouched(RowFields(other), audit[other], audit'[other], by)
  <2> SUFFICES ASSUME NEW by, by # r.by
               PROVE  /\ Untouched(HistoryFields, history, history', by)
                      /\ \A other \in {"upsert", "key"} :
                           Untouched(RowFields(other), audit[other], audit'[other], by)
    OBVIOUS
  <2>1. Untouched(RowFields(a), audit[a], audit'[a], by)
    BY <1>2, AddedUntouched
  <2>2. \A other \in {"upsert", "key"} : other # a => audit'[other] = audit[other]
    BY <1>2 DEF Logs
  <2> QED BY <1>2, <2>1, <2>2, SameUntouched
<1>6. \A g \in Request : g # h /\ Changing(g)' => RowsHeld(request[g])'
  BY <1>1, <1>2, <1>5, OthersHeld
<1>7. RowsHeld(q)'
  <2>1. LogHeld(q)'
    BY <1>1, <1>2, <1>3 DEF LogHeld, Added, SameChange
  <2>2. \A i \in DOMAIN audit'[a] : audit'[a][i].by = q.by => i = q.log
    BY <1>1, <1>2, <1>3, <1>4 DEF Added
  <2>3. q.phase = "upsert" => \A i \in DOMAIN history' : history'[i].by = q.by => i = q.entry
    BY <1>2, <1>3 DEF RowsHeld, SameChange
  <2>4. q.entry = 0
    BY <1>2, <1>3 DEF RowsHeld
  <2> QED BY <1>2, <1>3, <2>1, <2>2, <2>3, <2>4 DEF RowsHeld
<1>8. Unique(audit["upsert"])'
  <2>1. a = "upsert" => Unique(audit'[a])
    BY <1>2, <1>4, UniqueAdds DEF PlacesFit
  <2>2. a # "upsert" => audit'["upsert"] = audit["upsert"]
    BY <1>2 DEF Logs
  <2> QED BY <2>1, <2>2 DEF PlacesFit
<1>9. Matched'
  <2>1. CASE a = "upsert"
    <3>1. Kept(audit'["upsert"]) = Kept(audit["upsert"])
      BY <1>2, <2>1, KeptAdds
    <3>2. \A i \in Kept(audit["upsert"]) : audit'["upsert"][i] = audit["upsert"][i]
      BY <1>2, <2>1 DEF Added, Kept
    <3> QED BY <1>2, <3>1, <3>2 DEF Matched, PlacesFit
  <2>2. CASE a # "upsert"
    <3>1. audit'["upsert"] = audit["upsert"]
      BY <1>2, <2>2 DEF Logs
    <3> QED BY <1>2, <3>1 DEF Matched, PlacesFit
  <2> QED BY <2>1, <2>2
<1>10. Unique(history)'
  BY <1>2 DEF PlacesFit
<1> QED BY <1>1, <1>6, <1>7, <1>8, <1>9, <1>10 DEF PlacesFit

LEMMA PlacesWrite ==
    ASSUME AdminInv, NumbersFit, PlacesFit, NEW h \in Request, UpsertRow(h) \/ SwitchRow(h)
    PROVE  PlacesFit'
<1>1. PICK r, q : r = request[h] /\ q = request'[h]
  OBVIOUS
<1>2. /\ Changing(h) /\ OthersSame(h) /\ r.step = "logged" /\ SameChange(q, r)
      /\ q.step = "stored" /\ q.log = r.log /\ q.entry = r.entry
      /\ UNCHANGED <<history, audit>>
  BY <1>1, Writing
<1>3. \A g \in Request : g # h /\ Changing(g)' => RowsHeld(request[g])'
  <2>1. \A by : /\ Untouched(HistoryFields, history, history', by)
                /\ \A a \in {"upsert", "key"} : Untouched(RowFields(a), audit[a], audit'[a], by)
    BY <1>2, SameUntouched
  <2> QED BY <1>2, <2>1, OthersHeld
<1>4. RowsHeld(r)
  BY <1>1, <1>2 DEF PlacesFit
<1>5. RowsHeld(q)'
  <2>1. LogHeld(q)'
    BY <1>2, <1>4 DEF RowsHeld, LogHeld, SameChange
  <2> QED BY <1>2, <1>4, <2>1 DEF RowsHeld, SameChange
<1>6. Unique(history)' /\ Unique(audit["upsert"])' /\ Matched'
  BY <1>2 DEF PlacesFit, Unique, Matched
<1> QED BY <1>1, <1>3, <1>5, <1>6 DEF PlacesFit

LEMMA PlacesRecord ==
    ASSUME AdminInv, NumbersFit, PlacesFit, NEW h \in Request, UpsertHistory(h)
    PROVE  PlacesFit'
<1>1. PICK n, r, q : n = request'[h].entry /\ r = request[h] /\ q = request'[h]
  OBVIOUS
<1>2. /\ Changing(h) /\ OthersSame(h) /\ r.step = "stored" /\ r.phase = "upsert"
      /\ SameChange(q, r) /\ q.step = "recorded" /\ q.log = r.log
      /\ Added(history, history', n) /\ history'[n].by = r.by
      /\ history'[n].config = r.wanted /\ history'[n].changed = Changed(r.loaded, r.wanted)
      /\ audit' = audit
  BY <1>1, Recording
<1>3. RowsHeld(r) /\ r.entry = 0 /\ q.phase = "upsert" /\ q.by = r.by
  BY <1>1, <1>2 DEF PlacesFit, RowsHeld, SameChange
<1>4. \A i \in DOMAIN history : history[i].by # r.by
  BY <1>2, <1>3, NotARow DEF RowsHeld
<1>5. \A by : by # r.by =>
        /\ Untouched(HistoryFields, history, history', by)
        /\ \A a \in {"upsert", "key"} : Untouched(RowFields(a), audit[a], audit'[a], by)
  BY <1>2, AddedUntouched, SameUntouched
<1>6. \A g \in Request : g # h /\ Changing(g)' => RowsHeld(request[g])'
  BY <1>1, <1>2, <1>5, OthersHeld
<1>7. RowsHeld(q)'
  <2>1. LogHeld(q)'
    BY <1>2, <1>3 DEF RowsHeld, LogHeld, SameChange
  <2>2. EntryHeld(q)'
    BY <1>1, <1>2, <1>3 DEF EntryHeld, Added, SameChange
  <2>3. \A i \in DOMAIN history' : history'[i].by = q.by => i = q.entry
    BY <1>1, <1>2, <1>3, <1>4 DEF Added
  <2>4. \A i \in DOMAIN audit'["upsert"] : audit'["upsert"][i].by = q.by => i = q.log
    BY <1>2, <1>3 DEF RowsHeld
  <2> QED BY <1>2, <1>3, <2>1, <2>2, <2>3, <2>4 DEF RowsHeld
<1>8. Unique(history)'
  BY <1>2, <1>4, UniqueAdds DEF PlacesFit
<1>9. Matched'
  <2>1. Kept(history') = Kept(history)
    BY <1>2, KeptAdds
  <2>2. \A i \in Kept(history) : history'[i] = history[i]
    BY <1>2 DEF Added, Kept
  <2> QED BY <1>2, <2>1, <2>2 DEF Matched, PlacesFit
<1>10. Unique(audit["upsert"])'
  BY <1>2 DEF PlacesFit
<1> QED BY <1>1, <1>6, <1>7, <1>8, <1>9, <1>10 DEF PlacesFit

(* What the end of a change does to the rows in the tables.                  *)
LEMMA EndRows ==
    ASSUME AdminInv, PlacesFit, NEW h \in Request, Changing(h),
           NEW t \in {"committed", "none"}, EndChange(h, t),
           NEW r, r = request[h]
    PROVE  /\ OthersSame(h) /\ request'[h] = Idle /\ RowsHeld(r)
           /\ Ended(HistoryFields, history, history', r.entry, t)
           /\ \A a \in {"upsert", "key"} :
                IF a = r.phase THEN Ended(RowFields(a), audit[a], audit'[a], r.log, t)
                ELSE audit'[a] = audit[a]
           /\ r.step # "recorded" => history' = history
           /\ t = "none" => /\ Kept(history') = Kept(history)
                            /\ \A a \in {"upsert", "key"} : Kept(audit'[a]) = Kept(audit[a])
           /\ t = "committed" /\ r.step = "recorded" =>
                Kept(history') = Kept(history) \union {r.entry}
           /\ t = "committed" /\ r.step # "loaded" =>
                Kept(audit'[r.phase]) = Kept(audit[r.phase]) \union {r.log}
           /\ UNCHANGED <<batches, served, overlapped>>
<1>1. PICK a : a = r.phase
  OBVIOUS
<1>2. /\ OthersSame(h) /\ request'[h] = Idle /\ a \in Logs
      /\ Ended(RowFields(a), audit[a], audit'[a], r.log, t)
      /\ \A other \in Logs : other # a => audit'[other] = audit[other]
      /\ r.log \notin DOMAIN audit[a] => audit' = audit
      /\ Ended(HistoryFields, history, history', r.entry, t)
      /\ r.entry \notin DOMAIN history => history' = history
      /\ UNCHANGED <<batches, served, overlapped>>
  BY <1>1, Ending DEF RowState
<1>3. RowsHeld(r) /\ a \in {"upsert", "key"}
  BY <1>1 DEF PlacesFit, Changing
<1>4. r.step # "recorded" => history' = history
  BY <1>2, <1>3, NotARow DEF RowsHeld
<1>5. r.log \in DOMAIN audit[a] => audit[a][r.log].state = "open"
  BY <1>1, <1>2, <1>3, NotARow DEF RowsHeld, LogHeld
<1>6. r.entry \in DOMAIN history => history[r.entry].state = "open"
  BY <1>3, NotARow DEF RowsHeld, EntryHeld
<1>7. \A other \in {"upsert", "key"} : other # a => audit'[other] = audit[other]
  BY <1>2 DEF Logs
<1>8. ASSUME t = "none"
      PROVE  /\ Kept(history') = Kept(history)
             /\ \A other \in {"upsert", "key"} : Kept(audit'[other]) = Kept(audit[other])
  <2>1. Kept(history') = Kept(history)
    BY <1>2, <1>6, <1>8, KeptStays
  <2>2. Kept(audit'[a]) = Kept(audit[a])
    BY <1>2, <1>5, <1>8, KeptStays
  <2> QED BY <1>7, <2>1, <2>2
<1>9. ASSUME t = "committed", r.step = "recorded"
      PROVE  Kept(history') = Kept(history) \union {r.entry}
  <2>1. r.entry \in DOMAIN history
    BY <1>3, <1>9 DEF RowsHeld, EntryHeld
  <2> QED BY <1>2, <1>9, <2>1, KeptGrows
<1>10. ASSUME t = "committed", r.step # "loaded"
       PROVE  Kept(audit'[a]) = Kept(audit[a]) \union {r.log}
  <2>1. r.log \in DOMAIN audit[a]
    BY <1>1, <1>3, <1>10 DEF RowsHeld, LogHeld
  <2> QED BY <1>2, <1>10, <2>1, KeptGrows
<1> QED BY <1>1, <1>2, <1>3, <1>4, <1>7, <1>8, <1>9, <1>10

LEMMA UniqueEnds ==
    ASSUME NEW fields, NEW rows, NEW new, NEW id, NEW t, Ended(fields, rows, new, id, t),
           "by" \in fields, Unique(rows)
    PROVE  Unique(new)
BY DEF Ended, Unique

(* An upsert commits its row of the audit log and the one of the history.    *)
LEMMA PlacesEnd ==
    ASSUME AdminInv, NumbersFit, PlacesFit, NEW h \in Request, Changing(h),
           NEW t \in {"committed", "none"}, EndChange(h, t),
           t = "committed" /\ request[h].phase = "upsert" => request[h].step = "recorded"
    PROVE  PlacesFit'
<1>1. PICK a, r : r = request[h] /\ a = r.phase
  OBVIOUS
<1>2. /\ OthersSame(h) /\ request'[h] = Idle /\ RowsHeld(r)
      /\ Ended(HistoryFields, history, history', r.entry, t)
      /\ Ended(RowFields(a), audit[a], audit'[a], r.log, t)
      /\ \A other \in {"upsert", "key"} : other # a => audit'[other] = audit[other]
      /\ r.step # "recorded" => history' = history
      /\ t = "none" => /\ Kept(history') = Kept(history)
                       /\ \A other \in {"upsert", "key"} : Kept(audit'[other]) = Kept(audit[other])
      /\ t = "committed" /\ r.step = "recorded" =>
           Kept(history') = Kept(history) \union {r.entry}
      /\ t = "committed" /\ r.step # "loaded" =>
           Kept(audit'[a]) = Kept(audit[a]) \union {r.log}
      /\ a \in {"upsert", "key"}
  <2>1. a \in {"upsert", "key"}
    BY <1>1 DEF Changing
  <2> QED BY <1>1, <2>1, EndRows
<1>3. "by" \in RowFields(a) /\ "by" \in HistoryFields
  BY <1>2 DEF RowFields, HistoryFields
<1>4. ASSUME NEW by, by # r.by
      PROVE  /\ Untouched(HistoryFields, history, history', by)
             /\ \A other \in {"upsert", "key"} :
                  Untouched(RowFields(other), audit[other], audit'[other], by)
  <2>1. r.entry \in DOMAIN history => history[r.entry].by # by
    BY <1>2, <1>4, NotARow DEF RowsHeld, EntryHeld
  <2>2. r.log \in DOMAIN audit[a] => audit[a][r.log].by # by
    BY <1>1, <1>2, <1>4, NotARow DEF RowsHeld, LogHeld, Logs
  <2>3. Untouched(HistoryFields, history, history', by)
    BY <1>2, <1>3, <2>1, EndedUntouched
  <2>4. Untouched(RowFields(a), audit[a], audit'[a], by)
    BY <1>2, <1>3, <2>2, EndedUntouched
  <2> QED BY <1>2, <2>3, <2>4, SameUntouched
<1>5. \A g \in Request : g # h /\ Changing(g)' => RowsHeld(request[g])'
  BY <1>1, <1>2, <1>4, OthersHeld
<1>6. \A g \in Request : Changing(g)' => RowsHeld(request[g])'
  BY <1>2, <1>5 DEF Changing, Idle
<1>7. Unique(history)'
  BY <1>2, <1>3, UniqueEnds DEF PlacesFit
<1>8. Unique(audit["upsert"])'
  <2>1. a = "upsert" => Unique(audit'[a])
    BY <1>2, <1>3, UniqueEnds DEF PlacesFit
  <2> QED BY <1>2, <2>1 DEF PlacesFit
<1>9. Matched'
  <2>1. \A i \in DOMAIN history : /\ history'[i].by = history[i].by
                                  /\ history'[i].config = history[i].config
    BY <1>2 DEF Ended, HistoryFields
  <2>2. \A j \in DOMAIN audit["upsert"] :
          /\ audit'["upsert"][j].by = audit["upsert"][j].by
          /\ audit'["upsert"][j].config = audit["upsert"][j].config
    BY <1>2 DEF Ended, RowFields
  <2>3. /\ Kept(history) \subseteq DOMAIN history
        /\ Kept(audit["upsert"]) \subseteq DOMAIN audit["upsert"]
    BY DEF Kept
  <2>4. CASE Kept(history') = Kept(history) /\ Kept(audit'["upsert"]) = Kept(audit["upsert"])
    BY <2>1, <2>2, <2>3, <2>4 DEF PlacesFit, Matched
  <2>5. CASE t = "committed" /\ a = "upsert"
    <3>1. /\ Kept(history') = Kept(history) \union {r.entry}
          /\ Kept(audit'["upsert"]) = Kept(audit["upsert"]) \union {r.log}
          /\ LogHeld(r) /\ EntryHeld(r)
      BY <1>1, <1>2, <2>5 DEF RowsHeld
    <3>2. /\ r.entry \in DOMAIN history /\ r.log \in DOMAIN audit["upsert"]
          /\ history[r.entry].by = r.by /\ history[r.entry].config = r.wanted
          /\ audit["upsert"][r.log].by = r.by /\ audit["upsert"][r.log].config = r.wanted
      BY <1>1, <2>5, <3>1 DEF LogHeld, EntryHeld
    <3>3. \A i \in Kept(history') : \E j \in Kept(audit'["upsert"]) :
            /\ audit'["upsert"][j].by = history'[i].by
            /\ audit'["upsert"][j].config = history'[i].config
      BY <2>1, <2>2, <2>3, <3>1, <3>2 DEF PlacesFit, Matched
    <3>4. \A j \in Kept(audit'["upsert"]) : \E i \in Kept(history') :
            history'[i].by = audit'["upsert"][j].by
      BY <2>1, <2>2, <2>3, <3>1, <3>2 DEF PlacesFit, Matched
    <3> QED BY <3>3, <3>4 DEF Matched
  <2>6. CASE a = "key"
    <3>1. r.step # "recorded"
      BY <1>1, <1>2, <2>6 DEF RowsHeld, EntryHeld
    <3> QED BY <1>2, <2>4, <2>6, <3>1
  <2> QED BY <1>2, <2>4, <2>5, <2>6
<1> QED BY <1>6, <1>7, <1>8, <1>9 DEF PlacesFit

(* What each step of a change is, for the layers that follow.                *)
LEMMA ChangeCases ==
    ASSUME AdminInv, NEW h \in Request, ChangeStep(h)
    PROVE  \/ \E c \in Config : UpsertLoad(h, c)
           \/ \E k \in DevKey : CreateKey(h, k)
           \/ \E k \in DevKey : \E on \in BOOLEAN :
                enabled[k] # None /\ SwitchLoad(h, k, on)
           \/ ChangesRest
           \/ UpsertLog(h) \/ SwitchLog(h) \/ UpsertRow(h) \/ SwitchRow(h) \/ UpsertHistory(h)
           \/ UpsertCommit(h) \/ SwitchCommit(h)
           \/ /\ Changing(h) /\ EndChange(h, "none") /\ UNCHANGED <<config, enabled>>
<1>1. ASSUME NEW k \in DevKey, NEW on \in BOOLEAN, SwitchLoad(h, k, on), enabled[k] = None
      PROVE  ChangesRest
  <2>1. /\ request' = [request EXCEPT ![h] = Idle] /\ request[h] = Idle
        /\ UNCHANGED <<config, history, enabled, audit, overlapped>> /\ served' = served + 1
    BY <1>1 DEF SwitchLoad, tables, Begin
  <2>2. ~ Changing(h) /\ Idle.phase \notin {"upsert", "key"}
    BY <2>1 DEF Changing, Idle
  <2> QED BY <2>1, <2>2, RestOf
<1>2. CASE UpsertFails(h) \/ ChangeLost(h)
  BY <1>2 DEF UpsertFails, ChangeLost, At, Changing
<1> QED BY <1>1, <1>2 DEF ChangeStep, UpsertStep, SwitchStep

LEMMA PlacesKept ==
    ASSUME AdminInv, NumbersFit, PlacesFit, [AdminNext]_vars
    PROVE  PlacesFit'
<1>1. CASE UNCHANGED vars
  BY <1>1, StutterApart, PlacesRest
<1>2. ASSUME NEW h \in Request, GenerateStep(h) PROVE PlacesFit'
  BY <1>2, GenerateApart, PlacesRest
<1>3. ASSUME NEW h \in Request, ChangeStep(h) PROVE PlacesFit'
  <2>1. ASSUME NEW c \in Config, UpsertLoad(h, c) PROVE PlacesFit'
    <3>1. UNCHANGED <<audit, history>>
      BY <2>1 DEF UpsertLoad, tables
    <3> QED BY <2>1, <3>1, Loading, PlacesLoad DEF UpsertLoad
  <2>2. ASSUME NEW k \in DevKey, CreateKey(h, k) PROVE PlacesFit'
    <3>1. UNCHANGED <<audit, history>>
      BY <2>2 DEF CreateKey, tables
    <3> QED BY <2>2, <3>1, Loading, PlacesLoad DEF CreateKey
  <2>3. ASSUME NEW k \in DevKey, NEW on \in BOOLEAN, enabled[k] # None, SwitchLoad(h, k, on)
        PROVE  PlacesFit'
    <3>1. UNCHANGED <<audit, history>> /\ Begin(h, Change("key", k, on, enabled[k]))
      BY <2>3 DEF SwitchLoad, tables
    <3> QED BY <3>1, Loading, PlacesLoad
  <2>4. CASE UpsertCommit(h)
    BY <2>4, PlacesEnd DEF UpsertCommit, At, Changing
  <2>5. CASE SwitchCommit(h)
    BY <2>5, PlacesEnd DEF SwitchCommit, At, Changing
  <2>6. CASE Changing(h) /\ EndChange(h, "none")
    BY <2>6, PlacesEnd
  <2> QED BY <1>3, <2>1, <2>2, <2>3, <2>4, <2>5, <2>6, ChangeCases, PlacesRest, PlacesLog,
            PlacesWrite, PlacesRecord
<1> QED BY <1>1, <1>2, <1>3, TwoKinds

-----------------------------------------------------------------------------
(* What is in force, and what the upsert that holds the row will make of it. *)
Upserting(h) == request[h].phase = "upsert"
HoldsRow(h) == Upserting(h) /\ request[h].row # None

ConfigHeld(r) ==
    /\ r.step \in {"loaded", "logged"} => r.row = None
    /\ r.step \in {"stored", "recorded"} /\ r.row = None => r.wanted = r.loaded
    /\ r.row # None => /\ r.row = Updated(config, r.loaded, r.wanted)
                       /\ r.loaded = None => config = None
    /\ r.row # None /\ r.step = "recorded" =>
         \A i \in Kept(history) : history[i].changed # {} => i < r.entry

ConfigFit ==
    /\ \A h \in Request : Upserting(h) => ConfigHeld(request[h])
    /\ \A g, h \in Request : HoldsRow(g) /\ HoldsRow(h) => g = h
    /\ ConfigAsStored

SameHistory ==
    /\ Kept(history') = Kept(history)
    /\ \A i \in Kept(history) : /\ history'[i].config = history[i].config
                                /\ history'[i].changed = history[i].changed

LEMMA ConfigHeldStays ==
    ASSUME NEW r, ConfigHeld(r), config' = config, SameHistory
    PROVE  ConfigHeld(r)'
BY DEF ConfigHeld, SameHistory, Updated, Changed

LEMMA AsStoredStays ==
    ASSUME ConfigAsStored, config' = config, SameHistory
    PROVE  ConfigAsStored'
<1>1. \A f : Writers(f)' = Writers(f)
  BY DEF Writers, SameHistory
<1>2. \A f : \A i \in Writers(f) : history'[i].config = history[i].config
  BY DEF Writers, SameHistory
<1> QED BY <1>1, <1>2 DEF ConfigAsStored, SameHistory

(* Nobody takes the row, and nothing of it is committed.                     *)
LEMMA ConfigStays ==
    ASSUME ConfigFit, config' = config, SameHistory,
           \A g \in Request : Upserting(g)' =>
              /\ ConfigHeld(request[g])'
              /\ request'[g].row # None => Upserting(g) /\ request[g].row # None
    PROVE  ConfigFit'
<1>1. ConfigAsStored'
  BY AsStoredStays DEF ConfigFit
<1>2. \A g \in Request : HoldsRow(g)' => HoldsRow(g)
  BY DEF HoldsRow
<1>3. \A g, h \in Request : HoldsRow(g)' /\ HoldsRow(h)' => g = h
  BY <1>2 DEF ConfigFit
<1> QED BY <1>1, <1>3 DEF ConfigFit

LEMMA ConfigRest ==
    ASSUME ConfigFit, config' = config, SameHistory,
           \A g \in Request : Upserting(g)' => Upserting(g) /\ request'[g] = request[g]
    PROVE  ConfigFit'
<1>1. ASSUME NEW g \in Request, Upserting(g)'
      PROVE  /\ ConfigHeld(request[g])'
             /\ request'[g].row # None => Upserting(g) /\ request[g].row # None
  <2>1. PICK r : r = request[g]
    OBVIOUS
  <2>2. request'[g] = r /\ ConfigHeld(r) /\ Upserting(g)
    BY <1>1, <2>1 DEF ConfigFit
  <2>3. ConfigHeld(r)'
    BY <2>2, ConfigHeldStays
  <2> QED BY <2>1, <2>2, <2>3
<1> QED BY <1>1, ConfigStays

LEMMA HistorySame ==
    ASSUME history' = history
    PROVE  SameHistory
BY DEF SameHistory

(* A step of h that leaves the configuration alone.                          *)
LEMMA ConfigOne ==
    ASSUME ConfigFit, config' = config, SameHistory, NEW h \in Request, OthersSame(h),
           Upserting(h)' => /\ ConfigHeld(request[h])'
                            /\ request'[h].row # None => Upserting(h) /\ request[h].row # None
    PROVE  ConfigFit'
<1>1. ASSUME NEW g \in Request, Upserting(g)', g # h
      PROVE  /\ ConfigHeld(request[g])'
             /\ request'[g].row # None => Upserting(g) /\ request[g].row # None
  <2>1. PICK r : r = request[g]
    OBVIOUS
  <2>2. request'[g] = r /\ ConfigHeld(r) /\ Upserting(g)
    BY <1>1, <2>1 DEF ConfigFit, OthersSame, Upserting
  <2>3. ConfigHeld(r)'
    BY <2>2, ConfigHeldStays
  <2> QED BY <2>1, <2>2, <2>3
<1> QED BY <1>1, ConfigStays

LEMMA ConfigLoad ==
    ASSUME AdminInv, ConfigFit, NEW h \in Request, OthersSame(h), UNCHANGED <<config, history>>,
           request'[h].step = "loaded", request'[h].row = None
    PROVE  ConfigFit'
<1>1. ConfigHeld(request[h])'
  BY DEF ConfigHeld
<1> QED BY <1>1, HistorySame, ConfigOne

LEMMA ConfigLog ==
    ASSUME AdminInv, ConfigFit, NEW h \in Request, UpsertLog(h) \/ SwitchLog(h)
    PROVE  ConfigFit'
<1>1. /\ OthersSame(h) /\ request[h].step = "loaded" /\ SameChange(request'[h], request[h])
      /\ request'[h].step = "logged" /\ request'[h].row = request[h].row
      /\ UNCHANGED <<config, history>>
  BY Logging
<1>2. Upserting(h)' => Upserting(h) /\ request[h].row = None
  BY <1>1 DEF ConfigFit, ConfigHeld, Upserting, SameChange
<1>3. Upserting(h)' => ConfigHeld(request[h])'
  BY <1>1, <1>2 DEF ConfigHeld
<1> QED BY <1>1, <1>2, <1>3, HistorySame, ConfigOne

LEMMA ConfigWrite ==
    ASSUME AdminInv, ConfigFit, NEW h \in Request, UpsertRow(h) \/ SwitchRow(h)
    PROVE  ConfigFit'
<1>1. PICK r, q : r = request[h] /\ q = request'[h]
  OBVIOUS
<1>2. /\ Changing(h) /\ OthersSame(h) /\ r.step = "logged" /\ SameChange(q, r)
      /\ q.step = "stored"
      /\ r.wanted = r.loaded => q.row = r.row
      /\ r.wanted # r.loaded =>
           /\ ~ Locked(h)
           /\ r.phase = "upsert" => /\ r.loaded = None => config = None
                                    /\ q.row = Updated(config, r.loaded, r.wanted)
      /\ UNCHANGED <<config, history>>
  BY <1>1, Writing
<1>3. CASE r.phase = "key"
  <2>1. ~ Upserting(h)'
    BY <1>1, <1>2, <1>3 DEF Upserting, SameChange
  <2> QED BY <1>2, <2>1, HistorySame, ConfigOne
<1>4. CASE r.phase = "upsert" /\ r.wanted = r.loaded
  <2>1. q.row = None
    BY <1>1, <1>2, <1>4 DEF ConfigFit, ConfigHeld, Upserting
  <2>2. ConfigHeld(q)'
    BY <1>2, <1>4, <2>1 DEF ConfigHeld, SameChange
  <2> QED BY <1>1, <1>2, <2>1, <2>2, HistorySame, ConfigOne
<1>5. CASE r.phase = "upsert" /\ r.wanted # r.loaded
  <2>1. ConfigHeld(q)'
    <3>1. q.row = Updated(config, q.loaded, q.wanted) /\ (q.loaded = None => config = None)
      BY <1>2, <1>5 DEF SameChange
    <3>2. q.row = Updated(config', q.loaded, q.wanted) /\ (q.loaded = None => config' = None)
      BY <1>2, <3>1
    <3>3. q.wanted # q.loaded
      BY <1>2, <1>5 DEF SameChange
    <3>4. q.row # None
      BY <1>1, <1>2, <1>5, UpdatedTyped, ConfigAssumption
    <3> QED BY <1>2, <3>2, <3>3, <3>4 DEF ConfigHeld, Updated, Changed
  <2>2. \A g \in Request : Upserting(g) /\ g # h => request[g].row = None
    BY <1>1, <1>2, <1>5, ChangeHolds DEF Locked, Changing, Upserting
  <2>3. ASSUME NEW g \in Request, Upserting(g)' PROVE ConfigHeld(request[g])'
    <3>1. CASE g = h
      BY <1>1, <2>1, <3>1
    <3>2. CASE g # h
      <4>1. PICK s : s = request[g]
        OBVIOUS
      <4>2. request'[g] = s /\ ConfigHeld(s)
        BY <1>2, <2>3, <3>2, <4>1 DEF ConfigFit, OthersSame, Upserting
      <4>3. ConfigHeld(s)'
        BY <1>2, <4>2, HistorySame, ConfigHeldStays
      <4> QED BY <4>2, <4>3
    <3> QED BY <3>1, <3>2
  <2>4. \A g \in Request : HoldsRow(g)' => g = h
    BY <1>2, <2>2 DEF OthersSame, Upserting, HoldsRow
  <2>5. ConfigAsStored'
    BY <1>2, HistorySame, AsStoredStays DEF ConfigFit
  <2> QED BY <2>3, <2>4, <2>5 DEF ConfigFit
<1> QED BY <1>1, <1>2, <1>3, <1>4, <1>5 DEF Changing

LEMMA ConfigRecord ==
    ASSUME AdminInv, ConfigFit, NEW h \in Request, UpsertHistory(h)
    PROVE  ConfigFit'
<1>1. PICK r, q : r = request[h] /\ q = request'[h]
  OBVIOUS
<1>2. /\ OthersSame(h) /\ r.step = "stored" /\ r.phase = "upsert"
      /\ SameChange(q, r) /\ q.step = "recorded" /\ q.row = r.row
      /\ Added(history, history', q.entry) /\ config' = config
  BY <1>1, Recording
<1>3. SameHistory
  <2>1. Kept(history') = Kept(history)
    BY <1>2, KeptAdds
  <2> QED BY <1>2, <2>1 DEF SameHistory, Added, Kept
<1>4. ConfigHeld(r) /\ Upserting(h)
  BY <1>1, <1>2 DEF ConfigFit, Upserting
<1>5. ConfigHeld(r)'
  BY <1>2, <1>3, <1>4, ConfigHeldStays
<1>6. \A i \in Kept(history') : i < q.entry
  BY <1>2, <1>3 DEF SameHistory, Added, Kept
<1>7. ConfigHeld(q)'
  BY <1>2, <1>5, <1>6 DEF ConfigHeld, SameChange
<1> QED BY <1>1, <1>2, <1>3, <1>4, <1>7, ConfigOne


LEMMA ConfigApart ==
    ASSUME ConfigFit, ChangesRest
    PROVE  ConfigFit'
<1>1. config' = config /\ history' = history
  BY DEF ChangesRest
<1>2. \A g \in Request : Upserting(g)' => Upserting(g) /\ request'[g] = request[g]
  BY DEF ChangesRest, Upserting, Changing
<1> QED BY <1>1, <1>2, HistorySame, ConfigRest

(* The end of a change that writes nothing to the configuration: rolled      *)
(* back, of a key, or of an upsert that found what it brings.                *)
LEMMA ConfigEnds ==
    ASSUME AdminInv, PlacesFit, ConfigFit, NEW h \in Request, Changing(h),
           NEW t \in {"committed", "none"}, EndChange(h, t), config' = config,
           t = "none" \/ request[h].phase = "key"
    PROVE  ConfigFit'
<1>1. PICK r : r = request[h]
  OBVIOUS
<1>2. /\ OthersSame(h) /\ request'[h] = Idle /\ RowsHeld(r)
      /\ Ended(HistoryFields, history, history', r.entry, t)
      /\ r.step # "recorded" => history' = history
      /\ t = "none" => Kept(history') = Kept(history)
  BY <1>1, EndRows
<1>3. Kept(history') = Kept(history)
  BY <1>1, <1>2 DEF RowsHeld, EntryHeld
<1>4. SameHistory
  BY <1>2, <1>3 DEF SameHistory, Ended, HistoryFields, Kept
<1>5. ~ Upserting(h)'
  BY <1>2 DEF Upserting, Idle
<1> QED BY <1>2, <1>4, <1>5, ConfigOne

LEMMA ConfigCommit ==
    ASSUME AdminInv, PlacesFit, ConfigFit, NEW h \in Request, UpsertCommit(h)
    PROVE  ConfigFit'
<1>1. PICK r, e, w, l : /\ r = request[h] /\ e = r.entry
                        /\ w = r.wanted /\ l = r.loaded
  OBVIOUS
<1>2. /\ Changing(h) /\ r.phase = "upsert" /\ r.step = "recorded"
      /\ EndChange(h, "committed")
      /\ config' = IF r.row = None THEN config ELSE r.row
  BY <1>1 DEF UpsertCommit, At, Changing
<1>3. /\ w \in Config /\ l \in Config \union {None}
      /\ l # None => config # None
      /\ config \in Config \union {None}
  BY <1>1, <1>2, ChangeHolds DEF AdminInv, RowsTyped
<1>4. /\ OthersSame(h) /\ request'[h] = Idle /\ RowsHeld(r)
      /\ Ended(HistoryFields, history, history', e, "committed")
      /\ Kept(history') = Kept(history) \union {e}
  BY <1>1, <1>2, EndRows
<1>5. /\ e \in DOMAIN history /\ history[e].config = w /\ history[e].changed = Changed(l, w)
  BY <1>1, <1>2, <1>4 DEF RowsHeld, EntryHeld
<1>6. \A i \in DOMAIN history : /\ history'[i].config = history[i].config
                                /\ history'[i].changed = history[i].changed
  BY <1>4 DEF Ended, HistoryFields
<1>7. \A f : Writers(f)' = Writers(f) \union {i \in {e} : f \in Changed(l, w)}
  BY <1>4, <1>5, <1>6 DEF Writers, Kept
<1>8. /\ ConfigHeld(r) /\ Upserting(h)
  BY <1>1, <1>2 DEF ConfigFit, Upserting
<1>9. \A f : \A i \in Writers(f) : i \in Kept(history) /\ history[i].changed # {}
  BY DEF Writers
<1>10. Kept(history) \subseteq DOMAIN history
  BY DEF Kept
<1>11. CASE r.row = None
  <2>1. w = l /\ config # None
    BY <1>1, <1>2, <1>3, <1>8, <1>11, ConfigAssumption DEF ConfigHeld
  <2>2. Changed(l, w) = {}
    BY <1>3, <2>1, ConfigAssumption DEF Changed
  <2>3. \A f : Writers(f)' = Writers(f)
    BY <1>7, <2>2
  <2>4. config' = config
    BY <1>2, <1>11
  <2>5. Kept(history) # {} /\ Kept(history') # {}
    BY <1>4, <2>1 DEF ConfigFit, ConfigAsStored
  <2>6. \A f : \A i \in Writers(f) : history'[i].config = history[i].config
    BY <1>6, <1>9, <1>10
  <2>7. ConfigAsStored'
    BY <2>1, <2>3, <2>4, <2>5, <2>6 DEF ConfigFit, ConfigAsStored
  <2>8. ASSUME NEW g \in Request, Upserting(g)' PROVE ConfigHeld(request[g])'
    <3>1. PICK s : s = request[g]
      OBVIOUS
    <3>2. request'[g] = s /\ ConfigHeld(s)
      BY <1>4, <2>8, <3>1 DEF OthersSame, Upserting, Idle, ConfigFit
    <3>3. \A i \in Kept(history') : history'[i].changed # {} =>
            i \in Kept(history) /\ history[i].changed # {}
      BY <1>4, <1>5, <1>6, <1>10, <2>2
    <3>4. ConfigHeld(s)'
      BY <2>4, <3>2, <3>3 DEF ConfigHeld, Updated, Changed
    <3> QED BY <3>2, <3>4
  <2>9. \A g \in Request : HoldsRow(g)' => HoldsRow(g)
    BY <1>4 DEF OthersSame, HoldsRow, Upserting, Idle
  <2>10. \A f, g \in Request : HoldsRow(f)' /\ HoldsRow(g)' => f = g
    BY <2>9 DEF ConfigFit
  <2> QED BY <2>7, <2>8, <2>10 DEF ConfigFit
<1>12. CASE r.row # None
  <2>1. /\ config' = Updated(config, l, w)
        /\ l = None => config = None
        /\ \A i \in Kept(history) : history[i].changed # {} => i < e
    BY <1>1, <1>2, <1>8, <1>12 DEF ConfigHeld
  <2>2. config' # None
    BY <1>2, <1>12
  <2>3. DOMAIN config' = DOMAIN w
    BY <2>1 DEF Updated
  <2>4. e \in Nat
    <3>1. PICK s : s = history
      OBVIOUS
    <3>2. s \in Seq(HistoryRow) /\ e \in DOMAIN s
      BY <1>5, <3>1 DEF AdminInv, RowsTyped
    <3> QED BY <3>2
  <2>5. ASSUME NEW f \in DOMAIN w
        PROVE  \E last \in Writers(f)' : /\ \A i \in Writers(f)' : i <= last
                                         /\ history'[last].config[f] = config'[f]
    <3>1. CASE f \in Changed(l, w)
      <4>1. e \in Writers(f)' /\ \A i \in Writers(f)' : i = e \/ i \in Writers(f)
        BY <1>7, <3>1
      <4>2. \A i \in Writers(f) : i < e /\ i \in DOMAIN history
        BY <1>9, <1>10, <2>1
      <4>3. \A i \in Writers(f)' : i <= e
        <5>1. \A i \in DOMAIN history : i \in Nat
          BY DEF AdminInv, RowsTyped
        <5> QED BY <2>4, <4>1, <4>2, <5>1
      <4>4. history'[e].config[f] = config'[f]
        BY <1>5, <1>6, <2>1, <3>1 DEF Updated
      <4> QED BY <4>1, <4>3, <4>4
    <3>2. CASE f \notin Changed(l, w)
      <4>1. l # None /\ config # None
        BY <1>3, <3>2 DEF Changed
      <4>2. DOMAIN config = DOMAIN w
        BY <1>3, <4>1, ConfigAssumption
      <4>3. Writers(f)' = Writers(f)
        BY <1>7, <3>2
      <4>4. PICK last \in Writers(f) : /\ \A i \in Writers(f) : i <= last
                                       /\ history[last].config[f] = config[f]
        BY <4>1, <4>2 DEF ConfigFit, ConfigAsStored
      <4>5. history'[last].config = history[last].config
        BY <1>6, <1>9, <1>10
      <4>6. config'[f] = config[f]
        BY <2>1, <3>2 DEF Updated
      <4> QED BY <4>3, <4>4, <4>5, <4>6
    <3> QED BY <3>1, <3>2
  <2>6. ConfigAsStored'
    <3>1. Kept(history') # {}
      BY <1>4
    <3> QED BY <2>2, <2>3, <2>5, <3>1 DEF ConfigAsStored
  <2>7. \A g \in Request : Upserting(g)' => g # h /\ Upserting(g) /\ request'[g] = request[g]
    BY <1>4 DEF OthersSame, Upserting, Idle
  <2>8. \A g \in Request : ~ HoldsRow(g)'
    <3>1. HoldsRow(h)
      BY <1>1, <1>8, <1>12 DEF HoldsRow
    <3> QED BY <2>7, <3>1 DEF HoldsRow, ConfigFit
  <2>9. ASSUME NEW g \in Request, Upserting(g)' PROVE ConfigHeld(request[g])'
    <3>1. PICK s : s = request[g]
      OBVIOUS
    <3>2. request'[g] = s /\ ConfigHeld(s) /\ s.row = None
      BY <2>7, <2>8, <2>9, <3>1 DEF ConfigFit, HoldsRow
    <3>3. ConfigHeld(s)'
      BY <3>2 DEF ConfigHeld
    <3> QED BY <3>2, <3>3
  <2> QED BY <2>6, <2>8, <2>9 DEF ConfigFit
<1> QED BY <1>11, <1>12

LEMMA ConfigKept ==
    ASSUME AdminInv, PlacesFit, ConfigFit, [AdminNext]_vars
    PROVE  ConfigFit'
<1>1. CASE UNCHANGED vars
  BY <1>1, StutterApart, ConfigApart
<1>2. ASSUME NEW h \in Request, GenerateStep(h) PROVE ConfigFit'
  BY <1>2, GenerateApart, ConfigApart
<1>3. ASSUME NEW h \in Request, ChangeStep(h) PROVE ConfigFit'
  <2>1. ASSUME NEW c \in Config, UpsertLoad(h, c) PROVE ConfigFit'
    <3>1. UNCHANGED <<config, history>>
      BY <2>1 DEF UpsertLoad, tables
    <3> QED BY <2>1, <3>1, Loading, ConfigLoad DEF UpsertLoad
  <2>2. ASSUME NEW k \in DevKey, CreateKey(h, k) PROVE ConfigFit'
    <3>1. UNCHANGED <<config, history>>
      BY <2>2 DEF CreateKey, tables
    <3> QED BY <2>2, <3>1, Loading, ConfigLoad DEF CreateKey
  <2>3. ASSUME NEW k \in DevKey, NEW on \in BOOLEAN, enabled[k] # None, SwitchLoad(h, k, on)
        PROVE  ConfigFit'
    <3>1. UNCHANGED <<config, history>> /\ Begin(h, Change("key", k, on, enabled[k]))
      BY <2>3 DEF SwitchLoad, tables
    <3> QED BY <3>1, Loading, ConfigLoad
  <2>4. CASE SwitchCommit(h)
    BY <2>4, ConfigEnds DEF SwitchCommit, At, Changing
  <2>5. CASE Changing(h) /\ EndChange(h, "none") /\ UNCHANGED <<config, enabled>>
    BY <2>5, ConfigEnds
  <2> QED BY <1>3, <2>1, <2>2, <2>3, <2>4, <2>5, ChangeCases, ConfigApart, ConfigLog,
            ConfigWrite, ConfigRecord, ConfigCommit
<1> QED BY <1>1, <1>2, <1>3, TwoKinds

LEMMA ChangesInit ==
    ASSUME AdminInit
    PROVE  NumbersFit /\ PlacesFit /\ ConfigFit
<1> USE DEF AdminInit
<1>1. \A h \in Request : ~ Changing(h) /\ ~ Upserting(h)
  BY DEF Changing, Upserting, Idle
<1>2. /\ DOMAIN history = {} /\ \A a \in {"upsert", "key"} : DOMAIN audit[a] = {}
  OBVIOUS
<1>3. Kept(history) = {} /\ Kept(audit["upsert"]) = {}
  BY <1>2 DEF Kept
<1>4. NumbersFit
  BY <1>1, <1>2 DEF NumbersFit
<1>5. PlacesFit
  BY <1>1, <1>2, <1>3 DEF PlacesFit, Unique, Matched
<1>6. ConfigFit
  BY <1>1, <1>3 DEF ConfigFit, ConfigAsStored, HoldsRow
<1> QED BY <1>4, <1>5, <1>6

LEMMA ChangesInvariant == AdminSpec => [](AdminInv /\ NumbersFit /\ PlacesFit /\ ConfigFit)
<1>1. AdminInv /\ NumbersFit /\ PlacesFit /\ ConfigFit /\ [AdminNext]_vars
        => (NumbersFit /\ PlacesFit /\ ConfigFit)'
  BY NumbersKept, PlacesKept, ConfigKept
<1> QED BY <1>1, AdminInvariant, ChangesInit, PTL DEF AdminSpec

(* Every column of the configuration in force is what the last row of the    *)
(* history, by id, of those that found another value there has put into it,  *)
(* however the requests' inserts, locked updates and commits interleave      *)
(* (admin_upsert_sku_provider_config).                                       *)
THEOREM ConfigStored == AdminSpec => []ConfigAsStored
<1>1. ConfigFit => ConfigAsStored
  BY DEF ConfigFit
<1> QED BY <1>1, ChangesInvariant, PTL

-----------------------------------------------------------------------------
(* What is enabled, and what the requests for a key will make of it: where   *)
(* they meet another one, its rows may come in any order.                    *)
Keying(h) == request[h].phase = "key"

KeyTaken(r) ==
    /\ r.step \in {"loaded", "logged"} => r.row = None
    /\ r.step = "stored" /\ r.row = None => r.wanted = r.loaded
    /\ r.row # None => r.row = r.wanted

KeyMet(h, r) ==
    IF r.by \in overlapped THEN enabled[r.on] # None
    ELSE /\ r.loaded = enabled[r.on]
         /\ \A g \in Request : Keying(g) /\ request[g].on = r.on => g = h

KeyLater(r) ==
    r.step # "loaded" =>
      \A i \in RowsOf(r.on) :
         i < r.log \/ (r.by \in overlapped /\ audit["key"][i].by \in overlapped)

KeyFits(h, r) == KeyTaken(r) /\ KeyMet(h, r) /\ KeyLater(r)

KeysFit ==
    /\ \A h \in Request : Keying(h) => KeyFits(h, request[h])
    /\ KeysLogged

SameKeys ==
    /\ Kept(audit'["key"]) = Kept(audit["key"])
    /\ \A i \in Kept(audit["key"]) : /\ audit'["key"][i].by = audit["key"][i].by
                                    /\ audit'["key"][i].key = audit["key"][i].key
                                    /\ audit'["key"][i].enabled = audit["key"][i].enabled

LEMMA RowsSame ==
    ASSUME SameKeys
    PROVE  /\ \A k : RowsOf(k)' = RowsOf(k)
           /\ \A k : \A i \in RowsOf(k) : /\ audit'["key"][i].by = audit["key"][i].by
                                          /\ audit'["key"][i].enabled = audit["key"][i].enabled
BY DEF SameKeys, RowsOf

LEMMA LaterStays ==
    ASSUME NEW r, KeyLater(r), SameKeys, overlapped \subseteq overlapped',
           r.by \in overlapped' => r.by \in overlapped
    PROVE  KeyLater(r)'
BY RowsSame DEF KeyLater

LEMMA KeysLoggedStays ==
    ASSUME KeysLogged, SameKeys, enabled' = enabled, overlapped \subseteq overlapped'
    PROVE  KeysLogged'
<1> SUFFICES ASSUME NEW k \in DevKey
             PROVE  IF enabled'[k] = None THEN RowsOf(k)' = {}
                    ELSE \E last \in RowsOf(k)' :
                           /\ \A i \in RowsOf(k)' : i <= last
                           /\ \/ audit'["key"][last].by \in overlapped'
                              \/ audit'["key"][last].enabled = enabled'[k]
  BY DEF KeysLogged
<1>1. RowsOf(k)' = RowsOf(k)
  BY RowsSame
<1>2. CASE enabled[k] = None
  BY <1>1, <1>2 DEF KeysLogged
<1>3. CASE enabled[k] # None
  <2>1. PICK last \in RowsOf(k) : /\ \A i \in RowsOf(k) : i <= last
                                 /\ \/ audit["key"][last].by \in overlapped
                                    \/ audit["key"][last].enabled = enabled[k]
    BY <1>3 DEF KeysLogged
  <2>2. /\ audit'["key"][last].by = audit["key"][last].by
        /\ audit'["key"][last].enabled = audit["key"][last].enabled
    BY <2>1, RowsSame
  <2> QED BY <1>1, <1>3, <2>1, <2>2
<1> QED BY <1>2, <1>3

(* Nobody begins, and nothing of a key is committed.                         *)
LEMMA KeysStay ==
    ASSUME KeysFit, UNCHANGED <<enabled, overlapped>>, SameKeys,
           \A g \in Request : Keying(g)' =>
              /\ Keying(g) /\ request'[g].on = request[g].on
              /\ request'[g].by = request[g].by /\ request'[g].loaded = request[g].loaded
              /\ KeyTaken(request'[g]) /\ KeyLater(request[g])'
    PROVE  KeysFit'
<1>1. KeysLogged'
  BY KeysLoggedStays DEF KeysFit
<1>2. ASSUME NEW h \in Request, Keying(h)' PROVE KeyFits(h, request[h])'
  <2>1. KeyMet(h, request[h])
    BY <1>2 DEF KeysFit, KeyFits
  <2>2. KeyMet(h, request[h])'
    BY <1>2, <2>1 DEF KeyMet
  <2>3. KeyTaken(request[h])'
    BY <1>2 DEF KeyTaken
  <2> QED BY <1>2, <2>2, <2>3 DEF KeyFits
<1> QED BY <1>1, <1>2 DEF KeysFit

LEMMA SameStays ==
    ASSUME KeysFit, SameKeys, overlapped' = overlapped, NEW g \in Request, Keying(g)',
           request'[g] = request[g]
    PROVE  /\ Keying(g) /\ request'[g].on = request[g].on
           /\ request'[g].by = request[g].by /\ request'[g].loaded = request[g].loaded
           /\ KeyTaken(request'[g]) /\ KeyLater(request[g])'
<1>1. PICK r : r = request[g]
  OBVIOUS
<1>2. Keying(g) /\ KeyTaken(r) /\ KeyLater(r)
  BY <1>1 DEF KeysFit, KeyFits, Keying
<1>3. KeyLater(r)'
  BY <1>2, LaterStays
<1> QED BY <1>1, <1>2, <1>3

LEMMA KeysRest ==
    ASSUME KeysFit, ChangesRest
    PROVE  KeysFit'
<1>1. SameKeys /\ UNCHANGED <<enabled, overlapped>>
  BY DEF ChangesRest, SameKeys
<1>2. \A g \in Request : Keying(g)' => request'[g] = request[g]
  BY DEF ChangesRest, Keying, Changing
<1> QED BY <1>1, <1>2, SameStays, KeysStay

LEMMA KeysOne ==
    ASSUME KeysFit, UNCHANGED <<enabled, overlapped>>, SameKeys,
           NEW h \in Request, OthersSame(h),
           Keying(h)' => /\ SameChange(request'[h], request[h])
                         /\ KeyTaken(request'[h]) /\ KeyLater(request[h])'
    PROVE  KeysFit'
<1>1. ASSUME NEW g \in Request, Keying(g)', g # h PROVE request'[g] = request[g]
  BY <1>1 DEF OthersSame
<1>2. ASSUME Keying(h)'
      PROVE  /\ Keying(h) /\ request'[h].on = request[h].on
             /\ request'[h].by = request[h].by /\ request'[h].loaded = request[h].loaded
  BY <1>2 DEF SameChange, Keying
<1> QED BY <1>1, <1>2, SameStays, KeysStay

LEMMA KeysLog ==
    ASSUME AdminInv, KeysFit, NEW h \in Request, UpsertLog(h) \/ SwitchLog(h)
    PROVE  KeysFit'
<1>1. PICK r, q, a : r = request[h] /\ q = request'[h] /\ a = r.phase
  OBVIOUS
<1>2. /\ OthersSame(h) /\ r.step = "loaded" /\ SameChange(q, r) /\ q.step = "logged"
      /\ q.row = r.row /\ a \in Logs /\ Added(audit[a], audit'[a], q.log)
      /\ \A other \in Logs : other # a => audit'[other] = audit[other]
      /\ UNCHANGED <<enabled, overlapped>>
  BY <1>1, Logging
<1>3. SameKeys /\ (a = "key" => \A i \in Kept(audit["key"]) : i < q.log)
  <2>1. CASE a = "key"
    <3>1. Kept(audit'["key"]) = Kept(audit["key"])
      BY <1>2, <2>1, KeptAdds
    <3> QED BY <1>2, <2>1, <3>1 DEF SameKeys, Added, Kept
  <2>2. CASE a # "key"
    BY <1>2, <2>2 DEF SameKeys, Logs
  <2> QED BY <2>1, <2>2
<1>4. ASSUME Keying(h)' PROVE KeyTaken(q) /\ KeyLater(q)'
  <2>1. Keying(h) /\ a = "key"
    BY <1>1, <1>2, <1>4 DEF Keying, SameChange
  <2>2. KeyTaken(r)
    BY <1>1, <2>1 DEF KeysFit, KeyFits
  <2>3. KeyTaken(q)
    BY <1>2, <2>2 DEF KeyTaken
  <2>4. \A i \in RowsOf(q.on)' : i < q.log
    BY <1>3, <2>1, RowsSame DEF RowsOf
  <2> QED BY <2>3, <2>4 DEF KeyLater
<1> QED BY <1>1, <1>2, <1>3, <1>4, KeysOne

LEMMA KeysWrite ==
    ASSUME AdminInv, KeysFit, NEW h \in Request, UpsertRow(h) \/ SwitchRow(h)
    PROVE  KeysFit'
<1>1. PICK r, q : r = request[h] /\ q = request'[h]
  OBVIOUS
<1>2. /\ OthersSame(h) /\ r.step = "logged" /\ SameChange(q, r) /\ q.step = "stored"
      /\ q.log = r.log
      /\ r.wanted = r.loaded => q.row = r.row
      /\ r.wanted # r.loaded => (r.phase = "key" => q.row = r.wanted)
      /\ UNCHANGED <<enabled, audit, overlapped>>
  BY <1>1, Writing
<1>3. SameKeys
  BY <1>2 DEF SameKeys
<1>4. ASSUME Keying(h)' PROVE KeyTaken(q) /\ KeyLater(q)'
  <2>1. Keying(h) /\ r.phase = "key" /\ r.wanted \in BOOLEAN
    <3>1. Keying(h)
      BY <1>1, <1>2, <1>4 DEF Keying, SameChange
    <3> QED BY <1>1, <3>1, ChangeHolds DEF Keying, Changing
  <2>2. KeyTaken(r) /\ KeyLater(r)
    BY <1>1, <2>1 DEF KeysFit, KeyFits
  <2>3. KeyTaken(q)
    BY <1>2, <2>1, <2>2, NoneAssumption DEF KeyTaken, SameChange
  <2>4. KeyLater(r)'
    BY <1>2, <1>3, <2>2, LaterStays
  <2>5. KeyLater(q)'
    BY <1>2, <2>4 DEF KeyLater, SameChange
  <2> QED BY <2>3, <2>5
<1> QED BY <1>1, <1>2, <1>3, <1>4, KeysOne

(* The rows of the keys are as they were: what ends is rolled back, or it is *)
(* an upsert.                                                                *)
LEMMA KeysEnd ==
    ASSUME AdminInv, PlacesFit, KeysFit, NEW h \in Request, Changing(h),
           NEW t \in {"committed", "none"}, EndChange(h, t), enabled' = enabled,
           t = "none" \/ request[h].phase = "upsert"
    PROVE  KeysFit'
<1>1. PICK r, a : r = request[h] /\ a = r.phase
  OBVIOUS
<1>2. /\ OthersSame(h) /\ request'[h] = Idle
      /\ IF a = "key" THEN Ended(RowFields(a), audit[a], audit'[a], r.log, t)
         ELSE audit'["key"] = audit["key"]
      /\ t = "none" => Kept(audit'["key"]) = Kept(audit["key"])
      /\ UNCHANGED overlapped
  BY <1>1, EndRows
<1>3. SameKeys
  BY <1>1, <1>2 DEF SameKeys, Ended, RowFields, Kept
<1>4. ~ Keying(h)'
  BY <1>2 DEF Keying, Idle
<1> QED BY <1>2, <1>3, <1>4, KeysOne

(* A request for a key begins, and meets those that are under way.           *)
LEMMA KeysLoad ==
    ASSUME AdminInv, NumbersFit, KeysFit, NEW h \in Request, NEW k \in DevKey,
           ~ Changing(h), OthersSame(h), request'[h].phase = "key", request'[h].on = k,
           request'[h].loaded = enabled[k], request'[h].step = "loaded",
           request'[h].row = None, request'[h].by = served + 1,
           UNCHANGED <<audit, enabled>>,
           \/ OnKey(k) = {} /\ overlapped' = overlapped
           \/ /\ enabled[k] # None /\ OnKey(k) # {}
              /\ overlapped' =
                   overlapped \union {request[g].by : g \in OnKey(k)} \union {served + 1}
    PROVE  KeysFit'
<1>0. served \in Nat
  BY BoundAssumption DEF AdminInv, RowsTyped
<1>1. SameKeys /\ overlapped \subseteq overlapped'
  BY DEF SameKeys
<1>2. KeysLogged'
  BY <1>1, KeysLoggedStays DEF KeysFit
<1>3. served + 1 \notin overlapped
  BY <1>0 DEF NumbersFit
<1>4. KeyFits(h, request[h])'
  <2>1. PICK q : q = request'[h]
    OBVIOUS
  <2>2. KeyTaken(q) /\ KeyLater(q)'
    BY <2>1 DEF KeyTaken, KeyLater
  <2>3. KeyMet(h, q)'
    <3>1. CASE OnKey(k) = {} /\ overlapped' = overlapped
      <4>1. \A g \in Request : Keying(g)' /\ request'[g].on = k => g = h
        BY <3>1 DEF OthersSame, Keying, OnKey
      <4> QED BY <1>3, <2>1, <3>1, <4>1 DEF KeyMet
    <3>2. CASE enabled[k] # None /\ served + 1 \in overlapped'
      BY <2>1, <3>2 DEF KeyMet
    <3> QED BY <3>1, <3>2
  <2>4. KeyTaken(request[h])'
    BY <2>1, <2>2 DEF KeyTaken
  <2> QED BY <2>1, <2>2, <2>3, <2>4 DEF KeyFits
<1>5. ASSUME NEW g \in Request, Keying(g)', g # h PROVE KeyFits(g, request[g])'
  <2>1. PICK r : r = request[g]
    OBVIOUS
  <2>2. request'[g] = r /\ Keying(g) /\ r.phase = "key"
    BY <1>5, <2>1 DEF OthersSame, Keying
  <2>3. KeyTaken(r) /\ KeyMet(g, r) /\ KeyLater(r)
    BY <2>1, <2>2 DEF KeysFit, KeyFits
  <2>4. r.by \in 1 .. served /\ r.by # served + 1
    BY <1>0, <2>1, <2>2 DEF NumbersFit, Changing
  <2>5. CASE r.on = k
    <3>1. OnKey(k) # {} /\ r.by \in {request[f].by : f \in OnKey(k)}
      BY <2>1, <2>2, <2>5 DEF OnKey
    <3>2. enabled[k] # None /\ r.by \in overlapped'
      BY <3>1
    <3>3. KeyMet(g, r)'
      BY <2>5, <3>2 DEF KeyMet
    <3>4. KeyLater(r)'
      <4>1. CASE r.by \in overlapped
        BY <1>1, <2>3, <4>1, LaterStays
      <4>2. CASE r.by \notin overlapped
        BY <1>1, <2>3, <4>2, RowsSame DEF KeyLater
      <4> QED BY <4>1, <4>2
    <3> QED BY <2>2, <2>3, <3>3, <3>4 DEF KeyFits, KeyTaken
  <2>6. CASE r.on # k
    <3>1. r.by \notin {request[f].by : f \in OnKey(k)}
      <4>1. \A f \in OnKey(k) : f # g /\ f \in Request /\ Changing(f) /\ Changing(g)
        BY <2>1, <2>2, <2>6 DEF OnKey, Changing
      <4> QED BY <2>1, <4>1 DEF NumbersFit
    <3>2. r.by \in overlapped' => r.by \in overlapped
      BY <2>4, <3>1
    <3>3. KeyLater(r)'
      BY <1>1, <2>3, <3>2, LaterStays
    <3>4. \A f \in Request : Keying(f)' /\ request'[f].on = r.on =>
                               Keying(f) /\ request[f].on = r.on
      BY <2>6 DEF OthersSame, Keying
    <3>5. KeyMet(g, r)'
      BY <1>1, <2>3, <3>2, <3>4 DEF KeyMet
    <3> QED BY <2>2, <2>3, <3>3, <3>5 DEF KeyFits, KeyTaken
  <2> QED BY <2>5, <2>6
<1> QED BY <1>2, <1>4, <1>5 DEF KeysFit

LEMMA KeyBegins ==
    ASSUME AdminInv, NumbersFit, KeysFit, NEW h \in Request, NEW k \in DevKey, NEW w, NEW l,
           Begin(h, Change("key", k, w, l)), l = enabled[k], UNCHANGED <<audit, enabled>>,
           \/ OnKey(k) = {} /\ overlapped' = overlapped
           \/ /\ enabled[k] # None /\ OnKey(k) # {}
              /\ overlapped' =
                   overlapped \union {request[g].by : g \in OnKey(k)} \union {served + 1}
    PROVE  KeysFit'
BY Loading, KeysLoad

LEMMA KeysCommit ==
    ASSUME AdminInv, NumbersFit, PlacesFit, KeysFit, NEW h \in Request, SwitchCommit(h)
    PROVE  KeysFit'
<1>1. PICK r, k, n : r = request[h] /\ k = r.on /\ n = r.log
  OBVIOUS
<1>2. /\ Changing(h) /\ Keying(h) /\ r.phase = "key" /\ r.step = "stored"
      /\ EndChange(h, "committed")
      /\ enabled' = IF r.row = None THEN enabled ELSE [enabled EXCEPT ![k] = r.row]
  BY <1>1 DEF SwitchCommit, At, Changing, Keying
<1>3. /\ k \in DevKey /\ r.wanted \in BOOLEAN
      /\ enabled \in [DevKey -> BOOLEAN \union {None}]
  BY <1>1, <1>2, ChangeHolds DEF AdminInv, RowsTyped
<1>4. /\ OthersSame(h) /\ request'[h] = Idle /\ RowsHeld(r)
      /\ Ended(RowFields("key"), audit["key"], audit'["key"], n, "committed")
      /\ Kept(audit'["key"]) = Kept(audit["key"]) \union {n}
      /\ UNCHANGED overlapped
  BY <1>1, <1>2, EndRows
<1>5. /\ n \in DOMAIN audit["key"] /\ audit["key"][n].by = r.by
      /\ audit["key"][n].key = k /\ audit["key"][n].enabled = r.wanted
  BY <1>1, <1>2, <1>4 DEF RowsHeld, LogHeld
<1>6. \A i \in DOMAIN audit["key"] : /\ audit'["key"][i].by = audit["key"][i].by
                                    /\ audit'["key"][i].key = audit["key"][i].key
                                    /\ audit'["key"][i].enabled = audit["key"][i].enabled
  BY <1>4 DEF Ended, RowFields
<1>7. /\ RowsOf(k)' = RowsOf(k) \union {n}
      /\ \A j : j # k => RowsOf(j)' = RowsOf(j)
      /\ \A j : RowsOf(j) \subseteq DOMAIN audit["key"]
  BY <1>4, <1>5, <1>6 DEF RowsOf, Kept
<1>8. KeyTaken(r) /\ KeyMet(h, r) /\ KeyLater(r)
  BY <1>1, <1>2 DEF KeysFit, KeyFits
<1>9. /\ \A j \in DevKey : j # k => enabled'[j] = enabled[j]
      /\ r.row # None => enabled'[k] = r.wanted
      /\ r.row = None => enabled' = enabled /\ r.wanted = r.loaded
  BY <1>2, <1>3, <1>8 DEF KeyTaken
<1>10. enabled'[k] # None
  <2>1. CASE r.row # None
    BY <1>3, <1>9, <2>1, NoneAssumption
  <2>2. CASE r.row = None
    BY <1>1, <1>3, <1>8, <1>9, <2>2, NoneAssumption DEF KeyMet
  <2> QED BY <2>1, <2>2
<1>11. \A i \in DOMAIN audit["key"] : i \in Nat
  <2>1. PICK s : s = audit["key"]
    OBVIOUS
  <2>2. s \in Seq(LogRow("key"))
    BY <2>1 DEF AdminInv, AuditTyped, Logs
  <2> QED BY <2>1, <2>2
<1>12. \E last \in RowsOf(k)' : /\ \A i \in RowsOf(k)' : i <= last
                               /\ \/ audit'["key"][last].by \in overlapped'
                                  \/ audit'["key"][last].enabled = enabled'[k]
  <2>1. CASE r.by \notin overlapped
    <3>1. \A i \in RowsOf(k) : i < n
      BY <1>1, <1>2, <1>8, <2>1 DEF KeyLater
    <3>2. \A i \in RowsOf(k)' : i <= n
      BY <1>5, <1>7, <1>11, <3>1
    <3>3. r.wanted = enabled'[k]
      BY <1>1, <1>8, <1>9, <2>1 DEF KeyMet
    <3>4. audit'["key"][n].enabled = enabled'[k]
      BY <1>5, <1>6, <3>3
    <3> QED BY <1>7, <3>2, <3>4
  <2>2. CASE r.by \in overlapped
    <3>1. enabled[k] # None
      BY <1>1, <1>8, <2>2 DEF KeyMet
    <3>2. PICK last \in RowsOf(k) : \A i \in RowsOf(k) : i <= last
      BY <1>3, <3>1 DEF KeysFit, KeysLogged
    <3>3. n \in Nat /\ last \in Nat
      BY <1>5, <1>7, <1>11, <3>2
    <3>4. CASE last <= n
      <4>1. \A i \in RowsOf(k)' : i <= n
        <5> SUFFICES ASSUME NEW i \in RowsOf(k)' PROVE i <= n
          OBVIOUS
        <5>1. i = n \/ (i \in Nat /\ i <= last)
          BY <1>7, <1>11, <3>2
        <5> QED BY <3>3, <3>4, <5>1
      <4>2. audit'["key"][n].by \in overlapped'
        BY <1>4, <1>5, <1>6, <2>2
      <4> QED BY <1>7, <4>1, <4>2
    <3>5. CASE n < last
      <4>1. \A i \in RowsOf(k)' : i <= last
        <5> SUFFICES ASSUME NEW i \in RowsOf(k)' PROVE i <= last
          OBVIOUS
        <5>1. i = n \/ i <= last
          BY <1>7, <3>2
        <5> QED BY <3>3, <3>5, <5>1
      <4>2. ~ (last < n)
        BY <3>3, <3>5
      <4>3. audit["key"][last].by \in overlapped
        BY <1>1, <1>2, <1>8, <3>2, <4>2 DEF KeyLater
      <4>4. audit'["key"][last].by \in overlapped'
        BY <1>4, <1>6, <1>7, <3>2, <4>3
      <4> QED BY <1>7, <4>1, <4>4
    <3> QED BY <3>3, <3>4, <3>5
  <2> QED BY <2>1, <2>2
<1>13. KeysLogged'
  <2> SUFFICES ASSUME NEW j \in DevKey
               PROVE  IF enabled'[j] = None THEN RowsOf(j)' = {}
                      ELSE \E last \in RowsOf(j)' :
                             /\ \A i \in RowsOf(j)' : i <= last
                             /\ \/ audit'["key"][last].by \in overlapped'
                                \/ audit'["key"][last].enabled = enabled'[j]
    BY DEF KeysLogged
  <2>1. CASE j = k
    BY <1>10, <1>12, <2>1
  <2>2. CASE j # k /\ enabled[j] = None
    BY <1>7, <1>9, <2>2 DEF KeysFit, KeysLogged
  <2>3. CASE j # k /\ enabled[j] # None
    <3>1. PICK last \in RowsOf(j) : /\ \A i \in RowsOf(j) : i <= last
                                   /\ \/ audit["key"][last].by \in overlapped
                                      \/ audit["key"][last].enabled = enabled[j]
      BY <2>3 DEF KeysFit, KeysLogged
    <3>2. /\ audit'["key"][last].by = audit["key"][last].by
          /\ audit'["key"][last].enabled = audit["key"][last].enabled
      BY <1>6, <1>7, <3>1
    <3>3. RowsOf(j)' = RowsOf(j) /\ enabled'[j] = enabled[j]
      BY <1>7, <1>9, <2>3
    <3> QED BY <1>4, <2>3, <3>1, <3>2, <3>3
  <2> QED BY <2>1, <2>2, <2>3
<1>14. ASSUME NEW g \in Request, Keying(g)' PROVE KeyFits(g, request[g])'
  <2>1. PICK s : s = request[g]
    OBVIOUS
  <2>2. g # h /\ request'[g] = s /\ Keying(g)
    BY <1>4, <1>14, <2>1 DEF OthersSame, Keying, Idle
  <2>3. KeyTaken(s) /\ KeyMet(g, s) /\ KeyLater(s)
    BY <2>1, <2>2 DEF KeysFit, KeyFits
  <2>4. s.on \in DevKey
    BY <2>1, <2>2, ChangeHolds DEF Keying, Changing
  <2>5. \A f \in Request : Keying(f)' /\ request'[f].on = s.on =>
                             Keying(f) /\ request[f].on = s.on
    BY <1>4 DEF OthersSame, Keying, Idle
  <2>6. CASE s.on = k
    <3>1. s.by \in overlapped /\ r.by \in overlapped
      BY <1>1, <1>2, <1>8, <2>1, <2>2, <2>3, <2>6 DEF KeyMet
    <3>2. KeyMet(g, s)'
      BY <1>4, <1>10, <2>6, <3>1 DEF KeyMet
    <3>3. KeyLater(s)'
      <4>1. \A i \in RowsOf(k)' : /\ i = n \/ i \in RowsOf(k)
                                 /\ audit'["key"][i].by = audit["key"][i].by
        BY <1>5, <1>6, <1>7
      <4> QED BY <1>4, <1>5, <2>3, <2>6, <3>1, <4>1 DEF KeyLater
    <3> QED BY <2>2, <2>3, <3>2, <3>3 DEF KeyFits, KeyTaken
  <2>7. CASE s.on # k
    <3>1. RowsOf(s.on)' = RowsOf(s.on) /\ enabled'[s.on] = enabled[s.on]
      BY <1>7, <1>9, <2>4, <2>7
    <3>2. \A i \in RowsOf(s.on) : audit'["key"][i].by = audit["key"][i].by
      BY <1>6, <1>7
    <3>3. KeyMet(g, s)'
      BY <1>4, <2>3, <2>5, <3>1 DEF KeyMet
    <3>4. KeyLater(s)'
      BY <1>4, <2>3, <3>1, <3>2 DEF KeyLater
    <3> QED BY <2>2, <2>3, <3>3, <3>4 DEF KeyFits, KeyTaken
  <2> QED BY <2>6, <2>7
<1> QED BY <1>13, <1>14 DEF KeysFit

LEMMA KeysKept ==
    ASSUME AdminInv, NumbersFit, PlacesFit, KeysFit, [AdminNext]_vars
    PROVE  KeysFit'
<1>1. CASE UNCHANGED vars
  BY <1>1, StutterApart, KeysRest
<1>2. ASSUME NEW h \in Request, GenerateStep(h) PROVE KeysFit'
  BY <1>2, GenerateApart, KeysRest
<1>3. ASSUME NEW h \in Request, ChangeStep(h) PROVE KeysFit'
  <2>1. ASSUME NEW c \in Config, UpsertLoad(h, c) PROVE KeysFit'
    <3>1. UNCHANGED <<enabled, audit, overlapped>>
      BY <2>1 DEF UpsertLoad, tables
    <3>2. OthersSame(h) /\ request'[h].phase = "upsert"
      BY <2>1, Loading DEF UpsertLoad
    <3>3. SameKeys /\ ~ Keying(h)'
      BY <3>1, <3>2 DEF SameKeys, Keying
    <3> QED BY <3>1, <3>2, <3>3, KeysOne
  <2>2. ASSUME NEW k \in DevKey, CreateKey(h, k) PROVE KeysFit'
    <3>1. /\ UNCHANGED <<audit, enabled, overlapped>> /\ OnKey(k) = {} /\ enabled[k] = None
          /\ Begin(h, Change("key", k, TRUE, None))
      BY <2>2 DEF CreateKey, tables
    <3> QED BY <3>1, KeyBegins
  <2>3. ASSUME NEW k \in DevKey, NEW on \in BOOLEAN, enabled[k] # None, SwitchLoad(h, k, on)
        PROVE  KeysFit'
    <3>1. /\ UNCHANGED <<audit, enabled>> /\ Begin(h, Change("key", k, on, enabled[k]))
          /\ Meets(k)
      BY <2>3 DEF SwitchLoad, tables
    <3>2. \/ OnKey(k) = {} /\ overlapped' = overlapped
          \/ /\ enabled[k] # None /\ OnKey(k) # {}
             /\ overlapped' =
                  overlapped \union {request[g].by : g \in OnKey(k)} \union {served + 1}
      BY <2>3, <3>1 DEF Meets
    <3> QED BY <3>1, <3>2, KeyBegins
  <2>4. CASE UpsertHistory(h)
    <3>1. /\ OthersSame(h) /\ request[h].phase = "upsert" /\ SameChange(request'[h], request[h])
          /\ UNCHANGED <<enabled, audit, overlapped>>
      BY <2>4, Recording
    <3>2. SameKeys /\ ~ Keying(h)'
      BY <3>1 DEF SameKeys, Keying, SameChange
    <3> QED BY <3>1, <3>2, KeysOne
  <2>5. CASE UpsertCommit(h)
    BY <2>5, KeysEnd DEF UpsertCommit, At, Changing
  <2>6. CASE Changing(h) /\ EndChange(h, "none") /\ UNCHANGED <<config, enabled>>
    BY <2>6, KeysEnd
  <2> QED BY <1>3, <2>1, <2>2, <2>3, <2>4, <2>5, <2>6, ChangeCases, KeysRest, KeysLog,
            KeysWrite, KeysCommit
<1> QED BY <1>1, <1>2, <1>3, TwoKinds

-----------------------------------------------------------------------------
(* The rows of the batches: one for each that is complete, with its state.   *)
RowHeld(r) ==
    /\ r.log \in DOMAIN audit["generate"]
    /\ audit["generate"][r.log].state = "open"
    /\ audit["generate"][r.log].batch = r.batch

NoRow(b) == \A i \in DOMAIN audit["generate"] : audit["generate"][i].batch # b

RowOnce ==
    \A i, j \in DOMAIN audit["generate"] :
        audit["generate"][i].batch = audit["generate"][j].batch => i = j

BatchLogged(r) ==
    IF r.phase = "logged" THEN RowHeld(r) ELSE r.log = 0 /\ NoRow(r.batch)

BatchesFit ==
    /\ \A h \in Request : Generating(h) => BatchLogged(request[h])
    /\ \A i \in DOMAIN audit["generate"] : audit["generate"][i].batch \in DOMAIN batches
    /\ RowOnce
    /\ Committed = {audit["generate"][i].batch : i \in Kept(audit["generate"])}

LEMMA BatchesStay ==
    ASSUME AdminInv, BatchesFit, NEW h \in Request, NEW r,
           request' = [request EXCEPT ![h] = r],
           UNCHANGED batches, audit'["generate"] = audit["generate"],
           Generates(r) => /\ Generating(h) /\ request[h].phase # "logged"
                           /\ r.phase # "logged" /\ r.log = 0 /\ r.batch = request[h].batch
    PROVE  BatchesFit'
<1>1. OthersSame(h) /\ request'[h] = r
  BY RequestOf
<1>2. ASSUME NEW g \in Request, Generating(g)' PROVE BatchLogged(request[g])'
  <2>1. CASE g = h
    <3>1. Generates(r)
      BY <1>1, <1>2, <2>1 DEF Generating, Generates
    <3>2. NoRow(r.batch)
      BY <3>1 DEF BatchesFit, BatchLogged
    <3> QED BY <1>1, <2>1, <3>1, <3>2 DEF BatchLogged, NoRow
  <2>2. CASE g # h
    <3>1. request'[g] = request[g] /\ Generating(g)
      BY <1>1, <1>2, <2>2 DEF OthersSame, Generating
    <3>2. BatchLogged(request[g])
      BY <3>1 DEF BatchesFit
    <3> QED BY <3>1, <3>2 DEF BatchLogged, RowHeld, NoRow
  <2> QED BY <2>1, <2>2
<1>3. RowOnce' /\ Committed' = Committed
  BY DEF BatchesFit, RowOnce, Committed
<1> QED BY <1>2, <1>3 DEF BatchesFit

LEMMA BatchesBegin ==
    ASSUME AdminInv, BatchesFit, NEW h \in Request, NEW p \in Payload, GenerateBegin(h, p)
    PROVE  BatchesFit'
<1>1. PICK id, r, row : /\ id = Len(batches) + 1
                        /\ r = [phase |-> "drawing", payload |-> p, batch |-> id,
                                inserted |-> 0, todo |-> <<>>, log |-> 0]
                        /\ row = [payload |-> p, state |-> "open"]
  OBVIOUS
<1>2. /\ request' = [request EXCEPT ![h] = r] /\ batches' = Append(batches, row)
      /\ audit' = audit /\ r.phase = "drawing" /\ r.batch = id /\ r.log = 0
      /\ row.state = "open"
  BY <1>1 DEF GenerateBegin, Begin
<1>3. OthersSame(h) /\ request'[h] = r
  BY <1>2, RequestOf
<1>4. /\ DOMAIN batches' = DOMAIN batches \union {id} /\ id \notin DOMAIN batches
      /\ batches'[id] = row /\ \A b \in DOMAIN batches : batches'[b] = batches[b]
  <2>1. PICK s : s = batches
    OBVIOUS
  <2>2. s \in Seq(BatchRow) /\ id = Len(s) + 1
    BY <1>1, <2>1 DEF AdminInv, RowsTyped
  <2>3. /\ id \in Nat \ {0} /\ DOMAIN s = 1 .. id - 1
        /\ DOMAIN Append(s, row) = 1 .. id /\ Append(s, row)[id] = row
        /\ \A i \in 1 .. id - 1 : Append(s, row)[i] = s[i]
    BY <2>2
  <2>4. 1 .. id = (1 .. id - 1) \union {id} /\ id \notin 1 .. id - 1
    BY <2>3
  <2> QED BY <1>2, <2>1, <2>3, <2>4
<1>5. ASSUME NEW g \in Request, Generating(g)' PROVE BatchLogged(request[g])'
  <2>1. CASE g = h
    <3>1. NoRow(id)
      BY <1>4 DEF BatchesFit, NoRow
    <3> QED BY <1>2, <1>3, <2>1, <3>1 DEF BatchLogged, NoRow
  <2>2. CASE g # h
    <3>1. request'[g] = request[g] /\ Generating(g)
      BY <1>3, <1>5, <2>2 DEF OthersSame, Generating
    <3>2. BatchLogged(request[g])
      BY <3>1 DEF BatchesFit
    <3> QED BY <1>2, <3>1, <3>2 DEF BatchLogged, RowHeld, NoRow
  <2> QED BY <2>1, <2>2
<1>6. Committed' = Committed
  BY <1>2, <1>4 DEF Committed
<1>7. \A i \in DOMAIN audit'["generate"] : audit'["generate"][i].batch \in DOMAIN batches'
  BY <1>2, <1>4 DEF BatchesFit
<1> QED BY <1>2, <1>5, <1>6, <1>7 DEF BatchesFit, RowOnce

LEMMA BatchesLog ==
    ASSUME AdminInv, BatchesFit, NEW h \in Request, GenerateLog(h)
    PROVE  BatchesFit'
<1>1. PICK n, b, r, row :
        /\ n = LogId("generate") /\ b = request[h].batch
        /\ r = [request[h] EXCEPT !.phase = "logged", !.log = n]
        /\ row = [batch |-> b, payload |-> request[h].payload, state |-> "open"]
  OBVIOUS
<1>2. Generating(h) /\ request[h].phase # "logged"
  BY DEF GenerateLog, Drawing, Generating
<1>3. /\ request' = [request EXCEPT ![h] = r] /\ Log("generate", row) /\ batches' = batches
      /\ row.batch = b /\ row.state = "open"
  BY <1>1 DEF GenerateLog, To
<1>4. /\ r.phase = "logged" /\ r.log = n /\ r.batch = b
      /\ b \in DOMAIN batches /\ request[h].payload \in Payload
  BY <1>1, <1>2, OpenBatch DEF GenerateFields
<1>5. OthersSame(h) /\ request'[h] = r
  BY <1>3, RequestOf
<1>6. row \in LogRow("generate") /\ "generate" \in Logs
  <2>1. b \in Nat
    BY <1>4 DEF AdminInv, RowsTyped
  <2> QED BY <1>1, <1>4, <2>1 DEF LogRow, GenerateLogRow, RowState, Logs
<1>7. /\ Added(audit["generate"], audit'["generate"], n)
      /\ audit'["generate"][n] = row
  BY <1>1, <1>3, <1>6, AuditLogs DEF Added
<1>8. NoRow(b)
  BY <1>1, <1>2 DEF BatchesFit, BatchLogged
<1>9. ASSUME NEW g \in Request, Generating(g)' PROVE BatchLogged(request[g])'
  <2>1. CASE g = h
    <3>1. RowHeld(r)'
      BY <1>3, <1>4, <1>7 DEF RowHeld, Added
    <3> QED BY <1>4, <1>5, <2>1, <3>1 DEF BatchLogged
  <2>2. CASE g # h
    <3>1. request'[g] = request[g] /\ Generating(g)
      BY <1>5, <1>9, <2>2 DEF OthersSame, Generating
    <3>2. request[g].batch # b
      BY <1>1, <1>2, <2>2, <3>1 DEF AdminInv, BatchesServed
    <3>3. PICK s : s = request[g]
      OBVIOUS
    <3>4. BatchLogged(s)
      BY <3>1, <3>3 DEF BatchesFit
    <3>5. BatchLogged(s)'
      BY <1>3, <1>7, <3>2, <3>3, <3>4 DEF BatchLogged, RowHeld, NoRow, Added
    <3> QED BY <3>1, <3>3, <3>5
  <2> QED BY <2>1, <2>2
<1>10. RowOnce'
  BY <1>3, <1>7, <1>8 DEF BatchesFit, RowOnce, NoRow, Added
<1>11. Kept(audit'["generate"]) = Kept(audit["generate"])
  BY <1>7, KeptAdds
<1>12. /\ Committed' = Committed
       /\ \A i \in Kept(audit["generate"]) : audit'["generate"][i] = audit["generate"][i]
  BY <1>3, <1>7 DEF Committed, Kept, Added
<1>13. \A i \in DOMAIN audit'["generate"] : audit'["generate"][i].batch \in DOMAIN batches'
  BY <1>3, <1>4, <1>7 DEF BatchesFit, Added
<1>14. Committed' = {audit'["generate"][i].batch : i \in Kept(audit'["generate"])}
  BY <1>11, <1>12 DEF BatchesFit
<1> QED BY <1>9, <1>10, <1>13, <1>14 DEF BatchesFit

(* The end of a batch is the end of its row.                                 *)
LEMMA BatchesEnd ==
    ASSUME AdminInv, BatchesFit, NEW h \in Request, Generating(h),
           NEW t \in {"committed", "none"}, EndBatch(h, t),
           request' = [request EXCEPT ![h] = Idle],
           t = "committed" => request[h].phase = "logged"
    PROVE  BatchesFit'
<1>1. PICK id, b, r : id = request[h].log /\ b = request[h].batch /\ r = request[h]
  OBVIOUS
<1>2. /\ audit' = [audit EXCEPT !["generate"] = Settled(@, id, t)]
      /\ batches' = [batches EXCEPT ![b].state = t] /\ UNCHANGED config
  BY <1>1 DEF EndBatch
<1>3. /\ DOMAIN batches' = DOMAIN batches
      /\ \A c \in DOMAIN batches : batches'[c].state = IF c = b THEN t ELSE batches[c].state
      /\ b \in DOMAIN batches /\ batches[b].state = "open"
  <2>1. b \in DOMAIN batches /\ batches[b].state = "open"
    BY <1>1, OpenBatch
  <2>2. batches' = [batches EXCEPT ![request[h].batch].state = t]
    BY <1>1, <1>2
  <2>3. /\ DOMAIN batches' = DOMAIN batches
        /\ \A c \in DOMAIN batches :
             batches'[c].state = IF c = request[h].batch THEN t ELSE batches[c].state
    BY <1>2, <2>2, BatchEnds
  <2> QED BY <1>1, <2>1, <2>3
<1>4. OthersSame(h) /\ request'[h] = Idle
  BY RequestOf
<1>5. /\ Ended({"batch", "payload"}, audit["generate"], audit'["generate"], id, t)
      /\ id \notin DOMAIN audit["generate"] => audit' = audit
  <2>1. "generate" \in Logs /\ t \in RowState
    BY DEF Logs, RowState
  <2> QED BY <1>2, <2>1, AuditSettles DEF RowFields
<1>6. /\ DOMAIN audit'["generate"] = DOMAIN audit["generate"]
      /\ \A i \in DOMAIN audit["generate"] :
           audit'["generate"][i].batch = audit["generate"][i].batch
  BY <1>5 DEF Ended
<1>7. BatchLogged(r)
  BY <1>1 DEF BatchesFit
<1>8. IF r.phase = "logged"
        THEN id \in DOMAIN audit["generate"] /\ audit["generate"][id].state = "open"
               /\ audit["generate"][id].batch = b
        ELSE id \notin DOMAIN audit["generate"]
  BY <1>1, <1>7, NotARow DEF BatchLogged, RowHeld, Logs
<1>9. ASSUME NEW g \in Request, Generating(g)' PROVE BatchLogged(request[g])'
  <2>1. g # h /\ request'[g] = request[g] /\ Generating(g)
    BY <1>4, <1>9 DEF OthersSame, Generating, Idle
  <2>2. request[g].batch # b
    BY <1>1, <2>1 DEF AdminInv, BatchesServed
  <2>3. PICK s : s = request[g]
    OBVIOUS
  <2>4. BatchLogged(s)
    BY <2>1, <2>3 DEF BatchesFit
  <2>5. s.phase = "logged" => s.log # id
    BY <1>8, <2>2, <2>3, <2>4 DEF BatchLogged, RowHeld
  <2>6. BatchLogged(s)'
    BY <1>5, <1>6, <2>4, <2>5 DEF BatchLogged, RowHeld, NoRow, Ended
  <2> QED BY <2>1, <2>3, <2>6
<1>10. RowOnce'
  BY <1>6 DEF BatchesFit, RowOnce
<1>11. \A i \in DOMAIN audit'["generate"] : audit'["generate"][i].batch \in DOMAIN batches'
  BY <1>3, <1>6 DEF BatchesFit
<1>12. CASE t = "committed"
  <2>1. Kept(audit'["generate"]) = Kept(audit["generate"]) \union {id}
    BY <1>1, <1>5, <1>8, <1>12, KeptGrows
  <2>2. Committed' = Committed \union {b}
    BY <1>3, <1>12 DEF Committed
  <2>3. /\ Kept(audit["generate"]) \subseteq DOMAIN audit["generate"]
        /\ audit["generate"][id].batch = b /\ id \in DOMAIN audit["generate"]
    BY <1>1, <1>8, <1>12 DEF Kept
  <2>4. Committed' = {audit'["generate"][i].batch : i \in Kept(audit'["generate"])}
    BY <1>6, <2>1, <2>2, <2>3 DEF BatchesFit
  <2> QED BY <1>9, <1>10, <1>11, <2>4 DEF BatchesFit
<1>13. CASE t = "none"
  <2>1. Kept(audit'["generate"]) = Kept(audit["generate"])
    BY <1>5, <1>8, <1>13, KeptStays
  <2>2. Committed' = Committed
    BY <1>3, <1>13 DEF Committed
  <2>3. Kept(audit["generate"]) \subseteq DOMAIN audit["generate"]
    BY DEF Kept
  <2>4. Committed' = {audit'["generate"][i].batch : i \in Kept(audit'["generate"])}
    BY <1>6, <2>1, <2>2, <2>3 DEF BatchesFit
  <2> QED BY <1>9, <1>10, <1>11, <2>4 DEF BatchesFit
<1> QED BY <1>12, <1>13

LEMMA BatchesKept ==
    ASSUME AdminInv, BatchesFit, [AdminNext]_vars
    PROVE  BatchesFit'
<1>1. CASE UNCHANGED vars
  BY <1>1 DEF vars, BatchesFit, BatchLogged, RowHeld, NoRow, RowOnce, Committed, Generating
<1>2. ASSUME NEW h \in Request, ChangeStep(h) PROVE BatchesFit'
  BY <1>2, ChangeSteps, BatchesStay
<1>3. ASSUME NEW h \in Request, GenerateStep(h) PROVE BatchesFit'
  <2>1. ASSUME NEW candidates, DrawCodes(h, candidates) PROVE BatchesFit'
    <3>1. PICK r : r = [request[h] EXCEPT !.phase = "inserting", !.todo = Sorted(candidates)]
      OBVIOUS
    <3>2. Generating(h) /\ request[h].phase # "logged"
      BY <2>1 DEF DrawCodes, Drawing, Generating
    <3>3. request[h].log = 0
      BY <3>2 DEF BatchesFit, BatchLogged
    <3>4. r.phase # "logged" /\ r.log = 0 /\ r.batch = request[h].batch
      BY <3>1, <3>2, <3>3, OpenBatch DEF GenerateFields
    <3> QED BY <2>1, <3>1, <3>2, <3>4, BatchesStay DEF DrawCodes, To, tables
  <2>2. CASE InsertRow(h)
    <3>1. PICK own : own = {v \in vouchers' : v.batch = request[h].batch}
      OBVIOUS
    <3>2. PICK rest : rest = Tail(request[h].todo)
      OBVIOUS
    <3>3. PICK r : r = IF rest # <<>> THEN [request[h] EXCEPT !.todo = rest]
                       ELSE [request[h] EXCEPT !.todo = rest, !.phase = "drawing",
                                               !.inserted = Cardinality(own)]
      OBVIOUS
    <3>4. Generating(h) /\ request[h].phase # "logged"
      BY <2>2 DEF InsertRow, Inserting, Generating
    <3>5. request[h].log = 0
      BY <3>4 DEF BatchesFit, BatchLogged
    <3>6. r.phase # "logged" /\ r.log = 0 /\ r.batch = request[h].batch
      BY <3>3, <3>4, <3>5, OpenBatch DEF GenerateFields
    <3>7. request' = [request EXCEPT ![h] = r] /\ UNCHANGED <<batches, audit>>
      BY <2>2, <3>1, <3>2, <3>3 DEF InsertRow, To
    <3> QED BY <3>4, <3>6, <3>7, BatchesStay
  <2>3. CASE GenerateCommit(h)
    BY <2>3, BatchesEnd DEF GenerateCommit, To, Generating
  <2>4. CASE Generating(h) /\ Undo(h) /\ request' = [request EXCEPT ![h] = Idle]
    BY <2>4, BatchesEnd DEF Undo
  <2> QED BY <1>3, <2>1, <2>2, <2>3, <2>4, GenerateSteps, BatchesBegin, BatchesLog
<1> QED BY <1>1, <1>2, <1>3, TwoKinds

-----------------------------------------------------------------------------
LEMMA LogsInit ==
    ASSUME AdminInit
    PROVE  KeysFit /\ BatchesFit
<1> USE DEF AdminInit
<1>1. \A h \in Request : ~ Keying(h) /\ ~ Generating(h)
  BY DEF Keying, Generating, Idle
<1>2. DOMAIN audit["key"] = {} /\ DOMAIN audit["generate"] = {} /\ DOMAIN batches = {}
  OBVIOUS
<1>3. Kept(audit["key"]) = {} /\ Kept(audit["generate"]) = {}
  BY <1>2 DEF Kept
<1>4. KeysFit
  BY <1>1, <1>3 DEF KeysFit, KeysLogged, RowsOf
<1>5. BatchesFit
  BY <1>1, <1>2, <1>3 DEF BatchesFit, RowOnce, Committed
<1> QED BY <1>4, <1>5

LEMMA LogsFit ==
    ASSUME AdminInv, PlacesFit, KeysFit, BatchesFit
    PROVE  AuditTells
<1>1. \A action \in Logs : Kept(audit[action]) \subseteq DOMAIN audit[action]
  BY DEF Kept
<1>2. BatchesLogged
  <2>1. Committed = {row.batch : row \in Logged("generate")}
    BY DEF BatchesFit, Logged
  <2> QED BY <1>1, <2>1 DEF BatchesLogged, BatchesFit, RowOnce, Logs
<1>3. UpsertsLogged
  <2>1. Kept(history) \subseteq DOMAIN history
    BY DEF Kept
  <2> QED BY <1>1, <2>1 DEF UpsertsLogged, PlacesFit, Matched, Unique, Logs
<1> QED BY <1>2, <1>3 DEF AuditTells, KeysFit

(* The audit log has a row for every batch and every upsert that are in the  *)
(* tables and for no other, and tells the state of every key by its last     *)
(* row, as long as requests for the key came one after the other; although   *)
(* a row takes its id before its request waits for a lock and long before it *)
(* is committed (add_audit_log).                                             *)
THEOREM AuditComplete == AdminSpec => []AuditTells
<1>1. (AdminInv /\ NumbersFit /\ PlacesFit /\ ConfigFit) /\ KeysFit /\ BatchesFit
        /\ [AdminNext]_vars => (KeysFit /\ BatchesFit)'
  BY KeysKept, BatchesKept
<1>2. AdminSpec => [](KeysFit /\ BatchesFit)
  BY <1>1, ChangesInvariant, LogsInit, PTL DEF AdminSpec
<1>3. AdminInv /\ PlacesFit /\ KeysFit /\ BatchesFit => AuditTells
  BY LogsFit
<1> QED BY <1>2, <1>3, ChangesInvariant, PTL
-----------------------------------------------------------------------------
(* The encoder gives the bits of the bytes, five at a time.                  *)
Digits == 0 .. 31
Shifted(y, s) == (y \div 2 ^ s) % 2

LEMMA PowersOfTwo ==
    /\ 2 ^ 0 = 1 /\ 2 ^ 1 = 2 /\ 2 ^ 2 = 4 /\ 2 ^ 3 = 8
    /\ 2 ^ 4 = 16 /\ 2 ^ 5 = 32 /\ 2 ^ 6 = 64 /\ 2 ^ 7 = 128
BY SMT

(* The eight bits of a byte.                                                 *)
LEMMA BitsOfByte ==
    ASSUME NEW y \in Byte
    PROVE  /\ \A s \in 0 .. 7 : Shifted(y, s) \in {0, 1}
           /\ y = 128 * Shifted(y, 7) + 64 * Shifted(y, 6) + 32 * Shifted(y, 5)
                    + 16 * Shifted(y, 4) + 8 * Shifted(y, 3) + 4 * Shifted(y, 2)
                    + 2 * Shifted(y, 1) + Shifted(y, 0)
<1>1. /\ Shifted(y, 0) = y % 2 /\ Shifted(y, 1) = (y \div 2) % 2
      /\ Shifted(y, 2) = (y \div 4) % 2 /\ Shifted(y, 3) = (y \div 8) % 2
      /\ Shifted(y, 4) = (y \div 16) % 2 /\ Shifted(y, 5) = (y \div 32) % 2
      /\ Shifted(y, 6) = (y \div 64) % 2 /\ Shifted(y, 7) = (y \div 128) % 2
  BY PowersOfTwo DEF Shifted, Byte
<1>2. y = 128 * ((y \div 128) % 2) + 64 * ((y \div 64) % 2) + 32 * ((y \div 32) % 2)
            + 16 * ((y \div 16) % 2) + 8 * ((y \div 8) % 2) + 4 * ((y \div 4) % 2)
            + 2 * ((y \div 2) % 2) + (y % 2)
  <2>1. y = 2 * (y \div 2) + (y % 2)
    BY DEF Byte
  <2>2. y \div 2 = 2 * (y \div 4) + ((y \div 2) % 2)
    BY DEF Byte
  <2>3. y \div 4 = 2 * (y \div 8) + ((y \div 4) % 2)
    BY DEF Byte
  <2>4. y \div 8 = 2 * (y \div 16) + ((y \div 8) % 2)
    BY DEF Byte
  <2>5. y \div 16 = 2 * (y \div 32) + ((y \div 16) % 2)
    BY DEF Byte
  <2>6. y \div 32 = 2 * (y \div 64) + ((y \div 32) % 2)
    BY DEF Byte
  <2>7. y \div 64 = 2 * (y \div 128) + ((y \div 64) % 2)
    BY DEF Byte
  <2>8. y \div 128 = (y \div 128) % 2
    BY DEF Byte
  <2> QED BY <2>1, <2>2, <2>3, <2>4, <2>5, <2>6, <2>7, <2>8 DEF Byte
<1>3. \A s \in 0 .. 7 : Shifted(y, s) \in {0, 1}
  <2>1. \A s \in 0 .. 7 : s = 0 \/ s = 1 \/ s = 2 \/ s = 3 \/ s = 4 \/ s = 5 \/ s = 6 \/ s = 7
    OBVIOUS
  <2>2. /\ y % 2 \in {0, 1} /\ (y \div 2) % 2 \in {0, 1}
        /\ (y \div 4) % 2 \in {0, 1} /\ (y \div 8) % 2 \in {0, 1}
        /\ (y \div 16) % 2 \in {0, 1} /\ (y \div 32) % 2 \in {0, 1}
        /\ (y \div 64) % 2 \in {0, 1} /\ (y \div 128) % 2 \in {0, 1}
    BY DEF Byte
  <2> QED BY <1>1, <2>1, <2>2
<1> QED BY <1>1, <1>2, <1>3

(* Five bits of a number, and what is left and right of them.                *)
LEMMA FiveBits ==
    ASSUME NEW h \in Nat, NEW l \in Digits
    PROVE  /\ (32 * h + l) % 32 = l
           /\ \A t \in 0 .. 1 : ((64 * h + 2 * l + t) \div 2) % 32 = l
           /\ \A t \in 0 .. 3 : ((128 * h + 4 * l + t) \div 4) % 32 = l
           /\ \A t \in 0 .. 7 : ((256 * h + 8 * l + t) \div 8) % 32 = l
           /\ \A t \in 0 .. 15 : ((512 * h + 16 * l + t) \div 16) % 32 = l
           /\ \A t \in 0 .. 31 : ((1024 * h + 32 * l + t) \div 32) % 32 = l
           /\ \A t \in 0 .. 63 : ((2048 * h + 64 * l + t) \div 64) % 32 = l
           /\ \A t \in 0 .. 127 : ((4096 * h + 128 * l + t) \div 128) % 32 = l
<1>1. (32 * h + l) % 32 = l
  BY DEF Digits
<1>2. ASSUME NEW t \in 0 .. 1 PROVE ((64 * h + 2 * l + t) \div 2) % 32 = l
  <2>1. (64 * h + 2 * l + t) \div 2 = 32 * h + l
    BY DEF Digits
  <2> QED BY <1>1, <2>1
<1>3. ASSUME NEW t \in 0 .. 3 PROVE ((128 * h + 4 * l + t) \div 4) % 32 = l
  <2>1. (128 * h + 4 * l + t) \div 4 = 32 * h + l
    BY DEF Digits
  <2> QED BY <1>1, <2>1
<1>4. ASSUME NEW t \in 0 .. 7 PROVE ((256 * h + 8 * l + t) \div 8) % 32 = l
  <2>1. (256 * h + 8 * l + t) \div 8 = 32 * h + l
    BY DEF Digits
  <2> QED BY <1>1, <2>1
<1>5. ASSUME NEW t \in 0 .. 15 PROVE ((512 * h + 16 * l + t) \div 16) % 32 = l
  <2>1. (512 * h + 16 * l + t) \div 16 = 32 * h + l
    BY DEF Digits
  <2> QED BY <1>1, <2>1
<1>6. ASSUME NEW t \in 0 .. 31 PROVE ((1024 * h + 32 * l + t) \div 32) % 32 = l
  <2>1. (1024 * h + 32 * l + t) \div 32 = 32 * h + l
    BY DEF Digits
  <2> QED BY <1>1, <2>1
<1>7. ASSUME NEW t \in 0 .. 63 PROVE ((2048 * h + 64 * l + t) \div 64) % 32 = l
  <2>1. (2048 * h + 64 * l + t) \div 64 = 32 * h + l
    BY DEF Digits
  <2> QED BY <1>1, <2>1
<1>8. ASSUME NEW t \in 0 .. 127 PROVE ((4096 * h + 128 * l + t) \div 128) % 32 = l
  <2>1. (4096 * h + 128 * l + t) \div 128 = 32 * h + l
    BY DEF Digits
  <2> QED BY <1>1, <2>1
<1>9. \A t \in 0 .. 1 : ((64 * h + 2 * l + t) \div 2) % 32 = l
  BY <1>2
<1>10. \A t \in 0 .. 3 : ((128 * h + 4 * l + t) \div 4) % 32 = l
  BY <1>3
<1>11. \A t \in 0 .. 7 : ((256 * h + 8 * l + t) \div 8) % 32 = l
  BY <1>4
<1>12. \A t \in 0 .. 15 : ((512 * h + 16 * l + t) \div 16) % 32 = l
  BY <1>5
<1>13. \A t \in 0 .. 31 : ((1024 * h + 32 * l + t) \div 32) % 32 = l
  BY <1>6
<1>14. \A t \in 0 .. 63 : ((2048 * h + 64 * l + t) \div 64) % 32 = l
  BY <1>7
<1>15. \A t \in 0 .. 127 : ((4096 * h + 128 * l + t) \div 128) % 32 = l
  BY <1>8
<1> QED BY <1>1, <1>9, <1>10, <1>11, <1>12, <1>13, <1>14, <1>15

(* Bit s of two bytes after each other, from the right.                      *)
BitOfTwo(x, y, s) == IF s < 8 THEN Shifted(y, s) ELSE Shifted(x, s - 8)

(* The five bits of two bytes that r others follow, cut out and one by one.  *)
CutOut(x, y, r) == ((x * 256 + y) \div 2 ^ r) % 32
FiveOf(x, y, r) ==
    16 * BitOfTwo(x, y, r + 4) + 8 * BitOfTwo(x, y, r + 3)
      + 4 * BitOfTwo(x, y, r + 2) + 2 * BitOfTwo(x, y, r + 1) + BitOfTwo(x, y, r)

LEMMA WindowBits ==
    ASSUME NEW x \in Byte, NEW y \in Byte, NEW r \in 0 .. 7
    PROVE  CutOut(x, y, r) = FiveOf(x, y, r) /\ CutOut(x, y, r) \in Digits
<1> USE DEF CutOut, FiveOf
<1>1. PICK x0, x1, x2, x3, x4, x5, x6, x7 \in {0, 1} :
        /\ x0 = Shifted(x, 0) /\ x1 = Shifted(x, 1) /\ x2 = Shifted(x, 2) /\ x3 = Shifted(x, 3)
        /\ x4 = Shifted(x, 4) /\ x5 = Shifted(x, 5) /\ x6 = Shifted(x, 6) /\ x7 = Shifted(x, 7)
  BY BitsOfByte
<1>2. PICK y0, y1, y2, y3, y4, y5, y6, y7 \in {0, 1} :
        /\ y0 = Shifted(y, 0) /\ y1 = Shifted(y, 1) /\ y2 = Shifted(y, 2) /\ y3 = Shifted(y, 3)
        /\ y4 = Shifted(y, 4) /\ y5 = Shifted(y, 5) /\ y6 = Shifted(y, 6) /\ y7 = Shifted(y, 7)
  BY BitsOfByte
<1>3. /\ x = 128 * x7 + 64 * x6 + 32 * x5 + 16 * x4 + 8 * x3 + 4 * x2 + 2 * x1 + x0
      /\ y = 128 * y7 + 64 * y6 + 32 * y5 + 16 * y4 + 8 * y3 + 4 * y2 + 2 * y1 + y0
  BY <1>1, <1>2, BitsOfByte
<1>4. CASE r = 0
  <2>1. PICK h, l, t : /\ h = 1024 * x7 + 512 * x6 + 256 * x5 + 128 * x4 + 64 * x3
                            + 32 * x2 + 16 * x1 + 8 * x0 + 4 * y7 + 2 * y6 + y5
                       /\ l = 16 * y4 + 8 * y3 + 4 * y2 + 2 * y1 + y0
                       /\ t = 0
    OBVIOUS
  <2>2. h \in Nat /\ l \in Digits /\ t \in 0 .. 0
    <3>1. h \in Nat
      BY <2>1
    <3>2. l \in 0 .. 31
      BY <2>1
    <3>3. t \in 0 .. 0
      BY <2>1
    <3> QED BY <3>1, <3>2, <3>3 DEF Digits
  <2>3. x * 256 + y = 32 * h + 1 * l + t
    BY <1>3, <2>1
  <2>4. ((x * 256 + y) \div 1) % 32 = l
    <3>1. PICK n : n = x * 256 + y
      OBVIOUS
    <3>2. h \in Nat /\ l \in Int /\ t = 0
      BY <2>2 DEF Digits
    <3>3. n = 32 * h + l /\ n \in Int
      BY <2>3, <3>1, <3>2
    <3>4. n \div 1 = n
      BY <3>3
    <3>5. (32 * h + l) % 32 = l
      BY <2>2, FiveBits
    <3> QED BY <3>1, <3>3, <3>4, <3>5
  <2>5. /\ BitOfTwo(x, y, r) = y0
        /\ BitOfTwo(x, y, r + 1) = y1
        /\ BitOfTwo(x, y, r + 2) = y2
        /\ BitOfTwo(x, y, r + 3) = y3
        /\ BitOfTwo(x, y, r + 4) = y4
    BY <1>1, <1>2, <1>4 DEF BitOfTwo
  <2> QED BY <1>4, <2>1, <2>2, <2>4, <2>5, PowersOfTwo
<1>5. CASE r = 1
  <2>1. PICK h, l, t : /\ h = 512 * x7 + 256 * x6 + 128 * x5 + 64 * x4 + 32 * x3
                            + 16 * x2 + 8 * x1 + 4 * x0 + 2 * y7 + y6
                       /\ l = 16 * y5 + 8 * y4 + 4 * y3 + 2 * y2 + y1
                       /\ t = y0
    OBVIOUS
  <2>2. h \in Nat /\ l \in Digits /\ t \in 0 .. 1
    <3>1. h \in Nat
      BY <2>1
    <3>2. l \in 0 .. 31
      BY <2>1
    <3>3. t \in 0 .. 1
      BY <2>1
    <3> QED BY <3>1, <3>2, <3>3 DEF Digits
  <2>3. x * 256 + y = 64 * h + 2 * l + t
    BY <1>3, <2>1
  <2>4. ((x * 256 + y) \div 2) % 32 = l
    BY <2>2, <2>3, FiveBits
  <2>5. /\ BitOfTwo(x, y, r) = y1
        /\ BitOfTwo(x, y, r + 1) = y2
        /\ BitOfTwo(x, y, r + 2) = y3
        /\ BitOfTwo(x, y, r + 3) = y4
        /\ BitOfTwo(x, y, r + 4) = y5
    BY <1>1, <1>2, <1>5 DEF BitOfTwo
  <2> QED BY <1>5, <2>1, <2>2, <2>4, <2>5, PowersOfTwo
<1>6. CASE r = 2
  <2>1. PICK h, l, t : /\ h = 256 * x7 + 128 * x6 + 64 * x5 + 32 * x4 + 16 * x3
                            + 8 * x2 + 4 * x1 + 2 * x0 + y7
                       /\ l = 16 * y6 + 8 * y5 + 4 * y4 + 2 * y3 + y2
                       /\ t = 2 * y1 + y0
    OBVIOUS
  <2>2. h \in Nat /\ l \in Digits /\ t \in 0 .. 3
    <3>1. h \in Nat
      BY <2>1
    <3>2. l \in 0 .. 31
      BY <2>1
    <3>3. t \in 0 .. 3
      BY <2>1
    <3> QED BY <3>1, <3>2, <3>3 DEF Digits
  <2>3. x * 256 + y = 128 * h + 4 * l + t
    BY <1>3, <2>1
  <2>4. ((x * 256 + y) \div 4) % 32 = l
    BY <2>2, <2>3, FiveBits
  <2>5. /\ BitOfTwo(x, y, r) = y2
        /\ BitOfTwo(x, y, r + 1) = y3
        /\ BitOfTwo(x, y, r + 2) = y4
        /\ BitOfTwo(x, y, r + 3) = y5
        /\ BitOfTwo(x, y, r + 4) = y6
    BY <1>1, <1>2, <1>6 DEF BitOfTwo
  <2> QED BY <1>6, <2>1, <2>2, <2>4, <2>5, PowersOfTwo
<1>7. CASE r = 3
  <2>1. PICK h, l, t : /\ h = 128 * x7 + 64 * x6 + 32 * x5 + 16 * x4 + 8 * x3 + 4 * x2 + 2 * x1 + x0
                       /\ l = 16 * y7 + 8 * y6 + 4 * y5 + 2 * y4 + y3
                       /\ t = 4 * y2 + 2 * y1 + y0
    OBVIOUS
  <2>2. h \in Nat /\ l \in Digits /\ t \in 0 .. 7
    <3>1. h \in Nat
      BY <2>1
    <3>2. l \in 0 .. 31
      BY <2>1
    <3>3. t \in 0 .. 7
      BY <2>1
    <3> QED BY <3>1, <3>2, <3>3 DEF Digits
  <2>3. x * 256 + y = 256 * h + 8 * l + t
    BY <1>3, <2>1
  <2>4. ((x * 256 + y) \div 8) % 32 = l
    BY <2>2, <2>3, FiveBits
  <2>5. /\ BitOfTwo(x, y, r) = y3
        /\ BitOfTwo(x, y, r + 1) = y4
        /\ BitOfTwo(x, y, r + 2) = y5
        /\ BitOfTwo(x, y, r + 3) = y6
        /\ BitOfTwo(x, y, r + 4) = y7
    BY <1>1, <1>2, <1>7 DEF BitOfTwo
  <2> QED BY <1>7, <2>1, <2>2, <2>4, <2>5, PowersOfTwo
<1>8. CASE r = 4
  <2>1. PICK h, l, t : /\ h = 64 * x7 + 32 * x6 + 16 * x5 + 8 * x4 + 4 * x3 + 2 * x2 + x1
                       /\ l = 16 * x0 + 8 * y7 + 4 * y6 + 2 * y5 + y4
                       /\ t = 8 * y3 + 4 * y2 + 2 * y1 + y0
    OBVIOUS
  <2>2. h \in Nat /\ l \in Digits /\ t \in 0 .. 15
    <3>1. h \in Nat
      BY <2>1
    <3>2. l \in 0 .. 31
      BY <2>1
    <3>3. t \in 0 .. 15
      BY <2>1
    <3> QED BY <3>1, <3>2, <3>3 DEF Digits
  <2>3. x * 256 + y = 512 * h + 16 * l + t
    BY <1>3, <2>1
  <2>4. ((x * 256 + y) \div 16) % 32 = l
    BY <2>2, <2>3, FiveBits
  <2>5. /\ BitOfTwo(x, y, r) = y4
        /\ BitOfTwo(x, y, r + 1) = y5
        /\ BitOfTwo(x, y, r + 2) = y6
        /\ BitOfTwo(x, y, r + 3) = y7
        /\ BitOfTwo(x, y, r + 4) = x0
    BY <1>1, <1>2, <1>8 DEF BitOfTwo
  <2> QED BY <1>8, <2>1, <2>2, <2>4, <2>5, PowersOfTwo
<1>9. CASE r = 5
  <2>1. PICK h, l, t : /\ h = 32 * x7 + 16 * x6 + 8 * x5 + 4 * x4 + 2 * x3 + x2
                       /\ l = 16 * x1 + 8 * x0 + 4 * y7 + 2 * y6 + y5
                       /\ t = 16 * y4 + 8 * y3 + 4 * y2 + 2 * y1 + y0
    OBVIOUS
  <2>2. h \in Nat /\ l \in Digits /\ t \in 0 .. 31
    <3>1. h \in Nat
      BY <2>1
    <3>2. l \in 0 .. 31
      BY <2>1
    <3>3. t \in 0 .. 31
      BY <2>1
    <3> QED BY <3>1, <3>2, <3>3 DEF Digits
  <2>3. x * 256 + y = 1024 * h + 32 * l + t
    BY <1>3, <2>1
  <2>4. ((x * 256 + y) \div 32) % 32 = l
    BY <2>2, <2>3, FiveBits
  <2>5. /\ BitOfTwo(x, y, r) = y5
        /\ BitOfTwo(x, y, r + 1) = y6
        /\ BitOfTwo(x, y, r + 2) = y7
        /\ BitOfTwo(x, y, r + 3) = x0
        /\ BitOfTwo(x, y, r + 4) = x1
    BY <1>1, <1>2, <1>9 DEF BitOfTwo
  <2> QED BY <1>9, <2>1, <2>2, <2>4, <2>5, PowersOfTwo
<1>10. CASE r = 6
  <2>1. PICK h, l, t : /\ h = 16 * x7 + 8 * x6 + 4 * x5 + 2 * x4 + x3
                       /\ l = 16 * x2 + 8 * x1 + 4 * x0 + 2 * y7 + y6
                       /\ t = 32 * y5 + 16 * y4 + 8 * y3 + 4 * y2 + 2 * y1 + y0
    OBVIOUS
  <2>2. h \in Nat /\ l \in Digits /\ t \in 0 .. 63
    <3>1. h \in Nat
      BY <2>1
    <3>2. l \in 0 .. 31
      BY <2>1
    <3>3. t \in 0 .. 63
      BY <2>1
    <3> QED BY <3>1, <3>2, <3>3 DEF Digits
  <2>3. x * 256 + y = 2048 * h + 64 * l + t
    BY <1>3, <2>1
  <2>4. ((x * 256 + y) \div 64) % 32 = l
    BY <2>2, <2>3, FiveBits
  <2>5. /\ BitOfTwo(x, y, r) = y6
        /\ BitOfTwo(x, y, r + 1) = y7
        /\ BitOfTwo(x, y, r + 2) = x0
        /\ BitOfTwo(x, y, r + 3) = x1
        /\ BitOfTwo(x, y, r + 4) = x2
    BY <1>1, <1>2, <1>10 DEF BitOfTwo
  <2> QED BY <1>10, <2>1, <2>2, <2>4, <2>5, PowersOfTwo
<1>11. CASE r = 7
  <2>1. PICK h, l, t : /\ h = 8 * x7 + 4 * x6 + 2 * x5 + x4
                       /\ l = 16 * x3 + 8 * x2 + 4 * x1 + 2 * x0 + y7
                       /\ t = 64 * y6 + 32 * y5 + 16 * y4 + 8 * y3 + 4 * y2 + 2 * y1 + y0
    OBVIOUS
  <2>2. h \in Nat /\ l \in Digits /\ t \in 0 .. 127
    <3>1. h \in Nat
      BY <2>1
    <3>2. l \in 0 .. 31
      BY <2>1
    <3>3. t \in 0 .. 127
      BY <2>1
    <3> QED BY <3>1, <3>2, <3>3 DEF Digits
  <2>3. x * 256 + y = 4096 * h + 128 * l + t
    BY <1>3, <2>1
  <2>4. ((x * 256 + y) \div 128) % 32 = l
    BY <2>2, <2>3, FiveBits
  <2>5. /\ BitOfTwo(x, y, r) = y7
        /\ BitOfTwo(x, y, r + 1) = x0
        /\ BitOfTwo(x, y, r + 2) = x1
        /\ BitOfTwo(x, y, r + 3) = x2
        /\ BitOfTwo(x, y, r + 4) = x3
    BY <1>1, <1>2, <1>11 DEF BitOfTwo
  <2> QED BY <1>11, <2>1, <2>2, <2>4, <2>5, PowersOfTwo
<1> QED BY <1>4, <1>5, <1>6, <1>7, <1>8, <1>9, <1>10, <1>11

(* The two bytes that a digit is taken from; beyond the last one there is    *)
(* nothing but zeros.                                                        *)
Left(bytes, j) == IF j = 1 THEN 0 ELSE bytes[j - 1]
Right(bytes, j) == IF j <= Len(bytes) THEN bytes[j] ELSE 0

LEMMA ByteBit ==
    ASSUME NEW bytes \in Seq(Byte), NEW m \in 1 .. Len(bytes), NEW s \in 0 .. 7,
           NEW k, k = 8 * m - 1 - s
    PROVE  Bit(bytes, k) = Shifted(bytes[m], s)
<1>1. k < 8 * Len(bytes) /\ k \div 8 = m - 1 /\ k % 8 = 7 - s /\ k \in Nat
  OBVIOUS
<1>2. k \div 8 + 1 = m /\ 7 - (k % 8) = s
  BY <1>1
<1> QED BY <1>1, <1>2 DEF Bit, Shifted

LEMMA ZeroBits ==
    ASSUME NEW s \in 0 .. 7
    PROVE  Shifted(0, s) = 0
<1>1. s = 0 \/ s = 1 \/ s = 2 \/ s = 3 \/ s = 4 \/ s = 5 \/ s = 6 \/ s = 7
  OBVIOUS
<1>2. \A d \in {1, 2, 4, 8, 16, 32, 64, 128} : (0 \div d) % 2 = 0
  OBVIOUS
<1>3. 2 ^ s \in {1, 2, 4, 8, 16, 32, 64, 128}
  <2>1. CASE s = 0
    BY <2>1, PowersOfTwo
  <2>2. CASE s = 1
    BY <2>2, PowersOfTwo
  <2>3. CASE s = 2
    BY <2>3, PowersOfTwo
  <2>4. CASE s = 3
    BY <2>4, PowersOfTwo
  <2>5. CASE s = 4
    BY <2>5, PowersOfTwo
  <2>6. CASE s = 5
    BY <2>6, PowersOfTwo
  <2>7. CASE s = 6
    BY <2>7, PowersOfTwo
  <2>8. CASE s = 7
    BY <2>8, PowersOfTwo
  <2> QED BY <1>1, <2>1, <2>2, <2>3, <2>4, <2>5, <2>6, <2>7, <2>8
<1> QED BY <1>2, <1>3 DEF Shifted

LEMMA BitAt ==
    ASSUME NEW bytes \in Seq(Byte), NEW j \in 1 .. Len(bytes) + 1, NEW s \in 0 .. 15,
           s > 7 => j > 1
    PROVE  Bit(bytes, 8 * j - 1 - s) = BitOfTwo(Left(bytes, j), Right(bytes, j), s)
<1>1. PICK k : k = 8 * j - 1 - s
  OBVIOUS
<1>2. CASE s > 7
  <2>1. j - 1 \in 1 .. Len(bytes) /\ s - 8 \in 0 .. 7 /\ k = 8 * (j - 1) - 1 - (s - 8)
    BY <1>1, <1>2
  <2>2. Bit(bytes, k) = Shifted(bytes[j - 1], s - 8)
    BY <2>1, ByteBit
  <2> QED BY <1>1, <1>2, <2>1, <2>2 DEF BitOfTwo, Left
<1>3. CASE s <= 7 /\ j <= Len(bytes)
  <2>1. j \in 1 .. Len(bytes) /\ s \in 0 .. 7
    BY <1>3
  <2>2. Bit(bytes, k) = Shifted(bytes[j], s)
    BY <1>1, <2>1, ByteBit
  <2> QED BY <1>1, <1>3, <2>2 DEF BitOfTwo, Right
<1>4. CASE s <= 7 /\ j = Len(bytes) + 1
  <2>1. ~(k < 8 * Len(bytes))
    BY <1>1, <1>4
  <2>2. Right(bytes, j) = 0 /\ s \in 0 .. 7
    BY <1>4 DEF Right
  <2> QED BY <1>1, <1>4, <2>1, <2>2, ZeroBits DEF Bit, BitOfTwo
<1> QED BY <1>2, <1>3, <1>4

(* A digit is five bits of the two bytes it comes from, also the last one,   *)
(* which is filled up.                                                       *)
LEMMA DigitOfTwo ==
    ASSUME NEW bytes \in Seq(Byte), bytes # <<>>,
           NEW i \in 1 .. (8 * Len(bytes) + 4) \div 5,
           NEW j, j = (5 * i + 7) \div 8, NEW r, r = 8 * j - 5 * i
    PROVE  /\ j \in 1 .. Len(bytes) + 1 /\ r \in 0 .. 7 /\ r > 3 => j > 1
           /\ Left(bytes, j) \in Byte /\ Right(bytes, j) \in Byte
           /\ Digit(bytes, i) = ((Left(bytes, j) * 256 + Right(bytes, j)) \div 2 ^ r) % 32
<1>1. PICK n : n = Len(bytes)
  OBVIOUS
<1>2. n \in Nat /\ n > 0 /\ DOMAIN bytes = 1 .. n /\ \A m \in 1 .. n : bytes[m] \in Byte
  BY <1>1
<1>3. i \in Nat /\ i > 0 /\ 5 * i <= 8 * n + 4
  BY <1>1, <1>2
<1>4. j \in 1 .. n + 1 /\ r \in 0 .. 7 /\ (r > 3 => j > 1)
  BY <1>2, <1>3
<1>5. Left(bytes, j) \in Byte /\ Right(bytes, j) \in Byte
  <2>1. j # 1 => j - 1 \in 1 .. n
    BY <1>2, <1>4
  <2>2. Left(bytes, j) = IF j = 1 THEN 0 ELSE bytes[j - 1]
    BY DEF Left
  <2>3. Right(bytes, j) = IF j <= n THEN bytes[j] ELSE 0
    BY <1>1 DEF Right
  <2>4. 0 \in Byte /\ (j <= n => j \in 1 .. n)
    BY <1>2, <1>4 DEF Byte
  <2> QED BY <1>2, <2>1, <2>2, <2>3, <2>4
<1>6. CASE j <= n
  <2>1. Window(bytes, j) = Left(bytes, j) * 256 + Right(bytes, j)
    <3>1. bytes[j] \in Byte
      BY <1>2, <1>4, <1>6
    <3>2. Right(bytes, j) = bytes[j] /\ bytes[j] \in Int
      <4>1. j <= Len(bytes)
        BY <1>1, <1>6
      <4>2. PICK b \in Byte : b = bytes[j]
        BY <3>1
      <4>3. b \in Int
        BY DEF Byte
      <4> QED BY <4>1, <4>2, <4>3 DEF Right
    <3>3. CASE j = 1
      BY <3>2, <3>3 DEF Window, Left
    <3>4. CASE j # 1
      BY <1>4, <3>2, <3>4 DEF Window, Left
    <3> QED BY <3>3, <3>4
  <2> QED BY <1>1, <1>4, <1>5, <1>6, <2>1 DEF Digit
<1>7. CASE j > n
  <2>1. j = n + 1 /\ r \in 4 .. 7 /\ 5 * i - 8 * n = 8 - r
    <3>1. j \in Int /\ j <= n + 1 /\ r \in Int
      BY <1>2, <1>4
    <3>2. j = n + 1 /\ r = 8 * (n + 1) - 5 * i
      BY <1>2, <1>7, <3>1
    <3> QED BY <1>2, <1>3, <1>4, <3>2
  <2>2. Left(bytes, j) = bytes[n] /\ Right(bytes, j) = 0 /\ bytes[n] \in Byte
    BY <1>1, <1>2, <2>1 DEF Left, Right
  <2>3. PICK x \in Byte : x = bytes[n]
    BY <2>2
  <2>4. Digit(bytes, i) = (x * 2 ^ (8 - r)) % 32
    BY <1>1, <1>7, <2>1, <2>3 DEF Digit
  <2>5. ((x * 256 + 0) \div 2 ^ r) % 32 = (x * 2 ^ (8 - r)) % 32
    <3>1. /\ (x * 256 + 0) \div 16 = x * 16 /\ (x * 256 + 0) \div 32 = x * 8
          /\ (x * 256 + 0) \div 64 = x * 4 /\ (x * 256 + 0) \div 128 = x * 2
      BY DEF Byte
    <3>2. PICK e : e = 8 - r
      OBVIOUS
    <3>3. (r = 4 /\ e = 4) \/ (r = 5 /\ e = 3) \/ (r = 6 /\ e = 2) \/ (r = 7 /\ e = 1)
      BY <2>1, <3>2
    <3> DEFINE Power(m) == 2 ^ m
    <3>4. /\ Power(1) = 2 /\ Power(2) = 4 /\ Power(3) = 8 /\ Power(4) = 16
          /\ Power(5) = 32 /\ Power(6) = 64 /\ Power(7) = 128
      BY PowersOfTwo
    <3>5. Power(r) = 2 ^ r /\ Power(8 - r) = 2 ^ (8 - r)
      OBVIOUS
    <3> HIDE DEF Power
    <3>6. PICK p, q : p = Power(r) /\ q = Power(e)
      OBVIOUS
    <3>7. \/ p = 16 /\ q = 16
          \/ p = 32 /\ q = 8
          \/ p = 64 /\ q = 4
          \/ p = 128 /\ q = 2
      <4>1. CASE r = 4 /\ e = 4
        BY <3>4, <3>6, <4>1
      <4>2. CASE r = 5 /\ e = 3
        BY <3>4, <3>6, <4>2
      <4>3. CASE r = 6 /\ e = 2
        BY <3>4, <3>6, <4>3
      <4>4. CASE r = 7 /\ e = 1
        BY <3>4, <3>6, <4>4
      <4> QED BY <3>3, <4>1, <4>2, <4>3, <4>4
    <3> DEFINE CutBy(m) == ((x * 256 + 0) \div m) % 32
               FillBy(m) == (x * m) % 32
    <3>8. /\ CutBy(16) = FillBy(16) /\ CutBy(32) = FillBy(8)
          /\ CutBy(64) = FillBy(4) /\ CutBy(128) = FillBy(2)
      BY <3>1
    <3> HIDE DEF CutBy, FillBy
    <3>9. CutBy(p) = FillBy(q)
      BY <3>7, <3>8
    <3>10. p = 2 ^ r /\ q = 2 ^ (8 - r)
      BY <3>5, <3>2, <3>6
    <3>11. CutBy(2 ^ r) = FillBy(2 ^ (8 - r))
      BY <3>9, <3>10
    <3> QED BY <3>11 DEF CutBy, FillBy
  <2> QED BY <1>1, <1>4, <1>5, <2>2, <2>3, <2>4, <2>5
<1> QED BY <1>1, <1>2, <1>4, <1>5, <1>6, <1>7

(* Of any bytes the encoder makes the digits that their bits are, read as    *)
(* one row and five at a time, with zeros behind the last                    *)
(* (_encode_crockford32).                                                    *)
THEOREM EncodesBits ==
    ASSUME NEW bytes \in Seq(Byte), bytes # <<>>
    PROVE  /\ Encode(bytes) = Base32(bytes)
           /\ Encode(bytes) \in Seq(Digits)
           /\ Len(Encode(bytes)) = (8 * Len(bytes) + 4) \div 5
<1>1. PICK size : size = (8 * Len(bytes) + 4) \div 5
  OBVIOUS
<1>2. size \in Nat
  BY <1>1
<1>3. ASSUME NEW i \in 1 .. size
      PROVE  /\ Encode(bytes)[i] = Base32(bytes)[i]
             /\ Encode(bytes)[i] \in Digits
  <2>1. PICK j, r : j = (5 * i + 7) \div 8 /\ r = 8 * j - 5 * i
    OBVIOUS
  <2>2. PICK x, y : x = Left(bytes, j) /\ y = Right(bytes, j)
    OBVIOUS
  <2>3. /\ j \in 1 .. Len(bytes) + 1 /\ r \in 0 .. 7 /\ (r > 3 => j > 1)
        /\ x \in Byte /\ y \in Byte
        /\ Digit(bytes, i) = ((x * 256 + y) \div 2 ^ r) % 32
    BY <1>1, <2>1, <2>2, DigitOfTwo
  <2>4. PICK k : k = 5 * (i - 1)
    OBVIOUS
  <2>5. k \in Nat /\ k = 8 * j - 1 - (r + 4)
    BY <1>2, <2>1, <2>3, <2>4
  <2>6. /\ Bit(bytes, k) = BitOfTwo(x, y, r + 4)
        /\ Bit(bytes, k + 1) = BitOfTwo(x, y, r + 3)
        /\ Bit(bytes, k + 2) = BitOfTwo(x, y, r + 2)
        /\ Bit(bytes, k + 3) = BitOfTwo(x, y, r + 1)
        /\ Bit(bytes, k + 4) = BitOfTwo(x, y, r)
    <3>1. ASSUME NEW d \in 0 .. 4
          PROVE  Bit(bytes, 8 * j - 1 - (r + d)) = BitOfTwo(x, y, r + d)
      <4>1. r + d \in 0 .. 15 /\ (r + d > 7 => j > 1)
        BY <2>3
      <4> QED BY <2>2, <2>3, <4>1, BitAt
    <3>2. /\ k = 8 * j - 1 - (r + 4) /\ k + 1 = 8 * j - 1 - (r + 3)
          /\ k + 2 = 8 * j - 1 - (r + 2) /\ k + 3 = 8 * j - 1 - (r + 1)
          /\ k + 4 = 8 * j - 1 - (r + 0) /\ r + 0 = r
      BY <2>3, <2>5
    <3>3. /\ Bit(bytes, 8 * j - 1 - (r + 4)) = BitOfTwo(x, y, r + 4)
          /\ Bit(bytes, 8 * j - 1 - (r + 3)) = BitOfTwo(x, y, r + 3)
          /\ Bit(bytes, 8 * j - 1 - (r + 2)) = BitOfTwo(x, y, r + 2)
          /\ Bit(bytes, 8 * j - 1 - (r + 1)) = BitOfTwo(x, y, r + 1)
          /\ Bit(bytes, 8 * j - 1 - (r + 0)) = BitOfTwo(x, y, r + 0)
      BY <3>1
    <3> QED BY <3>2, <3>3
  <2>7. Encode(bytes)[i] = Digit(bytes, i)
    BY <1>1 DEF Encode
  <2>8. Base32(bytes)[i] = 16 * Bit(bytes, k) + 8 * Bit(bytes, k + 1)
                             + 4 * Bit(bytes, k + 2) + 2 * Bit(bytes, k + 3) + Bit(bytes, k + 4)
    BY <1>1, <2>4 DEF Base32
  <2>9. CutOut(x, y, r) = FiveOf(x, y, r) /\ CutOut(x, y, r) \in Digits
    <3>1. x \in Byte /\ y \in Byte /\ r \in 0 .. 7
      BY <2>3
    <3> QED BY <3>1, WindowBits
  <2>10. Digit(bytes, i) \in Digits /\ Digit(bytes, i) = Base32(bytes)[i]
    <3>1. PICK d, b0, b1, b2, b3, b4 :
            /\ d = CutOut(x, y, r)
            /\ b0 = BitOfTwo(x, y, r) /\ b1 = BitOfTwo(x, y, r + 1)
            /\ b2 = BitOfTwo(x, y, r + 2) /\ b3 = BitOfTwo(x, y, r + 3)
            /\ b4 = BitOfTwo(x, y, r + 4)
      OBVIOUS
    <3>2. d = 16 * b4 + 8 * b3 + 4 * b2 + 2 * b1 + b0 /\ d \in Digits
      BY <2>9, <3>1 DEF FiveOf
    <3>3. Digit(bytes, i) = d
      BY <2>3, <3>1 DEF CutOut
    <3>4. Base32(bytes)[i] = 16 * b4 + 8 * b3 + 4 * b2 + 2 * b1 + b0
      BY <2>6, <2>8, <3>1
    <3> QED BY <3>2, <3>3, <3>4
  <2> QED BY <2>7, <2>10
<1>4. /\ Encode(bytes) = [i \in 1 .. size |-> Encode(bytes)[i]]
      /\ Base32(bytes) = [i \in 1 .. size |-> Base32(bytes)[i]]
  BY <1>1 DEF Encode, Base32
<1>5. Encode(bytes) = Base32(bytes)
  BY <1>3, <1>4
<1>6. Encode(bytes) \in Seq(Digits) /\ Len(Encode(bytes)) = size
  BY <1>2, <1>3, <1>4
<1> QED BY <1>1, <1>5, <1>6

-----------------------------------------------------------------------------
(* The codes that are made.                                                  *)

(* A stretch of a sequence.                                                  *)
LEMMA Stretch ==
    ASSUME NEW S, NEW code \in Seq(S), NEW s \in Seq(S), NEW m \in Nat \ {0}, NEW n \in Nat,
           n = m + Len(s) - 1, n <= Len(code), \A i \in 1 .. Len(s) : s[i] = code[m + i - 1]
    PROVE  SubSeq(code, m, n) = s
<1>1. PICK size : size = Len(s)
  OBVIOUS
<1>2. size \in Nat /\ size = n - m + 1 /\ m \in Int /\ n \in Int
  BY <1>1
<1>3. \A i \in m .. n : code[i] \in S
  BY ElementOfSeq
<1>4. /\ SubSeq(code, m, n) \in Seq(S)
      /\ Len(SubSeq(code, m, n)) = IF m <= n THEN n - m + 1 ELSE 0
      /\ \A i \in 1 .. n - m + 1 : SubSeq(code, m, n)[i] = code[m + i - 1]
  BY <1>2, <1>3, SubSeqProperties
<1>5. PICK t : t = SubSeq(code, m, n)
  OBVIOUS
<1>6. t \in Seq(S) /\ Len(t) = size /\ \A i \in 1 .. size : t[i] = s[i]
  BY <1>1, <1>2, <1>4, <1>5
<1>7. t = s
  BY <1>1, <1>6, SeqEqual
<1> QED BY <1>5, <1>7

(* A text put together of three, taken apart again.                          *)
LEMMA PutTogether ==
    ASSUME NEW a \in Seq(Digits), NEW t \in Seq(Digits), NEW b \in Seq(Digits)
    PROVE  LET code == a \o t \o b
           IN /\ code \in Seq(Digits) /\ Len(code) = Len(a) + Len(t) + Len(b)
              /\ SubSeq(code, 1, Len(a)) = a
              /\ SubSeq(code, Len(a) + 1, Len(a) + Len(t)) = t
              /\ SubSeq(code, Len(a) + Len(t) + 1, Len(a) + Len(t) + Len(b)) = b
<1>0. PICK code : code = a \o t \o b
  OBVIOUS
<1>1. PICK la, lt, lb : la = Len(a) /\ lt = Len(t) /\ lb = Len(b)
  OBVIOUS
<1>2. la \in Nat /\ lt \in Nat /\ lb \in Nat
  BY <1>1
<1>3. /\ a \o t \in Seq(Digits) /\ Len(a \o t) = la + lt
      /\ \A i \in 1 .. la + lt : (a \o t)[i] = IF i <= la THEN a[i] ELSE t[i - la]
  BY <1>1, ConcatProperties
<1>4. /\ code \in Seq(Digits) /\ Len(code) = la + lt + lb
      /\ \A i \in 1 .. la + lt + lb :
           code[i] = IF i <= la + lt THEN (a \o t)[i] ELSE b[i - (la + lt)]
  BY <1>0, <1>1, <1>3, ConcatProperties
<1>5. SubSeq(code, 1, la) = a
  <2>1. ASSUME NEW i \in 1 .. la PROVE a[i] = code[1 + i - 1]
    <3>1. /\ i \in 1 .. la + lt /\ i \in 1 .. la + lt + lb /\ i <= la /\ i <= la + lt
          /\ 1 + i - 1 = i
      BY <1>2
    <3> QED BY <1>3, <1>4, <3>1
  <2>2. 1 \in Nat \ {0} /\ la = 1 + la - 1 /\ la <= Len(code)
    BY <1>2, <1>4
  <2> QED BY <1>1, <1>2, <1>4, <2>1, <2>2, Stretch
<1>6. SubSeq(code, la + 1, la + lt) = t
  <2>1. ASSUME NEW i \in 1 .. lt PROVE t[i] = code[(la + 1) + i - 1]
    <3>1. PICK k : k = la + i
      OBVIOUS
    <3>2. /\ k \in 1 .. la + lt /\ k \in 1 .. la + lt + lb /\ ~(k <= la)
          /\ k - la = i /\ (la + 1) + i - 1 = k
      BY <1>2, <3>1
    <3>3. code[k] = (a \o t)[k] /\ (a \o t)[k] = t[k - la]
      BY <1>3, <1>4, <3>2
    <3> QED BY <3>2, <3>3
  <2>2. PICK m, n : m = la + 1 /\ n = la + lt
    OBVIOUS
  <2>3. m \in Nat \ {0} /\ n \in Nat /\ n = m + lt - 1 /\ n <= Len(code)
    BY <1>2, <1>4, <2>2
  <2>4. SubSeq(code, m, n) = t
    BY <1>1, <1>4, <2>1, <2>2, <2>3, Stretch
  <2> QED BY <2>2, <2>4
<1>7. SubSeq(code, la + lt + 1, la + lt + lb) = b
  <2>1. ASSUME NEW i \in 1 .. lb PROVE b[i] = code[(la + lt + 1) + i - 1]
    <3>1. PICK k : k = la + lt + i
      OBVIOUS
    <3>2. /\ k \in 1 .. la + lt + lb /\ ~(k <= la + lt)
          /\ k - (la + lt) = i /\ (la + lt + 1) + i - 1 = k
      BY <1>2, <3>1
    <3> QED BY <1>4, <3>2
  <2>2. PICK m, n : m = la + lt + 1 /\ n = la + lt + lb
    OBVIOUS
  <2>3. m \in Nat \ {0} /\ n \in Nat /\ n = m + lb - 1 /\ n <= Len(code)
    BY <1>2, <1>4, <2>2
  <2>4. SubSeq(code, m, n) = b
    BY <1>1, <1>4, <2>1, <2>2, <2>3, Stretch
  <2> QED BY <2>2, <2>4
<1> QED BY <1>0, <1>1, <1>4, <1>5, <1>6, <1>7

(* The first digits of a text of at least as many.                           *)
LEMMA CutProperties ==
    ASSUME NEW S, NEW s \in Seq(S), NEW n \in Nat, n <= Len(s)
    PROVE  /\ Cut(s, n) = SubSeq(s, 1, n) /\ Cut(s, n) \in Seq(S) /\ Len(Cut(s, n)) = n
           /\ IsPrefix(Cut(s, n), s)
<1>1. Cut(s, n) = SubSeq(s, 1, n)
  BY DEF Cut
<1>2. SubSeq(s, 1, n) \in Seq(S) /\ Len(SubSeq(s, 1, n)) = n
  <2>1. \A i \in 1 .. n : s[i] \in S
    BY ElementOfSeq
  <2> QED BY <2>1, SubSeqProperties
<1>3. SubSeq(SubSeq(s, 1, n), 1, n) = SubSeq(s, 1, n)
  BY <1>2, SubSeqFull
<1> QED BY <1>1, <1>2, <1>3 DEF IsPrefix

LEMMA CodeMade ==
    ASSUME NEW p \in Payload, ~Unmakeable(p), NEW bytes \in Random(TokenBytes(p.length))
    PROVE  /\ WellFormed(p, Code(p, bytes)) /\ Code(p, bytes) \in Seq(Digits)
           /\ Len(Code(p, bytes)) = p.length + IF p.label = None THEN 0 ELSE p.label_length
<1>1. PICK length, n, pos : length = p.length /\ n = TokenBytes(p.length) /\ pos = LabelPos(p)
  OBVIOUS
<1>2. /\ length \in Nat \ {0} /\ n \in Nat \ {0} /\ pos \in 0 .. length
      /\ length <= (8 * n + 4) \div 5
  <2>1. length \in Nat \ {0} /\ p.label_pos \in Nat
    BY <1>1, PayloadAssumption
  <2>2. n = (length * 5 + 7) \div 8
    BY <1>1 DEF TokenBytes
  <2>3. n \in Nat \ {0} /\ length <= (8 * n + 4) \div 5
    BY <2>1, <2>2
  <2>4. pos \in 0 .. length
    BY <1>1, <2>1 DEF LabelPos
  <2> QED BY <2>1, <2>3, <2>4
<1>3. bytes \in Seq(Byte) /\ bytes # <<>> /\ Len(bytes) = n
  <2>1. bytes \in [1 .. n -> Byte]
    BY <1>1, PayloadAssumption
  <2> QED BY <1>2, <2>1
<1>4. PICK base : base = RandomCode(length, bytes)
  OBVIOUS
<1>5. /\ base \in Seq(Digits) /\ Len(base) = length
      /\ IsPrefix(base, Base32(bytes))
  BY <1>2, <1>3, <1>4, EncodesBits, CutProperties DEF RandomCode
<1>6. PICK a, b : a = SubSeq(base, 1, pos) /\ b = SubSeq(base, pos + 1, length)
  OBVIOUS
<1>7. /\ a \in Seq(Digits) /\ Len(a) = pos /\ b \in Seq(Digits) /\ Len(b) = length - pos
      /\ a \o b = base
  <2>1. \A i \in 1 .. length : base[i] \in Digits
    BY <1>5, ElementOfSeq
  <2>2. a \in Seq(Digits) /\ Len(a) = pos
    BY <1>2, <1>6, <2>1, SubSeqProperties
  <2>3. b \in Seq(Digits) /\ Len(b) = length - pos
    BY <1>2, <1>6, <2>1, SubSeqProperties
  <2>4. a \o b = SubSeq(base, 1, length)
    <3>1. 1 \in 1 .. Len(base) + 1 /\ pos \in 1 - 1 .. Len(base) /\ length \in pos .. Len(base)
      BY <1>2, <1>5
    <3> QED BY <1>5, <1>6, <3>1, ConcatAdjacentSubSeq
  <2> QED BY <1>5, <2>2, <2>3, <2>4, SubSeqFull
<1>8. CASE p.label = None
  <2>1. Code(p, bytes) = base
    BY <1>1, <1>4, <1>8 DEF Code
  <2>2. SubSeq(base, 1, pos) \o SubSeq(base, pos + 0 + 1, Len(base)) = base
    <3>1. pos + 0 + 1 = pos + 1
      BY <1>2
    <3> QED BY <1>5, <1>6, <1>7, <3>1
  <2>3. length + 0 = length
    BY <1>2
  <2> QED BY <1>1, <1>5, <1>8, <2>1, <2>2, <2>3 DEF WellFormed
<1>9. CASE p.label # None
  <2>1. PICK size, tag : size = p.label_length /\ tag = LabelTag(p.label, size)
    OBVIOUS
  <2>2. size \in Nat \ {0} /\ Mac(p.label) \in Seq(Byte)
        /\ size <= (8 * Len(Mac(p.label)) + 4) \div 5
    BY <1>9, <2>1, PayloadAssumption DEF Unmakeable
  <2>3. tag \in Seq(Digits) /\ Len(tag) = size /\ IsPrefix(tag, Base32(Mac(p.label)))
    <3>1. Mac(p.label) # <<>>
      <4>1. Len(Mac(p.label)) # 0
        BY <2>2
      <4> QED BY <4>1
    <3>2. PICK text : text = Encode(Mac(p.label))
      OBVIOUS
    <3>3. text \in Seq(Digits) /\ size <= Len(text) /\ text = Base32(Mac(p.label))
      BY <2>2, <3>1, <3>2, EncodesBits
    <3>4. tag = Cut(text, size)
      BY <2>1, <3>2 DEF LabelTag
    <3> QED BY <2>2, <3>3, <3>4, CutProperties
  <2>4. PICK code : code = Code(p, bytes)
    OBVIOUS
  <2>5. code = a \o tag \o b
    BY <1>1, <1>4, <1>5, <1>6, <1>9, <2>1, <2>4 DEF Code
  <2>6. /\ code \in Seq(Digits) /\ Len(code) = pos + size + (length - pos)
        /\ SubSeq(code, 1, pos) = a
        /\ SubSeq(code, pos + 1, pos + size) = tag
        /\ SubSeq(code, pos + size + 1, Len(code)) = b
    <3>0. a \in Seq(Digits) /\ tag \in Seq(Digits) /\ b \in Seq(Digits)
      BY <1>7, <2>3
    <3>1. LET c == a \o tag \o b
          IN /\ c \in Seq(Digits) /\ Len(c) = Len(a) + Len(tag) + Len(b)
             /\ SubSeq(c, 1, Len(a)) = a
             /\ SubSeq(c, Len(a) + 1, Len(a) + Len(tag)) = tag
             /\ SubSeq(c, Len(a) + Len(tag) + 1, Len(a) + Len(tag) + Len(b)) = b
      BY <3>0, PutTogether
    <3>2. /\ code \in Seq(Digits) /\ Len(code) = pos + size + (length - pos)
          /\ SubSeq(code, 1, pos) = a
          /\ SubSeq(code, pos + 1, pos + size) = tag
          /\ SubSeq(code, pos + size + 1, pos + size + (length - pos)) = b
      BY <1>7, <2>3, <2>5, <3>1
    <3> QED BY <3>2
  <2>7. Len(code) = length + size
    BY <1>2, <2>2, <2>6
  <2> QED BY <1>1, <1>5, <1>7, <1>9, <2>1, <2>3, <2>4, <2>6, <2>7 DEF WellFormed
<1> QED BY <1>8, <1>9

-----------------------------------------------------------------------------
(* sorted() returns the codes it is given.                                   *)

LEMMA LeastOf ==
    ASSUME NEW D, D \subseteq Nat, D # {}
    PROVE  \E m \in D : \A k \in D : m <= k
<1>1. PICK T : T = {0 .. i : i \in D}
  OBVIOUS
<1>2. T \subseteq FiniteSubsetsOf(Nat) /\ T # {}
  <2>1. ASSUME NEW i \in D PROVE 0 .. i \in SUBSET Nat /\ IsFiniteSet(0 .. i)
    BY FS_Interval
  <2> QED BY <1>1, <2>1 DEF FiniteSubsetsOf
<1>3. IsWellFoundedOn(StrictSubsetOrdering(Nat), FiniteSubsetsOf(Nat))
  BY FS_StrictSubsetOrderingWellFounded
<1>4. PICK x \in T : \A y \in T : ~ (<<y, x>> \in StrictSubsetOrdering(Nat))
  BY <1>2, <1>3, WFMin
<1>5. PICK m \in D : x = 0 .. m
  BY <1>1
<1>6. ASSUME NEW k \in D, k < m PROVE FALSE
  <2>1. /\ 0 .. k \in T /\ 0 .. k \subseteq 0 .. m /\ 0 .. k # 0 .. m
        /\ 0 .. k \in SUBSET Nat /\ 0 .. m \in SUBSET Nat
    <3>1. m \in 0 .. m /\ m \notin 0 .. k /\ k \in Nat /\ m \in Nat
      BY <1>6
    <3> QED BY <1>1, <1>6, <3>1
  <2>2. <<0 .. k, 0 .. m>> \in StrictSubsetOrdering(Nat)
    BY <2>1 DEF StrictSubsetOrdering
  <2> QED BY <1>4, <1>5, <2>1, <2>2
<1> QED BY <1>6

(* Codes of one length are ordered by their first different digit.           *)
LEMMA BeforeAt ==
    ASSUME NEW size \in Nat, NEW a \in [1 .. size -> Digits], NEW b \in [1 .. size -> Digits]
    PROVE  Before(a, b) <=>
             \E i \in 1 .. size : a[i] < b[i] /\ \A j \in 1 .. i - 1 : a[j] = b[j]
<1>1. Len(a) = size /\ Len(b) = size /\ DOMAIN a = 1 .. size /\ DOMAIN b = 1 .. size
  OBVIOUS
<1> QED BY <1>1 DEF Before

LEMMA BeforeOrders ==
    ASSUME NEW size \in Nat, NEW a \in [1 .. size -> Digits], NEW b \in [1 .. size -> Digits]
    PROVE  /\ ~Before(a, a)
           /\ a # b => Before(a, b) \/ Before(b, a)
           /\ \A c \in [1 .. size -> Digits] : Before(a, b) /\ Before(b, c) => Before(a, c)
<1>1. \A i \in 1 .. size : a[i] \in Nat /\ b[i] \in Nat
  <2>1. \A i \in 1 .. size : a[i] \in Digits /\ b[i] \in Digits
    OBVIOUS
  <2>2. \A x \in Digits : x \in Nat
    BY DEF Digits
  <2> QED BY <2>1, <2>2
<1>2. ~Before(a, a)
  BY <1>1, BeforeAt
<1>3. ASSUME a # b PROVE Before(a, b) \/ Before(b, a)
  <2>1. PICK D : D = {i \in 1 .. size : a[i] # b[i]}
    OBVIOUS
  <2>2. D # {} /\ D \subseteq Nat
    BY <1>3, <2>1
  <2>3. PICK m \in D : \A k \in D : m <= k
    BY <2>2, LeastOf
  <2>4. m \in 1 .. size /\ a[m] # b[m]
    BY <2>1
  <2>5. \A j \in 1 .. m - 1 : a[j] = b[j] /\ b[j] = a[j]
    <3>1. ASSUME NEW j \in 1 .. m - 1, a[j] # b[j] PROVE FALSE
      <4>1. j \in 1 .. size /\ ~(m <= j)
        BY <2>4
      <4> QED BY <2>1, <2>3, <3>1, <4>1
    <3> QED BY <3>1
  <2>6. a[m] < b[m] \/ b[m] < a[m]
    BY <1>1, <2>4
  <2> QED BY <2>4, <2>5, <2>6, BeforeAt
<1>4. ASSUME NEW c \in [1 .. size -> Digits], Before(a, b), Before(b, c)
      PROVE  Before(a, c)
  <2>1. PICK i \in 1 .. size : a[i] < b[i] /\ \A j \in 1 .. i - 1 : a[j] = b[j]
    BY <1>4, BeforeAt
  <2>2. PICK k \in 1 .. size : b[k] < c[k] /\ \A j \in 1 .. k - 1 : b[j] = c[j]
    BY <1>4, BeforeAt
  <2>3. \A j \in 1 .. size : c[j] \in Nat
    <3>1. \A j \in 1 .. size : c[j] \in Digits
      BY <1>4
    <3>2. \A x \in Digits : x \in Nat
      BY DEF Digits
    <3> QED BY <3>1, <3>2
  <2>4. PICK m : m = IF i <= k THEN i ELSE k
    OBVIOUS
  <2>5. m \in 1 .. size
    BY <2>4
  <2>6. a[m] < c[m]
    <3>1. CASE i < k
      <4>1. i \in 1 .. k - 1
        BY <3>1
      <4> QED BY <2>1, <2>2, <2>4, <3>1, <4>1
    <3>2. CASE i = k
      <4>1. a[m] < b[m] /\ b[m] < c[m] /\ m = i
        BY <2>1, <2>2, <2>4, <3>2
      <4> QED BY <1>1, <2>3, <2>5, <4>1
    <3>3. CASE k < i
      <4>1. k \in 1 .. i - 1 /\ m = k
        BY <2>4, <3>3
      <4> QED BY <2>1, <2>2, <4>1
    <3> QED BY <3>1, <3>2, <3>3
  <2>7. \A j \in 1 .. m - 1 : a[j] = c[j]
    <3>1. \A j \in 1 .. m - 1 : j \in 1 .. i - 1 /\ j \in 1 .. k - 1
      BY <2>4
    <3> QED BY <2>1, <2>2, <3>1
  <2> QED BY <2>5, <2>6, <2>7, BeforeAt
<1> QED BY <1>2, <1>3, <1>4

(* Each of the codes has its own number of codes before it.                  *)
LEMMA SortedKeeps ==
    ASSUME NEW size \in Nat, NEW S, S \subseteq [1 .. size -> Digits], IsFiniteSet(S)
    PROVE  Sorted(S) \in Seq(S)
<1>1. PICK n : n = Cardinality(S)
  OBVIOUS
<1>2. n \in Nat
  BY <1>1, FS_CardinalityType
<1>3. PICK smaller : smaller = [code \in S |-> {other \in S : Before(other, code)}]
  OBVIOUS
<1>4. PICK rank : rank = [code \in S |-> Cardinality(smaller[code])]
  OBVIOUS
<1>5. ASSUME NEW a \in S
      PROVE  /\ smaller[a] \in SUBSET S /\ IsFiniteSet(smaller[a])
             /\ a \notin smaller[a] /\ rank[a] \in 0 .. n - 1
  <2>1. smaller[a] \in SUBSET S /\ a \notin smaller[a]
    BY <1>3, BeforeOrders
  <2>2. IsFiniteSet(smaller[a]) /\ IsFiniteSet(smaller[a] \union {a})
        /\ Cardinality(smaller[a] \union {a}) = Cardinality(smaller[a]) + 1
        /\ Cardinality(smaller[a]) \in Nat
    BY <2>1, FS_Subset, FS_AddElement, FS_CardinalityType
  <2>3. Cardinality(smaller[a] \union {a}) <= n
    BY <1>1, <2>1, FS_Subset
  <2> QED BY <1>2, <1>4, <2>1, <2>2, <2>3
<1>6. ASSUME NEW a \in S, NEW b \in S, Before(a, b)
      PROVE  rank[a] < rank[b]
  <2>1. smaller[a] \union {a} \subseteq smaller[b]
    <3>1. \A c \in S : Before(c, a) => Before(c, b)
      BY <1>6, BeforeOrders
    <3> QED BY <1>3, <1>6, <3>1
  <2>2. Cardinality(smaller[a] \union {a}) = Cardinality(smaller[a]) + 1
    BY <1>5, FS_AddElement
  <2>3. Cardinality(smaller[a] \union {a}) <= Cardinality(smaller[b])
    BY <1>5, <2>1, FS_Subset
  <2>4. rank[a] \in 0 .. n - 1 /\ rank[a] = Cardinality(smaller[a])
        /\ rank[b] \in 0 .. n - 1 /\ rank[b] = Cardinality(smaller[b])
    BY <1>4, <1>5
  <2> QED BY <1>2, <2>2, <2>3, <2>4
<1>7. rank \in Injection(S, 0 .. n - 1)
  <2>1. rank \in [S -> 0 .. n - 1]
    BY <1>4, <1>5
  <2>2. ASSUME NEW a \in S, NEW b \in S, a # b PROVE rank[a] # rank[b]
    <3>1. Before(a, b) \/ Before(b, a)
      BY <2>2, BeforeOrders
    <3>2. rank[a] \in Int /\ rank[b] \in Int
      BY <1>2, <1>5
    <3> QED BY <1>6, <3>1, <3>2
  <2> QED BY <2>1, <2>2 DEF Injection, IsInjective
<1>8. rank \in Surjection(S, 0 .. n - 1)
  <2>1. IsFiniteSet(0 .. n - 1) /\ Cardinality(0 .. n - 1) = n
    <3>1. 0 \in Int /\ n - 1 \in Int /\ (IF 0 > n - 1 THEN 0 ELSE n - 1 - 0 + 1) = n
      BY <1>2
    <3> QED BY <3>1, FS_Interval
  <2> QED BY <1>1, <1>7, <2>1, FS_Injection
<1>9. ASSUME NEW i \in 1 .. n PROVE Sorted(S)[i] \in S
  <2>1. i - 1 \in 0 .. n - 1
    BY <1>2
  <2>2. PICK code \in S : rank[code] = i - 1
    BY <1>8, <2>1 DEF Surjection
  <2>3. Cardinality({other \in S : Before(other, code)}) = i - 1
    BY <1>3, <1>4, <2>2
  <2>4. Sorted(S)[i] = CHOOSE c \in S : Cardinality({other \in S : Before(other, c)}) = i - 1
    BY <1>1 DEF Sorted
  <2> QED BY <2>3, <2>4
<1>10. Sorted(S) \in [1 .. n -> S]
  <2> DEFINE e(i) == CHOOSE code \in S : Cardinality({other \in S : Before(other, code)}) = i - 1
  <2>1. Sorted(S) = [i \in 1 .. n |-> e(i)]
    BY <1>1, Zenon DEF Sorted
  <2> HIDE DEF e
  <2>2. \A i \in 1 .. n : e(i) \in S
    BY <1>9, <2>1
  <2> QED BY <2>1, <2>2
<1> QED BY <1>2, <1>10, SeqDef

-----------------------------------------------------------------------------
(* Every voucher has a code made for the body its batch was asked for with.  *)
RowFits(row) == row.batch \in DOMAIN batches /\ row.payload = batches[row.batch].payload

CodesFit ==
    /\ \A v \in vouchers : v.code \in CodesFor[batches[v.batch].payload]
    /\ \A h \in Request : Inserting(h) => request[h].todo \in Seq(CodesFor[request[h].payload])
    /\ \A i \in DOMAIN audit["generate"] : RowFits(audit["generate"][i])

(* The rows of the audit log are as they were, but for their ends.           *)
SameRows ==
    \A i \in DOMAIN audit'["generate"] :
       /\ i \in DOMAIN audit["generate"]
       /\ audit'["generate"][i].batch = audit["generate"][i].batch
       /\ audit'["generate"][i].payload = audit["generate"][i].payload

LEMMA CodesMade ==
    ASSUME NEW p \in Payload
    PROVE  /\ \A code \in CodesFor[p] : WellFormed(p, code)
           /\ \E size \in Nat : CodesFor[p] \subseteq [1 .. size -> Digits]
<1>1. PICK size : size = p.length + (IF p.label = None THEN 0 ELSE p.label_length)
  OBVIOUS
<1>2. size \in Nat
  <2>1. p.length \in Nat /\ p.label_length \in Nat
    BY PayloadAssumption
  <2> QED BY <1>1, <2>1
<1>3. ASSUME NEW code \in CodesFor[p]
      PROVE  WellFormed(p, code) /\ code \in Seq(Digits) /\ Len(code) = size
  <2>1. ~ Unmakeable(p) /\ code \in {Code(p, bytes) : bytes \in Random(TokenBytes(p.length))}
    BY <1>3 DEF CodesFor, Codes
  <2>2. PICK bytes \in Random(TokenBytes(p.length)) : code = Code(p, bytes)
    BY <2>1
  <2> QED BY <1>1, <2>1, <2>2, CodeMade
<1>4. \A code \in CodesFor[p] : code \in [1 .. size -> Digits]
  <2>1. ASSUME NEW code \in Seq(Digits), Len(code) = size PROVE code \in [1 .. size -> Digits]
    BY <2>1
  <2> QED BY <1>3, <2>1
<1> QED BY <1>2, <1>3, <1>4

LEMMA DrawnSorted ==
    ASSUME NEW h \in Request, request[h].payload \in Payload, NEW candidates \in Drawn(h)
    PROVE  Sorted(candidates) \in Seq(CodesFor[request[h].payload])
<1>1. PICK p : p = request[h].payload
  OBVIOUS
<1>2. candidates \in SUBSET CodesFor[p]
  BY <1>1 DEF Drawn, kSubset
<1>3. IsFiniteSet(candidates)
  BY <1>1, <1>2, CodesFinite, FS_Subset
<1>4. PICK size \in Nat : CodesFor[p] \subseteq [1 .. size -> Digits]
  BY <1>1, CodesMade
<1>5. Sorted(candidates) \in Seq(candidates)
  BY <1>2, <1>3, <1>4, SortedKeeps
<1>6. \A C, s : C \subseteq CodesFor[p] /\ s \in Seq(C) => s \in Seq(CodesFor[p])
  OBVIOUS
<1> QED BY <1>1, <1>2, <1>5, <1>6

(* A step that takes nothing from a batch's body, where what is new fits.    *)
LEMMA CodesStay ==
    ASSUME AdminInv, CodesFit, NEW h \in Request, NEW r,
           request' = [request EXCEPT ![h] = r],
           r.phase = "inserting" => r.todo \in Seq(CodesFor[r.payload]),
           \A b \in DOMAIN batches : /\ b \in DOMAIN batches'
                                     /\ batches'[b].payload = batches[b].payload,
           \A v \in vouchers' : \/ v \in vouchers
                                \/ /\ v.batch \in DOMAIN batches
                                   /\ v.code \in CodesFor[batches[v.batch].payload],
           SameRows \/ \A i \in DOMAIN audit'["generate"] : RowFits(audit'["generate"][i])
    PROVE  CodesFit'
<1>1. ASSUME NEW v \in vouchers' PROVE v.code \in CodesFor[batches'[v.batch].payload]
  <2>1. v.batch \in DOMAIN batches /\ v.code \in CodesFor[batches[v.batch].payload]
    BY <1>1 DEF CodesFit, AdminInv, VouchersKept
  <2> QED BY <2>1
<1>2. \A g \in Request : request'[g] = IF g = h THEN r ELSE request[g]
  BY DEF AdminInv, RowsTyped
<1>3. ASSUME NEW g \in Request, request'[g].phase = "inserting"
      PROVE  request'[g].todo \in Seq(CodesFor[request'[g].payload])
  BY <1>2, <1>3 DEF CodesFit, Inserting
<1>4. ASSUME NEW i \in DOMAIN audit'["generate"] PROVE RowFits(audit["generate"][i])'
  <2>1. PICK row : row = audit'["generate"][i]
    OBVIOUS
  <2>2. row.batch \in DOMAIN batches /\ row.payload = batches[row.batch].payload
    BY <1>4, <2>1 DEF CodesFit, RowFits, SameRows
  <2> QED BY <2>1, <2>2 DEF RowFits
<1> QED BY <1>1, <1>3, <1>4 DEF CodesFit, Inserting, CodesFor

LEMMA OtherCodes ==
    ASSUME AdminInv, CodesFit, NEW h \in Request, NEW r,
           request' = [request EXCEPT ![h] = r], r.phase # "inserting",
           UNCHANGED <<vouchers, batches>>, audit'["generate"] = audit["generate"]
    PROVE  CodesFit'
<1>1. SameRows
  BY DEF SameRows
<1> QED BY <1>1, CodesStay

LEMMA GenerateBeginCodes ==
    ASSUME AdminInv, CodesFit, NEW h \in Request, NEW p \in Payload, GenerateBegin(h, p)
    PROVE  CodesFit'
<1>1. PICK r : r = [phase |-> "drawing", payload |-> p, batch |-> Len(batches) + 1,
                    inserted |-> 0, todo |-> <<>>, log |-> 0]
  OBVIOUS
<1>2. PICK new : new = [payload |-> p, state |-> "open"]
  OBVIOUS
<1>3. /\ request' = [request EXCEPT ![h] = r] /\ UNCHANGED <<vouchers, audit>>
      /\ batches' = Append(batches, new)
  BY <1>1, <1>2 DEF GenerateBegin, Begin
<1>4. r.phase # "inserting"
  BY <1>1
<1>5. \A b \in DOMAIN batches : b \in DOMAIN batches' /\ batches'[b] = batches[b]
  BY <1>3 DEF AdminInv, RowsTyped
<1>6. SameRows
  BY <1>3 DEF SameRows
<1> QED BY <1>3, <1>4, <1>5, <1>6, CodesStay

LEMMA DrawCodesCodes ==
    ASSUME AdminInv, CountsFit, CodesFit, NEW h \in Request, NEW candidates,
           DrawCodes(h, candidates)
    PROVE  CodesFit'
<1>1. PICK r : r = [request[h] EXCEPT !.phase = "inserting", !.todo = Sorted(candidates)]
  OBVIOUS
<1>2. Generating(h)
  BY DEF DrawCodes, Drawing, Generating
<1>3. r.todo = Sorted(candidates) /\ r.payload = request[h].payload
  BY <1>1, <1>2, OpenBatch DEF GenerateFields
<1>4. r.todo \in Seq(CodesFor[r.payload])
  BY <1>2, <1>3, PayloadOf, DrawnSorted DEF DrawCodes
<1>5. request' = [request EXCEPT ![h] = r] /\ UNCHANGED <<vouchers, batches, audit>>
  BY <1>1 DEF DrawCodes, To, tables
<1>6. SameRows
  BY <1>5 DEF SameRows
<1> QED BY <1>4, <1>5, <1>6, CodesStay

LEMMA InsertRowCodes ==
    ASSUME AdminInv, CountsFit, CodesFit, NEW h \in Request, InsertRow(h)
    PROVE  CodesFit'
<1>1. PICK mine, todo, p : mine = request[h].batch /\ todo = request[h].todo
                           /\ p = request[h].payload
  OBVIOUS
<1>2. PICK own : own = {v \in vouchers' : v.batch = mine}
  OBVIOUS
<1>3. PICK code, rest : code = Head(todo) /\ rest = Tail(todo)
  OBVIOUS
<1>4. PICK r : r = IF rest # <<>> THEN [request[h] EXCEPT !.todo = rest]
                   ELSE [request[h] EXCEPT !.todo = rest, !.phase = "drawing",
                                           !.inserted = Cardinality(own)]
  OBVIOUS
<1>5. Inserting(h) /\ Generating(h)
  BY DEF InsertRow, Inserting, Generating
<1>6. /\ vouchers' = IF Stored(code) # {} THEN vouchers
                     ELSE vouchers \union {[code |-> code, batch |-> mine]}
      /\ request' = [request EXCEPT ![h] = r] /\ UNCHANGED <<batches, audit>>
  BY <1>1, <1>2, <1>3, <1>4 DEF InsertRow, To
<1>7. /\ mine \in DOMAIN batches /\ DOMAIN request[h] = GenerateFields
      /\ p = batches[mine].payload /\ todo # <<>>
  BY <1>1, <1>5, OpenBatch DEF CountsFit, GenerateFits
<1>8. todo \in Seq(CodesFor[p])
  BY <1>1, <1>5 DEF CodesFit
<1>9. code \in CodesFor[p] /\ rest \in Seq(CodesFor[p])
  BY <1>3, <1>7, <1>8
<1>10. r.payload = p /\ r.todo = rest
  BY <1>1, <1>4, <1>7 DEF GenerateFields
<1>11. \A v \in vouchers' : \/ v \in vouchers
                            \/ /\ v.batch \in DOMAIN batches
                               /\ v.code \in CodesFor[batches[v.batch].payload]
  BY <1>6, <1>7, <1>9
<1>12. SameRows
  BY <1>6 DEF SameRows
<1>13. r.phase = "inserting" => r.todo \in Seq(CodesFor[r.payload])
  BY <1>9, <1>10
<1> QED BY <1>6, <1>11, <1>12, <1>13, CodesStay

LEMMA SetState ==
    ASSUME AdminInv, NEW mine \in DOMAIN batches, NEW s \in {"committed", "none"},
           batches' = [batches EXCEPT ![mine].state = s]
    PROVE  \A b \in DOMAIN batches : /\ b \in DOMAIN batches'
                                     /\ batches'[b].payload = batches[b].payload
<1>1. DOMAIN batches' = DOMAIN batches
  BY DEF AdminInv, RowsTyped
<1>2. ASSUME NEW b \in DOMAIN batches PROVE batches'[b].payload = batches[b].payload
  <2>1. batches[b] \in BatchRow
    BY DEF AdminInv, RowsTyped
  <2>2. batches'[b] = IF b = mine THEN [batches[b] EXCEPT !.state = s] ELSE batches[b]
    BY DEF AdminInv, RowsTyped
  <2> QED BY <2>1, <2>2 DEF BatchRow
<1> QED BY <1>1, <1>2

LEMMA GenerateLogCodes ==
    ASSUME AdminInv, CountsFit, CodesFit, NEW h \in Request, GenerateLog(h)
    PROVE  CodesFit'
<1>1. PICK mine, p : mine = request[h].batch /\ p = request[h].payload
  OBVIOUS
<1>2. PICK new, n : /\ new = [batch |-> mine, payload |-> p, state |-> "open"]
                    /\ n = LogId("generate")
  OBVIOUS
<1>3. PICK r : r = [request[h] EXCEPT !.phase = "logged", !.log = n]
  OBVIOUS
<1>4. Generating(h)
  BY DEF GenerateLog, Drawing, Generating
<1>5. mine \in DOMAIN batches /\ p = batches[mine].payload /\ p \in Payload
  BY <1>1, <1>4, OpenBatch DEF CountsFit, GenerateFits
<1>6. /\ request' = [request EXCEPT ![h] = r] /\ Log("generate", new)
      /\ UNCHANGED <<vouchers, batches>>
  BY <1>1, <1>2, <1>3 DEF GenerateLog, To
<1>7. r.phase # "inserting"
  BY <1>3, <1>4, OpenBatch DEF GenerateFields
<1>8. new \in LogRow("generate") /\ "generate" \in Logs
  <2>1. mine \in Nat
    BY <1>5 DEF AdminInv, RowsTyped
  <2> QED BY <1>2, <1>5, <2>1 DEF LogRow, GenerateLogRow, RowState, Logs
<1>9. /\ DOMAIN audit'["generate"] = DOMAIN audit["generate"] \union {n}
      /\ audit'["generate"][n] = new
      /\ \A i \in DOMAIN audit["generate"] : audit'["generate"][i] = audit["generate"][i]
  BY <1>2, <1>6, <1>8, AuditLogs
<1>10. RowFits(new)
  BY <1>2, <1>5 DEF RowFits
<1>11. \A i \in DOMAIN audit'["generate"] : RowFits(audit'["generate"][i])
  BY <1>9, <1>10 DEF CodesFit
<1> QED BY <1>6, <1>7, <1>11, CodesStay

LEMMA EndCodes ==
    ASSUME AdminInv, CodesFit, NEW h \in Request, Generating(h),
           NEW s \in {"committed", "none"}, EndBatch(h, s),
           request' = [request EXCEPT ![h] = Idle], vouchers' \subseteq vouchers
    PROVE  CodesFit'
<1>1. PICK mine, id : mine = request[h].batch /\ id = request[h].log
  OBVIOUS
<1>2. mine \in DOMAIN batches
  BY <1>1, OpenBatch
<1>3. /\ batches' = [batches EXCEPT ![mine].state = s]
      /\ audit' = [audit EXCEPT !["generate"] = Settled(@, id, s)]
  BY <1>1 DEF EndBatch
<1>4. Ended({"batch", "payload"}, audit["generate"], audit'["generate"], id, s)
  <2>1. "generate" \in Logs /\ s \in RowState
    BY DEF Logs, RowState
  <2> QED BY <1>3, <2>1, AuditSettles DEF RowFields
<1>5. SameRows
  BY <1>4 DEF SameRows, Ended
<1>6. Idle.phase # "inserting"
  BY DEF Idle
<1> QED BY <1>2, <1>3, <1>5, <1>6, SetState, CodesStay

LEMMA CodesKept ==
    ASSUME AdminInv, CountsFit, CodesFit, [AdminNext]_vars
    PROVE  CodesFit'
<1>1. CASE UNCHANGED vars
  BY <1>1 DEF vars, CodesFit, RowFits, Inserting, CodesFor
<1>2. ASSUME NEW h \in Request, ChangeStep(h) PROVE CodesFit'
  BY <1>2, ChangeSteps, OtherCodes DEF Generates
<1>3. ASSUME NEW h \in Request, GenerateStep(h) PROVE CodesFit'
  <2>1. CASE Generating(h) /\ Undo(h) /\ request' = [request EXCEPT ![h] = Idle]
    BY <2>1, EndCodes DEF Undo
  <2>2. CASE GenerateCommit(h)
    BY <2>2, EndCodes DEF GenerateCommit, To, Generating
  <2> QED BY <1>3, <2>1, <2>2, GenerateSteps, GenerateBeginCodes, DrawCodesCodes,
            InsertRowCodes, GenerateLogCodes
<1> QED BY <1>1, <1>2, <1>3, TwoKinds

(* The codes of a batch are random digits and, where the audit row names a   *)
(* label, exactly that label's tag at the place recorded, so that the batch  *)
(* can be told by its label (_encode_crockford32, generate_voucher_codes).   *)
THEOREM CodesDecodable == AdminSpec => []CodesWellFormed
<1>1. AdminInit => CodesFit
  BY DEF AdminInit, CodesFit, Inserting, Idle
<1>2. AdminInv /\ CountsFit /\ CodesFit /\ [AdminNext]_vars => CodesFit'
  BY CodesKept
<1>3. AdminInv /\ CodesFit => CodesWellFormed
  <2> SUFFICES ASSUME AdminInv, CodesFit, NEW row \in Logged("generate"),
                      NEW v \in Batch(row.batch)
               PROVE  v.code \in LabelledCodes[row.payload]
    BY DEF CodesWellFormed
  <2>1. row.batch \in DOMAIN batches /\ row.payload = batches[row.batch].payload
    BY DEF CodesFit, RowFits, Logged, Kept
  <2>2. batches[row.batch] \in BatchRow
    BY <2>1 DEF AdminInv, RowsTyped
  <2>3. row.payload \in Payload
    BY <2>1, <2>2 DEF BatchRow
  <2>4. v.code \in CodesFor[row.payload]
    BY <2>1 DEF Batch, CodesFit
  <2> QED BY <2>3, <2>4, CodesMade DEF LabelledCodes
<1> QED BY <1>1, <1>2, <1>3, AdminInvariant, CountsAlways, PTL DEF AdminSpec

=============================================================================
