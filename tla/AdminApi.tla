------------------------------ MODULE AdminApi ------------------------------
(***************************************************************************)
(* The admin API's requests that write (mintcode_api/routes_admin.py):     *)
(* generating a batch of vouchers, storing a SKU's provider configuration, *)
(* creating, enabling and disabling developer keys; each with its row in   *)
(* the audit log (audit.py), in one transaction.                           *)
(*                                                                         *)
(* The handlers run in threads, and the session (autoflush is off, db.py)  *)
(* sends what a request has changed at its commit, a statement at a time   *)
(* and table by table: the row of the audit log, the changed row, the row  *)
(* of the history, COMMIT. An inserted row takes its id there and then; an *)
(* UPDATE names the columns that differ from what was selected, and locks  *)
(* its row; where none differs nothing is sent and nothing locked. A batch *)
(* is inserted voucher by voucher while other batches are: a row whose     *)
(* code another open transaction has inserted makes the INSERT wait.       *)
(***************************************************************************)
EXTENDS Vouchers, FiniteSetsExt

CONSTANTS
    Request,     \* requests served at a time
    Payload,     \* bodies of a request to generate vouchers
    DevKey,      \* developer keys that may be created
    Config,      \* configurations an admin may store, as records of fields
    MaxRequests, \* requests in all: a bound
    MaxFailures  \* transactions lost to a crash or a lock timeout: a bound

ASSUME BoundAssumption == MaxRequests \in Nat /\ MaxFailures \in Nat
ASSUME NoneAssumption == None \notin BOOLEAN

VARIABLES
    vouchers,  \* rows of vouchers, those of open transactions included
    batches,   \* voucher_batches by id: the request's body, and whether committed
    config,    \* the SKU's row of sku_provider_configs
    history,   \* rows of sku_provider_config_histories, by id
    enabled,   \* developer_keys, by key: its enabled column
    audit,     \* audit_logs: the rows of each action, in the order of their ids
    request,   \* how far each request has come
    served,    \* history: requests begun
    overlapped,\* history: by number, the requests for a key that met another one
    failures   \* history: transactions lost

vars == <<vouchers, batches, config, history, enabled, audit, request, served, overlapped,
          failures>>

tables == <<vouchers, batches, config, history, enabled, audit>>

Idle == [phase |-> "idle"]

AdminInit ==
    /\ vouchers = {} /\ batches = <<>>
    /\ config = None
    /\ history = <<>>
    /\ enabled = [k \in DevKey |-> None]
    /\ audit = [action \in {"generate", "upsert", "key"} |-> <<>>]
    /\ request = [h \in Request |-> Idle]
    /\ served = 0 /\ overlapped = {} /\ failures = 0

Begin(h, state) ==
    /\ request[h] = Idle /\ served < MaxRequests
    /\ served' = served + 1
    /\ request' = [request EXCEPT ![h] = state]
    /\ UNCHANGED failures

To(h, state) ==
    /\ request' = [request EXCEPT ![h] = state]
    /\ UNCHANGED <<served, overlapped, failures>>

(* add_audit_log: a row in the request's own transaction, open until that    *)
(* ends. Its place is its id, which is used up also when it is rolled back.  *)
Log(action, row) == audit' = [audit EXCEPT ![action] = Append(@, row)]
LogId(action) == Len(audit[action]) + 1

(* The row with that id, if the request has inserted it, gets its end.       *)
Settled(rows, id, state) ==
    [i \in DOMAIN rows |-> IF i = id THEN [rows[i] EXCEPT !.state = state] ELSE rows[i]]

-----------------------------------------------------------------------------
(* POST /admin/vouchers/generate.                                            *)

CodesFor == [p \in Payload |-> Codes(p)]

(* What AdminGenerateVouchersRequest lets pass, and what the generator can   *)
(* rely on: token_bytes returns as many bytes as asked for, and a digest has *)
(* more digits than a tag may have.                                          *)
ASSUME PayloadAssumption ==
    \A p \in Payload :
        /\ p.count \in Nat \ {0} /\ p.length \in Nat \ {0}
        /\ p.label_length \in Nat \ {0} /\ p.label_pos \in Nat
        /\ IsFiniteSet(Random(TokenBytes(p.length)))
        /\ Random(TokenBytes(p.length)) \subseteq [1 .. TokenBytes(p.length) -> Byte]
        /\ p.label \notin {None, ""} =>
             /\ Mac(p.label) \in Seq(Byte)
             /\ p.label_length <= (8 * Len(Mac(p.label)) + 4) \div 5

Generating(h) == request[h].phase \in {"drawing", "inserting", "logged"}
Own(h) == {v \in vouchers : v.batch = request[h].batch}

(* Random codes do not run out: of one length, as many may be asked for as   *)
(* can be drawn.                                                             *)
Rivals(p) == {b \in DOMAIN batches : /\ batches[b].state # "none"
                                     /\ batches[b].payload.length = p.length}
Room(p) ==
    \/ Unmakeable(p)
    \/ MapThenSumSet(LAMBDA b : batches[b].payload.count, Rivals(p)) + p.count
         <= Cardinality(CodesFor[p])

(* The id is taken at the flush, and lost if the transaction is.             *)
GenerateBegin(h, p) ==
    LET id == Len(batches) + 1
    IN /\ Room(p)
       /\ Begin(h, [phase |-> "drawing", payload |-> p, batch |-> id,
                   inserted |-> 0, todo |-> <<>>, log |-> 0])
       /\ batches' = Append(batches, [payload |-> p, state |-> "open"])
       /\ UNCHANGED <<vouchers, config, history, enabled, audit, overlapped>>

Need(h) == request[h].payload.count - request[h].inserted

(* Fault: every round asks for the whole count again.                        *)
DrawnWhole(h) == kSubset(request[h].payload.count, CodesFor[request[h].payload])

(* Fault: the generator is seeded, each round returns codes of the same few. *)
DrawnSeeded(h) ==
    LET p == request[h].payload
    IN kSubset(Need(h), ToSet(Cut(Sorted(CodesFor[p]), p.count)))

(* What generate_voucher_codes may return: as many different codes as asked. *)
Drawn(h) == kSubset(Need(h), CodesFor[request[h].payload])

Drawing(h) == request[h].phase = "drawing"

DrawCodes(h, candidates) ==
    /\ Drawing(h) /\ Need(h) > 0 /\ candidates \in Drawn(h)
    /\ To(h, [request[h] EXCEPT !.phase = "inserting", !.todo = Sorted(candidates)])
    /\ UNCHANGED tables

(* INSERT IGNORE, one row after the other. After the last the batch's rows   *)
(* are counted, which no other transaction touches.                          *)
Inserting(h) == request[h].phase = "inserting"
Stored(code) == {v \in vouchers : v.code = code}
WaitsFor(h) ==
    IF Inserting(h)
      THEN {v.batch : v \in {u \in Stored(request[h].todo[1]) :
                               u.batch # request[h].batch /\ batches[u.batch].state = "open"}}
      ELSE {}

InsertRow(h) ==
    /\ Inserting(h) /\ WaitsFor(h) = {}
    /\ LET code == Head(request[h].todo)
           rest == Tail(request[h].todo)
           own  == {v \in vouchers' : v.batch = request[h].batch}
       IN /\ vouchers' = IF Stored(code) # {} THEN vouchers
                         ELSE vouchers \union {[code |-> code, batch |-> request[h].batch]}
          /\ To(h, IF rest # <<>> THEN [request[h] EXCEPT !.todo = rest]
                   ELSE [request[h] EXCEPT !.todo = rest, !.phase = "drawing",
                                           !.inserted = Cardinality(own)])
    /\ UNCHANGED <<batches, config, history, enabled, audit>>

(* The batch is complete: its audit row, and the commit. The answer lists    *)
(* the codes of the batch, selected after it.                                *)
GenerateLog(h) ==
    /\ Drawing(h) /\ Need(h) <= 0
    /\ Log("generate", [batch |-> request[h].batch, payload |-> request[h].payload,
                        state |-> "open"])
    /\ To(h, [request[h] EXCEPT !.phase = "logged", !.log = LogId("generate")])
    /\ UNCHANGED <<vouchers, batches, config, history, enabled>>

EndBatch(h, state) ==
    /\ batches' = [batches EXCEPT ![request[h].batch].state = state]
    /\ audit' = [audit EXCEPT !["generate"] = Settled(@, request[h].log, state)]
    /\ UNCHANGED <<config, history, enabled>>

GenerateCommit(h) ==
    /\ request[h].phase = "logged"
    /\ EndBatch(h, "committed")
    /\ To(h, Idle)
    /\ UNCHANGED vouchers

(* Fault: the vouchers of a batch that failed stay.                          *)
UndoBatchRow(h) == EndBatch(h, "none") /\ UNCHANGED vouchers

Undo(h) == EndBatch(h, "none") /\ vouchers' = vouchers \ Own(h)

GenerateRaises(h) ==
    /\ request[h].phase = "drawing" /\ Unmakeable(request[h].payload)
    /\ Undo(h) /\ To(h, Idle)

(* Two batches wait for each other: InnoDB rolls one of them back.           *)
Deadlock(h) ==
    /\ \E g \in Request \ {h} :
         /\ Generating(g) /\ request[g].batch \in WaitsFor(h)
         /\ request[h].batch \in WaitsFor(g)
    /\ Undo(h) /\ To(h, Idle)

(* The process dies, or a lock is not had in time: the client may ask again. *)
GenerateLost(h) ==
    /\ Generating(h) /\ failures < MaxFailures
    /\ failures' = failures + 1
    /\ Undo(h)
    /\ request' = [request EXCEPT ![h] = Idle]
    /\ UNCHANGED <<served, overlapped>>

-----------------------------------------------------------------------------
(* Rows that are selected, changed and committed.                            *)

(* How a change goes on from its SELECT. Its phase is the audit log's name   *)
(* for it, by its number; row is what it has written and so locked, log and  *)
(* entry are the ids of its rows in the audit log and the history.           *)
Change(phase, on, wanted, loaded) ==
    [phase |-> phase, step |-> "loaded", on |-> on, wanted |-> wanted, loaded |-> loaded,
     by |-> served + 1, row |-> None, log |-> 0, entry |-> 0]

Changing(h) == request[h].phase \in {"upsert", "key"}
At(h, phase, step) == request[h].phase = phase /\ request[h].step = step

(* Another transaction has written the row, and is open.                     *)
Locked(h) ==
    \E g \in Request \ {h} : /\ Changing(g) /\ request[g].row # None
                            /\ request[g].phase = request[h].phase
                            /\ request[g].on = request[h].on

(* COMMIT or ROLLBACK: what becomes of the rows inserted. Fault: audit rows  *)
(* are committed on their own.                                               *)
EndChangeLogged(h, state) ==
    /\ audit' = [audit EXCEPT ![request[h].phase] = Settled(@, request[h].log, "committed")]
    /\ history' = Settled(history, request[h].entry, state)
    /\ request' = [request EXCEPT ![h] = Idle]
    /\ UNCHANGED <<vouchers, batches, served, overlapped>>

EndChange(h, state) ==
    /\ audit' = [audit EXCEPT ![request[h].phase] = Settled(@, request[h].log, state)]
    /\ history' = Settled(history, request[h].entry, state)
    /\ request' = [request EXCEPT ![h] = Idle]
    /\ UNCHANGED <<vouchers, batches, served, overlapped>>

(* PUT /admin/sku/{sku_id}/provider-config. An UPDATE names the columns      *)
(* whose new value differs from the loaded one, an INSERT all. Fault: so     *)
(* does the UPDATE.                                                          *)
Changed(loaded, wanted) ==
    {f \in DOMAIN wanted : loaded = None \/ wanted[f] # loaded[f]}

UpdatedWhole(row, loaded, wanted) == wanted
Updated(row, loaded, wanted) ==
    [f \in DOMAIN wanted |-> IF f \in Changed(loaded, wanted) THEN wanted[f] ELSE row[f]]

(* Configurations are rows of the same columns, set independently.           *)
ASSUME ConfigAssumption ==
    /\ None \notin Config
    /\ \A c, d \in Config : DOMAIN c = DOMAIN d
    /\ \A row, loaded, wanted \in Config : Updated(row, loaded, wanted) \in Config
    /\ \A c \in Config : c = [f \in DOMAIN c |-> c[f]]

UpsertLoad(h, c) ==
    /\ Begin(h, Change("upsert", "sku", c, config))
    /\ UNCHANGED <<tables, overlapped>>

UpsertLog(h) ==
    /\ At(h, "upsert", "loaded")
    /\ Log("upsert", [config |-> request[h].wanted, by |-> request[h].by, state |-> "open"])
    /\ To(h, [request[h] EXCEPT !.step = "logged", !.log = LogId("upsert")])
    /\ UNCHANGED <<vouchers, batches, config, history, enabled>>

(* The row's own statement, if there is one; it waits for the row's lock.    *)
UpsertRow(h) ==
    /\ At(h, "upsert", "logged")
    /\ LET r == request[h]
       IN IF r.wanted = r.loaded THEN To(h, [r EXCEPT !.step = "stored"])
          ELSE /\ ~Locked(h)
               /\ r.loaded = None => config = None
               /\ To(h, [r EXCEPT !.step = "stored",
                                  !.row = Updated(config, r.loaded, r.wanted)])
    /\ UNCHANGED tables

(* A row that was not there is inserted, and the key is violated if there is *)
(* one by now: everything fails with it.                                     *)
UpsertFails(h) ==
    /\ At(h, "upsert", "logged") /\ ~Locked(h)
    /\ request[h].loaded = None /\ config # None
    /\ EndChange(h, "none")
    /\ UNCHANGED <<config, enabled, failures>>

UpsertHistory(h) ==
    /\ At(h, "upsert", "stored")
    /\ LET r == request[h]
       IN /\ history' = Append(history,
               [config |-> r.wanted, changed |-> Changed(r.loaded, r.wanted), by |-> r.by,
                state |-> "open"])
          /\ To(h, [r EXCEPT !.step = "recorded", !.entry = Len(history) + 1])
    /\ UNCHANGED <<vouchers, batches, config, enabled, audit>>

UpsertCommit(h) ==
    /\ At(h, "upsert", "recorded")
    /\ config' = IF request[h].row = None THEN config ELSE request[h].row
    /\ EndChange(h, "committed")
    /\ UNCHANGED <<enabled, failures>>

(* POST /admin/dev-keys/{dev_key_id}/enable and /disable. From here to their *)
(* commit, requests for the same key overlap.                                *)
OnKey(k) == {g \in Request : request[g].phase = "key" /\ request[g].on = k}
Meets(k) ==
    overlapped' = IF OnKey(k) = {} THEN overlapped
                  ELSE overlapped \union {request[g].by : g \in OnKey(k)} \union {served + 1}

SwitchLoad(h, k, on) ==
    /\ IF enabled[k] = None THEN Begin(h, Idle) /\ UNCHANGED overlapped
       ELSE Begin(h, Change("key", k, on, enabled[k])) /\ Meets(k)
    /\ UNCHANGED tables

(* POST /admin/dev-keys: a fresh random id, inserted where others update.    *)
CreateKey(h, k) ==
    /\ enabled[k] = None /\ OnKey(k) = {}
    /\ Begin(h, Change("key", k, TRUE, None))
    /\ UNCHANGED <<tables, overlapped>>

SwitchLog(h) ==
    /\ At(h, "key", "loaded")
    /\ Log("key", [key |-> request[h].on, enabled |-> request[h].wanted,
                   by |-> request[h].by, state |-> "open"])
    /\ To(h, [request[h] EXCEPT !.step = "logged", !.log = LogId("key")])
    /\ UNCHANGED <<vouchers, batches, config, history, enabled>>

SwitchRow(h) ==
    /\ At(h, "key", "logged")
    /\ LET r == request[h]
       IN IF r.wanted = r.loaded THEN To(h, [r EXCEPT !.step = "stored"])
          ELSE ~Locked(h) /\ To(h, [r EXCEPT !.step = "stored", !.row = r.wanted])
    /\ UNCHANGED tables

SwitchCommit(h) ==
    /\ At(h, "key", "stored")
    /\ enabled' = IF request[h].row = None THEN enabled
                  ELSE [enabled EXCEPT ![request[h].on] = request[h].row]
    /\ EndChange(h, "committed")
    /\ UNCHANGED <<config, failures>>

(* The process dies, or a lock is not had in time.                           *)
ChangeLost(h) ==
    /\ Changing(h) /\ failures < MaxFailures
    /\ failures' = failures + 1
    /\ EndChange(h, "none")
    /\ UNCHANGED <<config, enabled>>

-----------------------------------------------------------------------------
DrawsSome(h) == Drawing(h) /\ \E candidates \in Drawn(h) : DrawCodes(h, candidates)

(* A round that brings at least one code nobody has stored.                  *)
DrawsFresh(h) ==
    /\ Drawing(h)
    /\ \E candidates \in Drawn(h) :
          (\E code \in candidates : Stored(code) = {}) /\ DrawCodes(h, candidates)

(* What follows a draw.                                                      *)
Stores(h) ==
    \/ InsertRow(h) \/ GenerateLog(h) \/ GenerateCommit(h)
    \/ GenerateRaises(h) \/ Deadlock(h)

AdminStep(h) ==
    \/ DrawsSome(h) \/ Stores(h)
    \/ UpsertLog(h) \/ UpsertRow(h) \/ UpsertFails(h) \/ UpsertHistory(h) \/ UpsertCommit(h)
    \/ SwitchLog(h) \/ SwitchRow(h) \/ SwitchCommit(h)

Arrives(h) ==
    \/ \E p \in Payload : GenerateBegin(h, p)
    \/ \E c \in Config : UpsertLoad(h, c)
    \/ \E k \in DevKey : CreateKey(h, k) \/ \E on \in BOOLEAN : SwitchLoad(h, k, on)

AdminNext ==
    \E h \in Request : Arrives(h) \/ AdminStep(h) \/ GenerateLost(h) \/ ChangeLost(h)

(* A handler that runs goes on, and InnoDB finds its deadlocks. Draws are    *)
(* random: they do not miss the codes nobody has for ever.                   *)
AdminSpec ==
    /\ AdminInit /\ [][AdminNext]_vars
    /\ \A h \in Request : WF_vars(Stores(h)) /\ SF_vars(DrawsFresh(h))

-----------------------------------------------------------------------------
Committed == {b \in DOMAIN batches : batches[b].state = "committed"}
Batch(b) == {v \in vouchers : v.batch = b}
Kept(rows) == {i \in DOMAIN rows : rows[i].state = "committed"}
Logged(action) == {audit[action][i] : i \in Kept(audit[action])}

(* A transaction that is open has a batch, and only its own vouchers are     *)
(* there beside the committed ones (the foreign key of vouchers).            *)
RowState == {"open", "committed", "none"}
Columns == UNION {DOMAIN c : c \in Config}
AdminTypeOK ==
    /\ \A v \in vouchers : /\ v.batch \in DOMAIN batches
                           /\ batches[v.batch].state \in {"open", "committed"}
    /\ \A b \in DOMAIN batches :
         /\ batches[b] \in [payload : Payload, state : RowState]
         /\ batches[b].state = "open" <=>
              \E h \in Request : Generating(h) /\ request[h].batch = b
    /\ config \in Config \union {None}
    /\ \A i \in DOMAIN history :
         history[i] \in [config : Config, changed : SUBSET Columns, by : Nat, state : RowState]
    /\ enabled \in [DevKey -> BOOLEAN \union {None}]
    /\ \A h \in Request : request[h].phase \in
         {"idle", "drawing", "inserting", "logged", "upsert", "key"}
    /\ served \in 0 .. MaxRequests /\ failures \in 0 .. MaxFailures

(* The codes of a batch are random digits and, where the audit row names a   *)
(* label, exactly that label's tag at the place recorded: the batch can be   *)
(* told by its label (_encode_crockford32, generate_voucher_codes).          *)
LabelledCodes == [p \in Payload |-> {code \in CodesFor[p] : WellFormed(p, code)}]
CodesWellFormed ==
    \A row \in Logged("generate") : \A v \in Batch(row.batch) :
        v.code \in LabelledCodes[row.payload]

(* No code is in two vouchers, committed or not (the INSERT IGNORE loop).    *)
CodesOnce == \A u, v \in vouchers : u.code = v.code => u = v

(* A batch that is committed, and so its answer, has exactly the count asked *)
(* for, of codes no other batch has, however many rounds, collisions and     *)
(* concurrent batches it took (admin_generate_vouchers).                     *)
BatchExact ==
    /\ \A b \in Committed : Cardinality(Batch(b)) = batches[b].payload.count
    /\ CodesOnce

(* Every column of the configuration in force is as the last row of the      *)
(* history has it, by id, of those whose upsert found another value there    *)
(* when it loaded: whatever upserts ran at once, and although a history row  *)
(* takes its id long before its commit (admin_upsert_sku_provider_config,    *)
(* read in that order by admin_list_sku_provider_config_history).            *)
Writers(f) == {i \in Kept(history) : f \in history[i].changed}
ConfigAsStored ==
    /\ config = None <=> Kept(history) = {}
    /\ config # None =>
         \A f \in DOMAIN config :
            \E last \in Writers(f) : /\ \A i \in Writers(f) : i <= last
                                    /\ history[last].config[f] = config[f]

(* The rows of a request that is committed, and of no other, are in the      *)
(* audit log: one for each batch, one for each row of the configuration's    *)
(* history, and the last one of a key, by id, tells its state, unless that   *)
(* request overlapped another one for the key (add_audit_log).               *)
RowsOf(k) == {i \in Kept(audit["key"]) : audit["key"][i].key = k}
BatchesLogged ==
    /\ Committed = {row.batch : row \in Logged("generate")}
    /\ \A i, j \in Kept(audit["generate"]) :
         audit["generate"][i].batch = audit["generate"][j].batch => i = j
UpsertsLogged ==
    /\ \A i \in Kept(history) : \E j \in Kept(audit["upsert"]) :
         /\ audit["upsert"][j].by = history[i].by
         /\ audit["upsert"][j].config = history[i].config
    /\ \A j \in Kept(audit["upsert"]) : \E i \in Kept(history) :
         history[i].by = audit["upsert"][j].by
    /\ \A i, j \in Kept(history) : history[i].by = history[j].by => i = j
    /\ \A i, j \in Kept(audit["upsert"]) :
         audit["upsert"][i].by = audit["upsert"][j].by => i = j
KeysLogged ==
    \A k \in DevKey :
        IF enabled[k] = None THEN RowsOf(k) = {}
        ELSE \E last \in RowsOf(k) :
               /\ \A i \in RowsOf(k) : i <= last
               /\ \/ audit["key"][last].by \in overlapped
                  \/ audit["key"][last].enabled = enabled[k]
AuditTells == BatchesLogged /\ UpsertsLogged /\ KeysLogged

(* A request to generate comes to its end, whatever is stored already and    *)
(* whoever else generates (the loop of admin_generate_vouchers).             *)
GenerateEnds == \A h \in Request : Generating(h) ~> ~Generating(h)
=============================================================================
