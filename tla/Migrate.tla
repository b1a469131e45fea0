------------------------------ MODULE Migrate ------------------------------
(***************************************************************************)
(* The database migrations (alembic/versions) run beside the API, whose    *)
(* startup compares alembic_version with the code's head (app.py).         *)
(*                                                                         *)
(* MySQL commits at every DDL statement: a revision that is killed or      *)
(* fails leaves what it had done so far, under the old version, and the    *)
(* next "alembic upgrade head" runs it again from its first line. Alembic  *)
(* takes no lock, so that two upgrades may run at once. The revisions are  *)
(* data, a sequence of statements each; the actions run them.              *)
(***************************************************************************)
EXTENDS Integers, Sequences, FiniteSetsExt

CONSTANTS
    Migrator,   \* processes running "alembic upgrade head"
    Key,        \* nonces and idempotency keys that clients present
    None,       \* SQL NULL
    Blank,      \* the hash of the empty string
    MaxKills    \* upgrades that are killed: a bound

ASSUME MigrateAssumption ==
    MaxKills \in Nat /\ None \notin Key /\ Blank \notin Key /\ None # Blank

VARIABLES
    version,    \* alembic_version.version_num, 0: no row
    schema,     \* what has been created, as pairs of a table and a part of it
    rows,       \* the rows of the two tables that revision 6 rewrites
    migrator,   \* how far each upgrade has come
    kills,      \* history: upgrades killed
    api,        \* "old": the code of revision 5, "new": this code, or "down"
    admitted    \* history: how often each key was taken for a new one

vars == <<version, schema, rows, migrator, kills, api, admitted>>

Latest == 7

-----------------------------------------------------------------------------
(* Parts of the schema: a table, a column, an index, a NOT NULL. "key" is    *)
(* the column nonce or idempotency_key, "sha" and "raw" the two columns      *)
(* that replace it.                                                          *)
Table(t) == <<t, "table">>
Keyed == {"developer_nonces", "developer_idempotency_keys"}

KeyedTable(t) ==
    {Table(t), <<t, "key">>, <<t, "key_not_null">>, <<t, "unique_key">>}

Look         == [do |-> "look"]
Create(S)    == [do |-> "create", makes |-> S]   \* whether there already or not
Ensure(S)    == [do |-> "ensure", makes |-> S]   \* unless seen by the last Look
On(op, t)    == [do |-> op, table |-> t]
Column(t, name) == Ensure({<<t, name>>})

(* Fault: a revision that takes the database to be untouched.                *)
Unguarded(S) == <<Look, Create(S)>>
LookedFor(S) == <<Look, Ensure(S)>>

(* The revisions from 0001_baseline on.                                      *)
Revision1 ==
    <<Create({Table("voucher_batches")}), Create({Table("vouchers")}),
      Create({Table("redeem_tasks")}), Create({Table("sku_provider_config_histories")}),
      Create({Table("sku_provider_config_successes")}),
      Create({Table("sku_provider_configs")}),
      Create({Table("redeem_task_provider_states")})>>

Revision2 ==
    <<Look, Column("redeem_tasks", "processing_owner"),
            Column("redeem_tasks", "processing_until")>>

Revision3 ==
    <<Look, Column("redeem_task_provider_states", "buy_attempts"),
            Column("redeem_task_provider_states", "last_buy_attempt_at"),
            Column("redeem_task_provider_states", "buy_inflight_until")>>

Revision4 ==
    <<Look, Column("redeem_tasks", "public_id"), Column("redeem_tasks", "unique_public_id")>>
      \o LookedFor({Table("developer_keys")})
      \o LookedFor(KeyedTable("developer_nonces"))
      \o LookedFor({Table("developer_rate_limits")})
      \o LookedFor(KeyedTable("developer_idempotency_keys"))

Revision5 == LookedFor({Table("audit_logs")})

Rehash(t) ==
    <<Look, Ensure({<<t, "sha">>}), Ensure({<<t, "raw">>}), On("fill", t),
      Look, On("drop", t), Look, On("renew", t), On("require", t)>>
Revision6 == Rehash("developer_nonces") \o Rehash("developer_idempotency_keys")

(* Fault: the index over the hashes keeps the old name.                      *)
IndexHashesOldName(t) == <<Look, On("relax", t), Look, On("renew", t)>>

IndexHashes(t) ==
    <<Look, On("relax", t), Look, Ensure({<<t, "unique_sha">>})>>
Revision7 == IndexHashes("developer_nonces") \o IndexHashes("developer_idempotency_keys")

Script == <<Revision1, Revision2, Revision3, Revision4, Revision5, Revision6, Revision7>>

(* What a revision that only creates leaves behind.                          *)
Made(r) == UNION {Script[r][i].makes : i \in {j \in DOMAIN Script[r] : Script[r][j] # Look}}

(* What the models of the new code read and write (models.py).               *)
Models ==
    (UNION {Made(r) : r \in 1 .. 3}) \union Made(5)
      \union {Table("developer_keys"), Table("developer_rate_limits"),
              <<"redeem_tasks", "public_id">>, <<"redeem_tasks", "unique_public_id">>}
      \union {<<t, part>> : t \in Keyed, part \in {"table", "sha", "raw"}}

UniqueSha(t) == <<t, "renewed">> \in schema \/ <<t, "unique_sha">> \in schema

-----------------------------------------------------------------------------
Row == [id : Nat, key : Key \union {None}, raw : Key \union {None},
        sha : Key \union {Blank, None}]

NextId(t) == Max({0} \union {row.id : row \in rows[t]}) + 1

Idle == [rev |-> 0, at |-> 0, seen |-> {}]

MigrateInit ==
    /\ version \in 0 .. 5
    /\ schema = UNION {Made(r) : r \in 1 .. version}
    /\ rows = [t \in Keyed |-> {}]
    /\ migrator = [m \in Migrator |-> Idle]
    /\ kills = 0
    /\ api \in {"down"} \union (IF version = 5 THEN {"old"} ELSE {})
    /\ admitted = [t \in Keyed |-> [k \in Key |-> 0]]

(* Fault: the head is not told from the revisions before it.                 *)
StartUpgradePastHead(m) ==
    /\ migrator[m] = Idle
    /\ migrator' = [migrator EXCEPT ![m] = [rev |-> version + 1, at |-> 1, seen |-> {}]]
    /\ UNCHANGED <<version, schema, rows, kills, api, admitted>>

(* The version is read once; the revisions up to the head are run from it.   *)
StartUpgrade(m) ==
    /\ migrator[m] = Idle /\ version < Latest
    /\ migrator' = [migrator EXCEPT ![m] = [rev |-> version + 1, at |-> 1, seen |-> {}]]
    /\ UNCHANGED <<version, schema, rows, kills, api, admitted>>

Coalesce(a, b) == IF a # None THEN a ELSE b

(* Fault: the hash is taken before nonce_raw is filled, and of that alone.   *)
FilledFromRaw(row) == [row EXCEPT !.sha = Coalesce(@, Coalesce(row.raw, Blank))]

(* The two UPDATEs and the DELETE of revision 6, which the next DDL commits. *)
Filled(row) ==
    LET raw == Coalesce(row.raw, row.key)
    IN [row EXCEPT !.raw = raw,
                   !.sha = Coalesce(@, Coalesce(Coalesce(raw, row.key), Blank))]

Distinct(table) ==
    {row \in table : ~ \E other \in table : other.sha = row.sha /\ other.id < row.id}

Backfilled(table) == Distinct({Filled(row) : row \in table})

(* MySQL keeps an index that the foreign key to developer_keys needs, unless *)
(* revision 7 has made another; both tries swallow the error.                *)
AfterDrop(t) ==
    IF <<t, "unique_sha">> \in schema THEN schema \ {<<t, "unique_key">>} ELSE schema

(* What makes a statement fail, and the upgrade with it.                     *)
HasNull(t) == \E row \in rows[t] : row.sha = None
HasTwins(t) == \E row, other \in rows[t] :
    row # other /\ row.sha # None /\ row.sha = other.sha
Named(t) == {<<t, "unique_key">>, <<t, "renewed">>}  \* indexes of the old name

Needed(m, s) ==
    CASE s.do = "ensure" -> s.makes \intersect migrator[m].seen = {}
      [] s.do = "drop"   -> <<s.table, "unique_key">> \in migrator[m].seen
      [] s.do = "renew"  -> Named(s.table) \intersect migrator[m].seen = {}
      [] s.do = "relax"  -> <<s.table, "key">> \in migrator[m].seen
      [] OTHER           -> TRUE

Refused(s) ==
    CASE s.do \in {"create", "ensure"} ->
           \/ s.makes \intersect schema # {}
           \/ \E t \in Keyed : <<t, "unique_sha">> \in s.makes /\ HasTwins(t)
      [] s.do = "renew"   -> Named(s.table) \intersect schema # {} \/ HasTwins(s.table)
      [] s.do = "require" -> HasNull(s.table)
      [] OTHER            -> FALSE

SchemaAfter(s) ==
    CASE s.do \in {"create", "ensure"} -> schema \union s.makes
      [] s.do = "drop"    -> AfterDrop(s.table)
      [] s.do = "renew"   -> schema \union {<<s.table, "renewed">>}
      [] s.do = "require" -> schema \union {<<s.table, "sha_not_null">>}
      [] s.do = "relax"   -> schema \ {<<s.table, "key_not_null">>}
      [] OTHER            -> schema

Running(m) == migrator[m] # Idle
AtEnd(m) == migrator[m].at > Len(Script[migrator[m].rev])
Advanced(m) ==
    LET s == Script[migrator[m].rev][migrator[m].at]
    IN [migrator[m] EXCEPT !.at = @ + 1,
                           !.seen = IF s = Look THEN schema ELSE @]

(* Fault: a statement that fails is passed over, as DROP INDEX is.           *)
UpgradeStepSwallows(m) ==
    /\ Running(m) /\ ~AtEnd(m)
    /\ LET s == Script[migrator[m].rev][migrator[m].at]
       IN /\ schema' = IF Needed(m, s) THEN SchemaAfter(s) ELSE schema
          /\ rows' = IF s.do = "fill" THEN [rows EXCEPT ![s.table] = Backfilled(@)] ELSE rows
          /\ migrator' = [migrator EXCEPT ![m] = Advanced(m)]
    /\ UNCHANGED <<version, kills, api, admitted>>

UpgradeStep(m) ==
    /\ Running(m) /\ ~AtEnd(m)
    /\ LET s == Script[migrator[m].rev][migrator[m].at]
           runs == Needed(m, s)
           fails == runs /\ Refused(s)
       IN /\ schema' = IF runs /\ ~fails THEN SchemaAfter(s) ELSE schema
          /\ rows' = IF s.do = "fill" THEN [rows EXCEPT ![s.table] = Backfilled(@)] ELSE rows
          /\ migrator' = [migrator EXCEPT ![m] = IF fails THEN Idle ELSE Advanced(m)]
    /\ UNCHANGED <<version, kills, api, admitted>>

(* UPDATE alembic_version ... WHERE version_num = <the one before>: an       *)
(* upgrade that another one has overtaken matches no row and fails.          *)
Stamp(m) ==
    /\ Running(m) /\ AtEnd(m)
    /\ LET rev == migrator[m].rev
           wins == version = rev - 1
       IN /\ version' = IF wins THEN rev ELSE version
          /\ migrator' = [migrator EXCEPT ![m] =
               IF wins /\ rev < Latest THEN [rev |-> rev + 1, at |-> 1, seen |-> {}] ELSE Idle]
    /\ UNCHANGED <<schema, rows, kills, api, admitted>>

(* The container an upgrade runs in stops.                                   *)
Kill(m) ==
    /\ Running(m) /\ kills < MaxKills
    /\ kills' = kills + 1
    /\ migrator' = [migrator EXCEPT ![m] = Idle]
    /\ UNCHANGED <<version, schema, rows, api, admitted>>

Upgrade(m) == StartUpgrade(m) \/ UpgradeStep(m) \/ Stamp(m)

-----------------------------------------------------------------------------
(* The API stops, or starts: unless the version is the head it raises.       *)
StopApi ==
    /\ api # "down"
    /\ api' = "down"
    /\ UNCHANGED <<version, schema, rows, migrator, kills, admitted>>

(* create_all adds the tables that are missing, and only whole tables.       *)
AutoCreated == {o \in Models : Table(o[1]) \notin schema}

StartApi ==
    /\ api = "down" /\ version = Latest
    /\ api' = "new"
    /\ \E auto \in BOOLEAN :
         schema' = IF auto THEN schema \union AutoCreated ELSE schema
    /\ UNCHANGED <<version, rows, migrator, kills, admitted>>

(* The two versions of the API store a key; a duplicate or a column without  *)
(* a value makes the INSERT fail.                                            *)
OldInsert(t, k) ==
    /\ api = "old" /\ <<t, "sha_not_null">> \notin schema
    /\ <<t, "unique_key">> \in schema => \A row \in rows[t] : row.key # k
    /\ rows' = [rows EXCEPT ![t] =
                   @ \union {[id |-> NextId(t), key |-> k, raw |-> None, sha |-> None]}]

NewInsert(t, k) ==
    /\ api = "new" /\ {<<t, "sha">>, <<t, "raw">>} \subseteq schema
    /\ <<t, "key_not_null">> \notin schema
    /\ UniqueSha(t) => \A row \in rows[t] : row.sha # k
    /\ rows' = [rows EXCEPT ![t] =
                   @ \union {[id |-> NextId(t), key |-> None, raw |-> k, sha |-> k]}]

AdmitKey(t, k) ==
    /\ admitted[t][k] < 2
    /\ OldInsert(t, k) \/ NewInsert(t, k)
    /\ admitted' = [admitted EXCEPT ![t][k] = @ + 1]
    /\ UNCHANGED <<version, schema, migrator, kills, api>>

MigrateNext ==
    \/ \E m \in Migrator : Upgrade(m) \/ Kill(m)
    \/ StopApi \/ StartApi
    \/ \E t \in Keyed, k \in Key : AdmitKey(t, k)

(* The operator runs the upgrade again until it is through, as the API's     *)
(* startup asks for; nobody has to start the API or to send a request.       *)
MigrateSpec ==
    /\ MigrateInit /\ [][MigrateNext]_vars
    /\ \A m \in Migrator : WF_vars(Upgrade(m))

-----------------------------------------------------------------------------
MigrateTypeOK ==
    /\ version \in 0 .. Latest
    /\ schema \subseteq Models \union
         {<<t, part>> : t \in Keyed, part \in
            {"key", "key_not_null", "unique_key", "renewed", "sha_not_null", "unique_sha"}}
    /\ \A t \in Keyed : rows[t] \subseteq Row
    /\ \A m \in Migrator : /\ migrator[m].rev \in 0 .. Latest
                           /\ migrator[m].seen \subseteq schema \union
                                {<<t, part>> : t \in Keyed, part \in {"unique_key", "key_not_null"}}
    /\ kills \in 0 .. MaxKills
    /\ api \in {"down", "old", "new"}
    /\ admitted \in [Keyed -> [Key -> 0 .. 2]]

(* Whatever was killed or ran twice on the way, an API that has passed the   *)
(* startup check finds all its models use: every table and column, unique    *)
(* indexes over the hashes, no row without one and no column it does not     *)
(* fill (app.py, _ensure_db_schema_current).                                 *)
ServesCurrentSchema ==
    api = "new" =>
        /\ Models \subseteq schema
        /\ \A t \in Keyed : /\ UniqueSha(t) /\ ~HasNull(t)
                            /\ <<t, "sha_not_null">> \in schema
                            /\ <<t, "key_not_null">> \notin schema

(* A nonce or an idempotency key is taken for a new one once: a request the  *)
(* old API has admitted, before or while the tables are rewritten, is a      *)
(* replay for the new one too (revisions 6 and 7).                           *)
KeyAdmittedOnce == \A t \in Keyed, k \in Key : admitted[t][k] <= 1

(* An upgrade that was killed, failed or was overtaken can be run again and  *)
(* arrives: every statement after the baseline may meet its own effects.     *)
(* (The baseline may not: killed within revision 1, it fails for ever.)      *)
UpgradeResumes == version >= 1 ~> version = Latest
=============================================================================
