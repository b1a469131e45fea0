---------------------------- MODULE MigrateProofs ---------------------------
(* Proofs about Migrate, for any number of upgrades, keys and kills.         *)
EXTENDS Migrate, SequenceTheorems, TLAPS

-----------------------------------------------------------------------------
(* What the revisions consist of.                                            *)

(* Parts of the schema that a later statement takes away.                    *)
Removable == {<<t, part>> : t \in Keyed, part \in {"unique_key", "key_not_null"}}

Parts == Models \union
    {<<t, part>> : t \in Keyed, part \in
       {"key", "key_not_null", "unique_key", "renewed", "sha_not_null", "unique_sha"}}

(* Parts that are made one by one, whatever the rows are.                    *)
Single(r) ==
    {p \in Parts : /\ \A t \in Keyed : p \notin KeyedTable(t)
                   /\ \A t \in Keyed : p # <<t, "renewed">> /\ p # <<t, "sha_not_null">>
                   /\ r # 7 => \A t \in Keyed : p # <<t, "unique_sha">>}

Operations(r) ==
    IF r = 6 THEN {"fill", "drop", "renew", "require"}
    ELSE IF r = 7 THEN {"relax"} ELSE {}

Singles(r)    == {Create({p}) : p \in Single(r)} \union {Ensure({p}) : p \in Single(r)}
Wholes(r)     == IF r = 4 THEN {Ensure(KeyedTable(t)) : t \in Keyed} ELSE {}
Ons(r)        == {On(op, t) : op \in Operations(r), t \in Keyed}
Statements(r) == {Look} \union Singles(r) \union Wholes(r) \union Ons(r)

LEMMA ScriptOf ==
    /\ Script[1] = Revision1 /\ Script[2] = Revision2 /\ Script[3] = Revision3
    /\ Script[4] = Revision4 /\ Script[5] = Revision5 /\ Script[6] = Revision6
    /\ Script[7] = Revision7
    /\ DOMAIN Script = 1 .. 7
BY DEF Script

(* Of the other tables nothing is special.                                   *)
Elsewhere ==
    {"voucher_batches", "vouchers", "redeem_tasks", "sku_provider_config_histories",
     "sku_provider_config_successes", "sku_provider_configs",
     "redeem_task_provider_states", "developer_keys", "developer_rate_limits", "audit_logs"}

ColumnsElsewhere ==
    {"processing_owner", "processing_until", "buy_attempts",
     "last_buy_attempt_at", "buy_inflight_until"}

LEMMA SingleElsewhere ==
    ASSUME NEW r, NEW t \in Elsewhere, NEW part, <<t, part>> \in Parts
    PROVE  <<t, part>> \in Single(r)
<1>1. t \notin Keyed
  BY DEF Elsewhere, Keyed
<1> QED BY <1>1 DEF Single, KeyedTable, Table

LEMMA MadeIsPart ==
    ASSUME NEW r \in {1, 2, 3, 5}, NEW i \in DOMAIN Script[r], Script[r][i] # Look,
           NEW p \in Script[r][i].makes
    PROVE  p \in Parts
<1>1. p \in Made(r)
  BY DEF Made
<1>2. Made(5) \subseteq Models
  BY DEF Models
<1>3. ASSUME NEW q \in 1 .. 3 PROVE Made(q) \subseteq Models
  <2>1. Made(q) \subseteq UNION {Made(o) : o \in 1 .. 3}
    OBVIOUS
  <2> QED BY <2>1 DEF Models
<1>4. Made(r) \subseteq Models
  <2>1. r = 5 \/ r \in 1 .. 3
    OBVIOUS
  <2> QED BY <1>2, <1>3, <2>1
<1> QED BY <1>1, <1>4 DEF Parts

(* The statements that make something of the other tables.                   *)
MakesElsewhere ==
    {Create({Table(t)}) : t \in Elsewhere} \union {Ensure({Table(t)}) : t \in Elsewhere}
      \union {Ensure({<<"redeem_tasks", c>>}) : c \in ColumnsElsewhere}
      \union {Ensure({<<"redeem_task_provider_states", c>>}) : c \in ColumnsElsewhere}

LEMMA OnlyElsewhere ==
    ASSUME NEW r \in {1, 2, 3, 5}, NEW i \in DOMAIN Script[r]
    PROVE  Script[r][i] \in {Look} \union MakesElsewhere
<1>1. \A j \in DOMAIN Revision1 : Revision1[j] \in MakesElsewhere
  BY DEF Revision1, Table, MakesElsewhere, Elsewhere, ColumnsElsewhere
<1>2. \A j \in DOMAIN Revision2 : Revision2[j] \in {Look} \union MakesElsewhere
  BY DEF Revision2, Column, MakesElsewhere, Elsewhere, ColumnsElsewhere
<1>3. \A j \in DOMAIN Revision3 : Revision3[j] \in {Look} \union MakesElsewhere
  BY DEF Revision3, Column, MakesElsewhere, Elsewhere, ColumnsElsewhere
<1>5. \A j \in DOMAIN Revision5 : Revision5[j] \in {Look} \union MakesElsewhere
  BY DEF Revision5, LookedFor, Table, MakesElsewhere, Elsewhere, ColumnsElsewhere
<1> QED BY <1>1, <1>2, <1>3, <1>5, ScriptOf

LEMMA KindsOfMaking ==
    ASSUME NEW S
    PROVE  /\ Create(S).do = "create" /\ Create(S).makes = S /\ Create(S) # Look
           /\ Ensure(S).do = "ensure" /\ Ensure(S).makes = S /\ Ensure(S) # Look
BY DEF Create, Ensure, Look

LEMMA StatementsElsewhere ==
    ASSUME NEW r \in {1, 2, 3, 5}, NEW i \in DOMAIN Script[r]
    PROVE  Script[r][i] \in {Look} \union Singles(r)
<1>1. CASE Script[r][i] = Look
  BY <1>1
<1>2. CASE Script[r][i] # Look
  <2>1. PICK t, part : /\ t \in Elsewhere
                       /\ \/ Script[r][i] = Create({<<t, part>>})
                          \/ Script[r][i] = Ensure({<<t, part>>})
    <3>1. Script[r][i] \in MakesElsewhere
      BY <1>2, OnlyElsewhere
    <3>2. "redeem_tasks" \in Elsewhere /\ "redeem_task_provider_states" \in Elsewhere
      BY DEF Elsewhere
    <3> QED BY <3>1, <3>2 DEF MakesElsewhere, Table
  <2>2. <<t, part>> \in Script[r][i].makes
    BY <2>1, KindsOfMaking
  <2>3. <<t, part>> \in Single(r)
    BY <1>2, <2>1, <2>2, MadeIsPart, SingleElsewhere
  <2> QED BY <2>1, <2>3 DEF Singles
<1> QED BY <1>1, <1>2

LEMMA KeyedParts ==
    ASSUME NEW t \in Keyed
    PROVE  /\ Table(t) \in Parts /\ <<t, "sha">> \in Parts /\ <<t, "raw">> \in Parts
           /\ \A part \in {"key", "key_not_null", "unique_key", "renewed",
                           "sha_not_null", "unique_sha"} : <<t, part>> \in Parts
<1>1. <<t, "table">> \in Models /\ <<t, "sha">> \in Models /\ <<t, "raw">> \in Models
  <2>1. {<<u, part>> : u \in Keyed, part \in {"table", "sha", "raw"}} \subseteq Models
    BY DEF Models
  <2> QED BY <2>1
<1>2. \A part \in {"key", "key_not_null", "unique_key", "renewed",
                   "sha_not_null", "unique_sha"} : <<t, part>> \in Parts
  BY DEF Parts
<1> QED BY <1>1, <1>2 DEF Parts, Table

LEMMA KeyedSingles ==
    ASSUME NEW t \in Keyed, NEW r
    PROVE  /\ <<t, "sha">> \in Single(r) /\ <<t, "raw">> \in Single(r)
           /\ <<t, "unique_sha">> \in Single(7)
BY KeyedParts DEF Single, KeyedTable, Table, Keyed

LEMMA StatementsOf4 ==
    ASSUME NEW i \in DOMAIN Script[4]
    PROVE  Script[4][i] \in Statements(4)
<1> DEFINE Of4 == {<<"redeem_tasks", "public_id">>, <<"redeem_tasks", "unique_public_id">>,
                   <<"developer_keys", "table">>, <<"developer_rate_limits", "table">>}
<1>1. \A j \in DOMAIN Revision4 :
        Revision4[j] \in {Look} \union {Ensure({p}) : p \in Of4}
                           \union {Ensure(KeyedTable(t)) : t \in Keyed}
  BY DEF Revision4, LookedFor, Column, Keyed, Table
<1>2. Of4 \subseteq Models
  BY DEF Models, Table
<1>3. Of4 \subseteq Single(4)
  <2>1. /\ "redeem_tasks" \in Elsewhere /\ "developer_keys" \in Elsewhere
        /\ "developer_rate_limits" \in Elsewhere
    BY DEF Elsewhere
  <2>2. Of4 \subseteq Parts
    BY <1>2 DEF Parts
  <2> QED BY <2>1, <2>2, SingleElsewhere
<1>4. {Ensure({p}) : p \in Of4} \subseteq Singles(4)
  BY <1>3 DEF Singles
<1>5. {Ensure(KeyedTable(t)) : t \in Keyed} \subseteq Wholes(4)
  BY DEF Wholes
<1> HIDE DEF Of4
<1> QED BY <1>1, <1>4, <1>5, ScriptOf DEF Statements

LEMMA StatementsOf6 ==
    ASSUME NEW i \in DOMAIN Script[6]
    PROVE  Script[6][i] \in Statements(6)
<1>1. \A j \in DOMAIN Revision6 :
        Revision6[j] \in {Look} \union {Ensure({<<t, "sha">>}) : t \in Keyed}
           \union {Ensure({<<t, "raw">>}) : t \in Keyed}
           \union {On(op, t) : op \in {"fill", "drop", "renew", "require"}, t \in Keyed}
  BY DEF Revision6, Rehash, Keyed
<1>2. {Ensure({<<t, "sha">>}) : t \in Keyed} \union {Ensure({<<t, "raw">>}) : t \in Keyed}
        \subseteq Singles(6)
  BY KeyedSingles DEF Singles
<1>3. {On(op, t) : op \in {"fill", "drop", "renew", "require"}, t \in Keyed} \subseteq Ons(6)
  BY DEF Ons, Operations
<1> QED BY <1>1, <1>2, <1>3, ScriptOf DEF Statements

LEMMA StatementsOf7 ==
    ASSUME NEW i \in DOMAIN Script[7]
    PROVE  Script[7][i] \in Statements(7)
<1>1. \A j \in DOMAIN Revision7 :
        Revision7[j] \in {Look} \union {Ensure({<<t, "unique_sha">>}) : t \in Keyed}
                           \union {On("relax", t) : t \in Keyed}
  BY DEF Revision7, IndexHashes, Keyed
<1>2. {Ensure({<<t, "unique_sha">>}) : t \in Keyed} \subseteq Singles(7)
  BY KeyedSingles DEF Singles
<1>3. {On("relax", t) : t \in Keyed} \subseteq Ons(7)
  BY DEF Ons, Operations
<1> QED BY <1>1, <1>2, <1>3, ScriptOf DEF Statements

LEMMA StatementKinds ==
    ASSUME NEW r \in 1 .. Latest, NEW i \in DOMAIN Script[r]
    PROVE  Script[r][i] \in Statements(r)
<1>1. CASE r \in {1, 2, 3, 5}
  BY <1>1, StatementsElsewhere DEF Statements
<1> QED BY <1>1, StatementsOf4, StatementsOf6, StatementsOf7 DEF Latest

(* Where a revision ends, and what three of them begin with.                 *)
LEMMA Lengths ==
    ASSUME NEW r \in 1 .. Latest
    PROVE  Len(Script[r]) \in Nat /\ DOMAIN Script[r] = 1 .. Len(Script[r])
<1>1. Len(Revision1) = 7 /\ DOMAIN Revision1 = 1 .. 7
  BY DEF Revision1
<1>2. Len(Revision2) = 3 /\ DOMAIN Revision2 = 1 .. 3
  BY DEF Revision2
<1>3. Len(Revision3) = 4 /\ DOMAIN Revision3 = 1 .. 4
  BY DEF Revision3
<1>4. Len(Revision4) = 11 /\ DOMAIN Revision4 = 1 .. 11
  BY DEF Revision4, LookedFor
<1>5. Len(Revision5) = 2 /\ DOMAIN Revision5 = 1 .. 2
  BY DEF Revision5, LookedFor
<1>6. Len(Revision6) = 18 /\ DOMAIN Revision6 = 1 .. 18
  BY DEF Revision6, Rehash
<1>7. Len(Revision7) = 8 /\ DOMAIN Revision7 = 1 .. 8
  BY DEF Revision7, IndexHashes
<1> QED BY <1>1, <1>2, <1>3, <1>4, <1>5, <1>6, <1>7, ScriptOf DEF Latest

LEMMA LookFirst ==
    Script[5][1] = Look /\ Script[6][1] = Look /\ Script[7][1] = Look
<1>1. Script[5][1] = Look
  BY ScriptOf DEF Revision5, LookedFor
<1>2. Script[6][1] = Look
  BY ScriptOf DEF Revision6, Rehash
<1>3. Script[7][1] = Look
  BY ScriptOf DEF Revision7, IndexHashes
<1> QED BY <1>1, <1>2, <1>3

(* Statements that later ones rely on.                                       *)
LEMMA InRevision6 ==
    ASSUME NEW t \in Keyed
    PROVE  /\ \E j \in DOMAIN Script[6] : Script[6][j] = Ensure({<<t, "sha">>})
           /\ \E j \in DOMAIN Script[6] : Script[6][j] = Ensure({<<t, "raw">>})
           /\ \E j \in DOMAIN Script[6] : Script[6][j] = On("require", t)
<1>1. DOMAIN Revision6 = 1 .. 18
  BY DEF Revision6, Rehash
<1>2. /\ Revision6[2] = Ensure({<<"developer_nonces", "sha">>})
      /\ Revision6[3] = Ensure({<<"developer_nonces", "raw">>})
  BY DEF Revision6, Rehash
<1>3. /\ Revision6[11] = Ensure({<<"developer_idempotency_keys", "sha">>})
      /\ Revision6[12] = Ensure({<<"developer_idempotency_keys", "raw">>})
  BY DEF Revision6, Rehash
<1>4. /\ Revision6[9] = On("require", "developer_nonces")
      /\ Revision6[18] = On("require", "developer_idempotency_keys")
  BY DEF Revision6, Rehash
<1>5. PICK R : R = Revision6 /\ R = Script[6]
  BY ScriptOf
<1>6. CASE t = "developer_nonces"
  <2>1. 2 \in DOMAIN R /\ 3 \in DOMAIN R /\ 9 \in DOMAIN R
    BY <1>1, <1>5
  <2> QED BY <1>2, <1>4, <1>5, <1>6, <2>1
<1>7. CASE t = "developer_idempotency_keys"
  <2>1. 11 \in DOMAIN R /\ 12 \in DOMAIN R /\ 18 \in DOMAIN R
    BY <1>1, <1>5
  <2> QED BY <1>3, <1>4, <1>5, <1>7, <2>1
<1> QED BY <1>6, <1>7 DEF Keyed

LEMMA InRevision7 ==
    ASSUME NEW t \in Keyed
    PROVE  /\ \E j \in DOMAIN Script[7] : Script[7][j] = On("relax", t)
           /\ \E j \in DOMAIN Script[7] : Script[7][j] = Ensure({<<t, "unique_sha">>})
<1>1. DOMAIN Revision7 = 1 .. 8
  BY DEF Revision7, IndexHashes
<1>2. /\ Revision7[2] = On("relax", "developer_nonces")
      /\ Revision7[6] = On("relax", "developer_idempotency_keys")
  BY DEF Revision7, IndexHashes
<1>3. /\ Revision7[4] = Ensure({<<"developer_nonces", "unique_sha">>})
      /\ Revision7[8] = Ensure({<<"developer_idempotency_keys", "unique_sha">>})
  BY DEF Revision7, IndexHashes
<1> QED BY <1>1, <1>2, <1>3, ScriptOf DEF Keyed

LEMMA InRevision4 ==
    /\ \A t \in Keyed :
         \E j \in DOMAIN Script[4] : Script[4][j] = Ensure(KeyedTable(t))
    /\ \A p \in {<<"redeem_tasks", "public_id">>, <<"redeem_tasks", "unique_public_id">>,
                 Table("developer_keys"), Table("developer_rate_limits")} :
         \E j \in DOMAIN Script[4] : Script[4][j] = Ensure({p})
<1>1. DOMAIN Revision4 = 1 .. 11
  BY DEF Revision4, LookedFor
<1>2. Revision4[7] = Ensure(KeyedTable("developer_nonces"))
  BY DEF Revision4, LookedFor
<1>3. Revision4[11] = Ensure(KeyedTable("developer_idempotency_keys"))
  BY DEF Revision4, LookedFor
<1>4. /\ Revision4[2] = Ensure({<<"redeem_tasks", "public_id">>})
      /\ Revision4[3] = Ensure({<<"redeem_tasks", "unique_public_id">>})
  BY DEF Revision4, LookedFor, Column
<1>5. /\ Revision4[5] = Ensure({Table("developer_keys")})
      /\ Revision4[9] = Ensure({Table("developer_rate_limits")})
  BY DEF Revision4, LookedFor
<1> QED BY <1>1, <1>2, <1>3, <1>4, <1>5, ScriptOf DEF Keyed

-----------------------------------------------------------------------------
(* The inductive invariant.                                                  *)

(* What a statement brings about, for good.                                  *)
Makers == {"create", "ensure"}
Done(s) ==
    /\ s.do \in Makers => s.makes \ Removable \subseteq schema
    /\ s.do = "require" => <<s.table, "sha_not_null">> \in schema
    /\ s.do = "relax" => /\ s.table \in Keyed /\ Table(s.table) \in schema
                         /\ <<s.table, "key_not_null">> \notin schema

(* An upgrade is no further than one revision beyond the version, what its   *)
(* statements did so far still stands, and what it saw is no more than there *)
(* is, but for what a later statement takes away.                            *)
Seen(S) ==
    /\ S \subseteq schema \union Removable
    /\ \A t \in Keyed : S \intersect KeyedTable(t) # {} => Table(t) \in schema
                                                         /\ <<t, "key">> \in schema

Progress(g) ==
    \/ g = Idle
    \/ /\ g \in [rev : 1 .. Latest, at : Nat, seen : SUBSET Parts]
       /\ g.rev <= version + 1
       /\ g.at \in 1 .. Len(Script[g.rev]) + 1
       /\ Seen(g.seen)
       /\ g.rev >= 5 /\ g.at > 1 => \A t \in Keyed : <<t, "key">> \in g.seen
       /\ \A j \in 1 .. g.at - 1 : Done(Script[g.rev][j])

UpgradesOn ==
    /\ migrator = [m \in Migrator |-> migrator[m]]
    /\ \A m \in Migrator : Progress(migrator[m])

(* The revisions up to the version have been run. The two tables are there   *)
(* as a whole or not at all, and never without a unique index.               *)
SchemaFits ==
    /\ version \in 0 .. Latest
    /\ schema \in SUBSET Parts
    /\ \A r \in 1 .. version : \A j \in DOMAIN Script[r] : Done(Script[r][j])
    /\ Seen(schema)
    /\ \A t \in Keyed :
         /\ Table(t) \in schema =>
              <<t, "unique_key">> \in schema \/ <<t, "unique_sha">> \in schema
         /\ <<t, "unique_sha">> \in schema => version >= 6

(* The key a row was admitted for. The rows that the new API has inserted    *)
(* carry it as their hash only.                                              *)
KeyOf(row) == Coalesce(row.key, row.raw)

RowFits(row) ==
    /\ KeyOf(row) \in Key
    /\ row.sha \in {None, KeyOf(row)}
    /\ row.raw \in {None, KeyOf(row)}
    /\ row.key = None => version = Latest /\ row.sha # None

Highest(table) ==
    table # {} => \E last \in table : \A row \in table : row.id <= last.id

(* Every key that has been admitted has one row, and every row a hash once   *)
(* the column says so.                                                       *)
RowsFit ==
    /\ rows \in [Keyed -> SUBSET Row]
    /\ admitted \in [Keyed -> [Key -> 0 .. 2]]
    /\ \A t \in Keyed :
         /\ \A row \in rows[t] : RowFits(row)
         /\ \A row, other \in rows[t] : KeyOf(row) = KeyOf(other) => row = other
         /\ <<t, "sha_not_null">> \in schema => \A row \in rows[t] : row.sha # None
         /\ Highest(rows[t])
         /\ \A k \in Key : admitted[t][k] = IF \E row \in rows[t] : KeyOf(row) = k
                                            THEN 1 ELSE 0

ApiFits ==
    /\ kills \in 0 .. MaxKills
    /\ api \in {"down", "old", "new"}
    /\ api = "old" => version >= 5
    /\ api = "new" => version = Latest

MigrateInv == SchemaFits /\ UpgradesOn /\ RowsFit /\ ApiFits

-----------------------------------------------------------------------------
(* A step that takes nothing away from the schema but what may go.           *)
Grows ==
    /\ version' \in 0 .. Latest /\ version <= version'
    /\ schema' \in SUBSET Parts
    /\ schema \ Removable \subseteq schema'
    /\ \A t \in Keyed : Table(t) \in schema /\ <<t, "key_not_null">> \in schema'
                          => <<t, "key_not_null">> \in schema
    /\ Seen(schema)'

LEMMA NotRemovable ==
    /\ \A t : /\ Table(t) \notin Removable /\ <<t, "key">> \notin Removable
              /\ <<t, "sha">> \notin Removable /\ <<t, "raw">> \notin Removable
              /\ <<t, "sha_not_null">> \notin Removable /\ <<t, "renewed">> \notin Removable
              /\ <<t, "unique_sha">> \notin Removable
    /\ \A r : \A p \in Single(r) : p \notin Removable
<1>1. \A t : Table(t) \notin Removable /\ <<t, "key">> \notin Removable
  BY DEF Removable, Table
<1>2. \A t : <<t, "sha">> \notin Removable /\ <<t, "raw">> \notin Removable
  BY DEF Removable
<1>3. \A t : /\ <<t, "sha_not_null">> \notin Removable /\ <<t, "renewed">> \notin Removable
             /\ <<t, "unique_sha">> \notin Removable
  BY DEF Removable
<1>4. ASSUME NEW r, NEW p \in Single(r) PROVE p \notin Removable
  BY DEF Removable, Single, KeyedTable
<1> QED BY <1>1, <1>2, <1>3, <1>4

LEMMA DoneStays ==
    ASSUME Grows, NEW s, Done(s)
    PROVE  Done(s)'
<1>1. s.do \in Makers => s.makes \ Removable \subseteq schema'
  BY DEF Done, Grows
<1>2. s.do = "require" => <<s.table, "sha_not_null">> \in schema'
  BY NotRemovable DEF Done, Grows
<1>3. s.do = "relax" => /\ s.table \in Keyed /\ Table(s.table) \in schema'
                        /\ <<s.table, "key_not_null">> \notin schema'
  BY NotRemovable DEF Done, Grows
<1> QED BY <1>1, <1>2, <1>3 DEF Done

LEMMA SeenStays ==
    ASSUME Grows, NEW S, Seen(S)
    PROVE  Seen(S)'
<1>1. S \subseteq schema' \union Removable
  BY DEF Seen, Grows
<1>2. \A t \in Keyed : S \intersect KeyedTable(t) # {} =>
        Table(t) \in schema' /\ <<t, "key">> \in schema'
  BY NotRemovable DEF Seen, Grows
<1> QED BY <1>1, <1>2 DEF Seen

LEMMA ProgressStays ==
    ASSUME SchemaFits, Grows, NEW g, Progress(g)
    PROVE  Progress(g)'
<1>1. CASE g = Idle
  BY <1>1 DEF Progress
<1>2. CASE g # Idle
  <2>1. g.rev <= version' + 1
    BY <1>2 DEF Progress, Grows, SchemaFits, Latest
  <2>2. Seen(g.seen)'
    BY <1>2, SeenStays DEF Progress
  <2>3. \A j \in 1 .. g.at - 1 : Done(Script[g.rev][j])'
    BY <1>2, DoneStays DEF Progress
  <2> QED BY <1>2, <2>1, <2>2, <2>3 DEF Progress
<1> QED BY <1>1, <1>2

(* The unique indexes of the two tables.                                     *)
IndexFits(t) ==
    /\ Table(t) \in schema => <<t, "unique_key">> \in schema \/ <<t, "unique_sha">> \in schema
    /\ <<t, "unique_sha">> \in schema => version >= 6

LEMMA SchemaStays ==
    ASSUME SchemaFits, Grows, version' = version, \A t \in Keyed : IndexFits(t)'
    PROVE  SchemaFits'
<1>1. ASSUME NEW r \in 1 .. version', NEW j \in DOMAIN Script[r]
      PROVE  Done(Script[r][j])'
  <2>1. Done(Script[r][j])
    BY DEF SchemaFits
  <2> QED BY <2>1, DoneStays
<1> QED BY <1>1 DEF SchemaFits, Grows, IndexFits

LEMMA MakingDone ==
    ASSUME NEW S
    PROVE  /\ Done(Create(S)) <=> S \ Removable \subseteq schema
           /\ Done(Ensure(S)) <=> S \ Removable \subseteq schema
BY KindsOfMaking DEF Done, Makers

(* What the version tells of the two tables.                                 *)
LEMMA Known ==
    ASSUME SchemaFits, NEW t \in Keyed
    PROVE  /\ version >= 4 => Table(t) \in schema /\ <<t, "key">> \in schema
           /\ version >= 6 => /\ <<t, "sha">> \in schema /\ <<t, "raw">> \in schema
                              /\ <<t, "sha_not_null">> \in schema
           /\ version >= 7 => /\ <<t, "unique_sha">> \in schema
                              /\ <<t, "key_not_null">> \notin schema
<1>1. ASSUME version >= 4 PROVE Table(t) \in schema /\ <<t, "key">> \in schema
  <2>1. PICK j \in DOMAIN Script[4] : Script[4][j] = Ensure(KeyedTable(t))
    BY InRevision4
  <2>2. 4 \in 1 .. version
    BY <1>1 DEF SchemaFits, Latest
  <2>3. Done(Ensure(KeyedTable(t)))
    BY <2>1, <2>2 DEF SchemaFits
  <2>5. KeyedTable(t) \ Removable \subseteq schema
    BY <2>3, MakingDone
  <2>4. Table(t) \in KeyedTable(t) \ Removable /\ <<t, "key">> \in KeyedTable(t) \ Removable
    BY NotRemovable DEF KeyedTable
  <2> QED BY <2>4, <2>5
<1>2. ASSUME version >= 6
      PROVE  <<t, "sha">> \in schema /\ <<t, "raw">> \in schema /\ <<t, "sha_not_null">> \in schema
  <2>1. 6 \in 1 .. version
    BY <1>2 DEF SchemaFits, Latest
  <2>2. \A j \in DOMAIN Script[6] : Done(Script[6][j])
    BY <2>1 DEF SchemaFits
  <2>3. Done(Ensure({<<t, "sha">>})) /\ Done(Ensure({<<t, "raw">>})) /\ Done(On("require", t))
    BY <2>2, InRevision6
  <2>4. <<t, "sha">> \in schema /\ <<t, "raw">> \in schema
    BY <2>3, MakingDone, NotRemovable
  <2>5. <<t, "sha_not_null">> \in schema
    BY <2>3 DEF Done, On
  <2> QED BY <2>4, <2>5
<1>3. ASSUME version >= 7
      PROVE  <<t, "unique_sha">> \in schema /\ <<t, "key_not_null">> \notin schema
  <2>1. 7 \in 1 .. version
    BY <1>3 DEF SchemaFits, Latest
  <2>2. \A j \in DOMAIN Script[7] : Done(Script[7][j])
    BY <2>1 DEF SchemaFits
  <2>3. Done(Ensure({<<t, "unique_sha">>})) /\ Done(On("relax", t))
    BY <2>2, InRevision7
  <2>4. <<t, "unique_sha">> \in schema
    BY <2>3, MakingDone, NotRemovable
  <2>5. <<t, "key_not_null">> \notin schema
    BY <2>3 DEF Done, On
  <2> QED BY <2>4, <2>5
<1> QED BY <1>1, <1>2, <1>3

-----------------------------------------------------------------------------
(* One lemma per kind of change to the schema.                               *)
LEMMA SchemaSame ==
    ASSUME SchemaFits, version' = version, schema' = schema
    PROVE  Grows /\ \A t \in Keyed : IndexFits(t)'
<1>1. Seen(schema)'
  BY DEF SchemaFits, Seen
<1> QED BY <1>1 DEF SchemaFits, Grows, IndexFits

LEMMA SingleMade ==
    ASSUME SchemaFits, NEW r \in 1 .. Latest, r <= version + 1, NEW p \in Single(r),
           version' = version, schema' = schema \union {p}
    PROVE  Grows /\ \A t \in Keyed : IndexFits(t)'
<1>1. schema' \in SUBSET Parts
  BY DEF SchemaFits, Single
<1>2. \A t \in Keyed : p \notin KeyedTable(t)
  BY DEF Single
<1>3. Seen(schema)'
  <2>1. ASSUME NEW t \in Keyed, schema' \intersect KeyedTable(t) # {}
        PROVE  Table(t) \in schema' /\ <<t, "key">> \in schema'
    <3>1. schema \intersect KeyedTable(t) # {}
      BY <1>2, <2>1
    <3> QED BY <3>1 DEF SchemaFits, Seen
  <2> QED BY <2>1 DEF Seen
<1>4. \A t \in Keyed : /\ Table(t) \in schema' => Table(t) \in schema
                       /\ <<t, "key_not_null">> \in schema' => <<t, "key_not_null">> \in schema
  BY <1>2 DEF KeyedTable
<1>5. Grows
  BY <1>1, <1>3, <1>4 DEF Grows, SchemaFits
<1>6. ASSUME NEW t \in Keyed PROVE IndexFits(t)'
  <2>1. p = <<t, "unique_sha">> => version >= 6
    BY DEF Single, SchemaFits, Latest
  <2>2. <<t, "unique_sha">> \in schema' => version >= 6
    BY <2>1 DEF SchemaFits
  <2>3. Table(t) \in schema' =>
          <<t, "unique_key">> \in schema' \/ <<t, "unique_sha">> \in schema'
    BY <1>4 DEF SchemaFits
  <2> QED BY <2>2, <2>3 DEF IndexFits
<1> QED BY <1>5, <1>6

LEMMA TableMade ==
    ASSUME SchemaFits, NEW t \in Keyed, KeyedTable(t) \intersect schema = {},
           version' = version, schema' = schema \union KeyedTable(t)
    PROVE  Grows /\ \A u \in Keyed : IndexFits(u)'
<1>1. schema' \in SUBSET Parts
  BY KeyedParts DEF SchemaFits, KeyedTable
<1>2. \A u \in Keyed : u # t => KeyedTable(u) \intersect KeyedTable(t) = {}
  BY DEF KeyedTable, Table
<1>3. Seen(schema)'
  <2>1. ASSUME NEW u \in Keyed, schema' \intersect KeyedTable(u) # {}
        PROVE  Table(u) \in schema' /\ <<u, "key">> \in schema'
    <3>1. CASE u = t
      BY <3>1 DEF KeyedTable
    <3>2. CASE u # t
      <4>1. schema \intersect KeyedTable(u) # {}
        BY <1>2, <2>1, <3>2
      <4> QED BY <4>1 DEF SchemaFits, Seen
    <3> QED BY <3>1, <3>2
  <2> QED BY <2>1 DEF Seen
<1>4. ASSUME NEW u \in Keyed, u # t
      PROVE  /\ Table(u) \in schema' => Table(u) \in schema
             /\ <<u, "key_not_null">> \in schema' => <<u, "key_not_null">> \in schema
  BY <1>2, <1>4 DEF KeyedTable
<1>5. Table(t) \notin schema
  BY DEF KeyedTable
<1>6. Grows
  BY <1>1, <1>3, <1>4, <1>5 DEF Grows, SchemaFits
<1>7. ASSUME NEW u \in Keyed PROVE IndexFits(u)'
  <2>1. <<u, "unique_sha">> \notin KeyedTable(t)
    BY DEF KeyedTable, Table
  <2>2. <<u, "unique_sha">> \in schema' => version >= 6
    BY <2>1 DEF SchemaFits
  <2>3. <<t, "unique_key">> \in schema'
    BY DEF KeyedTable
  <2>4. Table(u) \in schema' =>
          <<u, "unique_key">> \in schema' \/ <<u, "unique_sha">> \in schema'
    BY <1>4, <2>3 DEF SchemaFits
  <2> QED BY <2>2, <2>4 DEF IndexFits
<1> QED BY <1>6, <1>7

LEMMA MarkMade ==
    ASSUME SchemaFits, NEW t \in Keyed, NEW mark \in {"renewed", "sha_not_null"},
           version' = version, schema' = schema \union {<<t, mark>>}
    PROVE  Grows /\ \A u \in Keyed : IndexFits(u)'
<1>1. schema' \in SUBSET Parts
  BY KeyedParts DEF SchemaFits
<1>2. \A u \in Keyed : <<t, mark>> \notin KeyedTable(u) /\ <<t, mark>> # <<u, "unique_sha">>
  BY DEF KeyedTable, Table
<1>3. Seen(schema)'
  <2>1. ASSUME NEW u \in Keyed, schema' \intersect KeyedTable(u) # {}
        PROVE  Table(u) \in schema' /\ <<u, "key">> \in schema'
    <3>1. schema \intersect KeyedTable(u) # {}
      BY <1>2, <2>1
    <3> QED BY <3>1 DEF SchemaFits, Seen
  <2> QED BY <2>1 DEF Seen
<1>4. \A u \in Keyed : /\ Table(u) \in schema' => Table(u) \in schema
                       /\ <<u, "key_not_null">> \in schema' => <<u, "key_not_null">> \in schema
  BY <1>2 DEF KeyedTable
<1>5. Grows
  BY <1>1, <1>3, <1>4 DEF Grows, SchemaFits
<1>6. \A u \in Keyed : IndexFits(u)'
  BY <1>2, <1>4 DEF SchemaFits, IndexFits
<1> QED BY <1>5, <1>6

LEMMA PartTaken ==
    ASSUME SchemaFits, NEW t \in Keyed, NEW part \in {"unique_key", "key_not_null"},
           part = "unique_key" => <<t, "unique_sha">> \in schema,
           version' = version, schema' = schema \ {<<t, part>>}
    PROVE  Grows /\ \A u \in Keyed : IndexFits(u)'
<1>1. <<t, part>> \in Removable
  BY DEF Removable
<1>2. schema' \in SUBSET Parts /\ schema \ Removable \subseteq schema'
  BY <1>1 DEF SchemaFits
<1>3. Seen(schema)'
  <2>1. ASSUME NEW u \in Keyed, schema' \intersect KeyedTable(u) # {}
        PROVE  Table(u) \in schema' /\ <<u, "key">> \in schema'
    <3>1. schema \intersect KeyedTable(u) # {}
      BY <2>1
    <3>2. Table(u) \in schema /\ <<u, "key">> \in schema
      BY <3>1 DEF SchemaFits, Seen
    <3> QED BY <1>1, <3>2, NotRemovable
  <2> QED BY <2>1 DEF Seen
<1>4. Grows
  BY <1>2, <1>3 DEF Grows, SchemaFits
<1>5. ASSUME NEW u \in Keyed PROVE IndexFits(u)'
  <2>1. <<u, "unique_sha">> \in schema' <=> <<u, "unique_sha">> \in schema
    BY <1>1, NotRemovable
  <2>2. CASE u = t /\ part = "unique_key"
    BY <2>1, <2>2 DEF IndexFits, SchemaFits
  <2>3. CASE u # t \/ part = "key_not_null"
    <3>1. <<u, "unique_key">> # <<t, part>>
      BY <2>3
    <3> QED BY <2>1, <3>1 DEF IndexFits, SchemaFits
  <2> QED BY <2>2, <2>3
<1> QED BY <1>4, <1>5

-----------------------------------------------------------------------------
(* When a statement is run, when it fails and what it does, by its kind.     *)
LEMMA KindsOfOn ==
    ASSUME NEW op, NEW t
    PROVE  On(op, t).do = op /\ On(op, t).table = t /\ (op # "look" => On(op, t) # Look)
BY DEF On, Look

LEMMA MakingRuns ==
    ASSUME NEW m \in Migrator, NEW S
    PROVE  /\ Needed(m, Create(S))
           /\ Needed(m, Ensure(S)) <=> S \intersect migrator[m].seen = {}
           /\ ~ Refused(Create(S)) => S \intersect schema = {}
           /\ ~ Refused(Ensure(S)) => S \intersect schema = {}
           /\ SchemaAfter(Create(S)) = schema \union S
           /\ SchemaAfter(Ensure(S)) = schema \union S
<1>1. Needed(m, Create(S)) /\ (Needed(m, Ensure(S)) <=> S \intersect migrator[m].seen = {})
  BY KindsOfMaking DEF Needed
<1>2. /\ ~ Refused(Create(S)) => S \intersect schema = {}
      /\ ~ Refused(Ensure(S)) => S \intersect schema = {}
  BY KindsOfMaking DEF Refused
<1>3. SchemaAfter(Create(S)) = schema \union S /\ SchemaAfter(Ensure(S)) = schema \union S
  BY KindsOfMaking DEF SchemaAfter
<1> QED BY <1>1, <1>2, <1>3

LEMMA OnRuns ==
    ASSUME NEW m \in Migrator, NEW t
    PROVE  /\ Needed(m, On("relax", t)) <=> <<t, "key">> \in migrator[m].seen
           /\ Needed(m, On("require", t))
           /\ ~ Refused(On("relax", t))
           /\ Refused(On("require", t)) <=> HasNull(t)
           /\ SchemaAfter(On("fill", t)) = schema
           /\ SchemaAfter(On("drop", t)) = AfterDrop(t)
           /\ SchemaAfter(On("renew", t)) = schema \union {<<t, "renewed">>}
           /\ SchemaAfter(On("require", t)) = schema \union {<<t, "sha_not_null">>}
           /\ SchemaAfter(On("relax", t)) = schema \ {<<t, "key_not_null">>}
<1>1. /\ Needed(m, On("relax", t)) <=> <<t, "key">> \in migrator[m].seen
      /\ Needed(m, On("require", t))
  BY KindsOfOn DEF Needed
<1>2. ~ Refused(On("relax", t)) /\ (Refused(On("require", t)) <=> HasNull(t))
  BY KindsOfOn DEF Refused
<1>3. /\ SchemaAfter(On("fill", t)) = schema
      /\ SchemaAfter(On("drop", t)) = AfterDrop(t)
      /\ SchemaAfter(On("renew", t)) = schema \union {<<t, "renewed">>}
  BY KindsOfOn DEF SchemaAfter
<1>4. /\ SchemaAfter(On("require", t)) = schema \union {<<t, "sha_not_null">>}
      /\ SchemaAfter(On("relax", t)) = schema \ {<<t, "key_not_null">>}
  BY KindsOfOn DEF SchemaAfter
<1> QED BY <1>1, <1>2, <1>3, <1>4

(* A statement that an upgrade runs, or passes over: the schema stays sound, *)
(* and unless the statement fails, what it is for is there after it.         *)
StatementRun(m, s) ==
    /\ version' = version
    /\ schema' = IF Needed(m, s) /\ ~ (Needed(m, s) /\ Refused(s))
                   THEN SchemaAfter(s) ELSE schema

Sound(m, s) ==
    /\ Grows /\ \A t \in Keyed : IndexFits(t)'
    /\ ~ (Needed(m, s) /\ Refused(s)) => Done(s)'

LEMMA SingleRun ==
    ASSUME SchemaFits, NEW m \in Migrator, Progress(migrator[m]), Running(m),
           NEW p \in Single(migrator[m].rev), NEW s \in {Create({p}), Ensure({p})},
           StatementRun(m, s)
    PROVE  Sound(m, s)
<1>1. p \notin Removable
  BY NotRemovable
<1>2. migrator[m].rev \in 1 .. Latest /\ migrator[m].rev <= version + 1
  BY DEF Progress, Running
<1>3. CASE schema' = schema \union {p}
  <2>1. Grows /\ \A t \in Keyed : IndexFits(t)'
    BY <1>2, <1>3, SingleMade DEF StatementRun
  <2>2. Done(s)'
    BY <1>3, KindsOfMaking DEF Done, Makers
  <2> QED BY <2>1, <2>2 DEF Sound
<1>4. CASE schema' = schema /\ ~ (Needed(m, s) /\ ~ Refused(s))
  <2>1. Grows /\ \A t \in Keyed : IndexFits(t)'
    BY <1>4, SchemaSame DEF StatementRun
  <2>2. ASSUME ~ (Needed(m, s) /\ Refused(s)) PROVE Done(s)'
    <3>1. ~ Needed(m, s)
      BY <1>4, <2>2
    <3>2. p \in migrator[m].seen
      BY <3>1, MakingRuns
    <3>3. p \in schema'
      BY <1>1, <1>4, <3>2 DEF Progress, Running, Seen
    <3> QED BY <3>3, KindsOfMaking DEF Done, Makers
  <2> QED BY <2>1, <2>2 DEF Sound
<1> QED BY <1>3, <1>4, MakingRuns DEF StatementRun

LEMMA TableRun ==
    ASSUME SchemaFits, NEW m \in Migrator, Progress(migrator[m]), Running(m),
           NEW t \in Keyed, StatementRun(m, Ensure(KeyedTable(t)))
    PROVE  Sound(m, Ensure(KeyedTable(t)))
<1> DEFINE s == Ensure(KeyedTable(t))
<1>0. KeyedTable(t) \ Removable = {Table(t), <<t, "key">>}
  <2>1. <<t, "unique_key">> \in Removable /\ <<t, "key_not_null">> \in Removable
    BY DEF Removable
  <2> QED BY <2>1, NotRemovable DEF KeyedTable
<1>1. CASE Needed(m, s) /\ ~ Refused(s)
  <2>1. KeyedTable(t) \intersect schema = {} /\ schema' = schema \union KeyedTable(t)
    BY <1>1, MakingRuns DEF StatementRun
  <2>2. Grows /\ \A u \in Keyed : IndexFits(u)'
    BY <2>1, TableMade DEF StatementRun
  <2>3. Done(s)'
    BY <2>1, KindsOfMaking DEF Done, Makers
  <2> QED BY <2>2, <2>3 DEF Sound
<1>2. CASE ~ (Needed(m, s) /\ ~ Refused(s))
  <2>1. schema' = schema
    BY <1>2 DEF StatementRun
  <2>2. Grows /\ \A u \in Keyed : IndexFits(u)'
    BY <2>1, SchemaSame DEF StatementRun
  <2>3. ASSUME ~ (Needed(m, s) /\ Refused(s)) PROVE Done(s)'
    <3>1. ~ Needed(m, s)
      BY <1>2, <2>3
    <3>2. migrator[m].seen \intersect KeyedTable(t) # {}
      BY <3>1, MakingRuns
    <3>3. Table(t) \in schema' /\ <<t, "key">> \in schema'
      BY <2>1, <3>2 DEF Progress, Running, Seen
    <3> QED BY <1>0, <3>3, KindsOfMaking DEF Done, Makers
  <2> QED BY <2>2, <2>3 DEF Sound
<1> QED BY <1>1, <1>2

LEMMA OnRun ==
    ASSUME SchemaFits, NEW m \in Migrator, Progress(migrator[m]), Running(m),
           NEW op \in Operations(migrator[m].rev), NEW t \in Keyed,
           migrator[m].at > 1, StatementRun(m, On(op, t))
    PROVE  Sound(m, On(op, t))
<1>1. CASE op = "fill"
  <2>1. schema' = schema
    BY <1>1, OnRuns DEF StatementRun
  <2>2. Done(On(op, t))'
    BY <1>1, KindsOfOn DEF Done, Makers
  <2> QED BY <2>1, <2>2, SchemaSame DEF Sound, StatementRun
<1>2. CASE op = "drop"
  <2>1. \/ schema' = schema
        \/ <<t, "unique_sha">> \in schema /\ schema' = schema \ {<<t, "unique_key">>}
    BY <1>2, OnRuns DEF StatementRun, AfterDrop
  <2>2. Done(On(op, t))'
    BY <1>2, KindsOfOn DEF Done, Makers
  <2> QED BY <2>1, <2>2, SchemaSame, PartTaken DEF Sound, StatementRun
<1>3. CASE op = "renew"
  <2>1. schema' = schema \/ schema' = schema \union {<<t, "renewed">>}
    BY <1>3, OnRuns DEF StatementRun
  <2>2. Done(On(op, t))'
    BY <1>3, KindsOfOn DEF Done, Makers
  <2> QED BY <2>1, <2>2, SchemaSame, MarkMade DEF Sound, StatementRun
<1>4. CASE op = "require"
  <2>1. schema' = IF HasNull(t) THEN schema ELSE schema \union {<<t, "sha_not_null">>}
    BY <1>4, OnRuns DEF StatementRun
  <2>2. ASSUME ~ (Needed(m, On(op, t)) /\ Refused(On(op, t))) PROVE Done(On(op, t))'
    <3>1. ~ HasNull(t)
      BY <1>4, <2>2, OnRuns
    <3>2. <<t, "sha_not_null">> \in schema'
      BY <2>1, <3>1
    <3> QED BY <1>4, <3>2, KindsOfOn DEF Done, Makers
  <2> QED BY <2>1, <2>2, SchemaSame, MarkMade DEF Sound, StatementRun
<1>5. CASE op = "relax"
  <2>1. migrator[m].rev = 7
    BY <1>5 DEF Operations
  <2>2. <<t, "key">> \in migrator[m].seen
    BY <2>1 DEF Progress, Running
  <2>3. schema' = schema \ {<<t, "key_not_null">>}
    BY <1>5, <2>2, OnRuns DEF StatementRun
  <2>4. Table(t) \in schema
    BY <2>2 DEF Progress, Running, Seen, KeyedTable
  <2>5. Done(On(op, t))'
    BY <1>5, <2>3, <2>4, KindsOfOn DEF Done, Makers, Table
  <2> QED BY <2>3, <2>5, PartTaken DEF Sound, StatementRun
<1> QED BY <1>1, <1>2, <1>3, <1>4, <1>5 DEF Operations

LEMMA LookRun ==
    ASSUME SchemaFits, NEW m \in Migrator, StatementRun(m, Look)
    PROVE  Sound(m, Look)
<1>1. schema' = schema
  BY DEF StatementRun, SchemaAfter, Look
<1>2. Done(Look)'
  BY DEF Done, Look, Makers
<1> QED BY <1>1, <1>2, SchemaSame DEF Sound, StatementRun

LEMMA StatementSound ==
    ASSUME SchemaFits, NEW m \in Migrator, Progress(migrator[m]), Running(m), ~ AtEnd(m),
           NEW s, s = Script[migrator[m].rev][migrator[m].at], StatementRun(m, s)
    PROVE  Sound(m, s)
<1> DEFINE r == migrator[m].rev
<1>1. r \in 1 .. Latest /\ migrator[m].at \in DOMAIN Script[r]
  BY Lengths DEF Progress, Running, AtEnd
<1>2. s \in Statements(r)
  BY <1>1, StatementKinds
<1>3. CASE s = Look
  BY <1>3, LookRun
<1>4. CASE s \in Singles(r)
  <2>1. PICK p \in Single(r) : s = Create({p}) \/ s = Ensure({p})
    BY <1>4 DEF Singles
  <2> QED BY <2>1, SingleRun
<1>5. CASE s \in Wholes(r)
  <2>1. PICK t \in Keyed : s = Ensure(KeyedTable(t))
    BY <1>5 DEF Wholes
  <2> QED BY <2>1, TableRun
<1>6. CASE s \in Ons(r)
  <2>1. PICK op \in Operations(r), t \in Keyed : s = On(op, t)
    BY <1>6 DEF Ons
  <2>2. r \in {6, 7} /\ op # "look"
    BY <2>1 DEF Operations
  <2>3. s # Look
    BY <2>1, <2>2, KindsOfOn
  <2>4. migrator[m].at > 1
    <3>1. PICK i : i = migrator[m].at
      OBVIOUS
    <3>2. i \in Nat /\ i >= 1
      BY <1>1, <3>1, Lengths
    <3>3. s = Script[r][i] /\ Script[r][1] = Look
      BY <2>2, <3>1, LookFirst
    <3>4. i # 1
      BY <2>3, <3>3
    <3> QED BY <3>1, <3>2, <3>4
  <2> QED BY <2>1, <2>4, OnRun
<1> QED BY <1>2, <1>3, <1>4, <1>5, <1>6 DEF Statements

-----------------------------------------------------------------------------
(* The rows.                                                                 *)

(* No two rows of one key: filling in the hashes removes none.               *)
LEMMA FilledFits ==
    ASSUME NEW row \in Row, RowFits(row)
    PROVE  /\ Filled(row) \in Row /\ RowFits(Filled(row))
           /\ KeyOf(Filled(row)) = KeyOf(row) /\ Filled(row).id = row.id
           /\ Filled(row).sha = KeyOf(row)
<1> DEFINE raw == Coalesce(row.raw, row.key)
           f == [row EXCEPT !.raw = raw,
                   !.sha = Coalesce(@, Coalesce(Coalesce(raw, row.key), Blank))]
<1>1. Filled(row) = f
  BY DEF Filled
<1>2. row.key \in Key \union {None} /\ row.raw \in Key \union {None}
      /\ row.sha \in Key \union {Blank, None} /\ None \notin Key
  BY MigrateAssumption DEF Row
<1>3. raw = KeyOf(row)
  BY <1>2 DEF RowFits, KeyOf, Coalesce
<1>4. f.key = row.key /\ f.raw = raw /\ f.id = row.id
      /\ f.sha = Coalesce(row.sha, Coalesce(Coalesce(raw, row.key), Blank))
  BY DEF Row
<1>5. f.sha = KeyOf(row)
  BY <1>2, <1>3, <1>4 DEF RowFits, Coalesce
<1>6. f \in Row
  BY <1>2, <1>3, <1>5 DEF Row, RowFits
<1>7. KeyOf(f) = KeyOf(row)
  BY <1>2, <1>3, <1>4 DEF KeyOf, Coalesce, RowFits
<1>8. RowFits(f)
  BY <1>2, <1>3, <1>4, <1>5, <1>7 DEF RowFits
<1> HIDE DEF f
<1> QED BY <1>1, <1>4, <1>5, <1>6, <1>7, <1>8

Distinguished(table) ==
    \A row, other \in table : KeyOf(row) = KeyOf(other) => row = other

LEMMA BackfilledIs ==
    ASSUME NEW table \in SUBSET Row, \A row \in table : RowFits(row), Distinguished(table)
    PROVE  Backfilled(table) = {Filled(row) : row \in table}
<1> DEFINE all == {Filled(row) : row \in table}
<1>1. ASSUME NEW row \in all, NEW other \in all, other.sha = row.sha PROVE other.id = row.id
  <2>1. PICK a \in table : row = Filled(a)
    OBVIOUS
  <2>2. PICK b \in table : other = Filled(b)
    OBVIOUS
  <2>3. KeyOf(a) = KeyOf(b)
    BY <1>1, <2>1, <2>2, FilledFits
  <2>4. a = b
    BY <2>3 DEF Distinguished
  <2> QED BY <2>1, <2>2, <2>4
<1>2. \A row \in all : row.id \in Nat
  BY FilledFits DEF Row
<1>3. \A row \in all : ~ \E other \in all : other.sha = row.sha /\ other.id < row.id
  BY <1>1, <1>2
<1> QED BY <1>3 DEF Backfilled, Distinct

(* What RowsFit says of one table.                                           *)
TableFits(t) ==
    /\ \A row \in rows[t] : RowFits(row)
    /\ Distinguished(rows[t])
    /\ <<t, "sha_not_null">> \in schema => \A row \in rows[t] : row.sha # None
    /\ Highest(rows[t])
    /\ \A k \in Key : admitted[t][k] = IF \E row \in rows[t] : KeyOf(row) = k THEN 1 ELSE 0

LEMMA RowsFitByTable ==
    RowsFit <=> /\ rows \in [Keyed -> SUBSET Row]
                /\ admitted \in [Keyed -> [Key -> 0 .. 2]]
                /\ \A t \in Keyed : TableFits(t)
BY DEF RowsFit, TableFits, Distinguished

LEMMA FillKeeps ==
    ASSUME RowsFit, NEW t \in Keyed, rows' = [rows EXCEPT ![t] = Backfilled(@)],
           UNCHANGED <<version, schema, admitted>>
    PROVE  RowsFit'
<1> DEFINE table == rows[t]
           new == {Filled(row) : row \in table}
<1>1. table \in SUBSET Row /\ TableFits(t)
  BY RowsFitByTable
<1>2. rows' = [rows EXCEPT ![t] = new]
  BY <1>1, BackfilledIs DEF TableFits
<1>3. \A row \in table : /\ Filled(row) \in Row /\ RowFits(Filled(row))
                         /\ KeyOf(Filled(row)) = KeyOf(row) /\ Filled(row).id = row.id
                         /\ Filled(row).sha = KeyOf(row)
  BY <1>1, FilledFits DEF TableFits
<1>4. new \in SUBSET Row
  BY <1>3
<1>5. rows' \in [Keyed -> SUBSET Row] /\ rows'[t] = new
  BY <1>2, <1>4, RowsFitByTable
<1>6. TableFits(t)'
  <2>1. \A row \in new : RowFits(row)'
    BY <1>3 DEF RowFits
  <2>2. Distinguished(new)
    BY <1>1, <1>3 DEF TableFits, Distinguished
  <2>3. \A row \in new : row.sha # None
    BY <1>1, <1>3, MigrateAssumption DEF TableFits, RowFits
  <2>4. Highest(new)
    BY <1>1, <1>3 DEF TableFits, Highest
  <2>5. \A k \in Key : (\E row \in new : KeyOf(row) = k) <=> \E row \in table : KeyOf(row) = k
    BY <1>3
  <2> HIDE DEF new, table
  <2>6. \A k \in Key : admitted'[t][k] = IF \E row \in new : KeyOf(row) = k THEN 1 ELSE 0
    BY <1>1, <2>5 DEF TableFits, table
  <2> QED BY <1>5, <2>1, <2>2, <2>3, <2>4, <2>6 DEF TableFits
<1>7. ASSUME NEW u \in Keyed, u # t PROVE TableFits(u)'
  <2>1. rows'[u] = rows[u] /\ TableFits(u)
    BY <1>2, <1>7, RowsFitByTable
  <2> QED BY <2>1 DEF TableFits, RowFits
<1>8. \A u \in Keyed : TableFits(u)'
  BY <1>6, <1>7
<1>9. admitted' \in [Keyed -> [Key -> 0 .. 2]]
  BY RowsFitByTable
<1> QED BY <1>5, <1>8, <1>9 DEF RowsFit, TableFits, Distinguished

LEMMA RowsStay ==
    ASSUME SchemaFits, RowsFit, Grows, UNCHANGED <<rows, admitted>>,
           \A t \in Keyed : <<t, "sha_not_null">> \in schema' =>
             <<t, "sha_not_null">> \in schema \/ ~ HasNull(t)
    PROVE  RowsFit'
<1>1. ASSUME NEW t \in Keyed, NEW row \in rows[t] PROVE RowFits(row)'
  <2>1. RowFits(row)
    BY DEF RowsFit
  <2>2. version = Latest => version' = Latest
    BY DEF Grows, SchemaFits, Latest
  <2> QED BY <2>1, <2>2 DEF RowFits
<1>2. ASSUME NEW t \in Keyed, NEW row \in rows[t], <<t, "sha_not_null">> \in schema'
      PROVE  row.sha # None
  BY <1>2 DEF RowsFit, HasNull
<1> QED BY <1>1, <1>2 DEF RowsFit

(* Only a column of which every row has a value becomes NOT NULL.            *)
LEMMA RequiredOfFilled ==
    ASSUME NEW m \in Migrator, Progress(migrator[m]), Running(m), ~ AtEnd(m),
           NEW s, s = Script[migrator[m].rev][migrator[m].at], StatementRun(m, s),
           NEW t \in Keyed, <<t, "sha_not_null">> \in schema', HasNull(t)
    PROVE  <<t, "sha_not_null">> \in schema
<1> DEFINE r == migrator[m].rev
           mark == <<t, "sha_not_null">>
<1>0. SUFFICES ASSUME mark \notin schema PROVE FALSE
  OBVIOUS
<1>1. r \in 1 .. Latest /\ migrator[m].at \in DOMAIN Script[r]
  BY Lengths DEF Progress, Running, AtEnd
<1>2. s \in Statements(r)
  BY <1>1, StatementKinds
<1>3. Needed(m, s) /\ ~ Refused(s) /\ mark \in SchemaAfter(s)
  BY <1>0 DEF StatementRun
<1>4. CASE s = Look
  BY <1>0, <1>3, <1>4 DEF SchemaAfter, Look
<1>5. CASE s \in Singles(r)
  <2>1. PICK p \in Single(r) : s = Create({p}) \/ s = Ensure({p})
    BY <1>5 DEF Singles
  <2>2. p # mark
    BY DEF Single
  <2>3. SchemaAfter(s) = schema \union {p}
    BY <2>1, MakingRuns
  <2> QED BY <1>0, <1>3, <2>2, <2>3
<1>6. CASE s \in Wholes(r)
  <2>1. PICK u \in Keyed : s = Ensure(KeyedTable(u))
    BY <1>6 DEF Wholes
  <2>2. mark \notin KeyedTable(u)
    BY DEF KeyedTable, Table
  <2> QED BY <1>0, <1>3, <2>1, <2>2, MakingRuns
<1>7. CASE s \in Ons(r)
  <2>1. PICK op \in Operations(r), u \in Keyed : s = On(op, u)
    BY <1>7 DEF Ons
  <2>2. CASE op = "fill"
    BY <1>0, <1>3, <2>1, <2>2, OnRuns
  <2>3. CASE op = "drop"
    <3>1. SchemaAfter(s) \subseteq schema
      BY <2>1, <2>3, OnRuns DEF AfterDrop
    <3> QED BY <1>0, <1>3, <3>1
  <2>4. CASE op = "renew"
    <3>1. SchemaAfter(s) = schema \union {<<u, "renewed">>}
      BY <2>1, <2>4, OnRuns
    <3>2. mark # <<u, "renewed">>
      OBVIOUS
    <3> QED BY <1>0, <1>3, <3>1, <3>2
  <2>5. CASE op = "require"
    <3>1. SchemaAfter(s) = schema \union {<<u, "sha_not_null">>} /\ ~ HasNull(u)
      BY <1>3, <2>1, <2>5, OnRuns
    <3>2. mark = <<u, "sha_not_null">>
      BY <1>0, <1>3, <3>1
    <3>3. t = u
      BY <3>2
    <3> QED BY <3>1, <3>3
  <2>6. CASE op = "relax"
    <3>1. SchemaAfter(s) \subseteq schema
      BY <2>1, <2>6, OnRuns
    <3> QED BY <1>0, <1>3, <3>1
  <2> QED BY <2>2, <2>3, <2>4, <2>5, <2>6 DEF Operations
<1> QED BY <1>2, <1>4, <1>5, <1>6, <1>7 DEF Statements

LEMMA NextIdIsHigher ==
    ASSUME RowsFit, NEW t \in Keyed
    PROVE  NextId(t) \in Nat /\ \A row \in rows[t] : row.id < NextId(t)
<1> DEFINE S == {0} \union {row.id : row \in rows[t]}
<1>1. \A row \in rows[t] : row.id \in Nat
  BY DEF RowsFit, Row
<1>2. \E x \in S : \A y \in S : x >= y
  <2>1. CASE rows[t] = {}
    BY <2>1
  <2>2. CASE rows[t] # {}
    <3>1. PICK last \in rows[t] : \A row \in rows[t] : row.id <= last.id
      BY <2>2 DEF RowsFit, Highest
    <3>2. last.id \in S /\ \A y \in S : last.id >= y
      BY <1>1, <3>1
    <3> QED BY <3>2
  <2> QED BY <2>1, <2>2
<1>3. Max(S) \in S /\ \A y \in S : Max(S) >= y
  BY <1>2 DEF Max
<1>4. S \subseteq Nat
  BY <1>1
<1>5. NextId(t) = Max(S) + 1
  BY DEF NextId
<1>6. \A row \in rows[t] : row.id \in S
  OBVIOUS
<1>7. Max(S) \in Nat
  BY <1>3, <1>4
<1>8. \A row \in rows[t] : row.id <= Max(S)
  BY <1>3, <1>6
<1> HIDE DEF S
<1>9. NextId(t) \in Nat
  BY <1>5, <1>7
<1>10. ASSUME NEW row \in rows[t] PROVE row.id < NextId(t)
  BY <1>1, <1>5, <1>7, <1>8
<1> QED BY <1>9, <1>10

LEMMA RowAdded ==
    ASSUME RowsFit, NEW t \in Keyed, NEW k \in Key, NEW new \in Row,
           rows' = [rows EXCEPT ![t] = @ \union {new}],
           admitted' = [admitted EXCEPT ![t][k] = @ + 1],
           UNCHANGED <<version, schema>>,
           RowFits(new), KeyOf(new) = k, \A row \in rows[t] : KeyOf(row) # k,
           new.id = NextId(t), <<t, "sha_not_null">> \in schema => new.sha # None
    PROVE  RowsFit' /\ admitted'[t][k] = 1
<1> DEFINE table == rows[t] \union {new}
<1>1. rows[t] \in SUBSET Row /\ TableFits(t)
  BY RowsFitByTable
<1>2. rows' \in [Keyed -> SUBSET Row] /\ rows'[t] = table
  BY <1>1, RowsFitByTable
<1>3. admitted[t] \in [Key -> 0 .. 2] /\ admitted[t][k] = 0
  BY <1>1, RowsFitByTable DEF TableFits
<1>4. /\ admitted' \in [Keyed -> [Key -> 0 .. 2]] /\ admitted'[t][k] = 1
      /\ \A j \in Key : j # k => admitted'[t][j] = admitted[t][j]
  BY <1>3, RowsFitByTable
<1>5. TableFits(t)'
  <2>1. \A row \in table : RowFits(row)'
    BY <1>1 DEF TableFits, RowFits
  <2>2. Distinguished(table)
    BY <1>1 DEF TableFits, Distinguished
  <2>3. <<t, "sha_not_null">> \in schema' => \A row \in table : row.sha # None
    BY <1>1 DEF TableFits
  <2>4. Highest(table)
    <3>1. \A row \in rows[t] : row.id \in Nat /\ row.id < new.id
      BY <1>1, NextIdIsHigher DEF Row
    <3>2. new.id \in Nat
      BY DEF Row
    <3>3. \A row \in table : row.id <= new.id
      BY <3>1, <3>2
    <3> QED BY <3>3 DEF Highest
  <2>5. ASSUME NEW j \in Key
        PROVE  admitted'[t][j] = IF \E row \in table : KeyOf(row) = j THEN 1 ELSE 0
    <3>1. CASE j = k
      BY <1>4, <3>1
    <3>2. CASE j # k
      <4>1. (\E row \in table : KeyOf(row) = j) <=> \E row \in rows[t] : KeyOf(row) = j
        BY <3>2
      <4> QED BY <1>1, <1>4, <3>2, <4>1 DEF TableFits
    <3> QED BY <3>1, <3>2
  <2> HIDE DEF table
  <2> QED BY <1>2, <2>1, <2>2, <2>3, <2>4, <2>5 DEF TableFits
<1>6. ASSUME NEW u \in Keyed, u # t PROVE TableFits(u)'
  <2>1. rows'[u] = rows[u] /\ admitted'[u] = admitted[u] /\ TableFits(u)
    BY <1>6, RowsFitByTable
  <2> QED BY <2>1 DEF TableFits, RowFits
<1>7. \A u \in Keyed : TableFits(u)'
  BY <1>5, <1>6
<1>8. RowsFit'
  BY <1>2, <1>4, <1>7 DEF RowsFit, TableFits, Distinguished
<1> QED BY <1>4, <1>8

-----------------------------------------------------------------------------
(* What a revision that only creates makes.                                  *)
LEMMA MadeKinds ==
    ASSUME NEW r \in 1 .. 5, NEW i \in DOMAIN Script[r], Script[r][i] # Look
    PROVE  /\ Script[r][i].do \in Makers
           /\ \/ \E p \in Single(r) : Script[r][i].makes = {p}
              \/ \E t \in Keyed : Script[r][i].makes = KeyedTable(t)
<1>1. Script[r][i] \in Singles(r) \union Wholes(r)
  <2>1. Script[r][i] \in Statements(r)
    BY StatementKinds DEF Latest
  <2>2. Ons(r) = {}
    BY DEF Ons, Operations
  <2> QED BY <2>1, <2>2 DEF Statements
<1>2. CASE Script[r][i] \in Singles(r)
  <2>1. PICK p \in Single(r) : Script[r][i] \in {Create({p}), Ensure({p})}
    BY <1>2 DEF Singles
  <2> QED BY <2>1, KindsOfMaking DEF Makers
<1>3. CASE Script[r][i] \in Wholes(r)
  <2>1. PICK t \in Keyed : Script[r][i] = Ensure(KeyedTable(t))
    BY <1>3 DEF Wholes
  <2> QED BY <2>1, KindsOfMaking DEF Makers
<1> QED BY <1>1, <1>2, <1>3

LEMMA MadeOnce ==
    ASSUME NEW r \in 1 .. 5, NEW p \in Made(r)
    PROVE  /\ p \in Parts
           /\ \/ p \in Single(r)
              \/ \E t \in Keyed : p \in KeyedTable(t) /\ KeyedTable(t) \subseteq Made(r)
<1>1. PICK i \in DOMAIN Script[r] : Script[r][i] # Look /\ p \in Script[r][i].makes
  BY DEF Made
<1>2. Script[r][i].makes \subseteq Made(r)
  BY <1>1 DEF Made
<1>3. CASE \E q \in Single(r) : Script[r][i].makes = {q}
  BY <1>1, <1>3 DEF Single
<1>4. CASE \E t \in Keyed : Script[r][i].makes = KeyedTable(t)
  <2>1. PICK t \in Keyed : Script[r][i].makes = KeyedTable(t)
    BY <1>4
  <2>2. KeyedTable(t) \subseteq Parts
    BY KeyedParts DEF KeyedTable
  <2> QED BY <1>1, <1>2, <2>1, <2>2
<1> QED BY <1>1, <1>3, <1>4, MadeKinds

(* At the head all that the models of the code need is there.                *)
LEMMA ModelsMade ==
    ASSUME SchemaFits, version = Latest
    PROVE  Models \subseteq schema
<1>1. ASSUME NEW r \in {1, 2, 3, 5}, NEW p \in Made(r) PROVE p \in schema
  <2>1. PICK i \in DOMAIN Script[r] : Script[r][i] # Look /\ p \in Script[r][i].makes
    BY DEF Made
  <2>2. Script[r][i].do \in Makers
    BY <2>1, MadeKinds
  <2>3. r \in 1 .. version
    BY DEF Latest
  <2>4. Done(Script[r][i])
    BY <2>3 DEF SchemaFits
  <2>5. p \notin Removable
    <3>1. Script[r][i] \in Singles(r)
      BY <2>1, StatementsElsewhere
    <3>2. PICK q \in Single(r) : Script[r][i] = Create({q}) \/ Script[r][i] = Ensure({q})
      BY <3>1 DEF Singles
    <3>3. p = q
      BY <2>1, <3>2, KindsOfMaking
    <3> QED BY <3>3, NotRemovable
  <2> QED BY <2>1, <2>2, <2>4, <2>5 DEF Done
<1>2. ASSUME NEW p \in {<<"redeem_tasks", "public_id">>, <<"redeem_tasks", "unique_public_id">>,
                        Table("developer_keys"), Table("developer_rate_limits")}
      PROVE  p \in schema
  <2>1. PICK j \in DOMAIN Script[4] : Script[4][j] = Ensure({p})
    BY InRevision4
  <2>2. 4 \in 1 .. version
    BY DEF Latest
  <2>3. Done(Ensure({p}))
    BY <2>1, <2>2 DEF SchemaFits
  <2>4. p \notin Removable
    BY DEF Removable, Table, Keyed
  <2> QED BY <2>3, <2>4, MakingDone
<1>3. ASSUME NEW t \in Keyed, NEW part \in {"table", "sha", "raw"} PROVE <<t, part>> \in schema
  <2>0. version >= 4 /\ version >= 6
    BY DEF Latest
  <2>1. <<t, "table">> \in schema /\ <<t, "sha">> \in schema /\ <<t, "raw">> \in schema
    <3>1. Table(t) \in schema /\ <<t, "sha">> \in schema /\ <<t, "raw">> \in schema
      BY <2>0, Known
    <3> QED BY <3>1 DEF Table
  <2>2. part = "table" \/ part = "sha" \/ part = "raw"
    OBVIOUS
  <2> QED BY <2>1, <2>2
<1>4. UNION {Made(r) : r \in 1 .. 3} \subseteq schema
  BY <1>1
<1>5. Made(5) \subseteq schema
  BY <1>1
<1> DEFINE others == {<<t, part>> : t \in Keyed, part \in {"table", "sha", "raw"}}
<1>6. \A p \in others : \E t \in Keyed, part \in {"table", "sha", "raw"} : p = <<t, part>>
  OBVIOUS
<1>7. Models = (UNION {Made(r) : r \in 1 .. 3}) \union Made(5)
                 \union {Table("developer_keys"), Table("developer_rate_limits"),
                         <<"redeem_tasks", "public_id">>, <<"redeem_tasks", "unique_public_id">>}
                 \union others
  BY DEF Models
<1> HIDE DEF others
<1>8. ASSUME NEW p \in others PROVE p \in schema
  <2>1. PICK t \in Keyed, part \in {"table", "sha", "raw"} : p = <<t, part>>
    BY <1>6
  <2> QED BY <1>3, <2>1
<1> DEFINE plain == {Table("developer_keys"), Table("developer_rate_limits"),
                     <<"redeem_tasks", "public_id">>, <<"redeem_tasks", "unique_public_id">>}
           first == UNION {Made(r) : r \in 1 .. 3}
<1>9. plain \subseteq schema
  BY <1>2
<1>10. Models = first \union Made(5) \union plain \union others
  BY <1>7
<1> HIDE DEF plain, first
<1>11. first \union Made(5) \union plain \union others \subseteq schema
  <2>1. first \subseteq schema
    BY <1>4 DEF first
  <2> QED BY <1>5, <1>8, <1>9, <2>1
<1> QED BY <1>10, <1>11

(* Any database that an earlier revision has left.                           *)
LEMMA InitInv == MigrateInit => MigrateInv
<1> SUFFICES ASSUME MigrateInit PROVE MigrateInv
  OBVIOUS
<1>1. version \in 0 .. 5 /\ schema = UNION {Made(r) : r \in 1 .. version}
  BY DEF MigrateInit
<1>2. \A p \in schema : \E r \in 1 .. version : p \in Made(r)
  BY <1>1
<1>3. \A r \in 1 .. version : r \in 1 .. 5 /\ Made(r) \subseteq schema
  BY <1>1
<1>4. schema \in SUBSET Parts
  BY <1>2, <1>3, MadeOnce
<1>5. ASSUME NEW r \in 1 .. version, NEW j \in DOMAIN Script[r] PROVE Done(Script[r][j])
  <2>1. CASE Script[r][j] = Look
    BY <2>1 DEF Done, Look, Makers
  <2>2. CASE Script[r][j] # Look
    <3>1. Script[r][j].do \in Makers
      BY <1>3, <2>2, MadeKinds
    <3>2. Script[r][j].makes \subseteq schema
      BY <1>3, <2>2 DEF Made
    <3> QED BY <3>1, <3>2 DEF Done, Makers
  <2> QED BY <2>1, <2>2
<1>6. ASSUME NEW t \in Keyed, schema \intersect KeyedTable(t) # {}
      PROVE  KeyedTable(t) \subseteq schema
  <2>1. PICK p \in schema : p \in KeyedTable(t)
    BY <1>6
  <2>2. PICK r \in 1 .. version : p \in Made(r)
    BY <1>2
  <2>3. p \notin Single(r)
    BY <2>1 DEF Single
  <2>4. PICK u \in Keyed : p \in KeyedTable(u) /\ KeyedTable(u) \subseteq Made(r)
    BY <1>3, <2>2, <2>3, MadeOnce
  <2>5. u = t
    BY <2>1, <2>4 DEF KeyedTable, Table
  <2> QED BY <1>3, <2>4, <2>5
<1>7. ASSUME NEW t \in Keyed PROVE <<t, "unique_sha">> \notin schema
  <2> SUFFICES ASSUME <<t, "unique_sha">> \in schema PROVE FALSE
    OBVIOUS
  <2>1. PICK r \in 1 .. version : <<t, "unique_sha">> \in Made(r)
    BY <1>2
  <2>2. <<t, "unique_sha">> \notin Single(r)
    BY <1>3 DEF Single
  <2>3. \A u \in Keyed : <<t, "unique_sha">> \notin KeyedTable(u)
    BY DEF KeyedTable, Table
  <2> QED BY <1>3, <2>1, <2>2, <2>3, MadeOnce
<1>8. Seen(schema)
  BY <1>6 DEF Seen, KeyedTable
<1>9. SchemaFits
  <2>1. ASSUME NEW t \in Keyed, Table(t) \in schema PROVE <<t, "unique_key">> \in schema
    BY <1>6, <2>1 DEF KeyedTable
  <2> QED BY <1>1, <1>4, <1>5, <1>7, <1>8, <2>1 DEF SchemaFits, Latest
<1>10. UpgradesOn
  BY DEF MigrateInit, UpgradesOn, Progress
<1>11. RowsFit
  <2>1. rows = [t \in Keyed |-> {}] /\ admitted = [t \in Keyed |-> [k \in Key |-> 0]]
    BY DEF MigrateInit
  <2> QED BY <2>1 DEF RowsFit, Highest
<1>12. ApiFits
  BY MigrateAssumption DEF MigrateInit, ApiFits
<1> QED BY <1>9, <1>10, <1>11, <1>12 DEF MigrateInv

-----------------------------------------------------------------------------
(* One lemma per action.                                                     *)

(* An upgrade that has moved, beside others that have not.                   *)
LEMMA OthersStay ==
    ASSUME SchemaFits, UpgradesOn, Grows, NEW m \in Migrator, NEW g,
           migrator' = [migrator EXCEPT ![m] = g], Progress(g)'
    PROVE  UpgradesOn'
<1>1. \A o \in Migrator : migrator'[o] = IF o = m THEN g ELSE migrator[o]
  BY DEF UpgradesOn
<1>2. ASSUME NEW o \in Migrator PROVE Progress(migrator[o])'
  <2>1. CASE o = m
    BY <1>1, <2>1 DEF Progress, Seen
  <2>2. CASE o # m
    <3>1. PICK h : h = migrator[o]
      OBVIOUS
    <3>2. Progress(h)'
      BY <3>1, ProgressStays DEF UpgradesOn
    <3>3. migrator'[o] = h
      BY <1>1, <2>2, <3>1
    <3> QED BY <3>2, <3>3 DEF Progress, Seen
  <2> QED BY <2>1, <2>2
<1>3. migrator' = [o \in Migrator |-> migrator'[o]]
  BY DEF UpgradesOn
<1> QED BY <1>2, <1>3 DEF UpgradesOn

LEMMA SchemaKept ==
    ASSUME SchemaFits, version' = version, schema' = schema
    PROVE  Grows /\ SchemaFits'
BY SchemaSame, SchemaStays

LEMMA RowsKept ==
    ASSUME SchemaFits, RowsFit, UNCHANGED <<version, schema, rows, admitted>>
    PROVE  RowsFit'
BY SchemaKept, RowsStay

LEMMA StartUpgradeInv ==
    ASSUME MigrateInv, NEW m \in Migrator, StartUpgrade(m)
    PROVE  MigrateInv'
<1> DEFINE g == [rev |-> version + 1, at |-> 1, seen |-> {}]
<1>1. /\ version < Latest
      /\ migrator' = [migrator EXCEPT ![m] = [rev |-> version + 1, at |-> 1, seen |-> {}]]
      /\ UNCHANGED <<version, schema, rows, kills, api, admitted>>
  BY DEF StartUpgrade
<1>2. Grows /\ SchemaFits' /\ RowsFit'
  BY <1>1, SchemaKept, RowsKept DEF MigrateInv
<1>3. PICK h : h = g
  OBVIOUS
<1>4. h.rev = version + 1 /\ h.at = 1 /\ h.seen = {} /\ h.rev \in 1 .. Latest
  BY <1>1, <1>3 DEF MigrateInv, SchemaFits, Latest
<1>5. h \in [rev : 1 .. Latest, at : Nat, seen : SUBSET Parts]
  BY <1>3, <1>4
<1>6. h.at \in 1 .. Len(Script[h.rev]) + 1
  BY <1>4, Lengths
<1>7. Progress(h)'
  BY <1>1, <1>4, <1>5, <1>6 DEF Progress, Seen
<1>8. UpgradesOn'
  BY <1>1, <1>2, <1>3, <1>7, OthersStay DEF MigrateInv
<1>9. ApiFits'
  BY <1>1 DEF MigrateInv, ApiFits
<1> QED BY <1>2, <1>8, <1>9 DEF MigrateInv

(* An upgrade that is over, whichever way.                                   *)
LEMMA IdleAgain ==
    ASSUME SchemaFits, UpgradesOn, Grows, NEW m \in Migrator,
           migrator' = [migrator EXCEPT ![m] = Idle]
    PROVE  UpgradesOn'
<1>1. PICK g : g = Idle
  OBVIOUS
<1>2. Progress(g)'
  BY <1>1 DEF Progress
<1> QED BY <1>1, <1>2, OthersStay

LEMMA KillInv ==
    ASSUME MigrateInv, NEW m \in Migrator, Kill(m)
    PROVE  MigrateInv'
<1>1. Grows /\ SchemaFits' /\ RowsFit'
  BY SchemaKept, RowsKept DEF MigrateInv, Kill
<1>2. UpgradesOn'
  BY <1>1, IdleAgain DEF MigrateInv, Kill
<1>3. ApiFits'
  BY MigrateAssumption DEF MigrateInv, ApiFits, Kill
<1> QED BY <1>1, <1>2, <1>3 DEF MigrateInv

LEMMA UpgradesKept ==
    ASSUME SchemaFits, UpgradesOn, Grows, migrator' = migrator
    PROVE  UpgradesOn'
<1>1. ASSUME NEW o \in Migrator PROVE Progress(migrator[o])'
  <2>1. PICK h : h = migrator[o]
    OBVIOUS
  <2>2. Progress(h)'
    BY <2>1, ProgressStays DEF UpgradesOn
  <2>3. migrator'[o] = h
    BY <2>1
  <2> QED BY <2>2, <2>3 DEF Progress, Seen
<1> QED BY <1>1 DEF UpgradesOn

LEMMA StopApiInv ==
    ASSUME MigrateInv, StopApi
    PROVE  MigrateInv'
<1>1. Grows /\ SchemaFits' /\ RowsFit'
  BY SchemaKept, RowsKept DEF MigrateInv, StopApi
<1>2. UpgradesOn'
  BY <1>1, UpgradesKept DEF MigrateInv, StopApi
<1>3. ApiFits'
  BY DEF MigrateInv, ApiFits, StopApi
<1> QED BY <1>1, <1>2, <1>3 DEF MigrateInv

(* At the head create_all finds nothing to create.                           *)
LEMMA StartApiInv ==
    ASSUME MigrateInv, StartApi
    PROVE  MigrateInv'
<1>1. Models \subseteq schema
  BY ModelsMade DEF MigrateInv, StartApi
<1>2. schema' = schema
  <2>1. AutoCreated \subseteq Models
    BY DEF AutoCreated
  <2> QED BY <1>1, <2>1 DEF StartApi
<1>3. Grows /\ SchemaFits' /\ RowsFit'
  BY <1>2, SchemaKept, RowsKept DEF MigrateInv, StartApi
<1>4. UpgradesOn'
  BY <1>3, UpgradesKept DEF MigrateInv, StartApi
<1>5. ApiFits'
  BY DEF MigrateInv, ApiFits, StartApi
<1> QED BY <1>3, <1>4, <1>5 DEF MigrateInv

(* A statement that did not fail: the upgrade is one further.                *)
LEMMA AdvancedFits ==
    ASSUME SchemaFits, NEW m \in Migrator, Progress(migrator[m]), Running(m), ~ AtEnd(m),
           NEW s, s = Script[migrator[m].rev][migrator[m].at],
           Grows, Done(s)', NEW h, h = Advanced(m)
    PROVE  Progress(h)'
<1>1. PICK g : g = migrator[m]
  OBVIOUS
<1>2. PICK S : S = schema
  OBVIOUS
<1>3. /\ g \in [rev : 1 .. Latest, at : Nat, seen : SUBSET Parts]
      /\ g.rev \in 1 .. Latest /\ g.at \in Nat /\ g.seen \in SUBSET Parts
      /\ g.rev <= version + 1 /\ g.at \in 1 .. Len(Script[g.rev])
  <2>1. /\ g \in [rev : 1 .. Latest, at : Nat, seen : SUBSET Parts]
        /\ g.rev <= version + 1 /\ g.at \in 1 .. Len(Script[g.rev]) + 1
    BY <1>1 DEF Progress, Running
  <2>2. Len(Script[g.rev]) \in Nat /\ ~ (g.at > Len(Script[g.rev]))
    BY <1>1, <2>1, Lengths DEF AtEnd
  <2> QED BY <2>1, <2>2
<1>4. h = [g EXCEPT !.at = @ + 1, !.seen = IF s = Look THEN S ELSE @]
  BY <1>1, <1>2 DEF Advanced
<1>5. /\ h.rev = g.rev /\ h.at = g.at + 1
      /\ h.seen = IF s = Look THEN S ELSE g.seen
      /\ h = [rev |-> g.rev, at |-> g.at + 1, seen |-> IF s = Look THEN S ELSE g.seen]
  BY <1>3, <1>4
<1>6. S \in SUBSET Parts /\ Seen(S) /\ Seen(g.seen)
  BY <1>1, <1>2 DEF SchemaFits, Progress, Running
<1>7. Seen(h.seen)'
  <2>1. Seen(S)'
    BY <1>6, SeenStays
  <2>2. Seen(g.seen)'
    BY <1>6, SeenStays
  <2> QED BY <1>5, <2>1, <2>2
<1>8. h \in [rev : 1 .. Latest, at : Nat, seen : SUBSET Parts]
  BY <1>3, <1>5, <1>6
<1>9. h.at \in 1 .. Len(Script[h.rev]) + 1 /\ h.rev <= version' + 1
  <2>1. Len(Script[g.rev]) \in Nat
    BY <1>3, Lengths
  <2>2. h.at \in 1 .. Len(Script[h.rev]) + 1
    BY <1>3, <1>5, <2>1
  <2>3. version \in Nat /\ version' \in Nat /\ version <= version' /\ g.rev \in Nat
    BY <1>3 DEF SchemaFits, Grows, Latest
  <2> QED BY <1>3, <1>5, <2>2, <2>3
<1>10. ASSUME h.rev >= 5, NEW t \in Keyed PROVE <<t, "key">> \in h.seen
  <2>1. CASE s = Look
    <3>1. version >= 4
      BY <1>3, <1>5, <1>10 DEF SchemaFits, Latest
    <3>2. <<t, "key">> \in S
      BY <1>2, <3>1, Known
    <3> QED BY <1>5, <2>1, <3>2
  <2>2. CASE s # Look
    <3>1. g.rev \in {5, 6, 7}
      BY <1>3, <1>5, <1>10 DEF Latest
    <3>2. g.at # 1
      BY <1>1, <2>2, <3>1, LookFirst
    <3>3. <<t, "key">> \in g.seen
      BY <1>1, <1>3, <3>1, <3>2 DEF Progress, Running
    <3> QED BY <1>5, <2>2, <3>3
  <2> QED BY <2>1, <2>2
<1>11. ASSUME NEW j \in 1 .. h.at - 1 PROVE Done(Script[h.rev][j])'
  <2>1. CASE j = g.at
    <3>1. Script[h.rev][j] = s
      BY <1>1, <1>5, <2>1
    <3> QED BY <3>1
  <2>2. CASE j # g.at
    <3>1. j \in 1 .. g.at - 1
      BY <1>3, <1>5, <2>2
    <3>2. Done(Script[g.rev][j])
      BY <1>1, <3>1 DEF Progress, Running
    <3>3. Done(Script[g.rev][j])'
      BY <3>2, DoneStays
    <3> QED BY <1>5, <3>3
  <2> QED BY <2>1, <2>2
<1> QED BY <1>7, <1>8, <1>9, <1>10, <1>11 DEF Progress

LEMMA FillIsOn ==
    ASSUME NEW r \in 1 .. Latest, NEW i \in DOMAIN Script[r], Script[r][i].do = "fill"
    PROVE  \E t \in Keyed : Script[r][i] = On("fill", t)
<1> DEFINE s == Script[r][i]
<1>1. s \in Statements(r)
  BY StatementKinds
<1>2. s # Look
  BY DEF Look
<1>3. ASSUME s \in Singles(r) PROVE FALSE
  <2>1. PICK p \in Single(r) : s = Create({p}) \/ s = Ensure({p})
    BY <1>3 DEF Singles
  <2>2. s.do \in Makers
    BY <2>1, KindsOfMaking DEF Makers
  <2> QED BY <2>2 DEF Makers
<1>4. ASSUME s \in Wholes(r) PROVE FALSE
  <2>1. PICK t \in Keyed : s = Ensure(KeyedTable(t))
    BY <1>4 DEF Wholes
  <2>2. s.do = "ensure"
    BY <2>1, KindsOfMaking
  <2> QED BY <2>2
<1>5. PICK op \in Operations(r), t \in Keyed : s = On(op, t)
  BY <1>1, <1>2, <1>3, <1>4 DEF Statements, Ons
<1>6. op = "fill"
  BY <1>5, KindsOfOn
<1> QED BY <1>5, <1>6

LEMMA UpgradeStepInv ==
    ASSUME MigrateInv, NEW m \in Migrator, UpgradeStep(m)
    PROVE  MigrateInv'
<1>1. PICK s : s = Script[migrator[m].rev][migrator[m].at]
  OBVIOUS
<1> DEFINE fails == Needed(m, s) /\ Refused(s)
<1>2. /\ Running(m) /\ ~ AtEnd(m) /\ Progress(migrator[m]) /\ SchemaFits
  BY DEF MigrateInv, UpgradesOn, UpgradeStep
<1>3. /\ StatementRun(m, s)
      /\ rows' = IF s.do = "fill" THEN [rows EXCEPT ![s.table] = Backfilled(@)] ELSE rows
      /\ migrator' = [migrator EXCEPT ![m] = IF fails THEN Idle ELSE Advanced(m)]
      /\ UNCHANGED <<version, kills, api, admitted>>
  BY <1>1 DEF UpgradeStep, StatementRun
<1>4. Sound(m, s)
  BY <1>1, <1>2, <1>3, StatementSound
<1>5. Grows /\ SchemaFits'
  BY <1>2, <1>3, <1>4, SchemaStays DEF Sound
<1>6. UpgradesOn'
  <2>1. CASE fails
    BY <1>2, <1>3, <1>5, <2>1, IdleAgain DEF MigrateInv
  <2>2. CASE ~ fails
    <3>1. PICK h : h = Advanced(m)
      OBVIOUS
    <3>2. Done(s)'
      BY <1>4, <2>2 DEF Sound
    <3>3. Progress(h)'
      BY <1>1, <1>2, <1>5, <3>1, <3>2, AdvancedFits
    <3>4. migrator' = [migrator EXCEPT ![m] = h]
      BY <1>3, <2>2, <3>1
    <3> QED BY <1>2, <1>5, <3>3, <3>4, OthersStay DEF MigrateInv
  <2> QED BY <2>1, <2>2
<1>7. RowsFit'
  <2>1. CASE s.do = "fill"
    <3>1. migrator[m].rev \in 1 .. Latest /\ migrator[m].at \in DOMAIN Script[migrator[m].rev]
      BY <1>2, Lengths DEF Progress, Running, AtEnd
    <3>2. PICK t \in Keyed : s = On("fill", t)
      BY <1>1, <2>1, <3>1, FillIsOn
    <3>3. schema' = schema
      BY <1>3, <3>2, OnRuns DEF StatementRun
    <3>4. rows' = [rows EXCEPT ![t] = Backfilled(@)]
      BY <1>3, <2>1, <3>2, KindsOfOn
    <3> QED BY <1>3, <3>3, <3>4, FillKeeps DEF MigrateInv
  <2>2. CASE s.do # "fill"
    <3>1. rows' = rows /\ admitted' = admitted
      BY <1>3, <2>2
    <3>2. ASSUME NEW t \in Keyed, <<t, "sha_not_null">> \in schema'
          PROVE  <<t, "sha_not_null">> \in schema \/ ~ HasNull(t)
      BY <1>1, <1>2, <1>3, <3>2, RequiredOfFilled
    <3> QED BY <1>2, <1>5, <3>1, <3>2, RowsStay DEF MigrateInv
  <2> QED BY <2>1, <2>2
<1>8. ApiFits'
  BY <1>3 DEF MigrateInv, ApiFits
<1> QED BY <1>5, <1>6, <1>7, <1>8 DEF MigrateInv

(* A revision that is through has done all its statements.                   *)
LEMMA StampInv ==
    ASSUME MigrateInv, NEW m \in Migrator, Stamp(m)
    PROVE  MigrateInv'
<1>1. PICK g : g = migrator[m]
  OBVIOUS
<1>2. /\ g.rev \in 1 .. Latest /\ g.rev <= version + 1 /\ version \in 0 .. Latest
      /\ \A j \in DOMAIN Script[g.rev] : Done(Script[g.rev][j])
  <2>1. /\ g \in [rev : 1 .. Latest, at : Nat, seen : SUBSET Parts]
        /\ g.rev <= version + 1 /\ g.at \in 1 .. Len(Script[g.rev]) + 1
        /\ g.at > Len(Script[g.rev])
        /\ \A j \in 1 .. g.at - 1 : Done(Script[g.rev][j])
    BY <1>1 DEF Stamp, MigrateInv, UpgradesOn, Progress, Running, AtEnd
  <2>2. Len(Script[g.rev]) \in Nat /\ DOMAIN Script[g.rev] = 1 .. Len(Script[g.rev])
    BY <2>1, Lengths
  <2>3. g.at - 1 = Len(Script[g.rev])
    BY <2>1, <2>2
  <2> QED BY <2>1, <2>2, <2>3 DEF MigrateInv, SchemaFits
<1>3. UNCHANGED <<schema, rows, kills, api, admitted>>
  BY DEF Stamp
<1>4. CASE version # g.rev - 1
  <2>1. version' = version /\ migrator' = [migrator EXCEPT ![m] = Idle]
    BY <1>1, <1>4 DEF Stamp
  <2>2. Grows /\ SchemaFits' /\ RowsFit'
    BY <1>3, <2>1, SchemaKept, RowsKept DEF MigrateInv
  <2>3. UpgradesOn'
    BY <2>1, <2>2, IdleAgain DEF MigrateInv
  <2>4. ApiFits'
    BY <1>3, <2>1 DEF MigrateInv, ApiFits
  <2> QED BY <2>2, <2>3, <2>4 DEF MigrateInv
<1>5. CASE version = g.rev - 1
  <2> DEFINE next == [rev |-> g.rev + 1, at |-> 1, seen |-> {}]
  <2>1. /\ version' = g.rev
        /\ migrator' = [migrator EXCEPT ![m] = IF g.rev < Latest THEN next ELSE Idle]
    BY <1>1, <1>5 DEF Stamp
  <2>2. Seen(schema)'
    BY <1>3 DEF MigrateInv, SchemaFits, Seen
  <2>3. Grows
    <3>1. version' \in 0 .. Latest /\ version <= version'
      BY <1>2, <1>5, <2>1 DEF Latest
    <3> QED BY <1>3, <2>2, <3>1 DEF MigrateInv, SchemaFits, Grows
  <2>4. ASSUME NEW r \in 1 .. version', NEW j \in DOMAIN Script[r] PROVE Done(Script[r][j])'
    <3>1. Done(Script[r][j])
      <4>1. CASE r = g.rev
        BY <1>2, <4>1
      <4>2. CASE r # g.rev
        <5>1. r \in 1 .. version
          BY <1>2, <1>5, <2>1, <4>2
        <5> QED BY <5>1 DEF MigrateInv, SchemaFits
      <4> QED BY <4>1, <4>2
    <3> QED BY <2>3, <3>1, DoneStays
  <2>5. SchemaFits'
    BY <1>2, <1>3, <1>5, <2>1, <2>2, <2>4 DEF MigrateInv, SchemaFits
  <2>6. UpgradesOn'
    <3>1. CASE g.rev < Latest
      <4>1. PICK h : h = next
        OBVIOUS
      <4>2. h.rev = g.rev + 1 /\ h.at = 1 /\ h.seen = {} /\ h.rev \in 1 .. Latest
        BY <1>2, <3>1, <4>1 DEF Latest
      <4>3. h \in [rev : 1 .. Latest, at : Nat, seen : SUBSET Parts]
        BY <4>1, <4>2
      <4>4. h.at \in 1 .. Len(Script[h.rev]) + 1
        BY <4>2, Lengths
      <4>5. Progress(h)'
        BY <1>2, <2>1, <4>2, <4>3, <4>4 DEF Progress, Seen
      <4>6. migrator' = [migrator EXCEPT ![m] = h]
        BY <2>1, <3>1, <4>1
      <4> QED BY <2>3, <4>5, <4>6, OthersStay DEF MigrateInv
    <3>2. CASE ~ (g.rev < Latest)
      BY <2>1, <2>3, <3>2, IdleAgain DEF MigrateInv
    <3> QED BY <3>1, <3>2
  <2>7. RowsFit'
    BY <1>3, <2>3, RowsStay DEF MigrateInv
  <2>8. ApiFits'
    BY <1>2, <1>3, <1>5, <2>1 DEF MigrateInv, ApiFits, Latest
  <2> QED BY <2>5, <2>6, <2>7, <2>8 DEF MigrateInv
<1> QED BY <1>4, <1>5

(* Revision 6 never leaves the old API a table without an index over keys    *)
(* to insert in.                                                             *)
LEMMA OldInsertFits ==
    ASSUME MigrateInv, NEW t \in Keyed, NEW k \in Key, OldInsert(t, k)
    PROVE  \E new \in Row :
             /\ rows' = [rows EXCEPT ![t] = @ \union {new}]
             /\ RowFits(new) /\ KeyOf(new) = k /\ new.id = NextId(t)
             /\ <<t, "sha_not_null">> \notin schema
             /\ \A row \in rows[t] : KeyOf(row) # k
<1> DEFINE new == [id |-> NextId(t), key |-> k, raw |-> None, sha |-> None]
<1>1. version >= 5 /\ <<t, "sha_not_null">> \notin schema
  BY DEF OldInsert, MigrateInv, ApiFits
<1>2. ~ (version >= 6) /\ version >= 4 /\ version # Latest
  <2>1. ~ (version >= 6)
    BY <1>1, Known DEF MigrateInv
  <2>2. version \in 0 .. 7
    BY DEF MigrateInv, SchemaFits, Latest
  <2> QED BY <1>1, <2>1, <2>2 DEF Latest
<1>3. Table(t) \in schema
  BY <1>2, Known DEF MigrateInv
<1>4. <<t, "unique_key">> \in schema
  BY <1>2, <1>3 DEF MigrateInv, SchemaFits
<1>5. ASSUME NEW row \in rows[t] PROVE KeyOf(row) # k
  <2>1. row.key # k
    BY <1>4 DEF OldInsert
  <2>2. row.key # None
    BY <1>2 DEF MigrateInv, RowsFit, RowFits
  <2> QED BY <2>1, <2>2 DEF KeyOf, Coalesce
<1>6. NextId(t) \in Nat
  BY NextIdIsHigher DEF MigrateInv
<1>7. new \in Row
  BY <1>6 DEF Row
<1>8. KeyOf(new) = k /\ RowFits(new)
  BY MigrateAssumption DEF RowFits, KeyOf, Coalesce
<1>9. rows' = [rows EXCEPT ![t] = @ \union {new}]
  BY DEF OldInsert
<1>10. new.id = NextId(t)
  OBVIOUS
<1> HIDE DEF new
<1> QED BY <1>1, <1>5, <1>7, <1>8, <1>9, <1>10

(* The new API meets the hash of every key that was admitted before.         *)
LEMMA NewInsertFits ==
    ASSUME MigrateInv, NEW t \in Keyed, NEW k \in Key, NewInsert(t, k)
    PROVE  \E new \in Row :
             /\ rows' = [rows EXCEPT ![t] = @ \union {new}]
             /\ RowFits(new) /\ KeyOf(new) = k /\ new.id = NextId(t)
             /\ new.sha # None
             /\ \A row \in rows[t] : KeyOf(row) # k
<1> DEFINE new == [id |-> NextId(t), key |-> None, raw |-> k, sha |-> k]
<1>1. version = Latest
  BY DEF NewInsert, MigrateInv, ApiFits
<1>2. <<t, "unique_sha">> \in schema /\ <<t, "sha_not_null">> \in schema
  <2>1. version >= 6 /\ version >= 7
    BY <1>1 DEF Latest
  <2> QED BY <2>1, Known DEF MigrateInv
<1>3. ASSUME NEW row \in rows[t] PROVE KeyOf(row) # k
  <2>1. row.sha # k
    BY <1>2 DEF NewInsert, UniqueSha
  <2>2. row.sha # None /\ row.sha \in {None, KeyOf(row)}
    BY <1>2 DEF MigrateInv, RowsFit, RowFits
  <2> QED BY <2>1, <2>2
<1>4. NextId(t) \in Nat
  BY NextIdIsHigher DEF MigrateInv
<1>5. new \in Row
  BY <1>4 DEF Row
<1>6. KeyOf(new) = k /\ RowFits(new) /\ new.sha # None
  BY <1>1, MigrateAssumption DEF RowFits, KeyOf, Coalesce
<1>7. rows' = [rows EXCEPT ![t] = @ \union {new}]
  BY DEF NewInsert
<1>8. new.id = NextId(t)
  OBVIOUS
<1> HIDE DEF new
<1> QED BY <1>3, <1>5, <1>6, <1>7, <1>8

LEMMA AdmitKeyInv ==
    ASSUME MigrateInv, NEW t \in Keyed, NEW k \in Key, AdmitKey(t, k)
    PROVE  MigrateInv'
<1>1. PICK new \in Row :
        /\ rows' = [rows EXCEPT ![t] = @ \union {new}]
        /\ RowFits(new) /\ KeyOf(new) = k /\ new.id = NextId(t)
        /\ <<t, "sha_not_null">> \in schema => new.sha # None
        /\ \A row \in rows[t] : KeyOf(row) # k
  BY OldInsertFits, NewInsertFits DEF AdmitKey
<1>2. /\ admitted' = [admitted EXCEPT ![t][k] = @ + 1]
      /\ UNCHANGED <<version, schema, migrator, kills, api>>
  BY DEF AdmitKey
<1>3. RowsFit'
  BY <1>1, <1>2, RowAdded DEF MigrateInv
<1>4. Grows /\ SchemaFits'
  BY <1>2, SchemaKept DEF MigrateInv
<1>5. UpgradesOn'
  BY <1>2, <1>4, UpgradesKept DEF MigrateInv
<1>6. ApiFits'
  BY <1>2 DEF MigrateInv, ApiFits
<1> QED BY <1>3, <1>4, <1>5, <1>6 DEF MigrateInv

-----------------------------------------------------------------------------
LEMMA NextInv ==
    ASSUME MigrateInv, [MigrateNext]_vars
    PROVE  MigrateInv'
<1>1. CASE UNCHANGED vars
  <2>1. Grows /\ SchemaFits' /\ RowsFit'
    BY <1>1, SchemaKept, RowsKept DEF MigrateInv, vars
  <2>2. UpgradesOn'
    BY <1>1, <2>1, UpgradesKept DEF MigrateInv, vars
  <2>3. ApiFits'
    BY <1>1 DEF MigrateInv, ApiFits, vars
  <2> QED BY <2>1, <2>2, <2>3 DEF MigrateInv
<1>2. ASSUME NEW m \in Migrator, Upgrade(m) PROVE MigrateInv'
  BY <1>2, StartUpgradeInv, UpgradeStepInv, StampInv DEF Upgrade
<1>3. ASSUME NEW m \in Migrator, Kill(m) PROVE MigrateInv'
  BY <1>3, KillInv
<1>4. ASSUME NEW t \in Keyed, NEW k \in Key, AdmitKey(t, k) PROVE MigrateInv'
  BY <1>4, AdmitKeyInv
<1> QED BY <1>1, <1>2, <1>3, <1>4, StopApiInv, StartApiInv DEF MigrateNext

(* However many upgrades run at once and however often one is killed, what a *)
(* revision has done stays done, the tables keep a unique index and every    *)
(* key has at most one row.                                                  *)
THEOREM MigrationsSound == MigrateSpec => []MigrateInv
<1>1. MigrateInit => MigrateInv
  BY InitInv
<1>2. MigrateInv /\ [MigrateNext]_vars => MigrateInv'
  BY NextInv
<1> QED BY <1>1, <1>2, PTL DEF MigrateSpec

(* The schema never holds a part that no revision and no model knows, no     *)
(* upgrade is beyond the head, and what it saw is no more than there is.     *)
THEOREM MigrateTypeCorrect == MigrateSpec => []MigrateTypeOK
<1>1. MigrateInv => MigrateTypeOK
  <2> SUFFICES ASSUME MigrateInv PROVE MigrateTypeOK
    OBVIOUS
  <2>1. version \in 0 .. Latest /\ kills \in 0 .. MaxKills /\ api \in {"down", "old", "new"}
    BY DEF MigrateInv, SchemaFits, ApiFits
  <2>2. schema \subseteq Parts
    BY DEF MigrateInv, SchemaFits
  <2>3. (\A t \in Keyed : rows[t] \subseteq Row) /\ admitted \in [Keyed -> [Key -> 0 .. 2]]
    BY DEF MigrateInv, RowsFit
  <2>4. ASSUME NEW m \in Migrator
        PROVE  migrator[m].rev \in 0 .. Latest /\ migrator[m].seen \subseteq schema \union Removable
    <3>1. CASE migrator[m] = Idle
      BY <3>1 DEF Idle, Latest
    <3>2. CASE migrator[m] # Idle
      <4>1. migrator[m].rev \in 1 .. Latest /\ Seen(migrator[m].seen)
        BY <3>2 DEF MigrateInv, UpgradesOn, Progress
      <4> QED BY <4>1 DEF Seen, Latest
    <3> QED BY <3>1, <3>2
  <2> QED BY <2>1, <2>2, <2>3, <2>4 DEF MigrateTypeOK, Parts, Removable
<1> QED BY <1>1, MigrationsSound, PTL

(* An API that has passed the startup check finds all that its models use,   *)
(* a unique index over the hashes, a hash in every row, and no column that   *)
(* it does not fill and that must not be null (_ensure_db_schema_current).   *)
THEOREM ServedSchemaIsCurrent == MigrateSpec => []ServesCurrentSchema
<1>1. MigrateInv => ServesCurrentSchema
  <2> SUFFICES ASSUME MigrateInv, api = "new" PROVE
        /\ Models \subseteq schema
        /\ \A t \in Keyed : /\ UniqueSha(t) /\ ~HasNull(t)
                            /\ <<t, "sha_not_null">> \in schema
                            /\ <<t, "key_not_null">> \notin schema
    BY DEF ServesCurrentSchema
  <2>1. version = Latest
    BY DEF MigrateInv, ApiFits
  <2>2. Models \subseteq schema
    BY <2>1, ModelsMade DEF MigrateInv
  <2>3. ASSUME NEW t \in Keyed
        PROVE  /\ UniqueSha(t) /\ ~HasNull(t)
               /\ <<t, "sha_not_null">> \in schema /\ <<t, "key_not_null">> \notin schema
    <3>0. version >= 6 /\ version >= 7
      BY <2>1 DEF Latest
    <3>1. /\ <<t, "unique_sha">> \in schema /\ <<t, "sha_not_null">> \in schema
          /\ <<t, "key_not_null">> \notin schema
      BY <3>0, Known DEF MigrateInv
    <3>2. ~HasNull(t)
      BY <3>1 DEF MigrateInv, RowsFit, HasNull
    <3> QED BY <3>1, <3>2 DEF UniqueSha
  <2> QED BY <2>2, <2>3
<1> QED BY <1>1, MigrationsSound, PTL

(* A nonce or an idempotency key is taken for a new one once, by the API of  *)
(* revision 5 or by this one, whatever upgrades ran or broke off in between  *)
(* (revisions 6 and 7).                                                      *)
THEOREM KeysAdmittedOnce == MigrateSpec => []KeyAdmittedOnce
<1>1. MigrateInv => KeyAdmittedOnce
  <2> SUFFICES ASSUME MigrateInv, NEW t \in Keyed, NEW k \in Key PROVE admitted[t][k] <= 1
    BY DEF KeyAdmittedOnce
  <2>1. admitted[t][k] = IF \E row \in rows[t] : KeyOf(row) = k THEN 1 ELSE 0
    BY DEF MigrateInv, RowsFit
  <2> QED BY <2>1
<1> QED BY <1>1, MigrationsSound, PTL
=============================================================================
