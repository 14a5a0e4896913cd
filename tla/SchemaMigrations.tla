---------------------------- MODULE SchemaMigrations ----------------------------
(***************************************************************************)
(* The alembic migrations of the backend, statement by statement, on the   *)
(* two databases that the application can be pointed to.                   *)
(*                                                                         *)
(* PostgreSQL runs a whole command of alembic in one transaction.  With    *)
(* SQLite a statement that defines something takes effect at once, unless  *)
(* a statement that writes rows has opened a transaction before it, and    *)
(* every migration ends with a commit.  The application's engine enforces  *)
(* foreign keys on SQLite (database.py:18), so that dropping a table there *)
(* deletes its rows first, with what ON DELETE says of the rows of others. *)
(*                                                                         *)
(* A row stands for all rows of its kind; what a nullable reference, or a  *)
(* peculiar value, adds to a row is a row of its own in the same table.    *)
(* A table is created together with its indexes that are not unique, and   *)
(* the tables and columns that no row of the model uses are named too.     *)
(***************************************************************************)
EXTENDS Naturals, Sequences, FiniteSets, SequencesExt

CONSTANTS
  Dialects,  \* of the databases: "postgresql", "sqlite"
  Worlds,    \* the sets of rows of which a database may hold some
  Stops      \* the revisions that the operator asks for

-----------------------------------------------------------------------------
(* Rows: the table, the rows it goes with (CASCADE, or SET NULL for a      *)
(* reference), the rows it keeps (RESTRICT), and the columns it uses that  *)
(* its table has not always had.                                           *)

Kind(table, with, keeps, uses) == [table |-> table, with |-> with, keeps |-> keeps, uses |-> uses]
Plain(table, with) == Kind(table, with, {}, {})

Kinds ==
  [company       |-> Plain("companies", {}),
   odd_website   |-> Plain("companies", {"company"}),
   filing        |-> Plain("regulatory_filings", {"company"}),
   twin_filing   |-> Plain("regulatory_filings", {"filing"}),
   odd_filing    |-> Plain("regulatory_filings", {"company"}),
   document      |-> Plain("source_documents", {}),
   twin_document |-> Plain("source_documents", {"document"}),
   request       |-> Plain("collection_requests", {}),
   twin_request  |-> Plain("collection_requests", {"request"}),
   run           |-> Plain("crawl_runs", {}),
   claim         |-> Kind("crawl_runs", {"run"}, {}, {"claim_token"}),
   posting       |-> Plain("job_postings", {"company"}),
   part_time     |-> Kind("job_postings", {"posting"}, {}, {"new job types"}),
   source        |-> Plain("job_sources", {"posting"}),
   entry         |-> Plain("job_entries", {"company"}),
   snapshot      |-> Plain("job_collection_snapshots", {"entry"}),
   listed        |-> Kind("job_sources", {"source", "entry", "snapshot"}, {}, {"job_entry_id", "last_seen_snapshot_id"}),
   manifest      |-> Plain("company_manifests", {}),
   observation   |-> Plain("entry_discovery_observations", {"manifest"}),
   accepted      |-> Kind("entry_discovery_observations", {"observation"}, {"entry"}, {}),
   round         |-> Kind("entry_discovery_rounds", {}, {"manifest"}, {}),
   next_round    |-> Kind("entry_discovery_rounds", {}, {"round"}, {}),
   in_round      |-> Kind("entry_discovery_observations", {"observation"}, {"round"}, {"discovery_round_id"}),
   successor     |-> Kind("entry_discovery_observations", {}, {"next_round", "in_round"}, {"predecessor_observation_id"}),
   sample        |-> Kind("entry_evidence_audit_samples", {}, {"in_round"}, {}),
   severe        |-> Kind("entry_evidence_audit_findings", {}, {"sample"}, {}),
   quarantine    |-> Kind("entry_evidence_quarantines", {}, {"severe"}, {}),
   ranking       |-> Plain("company_ranking_snapshots", {"company"}),
   evidence      |-> Kind("company_ranking_snapshot_evidence", {"ranking"}, {"document"}, {})]
Rows == DOMAIN Kinds

ASSUME MigrationsAssumption ==
  Dialects \subseteq {"postgresql", "sqlite"} /\ Worlds \subseteq SUBSET Rows /\ Stops \subseteq Nat

In(table) == {r \in Rows : Kinds[r].table = table}
Uses(r) == {<<Kinds[r].table>>} \cup {<<Kinds[r].table, c>> : c \in Kinds[r].uses}
Parents(r) == Kinds[r].with \cup Kinds[r].keeps

\* The rows that stay when only some do: those whose lines of rows to go with
\* are unbroken.
Line(r) == LET further(rows) == rows \cup UNION {Kinds[p].with : p \in rows} IN further(further(further({r})))
Lines == [r \in Rows |-> Line(r)]
Staying(rows) == {r \in rows : Lines[r] \subseteq rows}

-----------------------------------------------------------------------------
(* Statements.  An object is a table, <<table>>, or a column, constraint   *)
(* or trigger of one.                                                      *)

Each(do, table, items) == [i \in DOMAIN items |-> [do |-> do, at |-> <<table, items[i]>>]]
Tables(do, tables) == [i \in DOMAIN tables |-> [do |-> do, at |-> <<tables[i]>>]]
Make(tables) == Tables("make", tables)
Discard(tables) == Tables("discard", tables)
Add(table, items) == Each("make", table, items)
Cut(table, items) == Each("remove", table, items)
Do(what) == <<[do |-> what, at |-> <<"rows">>]>>

\* batch_alter_table: on SQLite the table is copied into a new one, dropped and
\* replaced.  The rows of the saved tables were put aside before.
Batch(d, table, added, removed, saved) ==
  IF d = "postgresql" THEN Cut(table, removed) \o Add(table, added)
  ELSE Add("_alembic_tmp", <<table>>)
         \o <<[do |-> "replace", at |-> <<table>>, added |-> Range(added), removed |-> Range(removed), saved |-> saved]>>

Upgrade0001 ==
  Make(<<"companies", "source_documents", "company_aliases", "company_sources", "job_postings", "job_sources",
         "regulatory_filings", "collection_requests", "crawl_runs">>)
    \o Add("job_postings", <<"old job types">>) \o Add("regulatory_filings", <<"uq_filing_type_number">>)
Downgrade0001 ==
  Discard(<<"crawl_runs", "collection_requests", "regulatory_filings", "job_sources", "job_postings",
            "company_sources", "company_aliases", "source_documents", "companies">>)

Upgrade0002 == Add("collection_requests", <<"uq_collection_requests_active_query">>)
Downgrade0002 == Cut("collection_requests", <<"uq_collection_requests_active_query">>)

Upgrade0003 == Add("source_documents", <<"uq_source_document_provider_url_hash">>)
Downgrade0003 == Cut("source_documents", <<"uq_source_document_provider_url_hash">>)

Upgrade0004 == Add("crawl_runs", <<"claim_token">>) \o Do("claim running runs")
Downgrade0004 == Cut("crawl_runs", <<"claim_token">>)

FaultyUpgrade0005(d) == Batch(d, "job_postings", <<"new job types">>, <<"old job types">>, {})
Upgrade0005(d) == Batch(d, "job_postings", <<"new job types">>, <<"old job types">>, {"job_sources"})
Downgrade0005(d) ==
  Do("forget new job types") \o Batch(d, "job_postings", <<"old job types">>, <<"new job types">>, {"job_sources"})

Upgrade0006 == Make(<<"job_entries", "job_collection_snapshots">>)
Downgrade0006 == Discard(<<"job_collection_snapshots", "job_entries">>)

LifecycleColumns == <<"job_entry_id", "last_seen_snapshot_id", "missing_complete_snapshots", "lifecycle_managed">>
Upgrade0007(d) == Batch(d, "job_sources", LifecycleColumns, <<>>, {})
Downgrade0007(d) == Batch(d, "job_sources", <<>>, Reverse(LifecycleColumns), {})

Upgrade0008 ==
  Add("job_entries", <<"uq_job_entries_id_company">>)
    \o Make(<<"candidate_facts", "candidate_reviews", "company_manifests", "company_manifest_members",
              "entry_discovery_observations">>)
Downgrade0008 ==
  Discard(<<"entry_discovery_observations", "company_manifest_members", "company_manifests", "candidate_reviews",
            "candidate_facts">>)
    \o Cut("job_entries", <<"uq_job_entries_id_company">>)

\* The filings are looked through before SQLite defines anything.
FaultyPreflight(d) == <<>>
Preflight(d) == IF d = "sqlite" THEN Do("preflight filings") ELSE <<>>
Normalize == Do("normalize websites") \o Do("normalize filings") \o Do("look for twin filings")
Upgrade0009(d) ==
  Preflight(d)
    \o Add("companies", <<"normalized_website">>) \o Add("regulatory_filings", <<"normalized_filing_number">>)
    \o Normalize
    \o Batch(d, "regulatory_filings", <<"uq_filing_type_normalized_number">>, <<"uq_filing_type_number">>, {})
    \o Make(<<"company_identity_review_items", "company_identity_review_decisions">>)
    \o (IF d = "sqlite" THEN <<>> ELSE Add("companies", <<"trgm">>) \o Add("company_aliases", <<"trgm">>))
Downgrade0009(d) ==
  (IF d = "sqlite" THEN <<>> ELSE Cut("company_aliases", <<"trgm">>) \o Cut("companies", <<"trgm">>))
    \o Discard(<<"company_identity_review_decisions", "company_identity_review_items">>)
    \o Batch(d, "regulatory_filings", <<"uq_filing_type_number">>,
             <<"uq_filing_type_normalized_number", "normalized_filing_number">>, {})
    \o Cut("companies", <<"normalized_website">>)

RoundColumns == <<"discovery_round_id", "predecessor_observation_id">>
Upgrade0010(d) ==
  Make(<<"entry_discovery_rounds">>) \o Batch(d, "entry_discovery_observations", RoundColumns, <<>>, {})
    \o Make(<<"entry_evidence_audit_samples", "entry_evidence_audit_findings">>)
FaultyDowngrade0010(d) ==
  Discard(<<"entry_evidence_audit_findings", "entry_evidence_audit_samples", "entry_discovery_rounds">>)
    \o Batch(d, "entry_discovery_observations", <<>>, Reverse(RoundColumns), {})
Downgrade0010(d) ==
  Discard(<<"entry_evidence_audit_findings", "entry_evidence_audit_samples">>)
    \o Batch(d, "entry_discovery_observations", <<>>, Reverse(RoundColumns), {})
    \o Discard(<<"entry_discovery_rounds">>)

MembershipColumns == <<"membership_fingerprint", "intended_member_count">>
EvidenceColumns ==
  <<"public_evidence", "model_assessment", "independent_validation", "prompt_fingerprint", "schema_fingerprint",
    "policy_fingerprint", "registry_fingerprint">>
Guards(do) ==
  LET tables == <<"entry_discovery_rounds", "entry_evidence_audit_samples", "entry_evidence_audit_findings",
                  "entry_evidence_quarantines", "entry_discovery_observations", "company_manifests">>
  IN [i \in DOMAIN tables |-> [do |-> do, at |-> <<tables[i], "guard">>]]
Upgrade0011 ==
  Add("entry_discovery_rounds", MembershipColumns) \o Add("entry_discovery_observations", EvidenceColumns)
    \o Make(<<"entry_evidence_quarantines">>) \o Do("quarantine severe findings") \o Guards("make")
FaultyDowngrade0011 ==
  Discard(<<"entry_evidence_quarantines">>)
    \o Cut("entry_discovery_observations", Reverse(EvidenceColumns))
    \o Cut("entry_discovery_rounds", Reverse(MembershipColumns))
Downgrade0011 ==
  Guards("remove") \o Discard(<<"entry_evidence_quarantines">>)
    \o Cut("entry_discovery_observations", Reverse(EvidenceColumns))
    \o Cut("entry_discovery_rounds", Reverse(MembershipColumns))

Upgrade0012 ==
  Add("regulatory_filings", <<"verification_status">>) \o Add("job_sources", <<"verification_status">>)
    \o Add("company_sources", <<"field_verification">>)
Downgrade0012 ==
  Cut("company_sources", <<"field_verification">>) \o Cut("job_sources", <<"verification_status">>)
    \o Cut("regulatory_filings", <<"verification_status">>)

Upgrade0013 == Add("companies", <<"headquarters", "founded_year">>)
Downgrade0013 == Cut("companies", <<"founded_year", "headquarters">>)

Upgrade0014 == Make(<<"company_profile_fields">>)
Downgrade0014 == Discard(<<"company_profile_fields">>)

Upgrade0015 == Make(<<"funding_events", "funding_investors", "funding_event_sources">>)
Downgrade0015 == Discard(<<"funding_event_sources", "funding_investors", "funding_events">>)

Upgrade0016 == Make(<<"import_batches", "import_items">>)
Downgrade0016 == Discard(<<"import_items", "import_batches">>)

PrimaryColumns == <<"is_primary", "verification_status", "verified_at">>
Upgrade0017(d) ==
  Batch(d, "job_entries", PrimaryColumns, <<>>, {}) \o Add("job_entries", <<"uq_job_entries_primary_per_company">>)
Downgrade0017(d) ==
  Cut("job_entries", <<"uq_job_entries_primary_per_company">>)
    \o Batch(d, "job_entries", <<>>, Reverse(PrimaryColumns), {})

Upgrade0018 ==
  Make(<<"ranking_pilots", "ranking_pilot_members", "company_ranking_snapshots", "company_ranking_snapshot_evidence">>)
Downgrade0018 ==
  Discard(<<"company_ranking_snapshot_evidence", "company_ranking_snapshots", "ranking_pilot_members", "ranking_pilots">>)

\* Columns alone, with defaults that are not expressions, are added without a copy.
StageColumns == <<"raw_component_scores", "stage_percentiles", "evidence_coverage", "company_stage", "eligibility_reasons">>
Upgrade0019 ==
  Make(<<"ranking_collection_runs", "company_ranking_signals">>) \o Add("company_ranking_snapshots", StageColumns)
Downgrade0019(d) ==
  Batch(d, "company_ranking_snapshots", <<>>, Reverse(StageColumns), {})
    \o Discard(<<"company_ranking_signals", "ranking_collection_runs">>)

ProfileColumns ==
  <<"established_at", "province", "district", "company_type", "registered_capital", "paid_in_capital",
    "industry_sector", "industry_middle", "insured_employee_count", "employee_report_year", "business_scope">>
Upgrade0020 == Add("companies", ProfileColumns)
Downgrade0020 == Cut("companies", Reverse(ProfileColumns))

AnchorColumns == <<"legal_name", "tianyancha_company_id", "uscc_sha256", "identity_anchor_status", "identity_anchored_at">>
Upgrade0021 == Add("companies", AnchorColumns)
Downgrade0021 == Cut("companies", Reverse(AnchorColumns))

Latest == 21
Upgrades == [d \in Dialects |->
  <<Upgrade0001, Upgrade0002, Upgrade0003, Upgrade0004, Upgrade0005(d), Upgrade0006, Upgrade0007(d), Upgrade0008,
    Upgrade0009(d), Upgrade0010(d), Upgrade0011, Upgrade0012, Upgrade0013, Upgrade0014, Upgrade0015, Upgrade0016,
    Upgrade0017(d), Upgrade0018, Upgrade0019, Upgrade0020, Upgrade0021>>]
Downgrades == [d \in Dialects |->
  <<Downgrade0001, Downgrade0002, Downgrade0003, Downgrade0004, Downgrade0005(d), Downgrade0006, Downgrade0007(d),
    Downgrade0008, Downgrade0009(d), Downgrade0010(d), Downgrade0011, Downgrade0012, Downgrade0013, Downgrade0014,
    Downgrade0015, Downgrade0016, Downgrade0017(d), Downgrade0018, Downgrade0019(d), Downgrade0020, Downgrade0021>>]

-----------------------------------------------------------------------------
(* What a statement does.                                                  *)

Placed(rows, objects) == Staying({r \in rows : Uses(r) \subseteq objects})

Makes(s) ==
  CASE s.do = "make" -> {s.at}
    [] s.do = "replace" -> {<<s.at[1], x>> : x \in s.added}
    [] OTHER -> {}
Loses(s, objects) ==
  CASE s.do = "remove" -> {s.at}
    [] s.do = "discard" -> {o \in objects : o[1] = s.at[1]}
    [] s.do = "replace" -> {<<"_alembic_tmp", s.at[1]>>} \cup {<<s.at[1], x>> : x \in s.removed}
    [] OTHER -> {}
ObjectsAfter(objects, s) == (objects \ Loses(s, objects)) \cup Makes(s)

\* The schema that the upgrades to a version make: none makes again what one
\* before it has removed.
Schema == [d \in Dialects, v \in 0 .. Latest |->
  LET run == UNION {Range(Upgrades[d][u]) : u \in 1 .. v}
  IN {o \in UNION {Makes(s) : s \in run} : \A s \in run : o \notin Loses(s, {})}]

\* What an index or a constraint does not admit.
Barred(object) ==
  CASE object = <<"collection_requests", "uq_collection_requests_active_query">> -> {"twin_request"}
    [] object = <<"source_documents", "uq_source_document_provider_url_hash">> -> {"twin_document"}
    [] object = <<"regulatory_filings", "uq_filing_type_normalized_number">> -> {"twin_filing"}
    [] object = <<"job_postings", "old job types">> -> {"part_time"}
    [] OTHER -> {}

\* Deleting the rows of a table that others keep fails, also when those are to
\* be deleted with them: they were inserted later.
Kept(rows, table) == \E r \in rows : Kinds[r].keeps \cap In(table) # {}
Referred(objects, table) ==
  \E r \in Rows : Kinds[r].table # table /\ Uses(r) \subseteq objects /\ Parents(r) \cap In(table) # {}

Raises(d, db, s) ==
  CASE s.do = "make" -> s.at \in db.objects \/ Barred(s.at) \cap db.rows # {}
    [] s.do = "remove" -> s.at \notin db.objects
    [] s.do = "discard" -> IF d = "sqlite" THEN Kept(db.rows, s.at[1]) ELSE Referred(db.objects, s.at[1])
    [] s.do = "replace" -> Kept(db.rows, s.at[1]) \/ \E x \in s.added : Barred(<<s.at[1], x>>) \cap db.rows # {}
    [] s.do = "preflight filings" -> {"twin_filing", "odd_filing"} \cap db.rows # {}
    [] s.do = "normalize websites" -> "odd_website" \in db.rows
    [] s.do = "normalize filings" -> "odd_filing" \in db.rows
    [] s.do = "look for twin filings" -> "twin_filing" \in db.rows
    [] OTHER -> FALSE

RowsAfter(db, s, objects) ==
  CASE s.do = "claim running runs" -> IF "run" \in db.rows THEN db.rows \cup {"claim"} ELSE db.rows
    [] s.do = "quarantine severe findings" -> IF "severe" \in db.rows THEN db.rows \cup {"quarantine"} ELSE db.rows
    [] s.do = "forget new job types" -> db.rows \ {"part_time"}
    [] s.do = "discard" -> Placed(db.rows \ In(s.at[1]), objects)
    [] s.do = "replace" ->
         Placed(Staying(db.rows \ In(s.at[1])) \cup (db.rows \cap UNION {In(t) : t \in s.saved \cup {s.at[1]}}), objects)
    [] OTHER -> Placed(db.rows, objects)

After(db, s) ==
  LET objects == ObjectsAfter(db.objects, s)
  IN [db EXCEPT !.objects = objects, !.rows = RowsAfter(db, s, objects)]

\* pysqlite begins a transaction before a statement that writes rows.
Begins(db, s) ==
  CASE s.do \in {"make", "remove", "discard", "look for twin filings"} -> FALSE
    [] s.do \in {"preflight filings", "normalize filings"} -> "filing" \in db.rows
    [] s.do = "normalize websites" -> "company" \in db.rows
    [] OTHER -> TRUE

-----------------------------------------------------------------------------
VARIABLES
  dialect,
  world,    \* the rows that there will be, whoever writes them
  db,       \* version, objects and rows as the connection of a command sees them
  disk,     \* as they are committed
  open,     \* a transaction is open
  command   \* of alembic: the direction, the revision asked for, the next statement

vars == <<dialect, world, db, disk, open, command>>

Idle == [does |-> "nothing", to |-> 0, next |-> 1]
Empty == [version |-> 0, objects |-> {}, rows |-> {}]

TypeOK ==
  /\ dialect \in Dialects /\ world \in Worlds /\ open \in BOOLEAN
  /\ \A d \in {db, disk} : d.version \in 0 .. Latest /\ d.rows \subseteq Rows
  /\ command \in [does : {"nothing", "upgrade", "downgrade"}, to : 0 .. Latest, next : Nat \ {0}]
  /\ command = Idle => disk = db /\ ~open

Init ==
  /\ dialect \in Dialects /\ world \in Worlds
  /\ db = Empty /\ disk = Empty /\ open = FALSE /\ command = Idle

Whole == db.objects = Schema[dialect, db.version]

-----------------------------------------------------------------------------
(* The application, while nothing migrates, writes what its schema admits. *)

Admitted(r) ==
  /\ Uses(r) \subseteq db.objects
  /\ \A o \in db.objects : r \notin Barred(o)
  /\ r = "odd_website" => <<"companies", "normalized_website">> \notin db.objects
  /\ r = "odd_filing" => <<"regulatory_filings", "normalized_filing_number">> \notin db.objects

Written(r) ==
  CASE r = "run" /\ <<"crawl_runs", "claim_token">> \in db.objects -> {"run", "claim"}
    [] r = "severe" /\ <<"entry_evidence_quarantines">> \in db.objects -> {"severe", "quarantine"}
    [] OTHER -> {r}

Holds(rows) ==
  /\ db' = [db EXCEPT !.rows = rows] /\ disk' = db'
  /\ UNCHANGED <<dialect, world, open, command>>

Write(r) ==
  /\ command = Idle /\ Whole
  /\ r \in world \ db.rows /\ Parents(r) \subseteq db.rows /\ Admitted(r)
  /\ Holds(db.rows \cup Written(r))

\* The operator puts right what a migration has refused.
Refusable == {"twin_request", "twin_document", "twin_filing", "odd_filing", "odd_website"}
Repair(r) ==
  /\ command = Idle /\ r \in Refusable \cap db.rows
  /\ Holds(db.rows \ {r})

-----------------------------------------------------------------------------
(* alembic upgrade and alembic downgrade.                                  *)

Ask(does, v) ==
  /\ command = Idle
  /\ command' = [does |-> does, to |-> v, next |-> 1]
  /\ open' = (dialect = "postgresql")
  /\ UNCHANGED <<dialect, world, db, disk>>

Upgrade(v) == v > db.version /\ Ask("upgrade", v)
Downgrade(v) == Whole /\ v < db.version /\ Ask("downgrade", v)  \* never of a schema that a command left half made

Script == IF command.does = "upgrade" THEN Upgrades[dialect][db.version + 1] ELSE Downgrades[dialect][db.version]
Running == command # Idle
Pending == Running /\ command.next <= Len(Script)

Execute ==
  LET s == Script[command.next] IN
  /\ Pending /\ ~Raises(dialect, db, s)
  /\ db' = After(db, s)
  /\ open' = (open \/ Begins(db, s))
  /\ disk' = IF open' THEN disk ELSE db'
  /\ command' = [command EXCEPT !.next = @ + 1]
  /\ UNCHANGED <<dialect, world>>

Ends == command' = Idle /\ open' = FALSE /\ UNCHANGED <<dialect, world>>

\* The migration records its version.  SQLite commits after each.
Stamp ==
  LET v == IF command.does = "upgrade" THEN db.version + 1 ELSE db.version - 1 IN
  /\ Running /\ ~Pending
  /\ db' = [db EXCEPT !.version = v]
  /\ disk' = IF v = command.to \/ dialect = "sqlite" THEN db' ELSE disk
  /\ IF v = command.to THEN Ends
     ELSE /\ command' = [command EXCEPT !.next = 1]
          /\ open' = (dialect = "postgresql")
          /\ UNCHANGED <<dialect, world>>

RollsBack == db' = disk /\ UNCHANGED disk /\ Ends
Refuse == Pending /\ Raises(dialect, db, Script[command.next]) /\ RollsBack
Crash == Running /\ RollsBack

Next ==
  \/ \E r \in Rows : Write(r) \/ Repair(r)
  \/ \E v \in Stops : Upgrade(v) \/ Downgrade(v)
  \/ Execute \/ Stamp \/ Refuse \/ Crash

Spec == Init /\ [][Next]_vars

-----------------------------------------------------------------------------
\* What a PostgreSQL database has committed is the schema that its version
\* names, also when it was downgraded, refused or cut off on the way; and on
\* either database the rows from before a version are as it asks for.
VersionTellsState ==
  /\ dialect = "postgresql" => disk.objects = Schema[dialect, disk.version]
  /\ command = Idle /\ Whole =>
       /\ db.version >= 4 /\ "run" \in db.rows => "claim" \in db.rows
       /\ db.version >= 11 /\ "severe" \in db.rows => "quarantine" \in db.rows

\* On PostgreSQL no command fails but for rows that the operator can put right:
\* nothing is dropped before what refers to it, made twice or missing.
CommandsSucceed ==
  dialect = "postgresql" /\ Pending /\ Raises(dialect, db, Script[command.next]) => Refusable \cap db.rows # {}

\* Filings that collide after normalization are refused before 0009 has changed
\* anything, also where what defines something cannot be rolled back.
CollisionsChangeNothing ==
  [][command.does = "upgrade" /\ db.version = 8 /\ {"twin_filing", "odd_filing"} \cap db.rows # {}
       => disk'.objects = disk.objects]_vars

\* A migration takes away only rows whose table or column goes.  On SQLite it
\* also takes what hangs on a recruiting entry, or on a ranking that loses columns.
RowsAreKept ==
  [][command'.next = command.next + 1 =>
       \A r \in db.rows \ db'.rows :
         \/ ~(Uses(r) \subseteq db'.objects)
         \/ r = "part_time"
         \/ dialect = "sqlite" /\ r \in {"snapshot", "listed", "evidence"}]_vars

\* An upgrade takes no row away. SQLite refutes it: 0017 copies the entries.
UpgradesKeepRows ==
  [][command.does = "upgrade" /\ command'.next = command.next + 1 => db.rows \subseteq db'.rows]_vars
=============================================================================
