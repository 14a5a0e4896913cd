# Verification of job_search

TLA+ models of the backend of job_search, checked with TLC and, for the modules that carry the
most, proved with TLAPS. The program collects recruiting information about companies. A request
for a company is stored as a pair of rows, published to Celery, claimed by a worker, worked on and
settled; what is found is filed as entries (recruiting pages), postings and sources, and those are
opened and closed by the lists of later days. Who a company is, is decided by reviews of its names.
Paths below are relative to the repository.

* [Parts of the system](#parts-of-the-system): the inventory
* [The modules](#the-modules): what models what
* [The runs](#the-runs): what is checked, under which bounds
* [The proofs](#the-proofs)
* [Further configurations](#further-configurations): counterexamples and larger instances
* [What is not modelled](#what-is-not-modelled)
* [Plan](#plan)

## Parts of the system

```
 API  POST /collection-requests ──┐                        ┌── beat, every minute:
 daily scheduler ─────────────────┤                        │   redispatch_stale_queued_runs
                                  ▼                        ▼
                      CollectionRepository  (collection_requests + crawl_runs)
                                  ▲                        ▲
      broker ──► run_entry_verification          run_ingestion ◄── broker, its own retries
                                  │                        │
                                  ▼                        ▼
              job_entries ◄── entry verification     direct ATS write ──┐
                   ▲                                                    ▼
 JobHunt enumeration task ──► persist ──► JobCoverageService.record ──► job_sources
                                                                        job_postings
                               expire_stale_job_sources (daily) ──────► job_collection_snapshots

 run_ingestion ──► searches behind shared gates ──► pages ──► PersistenceService.persist
                                                                │ companies, names, documents,
                                                                │ postings, sources, filings
 readers ──► company queries ◄──► Redis cache ◄── invalidate ───┘
                                                                companies, company_aliases
 operators ──► identity reviews, manifest resolution, imports ──────────┘ (advisory keys)
           ──► manifest-freeze, discover, evidence-regenerate, evidence-audit
           │       └──► rounds, observations, audit samples, findings ──► job_entries
           └─► alembic upgrade / downgrade ──► every table
```

| Component | State it keeps | Operations | What makes it hard | What makes it correct |
|---|---|---|---|---|
| Collection repository, `backend/app/collection/repository.py` | one `collection_requests` and one `crawl_runs` row per request: two status columns, claim token, `started_at`, task id | create, claim, finish, requeue, fail, store or mark the task id | every method is a compare-and-set on two rows; any caller may hold an old token | the two rows agree; one live run per query; tokens name one claim and never return; a settled pair is final |
| Collection API and service, `collection/service.py` | none beside the tables | `submit`, `get` | check, insert, publish and store are four steps; a publish that raises may have been sent | no second live run; a failed publish never fails a claimed run |
| Scheduler and redispatcher, `tasks/schedule.py` | a list of rows read once | `enqueue_stale_companies`, `redispatch_stale_queued_runs` | the list goes stale while workers and another redispatch task work | only stale claims are taken away; no queued run is stranded |
| Entry verification task, `tasks/entry_verification.py` | its claim | claim, search, save, finish | late acknowledgement, a slow owner, a death between two commits | one owner per claim; a success has an entry; only the owner settles |
| Ingestion task and orchestrator, `tasks/collection.py`, `ingestion/orchestrator.py` | its claim, the retry count and the token in the message | claim, collect, save page by page, finish, requeue, fail when exhausted | every database call may fail before or after its commit, also the one that gives the claim back | a retry spares live claims; every claimed run is settled |
| Job coverage service, `ingestion/coverage/` | entry health, sources, postings, snapshots | `record` | snapshots arrive late, twice, partial or failed, and sources of several entries share a posting | sources are closed for cause only; postings follow their sources; counters mean what they say |
| Source expiration, `tasks/expiration.py` | the same tables | `expire_stale_job_sources` | three statements that wait for the rows of `record` | it never closes a source a list has charge of |
| Job enumeration, `tasks/job_enumeration.py`, `job_enumeration/` | the same tables and the company's primary entry | list with JobHunt, `persist`, `record` | two transactions, minutes between reading and writing, a session that keeps old rows | the next complete list repairs whatever was left |
| Direct ATS write, `ingestion/direct_ats.py` | the same tables | `write_direct_ats_jobs` | moves sources between postings and entries, past the coverage service | no source is lost |
| Manifest commands and service, `manifest/cli.py`, `manifest/service.py` | discovery rounds, observations and the entries they accepted, audit samples, findings, quarantines; the frozen list of companies | `discover`, `evidence-regenerate`, `evidence-audit`; *the freeze is planned* | commands run by hand, interrupted, resumed, at the same time, with what they read once; observations that link to earlier ones; a clock that may go back | one observation per member of a round; chains run back; samples speak for complete rounds; entries follow acceptance |
| Manifest discovery, `manifest/cli.py`, `manifest/discovery.py`, `ingestion/providers/http.py`, `robots.py` | hosts it was refused by, counts of rate limits, the budget of the search; all of it in memory | one request after the other: rules, pages, redirects, search; record | a crash loses the memory, and the resume rebuilds it from observations; redirects change the origin in the middle of a visit | a recorded stop binds every later process; a page is read only if its own origin permits it |
| Company identity, `company_identity/`, `manifest/identity.py` | companies, aliases, review items, candidate facts | resolve, record, apply reviews, resolve a manifest, audit | canonical names and aliases are unique apart, not together; advisory keys one by one, then rows; imports without keys | a name has one owner; decisions last; no circle of waiting |
| Ingestion persistence, `ingestion/persistence/` | companies, documents, evidence, postings, sources, filings | `persist` under the claim | savepoints and insert-or-reselect upserts of overlapping sessions; what was read before is written later | sources and postings belong together; nothing is committed for a lost claim |
| Company queries and their cache, `companies/`, `cache/` | list versions and pages in Redis | search, detail, jobs; invalidate | readers that fill while a writer invalidates; every call may fail | a search shows what was persisted before it; what is stale goes |
| Collection pipeline, `ingestion/orchestrator.py`, `ingestion/entry_discovery/`, `ingestion/providers/` | gates of a process, outcomes and pages of a run | search, discover entries, read pages, persist, finish | gates shared by the runs of a process; threads shared by waiting and working searches; failures early and late | a named page is asked for; the status tells what happened; runs end |
| Migrations, `alembic/` | the schema and the rows that were there before | 21 upgrades and downgrades | PostgreSQL undoes a command, SQLite only what follows the first write; rows written in between | a version tells the schema and its backfills; no row goes but with its table |
| Rankings, enrichment, imports of stages, statistics | tables of their own | commands of an operator, read-only queries | resumption after a failure | *rankings planned; the rest not modelled* |
| Frontend polling, `frontend/src/collection/polling.ts` | the session of a view | start, poll, stop | answers that arrive after the view moved on | *planned* |

`PROJECT.json` lists every component with its sources, and under `hazards` the lines where this
code can go wrong in a way that a test would hardly reach.

## The modules

```
 RequestLifecycle ◄─implements── CollectionRepository ◄─INSTANCE─┬─ EntryVerification
                                        ▲                        └─ IngestionTask
                           CollectionRepositoryProofs ◄─INSTANCE── EntryVerificationProofs

 ActivityTransactions            JobLifecycle ◄─EXTENDS── JobWriters
 (inside its two transactions)        ▲
        ▲                     JobLifecycleProofs
 ActivityTransactionsProofs

 CompanyPersistence ◄─EXTENDS── CompanyQueries          CompanyIdentity (the names that persist locks)

 DiscoveryRounds (the ledger of discover)   LiveDiscovery (the requests of discover)
        ▲
 DiscoveryRoundsProofs

 CollectionPipeline (inside Collect of IngestionTask)   SchemaMigrations (the tables of all)
```

IngestionTaskProofs, CompanyIdentityProofs and CompanyQueriesProofs extend the modules of their names in the same way. Three of the
modules of proofs have two subjects: JobLifecycleProofs is about JobWriters, too, DiscoveryRoundsProofs about LiveDiscovery and IngestionTaskProofs
about CollectionPipeline. For that the definitions of the second module that every specification has are named for it
(`WritersSpec`, `LiveSpec`, `PipelineSpec`, and so on).

Definitions whose name starts with `Faulty` are deliberate defects that no action uses; they stand
for plausible mistakes in the code, and putting one in the place of the definition after it must
break the property it is aimed at.

### RequestLifecycle

What a client of the API is promised: one status per request, `Accept`, `Grant`, `Return`,
`Settle`, `Reject`; at most one live request per query, and only running work is settled or given
back. It knows nothing of two tables, tokens or task ids.

### CollectionRepository

The tables `collection_requests` and `crawl_runs`. `rows[r]` is the pair of rows of run `r`: both
statuses, kept apart as the code keeps them, the query and company, the claim token (a number in
the place of a UUID; `issued` counts the stored ones), `started` and `created` as `recent` or
`stale` relative to the two cutoffs of the redispatch task, and whether `celery_task_id` is set.
One action per method: `CreateRequest`, `ClaimQueued`, `Finish`, `FailQueuedDispatch`,
`RequeueForRetry`, `FailRetryExhausted`, `StoreTaskId`, `MarkRedispatched`; a method whose
conditional update matches no row is a stuttering step of the same action. The clock is two actions,
`ClaimTurnsStale` and `CreationTurnsStale`.

The refinement maps `phase` to the status of the run, `lease` to the claim token and `leases` to
`issued`.

### EntryVerification

The production path: `Clients` run `CollectionService.submit`, `Schedulers` run
`enqueue_stale_companies`, `Beats` run `redispatch_stale_queued_runs` and `Workers` run
`run_entry_verification`. A process is a program counter with the values it remembers; each step
is one transaction of the repository (called as `Repo!...`), one call of the broker, or one of the
commits between them. `inbox[r]` counts the messages that name `r`; they may be delivered in any
order. The redispatch task reads its list once, works on the first row with the token it listed and
on every later row with the token it finds then, as SQLAlchemy does after the rollback of
`_lock_run_request`.

Ten kinds of fault can be injected, each a disjunct that counts against `MaxFaults`: a caller, a
beat or a worker dies between two commits; a publish raises, with or without the message having
been sent; a message is lost or delivered again; a claim raises before or after its commit; a worker or
a publisher is slower than the cutoff. `FaultSets` lists the sets of kinds of which a behaviour may see some;
`Stranding` are the three kinds after which nobody may be left to move a queued run, and `NeverStranded` and
`EventuallySettled` speak of the behaviours without them.

### IngestionTask

`run_ingestion` with its retries. A message carries the run, the claim token of the delivery it
repeats and the number of retries. `Receive`, `Recover`, `Claim`, `Collect`, `SavePage`, `Finish`
are the straight path; `Requeue`, `Resend` and `FailExhausted` the retry; `Decline` a worker that
has no runtime. `...Raises` is a database failure in the step of that name, before or after the
commit. `filed` is the set of `job_collection_snapshots` rows, which decide whether a second
delivery meets the unique constraint. The redispatch task lists the stale claims (`BeatLists`) and
takes them away one by one (`BeatRequeues`), each after the first with the token that the row then has
(`BeatReads`); several may overlap (`Beats`). What it does to queued runs, and the entry verification task,
which gets the runs that were given back, are single steps here (`RescuerTakes`,
`RescuerFinishes`); their own steps are in EntryVerification. `OperatorReset` is
`backend/reset_and_dispatch.py`. A behaviour begins in one of the `Scenarios`: the runs there are, the kinds of
failures it may see, out of thirteen, and how many.

### JobLifecycle

`JobCoverageService.record` and `expire_stale_job_sources`, each one step, on the tables
`job_sources`, `job_postings`, `job_entries` and `job_collection_snapshots`. `Record(c)` has the
three outcomes that write something: a snapshot no newer than the last check is filed only
(`RecordDelayed`), an incomplete one changes the health of the entry (`RecordIncomplete`), a
complete one also advances or resets the absence counters, closes sources and derives the activity
of the postings (`RecordComplete`). The three outcomes that write nothing (replay, hash conflict,
a source of another entry) are the negation of `Accepted`. The clock is a number of ticks;
timestamps are its values, 0 the NULL.

### ActivityTransactions

The same two operations statement by statement, under READ COMMITTED: what each statement sees,
which rows it locks, what it does when it had to wait, and the rollback with which the database
breaks a cycle. JobLifecycle takes each operation for atomic; this module shows where that is
justified (two lists) and where not (a list and an expiration).

### JobWriters

JobLifecycle with the writers around it. An enumeration task is `StartEnumeration` (the freshness
check and the listing), `SaveRows` (first commit), `RecordList` (second commit), with a death
possible before each. The task's session keeps the row of a posting between the two commits
(`held`, `loaded`), because sessions are made with `expire_on_commit=False` and
`recompute_job_activity` selects without refreshing; the second commit writes the column only when
the value differs from the one loaded (`Flushed`). `AtsWrite` and `VerifyEntry` are the other two
writers of sources and of the primary entry.

### DiscoveryRounds

`discover --resume`, `evidence-regenerate` and `evidence-audit` of `manifest/cli.py` with the
transactions of `manifest/service.py` they consist of, on the tables `entry_discovery_rounds`,
`entry_discovery_observations`, `entry_evidence_audit_samples` and `_findings`, and `job_entries`
(`owners[u]`: the companies that have an entry with URL `u`). An operator's command is a program
counter with what it has read: the paused strata and the latest round are read at the start, what
a new observation supersedes is read before the first one is written.

A transaction begins with its locks and checks (`BeginLegacy`, `BeginInRound`) and ends with `Commit`;
between the two, others see neither its rows nor its entries, and wait for its locks (`ManifestFree`,
`RoundFree`, `MemberFree`). `CreateRound` and `Reconcile` take all their locks at once and
are one step. A check that refuses raises, which ends the command and not only the transaction, so
a refusal is the guard of the action and the command is left with `Stop`, which also stands for its limit, an
interruption and a lost database.

An observation is named by its company, its round and a number, in the place of a UUID; `NoRound`
is the legacy one. Its status keeps what the code tells apart: accepted, retryable (failed) or
neither. A file of evidence is a function from companies to URLs (`NoFile` without
`--evidence-input`), its candidates come in any order; what the policy and the model say of one is free but
for a paused stratum. Left out: fingerprints of the configuration, which are one value here; the
times of samples and findings; `stopped_domains` and the request budget of `discover`, which narrow what it comes to; the answer
"incomplete" of the reconciliation, which the command never gets, as it has recorded all members when it asks.

### LiveDiscovery

`discover` once more, below the transactions: every request is a step that waits for an answer on the
`wire`. The command asks for the rules of an origin before its first page there, follows redirects
under the rules of where they lead, tries the links that look like recruitment pages, and falls back to the
search with its budget per process. `state` is `_DiscoveryState`: the hosts to leave alone, the rate limits per
host and the stop of the search; `Crash` forgets it and `Start` rebuilds it from `obs`. An answer is any status,
redirect or page; addresses are an origin and a path.

### CompanyIdentity

`company[id]` and `alias[name]` are the two tables of names, `txn[a]` the open transaction of a session
with the keys it still wants, the keys and rows it holds and its unwritten `draft`. Each session
takes its advisory keys one at a time in the order of `_identity_lock_keys` (`AcquireKey`), then its rows, reads again
and writes. `StartReview`, `Reject`, `CreateNew`, `LinkAsAlias`, `RenameCanonical` are
`apply_identity_review_decisions`; `StartManual`, `AcceptFact`, `RejectFact` and `StartAuto`, `Refresh`, `AcceptGroup`,
`KeepForReview` the manifest's two resolutions; `Resolve`, `RecordReview`, `UpsertCompany`, `UpsertFilings` an
ingestion; `Import` and `ImportPilot` the imports, which take no key. The audit's findings are operators
(`CrossTableNames`, `SharedWebsites`, `OrphanAliases`, `Unrepresented`), so that AuditIsClean is what the
operator's report would say. Two of the database's own guards are part of it: an insert of an alias waits for an
open transaction that inserts the same name and fails when the name is on file (`InsertsFree`, the unique index of
`models/company.py:72`), and a row that a transaction writes is locked until its end (`RowFree`).

### CompanyPersistence and CompanyQueries

`PersistenceService.persist` statement by statement. `rows` are the committed columns, by key; a session sees them
under its own `draft`, writes what it changed, and its rows are locked from its flush to its end. `NamesFree`
are the advisory keys of names, all that serializes two sessions of one company; `beside` remembers what others without
a common name have committed since a session began, for the properties alone. An insert of a source that loses the race is rolled
back to its savepoint and read again (`WriteJob`). `Requeue` takes a claim away at any time that the row
lock of `LockClaim` allows. The row of the company and its lock are left out: the lock could only make sessions wait.

CompanyQueries adds the requests and the cache: `version`, `lists`, `pages`, and the three calls of an
invalidation. Every call may fail, with or without effect, up to `MaxErrors`. `heard` is what had been committed when
the version last advanced.

### CollectionPipeline

One run from its claim to its end: the listed providers one by one (`SearchName`), the `site:` queries of entry discovery
all at once (`StartQueries`, `SiteQuery`), the pages (`VisitPage`), and the status. A search waits for its provider's
semaphore in one of the `Threads` of the executor, sleeps off its part of the interval inside the slot, and then
needs a thread again to look its host up (`Connect`); without one it fails by its timeout (`Starve`). Scores are kept as
what decides them: mention in text or title, similarity of names, and whether a page is on an ATS.

### SchemaMigrations

Every `upgrade()` and `downgrade()` as the sequence of its statements on each of the two databases. `db` is the schema (tables,
columns, unique constraints), the rows and the version that the command sees, `disk` what a crash leaves. A row of the model stands for all rows
of its kind, `Kinds` says what it refers to. The application writes rows between commands (`Write`), the operator asks
for any of `Stops` and corrects what was refused (`Repair`).

### MC modules

`MC<Module>` gives model values, the initial layout of rows and pages, symmetry sets, and the properties that the further
configurations refute.

## The runs

Every listed run takes between a few seconds and about two minutes. *Deadlock* is checked in ActivityTransactions
only: everywhere else a finite instance stops when its requests are settled, its commands used up or its clock has
reached its bound.

| Run (config) | What it checks | What it shows |
|---|---|---|
| `repository` (`MCCollectionRepository.cfg`) | OneActiveRunPerQuery, ImplementsLifecycle | Every method called in any order by anybody with any token ever issued is a step, or none, of RequestLifecycle, and one query has one live run |
| `claims_and_faults` (`MCEntryVerification.cfg`) | OneOwnerPerRun, SuccessHasEntry, NeverStranded, DispatchFailureSparesClaims, UsesRepository | With two callers, two live requests and any two faults no claim has two owners, every success has its entry, every queued run is in somebody's hands, a failed publish spares what is claimed; and the composed system uses the tables only through the repository (it implements `CollectionRepository!Spec`, so all that is proved of the repository holds in it) |
| `job_lifecycle` (`MCJobLifecycle.cfg`) | PostingFollowsSources, CountersTellHistory, ClosedForCause | However snapshots arrive, counters and health summarise the history on file and sources are closed for cause |
| `activity_transactions` (`MCActivityTransactions.cfg`) | ListsLoseNoUpdate, NoWaitCycle, ListsKeepCharge, deadlock | Two lists that share postings lose no update and never wait for each other; an expiration that waits for a list tests the row again and spares it |
| `job_writers` (`MCJobWriters.cfg`) | GhostsComeFromMoves, EnumerationsCloseForCause, ListsRepairUnlessStale | With overlapping, dying, redelivered enumerations, ATS moves and expirations, sources are still closed for cause and a complete list repairs its postings, but for a row it holds from before |
| `ingestion` (`MCIngestionTask.cfg`) | RetriesSpareLiveClaims, RunsSettle | Under any three failures out of thirteen kinds, no delivery gives back a recent claim that another one works under, and every run that was claimed once is settled; two runs of which two deliveries die are settled as well |
| `evidence_rounds` (`MCDiscoveryRounds.cfg`) | OncePerRound, SamplesSpeakForRounds, EntriesFollowAcceptance, RoundChainsRunBack | However commands overlap, stop and resume, a round gets one observation per member, is sampled when complete and in every stratum; entries are those of accepted URLs; and though the clock is set back, an observation supersedes an older one of an earlier round |
| `live_discovery` (`MCLiveDiscovery.cfg`) | RobotsRespected, RebuildAgrees, StopsOutliveTheProcess | No page is read against the rules of its own origin, redirects included; a crash between two members forgets nothing; a recorded refusal binds every later process |
| `company_names` (`MCCompanyIdentity.cfg`) | OneOwnerPerName, AuditIsClean, NoWaitCycle, DecisionsLast | Whatever reviewers, resolutions and ingestions overlap, each name that no import gave has one owner, the audit finds nothing that no import caused, decisions last, and nobody waits in a circle |
| `persist_and_read` (`MCCompanyQueries.cfg`) | SourcesAndPostingsMatch, SearchesFollowInvalidation, CommitsUnderClaim, CacheCatchesUp | Sessions that race for the same job leave no posting without a source, nothing is committed for a lost claim, a search that begins after an invalidation shows the commit, and in the end the cache is right or empty |
| `collection_pipeline` (`MCCollectionPipeline.cfg`) | StatusTellsOutcome, NamedPagesAreAsked, RunsFinish | Any search may fail: the status says whether pages were saved and providers complained, every page that names the company is asked for and no other, and each run ends even when waiting searches take every thread |
| `schema_migrations` (`MCSchemaMigrations.cfg`) | VersionTellsState, CommandsSucceed, RowsAreKept, CollisionsChangeNothing | Up and down in any order, between writes, with a crash at any statement: on PostgreSQL the version always names the schema and only data is refused; on both, what ran before a backfill has it, and no migration takes rows away but the ones named |

`TypeOK` of each module holds on the instance of its run as well (add `INVARIANT TypeOK` to the config;
it is `WritersTypeOK`, `LiveTypeOK` and `PipelineTypeOK` in JobWriters, LiveDiscovery and CollectionPipeline); it is not among the properties of the runs, so that those are about something else.

### Bounds and why they are enough

* `repository`: two runs, two queries, three claims. Every method touches one run, and every
  property relates at most two; three claims let a run be claimed, given back, claimed, given back
  and claimed again, so an old token meets a gap and a new claim. The theorems lift the bounds.
* `claims_and_faults`: two runs and two callers, so that the redispatch task has a list with a second row and
  callers race for the insert; two workers so that a late owner meets its successor; two faults of any kinds that do not strand,
  or two of those that do: each hazard listed needs at most two (a slow worker and a redelivery). Two claims per behaviour keep it
  small; `MCEntryVerification_recovery.cfg` has four, three faults and the scheduler for one run, with liveness.
* `job_lifecycle`: three snapshots are one more than closing a source takes, so that one in
  between can be late, partial or of the other entry; three ticks order them; two entries share a
  posting and a fourth source is on no list.
* `activity_transactions`: two lists and one expiration, two postings (a waiting cycle needs two),
  each with a source of each list.
* `job_writers`: two workers overlap; two runs so that one may be delivered again; one source for
  each kind of writer and two postings for the move. Window 0 and Freshness 0 make age and
  freshness depend on the tick alone. Closing by a second absence takes two lists of one entry without the source on different days, which
  these bounds hardly leave room for: it is the theorem `EnumerationsClose` that covers it. With a second entry, three runs, one worker and three ticks (4.6 million states) the three
  properties, and the invariant of their proofs, hold as well.
* `ingestion`: one run with any three failures, as deliveries of different runs share only the providers; two runs
  with two deaths, so that a redispatch task lists two stale claims and reads the second one afresh; of the two queries one names no
  company. Two workers, two pages, one redispatch task, one retry (the code has three: the last and an earlier one are different, more are
  not). Seven claims cover three faults: each delivery and each rescue claims once. With the one redispatch task of
  this run the exception of `RetriesSpareLiveClaims` is never met; `MCIngestionTask_faults.cfg` has two of them, and there it is.
* `evidence_rounds`: two companies with a URL each in a stratum of its own, so that a round is filled in two
  steps and a sample drawn from the round as a whole misses one; files of evidence for both or for none, as a round
  without members is a predecessor too; two commands of one discoverer and two regenerators, so that one can be interrupted and
  another fill its round; two ticks, as a retry has to be later, and one set-back, so that a round can start before what
  it would supersede. `discover` deals with the first company only, like `--limit 1`.
  A round never has more than 20 members (`MAX_LIVE_EVIDENCE_ITEMS`), so five percent of it, rounded up, are one.
* `live_discovery`: two members of one host that answers at two origins, one without a site, one that comes with an
  entry; a page and a redirect per visit, two requests per search and two per process: each is one more than nothing, which is
  where the code's counters of 3, 5 and 20 tell cases apart. The limit of three keeps a member for a resume. The third rate limit of a
  host, which stops it, comes from two members and the retry of one of them.
* `company_names`: two identities and two facts whose names overlap pairwise but are not all the same, so that keys are shared in
  part; every kind of session, two reviewers, and an import that names one of them. Four transactions: two meet, one makes what they find, and one follows.
  Websites are one; legal identifiers are none (see `MCCompanyIdentity_filings.cfg`).
* `persist_and_read`: two sessions with one batch each out of eight: common names, different names of one company, another company
  with the same job, which it names twice, closing either of two sources of one posting. A reader with two requests: one that fills the cache and one that reads it.
  One call of Redis fails. Requests are made next to two plain batches only, as the cache sees no more of a batch than its commit.
* `collection_pipeline`: three queries for two slots; two runs that share a gate of two slots with three searches; one thread, the worst
  a small machine has; two ATS pages on one platform that is blocked after one refusal. Deployments with Serper, without it, and without the ATS provider.
* `schema_migrations`: all 21 migrations, seven revisions to ask for, each between two scripts that drop what others built; six
  sets of rows, one for each part of the system, as no constraint joins the parts.

### Fairness

`FairSpec` of EntryVerification and IngestionTask assumes weak fairness of

* each process that has started (`CallerStep`, `BeatStep`, `WorkerStep`): a process that is not killed
  goes on. A process that dies is back at idle, so nothing is assumed of it;
* the redispatch task as a whole, as beat fires it every minute (`tasks/celery_app.py`);
* the delivery of a waiting message by some free worker: workers poll the broker, and messages are
  acknowledged late;
* the passing of time (`ClaimAges`, `CreationAges`).

Nothing is assumed of new requests or of faults. Strong fairness is needed nowhere: a step of a process,
once possible, stays possible or is replaced by another of the same process. Faults are
bounded by `MaxFaults` (IngestionTask: by the scenario), so liveness means "if failures stop, everything settles".

`FairSpec` of CompanyQueries assumes that statements and calls of Redis end (each has a timeout), that a request
that has begun is answered, and that entries expire (`_LIST_TTL_SECONDS` and its like): CacheCatchesUp rests on the last.
`FairPipelineSpec` assumes that time passes, that a call of a service ends (every client has a timeout) and that the loop of a run goes
on; a thread that is free is taken by some waiting search, not by a particular one. That of LiveDiscovery assumes that
the command goes on while it lives.

`NeverStranded` and `EventuallySettled` speak of behaviours without three faults, each of which breaks them, and
the hazards say so: a lost message (`MCEntryVerification_zombie.cfg`), a claim that raises (the task ends
without a retry, as good as a lost message) and a publisher slower than the cutoff (its late task
id hides a run that was given back). `RunsSettle` leaves out runs that were never claimed, for the
same reason, and runs that the operator's script split from their request.

## The proofs

All are for every value of the constants, from the named assumptions next to them; liveness and
bounds on instances play no part.

**CollectionRepositoryProofs.** `IInv` is TypeOK, PairsAgree, OneActiveRunPerQuery,
TokensNameOneClaim and ClockRunsWithClaim together. None of them is inductive alone. That a query has
one live *run* rests on the unique index over live *requests*, hence on PairsAgree; that a
new token differs from all on the rows rests on the bound by `issued`, which is part of TokensNameOneClaim;
and PairsAgree rests on the clock and the token being set together, as the repair branch of the
retry methods tells its cases apart by them. The proof splits `IInv` into what it says of one row
(`SoundRow`) and of two rows (`Apart`), shows each method to be a `RowStep` of one row, and lifts the result.
From it:

| Theorem | States |
|---|---|
| `TypeCorrect`, `PairsAlwaysAgree`, `OneActiveRun`, `TokensUnique`, `ClockFollowsClaim` | `Spec => []` of each conjunct. PairsAlwaysAgree means that the repair branches are dead code as long as only the repository writes |
| `SettledStaysSettled` | `Spec => TerminalIsFinal` |
| `TokensFresh` | `Spec => TokensNeverReturn`: the compare-and-set of a late owner fails for ever |
| `Implementation` | `Spec => ImplementsLifecycle`: initial states map to initial states, and each of the methods to a step of RequestLifecycle or a stutter |

**JobLifecycleProofs.** `PostingFollowsSources` and `ClosedForCause` need an invariant that ties the counters to
the snapshots: `IInv` is TypeOK, PostingFollowsSources, `ChecksAreLatest` (no snapshot on file is newer than the
last check of its entry), `ManagedByLists` (lists have charge of exactly the sources of entries
with a complete list) and `AbsentFromLatest` (a counter above zero means that the latest complete
list lacks the source). When a step raises a counter from one to two, AbsentFromLatest gives
the earlier of the two lists, and ChecksAreLatest makes the new one later than all others.

| Theorem | States |
|---|---|
| `TypeCorrect` | `Spec => []TypeOK` |
| `PostingsFollow` | `Spec => []PostingFollowsSources`, while `record` and the expiration are the only writers and atomic: JobWriters and ActivityTransactions show what becomes of it otherwise |
| `ClosingHasCause` | `Spec => ClosedForCause` |
| `CountersTell` | `Spec => []CountersTellHistory`. The history is a set and the counters are cardinalities, so its `CountersIInv` adds to IInv that the history is finite: a list that is filed was not on file before, hence raises each count by one or leaves it |

*JobWriters.* With an ATS page, entry verification and overlapping enumerations beside `record` the invariant above is lost: PostingFollowsSources
does not hold any more. The three properties rest on `WritersInv` instead. Its core is `OneListedEntry`: all enumerations of the company file under one
entry. The code does not say so, as it takes the primary entry, which others change; but a primary entry was inserted by whoever chose it, and
that makes the next enumeration stop with a conflict, unless an enumeration had inserted it before. So a counter never mixes the lists of two entries
(`AbsencesAreCounted`), and a task that has committed its rows finds them where it left them, the one that its session holds among them (`SoundTask`).
TLC found WritersInv to hold on both instances named under the bounds before it was proved.

| Theorem | States |
|---|---|
| `WritersTypes` | `WritersSpec => []WritersTypeOK` |
| `EnumerationsClose` | `WritersSpec => EnumerationsCloseForCause` |
| `GhostsHaveMoved` | `WritersSpec => GhostsComeFromMoves`: a worker may die between any two commits |
| `ListsRepair` | `WritersSpec => ListsRepairUnlessStale`: `WithActivity` is right for all postings it recomputes but the one held (`RecomputedIsRight`) |

**EntryVerificationProofs.** The tables are shared with the repository, so the proof begins with `StepsUseRepository`: each
step of a caller, a beat, a worker, the broker or a fault is a step of `CollectionRepository!Next` or leaves its tables alone. Its `IInv`
therefore holds here, and with it all that its proofs say; what is left is what the actors hold between two transactions.
`IInv` adds that a worker past its claim carries a token that was issued, that no two workers carry the same one
(`ClaimsApart`: a claim's token is larger than any before it), and that a worker about to settle as succeeded has saved.

| Theorem | States |
|---|---|
| `TypeCorrect`, `OneOwner`, `SuccessSaved` | `Spec => []` of TypeOK, OneOwnerPerRun and SuccessHasEntry |
| `RepositoryUsed` | `Spec => UsesRepository`, the refinement: no actor writes the tables but through a method |
| `ClaimsSpared` | `Spec => DispatchFailureSparesClaims` |
| `OwnersSettle` | `Spec => OwnerSettles`: what settles a running run is the worker whose token is on its row |
| `QueuedRunsAreLed` | `Spec => []NeverStranded`, **if one redispatch task runs at a time** (`\A b1, b2 \in Beats : b1 = b2`) |

The last one needs a second invariant, `HInv`: beside NeverStranded it says of a caller that has not stored its task id yet that its run
exists, is recent and on no redispatch task's list, and, once published and as long as it is queued, led to by a message or by a worker about to claim it;
and of a redispatch task that it lists runs that exist, and until it marks a queued run, that the run is led to. With two overlapping executions of the
redispatch task TLC refutes NeverStranded in 23 steps: one lists a stale claim and is delayed, the other
requeues the run and publishes it again, a worker claims it, the first one requeues that fresh claim, and the second one's task id is stored on the run, whose
message is used up. The hypothesis is what a beat every minute with a task of seconds gives; nothing in the code enforces it
(`tasks/schedule.py:128` takes no lock), and the run has one beat for the same reason.

**ActivityTransactionsProofs.** Row locks, for any number of lists, expirations and shared postings. `IInv` says of one transaction
(`Sound`) that what it has locked is the least of what it wants, that its view of its postings' sources is
what it will commit (`Foresees`, while nothing is overdue), and that an expiration drops nothing that a list has charge of; of two
transactions (`Apart`) that no row is locked by both. Only a commit changes what it says of the others, and Apart is why it does no harm.

| Theorem | States |
|---|---|
| `TypeCorrect`, `ListsNeverDeadlock` | `Spec => []` of TypeOK and NoWaitCycle |
| `ListsClimb` | `Spec => []WaitsClimb`: in a chain of waiting lists each wants a larger posting than the one before, so there is no circle of any length, of which TLC sees two |
| `NoListUpdateLost` | `Spec => []ListsLoseNoUpdate` |
| `ChargeKept` | `Spec => ListsKeepCharge` |

**DiscoveryRoundsProofs.** A transaction is two steps, its checks and its commit, and everything rests on what
it knows in between (`SoundDraft`): that the row it will write has a number nobody uses or is a failed legacy one, that nobody has
observed its company in its round, that what it supersedes exists and is older. The locks make this stay true, as two open transactions write of
different companies and different rounds (`Apart`); no clock is used. `IInv` adds that a regeneration works on the members of a stored
round and remembers observations of the right company, that numbers count what is stored, and the properties themselves: SamplesSpeakForRounds needs
OncePerRound, as only a round that nobody can add to stays sampled in full, and EntriesFollowAcceptance needs that only failed observations are rewritten.
That every stratum gets a sample is `EveryStratumIsDesired`: the least rank of a finite group is below five percent rounded up.

| Theorem | States |
|---|---|
| `TypeCorrect`, `ObservedOnce`, `EntriesHaveEvidence`, `ChainsEnd`, `SampledInFull` | `Spec => []` of TypeOK, OncePerRound, EntriesFollowAcceptance, RoundChainsRunBack, SamplesSpeakForRounds |
| `EvidenceStays` | `Spec => EvidenceIsAppendOnly`: the triggers of migration 0011 never refuse a step of the service |

*LiveDiscovery.* `LiveIInv` has four parts. `Reading` says that the origin of whatever is read or asked for belongs to the member whose turn it is, and that a
page being read was permitted; `Remembers`, that a living process knows every stop on file and works on no stopped host, and that
the result it is about to record stops nothing that it has not stopped itself. `Agrees` is about crashes. A resume replays the observations in the order in
which they were *made*, the process has learned from the results in the order in which they were *recorded*, and a retry overwrites
an old observation in place with a new time. So for a host none of whose observations is rewritten (`FirstOnly`) the memory is the replay, and from the end of a visit until it is
recorded it is the replay and that result (`AgreesAt`). The lemmas are about `Replay`, a recursive function over the clock: what it
says of a host depends on the observations of that host alone (`FirstRank` is the induction principle that they use), and a stop stays (`ReplayedStop`).

| Theorem | States |
|---|---|
| `PagesArePermitted` | `LiveSpec => []RobotsRespected` |
| `ResumeRebuildsMemory` | `LiveSpec => []RebuildAgrees`. Without the hypothesis about rewritten observations (RebuildAlwaysAgrees) TLC refutes it on the instance of `MCLiveDiscovery_search.cfg` |
| `RecordedStopsBind` | `LiveSpec => StopsOutliveTheProcess` |
| `LiveTypesAndBounds` | `LiveSpec => []LiveTypeOK`, which has the bounds on pages, redirects, tries and the search's budget |

It assumes of its constants, beside their shapes, that the search is not the host of a site (`SearchIsNoSite`; a member whose site were zhihu.com would share
the search's stop) and that `None` is no record.

**IngestionTaskProofs.** The operator's script writes one row of a pair, so the repository's invariant does not hold
here; what is left of it is `Tables`: a queued request has a queued run, and a running run has a token. The proofs rest on
`Actors`: a token that waits in a message, or that a delivery was given to return (`Spent`), is never one that a delivery works
under, and no two deliveries work under one. Each step of a worker is a `Turn`: it keeps its token, loses it, or draws one larger
than any before, and puts a token into a message only as it loses it. That is why a retry, which comes with a spent token, matches no live claim
though the redispatch task and another delivery may have claimed the run in between. A redispatch task is excepted by the property: it reads the
tokens of live claims itself, so the theorem is about deliveries, the clock, the entry verification task and the operator.

| Theorem | States |
|---|---|
| `TypeCorrect` | `Spec => []TypeOK` |
| `RetriesSpare` | `Spec => RetriesSpareLiveClaims`: whatever gives back a recent claim under which a delivery works is a redispatch task that has read it |
| `OwnersSettle` | `Spec => OwnerSettles`: whatever fails, a running run is settled by the delivery or the entry verification task whose token is on its row |

*CollectionPipeline.* `PipelineInv` says of each run what its orchestrator knows on the way, `Sound`, and of each provider what its gate keeps, `Gates`. NamedPagesAreAsked
is about the end of a run and what was found at its beginning; in between there are three stages whose searches fail, starve and are repeated. `Asking` carries it over: every page that the
finds call for has been asked for, is left, or is a search under way (`Pending`), and nothing else is. `Informed` says that what is told at the end is
what was heard, so that the late refusal of an early provider counts. `Gates` bounds the waits of the searches inside a gate by the time at which it lets the next one start:
each new start is an interval after that, which is why a slot that is given back early brings no two searches together. A run never looks at another one
but through a gate, so all but `Gates` is proved of one run.

| Theorem | States |
|---|---|
| `PipelineTypes` | `PipelineSpec => []PipelineTypeOK` |
| `StatusIsEarned`, `NamedPagesAreVisited` | `PipelineSpec => []` of StatusTellsOutcome and NamedPagesAreAsked |
| `ProvidersAreNotCrowded`, `SearchesAreSpaced` | `PipelineSpec => []` of SlotsAreShared and StartsKeepApart, which the run does not check, for any number of runs in a process |

`DocsAssumption` is about what searches find: a document is none of the pages themselves, and a search may find nothing.

**CompanyIdentityProofs.** A transaction checks who owns a name in what it sees, and writes later. `NamesInv` has one
part for the tables (`SoundTables`, `SoundFile`), five for each transaction and one for two of them (`Apart`: no advisory key, item,
written company or inserted alias in common). The core is `SoundDraft`: what the transaction sees of the names *that it has locked* is right,
and its draft is about those names. There is one exception, the old name of a renamed company. The lock keys are made of the
new names (`service.py:335`), so nobody has locked the old one, and yet it is inserted as an alias. That it still leads where it led rests on the lock of the
company's row, which keeps the old name its canonical one until the end, and on the unique index of the aliases, by which only one
transaction can insert it. The first attempt at this proof failed at just this place: the model had no unique index, and the proof wanted one.
`SoundLocks`, `SoundWork` and `SoundRecords` say that the names of what is still to be decided are locked and the
decision open; a commit turns what the transaction saw into the tables, and Apart is why it disturbs no other. Imports, which lock
nothing, touch only what `imported` records. TLC finds `NamesInv` to hold on the instance of the run.

| Theorem | States |
|---|---|
| `NamesOwned`, `AuditFindsNothing` | `Spec => []` of OneOwnerPerName and AuditIsClean |
| `DecisionsStay` | `Spec => DecisionsLast`: what is decided stays, and a company that a name has led to is led to by it for ever |
| `NobodyWaitsInACircle` | `Spec => [](RenamesNoImport => NoWaitCycle)`, **if no identity has a legal identifier** and there are finitely many sessions |

The last one adds `AllClimb`: keys are taken in ascending order and before any row, and what a draft makes an alias belongs to a row that is locked or written by the
draft. So who waits for a key waits for somebody whose keys are above (`Above`); who has all keys waits for the rows of somebody past that point; of these only
a curator waits any more, for a reviewer, who does not. The exception would be a renaming, which waits for the unique index of the aliases:
but whoever is inserting the old name of a company has its row, and so has the reviewer (`RenamingsDoNotWait`). Both hypotheses are needed. Legal identifiers
are the case of `MCCompanyIdentity_filings.cfg`. `RenamesNoImport` says that no decision under way renames a company whose name is in
`imported`, which holds until an import has run; without it TLC finds a circle, see [below](#what-else-the-models-showed).

The theorems assume what the constants stand for (`IdentitiesAssumption`, `SessionsAssumption`): new ids are new, what was found by an ingestion is not a
fact of the manifest, and a session is of one kind.

**CompanyQueriesProofs.** Sessions that persist, requests and the cache in one behaviour, for any of them. `IInv` is the two
invariants below; neither needs the other, but that `Caching` bounds what is cached by the commits.

* `Persisting` says what a session has written and not committed (`SoundDraft`): a source in its draft is not in the table and its
  row is locked, so no other session can commit it first; a posting in its draft is in the table already or is shown by a source *in the draft*. Both are needed: the loser of a
  race for a source drops the posting it has made (`WithPosting`) just because no source of its draft would show it. `OwnDraft` says that the postings are of the company
  of the batch and that a new one carries its session and source; `JobFits`, that what a job's lookup returned still holds when the job is written, but that the
  source may have been inserted meanwhile. A session past its claim has the lock of it.
* `Caching` orders commits: what the version had heard of when it last advanced is below what a list under that version shows,
  and what a search began with is below what it will read, store and answer.
* `Dating`, for the last two theorems: open transactions share no name (this is what the advisory locks give), and a document
  in a draft, or found and not written yet, is no older than the one in the table, unless that was committed meanwhile.
* `Counting`, for the last theorem: a draft that inserts a source has its openness too (`Paired`), a column that was loaded is still as it was read unless
  the session has written it or it was committed meanwhile (`Fresh`), and once the activity is counted the view of the session agrees with its sources
  (`Agrees`). The activity is compared with what was *loaded*, not with the row, so a posting that is not written again rests on `Fresh`; and that every commit
  of another session is noted as meanwhile rests on `Dating`: sessions with a common name are not open together.

| Theorem | States |
|---|---|
| `TypeCorrect`, `SourcesAndPostings`, `SearchesFollow` | `Spec => []` of TypeOK, SourcesAndPostingsMatch and SearchesFollowInvalidation |
| `ClaimsHold` | `Spec => CommitsUnderClaim` |
| `OwnCompanyOnly` | `Spec => WritesOwnCompany`: a commit changes only postings and sources of its company, also when two companies list the same job |
| `DocumentsStayNewest` | `Spec => DocumentsKeepNewest`: what `MCCompanyQueries_aliases.cfg` shows is the only way in which a document's time goes back |
| `ActivityFollows` | `Spec => ActivityFollowsSources`: a commit leaves each posting of its batch active exactly when one of its sources is, unless a session under other names has meanwhile committed a source or the activity of that posting |

The last three are theorems only and no run has them; TLC found them, and the four invariants, to hold on the instance of `persist_and_read`
first. The assumptions are about the batches (`BatchesAssumption`: their shape, and that a fetch has a time) and the rows at the start (`StoredAssumption`: sources and postings match, a
source is one row with its openness, and a posting that a session makes has an id of its own).

Only model-checked:

* everything under fairness (`RunsSettle`, `RunsFinish`, `CacheCatchesUp`, `EventuallySettled`), as the prover does not reason about fairness and ENABLED;
* SchemaMigrations (`VersionTellsState`, `CommandsSucceed`, `RowsAreKept`, `CollisionsChangeNothing`). Its statements are data, one sequence for each migration, and
  what a command does is a fold over them: what a migration leaves is found by evaluating it. Beyond the 21 that there are, nothing is left to generalise to.

## Further configurations

These are kept beside the runs. Where several properties are named TLC stops at the first one that it finds refuted: keep one
of them at a time. Two name the config of a run: put the property in the place of those that are there. What a document, comment or test of the repository says of the property is quoted.

| Config | Property | What it shows |
|---|---|---|
| `MCEntryVerification_recovery.cfg` | those of `claims_and_faults` but UsesRepository, and EventuallySettled | *Holds*: an API call and the scheduler race for one query, with any three faults; every request is settled unless a fault strands it |
| `MCEntryVerification_beats.cfg` | OnlyStaleClaimsRequeued | With two overlapping redispatch tasks the second takes away a claim made after its list. `backend/tests/tasks/test_collection_reconciliation.py:373`: "test_stale_running_reconciliation_cannot_requeue_a_new_claim_generation" |
| `MCEntryVerification_zombie.cfg` | SavesUnderClaim | `tasks/entry_verification.py:132` commits the entry without looking at the claim, so an owner whose claim was taken away saves all the same. `README.md:215`: "retry, reconciliation, persistence, and terminal compare-and-set updates must carry that exact token" |
| | QueuedRunsMoveOn | A message lost after the task id was stored strands its run: `tasks/schedule.py:136` looks only for rows without a task id, and later requests for the query are answered with the stranded run. Its docstring, line 107: "Recover worker/broker crash gaps without creating new crawl runs." |
| `MCIngestionTask_faults.cfg` | RedeliveryIsIdempotent | A run whose page is committed and whose settling write fails meets `uq_job_snapshot_entry_run` in the retry (`ingestion/direct_ats.py:182`) and ends as failed, its jobs saved. `tasks/collection.py:150`: "repeated delivery is terminally idempotent" |
| | BeatSparesLiveClaims | A redispatch task lists two stale claims and requeues the second with the token that it finds then, of a claim made after its list: the rollback of `_lock_run_request` (`collection/repository.py:74`) makes `tasks/schedule.py:124` read it anew. OnlyStaleClaimsRequeued above is the same of entry verification |
| | PagesFiledUnderClaim | An owner whose claim was taken away files its pages all the same (`ingestion/orchestrator.py:590`) |
| | QueuedRunsAreClaimable | `backend/reset_and_dispatch.py:39` resets `crawl_runs` and leaves `collection_requests`: no claim of the run succeeds again. Its docstring: "Reset non-queued runs and dispatch a bounded batch" |
| `MCActivityTransactions_expire.cfg` | QuietPostingsFollowSources | `UPDATE job_postings` of the expiration sees the sources as they were when it began, and overwrites what a list committed while it waited. `tasks/expiration.py:17`: "recompute their postings atomically" |
| `MCJobWriters_lists.cfg` | OpenSourcesShow | A job that is seen again by a partial listing has an open source and a closed posting. `docs/dev/job-coverage-at-scale-plan.md:175`: "只要职位仍有一个有效来源，规范职位保持有效". `ingestion/direct_ats.py:179` does the same when it reopens a source and not its posting: with `Sources = AtsSources = {a1}`, `AtsEntries = {e2}` and no worker. `docs/dev/migration-master-plan.md:171`: "其他来源仍有效时规范职位保持 active" |
| | ListsAreApart | Two tasks pass the freshness check of `job_enumeration/service.py:31` before either has recorded, so two lists of one day count as two absences |
| | DelayedListsDoNotCount | A listing is stamped when it is saved (`tasks/job_enumeration.py:71`), so one that was made before a source was last seen can count as its absence. `backend/tests/ingestion/coverage/test_service.py:206` tests the opposite for `record` alone |
| | ListingsAreSaved | A complete listing without a job is dropped when the company has no primary entry (`tasks/job_enumeration.py:95`), so the last jobs of a company are never closed by it |
| | CompleteListRepairs | `ingestion/coverage/repository.py:160` gets the row the session already holds; when another transaction changed the posting in between, the new value equals the old one in memory and is not written |
| `MCDiscoveryRounds.cfg` | ResumeCanRetry | A company whose last observation is a failed one of a round stops every later `discover --resume` there: `manifest/cli.py:1930` hands its id to a method that looks at legacy observations only (`manifest/service.py:976`). `backend/tests/manifest/test_cli.py:1032`: "test_resume_reprocesses_retryable_failures_and_skips_stable_observations" |
| `MCDiscoveryRounds_pauses.cfg` | PausesTakeEffect | A stratum that is paused while a regeneration runs is still accepted in: `manifest/cli.py:1407` reads the pauses once |
| | EntriesHaveOneOwner | Two transactions look for the entry of one URL (`manifest/service.py:275`) before either inserts it; the table is unique by company and URL only |
| `MCLiveDiscovery_search.cfg` | SearchStaysStopped | A search stopped by a rate limit is recorded on one member; when a resume retries that member and its site now answers, the record is overwritten (`manifest/service.py:1008`) and the next resume searches again. `backend/tests/manifest/test_cli.py:970`: "test_resume_preserves_zhihu_source_stop_without_calling_provider", which ends after one resume |
| `MCCompanyIdentity_filings.cfg` | NoWaitCycle | `persist` takes the keys of legal identifiers when it holds the company row already (`ingestion/persistence/service.py:785`), a reviewer takes them before its rows: the two wait for each other. PostgreSQL rolls one back, which fails the run (`ingestion/persistence/service.py:186`) or the batch of decisions, and neither is repeated |
| `MCCompanyQueries_aliases.cfg` | PostingsAgree, DocumentsNeverGoBack, EvidenceGrows | Two sessions of one company under names that share no key, or of one document: both close a source of a posting and each counts the other's as open; a document's fetch time is set back; a covered field is lost |
| `MCCompanyQueries.cfg` | PagesFollowInvalidation | A page read before a commit and stored after the deletion is served for up to five minutes: `cache/redis.py:79` has no version, as lists have |
| `MCCollectionPipeline_claims.cfg` | FailedRunsSaveNothing | An error on a later page fails a run whose earlier pages are committed |
| | QuotaSpentOnce | A command of the CLI is tried up to four times under one unit of its budget. `ingestion/providers/tianyancha.py:24`: "a bounded CLI quota cannot be silently consumed twice" |
| | SearchesAreNotStarved | Waiting `site:` queries take the threads that the working ones need to look up a host, and those fail by their timeout. `ingestion/entry_discovery/service.py:66` sets ten at once |
| `MCSchemaMigrations_sqlite.cfg` | UpgradesKeepRows | With foreign keys on, as `core/database.py:18` has them, the copy of `job_entries` in 0017 (and of the rankings in 0019) deletes what refers to the old table: the snapshots of every entry, and the sources' links. `backend/tests/migrations/test_migrations.py:712` checks that rows are kept, with foreign keys off |

### What else the models showed

* An import can close a circle of waiting, on an instance larger than that of the run: a curator has a fact with name 3 and alias 2 and a fact with
  name 1, the company of the latter has been imported; while the first one is accepted and not committed, an import makes a company of name 2, as it
  looks at canonical names only. A reviewer, who has locked both companies, renames the imported one and waits to insert its old name 2, which the curator has inserted;
  the curator waits for the row of the other company. PostgreSQL rolls one of them back.
* Of the pages that a run's entry discovery finds, none of a job board ever scores 0.6: such a page has neither the company's
  domain nor an official link, and the cap of 0.59 in `validate_entry_candidate` never applies to a run's candidates. `Confidence` says how.
* The call budget of the Tianyancha provider belongs to one delivery and is never reached by it.
* A SQLite migration that ends half-way cannot be repeated: its first statements stand and are refused as existing. `Downgrade`
  is modelled for whole schemas only, as a half-made one has no revision to go down from.

## What is not modelled

* **Pages and texts.** What services answer, how pages are read and texts normalised is a free
  choice of the models: FindEntry, Collect, the jobs of a listing, the answers on the wire.
* **Values of columns** that no check compares: the merge of job texts, categories, financial figures. Similar names and recruiting
  URLs are free reasons for a review.
* **Two components in one behaviour** where they meet in rows only: IngestionTask has `Collect` and `SavePage` as steps, of
  which CollectionPipeline and CompanyPersistence are the inside; the names that CompanyPersistence locks are written in CompanyIdentity.
* **Countdowns.** A retry is delivered after `min(60, 2 ** retries)` seconds; the models deliver any
  message at any time, which includes that.
* **Requests by alias.** The request modules name a company by its query; a request by alias and a refresh by canonical name can verify
  one company at the same time and meet at `uq_job_entries_primary_per_company`.
* **Read-only queries other than the company's, staging of imports, exports, reports, rendering.** They change nothing
  that another process relies on, or run alone under an operator.
* Everything marked *planned* above, until it is written.

## Plan

In the order in which the parts matter:

1. **Done:** the request pipeline (RequestLifecycle, CollectionRepository, EntryVerification,
   IngestionTask) and the life of postings (JobLifecycle, ActivityTransactions, JobWriters), with their proofs.
2. **Done:** DiscoveryRounds and LiveDiscovery. Still to come: the freeze of the manifest and its replay.
3. **Done:** CompanyIdentity, CompanyPersistence, CompanyQueries, CollectionPipeline, SchemaMigrations.
4. **Done:** theorems about every module but SchemaMigrations.
5. After that: the quota allocation of `manifest/allocation.py` as recursive functions against a reference definition, the resumable
   pilot of `rankings/tianyancha/service.py`, and the polling sessions of the frontend.

## Running

`tlc -config MCX.cfg MCX` for a run (`MCX_variant.cfg` belongs to module `MCX`), `tlapm XProofs.tla` for
the proofs.
