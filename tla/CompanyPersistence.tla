-------------------------- MODULE CompanyPersistence --------------------------
(***************************************************************************)
(* PersistenceService.persist: one transaction that writes what a          *)
(* collection found about a company.  Sessions persist at once, two of the *)
(* same company under different names among them: the advisory keys of     *)
(* the names are all that serializes them.                                 *)
(*                                                                         *)
(* PostgreSQL, READ COMMITTED, and an ORM session that does not flush on   *)
(* queries: a session reads what is committed and what it wrote, writes    *)
(* only the columns it changes, and takes the locks of its rows when it    *)
(* flushes.  The columns that the checks tell apart are the rows of the    *)
(* model.  The row of the company is not one of them: its lock, which a    *)
(* session takes when it changes the row and at the latest with its        *)
(* commit, could only make sessions of one company wait, so the model has  *)
(* more behaviours than the code, and none fewer.                          *)
(*                                                                         *)
(* What a check refuses, what fails and a process that dies is Abort; the  *)
(* other steps are the ones whose checks pass.                             *)
(***************************************************************************)
EXTENDS Naturals, Sequences, FiniteSets

CONSTANTS
  Sessions,   \* sessions that may persist at the same time
  Companies,
  Batches,    \* the batches that collections hand over
  Stored,     \* the rows at the start
  NoPosting,  \* a job that deduplication has not resolved
  MaxBegun    \* bound on the transactions begun

Document(d) == <<"document", d>>      \* source_documents: the time of the fetch
Evidence(c, d) == <<"evidence", c, d>>  \* company_sources: the covered fields
Posting(p) == <<"posting", p>>        \* job_postings: the company and the type
Active(p) == <<"active", p>>          \* job_postings.is_active
Source(j) == <<"source", j>>          \* job_sources: the posting
Open(j) == <<"open", j>>              \* job_sources.is_active
Filing(f) == <<"filing", f>>          \* regulatory_filings: the company
Profile(c) == <<"profile", c>>        \* company_profile_fields: the collection

\* The row that is locked for a column.
RowOf(k) == CASE k[1] = "active" -> Posting(k[2]) [] k[1] = "open" -> Source(k[2]) [] OTHER -> k

NoBatch == [company |-> NoPosting, names |-> {}, claimed |-> FALSE, cached |-> FALSE,
            facts |-> <<>>, jobs |-> <<>>, filings |-> {}, profile |-> FALSE, collected |-> 0]

\* Documents and evidence come in one sequence, and so do jobs.  Jobs that were
\* found on one document name the same source.
ASSUME BatchesAssumption ==
  \A b \in Batches :
    /\ b = [field \in DOMAIN NoBatch |-> b[field]]
    /\ b.facts \in Seq({b.facts[i] : i \in DOMAIN b.facts})
    /\ \A i \in DOMAIN b.facts :
         /\ b.facts[i].key[1] \in {"document", "evidence"}
         /\ b.facts[i].key[1] = "document" => b.facts[i].value \in Nat
    /\ b.company \in Companies /\ b.claimed \in BOOLEAN /\ b.cached \in BOOLEAN
    /\ IsFiniteSet(b.names) /\ IsFiniteSet(b.filings) /\ b.collected \in Nat

\* A source shows a posting that is there, and a posting is shown by a source.
Matched(all) ==
  /\ \A k \in DOMAIN all : k[1] = "source" => Posting(all[k]) \in DOMAIN all
  /\ \A k \in DOMAIN all : k[1] = "posting" => \E j \in DOMAIN all : j[1] = "source" /\ all[j] = k[2]

\* A posting that a session makes has an identity of its own; a source is one row.
ASSUME StoredAssumption ==
  /\ Matched(Stored)
  /\ \A k \in DOMAIN Stored :
       /\ k[1] = "source" => k = Source(k[2]) /\ Open(k[2]) \in DOMAIN Stored
       /\ k[1] = "open" => k = Open(k[2]) /\ Source(k[2]) \in DOMAIN Stored
  /\ \A k \in DOMAIN Stored : k[1] = "posting" =>
       /\ k = Posting(k[2]) /\ k[2][1] \notin Sessions
       /\ Stored[k] = [company |-> Stored[k].company, type |-> Stored[k].type]
       /\ Stored[k].company \in Companies /\ Active(k[2]) \in DOMAIN Stored
  /\ \A k \in DOMAIN Stored : k[1] = "document" => Stored[k] \in Nat

ASSUME BoundAssumption == MaxBegun \in Nat

VARIABLES
  rows,     \* what is committed, by key
  claim,    \* sessions whose run is running under their token
  txn,      \* the open transaction of each session
  commits,  \* the number of commits about each company
  begun     \* the number of transactions begun

dbVars == <<rows, claim, txn, commits, begun>>

\* found is the row that the last query returned, if any; loaded are the
\* columns of postings as they were read; beside are the keys committed
\* meanwhile by sessions that share no name with this one.
Idle == [pc |-> "idle", batch |-> NoBatch, found |-> {}, draft |-> <<>>, locked |-> {},
         jobs |-> {}, loaded |-> <<>>, beside |-> {}]

\* Function new before function old, and f with k changed or added.
Over(new, old) == [k \in DOMAIN new \cup DOMAIN old |-> IF k \in DOMAIN new THEN new[k] ELSE old[k]]
With(f, k, v) == [x \in DOMAIN f \cup {k} |-> IF x = k THEN v ELSE f[x]]

View(s) == Over(txn[s].draft, rows)
At(f, k) == {f[i] : i \in {k} \cap DOMAIN f}
Batch(s) == txn[s].batch

-----------------------------------------------------------------------------
(* Locks.  A definition whose name starts with Faulty is a deliberate      *)
(* defect that no action uses; the mutation runs put it in the place of    *)
(* the one that follows.                                                   *)

InTransaction(s) == txn[s].pc \notin {"idle", "names", "committed", "bumped", "scanned"}

FaultyNamesFree(s) == TRUE
NamesFree(s) == \A t \in Sessions \ {s} : InTransaction(t) => Batch(s).names \cap Batch(t).names = {}

FilingsFree(s) ==
  \A t \in Sessions \ {s} : txn[t].pc = "commit" => Batch(s).filings \cap Batch(t).filings = {}

FaultyRowsFree(s, K) == TRUE
RowsFree(s, K) == \A t \in Sessions \ {s} : {RowOf(k) : k \in K} \cap txn[t].locked = {}

Goes(s, x) == txn' = [txn EXCEPT ![s] = x] /\ UNCHANGED <<rows, claim, commits, begun>>

\* The session flushes: it waits for the rows it has changed and locks them.
Flushes(s, x) ==
  /\ RowsFree(s, DOMAIN x.draft)
  /\ Goes(s, [x EXCEPT !.locked = @ \cup {RowOf(k) : k \in DOMAIN x.draft}])

-----------------------------------------------------------------------------
(* A session, statement by statement.                                      *)

Begin(s) ==
  \E b \in Batches :
    /\ txn[s].pc = "idle" /\ begun < MaxBegun /\ begun' = begun + 1
    /\ claim' = IF b.claimed THEN claim \cup {s} ELSE claim
    /\ txn' = [txn EXCEPT ![s] = [Idle EXCEPT !.pc = "names", !.batch = b]]
    /\ UNCHANGED <<rows, commits>>

LockNames(s) ==
  /\ txn[s].pc = "names" /\ NamesFree(s)
  /\ Goes(s, [txn[s] EXCEPT !.pc = "claim"])

\* The update of the run matches only while it runs under the token, and
\* holds the run and its request until the transaction ends.
FaultyClaimLock(s) == {}
ClaimLock(s) == IF Batch(s).claimed THEN {<<"claim", s>>} ELSE {}
LockClaim(s) ==
  /\ txn[s].pc = "claim" /\ (Batch(s).claimed => s \in claim)
  /\ Goes(s, [txn[s] EXCEPT !.pc = "facts", !.locked = @ \cup ClaimLock(s)])

\* The repository takes the run back.
Requeue(s) ==
  /\ s \in claim /\ <<"claim", s>> \notin txn[s].locked
  /\ claim' = claim \ {s}
  /\ UNCHANGED <<rows, txn, commits, begun>>

\* The documents, and then the evidence for the company: each row is looked
\* up and then inserted or merged with.  An insert waits for one of the same
\* key; if that was committed, the row is read again.
ReadFact(s) ==
  /\ txn[s].pc = "facts" /\ Batch(s).facts # <<>>
  /\ Goes(s, [txn[s] EXCEPT !.pc = "fact", !.found = At(View(s), Head(Batch(s).facts).key)])

FaultyNewest(new, old) == new
Newest(new, old) == IF new >= old THEN new ELSE old
Merged(fact, old) == IF fact.key[1] = "document" THEN Newest(fact.value, old) ELSE old \cup fact.value

Changing(draft, k, old, new) == IF new \in old THEN draft ELSE With(draft, k, new)

WriteFact(s) ==
  LET fact == Head(Batch(s).facts)
      next == [txn[s] EXCEPT !.pc = "facts", !.found = {}, !.batch.facts = Tail(@)]
      old == IF txn[s].found # {} THEN txn[s].found ELSE At(View(s), fact.key)
      value == IF old = {} THEN fact.value ELSE CHOOSE v \in {Merged(fact, o) : o \in old} : TRUE
      written == [next EXCEPT !.draft = Changing(@, fact.key, old, value)]
  IN /\ txn[s].pc = "fact"
     /\ IF txn[s].found # {} THEN Goes(s, written)
        ELSE RowsFree(s, {fact.key}) /\ Flushes(s, written)

\* A job: its source is looked up and tells the posting; a posting of another
\* company, and one that deduplication did not mean, is refused.
Known(s, job) == {View(s)[Source(job.source)] : x \in At(View(s), Source(job.source))}
                 \cup ({job.posting} \ {NoPosting})

FaultyOwned(s, p) == TRUE
Owned(s, p) == Posting(p) \in DOMAIN View(s) /\ View(s)[Posting(p)].company = Batch(s).company

ReadJob(s) ==
  LET job == Head(Batch(s).jobs) IN
  /\ txn[s].pc = "facts" /\ Batch(s).facts = <<>> /\ Batch(s).jobs # <<>>
  /\ Cardinality(Known(s, job)) <= 1 /\ \A p \in Known(s, job) : Owned(s, p)
  /\ Goes(s, [txn[s] EXCEPT !.pc = "job", !.found = At(View(s), Source(job.source)),
                            !.loaded = Over(@, [k \in {Active(p) : p \in Known(s, job)} \cup
                                                   (DOMAIN View(s) \cap {Open(job.source)}) |-> View(s)[k]])])

\* A posting without a known type takes the one of the job; two known types
\* are refused.
CanMerge(old, job) == "unknown" \in {old.type, job.type} \/ old.type = job.type
Merge(draft, p, old, job) ==
  IF job.type = "unknown" THEN draft
  ELSE Changing(draft, Posting(p), {old}, [old EXCEPT !.type = job.type])

\* Without a source and a posting, a posting is made, which goes when it turns
\* out that another session has inserted the source meanwhile.
FaultyWithPosting(draft, p, created, lost) == Over(created, draft)
WithPosting(draft, p, created, lost) == IF lost THEN draft ELSE Over(created, draft)

WriteJob(s) ==
  LET job == Head(Batch(s).jobs)
      key == Source(job.source)
      inserts == txn[s].found = {}
      lost == inserts /\ key \in DOMAIN rows
      made == inserts /\ job.posting = NoPosting
      fresh == <<s, job.source>>
      resolved == IF ~inserts THEN CHOOSE p \in txn[s].found : TRUE
                  ELSE IF made THEN fresh ELSE job.posting
      posting == IF lost THEN rows[key] ELSE resolved
      created == IF made THEN [k \in {Posting(fresh), Active(fresh)} |->
                                 IF k[1] = "posting" THEN [company |-> Batch(s).company, type |-> job.type]
                                 ELSE job.active]
                 ELSE <<>>
      kept == WithPosting(txn[s].draft, fresh, created, lost)
      base == IF made THEN kept ELSE Merge(kept, resolved, Over(kept, rows)[Posting(resolved)], job)
      seen == Over(base, rows)
      loaded == Over(txn[s].loaded, [k \in {Active(posting), Open(job.source)} \cap DOMAIN seen |-> seen[k]])
      draft == Merge(base, posting, seen[Posting(posting)], job)
      next == [txn[s] EXCEPT !.pc = "facts", !.found = {}, !.batch.jobs = Tail(@),
                 !.jobs = @ \cup {posting}, !.loaded = loaded,
                 !.draft = Changing(Changing(draft, key, At(seen, key), posting),
                                    Open(job.source), At(loaded, Open(job.source)), job.active)]
  IN /\ txn[s].pc = "job"
     /\ lost => Owned(s, posting)
     /\ ~made => CanMerge(View(s)[Posting(resolved)], job)
     /\ lost => CanMerge(seen[Posting(posting)], job)
     /\ IF inserts THEN RowsFree(s, {key}) /\ Flushes(s, next) ELSE Goes(s, next)

\* After the jobs everything is flushed, and each posting of the batch is
\* active when one of its sources is.
FaultyAdvertised(s, p) ==
  \E k \in {k \in DOMAIN txn[s].draft : k[1] = "source"} : txn[s].draft[k] = p /\ View(s)[Open(k[2])]
Advertised(s, p) ==
  \E k \in {k \in DOMAIN View(s) : k[1] = "source"} : View(s)[k] = p /\ View(s)[Open(k[2])]

Recounted(s) ==
  Over([k \in {Active(p) : p \in {p \in txn[s].jobs :
                 Advertised(s, p) \notin At(Over(txn[s].draft, txn[s].loaded), Active(p))}} |-> Advertised(s, k[2])],
       txn[s].draft)

Recount(s) ==
  /\ txn[s].pc = "facts" /\ Batch(s).facts = <<>> /\ Batch(s).jobs = <<>>
  /\ Flushes(s, [txn[s] EXCEPT !.pc = "filings"])

CountActive(s) ==
  /\ txn[s].pc = "filings"
  /\ Goes(s, [txn[s] EXCEPT !.pc = "profile", !.draft = Recounted(s)])

\* The filings, whose identities are locked first, and the profile field,
\* which is looked up and written with the commit.
UpsertFilings(s) ==
  /\ txn[s].pc = "profile" /\ FilingsFree(s)
  /\ \A f \in Batch(s).filings : At(View(s), Filing(f)) \subseteq {Batch(s).company}
  /\ LET new == {Filing(f) : f \in Batch(s).filings} \ DOMAIN View(s)
         next == [txn[s] EXCEPT !.pc = "commit", !.found = At(View(s), Profile(Batch(s).company)),
                                !.draft = Over([k \in new |-> Batch(s).company], @)]
     IN IF new = {} THEN Goes(s, next) ELSE Flushes(s, next)

Collected(s) ==
  IF Batch(s).profile THEN [k \in {Profile(Batch(s).company)} |-> Batch(s).collected] ELSE <<>>

ProfileConflicts(s) ==
  Batch(s).profile /\ txn[s].found = {} /\ Profile(Batch(s).company) \in DOMAIN rows

Commit(s) ==
  LET draft == Over(Collected(s), txn[s].draft) IN
  /\ txn[s].pc = "commit" /\ RowsFree(s, DOMAIN draft) /\ ~ProfileConflicts(s)
  /\ rows' = Over(draft, rows)
  /\ commits' = [commits EXCEPT ![Batch(s).company] = @ + 1]
  /\ txn' = [t \in Sessions |->
       IF t = s THEN [Idle EXCEPT !.pc = IF Batch(s).cached THEN "committed" ELSE "idle",
                                  !.batch = [NoBatch EXCEPT !.company = Batch(s).company]]
       ELSE IF InTransaction(t) /\ Batch(t).names \cap Batch(s).names = {}
       THEN [txn[t] EXCEPT !.beside = @ \cup DOMAIN draft]
       ELSE txn[t]]
  /\ UNCHANGED <<claim, begun>>

Abort(s) ==
  /\ txn[s].pc = "names" \/ InTransaction(s)
  /\ Goes(s, Idle)

Statement(s) ==
  \/ LockNames(s) \/ LockClaim(s) \/ ReadFact(s) \/ WriteFact(s) \/ ReadJob(s) \/ WriteJob(s)
  \/ Recount(s) \/ CountActive(s) \/ UpsertFilings(s) \/ Commit(s)

PersistenceInit ==
  /\ rows = Stored /\ claim = {} /\ txn = [s \in Sessions |-> Idle]
  /\ commits = [c \in Companies |-> 0] /\ begun = 0

-----------------------------------------------------------------------------
(* Properties.                                                             *)

Keys(kind) == {k \in DOMAIN rows : k[1] = kind}

\* Each open transaction holds locks only of what it has flushed, and no two
\* hold the same.
PersistenceTypeOK ==
  /\ claim \subseteq Sessions /\ commits \in [Companies -> Nat] /\ begun \in 0 .. MaxBegun
  /\ \A k \in Keys("posting") : rows[k].company \in Companies /\ Active(k[2]) \in DOMAIN rows
  /\ \A s, t \in Sessions : s # t => txn[s].locked \cap txn[t].locked = {}

\* Whoever loses the race for a job source, the postings and the sources that
\* are committed belong together: a source shows a posting that is there, and
\* no posting is left that no source shows.
SourcesAndPostingsMatch == Matched(rows)

Commits(s) == txn[s].pc = "commit" /\ commits' # commits /\ txn'[s].pc # "commit"

\* A session writes postings and sources of its own company only, also when
\* two companies are collected at once and both list the same job.
CompanyOf(all, k) == all[Posting(IF k[1] = "posting" THEN k[2] ELSE all[k])].company
WritesOwnCompany ==
  [][\A s \in Sessions : Commits(s) =>
       \A k \in Keys("posting") \cup Keys("source") :
         rows'[k] # rows[k] => Batch(s).company = CompanyOf(rows, k) /\ Batch(s).company = CompanyOf(rows', k)]_dbVars

\* What is written for a run is committed only while the run is still claimed
\* by the worker, however long the transaction takes.
CommitsUnderClaim ==
  [][\A s \in Sessions : Commits(s) /\ Batch(s).claimed => s \in claim]_dbVars

\* An older fetch sets a document back only when a session without a common
\* name committed the document while the transaction was open.
DocumentsKeepNewest ==
  [][\A k \in Keys("document") :
       rows'[k] < rows[k] => \E s \in Sessions : Commits(s) /\ k \in txn[s].beside]_dbVars

\* A commit leaves each posting of its batch active exactly when a source of
\* it is, but for sources committed meanwhile under other names.
Shown(p) == \E k \in {k \in DOMAIN rows' : k[1] = "source"} : rows'[k] = p /\ rows'[Open(k[2])]
Meanwhile(s, p) ==
  Active(p) \in txn[s].beside \/ \E k \in Keys("source") : rows[k] = p /\ Open(k[2]) \in txn[s].beside
ActivityFollowsSources ==
  [][\A s \in Sessions : Commits(s) =>
       \A p \in txn[s].jobs : rows'[Active(p)] = Shown(p) \/ Meanwhile(s, p)]_dbVars
=============================================================================
