-------------------------- MODULE CompanyQueriesProofs --------------------------
(***************************************************************************)
(* Proofs about CompanyPersistence and CompanyQueries, for any sessions,   *)
(* companies, batches and stored rows, readers, requests and errors.       *)
(*                                                                         *)
(* They rest on two invariants.  Persisting says what a session has        *)
(* written and not committed: it inserts a source only under the lock of   *)
(* its row, makes a posting only with a source that shows it, and holds    *)
(* its claim from the update of the run to the commit.  Caching orders     *)
(* what the database had when the version last advanced, what a request    *)
(* began with, what is cached and what is answered.  Dating and Counting   *)
(* add, for the last two theorems, what a session has read and another     *)
(* may have committed since.                                               *)
(***************************************************************************)
EXTENDS CompanyQueries, TLAPS

-----------------------------------------------------------------------------
(* The sessions.                                                           *)

Claimed == {"facts", "fact", "job", "filings", "profile", "commit"}

Facts == UNION {{b.facts[i] : i \in DOMAIN b.facts} : b \in Batches}

\* A posting has its company and its activity beside it.
Whole(all, d, k) ==
  /\ k = Posting(k[2])
  /\ d[k] = [company |-> d[k].company, type |-> d[k].type] /\ d[k].company \in Companies
  /\ Active(k[2]) \in DOMAIN d \cup DOMAIN all

\* A draft d over the rows of all, under the locks L: a source in it is new and
\* locked, and shows a posting; a posting in it is not new, or is shown by a
\* source in it, or is one of X.
SoundDraft(all, d, L, X) ==
  /\ \A k \in DOMAIN d : k[1] # "claim"
  /\ \A k \in DOMAIN d : k[1] = "source" =>
       k \notin DOMAIN all /\ k \in L /\ Posting(d[k]) \in DOMAIN d \cup DOMAIN all
  /\ \A k \in DOMAIN d : k[1] = "posting" =>
       /\ Whole(all, d, k)
       /\ k \in DOMAIN all \/ k[2] \in X \/ \E j \in DOMAIN d : j[1] = "source" /\ d[j] = k[2]

\* A posting that session s has made for a source carries both in its identity.
MadeBy(s, k) == k[2] = <<s, k[2][2]>>

\* A draft d of session s, about company c, has only postings of the company, and
\* those that are new are ones that s has made with a source of d, or of X.
OwnDraft(all, s, c, d, X) ==
  \A k \in DOMAIN d : k[1] = "posting" =>
    /\ d[k].company = c
    /\ k \in DOMAIN all => all[k].company = c
    /\ k \in DOMAIN all \/ k[2] \in X \/ (MadeBy(s, k) /\ Source(k[2][2]) \in DOMAIN d)

SoundRows(all) ==
  /\ Matched(all)
  /\ \A k \in DOMAIN all : k[1] = "posting" =>
       Whole(all, all, k) /\ \A s \in Sessions : MadeBy(s, k) => Source(k[2][2]) \in DOMAIN all

\* The view of a draft d has the posting p, of the company c.
Has(all, d, c, p) ==
  Posting(p) \in DOMAIN d \cup DOMAIN all /\ Over(d, all)[Posting(p)].company = c

\* What the lookup of a job's source returned still holds, but that another
\* session may have inserted a source that was not there.
JobFits(all, t) ==
  LET job == Head(t.batch.jobs)
      key == Source(job.source)
  IN \/ /\ t.found = {} /\ key \notin DOMAIN t.draft
        /\ job.posting # NoPosting => Has(all, t.draft, t.batch.company, job.posting)
     \/ /\ key \in DOMAIN t.draft \cup DOMAIN all
        /\ t.found = {Over(t.draft, all)[key]}
        /\ Has(all, t.draft, t.batch.company, Over(t.draft, all)[key])

\* The transaction t of session s.
Sound(s, t) ==
  /\ DOMAIN t = DOMAIN Idle
  /\ DOMAIN t.batch = DOMAIN NoBatch
  /\ t.batch.facts \in Seq(Facts) /\ (t.pc = "fact" => t.batch.facts # <<>>)
  /\ t.pc # "idle" => t.batch.company \in Companies
  /\ \A l \in t.locked : l[1] = "claim" => l = <<"claim", s>>
  /\ SoundDraft(rows, t.draft, t.locked, {})
  /\ OwnDraft(rows, s, t.batch.company, t.draft, {})
  /\ t.pc = "job" => JobFits(rows, t)
  /\ t.pc \in Claimed /\ t.batch.claimed => s \in claim /\ <<"claim", s>> \in t.locked

Persisting ==
  /\ SoundRows(rows)
  /\ claim \subseteq Sessions
  /\ commits \in [Companies -> Nat]
  /\ begun \in 0 .. MaxBegun
  /\ DOMAIN txn = Sessions
  /\ \A s \in Sessions : Sound(s, txn[s])
  /\ \A s, t \in Sessions : s # t => txn[s].locked \cap txn[t].locked = {}

-----------------------------------------------------------------------------
(* The cache.                                                              *)

Counts == [Companies -> Nat]
Below(f, g) == \A c \in Companies : f[c] <= g[c]

\* A list that is read or stored is not older than what the request began with.
Keeps(x) ==
  /\ x.pc # "exists"
  /\ x.pc = "get" /\ x.version \in DOMAIN lists => Below(x.since, lists[x.version])
  /\ x.pc = "store" => Below(x.since, x.answer) /\ (x.version = version => Below(heard, x.answer))
  /\ x.pc = "answered" => Below(x.since, x.answer)

SoundReader(x) ==
  /\ DOMAIN x = DOMAIN NoRequest
  /\ x.asks \in {List} \cup Pages
  /\ x.version \in 0 .. version \cup {NoVersion}
  /\ x.answer \in Counts /\ Below(x.answer, commits)
  /\ x.since \in Counts /\ Below(x.since, heard)
  /\ x.asks = List => Keeps(x)

Caching ==
  /\ commits \in Counts
  /\ version \in Nat
  /\ heard \in Counts /\ Below(heard, commits)
  /\ DOMAIN lists \subseteq 0 .. version
  /\ \A v \in DOMAIN lists : lists[v] \in Counts /\ Below(lists[v], commits)
  /\ version \in DOMAIN lists => Below(heard, lists[version])
  /\ DOMAIN pages \subseteq Pages
  /\ \A k \in DOMAIN pages : pages[k] \in Counts /\ Below(pages[k], commits)
  /\ DOMAIN reader = Readers
  /\ \A r \in Readers : SoundReader(reader[r])

-----------------------------------------------------------------------------
(* Queries.                                                                *)

\* A reader goes on with what is sound, and the cache stays as it was.
LEMMA ReadsKeep ==
  ASSUME Caching, NEW r \in Readers, NEW x, SoundReader(x), Reads(r, x)
  PROVE  Caching'
<1>1. UNCHANGED <<commits, version, lists, pages, heard>>
  BY DEF Reads
<1>2. \A q \in Readers : SoundReader(reader'[q])
  BY DEF Caching, Reads
<1>3. \A q \in Readers : SoundReader(reader[q])'
  BY <1>1, <1>2 DEF SoundReader, Keeps, Below
<1> QED
  BY <1>1, <1>3 DEF Caching, Reads, Below

\* A request begins with what the last advance of the version has heard of.
LEMMA AskKeeps == ASSUME Caching, NEW r \in Readers, Ask(r) PROVE Caching'
<1>1. PICK q \in {List} \cup Pages :
        LET x == [reader[r] EXCEPT !.pc = CASE q = List -> "version" [] q[1] = "detail" -> "get"
                                          [] OTHER -> "exists",
                                   !.asks = q, !.since = heard]
        IN Reads(r, x)
  BY DEF Ask
<1> DEFINE x == [reader[r] EXCEPT !.pc = CASE q = List -> "version" [] q[1] = "detail" -> "get"
                                         [] OTHER -> "exists",
                                  !.asks = q, !.since = heard]
<1>2. SoundReader(reader[r])
  BY DEF Caching
<1>3. Below(heard, heard)
  BY DEF Caching, Below, Counts
<1>4. x.asks = List => x.pc = "version"
  <2>1. DOMAIN reader[r] = DOMAIN NoRequest
    BY <1>2 DEF SoundReader
  <2>2. x.asks = q
    BY <2>1 DEF NoRequest
  <2>3. q = List => x.pc = "version"
    BY <2>1 DEF NoRequest, List
  <2> QED
    BY <2>2, <2>3
<1>5. SoundReader(x)
  <2>1. x.asks = List => Keeps(x)
    BY <1>4 DEF Keeps
  <2> QED
    BY <1>2, <1>3, <2>1 DEF SoundReader, NoRequest, Caching
<1> QED
  BY <1>1, <1>5, ReadsKeep

\* The list that is at the version just read is no older than the request.
LEMMA ReadVersionKeeps == ASSUME Caching, NEW r \in Readers, ReadVersion(r) PROVE Caching'
<1>1. SoundReader(reader[r])
  BY DEF Caching
<1>2. CASE Reads(r, [reader[r] EXCEPT !.pc = "get", !.version = version])
  <2> DEFINE x == [reader[r] EXCEPT !.pc = "get", !.version = version]
  <2>1. version \in DOMAIN lists => Below(x.since, lists[version])
    BY <1>1 DEF SoundReader, NoRequest, Caching, Below, Counts
  <2>2. SoundReader(x)
    BY <1>1, <2>1 DEF SoundReader, NoRequest, Caching, Keeps
  <2> QED
    BY <1>2, <2>2, ReadsKeep
<1>3. CASE Reads(r, [reader[r] EXCEPT !.pc = "query"])
  <2>1. SoundReader([reader[r] EXCEPT !.pc = "query"])
    BY <1>1 DEF SoundReader, NoRequest, Keeps
  <2> QED
    BY <1>3, <2>1, ReadsKeep
<1> QED
  BY <1>2, <1>3 DEF ReadVersion

LEMMA GetKeeps == ASSUME Caching, NEW r \in Readers, Get(r) PROVE Caching'
<1>1. SoundReader(reader[r]) /\ reader[r].pc = "get"
  BY DEF Caching, Get
<1>2. CASE Reads(r, [reader[r] EXCEPT !.pc = "query"])
  <2>1. SoundReader([reader[r] EXCEPT !.pc = "query"])
    BY <1>1 DEF SoundReader, NoRequest, Keeps
  <2> QED
    BY <1>2, <2>1, ReadsKeep
<1>3. ASSUME NEW value \in Cached(r), Reads(r, [reader[r] EXCEPT !.pc = "answered", !.answer = value])
      PROVE  Caching'
  <2> DEFINE x == [reader[r] EXCEPT !.pc = "answered", !.answer = value]
  <2>1. value \in Counts /\ Below(value, commits)
    BY <1>1, <1>3 DEF Cached, At, Caching
  <2>2. reader[r].asks = List => Below(reader[r].since, value)
    BY <1>1, <1>3 DEF Cached, At, SoundReader, Keeps
  <2>3. SoundReader(x)
    BY <1>1, <2>1, <2>2 DEF SoundReader, NoRequest, Keeps
  <2> QED
    BY <1>3, <2>3, ReadsKeep
<1>4. CASE Reads(r, [reader[r] EXCEPT !.pc = "query", !.version = NoVersion])
  <2>1. SoundReader([reader[r] EXCEPT !.pc = "query", !.version = NoVersion])
    BY <1>1 DEF SoundReader, NoRequest, Keeps
  <2> QED
    BY <1>4, <2>1, ReadsKeep
<1> QED
  BY <1>2, <1>3, <1>4 DEF Get

\* What the database says now is no older than what the version has heard of.
LEMMA FoundKeeps == ASSUME Caching, NEW r \in Readers, Found(r) PROVE Caching'
<1> DEFINE x == [reader[r] EXCEPT !.pc = "store", !.answer = commits]
<1>1. SoundReader(reader[r])
  BY DEF Caching
<1>2. Below(reader[r].since, commits)
  BY <1>1 DEF SoundReader, Caching, Below, Counts
<1>3. Below(commits, commits) /\ Below(heard, commits)
  BY DEF Caching, Below, Counts
<1>4. SoundReader(x)
  BY <1>1, <1>2, <1>3 DEF SoundReader, NoRequest, Keeps, Caching
<1> QED
  BY <1>4, ReadsKeep DEF Found

LEMMA NotFoundKeeps == ASSUME Caching, NEW r \in Readers, Reads(r, NoRequest) PROVE Caching'
<1>1. Nothing \in Counts /\ Below(Nothing, commits) /\ Below(Nothing, heard)
  BY DEF Caching, Below, Counts, Nothing
<1>2. NoRequest.asks = List /\ NoRequest.version = NoVersion /\ NoRequest.pc = "idle"
      /\ NoRequest.answer = Nothing /\ NoRequest.since = Nothing
  BY DEF NoRequest
<1>3. SoundReader(NoRequest)
  BY <1>1, <1>2 DEF SoundReader, Keeps
<1> QED
  BY <1>3, ReadsKeep

LEMMA CheckKeeps == ASSUME Caching, NEW r \in Readers, CheckCompany(r) PROVE Caching'
<1>1. SoundReader(reader[r])
  BY DEF Caching
<1>2. ASSUME Reads(r, [reader[r] EXCEPT !.pc = "get"]), reader[r].pc = "exists" PROVE Caching'
  <2>1. SoundReader([reader[r] EXCEPT !.pc = "get"])
    BY <1>1, <1>2 DEF SoundReader, NoRequest, Keeps
  <2> QED
    BY <1>2, <2>1, ReadsKeep
<1> QED
  BY <1>2, NotFoundKeeps DEF CheckCompany, NotFound

\* A list is stored only at the current version, as it was after that was read.
LEMMA StoreKeeps == ASSUME Caching, NEW r \in Readers, Store(r) PROVE Caching'
<1> DEFINE x == reader[r]
<1>1. SoundReader(x) /\ x.pc = "store"
  BY DEF Caching, Store
<1>2. UNCHANGED <<commits, version, heard>>
  BY DEF Store
<1>3. /\ DOMAIN lists' \subseteq 0 .. version
      /\ \A v \in DOMAIN lists' : lists'[v] \in Counts /\ Below(lists'[v], commits)
      /\ version \in DOMAIN lists' => Below(heard, lists'[version])
      /\ \A v \in DOMAIN lists' : (v \in DOMAIN lists /\ lists'[v] = lists[v]) \/ v = version
  <2>1. CASE lists' = lists
    BY <2>1 DEF Caching
  <2>2. CASE lists' = Over([v \in ListKey(r) |-> x.answer], lists) /\ x.asks = List
    <3>1. ListKey(r) \subseteq {version} /\ (version \in ListKey(r) => x.version = version)
      BY DEF ListKey
    <3>2. x.version = version => Below(heard, x.answer)
      BY <1>1, <2>2 DEF SoundReader, Keeps
    <3>3. DOMAIN lists' = ListKey(r) \cup DOMAIN lists
      BY <2>2 DEF Over
    <3>4. \A v \in DOMAIN lists' : lists'[v] = IF v \in ListKey(r) THEN x.answer ELSE lists[v]
      BY <2>2 DEF Over
    <3>5. x.answer \in Counts /\ Below(x.answer, commits)
      BY <1>1 DEF SoundReader
    <3> HIDE DEF x
    <3> QED
      BY <3>1, <3>2, <3>3, <3>4, <3>5 DEF Caching
  <2> QED
    BY <2>1, <2>2 DEF Store, Stores
<1>4. DOMAIN pages' \subseteq Pages /\ \A k \in DOMAIN pages' : pages'[k] \in Counts /\ Below(pages'[k], commits)
  <2>1. CASE pages' = pages
    BY <2>1 DEF Caching
  <2>2. CASE pages' = With(pages, x.asks, x.answer) /\ x.asks # List
    BY <1>1, <2>2 DEF With, Caching, SoundReader
  <2> QED
    BY <2>1, <2>2 DEF Store, Stores
<1>5. \A q \in Readers : SoundReader(reader[q])'
  <2> TAKE q \in Readers
  <2>1. SoundReader(reader[q]) /\ DOMAIN reader = Readers
    BY DEF Caching
  <2>2. reader'[q] = IF q = r THEN [x EXCEPT !.pc = "answered"] ELSE reader[q]
    BY <2>1 DEF Store
  <2>3. CASE q = r
    BY <1>1, <1>2, <2>2, <2>3 DEF SoundReader, NoRequest, Keeps, Below
  <2>4. CASE q # r
    <3>1. ASSUME reader[q].asks = List, reader[q].pc = "get", reader[q].version \in DOMAIN lists'
          PROVE  Below(reader[q].since, lists'[reader[q].version])
      <4>1. CASE reader[q].version \in DOMAIN lists /\ lists'[reader[q].version] = lists[reader[q].version]
        BY <2>1, <3>1, <4>1 DEF SoundReader, Keeps
      <4>2. CASE reader[q].version = version
        <5>1. Below(heard, lists'[version]) /\ lists'[version] \in Counts
          BY <1>3, <3>1, <4>2
        <5>2. Below(reader[q].since, heard) /\ reader[q].since \in Counts /\ heard \in Counts
          BY <2>1 DEF SoundReader, Caching
        <5> QED
          BY <4>2, <5>1, <5>2 DEF Below, Counts
      <4> QED
        BY <1>3, <3>1, <4>1, <4>2
    <3> QED
      BY <1>2, <2>1, <2>2, <2>4, <3>1 DEF SoundReader, Keeps, Below
  <2> QED
    BY <2>3, <2>4
<1>6. DOMAIN reader' = Readers
  BY DEF Store, Caching
<1>7. (commits \in Counts /\ version \in Nat /\ heard \in Counts /\ Below(heard, commits))'
  BY <1>2 DEF Caching, Below
<1> QED
  BY <1>2, <1>3, <1>4, <1>5, <1>6, <1>7 DEF Caching, Below

LEMMA RespondKeeps == ASSUME Caching, NEW r \in Readers, Respond(r) PROVE Caching'
BY ReadVersionKeeps, CheckKeeps, GetKeeps, FoundKeeps, NotFoundKeeps, StoreKeeps
   DEF Respond, Search, LoadDetail, ListJobs, Answer, NotFound

\* What is dropped is not read.
LEMMA ExpireKeeps == ASSUME Caching, Expire PROVE Caching'
<1>1. UNCHANGED <<commits, version, heard, reader>>
  BY DEF Expire
<1>2. DOMAIN lists' \subseteq DOMAIN lists /\ \A v \in DOMAIN lists' : lists'[v] = lists[v]
  <2>1. DOMAIN <<>> = {}
    OBVIOUS
  <2> QED
    BY <2>1 DEF Expire
<1>3. DOMAIN pages' \subseteq DOMAIN pages /\ \A k \in DOMAIN pages' : pages'[k] = pages[k]
  BY DEF Expire, Without
<1>4. \A q \in Readers : SoundReader(reader[q])'
  <2> TAKE q \in Readers
  <2>1. SoundReader(reader[q])
    BY DEF Caching
  <2> QED
    BY <1>1, <1>2, <2>1 DEF SoundReader, Keeps, Below
<1> QED
  BY <1>1, <1>2, <1>3, <1>4 DEF Caching, Below

-----------------------------------------------------------------------------
(* Commits and invalidations, as the cache sees them.                      *)

\* A commit makes the database newer than whatever is cached.
LEMMA CommitAges ==
  ASSUME Caching, commits' \in Counts, Below(commits, commits'),
         UNCHANGED <<version, lists, pages, reader, heard>>
  PROVE  Caching'
<1>1. \A f \in Counts : Below(f, commits) => Below(f, commits')
  BY DEF Caching, Below, Counts
<1>2. \A q \in Readers : SoundReader(reader[q])'
  <2> TAKE q \in Readers
  <2>1. SoundReader(reader[q])
    BY DEF Caching
  <2> QED
    BY <1>1, <2>1 DEF SoundReader, Keeps, Below
<1> QED
  BY <1>1, <1>2 DEF Caching, Below

\* An advance hears of every commit, and no list is at the version it makes.
LEMMA AdvanceKeeps ==
  ASSUME Caching, version' = version + 1, heard' = commits,
         UNCHANGED <<commits, lists, pages, reader>>
  PROVE  Caching'
<1>1. \A f \in Counts : Below(f, heard) => Below(f, heard')
  BY DEF Caching, Below, Counts
<1>2. version' \notin 0 .. version \cup {NoVersion} /\ version' \in Nat /\ version \in Nat
  BY VersionsAssumption DEF Caching
<1>3. \A q \in Readers : SoundReader(reader[q])'
  <2> TAKE q \in Readers
  <2>1. SoundReader(reader[q])
    BY DEF Caching
  <2>2. Keeps(reader[q]) => Keeps(reader[q])'
    BY <1>2, <2>1 DEF SoundReader, Keeps, Below
  <2>3. 0 .. version \subseteq 0 .. version'
    BY <1>2
  <2> QED
    BY <1>1, <2>1, <2>2, <2>3 DEF SoundReader, Below
<1>4. version' \notin DOMAIN lists' /\ DOMAIN lists' \subseteq 0 .. version'
  BY <1>2 DEF Caching
<1>5. Below(heard', commits')
  BY DEF Caching, Below, Counts
<1> QED
  BY <1>2, <1>3, <1>4, <1>5 DEF Caching, Below

LEMMA InvalidateKeeps == ASSUME Caching, NEW s \in Sessions, Invalidate(s) PROVE Caching'
<1>1. CASE UNCHANGED <<commits, version, lists, reader, heard>> /\ DOMAIN pages' \subseteq DOMAIN pages
           /\ \A k \in DOMAIN pages' : pages'[k] = pages[k]
  <2>1. \A q \in Readers : SoundReader(reader[q])'
    BY <1>1 DEF Caching, SoundReader, Keeps, Below
  <2> QED
    BY <1>1, <2>1 DEF Caching, Below
<1>2. CASE Advance(s)
  BY <1>1, <1>2, AdvanceKeeps DEF Advance
<1>3. CASE Scan(s)
  BY <1>1, <1>3 DEF Scan
<1>4. CASE Delete(s)
  BY <1>1, <1>4 DEF Delete, Without
<1> QED
  BY <1>2, <1>3, <1>4 DEF Invalidate

-----------------------------------------------------------------------------
(* Drafts.                                                                 *)

\* e adds to d only what is neither a source nor a posting, nor a claim.
Beside(d, e) ==
  /\ DOMAIN d \subseteq DOMAIN e
  /\ \A k \in DOMAIN e : k[1] \in {"source", "posting"} => k \in DOMAIN d /\ e[k] = d[k]
  /\ \A k \in DOMAIN e : k \in DOMAIN d \/ k[1] # "claim"

LEMMA OverHas ==
  ASSUME NEW d, NEW all
  PROVE  /\ DOMAIN Over(d, all) = DOMAIN d \cup DOMAIN all
         /\ \A k \in DOMAIN d \cup DOMAIN all :
              Over(d, all)[k] = IF k \in DOMAIN d THEN d[k] ELSE all[k]
BY DEF Over

LEMMA EmptyHas == DOMAIN <<>> = {}
OBVIOUS

LEMMA DraftGrows ==
  ASSUME NEW all, NEW d, NEW e, NEW L, NEW M, NEW X,
         SoundDraft(all, d, L, X), Beside(d, e), L \subseteq M
  PROVE  SoundDraft(all, e, M, X)
BY DEF SoundDraft, Beside, Whole

LEMMA EmptyIsSound == ASSUME NEW all, NEW L, NEW X PROVE SoundDraft(all, <<>>, L, X)
BY EmptyHas DEF SoundDraft

\* Another kind of row is written.
LEMMA ChangingIsBeside ==
  ASSUME NEW d, NEW k, NEW old, NEW new, k[1] \notin {"source", "posting", "claim"}
  PROVE  Beside(d, Changing(d, k, old, new))
BY DEF Beside, Changing, With

LEMMA OverIsBeside ==
  ASSUME NEW d, NEW new, \A k \in DOMAIN new : k[1] \notin {"source", "posting", "claim"}
  PROVE  Beside(d, Over(new, d))
BY DEF Beside, Over

LEMMA BesideIsTransitive ==
  ASSUME NEW d, NEW e, NEW f, Beside(d, e), Beside(e, f)
  PROVE  Beside(d, f)
BY DEF Beside

\* What a session writes for a job: a posting in view takes the job's type, a
\* posting is made, a source comes to show it.
Typed(all, d, p, job) == Merge(d, p, Over(d, all)[Posting(p)], job)
Made(d, p, company, type, active) ==
  Over([k \in {Posting(p), Active(p)} |->
          IF k[1] = "posting" THEN [company |-> company, type |-> type] ELSE active], d)
Sourced(all, d, key, p) == Changing(d, key, At(Over(d, all), key), p)

\* e has what d has, but at x.
SameBut(d, e, x) == DOMAIN d \subseteq DOMAIN e /\ \A k \in DOMAIN d : k # x => e[k] = d[k]

\* e has what d has, and says the same of the source key over the rows of all.
SameSource(all, d, e, key) ==
  /\ DOMAIN d \subseteq DOMAIN e
  /\ key \in DOMAIN e <=> key \in DOMAIN d
  /\ key \in DOMAIN d \cup DOMAIN all => Over(e, all)[key] = Over(d, all)[key]

LEMMA MergeKeeps ==
  ASSUME NEW all, NEW d, NEW L, NEW X, NEW p, NEW job,
         SoundRows(all), SoundDraft(all, d, L, X), Posting(p) \in DOMAIN d \cup DOMAIN all
  PROVE  /\ SoundDraft(all, Typed(all, d, p, job), L, X)
         /\ DOMAIN Typed(all, d, p, job) \subseteq DOMAIN d \cup {Posting(p)}
         /\ SameBut(d, Typed(all, d, p, job), Posting(p))
<1> DEFINE old == Over(d, all)[Posting(p)]
           new == [old EXCEPT !.type = job.type]
           e == Typed(all, d, p, job)
<1>1. Posting(p)[1] = "posting" /\ Posting(p)[2] = p
  BY DEF Posting
<1>2. CASE e = d
  BY <1>2 DEF SameBut
<1>3. CASE e = With(d, Posting(p), new)
  <2>1. old = [company |-> old.company, type |-> old.type] /\ old.company \in Companies
    <3>1. CASE Posting(p) \in DOMAIN d
      <4>1. old = d[Posting(p)]
        BY <3>1 DEF Over
      <4> QED
        BY <1>1, <3>1, <4>1 DEF SoundDraft, Whole
    <3>2. CASE Posting(p) \notin DOMAIN d
      <4>1. old = all[Posting(p)] /\ Posting(p) \in DOMAIN all
        BY <3>2 DEF Over
      <4> QED
        BY <1>1, <4>1 DEF SoundRows, Whole
    <3> QED
      BY <3>1, <3>2
  <2>2. new = [company |-> new.company, type |-> new.type] /\ new.company \in Companies
    BY <2>1
  <2>3. DOMAIN e = DOMAIN d \cup {Posting(p)}
        /\ \A k \in DOMAIN e : e[k] = IF k = Posting(p) THEN new ELSE d[k]
    BY <1>3 DEF With
  <2> HIDE DEF e
  <2>4. Active(p) \in DOMAIN d \cup DOMAIN all
    BY <1>1 DEF SoundDraft, SoundRows, Whole
  <2>5. Posting(p) \in DOMAIN all \/ p \in X \/ \E j \in DOMAIN d : j[1] = "source" /\ d[j] = p
    BY <1>1 DEF SoundDraft
  <2>6. \A k \in DOMAIN d : k[1] = "source" => e[k] = d[k]
    BY <1>1, <2>3
  <2> HIDE DEF e, new, old
  <2>7. \A k \in DOMAIN e : k[1] = "posting" => Whole(all, e, k)
    BY <1>1, <2>2, <2>3, <2>4 DEF SoundDraft, Whole
  <2>8. \A k \in DOMAIN e : k[1] = "posting" =>
          k \in DOMAIN all \/ k[2] \in X \/ \E j \in DOMAIN e : j[1] = "source" /\ e[j] = k[2]
    BY <1>1, <2>3, <2>5, <2>6 DEF SoundDraft
  <2>9. \A k \in DOMAIN e : k[1] # "claim"
          /\ (k[1] = "source" => k \notin DOMAIN all /\ k \in L /\ Posting(e[k]) \in DOMAIN e \cup DOMAIN all)
    BY <1>1, <2>3, <2>6 DEF SoundDraft
  <2>10. SoundDraft(all, e, L, X)
    BY <2>7, <2>8, <2>9 DEF SoundDraft
  <2>11. DOMAIN e \subseteq DOMAIN d \cup {Posting(p)} /\ SameBut(d, e, Posting(p))
    BY <2>3 DEF SameBut
  <2> QED
    BY <2>10, <2>11 DEF e
<1>4. CASE e # d /\ e # With(d, Posting(p), new)
  BY <1>4 DEF Typed, Merge, Changing
<1> QED
  BY <1>2, <1>3, <1>4

\* A source is inserted that shows a posting in view.
LEMMA InsertKeeps ==
  ASSUME NEW all, NEW d, NEW L, NEW p, NEW key,
         SoundDraft(all, d, L, {p}), Posting(p) \in DOMAIN d \cup DOMAIN all,
         key[1] = "source", key \notin DOMAIN d, key \notin DOMAIN all
  PROVE  SoundDraft(all, With(d, key, p), L \cup {key}, {})
<1> DEFINE e == With(d, key, p)
<1>1. DOMAIN e = DOMAIN d \cup {key} /\ \A k \in DOMAIN e : e[k] = IF k = key THEN p ELSE d[k]
  BY DEF With
<1> HIDE DEF e
<1>2. \A k \in DOMAIN e : k[1] = "posting" => Whole(all, e, k)
  BY <1>1 DEF SoundDraft, Whole
<1>3. \A k \in DOMAIN e : k[1] = "posting" =>
        k \in DOMAIN all \/ \E j \in DOMAIN e : j[1] = "source" /\ e[j] = k[2]
  BY <1>1 DEF SoundDraft
<1>4. \A k \in DOMAIN e : k[1] # "claim"
        /\ (k[1] = "source" => k \notin DOMAIN all /\ k \in L \cup {key}
                               /\ Posting(e[k]) \in DOMAIN e \cup DOMAIN all)
  BY <1>1 DEF SoundDraft
<1>5. SoundDraft(all, e, L \cup {key}, {})
  BY <1>2, <1>3, <1>4 DEF SoundDraft
<1> QED
  BY <1>5 DEF e

-----------------------------------------------------------------------------
(* Whose postings they are.                                                *)

LEMMA OwnGrows ==
  ASSUME NEW all, NEW s, NEW c, NEW d, NEW e, NEW X, OwnDraft(all, s, c, d, X), Beside(d, e)
  PROVE  OwnDraft(all, s, c, e, X)
BY DEF OwnDraft, Beside

LEMMA EmptyIsOwn == ASSUME NEW all, NEW s, NEW c, NEW X PROVE OwnDraft(all, s, c, <<>>, X)
BY EmptyHas DEF OwnDraft

\* Another session's commit keeps the company of a posting that is there.
LEMMA OthersStayOwn ==
  ASSUME NEW all, NEW s, NEW c, NEW d, NEW t, NEW other, NEW e, s # t,
         OwnDraft(all, s, c, d, {}), OwnDraft(all, t, other, e, {})
  PROVE  OwnDraft(Over(e, all), s, c, d, {})
<1>1. DOMAIN Over(e, all) = DOMAIN e \cup DOMAIN all
      /\ \A k \in DOMAIN e \cup DOMAIN all : Over(e, all)[k] = IF k \in DOMAIN e THEN e[k] ELSE all[k]
  BY DEF Over
<1>2. \A k \in DOMAIN d : k[1] = "posting" /\ k \notin DOMAIN all => k \notin DOMAIN e
  BY DEF OwnDraft, MadeBy
<1> QED
  BY <1>1, <1>2 DEF OwnDraft

\* A posting of the company stays in the view of a session.
LEMMA HasStays ==
  ASSUME NEW all, NEW d, NEW c, NEW p, NEW t, NEW other, NEW e,
         Has(all, d, c, p), OwnDraft(all, t, other, e, {})
  PROVE  Has(Over(e, all), d, c, p)
<1>1. Posting(p)[1] = "posting"
  BY DEF Posting
<1> QED
  BY <1>1 DEF Has, OwnDraft, Over

\* The type of a posting of the company changes, the companies stay.
LEMMA TypedOwns ==
  ASSUME NEW all, NEW s, NEW c, NEW d, NEW L, NEW X, NEW p, NEW job,
         SoundRows(all), SoundDraft(all, d, L, X), OwnDraft(all, s, c, d, X), Has(all, d, c, p)
  PROVE  /\ OwnDraft(all, s, c, Typed(all, d, p, job), X)
         /\ \A q : Has(all, d, c, q) => Has(all, Typed(all, d, p, job), c, q)
<1> DEFINE old == Over(d, all)[Posting(p)]
           new == [old EXCEPT !.type = job.type]
           e == Typed(all, d, p, job)
<1>1. Posting(p)[1] = "posting" /\ Posting(p)[2] = p /\ Posting(p) \in DOMAIN d \cup DOMAIN all
  BY DEF Posting, Has
<1>2. CASE e = d
  BY <1>2
<1>3. CASE e = With(d, Posting(p), new)
  <2>1. new.company = c
    <3>1. old = [company |-> old.company, type |-> old.type]
      BY <1>1 DEF SoundDraft, SoundRows, Whole, Over
    <3>2. old.company = c
      BY DEF Has
    <3> HIDE DEF old
    <3> QED
      BY <3>1, <3>2
  <2>2. DOMAIN e = DOMAIN d \cup {Posting(p)}
        /\ \A k \in DOMAIN e : e[k] = IF k = Posting(p) THEN new ELSE d[k]
    BY <1>3 DEF With
  <2>3. Posting(p) \notin DOMAIN d => Posting(p) \in DOMAIN all /\ all[Posting(p)].company = c
    BY <1>1 DEF Has, Over
  <2> HIDE DEF e, new, old
  <2>4. \A k \in DOMAIN e : k[1] = "posting" => e[k].company = c /\ (k \in DOMAIN all => all[k].company = c)
    BY <2>1, <2>2, <2>3 DEF OwnDraft
  <2>5. \A k \in DOMAIN e : k[1] = "posting" =>
          k \in DOMAIN all \/ k[2] \in X \/ (MadeBy(s, k) /\ Source(k[2][2]) \in DOMAIN e)
    BY <2>2, <2>3 DEF OwnDraft
  <2>6. OwnDraft(all, s, c, e, X)
    BY <2>4, <2>5 DEF OwnDraft
  <2>7. ASSUME NEW q, Has(all, d, c, q) PROVE Has(all, e, c, q)
    <3>1. Posting(q)[1] = "posting"
      BY DEF Posting
    <3> QED
      BY <2>1, <2>2, <2>7, <3>1 DEF Has, Over
  <2> QED
    BY <2>6, <2>7 DEF e
<1>4. CASE e # d /\ e # With(d, Posting(p), new)
  BY <1>4 DEF Typed, Merge, Changing
<1> QED
  BY <1>2, <1>3, <1>4

LEMMA MadeOwns ==
  ASSUME NEW all, NEW s \in Sessions, NEW c, NEW d, NEW j, NEW type, NEW active,
         SoundRows(all), OwnDraft(all, s, c, d, {}), Source(j) \notin DOMAIN all
  PROVE  /\ OwnDraft(all, s, c, Made(d, <<s, j>>, c, type, active), {<<s, j>>})
         /\ Has(all, Made(d, <<s, j>>, c, type, active), c, <<s, j>>)
<1> DEFINE p == <<s, j>>
           e == Made(d, p, c, type, active)
           new == [company |-> c, type |-> type]
<1>1. Posting(p)[1] = "posting" /\ Posting(p)[2] = p /\ Active(p)[1] = "active"
  BY DEF Posting, Active
<1>2. DOMAIN e = DOMAIN d \cup {Posting(p), Active(p)} /\ e[Posting(p)] = new
      /\ \A k \in DOMAIN d : k # Posting(p) /\ k # Active(p) => e[k] = d[k]
  BY <1>1 DEF Made, Over
<1>3. Posting(p) \notin DOMAIN all
  BY <1>1 DEF SoundRows, MadeBy
<1>4. new.company = c
  OBVIOUS
<1> HIDE DEF e, new
<1>5. \A k \in DOMAIN e : k[1] = "posting" => e[k].company = c /\ (k \in DOMAIN all => all[k].company = c)
  BY <1>1, <1>2, <1>3, <1>4 DEF OwnDraft
<1>6. \A k \in DOMAIN e : k[1] = "posting" =>
        k \in DOMAIN all \/ k[2] \in {p} \/ (MadeBy(s, k) /\ Source(k[2][2]) \in DOMAIN e)
  BY <1>1, <1>2 DEF OwnDraft
<1>7. OwnDraft(all, s, c, e, {p})
  BY <1>5, <1>6 DEF OwnDraft
<1>8. Has(all, e, c, p)
  BY <1>2, <1>4 DEF Has, Over
<1> QED
  BY <1>7, <1>8 DEF e

LEMMA SourcedOwns ==
  ASSUME NEW all, NEW s, NEW c, NEW d, NEW X, NEW j, NEW p,
         OwnDraft(all, s, c, d, X), X \subseteq {<<s, j>>},
         X = {} \/ Source(j) \notin DOMAIN d \cup DOMAIN all
  PROVE  OwnDraft(all, s, c, Sourced(all, d, Source(j), p), {})
<1> DEFINE key == Source(j)
           e == Sourced(all, d, key, p)
<1>1. key[1] = "source"
  BY DEF Source
<1>2. DOMAIN d \subseteq DOMAIN e /\ DOMAIN e \subseteq DOMAIN d \cup {key}
      /\ \A k \in DOMAIN d : k # key => e[k] = d[k]
  BY DEF Sourced, Changing, With
<1>3. key \notin DOMAIN d \cup DOMAIN all => key \in DOMAIN e
  BY DEF Sourced, Changing, With, At, Over
<1>4. \A k : k[2] \in X => MadeBy(s, k) /\ k[2][2] = j
  BY DEF MadeBy
<1> HIDE DEF e
<1>5. OwnDraft(all, s, c, e, {})
  BY <1>1, <1>2, <1>3, <1>4 DEF OwnDraft
<1> QED
  BY <1>5 DEF e

-----------------------------------------------------------------------------
(* One session goes on, and the rows stay as they are.                     *)

Flushed(x) == [x EXCEPT !.locked = @ \cup {RowOf(k) : k \in DOMAIN x.draft}]

LEMMA RowsAreNoClaims == ASSUME NEW k, k[1] # "claim" PROVE RowOf(k)[1] # "claim"
BY DEF RowOf, Posting, Source

LEMMA FactsAreKnown == \A fact \in Facts : fact.key[1] \in {"document", "evidence"}
<1> TAKE fact \in Facts
<1>1. PICK b \in Batches : fact \in {b.facts[i] : i \in DOMAIN b.facts}
  BY DEF Facts
<1>2. \A i \in DOMAIN b.facts : b.facts[i].key[1] \in {"document", "evidence"}
  BY BatchesAssumption
<1> QED
  BY <1>1, <1>2

\* What is fetched has a time.
LEMMA FetchesAreDated == \A fact \in Facts : fact.key[1] = "document" => fact.value \in Nat
<1> TAKE fact \in Facts
<1>1. PICK b \in Batches : fact \in {b.facts[i] : i \in DOMAIN b.facts}
  BY DEF Facts
<1>2. \A i \in DOMAIN b.facts : b.facts[i].key[1] = "document" => b.facts[i].value \in Nat
  BY BatchesAssumption
<1> QED
  BY <1>1, <1>2

LEMMA GoesKeeps ==
  ASSUME Persisting, NEW s \in Sessions, NEW x, Goes(s, x), Sound(s, x),
         \A t \in Sessions \ {s} : x.locked \cap txn[t].locked = {}
  PROVE  Persisting'
<1>1. UNCHANGED <<rows, claim, commits, begun>> /\ DOMAIN txn' = Sessions
      /\ \A t \in Sessions : txn'[t] = IF t = s THEN x ELSE txn[t]
  BY DEF Goes, Persisting
<1>2. \A t \in Sessions : Sound(t, txn'[t])
  BY <1>1 DEF Persisting
<1>3. \A t \in Sessions : Sound(t, txn[t])'
  BY <1>1, <1>2 DEF Sound
<1> QED
  BY <1>1, <1>3 DEF Persisting

LEMMA MoveKeeps ==
  ASSUME Persisting, NEW s \in Sessions, NEW x, Goes(s, x), Sound(s, x), x.locked = txn[s].locked
  PROVE  Persisting'
<1>1. \A t \in Sessions \ {s} : x.locked \cap txn[t].locked = {}
  BY DEF Persisting
<1> QED
  BY <1>1, GoesKeeps

\* The locks of a flush are ones that nobody has.
LEMMA FlushesKeeps ==
  ASSUME Persisting, NEW s \in Sessions, NEW x, Flushes(s, x), Sound(s, Flushed(x)),
         DOMAIN x = DOMAIN Idle, x.locked = txn[s].locked
  PROVE  Persisting'
<1>1. Goes(s, Flushed(x))
  BY DEF Flushes, Flushed
<1>2. Flushed(x).locked = txn[s].locked \cup {RowOf(k) : k \in DOMAIN x.draft}
  BY DEF Flushed, Idle
<1>3. \A t \in Sessions \ {s} : Flushed(x).locked \cap txn[t].locked = {}
  BY <1>2 DEF Flushes, RowsFree, Persisting
<1> QED
  BY <1>1, <1>3, GoesKeeps

\* A session that has written nothing but sound rows may flush.
LEMMA FlushedIsSound ==
  ASSUME NEW s \in Sessions, NEW x, Sound(s, x) PROVE Sound(s, Flushed(x))
<1>1. /\ DOMAIN Flushed(x) = DOMAIN Idle
      /\ Flushed(x).locked = x.locked \cup {RowOf(k) : k \in DOMAIN x.draft}
      /\ Flushed(x).pc = x.pc /\ Flushed(x).batch = x.batch /\ Flushed(x).draft = x.draft
      /\ Flushed(x).found = x.found
  BY DEF Flushed, Sound, Idle
<1>2. Beside(x.draft, x.draft)
  BY DEF Beside
<1>3. SoundDraft(rows, x.draft, Flushed(x).locked, {})
  BY <1>1, <1>2, DraftGrows DEF Sound
<1>4. \A l \in Flushed(x).locked : l[1] = "claim" => l = <<"claim", s>>
  BY <1>1, RowsAreNoClaims DEF Sound, SoundDraft
<1> HIDE DEF Flushed
<1> QED
  BY <1>1, <1>3, <1>4 DEF Sound, JobFits

LEMMA IdleIsSound == ASSUME NEW s PROVE Sound(s, Idle)
<1>1. DOMAIN Idle.batch = DOMAIN NoBatch /\ Idle.batch.facts = <<>> /\ Idle.pc = "idle"
      /\ Idle.locked = {} /\ Idle.draft = <<>>
  BY DEF Idle, NoBatch
<1>2. Idle.batch.facts \in Seq(Facts)
  BY <1>1
<1> QED
  BY <1>1, <1>2, EmptyIsSound, EmptyIsOwn DEF Sound, Claimed

LEMMA BeginKeeps == ASSUME Persisting, NEW s \in Sessions, Begin(s) PROVE Persisting'
<1>1. PICK b \in Batches : /\ claim' = IF b.claimed THEN claim \cup {s} ELSE claim
                           /\ txn' = [txn EXCEPT ![s] = [Idle EXCEPT !.pc = "names", !.batch = b]]
  BY DEF Begin
<1>2. txn[s].pc = "idle" /\ begun < MaxBegun /\ begun' = begun + 1 /\ UNCHANGED <<rows, commits>>
  BY DEF Begin
<1> DEFINE x == [Idle EXCEPT !.pc = "names", !.batch = b]
<1>3. b.facts \in Seq(Facts)
  <2> DEFINE own == {b.facts[i] : i \in DOMAIN b.facts}
  <2>1. b.facts \in Seq(own)
    BY BatchesAssumption
  <2>2. own \subseteq Facts
    BY DEF Facts
  <2> HIDE DEF own
  <2> QED
    BY <2>1, <2>2
<1>4. DOMAIN b = DOMAIN NoBatch /\ b.company \in Companies
  <2>1. b = [field \in DOMAIN NoBatch |-> b[field]] /\ b.company \in Companies
    BY BatchesAssumption
  <2> QED
    BY <2>1
<1>5. /\ DOMAIN x = DOMAIN Idle /\ x.pc = "names" /\ x.batch = b /\ x.locked = {} /\ x.draft = <<>>
  BY DEF Idle
<1> HIDE DEF x
<1>6. Sound(s, x)
  BY <1>3, <1>4, <1>5, EmptyIsSound, EmptyIsOwn DEF Sound, Claimed
<1>7. DOMAIN txn' = Sessions /\ \A t \in Sessions : txn'[t] = IF t = s THEN x ELSE txn[t]
  BY <1>1 DEF Persisting, x
<1>8. \A t \in Sessions : Sound(t, txn'[t])
  BY <1>6, <1>7 DEF Persisting
<1>9. claim \subseteq claim' /\ claim' \subseteq Sessions
  BY <1>1 DEF Persisting
<1>10. \A t \in Sessions : Sound(t, txn[t])'
  BY <1>2, <1>8, <1>9 DEF Sound
<1>11. begun' \in 0 .. MaxBegun
  BY <1>2, BoundAssumption DEF Persisting
<1> QED
  BY <1>2, <1>5, <1>7, <1>9, <1>10, <1>11 DEF Persisting

LEMMA LockNamesKeeps == ASSUME Persisting, NEW s \in Sessions, LockNames(s) PROVE Persisting'
<1> DEFINE x == [txn[s] EXCEPT !.pc = "claim"]
<1>1. Sound(s, txn[s]) /\ txn[s].pc = "names" /\ Goes(s, x)
  BY DEF LockNames, Persisting
<1>2. Sound(s, x) /\ x.locked = txn[s].locked
  BY <1>1 DEF Sound, Idle, Claimed
<1> QED
  BY <1>1, <1>2, MoveKeeps

LEMMA LockClaimKeeps == ASSUME Persisting, NEW s \in Sessions, LockClaim(s) PROVE Persisting'
<1> DEFINE x == [txn[s] EXCEPT !.pc = "facts", !.locked = @ \cup ClaimLock(s)]
<1>1. Sound(s, txn[s]) /\ txn[s].pc = "claim" /\ Goes(s, x) /\ (txn[s].batch.claimed => s \in claim)
  BY DEF LockClaim, Persisting, Batch
<1>2. DOMAIN x = DOMAIN Idle /\ x.pc = "facts" /\ x.batch = txn[s].batch /\ x.draft = txn[s].draft
      /\ x.locked = txn[s].locked \cup ClaimLock(s)
  BY <1>1 DEF Sound, Idle
<1>3. ClaimLock(s) \subseteq {<<"claim", s>>} /\ (txn[s].batch.claimed => <<"claim", s>> \in ClaimLock(s))
  BY DEF ClaimLock, Batch
<1> HIDE DEF x
<1>4. Beside(txn[s].draft, txn[s].draft)
  BY DEF Beside
<1>5. SoundDraft(rows, x.draft, x.locked, {})
  BY <1>1, <1>2, <1>4, DraftGrows DEF Sound
<1>6. Sound(s, x)
  BY <1>1, <1>2, <1>3, <1>5 DEF Sound
<1>7. \A t \in Sessions \ {s} : x.locked \cap txn[t].locked = {}
  <2> TAKE t \in Sessions \ {s}
  <2>1. \A l \in txn[t].locked : l[1] = "claim" => l = <<"claim", t>>
    BY DEF Persisting, Sound
  <2>2. <<"claim", s>> \notin txn[t].locked
    BY <2>1
  <2> QED
    BY <1>2, <1>3, <2>2 DEF Persisting
<1> QED
  BY <1>1, <1>6, <1>7, GoesKeeps DEF x

\* The repository takes back only a run whose update has not matched.
LEMMA RequeueKeeps == ASSUME Persisting, NEW s \in Sessions, Requeue(s) PROVE Persisting'
<1>1. \A t \in Sessions : Sound(t, txn[t])'
  BY DEF Persisting, Requeue, Sound
<1> QED
  BY <1>1 DEF Persisting, Requeue

LEMMA AbortKeeps == ASSUME Persisting, NEW s \in Sessions, Abort(s) PROVE Persisting'
<1>1. Idle.locked = {}
  BY DEF Idle
<1> QED
  BY <1>1, IdleIsSound, GoesKeeps DEF Abort

-----------------------------------------------------------------------------
(* Documents and evidence.                                                 *)

LEMMA ReadFactKeeps == ASSUME Persisting, NEW s \in Sessions, ReadFact(s) PROVE Persisting'
<1> DEFINE x == [txn[s] EXCEPT !.pc = "fact", !.found = At(View(s), Head(Batch(s).facts).key)]
<1>1. Sound(s, txn[s]) /\ txn[s].pc = "facts" /\ Goes(s, x) /\ txn[s].batch.facts # <<>>
  BY DEF ReadFact, Persisting, Batch
<1>2. /\ DOMAIN x = DOMAIN Idle /\ x.pc = "fact" /\ x.batch = txn[s].batch
      /\ x.draft = txn[s].draft /\ x.locked = txn[s].locked
  BY <1>1 DEF Sound, Idle
<1> HIDE DEF x
<1>3. Sound(s, x)
  BY <1>1, <1>2 DEF Sound, Claimed
<1> QED
  BY <1>1, <1>2, <1>3, MoveKeeps

LEMMA WriteFactKeeps == ASSUME Persisting, NEW s \in Sessions, WriteFact(s) PROVE Persisting'
<1> DEFINE t == txn[s]
           fact == Head(Batch(s).facts)
           next == [t EXCEPT !.pc = "facts", !.found = {}, !.batch.facts = Tail(@)]
           old == IF t.found # {} THEN t.found ELSE At(View(s), fact.key)
           value == IF old = {} THEN fact.value ELSE CHOOSE v \in {Merged(fact, o) : o \in old} : TRUE
           x == [next EXCEPT !.draft = Changing(@, fact.key, old, value)]
<1>1. Sound(s, t) /\ t.pc = "fact" /\ t.batch.facts \in Seq(Facts) /\ t.batch.facts # <<>>
  BY DEF WriteFact, Persisting, Sound
<1>2. Goes(s, x) \/ Flushes(s, x)
  BY DEF WriteFact
<1>3. fact \in Facts /\ Tail(t.batch.facts) \in Seq(Facts)
  BY <1>1 DEF Batch
<1>4. fact.key[1] \notin {"source", "posting", "claim"}
  BY <1>3, FactsAreKnown
<1>5. /\ DOMAIN x = DOMAIN Idle /\ x.pc = "facts" /\ x.locked = t.locked
      /\ x.draft = Changing(t.draft, fact.key, old, value)
      /\ x.batch = [t.batch EXCEPT !.facts = Tail(@)]
  BY <1>1 DEF Sound, Idle
<1>6. /\ DOMAIN x.batch = DOMAIN NoBatch /\ x.batch.facts = Tail(t.batch.facts)
      /\ x.batch.company = t.batch.company /\ x.batch.claimed = t.batch.claimed
  <2>1. DOMAIN t.batch = DOMAIN NoBatch
    BY <1>1 DEF Sound
  <2> HIDE DEF t, x
  <2> QED
    BY <1>5, <2>1 DEF NoBatch
<1> HIDE DEF x, old, value, fact
<1>7. SoundDraft(rows, x.draft, x.locked, {}) /\ OwnDraft(rows, s, t.batch.company, x.draft, {})
  <2>1. Beside(t.draft, x.draft)
    BY <1>4, <1>5, ChangingIsBeside
  <2>2. SoundDraft(rows, t.draft, t.locked, {}) /\ OwnDraft(rows, s, t.batch.company, t.draft, {})
    BY <1>1 DEF Sound
  <2> HIDE DEF t
  <2> QED
    BY <1>5, <2>1, <2>2, DraftGrows, OwnGrows
<1>8. Sound(s, x)
  BY <1>1, <1>3, <1>5, <1>6, <1>7 DEF Sound, Claimed
<1> QED
  BY <1>2, <1>5, <1>8, MoveKeeps, FlushedIsSound, FlushesKeeps

-----------------------------------------------------------------------------
(* Jobs.                                                                   *)

LEMMA ReadJobKeeps == ASSUME Persisting, NEW s \in Sessions, ReadJob(s) PROVE Persisting'
<1> DEFINE t == txn[s]
           job == Head(Batch(s).jobs)
           key == Source(job.source)
           x == [t EXCEPT !.pc = "job", !.found = At(View(s), key),
                          !.loaded = Over(@, [k \in {Active(p) : p \in Known(s, job)} \cup
                                                (DOMAIN View(s) \cap {Open(job.source)}) |-> View(s)[k]])]
<1>1. Sound(s, t) /\ t.pc = "facts" /\ Goes(s, x) /\ \A p \in Known(s, job) : Owned(s, p)
  BY DEF ReadJob, Persisting, Batch
<1>2. /\ DOMAIN x = DOMAIN Idle /\ x.pc = "job" /\ x.batch = t.batch /\ x.draft = t.draft
      /\ x.locked = t.locked /\ x.found = At(View(s), key)
  BY <1>1 DEF Sound, Idle
<1>3. job = Head(x.batch.jobs)
  BY <1>2 DEF Batch
<1> HIDE DEF x, job
<1>4. View(s) = Over(x.draft, rows) /\ DOMAIN View(s) = DOMAIN x.draft \cup DOMAIN rows
  <2>1. View(s) = Over(x.draft, rows)
    BY <1>2 DEF View
  <2> QED
    BY <2>1, OverHas
<1>5. \A p \in Known(s, job) : Has(rows, x.draft, x.batch.company, p)
  BY <1>1, <1>2, <1>4 DEF Owned, Has, Batch
<1>6. JobFits(rows, x)
  <2>1. CASE key \in DOMAIN View(s)
    <3>1. x.found = {View(s)[key]}
      BY <1>2, <2>1 DEF At
    <3>2. Has(rows, x.draft, x.batch.company, View(s)[key])
      BY <1>5, <2>1 DEF Known, At
    <3> QED
      BY <1>3, <1>4, <2>1, <3>1, <3>2 DEF JobFits
  <2>2. CASE key \notin DOMAIN View(s)
    <3>1. x.found = {}
      BY <1>2, <2>2 DEF At
    <3>2. job.posting # NoPosting => Has(rows, x.draft, x.batch.company, job.posting)
      BY <1>5 DEF Known
    <3> QED
      BY <1>3, <1>4, <2>2, <3>1, <3>2 DEF JobFits
  <2> QED
    BY <2>1, <2>2
<1>7. Sound(s, x)
  BY <1>1, <1>2, <1>6 DEF Sound, Claimed
<1> QED
  BY <1>1, <1>2, <1>7, MoveKeeps

\* A posting is made beside what a session has written, and no source shows it yet.
LEMMA MadeIsSound ==
  ASSUME NEW all, NEW d, NEW L, NEW p, NEW company \in Companies, NEW type, NEW active,
         SoundDraft(all, d, L, {})
  PROVE  SoundDraft(all, Made(d, p, company, type, active), L, {p})
<1> DEFINE new == [company |-> company, type |-> type]
           e == Made(d, p, company, type, active)
<1>1. Posting(p)[1] = "posting" /\ Posting(p)[2] = p /\ Active(p)[1] = "active"
  BY DEF Posting, Active
<1>2. DOMAIN e = DOMAIN d \cup {Posting(p), Active(p)}
  BY DEF Made, Over
<1>3. e[Posting(p)] = new /\ \A k \in DOMAIN d : k # Posting(p) /\ k # Active(p) => e[k] = d[k]
  BY <1>1 DEF Made, Over
<1>4. new = [company |-> new.company, type |-> new.type] /\ new.company \in Companies
  OBVIOUS
<1> HIDE DEF e, new
<1>5. \A k \in DOMAIN e : k[1] = "posting" => Whole(all, e, k)
  BY <1>1, <1>2, <1>3, <1>4 DEF SoundDraft, Whole
<1>6. \A k \in DOMAIN e : k[1] = "posting" =>
        k \in DOMAIN all \/ k[2] \in {p} \/ \E j \in DOMAIN e : j[1] = "source" /\ e[j] = k[2]
  BY <1>1, <1>2, <1>3 DEF SoundDraft
<1>7. \A k \in DOMAIN e : k[1] # "claim"
        /\ (k[1] = "source" => k \notin DOMAIN all /\ k \in L /\ Posting(e[k]) \in DOMAIN e \cup DOMAIN all)
  BY <1>1, <1>2, <1>3 DEF SoundDraft
<1>8. SoundDraft(all, e, L, {p})
  BY <1>5, <1>6, <1>7 DEF SoundDraft
<1> QED
  BY <1>8 DEF e

LEMMA ExceptionsGrow ==
  ASSUME NEW all, NEW d, NEW L, NEW X, SoundDraft(all, d, L, {}) PROVE SoundDraft(all, d, L, X)
BY DEF SoundDraft

\* The source of a job is there already and shows p, or it is inserted to show p.
LEMMA SourceKeeps ==
  ASSUME NEW all, NEW d, NEW L, NEW p, NEW key, key[1] = "source",
         \/ /\ key \in DOMAIN d \cup DOMAIN all /\ Over(d, all)[key] = p
            /\ SoundDraft(all, d, L, {})
         \/ /\ key \notin DOMAIN d \cup DOMAIN all
            /\ Posting(p) \in DOMAIN d \cup DOMAIN all
            /\ SoundDraft(all, d, L, {p})
  PROVE  /\ SoundDraft(all, Sourced(all, d, key, p), L \cup ({key} \cap DOMAIN Sourced(all, d, key, p)), {})
         /\ key \in DOMAIN d \cup DOMAIN all => Sourced(all, d, key, p) = d
<1>1. CASE key \in DOMAIN d \cup DOMAIN all /\ Over(d, all)[key] = p /\ SoundDraft(all, d, L, {})
  <2>1. p \in At(Over(d, all), key)
    BY <1>1 DEF At, Over
  <2>2. Sourced(all, d, key, p) = d
    BY <2>1 DEF Sourced, Changing
  <2>3. Beside(d, d)
    BY DEF Beside
  <2>4. SoundDraft(all, d, L \cup ({key} \cap DOMAIN d), {})
    BY <1>1, <2>3, DraftGrows
  <2> QED
    BY <2>2, <2>4
<1>2. CASE /\ key \notin DOMAIN d \cup DOMAIN all
           /\ Posting(p) \in DOMAIN d \cup DOMAIN all
           /\ SoundDraft(all, d, L, {p})
  <2>1. At(Over(d, all), key) = {}
    BY <1>2 DEF At, Over
  <2>2. Sourced(all, d, key, p) = With(d, key, p)
    BY <2>1 DEF Sourced, Changing
  <2>3. key \in DOMAIN With(d, key, p)
    BY DEF With
  <2>4. SoundDraft(all, With(d, key, p), L \cup {key}, {})
    BY <1>2, InsertKeeps
  <2> QED
    BY <1>2, <2>2, <2>3, <2>4
<1> QED
  BY <1>1, <1>2

\* Two postings in view take the type of a job, and its source is there or inserted.
LEMMA MergesKeep ==
  ASSUME NEW all, NEW d, NEW L, NEW X, NEW p, NEW job, NEW key, key[1] = "source",
         SoundRows(all), SoundDraft(all, d, L, X), Posting(p) \in DOMAIN d \cup DOMAIN all
  PROVE  /\ SoundDraft(all, Typed(all, d, p, job), L, X)
         /\ SameSource(all, d, Typed(all, d, p, job), key)
<1> DEFINE e == Typed(all, d, p, job)
<1>1. SoundDraft(all, e, L, X) /\ DOMAIN e \subseteq DOMAIN d \cup {Posting(p)} /\ SameBut(d, e, Posting(p))
  BY MergeKeeps
<1>2. key # Posting(p)
  BY DEF Posting
<1> HIDE DEF e
<1>3. key \in DOMAIN d \cup DOMAIN all => Over(e, all)[key] = Over(d, all)[key]
  BY <1>1, <1>2 DEF Over, SameBut
<1>4. SameSource(all, d, e, key)
  BY <1>1, <1>2, <1>3 DEF SameBut, SameSource
<1> QED
  BY <1>1, <1>4 DEF e

\* Whoever inserts a source first, a session that writes a job leaves its posting
\* shown: it makes one only when it inserts the source as well.
LEMMA WriteJobKeeps == ASSUME Persisting, NEW s \in Sessions, WriteJob(s) PROVE Persisting'
<1> DEFINE t == txn[s]
           d == t.draft
           job == Head(Batch(s).jobs)
           key == Source(job.source)
           inserts == t.found = {}
           lost == inserts /\ key \in DOMAIN rows
           made == inserts /\ job.posting = NoPosting
           fresh == <<s, job.source>>
           resolved == IF ~inserts THEN CHOOSE p \in t.found : TRUE
                       ELSE IF made THEN fresh ELSE job.posting
           posting == IF lost THEN rows[key] ELSE resolved
           created == IF made THEN [k \in {Posting(fresh), Active(fresh)} |->
                                      IF k[1] = "posting" THEN [company |-> Batch(s).company, type |-> job.type]
                                      ELSE job.active]
                      ELSE <<>>
           kept == WithPosting(d, fresh, created, lost)
           base == IF made THEN kept ELSE Merge(kept, resolved, Over(kept, rows)[Posting(resolved)], job)
           seen == Over(base, rows)
           loaded == Over(t.loaded, [k \in {Active(posting), Open(job.source)} \cap DOMAIN seen |-> seen[k]])
           typed == Merge(base, posting, seen[Posting(posting)], job)
           sourced == Changing(typed, key, At(seen, key), posting)
           x == [t EXCEPT !.pc = "facts", !.found = {}, !.batch.jobs = Tail(@),
                   !.jobs = @ \cup {posting}, !.loaded = loaded,
                   !.draft = Changing(sourced, Open(job.source), At(loaded, Open(job.source)), job.active)]
           L == t.locked
           c == t.batch.company
           X == IF made /\ ~lost THEN {fresh} ELSE {}
<1>1. Sound(s, t) /\ t.pc = "job" /\ SoundRows(rows)
  BY DEF WriteJob, Persisting
<1>2. IF inserts THEN Flushes(s, x) ELSE Goes(s, x)
  BY DEF WriteJob
<1>3. /\ DOMAIN x = DOMAIN Idle /\ x.pc = "facts" /\ x.locked = t.locked
      /\ x.draft = Changing(sourced, Open(job.source), At(loaded, Open(job.source)), job.active)
      /\ x.batch = [t.batch EXCEPT !.jobs = Tail(@)]
  BY <1>1 DEF Sound, Idle
<1> HIDE DEF x, loaded
<1>4. /\ DOMAIN x.batch = DOMAIN NoBatch /\ x.batch.facts = t.batch.facts
      /\ x.batch.company = t.batch.company /\ x.batch.claimed = t.batch.claimed
  <2>1. DOMAIN t.batch = DOMAIN NoBatch
    BY <1>1 DEF Sound
  <2>2. x.batch = [t.batch EXCEPT !.jobs = Tail(@)]
    BY <1>3
  <2> HIDE DEF t
  <2> QED
    BY <2>1, <2>2 DEF NoBatch
<1>5. JobFits(rows, t) /\ SoundDraft(rows, d, L, {}) /\ c \in Companies /\ OwnDraft(rows, s, c, d, {})
  BY <1>1 DEF Sound
<1>6. key[1] = "source"
  BY DEF Source
<1>7. /\ inserts => key \notin DOMAIN d
      /\ inserts /\ ~made => Has(rows, d, c, job.posting)
      /\ ~inserts => /\ key \in DOMAIN d \cup DOMAIN rows /\ t.found = {Over(d, rows)[key]}
                     /\ Has(rows, d, c, Over(d, rows)[key])
  BY <1>5 DEF JobFits, Batch
<1>8. /\ SoundDraft(rows, kept, L, X) /\ SameSource(rows, d, kept, key)
      /\ OwnDraft(rows, s, c, kept, X)
      /\ made /\ ~lost => Has(rows, kept, c, fresh)
      /\ ~made \/ lost => \A q : Has(rows, d, c, q) => Has(rows, kept, c, q)
  <2>1. CASE lost
    <3>1. kept = d /\ X = {}
      BY <2>1 DEF WithPosting
    <3> QED
      BY <1>5, <2>1, <3>1 DEF SameSource
  <2>2. CASE made /\ ~lost
    <3>1. kept = Made(d, fresh, Batch(s).company, job.type, job.active) /\ X = {fresh}
      BY <2>2 DEF WithPosting, Made
    <3> HIDE DEF kept, X, job, d, fresh
    <3>2. SoundDraft(rows, kept, L, X) /\ DOMAIN kept = DOMAIN d \cup {Posting(fresh), Active(fresh)}
      <4>1. Batch(s).company \in Companies
        BY <1>5 DEF Batch
      <4>2. SoundDraft(rows, Made(d, fresh, Batch(s).company, job.type, job.active), L, {fresh})
        BY <1>5, <4>1, MadeIsSound
      <4>3. DOMAIN Made(d, fresh, Batch(s).company, job.type, job.active)
              = DOMAIN d \cup {Posting(fresh), Active(fresh)}
        BY DEF Made, Over
      <4> QED
        BY <3>1, <4>2, <4>3
    <3>3. key # Posting(fresh) /\ key # Active(fresh)
      BY DEF Source, Posting, Active
    <3>4. OwnDraft(rows, s, c, kept, X) /\ Has(rows, kept, c, fresh)
      <4>1. OwnDraft(rows, s, c, Made(d, fresh, c, job.type, job.active), {fresh})
            /\ Has(rows, Made(d, fresh, c, job.type, job.active), c, fresh)
        BY <1>1, <1>5, <2>2, MadeOwns DEF fresh
      <4> QED
        BY <3>1, <4>1 DEF Batch
    <3> QED
      BY <1>7, <2>2, <3>2, <3>3, <3>4 DEF SameSource
  <2>3. CASE ~made /\ ~lost
    <3>1. kept = Over(<<>>, d) /\ X = {}
      BY <2>3 DEF WithPosting
    <3>2. DOMAIN kept = DOMAIN d /\ \A k \in DOMAIN d : kept[k] = d[k]
      BY <3>1, EmptyHas DEF Over
    <3> HIDE DEF kept
    <3>3. Beside(d, kept)
      BY <3>2 DEF Beside
    <3>4. SoundDraft(rows, kept, L, X)
      <4>1. SoundDraft(rows, kept, L, {})
        BY <1>5, <3>3, DraftGrows
      <4> QED
        BY <3>1, <4>1
    <3>5. SameSource(rows, d, kept, key)
      BY <3>2 DEF SameSource, Over
    <3>6. OwnDraft(rows, s, c, kept, X)
      BY <1>5, <3>1, <3>3, OwnGrows
    <3>7. \A q : Has(rows, d, c, q) => Has(rows, kept, c, q)
      BY <3>2 DEF Has, Over
    <3> QED
      BY <2>3, <3>4, <3>5, <3>6, <3>7
  <2> QED
    BY <2>1, <2>2, <2>3
<1>9. base = IF made THEN kept ELSE Typed(rows, kept, resolved, job)
  BY DEF Typed
<1>10. ~made => Has(rows, d, c, resolved)
  BY <1>7
<1> HIDE DEF kept, resolved
<1>11. /\ SoundDraft(rows, base, L, X) /\ SameSource(rows, kept, base, key)
       /\ OwnDraft(rows, s, c, base, X) /\ \A q : Has(rows, kept, c, q) => Has(rows, base, c, q)
  <2>1. CASE made
    BY <1>8, <1>9, <2>1 DEF SameSource
  <2>2. CASE ~made
    <3>1. Has(rows, kept, c, resolved)
      BY <1>8, <1>10, <2>2
    <3>2. Posting(resolved) \in DOMAIN kept \cup DOMAIN rows
      BY <3>1 DEF Has
    <3>3. SoundDraft(rows, base, L, X) /\ SameSource(rows, kept, base, key)
      BY <1>1, <1>6, <1>8, <1>9, <2>2, <3>2, MergesKeep
    <3>4. OwnDraft(rows, s, c, base, X) /\ \A q : Has(rows, kept, c, q) => Has(rows, base, c, q)
      BY <1>1, <1>8, <1>9, <2>2, <3>1, TypedOwns
    <3> QED
      BY <3>3, <3>4
  <2> QED
    BY <2>1, <2>2
<1>12. typed = Typed(rows, base, posting, job)
  BY DEF Typed
<1> HIDE DEF base
<1>13. Has(rows, base, c, posting)
  <2>1. CASE lost
    <3>1. Owned(s, posting)
      BY <2>1 DEF WriteJob
    <3>2. Has(rows, d, c, posting)
      BY <3>1 DEF Owned, Has, View, Over, Batch
    <3> QED
      BY <1>8, <1>11, <2>1, <3>2
  <2>2. CASE made /\ ~lost
    BY <1>8, <1>11, <2>2 DEF resolved
  <2>3. CASE ~made /\ ~lost
    BY <1>8, <1>10, <1>11, <2>3
  <2> QED
    BY <2>1, <2>2, <2>3
<1> HIDE DEF posting, typed
<1>14. /\ SoundDraft(rows, typed, L, X) /\ SameSource(rows, base, typed, key)
       /\ OwnDraft(rows, s, c, typed, X) /\ Has(rows, typed, c, posting)
  <2>1. Posting(posting) \in DOMAIN base \cup DOMAIN rows
    BY <1>13 DEF Has
  <2>2. SoundDraft(rows, typed, L, X) /\ SameSource(rows, base, typed, key)
    BY <1>1, <1>6, <1>11, <1>12, <2>1, MergesKeep
  <2>3. OwnDraft(rows, s, c, typed, X) /\ Has(rows, typed, c, posting)
    BY <1>1, <1>11, <1>12, <1>13, TypedOwns
  <2> QED
    BY <2>2, <2>3
<1>15. SameSource(rows, d, typed, key)
  BY <1>8, <1>11, <1>14 DEF SameSource
<1>16. sourced = Sourced(rows, typed, key, posting)
  <2>1. At(seen, key) = At(Over(typed, rows), key)
    BY <1>14 DEF SameSource, At, Over
  <2> QED
    BY <2>1 DEF Sourced
<1>17. \/ /\ key \in DOMAIN typed \cup DOMAIN rows /\ Over(typed, rows)[key] = posting
          /\ SoundDraft(rows, typed, L, {})
       \/ /\ inserts /\ key \notin DOMAIN typed \cup DOMAIN rows
          /\ Posting(posting) \in DOMAIN typed \cup DOMAIN rows
          /\ SoundDraft(rows, typed, L, {posting})
  <2>1. CASE lost
    <3>1. Over(d, rows)[key] = rows[key]
      BY <1>7, <2>1 DEF Over
    <3> QED
      BY <1>14, <1>15, <2>1, <3>1 DEF SameSource, posting
  <2>2. CASE ~inserts
    BY <1>7, <1>14, <1>15, <2>2 DEF SameSource, posting, resolved
  <2>3. CASE inserts /\ ~lost
    <3>1. key \notin DOMAIN typed \cup DOMAIN rows
      BY <1>7, <1>15, <2>3 DEF SameSource
    <3>2. Posting(posting) \in DOMAIN typed \cup DOMAIN rows
      BY <1>14 DEF Has
    <3>3. X = {} \/ X = {posting}
      BY <2>3 DEF posting, resolved
    <3>4. SoundDraft(rows, typed, L, {posting})
      BY <1>14, <3>3, ExceptionsGrow
    <3> QED
      BY <2>3, <3>1, <3>2, <3>4
  <2> QED
    BY <2>1, <2>2, <2>3
<1> HIDE DEF sourced
<1>18. /\ SoundDraft(rows, sourced, L \cup ({key} \cap DOMAIN sourced), {})
       /\ key \in DOMAIN typed \cup DOMAIN rows => sourced = typed
  BY <1>6, <1>16, <1>17, SourceKeeps
<1>19. OwnDraft(rows, s, c, sourced, {})
  <2>1. X \subseteq {fresh} /\ (X = {} \/ key \notin DOMAIN typed \cup DOMAIN rows)
    BY <1>7, <1>15 DEF SameSource
  <2> HIDE DEF X
  <2> QED
    BY <1>14, <1>16, <2>1, SourcedOwns
<1>20. Beside(sourced, x.draft)
  <2>1. Open(job.source)[1] = "open"
    BY DEF Open
  <2> QED
    BY <1>3, <2>1, ChangingIsBeside
<1>21. CASE ~inserts
  <2>1. SoundDraft(rows, sourced, L, {})
    BY <1>17, <1>18, <1>21
  <2>2. SoundDraft(rows, x.draft, L, {}) /\ OwnDraft(rows, s, c, x.draft, {})
    BY <1>19, <1>20, <2>1, DraftGrows, OwnGrows
  <2>3. Sound(s, x)
    BY <1>1, <1>3, <1>4, <2>2 DEF Sound, Claimed
  <2> QED
    BY <1>2, <1>3, <1>21, <2>3, MoveKeeps
<1>22. CASE inserts
  <2> DEFINE y == Flushed(x)
  <2>1. /\ DOMAIN y = DOMAIN Idle /\ y.locked = L \cup {RowOf(k) : k \in DOMAIN x.draft}
        /\ y.pc = "facts" /\ y.batch = x.batch /\ y.draft = x.draft
    BY <1>3 DEF Flushed, Idle
  <2> HIDE DEF y
  <2>2. RowOf(key) = key
    BY <1>6 DEF RowOf
  <2>3. L \cup ({key} \cap DOMAIN sourced) \subseteq y.locked
    BY <1>20, <2>1, <2>2 DEF Beside
  <2>4. SoundDraft(rows, y.draft, y.locked, {}) /\ OwnDraft(rows, s, c, y.draft, {})
    BY <1>18, <1>19, <1>20, <2>1, <2>3, DraftGrows, OwnGrows
  <2>5. \A l \in y.locked : l[1] = "claim" => l = <<"claim", s>>
    BY <1>1, <2>1, <2>4, RowsAreNoClaims DEF Sound, SoundDraft
  <2>6. Sound(s, y)
    BY <1>1, <1>4, <2>1, <2>4, <2>5 DEF Sound, Claimed
  <2> QED
    BY <1>2, <1>3, <1>22, <2>6, FlushesKeeps DEF y
<1> QED
  BY <1>21, <1>22

-----------------------------------------------------------------------------
(* The end of a transaction.                                               *)

LEMMA RecountKeeps == ASSUME Persisting, NEW s \in Sessions, Recount(s) PROVE Persisting'
<1> DEFINE x == [txn[s] EXCEPT !.pc = "filings"]
<1>1. Sound(s, txn[s]) /\ txn[s].pc = "facts" /\ Flushes(s, x)
  BY DEF Recount, Persisting
<1>2. DOMAIN x = DOMAIN Idle /\ x.locked = txn[s].locked
  BY <1>1 DEF Sound, Idle
<1>3. Sound(s, x)
  BY <1>1 DEF Sound, Idle, Claimed
<1> HIDE DEF x
<1> QED
  BY <1>1, <1>2, <1>3, FlushedIsSound, FlushesKeeps

LEMMA CountActiveKeeps == ASSUME Persisting, NEW s \in Sessions, CountActive(s) PROVE Persisting'
<1> DEFINE t == txn[s]
           x == [t EXCEPT !.pc = "profile", !.draft = Recounted(s)]
<1>1. Sound(s, t) /\ t.pc = "filings" /\ Goes(s, x)
  BY DEF CountActive, Persisting
<1>2. /\ DOMAIN x = DOMAIN Idle /\ x.pc = "profile" /\ x.batch = t.batch /\ x.locked = t.locked
      /\ x.draft = Recounted(s)
  BY <1>1 DEF Sound, Idle
<1> HIDE DEF x
<1>3. Beside(t.draft, Recounted(s))
  <2> DEFINE stale == {p \in t.jobs : Advertised(s, p) \notin At(Over(t.draft, t.loaded), Active(p))}
             f == [k \in {Active(p) : p \in stale} |-> Advertised(s, k[2])]
  <2>1. Recounted(s) = Over(f, t.draft)
    BY DEF Recounted
  <2> HIDE DEF stale
  <2>2. \A k \in DOMAIN f : k[1] \notin {"source", "posting", "claim"}
    BY DEF Active
  <2> HIDE DEF f
  <2> QED
    BY <2>1, <2>2, OverIsBeside
<1>4. SoundDraft(rows, x.draft, x.locked, {}) /\ OwnDraft(rows, s, t.batch.company, x.draft, {})
  BY <1>1, <1>2, <1>3, DraftGrows, OwnGrows DEF Sound
<1>5. Sound(s, x)
  BY <1>1, <1>2, <1>4 DEF Sound, Claimed
<1> QED
  BY <1>1, <1>2, <1>5, MoveKeeps

LEMMA UpsertFilingsKeeps == ASSUME Persisting, NEW s \in Sessions, UpsertFilings(s) PROVE Persisting'
<1> DEFINE t == txn[s]
           new == {Filing(f) : f \in Batch(s).filings} \ DOMAIN View(s)
           filed == [k \in new |-> Batch(s).company]
           x == [t EXCEPT !.pc = "commit", !.found = At(View(s), Profile(Batch(s).company)),
                          !.draft = Over(filed, @)]
<1>1. Sound(s, t) /\ t.pc = "profile" /\ (Goes(s, x) \/ Flushes(s, x))
  BY DEF UpsertFilings, Persisting
<1>2. /\ DOMAIN x = DOMAIN Idle /\ x.pc = "commit" /\ x.batch = t.batch /\ x.locked = t.locked
      /\ x.draft = Over(filed, t.draft)
  BY <1>1 DEF Sound, Idle
<1>3. \A k \in DOMAIN filed : k[1] \notin {"source", "posting", "claim"}
  BY DEF Filing
<1> HIDE DEF x, filed
<1>4. Beside(t.draft, x.draft)
  BY <1>2, <1>3, OverIsBeside
<1>5. SoundDraft(rows, x.draft, x.locked, {}) /\ OwnDraft(rows, s, t.batch.company, x.draft, {})
  BY <1>1, <1>2, <1>4, DraftGrows, OwnGrows DEF Sound
<1>6. Sound(s, x)
  BY <1>1, <1>2, <1>5 DEF Sound, Claimed
<1> QED
  BY <1>1, <1>2, <1>6, MoveKeeps, FlushedIsSound, FlushesKeeps

\* What a sound draft makes of the rows is sound, and every source keeps its posting.
LEMMA CommittedIsSound ==
  ASSUME NEW all, NEW s, NEW c, NEW d, NEW L,
         SoundRows(all), SoundDraft(all, d, L, {}), OwnDraft(all, s, c, d, {})
  PROVE  /\ SoundRows(Over(d, all))
         /\ DOMAIN all \subseteq DOMAIN Over(d, all)
         /\ \A k \in DOMAIN all : k[1] = "source" => Over(d, all)[k] = all[k]
<1> DEFINE new == Over(d, all)
<1>1. DOMAIN new = DOMAIN d \cup DOMAIN all
      /\ \A k \in DOMAIN new : new[k] = IF k \in DOMAIN d THEN d[k] ELSE all[k]
  BY DEF Over
<1> HIDE DEF new
<1>2. \A k \in DOMAIN all : k[1] = "source" => new[k] = all[k]
  BY <1>1 DEF SoundDraft
<1>3. \A k \in DOMAIN new : k[1] = "source" => Posting(new[k]) \in DOMAIN new
  BY <1>1 DEF SoundDraft, SoundRows, Matched
<1>4. \A k \in DOMAIN new : k[1] = "posting" => \E j \in DOMAIN new : j[1] = "source" /\ new[j] = k[2]
  <2> TAKE k \in DOMAIN new
  <2>1. CASE k \in DOMAIN all
    BY <1>1, <1>2, <2>1 DEF SoundRows, Matched
  <2>2. CASE k \in DOMAIN d /\ k \notin DOMAIN all
    BY <1>1, <2>2 DEF SoundDraft
  <2> QED
    BY <1>1, <2>1, <2>2
<1>5. \A k \in DOMAIN new : k[1] = "posting" => Whole(new, new, k)
  BY <1>1 DEF SoundDraft, SoundRows, Whole
<1>6. \A k \in DOMAIN new : k[1] = "posting" =>
        \A r \in Sessions : MadeBy(r, k) => Source(k[2][2]) \in DOMAIN new
  <2> SUFFICES ASSUME NEW k \in DOMAIN new, k[1] = "posting", NEW r \in Sessions, MadeBy(r, k)
               PROVE  Source(k[2][2]) \in DOMAIN new
    OBVIOUS
  <2>1. CASE k \in DOMAIN all
    BY <1>1, <2>1 DEF SoundRows
  <2>2. CASE k \in DOMAIN d /\ k \notin DOMAIN all
    BY <1>1, <2>2 DEF OwnDraft
  <2> QED
    BY <1>1, <2>1, <2>2
<1>7. SoundRows(new) /\ DOMAIN all \subseteq DOMAIN new
  BY <1>1, <1>3, <1>4, <1>5, <1>6 DEF SoundRows, Matched
<1> QED
  BY <1>2, <1>7 DEF new

\* A commit makes other rows than the ones another session holds.
LEMMA OthersStaySound ==
  ASSUME NEW all, NEW d, NEW e, NEW L, SoundDraft(all, d, L, {}),
         \A k \in DOMAIN e : RowOf(k) \notin L
  PROVE  SoundDraft(Over(e, all), d, L, {})
<1>1. DOMAIN Over(e, all) = DOMAIN e \cup DOMAIN all
  BY DEF Over
<1>2. \A k \in DOMAIN e : k[1] = "source" => k \notin L
  BY DEF RowOf
<1> QED
  BY <1>1, <1>2 DEF SoundDraft, Whole

LEMMA CommitKeeps ==
  ASSUME Persisting, NEW s \in Sessions, Commit(s)
  PROVE  Persisting' /\ commits' \in Counts /\ Below(commits, commits')
<1> DEFINE d == Over(Collected(s), txn[s].draft)
           done == [Idle EXCEPT !.pc = IF Batch(s).cached THEN "committed" ELSE "idle",
                                !.batch = [NoBatch EXCEPT !.company = Batch(s).company]]
<1>1. /\ Sound(s, txn[s]) /\ txn[s].pc = "commit" /\ RowsFree(s, DOMAIN d) /\ SoundRows(rows)
      /\ rows' = Over(d, rows) /\ UNCHANGED <<claim, begun>>
      /\ commits' = [commits EXCEPT ![Batch(s).company] = @ + 1]
      /\ txn' = [t \in Sessions |->
           IF t = s THEN done
           ELSE IF InTransaction(t) /\ Batch(t).names \cap Batch(s).names = {}
           THEN [txn[t] EXCEPT !.beside = @ \cup DOMAIN d]
           ELSE txn[t]]
  BY DEF Commit, Persisting
<1>2. SoundDraft(rows, d, txn[s].locked, {}) /\ OwnDraft(rows, s, Batch(s).company, d, {})
  <2>1. \A k \in DOMAIN Collected(s) : k[1] \notin {"source", "posting", "claim"}
    BY EmptyHas DEF Collected, Profile
  <2>2. Beside(txn[s].draft, d)
    BY <2>1, OverIsBeside
  <2>3. SoundDraft(rows, txn[s].draft, txn[s].locked, {})
        /\ OwnDraft(rows, s, Batch(s).company, txn[s].draft, {})
    BY <1>1 DEF Sound, Batch
  <2> HIDE DEF d
  <2> QED
    BY <2>2, <2>3, DraftGrows, OwnGrows
<1>3. Batch(s).company \in Companies
  BY <1>1 DEF Sound, Batch
<1>4. commits' \in Counts /\ Below(commits, commits')
  BY <1>1, <1>3 DEF Persisting, Counts, Below
<1> HIDE DEF d
<1>5. /\ SoundRows(rows') /\ DOMAIN rows \subseteq DOMAIN rows'
      /\ \A k \in DOMAIN rows : k[1] = "source" => rows'[k] = rows[k]
  BY <1>1, <1>2, CommittedIsSound
<1>6. DOMAIN txn' = Sessions /\ txn'[s] = done
  BY <1>1
<1>7. Sound(s, txn[s])' /\ txn'[s].locked = {}
  <2>1. /\ DOMAIN done = DOMAIN Idle /\ done.batch = [NoBatch EXCEPT !.company = Batch(s).company]
        /\ done.locked = {} /\ done.draft = <<>> /\ done.pc \in {"committed", "idle"}
    BY DEF Idle
  <2> HIDE DEF done
  <2>2. /\ DOMAIN done.batch = DOMAIN NoBatch /\ done.batch.facts = <<>>
        /\ done.batch.company = Batch(s).company
    BY <2>1 DEF NoBatch
  <2>3. done.batch.facts \in Seq(Facts)
    BY <2>2
  <2>4. SoundDraft(rows', done.draft, done.locked, {})
    BY <2>1, EmptyIsSound
  <2>5. OwnDraft(rows', s, done.batch.company, done.draft, {})
    BY <2>1, EmptyIsOwn
  <2> QED
    BY <1>3, <1>6, <2>1, <2>2, <2>3, <2>4, <2>5 DEF Sound, Claimed
<1>8. \A t \in Sessions \ {s} : Sound(t, txn[t])' /\ txn'[t].locked = txn[t].locked
  <2> TAKE t \in Sessions \ {s}
  <2>1. Sound(t, txn[t])
    BY DEF Persisting
  <2>2. /\ DOMAIN txn'[t] = DOMAIN Idle /\ txn'[t].pc = txn[t].pc /\ txn'[t].batch = txn[t].batch
        /\ txn'[t].draft = txn[t].draft /\ txn'[t].locked = txn[t].locked /\ txn'[t].found = txn[t].found
    BY <1>1, <2>1 DEF Sound, Idle
  <2>3. \A k \in DOMAIN d : RowOf(k) \notin txn[t].locked
    BY <1>1 DEF RowsFree
  <2>4. SoundDraft(rows', txn[t].draft, txn[t].locked, {})
    BY <1>1, <2>1, <2>3, OthersStaySound DEF Sound
  <2>5. OwnDraft(rows', t, txn[t].batch.company, txn[t].draft, {})
    BY <1>1, <1>2, <2>1, OthersStayOwn DEF Sound
  <2>6. JobFits(rows, txn[t]) => JobFits(rows, txn[t])'
    <3> DEFINE key == Source(Head(txn[t].batch.jobs).source)
    <3>1. \A p : Has(rows, txn[t].draft, txn[t].batch.company, p)
                  => Has(rows', txn[t].draft, txn[t].batch.company, p)
      BY <1>1, <1>2, HasStays
    <3>2. key \in DOMAIN txn[t].draft \cup DOMAIN rows =>
            /\ key \in DOMAIN txn[t].draft \cup DOMAIN rows'
            /\ Over(txn[t].draft, rows')[key] = Over(txn[t].draft, rows)[key]
      BY <1>5 DEF Over, Source
    <3> QED
      BY <2>2, <3>1, <3>2 DEF JobFits
  <2> QED
    BY <1>1, <2>1, <2>2, <2>4, <2>5, <2>6 DEF Sound
<1> HIDE DEF done
<1>9. \A t \in Sessions : Sound(t, txn[t])'
  BY <1>7, <1>8
<1>10. \A t, u \in Sessions : t # u => txn'[t].locked \cap txn'[u].locked = {}
  BY <1>7, <1>8 DEF Persisting
<1> QED
  BY <1>1, <1>4, <1>5, <1>6, <1>9, <1>10 DEF Persisting, Counts

-----------------------------------------------------------------------------
(* The steps together.                                                     *)

\* After its commit a session has nothing to write and holds no lock for it.
LEMMA StageKeeps ==
  ASSUME Persisting, NEW s \in Sessions, NEW pc, NEW seen, Stage(s, pc, seen),
         pc \in {"idle", "bumped", "scanned"}, txn[s].pc # "idle",
         UNCHANGED <<rows, claim, commits, begun>>
  PROVE  Persisting'
<1>1. Sound(s, txn[s])
  BY DEF Persisting
<1>2. CASE pc = "idle"
  <2>1. Goes(s, Idle) /\ Idle.locked = {}
    BY <1>2 DEF Stage, Goes, Idle
  <2> QED
    BY <2>1, IdleIsSound, GoesKeeps
<1>3. CASE pc # "idle"
  <2> DEFINE x == [txn[s] EXCEPT !.pc = pc, !.found = seen]
  <2>1. Goes(s, x)
    BY <1>3 DEF Stage, Goes
  <2>2. /\ DOMAIN x = DOMAIN Idle /\ x.pc = pc /\ x.batch = txn[s].batch
        /\ x.draft = txn[s].draft /\ x.locked = txn[s].locked
    BY <1>1 DEF Sound, Idle
  <2> HIDE DEF x
  <2>3. Sound(s, x)
    BY <1>1, <2>2 DEF Sound, Claimed
  <2> QED
    BY <2>1, <2>2, <2>3, MoveKeeps
<1> QED
  BY <1>2, <1>3

LEMMA InvalidatePersists == ASSUME Persisting, NEW s \in Sessions, Invalidate(s) PROVE Persisting'
<1>1. CASE Advance(s)
  <2>1. txn[s].pc # "idle" /\ UNCHANGED <<rows, claim, commits, begun>>
        /\ \E pc \in {"bumped", "idle"} : Stage(s, pc, {})
    BY <1>1 DEF Advance
  <2> QED
    BY <2>1, StageKeeps
<1>2. CASE Scan(s)
  <2>1. txn[s].pc # "idle" /\ UNCHANGED <<rows, claim, commits, begun>>
        /\ \E pc \in {"scanned", "idle"} : \E seen : Stage(s, pc, seen)
    BY <1>2 DEF Scan
  <2> QED
    BY <2>1, StageKeeps
<1>3. CASE Delete(s)
  <2>1. txn[s].pc # "idle" /\ UNCHANGED <<rows, claim, commits, begun>> /\ Stage(s, "idle", {})
    BY <1>3 DEF Delete
  <2> QED
    BY <2>1, StageKeeps
<1> QED
  BY <1>1, <1>2, <1>3 DEF Invalidate

LEMMA StatementKeeps ==
  ASSUME Persisting, NEW s \in Sessions, Begins(s) \/ Statement(s) \/ Abort(s) \/ Requeue(s)
  PROVE  Persisting' /\ (Caching => commits' \in Counts /\ Below(commits, commits'))
<1>1. CASE Commit(s)
  BY <1>1, CommitKeeps
<1>2. CASE Begins(s) \/ Abort(s) \/ Requeue(s)
  <2>1. Persisting' /\ commits' = commits
    BY <1>2, BeginKeeps, AbortKeeps, RequeueKeeps DEF Begins, Begin, Abort, Requeue, Goes
  <2> QED
    BY <2>1 DEF Caching, Below, Counts
<1>3. CASE Statement(s) /\ ~Commit(s)
  <2>1. commits' = commits
    BY <1>3 DEF Statement, LockNames, LockClaim, ReadFact, WriteFact, ReadJob, WriteJob, Recount,
                CountActive, UpsertFilings, Goes, Flushes
  <2>2. Persisting'
    BY <1>3, LockNamesKeeps, LockClaimKeeps, ReadFactKeeps, WriteFactKeeps, ReadJobKeeps, WriteJobKeeps,
       RecountKeeps, CountActiveKeeps, UpsertFilingsKeeps DEF Statement
  <2> QED
    BY <2>1, <2>2 DEF Caching, Below, Counts
<1> QED
  BY <1>1, <1>2, <1>3

IInv == Persisting /\ Caching

LEMMA InitIsSound == QueriesInit => IInv
<1> SUFFICES ASSUME QueriesInit PROVE IInv
  OBVIOUS
<1>1. SoundRows(rows)
  BY StoredAssumption DEF QueriesInit, PersistenceInit, SoundRows, Whole, MadeBy
<1>2. Nothing \in Counts /\ Below(Nothing, Nothing)
  BY DEF Nothing, Counts, Below
<1>3. Persisting
  <2>1. commits = Nothing /\ begun = 0 /\ claim = {} /\ txn = [s \in Sessions |-> Idle]
    BY DEF QueriesInit, PersistenceInit, Nothing
  <2>2. Idle.locked = {}
    BY DEF Idle
  <2>3. \A s \in Sessions : Sound(s, txn[s])
    BY <2>1, IdleIsSound
  <2> QED
    BY <1>1, <1>2, <2>1, <2>2, <2>3, BoundAssumption DEF Persisting, Counts
<1>4. Caching
  <2>1. commits = Nothing /\ version = 0 /\ lists = <<>> /\ pages = <<>> /\ heard = Nothing
        /\ reader = [r \in Readers |-> NoRequest]
    BY DEF QueriesInit, PersistenceInit, Nothing
  <2>2. SoundReader(NoRequest)
    BY <1>2, <2>1 DEF SoundReader, Keeps, NoRequest
  <2> QED
    BY <1>2, <2>1, <2>2, EmptyHas DEF Caching
<1> QED
  BY <1>3, <1>4 DEF IInv

LEMMA StepIsSound == IInv /\ [Next]_vars => IInv'
<1> SUFFICES ASSUME IInv, [Next]_vars PROVE IInv'
  OBVIOUS
<1>1. ASSUME NEW s \in Sessions, Begins(s) \/ Statement(s) \/ Abort(s) \/ Requeue(s), UNCHANGED cacheVars
      PROVE  IInv'
  BY <1>1, StatementKeeps, CommitAges DEF IInv, cacheVars
<1>2. ASSUME NEW s \in Sessions, Invalidate(s) PROVE IInv'
  BY <1>2, InvalidatePersists, InvalidateKeeps DEF IInv
<1>3. ASSUME NEW r \in Readers, Ask(r) \/ Respond(r) PROVE IInv'
  <2>1. UNCHANGED dbVars
    BY <1>3 DEF dbVars, Ask, Respond, ReadVersion, CheckCompany, Get, Search, LoadDetail, ListJobs,
                Store, Answer, Found, NotFound, Reads
  <2>2. Persisting'
    BY <2>1 DEF IInv, Persisting, Sound, dbVars
  <2> QED
    BY <1>3, <2>2, AskKeeps, RespondKeeps DEF IInv
<1>4. ASSUME Expire PROVE IInv'
  <2>1. Persisting'
    BY <1>4 DEF Expire, IInv, Persisting, Sound
  <2> QED
    BY <1>4, <2>1, ExpireKeeps DEF IInv
<1>5. CASE UNCHANGED vars
  BY <1>5 DEF vars, IInv, Persisting, Sound, Caching, SoundReader, Keeps, Below
<1> QED
  BY <1>1, <1>2, <1>3, <1>4, <1>5 DEF Next

-----------------------------------------------------------------------------
(* Theorems.                                                               *)

\* IInv holds in every reachable state.
THEOREM Invariance == Spec => []IInv
BY InitIsSound, StepIsSound, PTL DEF Spec

\* What is cached is something that the database has been, at a version that was
\* reached, and no two open transactions hold the same lock.
THEOREM TypeCorrect == Spec => []TypeOK
<1>1. IInv => TypeOK
  <2> SUFFICES ASSUME IInv PROVE TypeOK
    OBVIOUS
  <2>1. PersistenceTypeOK
    BY DEF IInv, Persisting, PersistenceTypeOK, SoundRows, Whole, Keys
  <2> QED
    BY <2>1 DEF TypeOK, IInv, Caching, Below
<1> QED
  BY <1>1, Invariance, PTL

\* persist: whoever loses the race for a job source, a committed source shows a
\* posting that is committed, and a committed posting has a source.
THEOREM SourcesAndPostings == Spec => []SourcesAndPostingsMatch
<1>1. IInv => SourcesAndPostingsMatch
  BY DEF IInv, Persisting, SoundRows, SourcesAndPostingsMatch
<1> QED
  BY <1>1, Invariance, PTL

\* CompanyQueryCache: a search that began after an invalidation shows what was
\* committed before it, whichever calls of Redis fail.
THEOREM SearchesFollow == Spec => []SearchesFollowInvalidation
<1>1. IInv => SearchesFollowInvalidation
  BY DEF IInv, Caching, SoundReader, Keeps, Below, Counts, SearchesFollowInvalidation
<1> QED
  BY <1>1, Invariance, PTL

\* persist: the update that locks the run under its token holds the claim until
\* the commit.
THEOREM ClaimsHold == Spec => CommitsUnderClaim
<1>1. IInv => \A s \in Sessions : Commits(s) /\ Batch(s).claimed => s \in claim
  BY DEF IInv, Persisting, Sound, Claimed, Commits, Batch
<1> QED
  BY <1>1, Invariance, PTL DEF CommitsUnderClaim

LEMMA OnlyCommitsWrite ==
  ASSUME Next, commits' # commits \/ rows' # rows PROVE \E t \in Sessions : Commit(t)
<1>1. ASSUME NEW t \in Sessions, Begins(t) \/ Statement(t) \/ Abort(t) \/ Requeue(t) PROVE Commit(t)
  BY <1>1 DEF Begins, Begin, Abort, Requeue, Goes, Statement, LockNames, LockClaim, ReadFact, WriteFact,
              ReadJob, WriteJob, Recount, CountActive, UpsertFilings, Flushes
<1>2. ASSUME NEW t \in Sessions, Invalidate(t) PROVE FALSE
  BY <1>2 DEF Invalidate, Advance, Scan, Delete
<1>3. ASSUME NEW r \in Readers, Ask(r) \/ Respond(r) PROVE FALSE
  BY <1>3 DEF Ask, Respond, ReadVersion, CheckCompany, Get, Search, LoadDetail, ListJobs,
              Store, Answer, Found, NotFound, Reads
<1>4. ~Expire
  BY DEF Expire
<1> QED
  BY <1>1, <1>2, <1>3, <1>4 DEF Next

LEMMA CommitsCommit ==
  ASSUME IInv, [Next]_vars, NEW s \in Sessions, Commits(s) PROVE Commit(s)
<1>1. Next /\ commits' # commits
  BY DEF Commits, vars
<1>2. PICK t \in Sessions : Commit(t)
  BY <1>1, OnlyCommitsWrite
<1>3. t # s => txn'[s].pc = txn[s].pc
  <2>1. DOMAIN txn[s] = DOMAIN Idle
    BY DEF IInv, Persisting, Sound
  <2> QED
    BY <1>2, <2>1 DEF Commit, Idle
<1> QED
  BY <1>2, <1>3 DEF Commits

\* persist: a session writes postings and sources of its own company only, also
\* when two companies are collected at once and both list the same job.
THEOREM OwnCompanyOnly == Spec => WritesOwnCompany
<1> DEFINE Own == \A s \in Sessions : Commits(s) =>
                    \A k \in Keys("posting") \cup Keys("source") :
                      rows'[k] # rows[k] =>
                        Batch(s).company = CompanyOf(rows, k) /\ Batch(s).company = CompanyOf(rows', k)
<1>1. IInv /\ [Next]_vars => Own
  <2> SUFFICES ASSUME IInv, [Next]_vars, NEW s \in Sessions, Commits(s),
                      NEW k \in Keys("posting") \cup Keys("source"), rows'[k] # rows[k]
               PROVE  Batch(s).company = CompanyOf(rows, k) /\ Batch(s).company = CompanyOf(rows', k)
    OBVIOUS
  <2>1. Commit(s)
    BY CommitsCommit
  <2> DEFINE c == Batch(s).company
             d == Over(Collected(s), txn[s].draft)
  <2>2. rows' = Over(d, rows)
    BY <2>1 DEF Commit
  <2>3. SoundDraft(rows, d, txn[s].locked, {}) /\ OwnDraft(rows, s, c, d, {})
    <3>1. \A x \in DOMAIN Collected(s) : x[1] \notin {"source", "posting", "claim"}
      BY EmptyHas DEF Collected, Profile
    <3>2. Beside(txn[s].draft, d)
      BY <3>1, OverIsBeside
    <3>3. SoundDraft(rows, txn[s].draft, txn[s].locked, {}) /\ OwnDraft(rows, s, c, txn[s].draft, {})
      BY DEF IInv, Persisting, Sound, Batch
    <3> HIDE DEF c, d
    <3> QED
      BY <3>2, <3>3, DraftGrows, OwnGrows
  <2> HIDE DEF c, d
  <2>4. k \in DOMAIN d /\ k \in DOMAIN rows /\ rows'[k] = d[k]
    BY <2>2 DEF Over, Keys
  <2>5. k[1] = "posting"
    BY <2>3, <2>4 DEF SoundDraft, Keys
  <2>6. rows[k].company = c /\ d[k].company = c /\ k = Posting(k[2])
    BY <2>3, <2>4, <2>5 DEF SoundDraft, OwnDraft, Whole
  <2>7. CompanyOf(rows, k) = c /\ CompanyOf(rows', k) = c
    BY <2>4, <2>5, <2>6 DEF CompanyOf
  <2> QED
    BY <2>7 DEF c
<1> QED
  BY <1>1, Invariance, PTL DEF Spec, WritesOwnCompany

-----------------------------------------------------------------------------
(* Documents.                                                              *)

\* The documents of a draft are no older than those of the rows, but for what
\* another session has committed meanwhile.
NotOlder(all, d, beside) ==
  \A k \in DOMAIN d : k[1] = "document" =>
    d[k] \in Nat /\ (k \in DOMAIN all /\ k \notin beside => all[k] <= d[k])

\* So it is with a document that was found and is not yet written.
FactFits(all, t) ==
  t.pc = "fact" =>
    LET key == Head(t.batch.facts).key IN
    key[1] = "document" => \A old \in t.found :
      /\ t.found = {old} /\ old \in Nat
      /\ key \notin t.beside =>
           /\ key \in DOMAIN t.draft \cup DOMAIN all
           /\ old = Over(t.draft, all)[key]

Dated(all) == \A k \in DOMAIN all : k[1] = "document" => all[k] \in Nat

Dating ==
  /\ Dated(rows)
  /\ \A s, t \in Sessions :
       s # t /\ InTransaction(s) /\ InTransaction(t) => Batch(s).names \cap Batch(t).names = {}
  /\ \A s \in Sessions :
       /\ ~InTransaction(s) => DOMAIN txn[s].draft = {}
       /\ NotOlder(rows, txn[s].draft, txn[s].beside)
       /\ FactFits(rows, txn[s])

\* e has the documents that d has.
SparesDocuments(d, e) ==
  \A k \in DOMAIN d \cup DOMAIN e : k[1] = "document" =>
    k \in DOMAIN d /\ k \in DOMAIN e /\ e[k] = d[k]

LEMMA SparesIsTransitive ==
  ASSUME NEW d, NEW e, NEW f, SparesDocuments(d, e), SparesDocuments(e, f)
  PROVE  SparesDocuments(d, f)
BY DEF SparesDocuments

LEMMA ChangingSpares ==
  ASSUME NEW d, NEW k, NEW old, NEW new, k[1] # "document"
  PROVE  SparesDocuments(d, Changing(d, k, old, new))
BY DEF SparesDocuments, Changing, With

LEMMA OverSpares ==
  ASSUME NEW d, NEW new, \A k \in DOMAIN new : k[1] # "document"
  PROVE  SparesDocuments(d, Over(new, d))
BY DEF SparesDocuments, Over

LEMMA MergeSpares ==
  ASSUME NEW d, NEW p, NEW old, NEW job
  PROVE  SparesDocuments(d, Merge(d, p, old, job))
BY DEF SparesDocuments, Merge, Changing, With, Posting

\* A transaction that goes on, and writes no document, keeps its names to itself.
LEMMA SparingKeeps ==
  ASSUME Persisting, Dating, NEW s \in Sessions, NEW x, Goes(s, x),
         SparesDocuments(txn[s].draft, x.draft), x.beside = txn[s].beside, x.pc # "fact",
         x.pc \notin {"idle", "names", "committed", "bumped", "scanned"},
         InTransaction(s), x.batch.names = Batch(s).names
  PROVE  Dating'
<1>1. rows' = rows /\ \A t \in Sessions : txn'[t] = IF t = s THEN x ELSE txn[t]
  BY DEF Goes, Persisting
<1>2. NotOlder(rows, x.draft, x.beside)
  BY DEF NotOlder, SparesDocuments, Dating
<1> QED
  BY <1>1, <1>2 DEF Dating, InTransaction, Batch, FactFits

\* A transaction ends, or has not begun.
LEMMA ResetKeeps ==
  ASSUME Persisting, Dating, NEW s \in Sessions, NEW x, Goes(s, x), DOMAIN x.draft = {},
         x.pc \in {"idle", "names", "bumped", "scanned"}
  PROVE  Dating'
<1>1. rows' = rows /\ \A t \in Sessions : txn'[t] = IF t = s THEN x ELSE txn[t]
  BY DEF Goes, Persisting
<1> QED
  BY <1>1 DEF Dating, InTransaction, Batch, FactFits, NotOlder

LEMMA LockNamesDates ==
  ASSUME Persisting, Dating, NEW s \in Sessions, LockNames(s) PROVE Dating'
<1> DEFINE x == [txn[s] EXCEPT !.pc = "claim"]
<1>1. Goes(s, x) /\ NamesFree(s) /\ ~InTransaction(s) /\ Sound(s, txn[s])
  BY DEF LockNames, Persisting, InTransaction
<1>2. x.pc = "claim" /\ x.draft = txn[s].draft /\ x.batch = txn[s].batch /\ x.beside = txn[s].beside
  BY <1>1 DEF Sound, Idle
<1> HIDE DEF x
<1>3. rows' = rows /\ \A t \in Sessions : txn'[t] = IF t = s THEN x ELSE txn[t]
  BY <1>1 DEF Goes, Persisting
<1> QED
  BY <1>1, <1>2, <1>3 DEF Dating, InTransaction, Batch, FactFits, NotOlder, NamesFree

LEMMA ReadFactDates ==
  ASSUME Persisting, Dating, NEW s \in Sessions, ReadFact(s) PROVE Dating'
<1> DEFINE key == Head(Batch(s).facts).key
           x == [txn[s] EXCEPT !.pc = "fact", !.found = At(View(s), key)]
<1>1. Goes(s, x) /\ InTransaction(s) /\ Sound(s, txn[s])
  BY DEF ReadFact, Persisting, InTransaction
<1>2. /\ x.pc = "fact" /\ x.draft = txn[s].draft /\ x.batch = txn[s].batch
      /\ x.beside = txn[s].beside /\ x.found = At(View(s), key)
  BY <1>1 DEF Sound, Idle
<1> HIDE DEF x
<1>3. rows' = rows /\ \A t \in Sessions : txn'[t] = IF t = s THEN x ELSE txn[t]
  BY <1>1 DEF Goes, Persisting
<1>4. ASSUME key[1] = "document", NEW old \in x.found
      PROVE  /\ x.found = {old} /\ old \in Nat /\ key \in DOMAIN txn[s].draft \cup DOMAIN rows
             /\ old = Over(txn[s].draft, rows)[key]
  <2>1. key \in DOMAIN View(s) /\ old = View(s)[key] /\ x.found = {View(s)[key]}
    BY <1>2, <1>4 DEF At
  <2>2. View(s) = Over(txn[s].draft, rows)
    BY DEF View
  <2>3. \A k \in DOMAIN View(s) : k[1] = "document" => View(s)[k] \in Nat
    BY <2>2 DEF Dating, Dated, NotOlder, Over
  <2>4. DOMAIN View(s) = DOMAIN txn[s].draft \cup DOMAIN rows
    BY <2>2 DEF Over
  <2> HIDE DEF key
  <2> QED
    BY <1>4, <2>1, <2>2, <2>3, <2>4
<1>5. FactFits(rows, x)
  BY <1>2, <1>4 DEF FactFits, Batch
<1> QED
  BY <1>1, <1>2, <1>3, <1>5 DEF Dating, InTransaction, Batch, NotOlder

\* What is written is the newer of what was found and what was fetched.
LEMMA WriteFactDates ==
  ASSUME Persisting, Dating, NEW s \in Sessions, WriteFact(s) PROVE Dating'
<1> DEFINE t == txn[s]
           fact == Head(Batch(s).facts)
           key == fact.key
           next == [t EXCEPT !.pc = "facts", !.found = {}, !.batch.facts = Tail(@)]
           old == IF t.found # {} THEN t.found ELSE At(View(s), fact.key)
           value == IF old = {} THEN fact.value ELSE CHOOSE v \in {Merged(fact, o) : o \in old} : TRUE
           x == [next EXCEPT !.draft = Changing(@, fact.key, old, value)]
<1>1. Sound(s, t) /\ t.pc = "fact" /\ InTransaction(s)
  BY DEF WriteFact, Persisting, InTransaction
<1>2. \E y : Goes(s, y) /\ y \in {x, Flushed(x)}
  BY DEF WriteFact, Flushes, Flushed
<1>3. fact \in Facts
  BY <1>1 DEF Sound, Batch
<1>4. /\ DOMAIN x = DOMAIN Idle /\ x.pc = "facts" /\ x.beside = t.beside
      /\ x.draft = Changing(t.draft, key, old, value)
      /\ x.batch = [t.batch EXCEPT !.facts = Tail(@)]
  BY <1>1 DEF Sound, Idle
<1>5. x.batch.names = Batch(s).names
  <2>1. DOMAIN t.batch = DOMAIN NoBatch
    BY <1>1 DEF Sound
  <2> HIDE DEF t, x
  <2> QED
    BY <1>4, <2>1 DEF NoBatch, Batch, t
<1> HIDE DEF x, next
<1>6. /\ Flushed(x).pc = x.pc /\ Flushed(x).beside = x.beside
      /\ Flushed(x).draft = x.draft /\ Flushed(x).batch = x.batch
  BY <1>4 DEF Flushed, Idle
<1>7. NotOlder(rows, x.draft, t.beside)
  <2>1. NotOlder(rows, t.draft, t.beside) /\ FactFits(rows, t) /\ Dated(rows)
    BY DEF Dating
  <2>2. ASSUME key[1] = "document", old = {}
        PROVE  value \in Nat /\ key \notin DOMAIN rows
    <3>1. key \notin DOMAIN View(s)
      BY <2>2 DEF At
    <3>2. value = fact.value
      BY <2>2
    <3>3. fact.value \in Nat
      BY <1>3, <2>2, FetchesAreDated
    <3>4. DOMAIN View(s) = DOMAIN t.draft \cup DOMAIN rows
      BY DEF View, Over
    <3> HIDE DEF value, key, t, fact
    <3> QED
      BY <3>1, <3>2, <3>3, <3>4
  <2>3. ASSUME key[1] = "document", old # {}
        PROVE  value \in Nat /\ (key \in DOMAIN rows /\ key \notin t.beside => rows[key] <= value)
    <3>1. PICK o \in old : /\ old = {o} /\ o \in Nat
                           /\ key \notin t.beside => key \in DOMAIN t.draft \cup DOMAIN rows
                                                     /\ o = Over(t.draft, rows)[key]
      <4>1. CASE t.found # {}
        BY <1>1, <2>1, <2>3, <4>1 DEF FactFits, Batch
      <4>2. CASE t.found = {}
        <5>1. old = {View(s)[key]} /\ key \in DOMAIN View(s)
          BY <2>3, <4>2 DEF At
        <5>2. View(s) = Over(t.draft, rows)
          BY DEF View
        <5>3. View(s)[key] \in Nat
          BY <2>1, <2>3, <5>1, <5>2 DEF Dated, NotOlder, Over
        <5>4. DOMAIN View(s) = DOMAIN t.draft \cup DOMAIN rows
          BY <5>2 DEF Over
        <5> HIDE DEF old, key, t
        <5> QED
          BY <5>1, <5>2, <5>3, <5>4
      <4> QED
        BY <4>1, <4>2
    <3>2. value = Newest(fact.value, o)
      <4>1. value = CHOOSE v \in {Merged(fact, q) : q \in old} : TRUE
        BY <2>3
      <4>2. {Merged(fact, q) : q \in old} = {Newest(fact.value, o)}
        BY <2>3, <3>1 DEF Merged
      <4> HIDE DEF value, old
      <4> QED
        BY <4>1, <4>2
    <3>3. fact.value \in Nat
      BY <1>3, <2>3, FetchesAreDated
    <3>4. value \in Nat /\ o <= value
      BY <3>1, <3>2, <3>3 DEF Newest
    <3>5. key \in DOMAIN rows /\ key \notin t.beside => rows[key] <= o
      <4> SUFFICES ASSUME key \in DOMAIN rows, key \notin t.beside PROVE rows[key] <= o
        OBVIOUS
      <4>1. o = IF key \in DOMAIN t.draft THEN t.draft[key] ELSE rows[key]
        BY <3>1 DEF Over
      <4> HIDE DEF key, t, old
      <4> QED
        BY <2>1, <2>3, <3>1, <4>1 DEF NotOlder, Dated
    <3>6. key \in DOMAIN rows => rows[key] \in Nat
      BY <2>1, <2>3 DEF Dated
    <3> HIDE DEF value, old, key
    <3> QED
      BY <3>1, <3>4, <3>5, <3>6
  <2> HIDE DEF value, old, key, t, fact
  <2> QED
    BY <1>4, <2>1, <2>2, <2>3 DEF NotOlder, Changing, With
<1>8. PICK y : /\ Goes(s, y) /\ y.pc = "facts" /\ y.beside = t.beside
               /\ y.draft = x.draft /\ y.batch.names = Batch(s).names
  BY <1>2, <1>4, <1>5, <1>6
<1>9. rows' = rows /\ \A u \in Sessions : txn'[u] = IF u = s THEN y ELSE txn[u]
  BY <1>8 DEF Goes, Persisting
<1> HIDE DEF x, old, value, fact
<1> QED
  BY <1>1, <1>7, <1>8, <1>9 DEF Dating, InTransaction, Batch, FactFits

LEMMA WriteJobDates ==
  ASSUME Persisting, Dating, NEW s \in Sessions, WriteJob(s) PROVE Dating'
<1> DEFINE job == Head(Batch(s).jobs)
           key == Source(job.source)
           inserts == txn[s].found = {}
           lost == inserts /\ key \in DOMAIN rows
           made == inserts /\ job.posting = NoPosting
           fresh == <<s, job.source>>
           resolved == IF ~inserts THEN CHOOSE p \in txn[s].found : TRUE
                       ELSE IF made THEN fresh ELSE job.posting
           posting == IF lost THEN rows[key] ELSE resolved
           created == IF made THEN [k \in {Posting(fresh), Active(fresh)} |->
                                      IF k[1] = "posting" THEN [company |-> Batch(s).company, type |-> job.type]
                                      ELSE job.active]
                      ELSE <<>>
           kept == WithPosting(txn[s].draft, fresh, created, lost)
           base == IF made THEN kept ELSE Merge(kept, resolved, Over(kept, rows)[Posting(resolved)], job)
           seen == Over(base, rows)
           loaded == Over(txn[s].loaded, [k \in {Active(posting), Open(job.source)} \cap DOMAIN seen |-> seen[k]])
           draft == Merge(base, posting, seen[Posting(posting)], job)
           next == [txn[s] EXCEPT !.pc = "facts", !.found = {}, !.batch.jobs = Tail(@),
                      !.jobs = @ \cup {posting}, !.loaded = loaded,
                      !.draft = Changing(Changing(draft, key, At(seen, key), posting),
                                         Open(job.source), At(loaded, Open(job.source)), job.active)]
<1>1. Sound(s, txn[s]) /\ InTransaction(s)
  BY DEF WriteJob, Persisting, InTransaction
<1>2. \E y : Goes(s, y) /\ y \in {next, Flushed(next)}
  BY DEF WriteJob, Flushes, Flushed
<1>3. SparesDocuments(txn[s].draft, draft)
  <2>1. \A k \in DOMAIN created : k[1] # "document"
    BY EmptyHas DEF Posting, Active
  <2> HIDE DEF created, resolved, posting, made, lost
  <2>2. SparesDocuments(txn[s].draft, txn[s].draft)
    BY DEF SparesDocuments
  <2>3. SparesDocuments(txn[s].draft, kept)
    BY <2>1, <2>2, OverSpares DEF WithPosting
  <2> HIDE DEF kept
  <2>4. SparesDocuments(txn[s].draft, base)
    BY <2>3, MergeSpares, SparesIsTransitive
  <2> HIDE DEF base
  <2> QED
    BY <2>4, MergeSpares, SparesIsTransitive
<1> HIDE DEF draft, loaded, posting, seen
<1>4. /\ DOMAIN next = DOMAIN Idle /\ next.pc = "facts" /\ next.beside = txn[s].beside
      /\ next.draft = Changing(Changing(draft, key, At(seen, key), posting),
                               Open(job.source), At(loaded, Open(job.source)), job.active)
      /\ next.batch = [txn[s].batch EXCEPT !.jobs = Tail(@)]
  BY <1>1 DEF Sound, Idle
<1>5. next.batch.names = Batch(s).names
  <2>1. DOMAIN txn[s].batch = DOMAIN NoBatch
    BY <1>1 DEF Sound
  <2> HIDE DEF next
  <2> QED
    BY <1>4, <2>1 DEF NoBatch, Batch
<1> HIDE DEF next
<1>6. SparesDocuments(txn[s].draft, next.draft)
  <2>1. key[1] # "document" /\ Open(job.source)[1] # "document"
    BY DEF Source, Open
  <2> HIDE DEF key, job
  <2> QED
    BY <1>3, <1>4, <2>1, ChangingSpares, SparesIsTransitive
<1>7. /\ Flushed(next).pc = next.pc /\ Flushed(next).beside = next.beside
      /\ Flushed(next).draft = next.draft /\ Flushed(next).batch = next.batch
  BY <1>4 DEF Flushed, Idle
<1>8. PICK y : /\ Goes(s, y) /\ y.pc = "facts" /\ y.beside = txn[s].beside
               /\ y.draft = next.draft /\ y.batch.names = Batch(s).names
  BY <1>2, <1>4, <1>5, <1>7
<1> QED
  BY <1>1, <1>6, <1>8, SparingKeeps

\* The other steps of a transaction write no document.
LEMMA OthersDate ==
  ASSUME Persisting, Dating, NEW s \in Sessions,
         LockClaim(s) \/ ReadJob(s) \/ Recount(s) \/ CountActive(s) \/ UpsertFilings(s)
  PROVE  Dating'
<1>1. Sound(s, txn[s]) /\ InTransaction(s)
  BY DEF LockClaim, ReadJob, Recount, CountActive, UpsertFilings, Persisting, InTransaction
<1>2. \A d : SparesDocuments(d, d)
  BY DEF SparesDocuments
<1>3. ASSUME NEW x, Goes(s, x) \/ Flushes(s, x), DOMAIN x = DOMAIN Idle, x.beside = txn[s].beside,
             x.batch = txn[s].batch, x.pc \in {"facts", "job", "filings", "profile", "commit"},
             SparesDocuments(txn[s].draft, x.draft)
      PROVE  Dating'
  <2>1. /\ Flushed(x).pc = x.pc /\ Flushed(x).beside = x.beside
        /\ Flushed(x).draft = x.draft /\ Flushed(x).batch = x.batch
    BY <1>3 DEF Flushed, Idle
  <2>2. Goes(s, x) \/ Goes(s, Flushed(x))
    BY <1>3 DEF Flushes, Flushed
  <2> QED
    BY <1>1, <1>3, <2>1, <2>2, SparingKeeps DEF Batch
<1>4. CASE LockClaim(s)
  <2> DEFINE x == [txn[s] EXCEPT !.pc = "facts", !.locked = @ \cup ClaimLock(s)]
  <2>1. Goes(s, x) /\ DOMAIN x = DOMAIN Idle /\ x.beside = txn[s].beside /\ x.batch = txn[s].batch
        /\ x.pc = "facts" /\ x.draft = txn[s].draft
    BY <1>1, <1>4 DEF LockClaim, Sound, Idle
  <2> HIDE DEF x
  <2> QED
    BY <1>2, <1>3, <2>1
<1>5. CASE ReadJob(s)
  <2> DEFINE job == Head(Batch(s).jobs)
             x == [txn[s] EXCEPT !.pc = "job", !.found = At(View(s), Source(job.source)),
                                 !.loaded = Over(@, [k \in {Active(p) : p \in Known(s, job)} \cup
                                                        (DOMAIN View(s) \cap {Open(job.source)}) |-> View(s)[k]])]
  <2>1. Goes(s, x) /\ DOMAIN x = DOMAIN Idle /\ x.beside = txn[s].beside /\ x.batch = txn[s].batch
        /\ x.pc = "job" /\ x.draft = txn[s].draft
    BY <1>1, <1>5 DEF ReadJob, Sound, Idle
  <2> HIDE DEF x
  <2> QED
    BY <1>2, <1>3, <2>1
<1>6. CASE Recount(s)
  <2> DEFINE x == [txn[s] EXCEPT !.pc = "filings"]
  <2>1. Flushes(s, x) /\ DOMAIN x = DOMAIN Idle /\ x.beside = txn[s].beside /\ x.batch = txn[s].batch
        /\ x.pc = "filings" /\ x.draft = txn[s].draft
    BY <1>1, <1>6 DEF Recount, Sound, Idle
  <2> HIDE DEF x
  <2> QED
    BY <1>2, <1>3, <2>1
<1>7. CASE CountActive(s)
  <2> DEFINE x == [txn[s] EXCEPT !.pc = "profile", !.draft = Recounted(s)]
  <2>1. Goes(s, x) /\ DOMAIN x = DOMAIN Idle /\ x.beside = txn[s].beside /\ x.batch = txn[s].batch
        /\ x.pc = "profile" /\ x.draft = Recounted(s)
    BY <1>1, <1>7 DEF CountActive, Sound, Idle
  <2>2. SparesDocuments(txn[s].draft, Recounted(s))
    <3> DEFINE shown == {p \in txn[s].jobs :
                           Advertised(s, p) \notin At(Over(txn[s].draft, txn[s].loaded), Active(p))}
               new == [k \in {Active(p) : p \in shown} |-> Advertised(s, k[2])]
    <3>1. Recounted(s) = Over(new, txn[s].draft)
      BY DEF Recounted
    <3>2. \A k \in DOMAIN new : k[1] # "document"
      <4> HIDE DEF shown
      <4>1. DOMAIN new = {Active(p) : p \in shown}
        OBVIOUS
      <4> HIDE DEF new
      <4> QED
        BY <4>1 DEF Active
    <3> HIDE DEF new
    <3> QED
      BY <3>1, <3>2, OverSpares
  <2> HIDE DEF x
  <2> QED
    BY <1>3, <2>1, <2>2
<1>8. CASE UpsertFilings(s)
  <2> DEFINE new == {Filing(f) : f \in Batch(s).filings} \ DOMAIN View(s)
             added == Over([k \in new |-> Batch(s).company], txn[s].draft)
             x == [txn[s] EXCEPT !.pc = "commit", !.found = At(View(s), Profile(Batch(s).company)),
                                 !.draft = added]
  <2>1. (Goes(s, x) \/ Flushes(s, x)) /\ DOMAIN x = DOMAIN Idle /\ x.beside = txn[s].beside
        /\ x.batch = txn[s].batch /\ x.pc = "commit" /\ x.draft = added
    BY <1>1, <1>8 DEF UpsertFilings, Sound, Idle
  <2>2. SparesDocuments(txn[s].draft, added)
    BY OverSpares DEF Filing
  <2> HIDE DEF x, added
  <2> QED
    BY <1>3, <2>1, <2>2
<1> QED
  BY <1>4, <1>5, <1>6, <1>7, <1>8

\* Every other open transaction has seen the rows go by.
LEMMA CommitDates ==
  ASSUME Persisting, Dating, NEW s \in Sessions, Commit(s) PROVE Dating'
<1> DEFINE d == Over(Collected(s), txn[s].draft)
           done == [Idle EXCEPT !.pc = IF Batch(s).cached THEN "committed" ELSE "idle",
                                !.batch = [NoBatch EXCEPT !.company = Batch(s).company]]
<1>1. /\ rows' = Over(d, rows) /\ InTransaction(s)
      /\ txn' = [t \in Sessions |->
           IF t = s THEN done
           ELSE IF InTransaction(t) /\ Batch(t).names \cap Batch(s).names = {}
           THEN [txn[t] EXCEPT !.beside = @ \cup DOMAIN d]
           ELSE txn[t]]
  BY DEF Commit, InTransaction
<1>2. SparesDocuments(txn[s].draft, d)
  BY OverSpares, EmptyHas DEF Collected, Profile
<1>3. Dated(rows')
  <2>1. \A k \in DOMAIN d : k[1] = "document" => d[k] \in Nat
    BY <1>2 DEF SparesDocuments, Dating, NotOlder
  <2> HIDE DEF d
  <2> QED
    BY <1>1, <2>1 DEF Dating, Dated, Over
<1>4. txn'[s].pc \in {"idle", "committed"} /\ DOMAIN txn'[s].draft = {}
  BY <1>1, EmptyHas DEF Idle
<1> HIDE DEF d, done
<1>5. ASSUME NEW t \in Sessions \ {s}
      PROVE  /\ txn'[t].pc = txn[t].pc /\ txn'[t].batch = txn[t].batch
             /\ ~InTransaction(t) => DOMAIN txn'[t].draft = {}
             /\ NotOlder(rows', txn'[t].draft, txn'[t].beside)
             /\ FactFits(rows', txn'[t])
  <2>1. Sound(t, txn[t])
    BY DEF Persisting
  <2>2. CASE ~InTransaction(t)
    <3>1. txn'[t] = txn[t] /\ DOMAIN txn[t].draft = {} /\ txn[t].pc # "fact"
      BY <1>1, <2>2 DEF Dating, InTransaction
    <3> QED
      BY <3>1 DEF NotOlder, FactFits
  <2>3. CASE InTransaction(t)
    <3>1. Batch(t).names \cap Batch(s).names = {}
      BY <1>1, <2>3 DEF Dating
    <3>2. /\ txn'[t].pc = txn[t].pc /\ txn'[t].batch = txn[t].batch /\ txn'[t].draft = txn[t].draft
          /\ txn'[t].found = txn[t].found /\ txn'[t].beside = txn[t].beside \cup DOMAIN d
      BY <1>1, <2>1, <2>3, <3>1 DEF Sound, Idle
    <3>3. \A k : k \notin DOMAIN d =>
            /\ k \in DOMAIN rows' <=> k \in DOMAIN rows
            /\ k \in DOMAIN rows => rows'[k] = rows[k]
      BY <1>1 DEF Over
    <3>4. NotOlder(rows, txn[t].draft, txn[t].beside) /\ FactFits(rows, txn[t])
      BY DEF Dating
    <3>5. NotOlder(rows', txn[t].draft, txn'[t].beside)
      BY <3>2, <3>3, <3>4 DEF NotOlder
    <3>6. FactFits(rows', txn'[t])
      <4> DEFINE key == Head(txn[t].batch.facts).key
      <4> SUFFICES ASSUME txn[t].pc = "fact", key[1] = "document", NEW old \in txn[t].found
                   PROVE  /\ txn[t].found = {old} /\ old \in Nat
                          /\ key \notin txn'[t].beside =>
                               /\ key \in DOMAIN txn[t].draft \cup DOMAIN rows'
                               /\ old = Over(txn[t].draft, rows')[key]
        BY <3>2 DEF FactFits
      <4>1. /\ txn[t].found = {old} /\ old \in Nat
            /\ key \notin txn[t].beside =>
                 key \in DOMAIN txn[t].draft \cup DOMAIN rows /\ old = Over(txn[t].draft, rows)[key]
        BY <3>4 DEF FactFits
      <4> HIDE DEF key
      <4> QED
        BY <3>2, <3>3, <4>1 DEF Over
    <3> QED
      BY <2>3, <3>2, <3>5, <3>6
  <2> QED
    BY <2>2, <2>3
<1> QED
  BY <1>3, <1>4, <1>5 DEF Dating, InTransaction, Batch, NotOlder, FactFits

LEMMA InvalidateDates ==
  ASSUME Persisting, Dating, NEW s \in Sessions, Invalidate(s) PROVE Dating'
<1>1. Sound(s, txn[s])
  BY DEF Persisting
<1>2. ~InTransaction(s)
  BY DEF Invalidate, Advance, Scan, Delete, InTransaction
<1>3. PICK pc, seen : Stage(s, pc, seen) /\ pc \in {"idle", "bumped", "scanned"}
  BY DEF Invalidate, Advance, Scan, Delete
<1>4. UNCHANGED <<rows, claim, commits, begun>>
  BY DEF Invalidate, Advance, Scan, Delete
<1>5. CASE pc = "idle"
  <2>1. Goes(s, Idle) /\ DOMAIN Idle.draft = {} /\ Idle.pc = "idle"
    BY <1>3, <1>4, <1>5, EmptyHas DEF Stage, Goes, Idle
  <2> QED
    BY <2>1, ResetKeeps
<1>6. CASE pc # "idle"
  <2> DEFINE x == [txn[s] EXCEPT !.pc = pc, !.found = seen]
  <2>1. Goes(s, x)
    BY <1>3, <1>4, <1>6 DEF Stage, Goes
  <2>2. x.pc = pc /\ DOMAIN x.draft = {}
    BY <1>1, <1>2 DEF Sound, Idle, Dating
  <2> HIDE DEF x
  <2> QED
    BY <1>3, <1>6, <2>1, <2>2, ResetKeeps
<1> QED
  BY <1>5, <1>6

LEMMA DatingHolds == Persisting /\ Dating /\ [Next]_vars => Dating'
<1> SUFFICES ASSUME Persisting, Dating, [Next]_vars PROVE Dating'
  OBVIOUS
<1>1. DOMAIN Idle.draft = {} /\ Idle.pc = "idle"
  BY EmptyHas DEF Idle
<1>2. ASSUME NEW s \in Sessions, Statement(s) PROVE Dating'
  BY <1>2, LockNamesDates, ReadFactDates, WriteFactDates, WriteJobDates, OthersDate, CommitDates DEF Statement
<1>3. ASSUME NEW s \in Sessions, Begins(s) PROVE Dating'
  <2>1. PICK b : /\ rows' = rows
                 /\ txn' = [txn EXCEPT ![s] = [Idle EXCEPT !.pc = "names", !.batch = b]]
    BY <1>3 DEF Begins, Begin
  <2> DEFINE x == [Idle EXCEPT !.pc = "names", !.batch = b]
  <2>2. x.pc = "names" /\ DOMAIN x.draft = {}
    BY EmptyHas DEF Idle
  <2> HIDE DEF x
  <2>3. \A t \in Sessions : txn'[t] = IF t = s THEN x ELSE txn[t]
    BY <2>1 DEF Persisting, x
  <2>4. NotOlder(rows, x.draft, x.beside) /\ FactFits(rows, x)
    BY <2>2 DEF NotOlder, FactFits
  <2>5. \A t \in Sessions : InTransaction(t)' => t # s /\ InTransaction(t) /\ Batch(t)' = Batch(t)
    BY <2>2, <2>3 DEF InTransaction, Batch
  <2>6. \A t \in Sessions : (~InTransaction(t))' => DOMAIN txn'[t].draft = {}
    BY <2>2, <2>3 DEF InTransaction, Dating
  <2>7. \A t \in Sessions : NotOlder(rows', txn'[t].draft, txn'[t].beside) /\ FactFits(rows', txn'[t])
    BY <2>1, <2>3, <2>4 DEF Dating
  <2> QED
    BY <2>1, <2>5, <2>6, <2>7 DEF Dating
<1>4. ASSUME NEW s \in Sessions, Abort(s) PROVE Dating'
  BY <1>1, <1>4, ResetKeeps DEF Abort
<1>5. ASSUME NEW s \in Sessions, Invalidate(s) PROVE Dating'
  BY <1>5, InvalidateDates
<1>6. ASSUME UNCHANGED <<rows, txn>> PROVE Dating'
  BY <1>6 DEF Dating, InTransaction, Batch, FactFits, NotOlder
<1>7. ASSUME NEW s \in Sessions, Requeue(s) PROVE Dating'
  BY <1>6, <1>7 DEF Requeue
<1>8. ASSUME NEW r \in Readers, Ask(r) \/ Respond(r) PROVE Dating'
  <2>1. UNCHANGED dbVars
    BY <1>8 DEF dbVars, Ask, Respond, ReadVersion, CheckCompany, Get, Search, LoadDetail, ListJobs,
                Store, Answer, Found, NotFound, Reads
  <2> QED
    BY <1>6, <2>1 DEF dbVars
<1>9. CASE Expire
  BY <1>6, <1>9 DEF Expire, dbVars
<1>10. CASE UNCHANGED vars
  BY <1>6, <1>10 DEF vars, dbVars
<1> QED
  BY <1>2, <1>3, <1>4, <1>5, <1>7, <1>8, <1>9, <1>10 DEF Next

LEMMA InitDates == QueriesInit => Dating
<1> SUFFICES ASSUME QueriesInit PROVE Dating
  OBVIOUS
<1>1. \A s \in Sessions : txn[s] = Idle
  BY DEF QueriesInit, PersistenceInit
<1>2. Idle.pc = "idle" /\ DOMAIN Idle.draft = {}
  BY EmptyHas DEF Idle
<1>3. Dated(rows)
  BY StoredAssumption DEF QueriesInit, PersistenceInit, Dated
<1> QED
  BY <1>1, <1>2, <1>3 DEF Dating, InTransaction, NotOlder, FactFits

\* _upsert_documents: the fetch time of a document goes back only by a session
\* whose transaction was open while another committed the document under other
\* names.
THEOREM DocumentsStayNewest == Spec => DocumentsKeepNewest
<1> DEFINE Kept == \A k \in Keys("document") :
                     rows'[k] < rows[k] => \E s \in Sessions : Commits(s) /\ k \in txn[s].beside
<1>1. IInv /\ Dating /\ [Next]_vars => Kept
  <2> SUFFICES ASSUME IInv, Dating, [Next]_vars, NEW k \in Keys("document"), rows'[k] < rows[k]
               PROVE  \E s \in Sessions : Commits(s) /\ k \in txn[s].beside
    OBVIOUS
  <2>1. rows[k] \in Nat /\ k[1] = "document" /\ k \in DOMAIN rows
    BY DEF Dating, Dated, Keys
  <2>2. rows' # rows /\ Next
    BY <2>1 DEF vars, dbVars
  <2>3. PICK s \in Sessions : Commit(s)
    BY <2>2, OnlyCommitsWrite
  <2> DEFINE d == Over(Collected(s), txn[s].draft)
  <2>4. SparesDocuments(txn[s].draft, d)
    BY OverSpares, EmptyHas DEF Collected, Profile
  <2>5. rows' = Over(d, rows)
    BY <2>3 DEF Commit
  <2> HIDE DEF d
  <2>6. k \in DOMAIN d /\ rows'[k] = d[k]
    BY <2>1, <2>5 DEF Over
  <2>7. k \in DOMAIN txn[s].draft /\ rows'[k] = txn[s].draft[k]
    BY <2>1, <2>4, <2>6 DEF SparesDocuments
  <2>8. k \in txn[s].beside
    <3>1. NotOlder(rows, txn[s].draft, txn[s].beside)
      BY DEF Dating
    <3> QED
      BY <2>1, <2>7, <3>1 DEF NotOlder
  <2>9. Commits(s)
    <3>1. txn[s].pc = "commit" /\ txn'[s].pc # "commit"
      BY <2>3 DEF Commit, Idle
    <3>2. commits' = [commits EXCEPT ![Batch(s).company] = @ + 1]
      BY <2>3 DEF Commit
    <3>3. Batch(s).company \in Companies /\ commits \in [Companies -> Nat]
      BY <3>1 DEF IInv, Persisting, Sound, Batch
    <3> QED
      BY <3>1, <3>2, <3>3 DEF Commits
  <2> QED
    BY <2>8, <2>9
<1>2. Spec => [](IInv /\ Dating)
  <2>1. IInv /\ Dating /\ [Next]_vars => (IInv /\ Dating)'
    BY StepIsSound, DatingHolds DEF IInv
  <2> QED
    BY <2>1, InitIsSound, InitDates, PTL DEF Spec
<1>3. IInv /\ Dating /\ [Next]_vars => [Kept]_dbVars
  BY <1>1
<1> HIDE DEF Kept
<1>4. Spec => [][Kept]_dbVars
  BY <1>2, <1>3, PTL DEF Spec
<1> QED
  BY <1>4 DEF DocumentsKeepNewest, Kept

-----------------------------------------------------------------------------
(* Activity.                                                               *)

\* A draft d over the rows of all has the two columns of a source that it inserts,
\* and closes or opens only a source that is there.
Paired(all, d) ==
  \A k \in DOMAIN d :
    /\ k[1] = "source" => k = Source(k[2]) /\ Open(k[2]) \in DOMAIN d
    /\ k[1] = "open" => k = Open(k[2]) /\ Source(k[2]) \in DOMAIN d \cup DOMAIN all

\* A column that was read is as it was, but for what the transaction t has written
\* itself or another session has committed meanwhile.
Fresh(all, t) ==
  \A k \in DOMAIN t.loaded :
    /\ k[1] = "open" => Source(k[2]) \in DOMAIN t.draft \cup DOMAIN all
    /\ \/ k \in DOMAIN t.draft \/ k \in t.beside
       \/ k \in DOMAIN all /\ all[k] = t.loaded[k]

\* A source of the posting p is open.
Shows(all, p) == \E k \in {k \in DOMAIN all : k[1] = "source"} : all[k] = p /\ all[Open(k[2])]

\* Another session has committed what decides the activity of p.
Passed(all, beside, p) ==
  \/ Active(p) \in beside
  \/ \E k \in DOMAIN all : k[1] = "source" /\ all[k] = p /\ Open(k[2]) \in beside

\* The view of a draft d has p active when it shows it.
Agrees(all, d, p) ==
  /\ Active(p) \in DOMAIN d \cup DOMAIN all
  /\ Over(d, all)[Active(p)] = Shows(Over(d, all), p)

Counted(all, t) ==
  t.pc \in {"profile", "commit"} =>
    \A p \in t.jobs : Passed(all, t.beside, p) \/ Agrees(all, t.draft, p)

Counting ==
  /\ Paired(rows, rows)
  /\ \A s \in Sessions :
       /\ ~InTransaction(s) => DOMAIN txn[s].loaded = {}
       /\ Paired(rows, txn[s].draft)
       /\ Fresh(rows, txn[s])
       /\ Counted(rows, txn[s])

\* e says of sources and postings' activity what d says.
SparesActivity(d, e) ==
  \A k \in DOMAIN d \cup DOMAIN e : k[1] \in {"source", "open", "active"} =>
    k \in DOMAIN d /\ k \in DOMAIN e /\ e[k] = d[k]

LEMMA OverSparesActivity ==
  ASSUME NEW d, NEW new, \A k \in DOMAIN new : k[1] \notin {"source", "open", "active"}
  PROVE  SparesActivity(d, Over(new, d)) /\ DOMAIN d \subseteq DOMAIN Over(new, d)
BY DEF SparesActivity, Over

LEMMA ChangingSparesActivity ==
  ASSUME NEW d, NEW k, NEW old, NEW new, k[1] \notin {"source", "open", "active"}
  PROVE  SparesActivity(d, Changing(d, k, old, new)) /\ DOMAIN d \subseteq DOMAIN Changing(d, k, old, new)
BY DEF SparesActivity, Changing, With

LEMMA SparedStaysPaired ==
  ASSUME NEW all, NEW d, NEW e, Paired(all, d), SparesActivity(d, e)
  PROVE  Paired(all, e)
<1> SUFFICES ASSUME NEW k \in DOMAIN e, k[1] \in {"source", "open"}
             PROVE  /\ k[1] = "source" => k = Source(k[2]) /\ Open(k[2]) \in DOMAIN e
                    /\ k[1] = "open" => k = Open(k[2]) /\ Source(k[2]) \in DOMAIN e \cup DOMAIN all
  BY DEF Paired
<1>1. k \in DOMAIN d
  BY DEF SparesActivity
<1>2. Open(k[2])[1] = "open" /\ Source(k[2])[1] = "source"
  BY DEF Open, Source
<1> QED
  BY <1>1, <1>2 DEF Paired, SparesActivity

\* Whether a posting is shown, and active, depends on nothing else.
LEMMA SparedShowsTheSame ==
  ASSUME NEW all, NEW d, NEW e, NEW p, Paired(all, all), Paired(all, d), SparesActivity(d, e)
  PROVE  /\ Shows(Over(e, all), p) = Shows(Over(d, all), p)
         /\ Agrees(all, d, p) => Agrees(all, e, p)
<1>1. \A k : k[1] \in {"source", "open", "active"} =>
        /\ k \in DOMAIN Over(e, all) <=> k \in DOMAIN Over(d, all)
        /\ k \in DOMAIN Over(d, all) => Over(e, all)[k] = Over(d, all)[k]
  BY DEF SparesActivity, Over
<1>2. \A k \in DOMAIN Over(d, all) : k[1] = "source" =>
        Open(k[2])[1] = "open" /\ Open(k[2]) \in DOMAIN Over(d, all)
  BY DEF Paired, Over, Open
<1>3. Shows(Over(e, all), p) = Shows(Over(d, all), p)
  BY <1>1, <1>2 DEF Shows
<1>4. ASSUME Agrees(all, d, p) PROVE Agrees(all, e, p)
  <2>1. Active(p)[1] = "active"
    BY DEF Active
  <2>2. DOMAIN Over(d, all) = DOMAIN d \cup DOMAIN all /\ DOMAIN Over(e, all) = DOMAIN e \cup DOMAIN all
    BY OverHas
  <2> QED
    BY <1>1, <1>3, <1>4, <2>1, <2>2 DEF Agrees
<1> QED
  BY <1>3, <1>4

\* A step that neither reads nor writes anything of the kind.
LEMMA SparingCounts ==
  ASSUME Persisting, Counting, NEW s \in Sessions, NEW x, Goes(s, x),
         SparesActivity(txn[s].draft, x.draft), DOMAIN txn[s].draft \subseteq DOMAIN x.draft,
         x.loaded = txn[s].loaded, x.beside = txn[s].beside, x.jobs = txn[s].jobs,
         x.pc \in {"idle", "names", "committed", "bumped", "scanned"} => ~InTransaction(s),
         x.pc \in {"profile", "commit"} => txn[s].pc \in {"profile", "commit"}
  PROVE  Counting'
<1>1. rows' = rows /\ \A t \in Sessions : txn'[t] = IF t = s THEN x ELSE txn[t]
  BY DEF Goes, Persisting
<1>2. Paired(rows, x.draft)
  BY SparedStaysPaired DEF Counting
<1>3. Fresh(rows, x)
  BY DEF Counting, Fresh
<1>4. Counted(rows, x)
  <2>1. \A p : Agrees(rows, txn[s].draft, p) => Agrees(rows, x.draft, p)
    BY SparedShowsTheSame DEF Counting
  <2> QED
    BY <2>1 DEF Counting, Counted
<1>5. x.pc \in {"idle", "names", "committed", "bumped", "scanned"} => DOMAIN x.loaded = {}
  BY DEF Counting
<1> QED
  BY <1>1, <1>2, <1>3, <1>4, <1>5 DEF Counting, InTransaction

\* A transaction ends, or has not begun.
LEMMA ResetCounts ==
  ASSUME Persisting, Counting, NEW s \in Sessions, NEW x, rows' = rows,
         \A t \in Sessions : txn'[t] = IF t = s THEN x ELSE txn[t],
         DOMAIN x.draft = {}, DOMAIN x.loaded = {}, x.pc \in {"idle", "names"}
  PROVE  Counting'
<1>1. Paired(rows, x.draft) /\ Fresh(rows, x) /\ Counted(rows, x)
  BY DEF Paired, Fresh, Counted
<1> QED
  BY <1>1 DEF Counting, InTransaction

\* What the lookup of a job reads is in view.
LEMMA ReadJobCounts ==
  ASSUME Persisting, Counting, NEW s \in Sessions, ReadJob(s) PROVE Counting'
<1> DEFINE t == txn[s]
           job == Head(Batch(s).jobs)
           read == {Active(p) : p \in Known(s, job)} \cup (DOMAIN View(s) \cap {Open(job.source)})
           x == [t EXCEPT !.pc = "job", !.found = At(View(s), Source(job.source)),
                          !.loaded = Over(@, [k \in read |-> View(s)[k]])]
<1>1. Sound(s, t) /\ Goes(s, x) /\ \A p \in Known(s, job) : Owned(s, p)
  BY DEF ReadJob, Persisting
<1>2. /\ x.pc = "job" /\ x.draft = t.draft /\ x.beside = t.beside
      /\ x.loaded = Over(t.loaded, [k \in read |-> View(s)[k]])
  BY <1>1 DEF Sound, Idle
<1>3. View(s) = Over(t.draft, rows) /\ DOMAIN View(s) = DOMAIN t.draft \cup DOMAIN rows
  BY OverHas DEF View
<1>4. \A k \in read : k \in DOMAIN t.draft \cup DOMAIN rows
  <2>1. ASSUME NEW p \in Known(s, job) PROVE Active(p) \in DOMAIN t.draft \cup DOMAIN rows
    <3>1. Posting(p) \in DOMAIN t.draft \cup DOMAIN rows
      BY <1>1, <1>3, <2>1 DEF Owned
    <3>2. Posting(p)[1] = "posting" /\ Posting(p)[2] = p
      BY DEF Posting
    <3> QED
      BY <1>1, <3>1, <3>2 DEF Sound, SoundDraft, Persisting, SoundRows, Whole
  <2> HIDE DEF job
  <2> QED
    BY <1>3, <2>1
<1>5. \A k \in read : k[1] = "open" => Source(k[2]) \in DOMAIN t.draft \cup DOMAIN rows
  <2> HIDE DEF read
  <2> QED
    BY <1>4 DEF Counting, Paired
<1>6. \A k \in read : k \notin DOMAIN t.draft => k \in DOMAIN rows /\ View(s)[k] = rows[k]
  <2> HIDE DEF read
  <2> QED
    BY <1>3, <1>4 DEF Over
<1> HIDE DEF x, read
<1>7. Fresh(rows, x)
  <2>1. DOMAIN x.loaded = DOMAIN t.loaded \cup read
    BY <1>2 DEF Over
  <2>2. \A k \in DOMAIN x.loaded : x.loaded[k] = IF k \in DOMAIN t.loaded THEN t.loaded[k] ELSE View(s)[k]
    BY <1>2, <2>1 DEF Over
  <2>3. Fresh(rows, t)
    BY DEF Counting
  <2> HIDE DEF t
  <2> QED
    BY <1>2, <1>5, <1>6, <2>1, <2>2, <2>3 DEF Fresh
<1>8. rows' = rows /\ \A u \in Sessions : txn'[u] = IF u = s THEN x ELSE txn[u]
  BY <1>1 DEF Goes, Persisting, x
<1> QED
  BY <1>2, <1>7, <1>8 DEF Counting, InTransaction, Counted

\* The draft grows by columns of the job's source and by what says nothing of sources.
LEMMA WriteJobCounts ==
  ASSUME Persisting, Counting, NEW s \in Sessions, WriteJob(s) PROVE Counting'
<1> DEFINE t == txn[s]
           job == Head(Batch(s).jobs)
           key == Source(job.source)
           side == Open(job.source)
           inserts == t.found = {}
           lost == inserts /\ key \in DOMAIN rows
           made == inserts /\ job.posting = NoPosting
           fresh == <<s, job.source>>
           resolved == IF ~inserts THEN CHOOSE p \in t.found : TRUE
                       ELSE IF made THEN fresh ELSE job.posting
           posting == IF lost THEN rows[key] ELSE resolved
           created == IF made THEN [k \in {Posting(fresh), Active(fresh)} |->
                                      IF k[1] = "posting" THEN [company |-> Batch(s).company, type |-> job.type]
                                      ELSE job.active]
                      ELSE <<>>
           kept == WithPosting(t.draft, fresh, created, lost)
           base == IF made THEN kept ELSE Merge(kept, resolved, Over(kept, rows)[Posting(resolved)], job)
           seen == Over(base, rows)
           read == {Active(posting), side} \cap DOMAIN seen
           loaded == Over(t.loaded, [k \in read |-> seen[k]])
           draft == Merge(base, posting, seen[Posting(posting)], job)
           sourced == Changing(draft, key, At(seen, key), posting)
           written == Changing(sourced, side, At(loaded, side), job.active)
           next == [t EXCEPT !.pc = "facts", !.found = {}, !.batch.jobs = Tail(@),
                      !.jobs = @ \cup {posting}, !.loaded = loaded, !.draft = written]
           Adds(d, e) == /\ DOMAIN d \subseteq DOMAIN e
                         /\ \A k \in DOMAIN e : k \in DOMAIN d \/ k[1] \notin {"source", "open"}
<1>1. Sound(s, t) /\ Persisting'
  BY WriteJobKeeps DEF Persisting
<1>2. \E y : Goes(s, y) /\ y \in {next, Flushed(next)}
  BY DEF WriteJob, Flushes, Flushed
<1>3. key[1] = "source" /\ key[2] = job.source /\ side[1] = "open" /\ side[2] = job.source
      /\ Active(posting)[1] = "active"
  BY DEF Source, Open, Active
<1>4. Adds(t.draft, base) /\ Adds(base, draft)
  <2>1. \A d, p, old : Adds(d, Merge(d, p, old, job))
    BY DEF Merge, Changing, With, Posting
  <2>2. \A k \in DOMAIN created : k[1] \notin {"source", "open"}
    BY EmptyHas DEF Posting, Active
  <2> HIDE DEF created, made, lost, resolved, posting, t
  <2>3. Adds(t.draft, kept)
    BY <2>2 DEF WithPosting, Over
  <2> HIDE DEF kept
  <2>4. Adds(t.draft, Merge(kept, resolved, Over(kept, rows)[Posting(resolved)], job))
    <3> DEFINE merged == Merge(kept, resolved, Over(kept, rows)[Posting(resolved)], job)
    <3>1. Adds(kept, merged)
      BY <2>1
    <3> HIDE DEF merged
    <3>2. Adds(t.draft, merged)
      BY <2>3, <3>1
    <3> QED
      BY <3>2 DEF merged
  <2>5. Adds(t.draft, base)
    BY <2>3, <2>4
  <2> QED
    BY <2>1, <2>5
<1> HIDE DEF base, draft, posting
<1>5. /\ DOMAIN draft \subseteq DOMAIN sourced /\ DOMAIN sourced \subseteq DOMAIN draft \cup {key}
      /\ DOMAIN sourced \subseteq DOMAIN written /\ DOMAIN written \subseteq DOMAIN sourced \cup {side}
  BY DEF Changing, With
<1>6. key \in DOMAIN written \cup DOMAIN rows
  <2>1. CASE key \in DOMAIN seen
    <3>1. DOMAIN seen = DOMAIN base \cup DOMAIN rows
      BY OverHas
    <3> HIDE DEF seen, written, sourced
    <3> QED
      BY <1>4, <1>5, <2>1, <3>1
  <2>2. CASE key \notin DOMAIN seen
    <3>1. At(seen, key) = {}
      BY <2>2 DEF At
    <3>2. key \in DOMAIN sourced
      BY <3>1 DEF Changing, With
    <3> HIDE DEF seen, written, sourced
    <3> QED
      BY <1>5, <3>2
  <2> QED
    BY <2>1, <2>2
<1>7. DOMAIN loaded = DOMAIN t.loaded \cup read
      /\ \A k \in DOMAIN loaded : loaded[k] = IF k \in DOMAIN t.loaded THEN t.loaded[k] ELSE seen[k]
  <2> HIDE DEF read, seen, t
  <2> QED
    BY DEF Over
<1>8. read \subseteq DOMAIN base \cup DOMAIN rows
      /\ \A k \in read : k \notin DOMAIN base => seen[k] = rows[k]
  BY DEF Over
<1>9. side \notin DOMAIN loaded => side \in DOMAIN written
  <2> SUFFICES ASSUME side \notin DOMAIN loaded PROVE side \in DOMAIN written
    OBVIOUS
  <2>1. At(loaded, side) = {}
    BY DEF At
  <2> HIDE DEF sourced, loaded
  <2> QED
    BY <2>1 DEF Changing, With
<1>10. /\ next.pc = "facts" /\ next.beside = t.beside /\ next.draft = written /\ next.loaded = loaded
       /\ DOMAIN next = DOMAIN Idle
  BY <1>1 DEF Sound, Idle
<1> HIDE DEF next
<1>11. PICK y : /\ Goes(s, y) /\ y.pc = "facts" /\ y.beside = t.beside
                /\ y.draft = written /\ y.loaded = loaded
  <2>1. /\ Flushed(next).pc = next.pc /\ Flushed(next).beside = next.beside
        /\ Flushed(next).draft = next.draft /\ Flushed(next).loaded = next.loaded
    BY <1>10 DEF Flushed, Idle
  <2> QED
    BY <1>2, <1>10, <2>1
<1>12. rows' = rows /\ \A u \in Sessions : txn'[u] = IF u = s THEN y ELSE txn[u]
  BY <1>11 DEF Goes, Persisting
<1>13. \A k \in DOMAIN written : k[1] = "source" => k \notin DOMAIN rows
  <2>1. SoundDraft(rows, y.draft, y.locked, {})
    BY <1>1, <1>12 DEF Persisting, Sound
  <2> QED
    BY <1>11, <2>1 DEF SoundDraft
<1> HIDE DEF written, sourced, loaded, read, key, side, seen
<1>14. key = Source(job.source) /\ side = Open(job.source)
  BY DEF key, side
<1>15. Paired(rows, rows) /\ Paired(rows, t.draft) /\ Fresh(rows, t)
  BY DEF Counting
<1> HIDE DEF t, job
<1>16. DOMAIN t.draft \subseteq DOMAIN written /\ DOMAIN base \subseteq DOMAIN written
       /\ \A k \in DOMAIN written : k[1] \in {"source", "open"} => k \in DOMAIN t.draft \cup {key, side}
  BY <1>4, <1>5
<1>17. key \in DOMAIN written => side \in DOMAIN written
  <2> SUFFICES ASSUME key \in DOMAIN written, side \notin DOMAIN written PROVE FALSE
    OBVIOUS
  <2>1. key \notin DOMAIN rows
    BY <1>3, <1>13
  <2>2. key \notin DOMAIN t.draft
    BY <1>3, <1>14, <1>15, <1>16 DEF Paired
  <2>3. side \notin DOMAIN rows /\ side \notin DOMAIN t.loaded
    BY <1>3, <1>14, <1>15, <2>1, <2>2 DEF Paired, Fresh
  <2>4. side \notin read
    BY <1>8, <1>16, <2>3
  <2> QED
    BY <1>7, <1>9, <2>3, <2>4
<1>18. Paired(rows, written)
  BY <1>3, <1>6, <1>14, <1>15, <1>16, <1>17 DEF Paired
<1>19. Fresh(rows, y)
  <2> SUFFICES ASSUME NEW k \in DOMAIN loaded
               PROVE  /\ k[1] = "open" => Source(k[2]) \in DOMAIN written \cup DOMAIN rows
                      /\ \/ k \in DOMAIN written \/ k \in t.beside
                         \/ k \in DOMAIN rows /\ rows[k] = loaded[k]
    BY <1>11 DEF Fresh
  <2>1. CASE k \in DOMAIN t.loaded
    BY <1>7, <1>15, <1>16, <2>1 DEF Fresh
  <2>2. CASE k \notin DOMAIN t.loaded
    <3>1. k \in read /\ loaded[k] = seen[k]
      BY <1>7, <2>2
    <3>2. k[1] = "open" => k = side
      BY <1>3, <3>1 DEF read
    <3> QED
      BY <1>3, <1>6, <1>8, <1>14, <1>16, <3>1, <3>2
  <2> QED
    BY <2>1, <2>2
<1> QED
  BY <1>11, <1>12, <1>18, <1>19 DEF Counting, InTransaction, Counted

\* After the jobs each posting of the batch is given the activity that its sources
\* in view have, unless what was loaded says so already.
LEMMA CountActiveCounts ==
  ASSUME Persisting, Counting, NEW s \in Sessions, CountActive(s) PROVE Counting'
<1> DEFINE t == txn[s]
           stale == {p \in t.jobs : Advertised(s, p) \notin At(Over(t.draft, t.loaded), Active(p))}
           new == [k \in {Active(p) : p \in stale} |-> Advertised(s, k[2])]
           e == Over(new, t.draft)
           x == [t EXCEPT !.pc = "profile", !.draft = Recounted(s)]
<1>1. Sound(s, t) /\ Goes(s, x) /\ InTransaction(s)
  BY DEF CountActive, Persisting, InTransaction
<1>2. /\ x.pc = "profile" /\ x.draft = Recounted(s) /\ x.beside = t.beside /\ x.loaded = t.loaded
      /\ x.jobs = t.jobs
  BY <1>1 DEF Sound, Idle
<1>3. x.draft = e
  BY <1>2 DEF Recounted
<1>4. rows' = rows /\ \A u \in Sessions : txn'[u] = IF u = s THEN x ELSE txn[u]
  BY <1>1 DEF Goes, Persisting
<1> HIDE DEF x, stale
<1>5. DOMAIN new = {Active(p) : p \in stale} /\ \A p \in stale : new[Active(p)] = Advertised(s, p)
  BY DEF Active
<1>6. \A p : Active(p) \in DOMAIN new <=> p \in stale
  BY <1>5 DEF Active
<1>7. \A k \in DOMAIN new : k[1] = "active"
  BY <1>5 DEF Active
<1> HIDE DEF new
<1>8. /\ DOMAIN e = DOMAIN new \cup DOMAIN t.draft
      /\ \A k \in DOMAIN e : e[k] = IF k \in DOMAIN new THEN new[k] ELSE t.draft[k]
  BY DEF Over
<1> HIDE DEF e
<1>9. Paired(rows, rows) /\ Paired(rows, t.draft) /\ Fresh(rows, t)
  BY DEF Counting
<1>10. Paired(rows, e)
  <2>1. \A p : Open(p)[1] = "open" /\ Source(p)[1] = "source"
    BY DEF Open, Source
  <2> HIDE DEF t
  <2> QED
    BY <1>7, <1>8, <1>9, <2>1 DEF Paired
<1>11. Fresh(rows, x)
  BY <1>2, <1>3, <1>8, <1>9 DEF Fresh
<1>12. ASSUME NEW p \in t.jobs, ~Passed(rows, t.beside, p) PROVE Agrees(rows, e, p)
  <2>1. Shows(Over(e, rows), p) = Advertised(s, p)
    <3>1. \A k : k[1] \in {"source", "open"} =>
            /\ k \in DOMAIN Over(e, rows) <=> k \in DOMAIN Over(t.draft, rows)
            /\ k \in DOMAIN Over(t.draft, rows) => Over(e, rows)[k] = Over(t.draft, rows)[k]
      BY <1>7, <1>8 DEF Over
    <3>2. \A k \in DOMAIN Over(t.draft, rows) : k[1] = "source" =>
            Open(k[2])[1] = "open" /\ Open(k[2]) \in DOMAIN Over(t.draft, rows)
      BY <1>9 DEF Paired, Over, Open
    <3>3. View(s) = Over(t.draft, rows)
      BY DEF View
    <3> HIDE DEF t
    <3> QED
      BY <3>1, <3>2, <3>3 DEF Shows, Advertised
  <2>2. CASE p \in stale
    <3>1. Active(p) \in DOMAIN new /\ e[Active(p)] = Advertised(s, p) /\ Active(p) \in DOMAIN e
      BY <1>5, <1>6, <1>8, <2>2
    <3>2. Over(e, rows)[Active(p)] = e[Active(p)]
      BY <3>1 DEF Over
    <3> QED
      BY <2>1, <3>1, <3>2 DEF Agrees
  <2>3. CASE p \notin stale
    <3>1. /\ Active(p) \in DOMAIN t.draft \cup DOMAIN t.loaded
          /\ Advertised(s, p) = IF Active(p) \in DOMAIN t.draft THEN t.draft[Active(p)] ELSE t.loaded[Active(p)]
      <4>1. Advertised(s, p) \in At(Over(t.draft, t.loaded), Active(p))
        BY <2>3 DEF stale
      <4> HIDE DEF t
      <4> QED
        BY <4>1 DEF At, Over
    <3>2. Active(p) \notin DOMAIN new
      BY <1>6, <2>3
    <3>3. CASE Active(p) \in DOMAIN t.draft
      <4>1. Active(p) \in DOMAIN e /\ Over(e, rows)[Active(p)] = Advertised(s, p)
        BY <1>8, <3>1, <3>2, <3>3 DEF Over
      <4> QED
        BY <2>1, <4>1 DEF Agrees
    <3>4. CASE Active(p) \notin DOMAIN t.draft
      <4>1. Active(p) \in DOMAIN rows /\ rows[Active(p)] = t.loaded[Active(p)]
        BY <1>9, <1>12, <3>1, <3>4 DEF Fresh, Passed
      <4>2. Over(e, rows)[Active(p)] = Advertised(s, p)
        BY <1>8, <3>1, <3>2, <3>4, <4>1 DEF Over
      <4> QED
        BY <2>1, <4>1, <4>2 DEF Agrees
    <3> QED
      BY <3>3, <3>4
  <2> QED
    BY <2>2, <2>3
<1>13. Counted(rows, x)
  BY <1>2, <1>3, <1>12 DEF Counted
<1> QED
  BY <1>2, <1>3, <1>4, <1>10, <1>11, <1>13 DEF Counting, InTransaction

\* The other steps of a transaction.
LEMMA OthersCount ==
  ASSUME Persisting, Counting, NEW s \in Sessions,
         LockNames(s) \/ LockClaim(s) \/ ReadFact(s) \/ WriteFact(s) \/ Recount(s) \/ UpsertFilings(s)
  PROVE  Counting'
<1>1. Sound(s, txn[s])
  BY DEF Persisting
<1>2. \A d : SparesActivity(d, d)
  BY DEF SparesActivity
<1>3. ASSUME NEW x, Goes(s, x) \/ Flushes(s, x), DOMAIN x = DOMAIN Idle, x.beside = txn[s].beside,
             x.loaded = txn[s].loaded, x.jobs = txn[s].jobs,
             x.pc \in {"claim", "facts", "fact", "filings", "commit"},
             x.pc = "commit" => txn[s].pc = "profile",
             SparesActivity(txn[s].draft, x.draft), DOMAIN txn[s].draft \subseteq DOMAIN x.draft
      PROVE  Counting'
  <2>1. CASE Goes(s, x)
    BY <1>3, <2>1, SparingCounts
  <2>2. CASE Flushes(s, x)
    <3>1. Goes(s, Flushed(x))
      BY <2>2 DEF Flushes, Flushed
    <3>2. /\ Flushed(x).pc = x.pc /\ Flushed(x).beside = x.beside /\ Flushed(x).draft = x.draft
          /\ Flushed(x).loaded = x.loaded /\ Flushed(x).jobs = x.jobs
      BY <1>3 DEF Flushed, Idle
    <3> QED
      BY <1>3, <3>1, <3>2, SparingCounts
  <2> QED
    BY <1>3, <2>1, <2>2
<1>4. CASE LockNames(s)
  <2> DEFINE x == [txn[s] EXCEPT !.pc = "claim"]
  <2>1. /\ Goes(s, x) \/ Flushes(s, x)
        /\ DOMAIN x = DOMAIN Idle /\ x.beside = txn[s].beside /\ x.loaded = txn[s].loaded
        /\ x.jobs = txn[s].jobs /\ x.pc = "claim" /\ x.draft = txn[s].draft
    BY <1>1, <1>4 DEF LockNames, Sound, Idle
  <2> HIDE DEF x
  <2> QED
    BY <1>2, <1>3, <2>1
<1>5. CASE LockClaim(s)
  <2> DEFINE x == [txn[s] EXCEPT !.pc = "facts", !.locked = @ \cup ClaimLock(s)]
  <2>1. /\ Goes(s, x) \/ Flushes(s, x)
        /\ DOMAIN x = DOMAIN Idle /\ x.beside = txn[s].beside /\ x.loaded = txn[s].loaded
        /\ x.jobs = txn[s].jobs /\ x.pc = "facts" /\ x.draft = txn[s].draft
    BY <1>1, <1>5 DEF LockClaim, Sound, Idle
  <2> HIDE DEF x
  <2> QED
    BY <1>2, <1>3, <2>1
<1>6. CASE ReadFact(s)
  <2> DEFINE x == [txn[s] EXCEPT !.pc = "fact", !.found = At(View(s), Head(Batch(s).facts).key)]
  <2>1. /\ Goes(s, x) \/ Flushes(s, x)
        /\ DOMAIN x = DOMAIN Idle /\ x.beside = txn[s].beside /\ x.loaded = txn[s].loaded
        /\ x.jobs = txn[s].jobs /\ x.pc = "fact" /\ x.draft = txn[s].draft
    BY <1>1, <1>6 DEF ReadFact, Sound, Idle
  <2> HIDE DEF x
  <2> QED
    BY <1>2, <1>3, <2>1
<1>7. CASE Recount(s)
  <2> DEFINE x == [txn[s] EXCEPT !.pc = "filings"]
  <2>1. /\ Goes(s, x) \/ Flushes(s, x)
        /\ DOMAIN x = DOMAIN Idle /\ x.beside = txn[s].beside /\ x.loaded = txn[s].loaded
        /\ x.jobs = txn[s].jobs /\ x.pc = "filings" /\ x.draft = txn[s].draft
    BY <1>1, <1>7 DEF Recount, Sound, Idle
  <2> HIDE DEF x
  <2> QED
    BY <1>2, <1>3, <2>1
<1>8. CASE WriteFact(s)
  <2> DEFINE fact == Head(Batch(s).facts)
             next == [txn[s] EXCEPT !.pc = "facts", !.found = {}, !.batch.facts = Tail(@)]
             old == IF txn[s].found # {} THEN txn[s].found ELSE At(View(s), fact.key)
             value == IF old = {} THEN fact.value ELSE CHOOSE v \in {Merged(fact, o) : o \in old} : TRUE
             x == [next EXCEPT !.draft = Changing(@, fact.key, old, value)]
  <2>1. txn[s].pc = "fact" /\ (Goes(s, x) \/ Flushes(s, x))
    BY <1>8 DEF WriteFact
  <2>2. fact.key[1] \in {"document", "evidence"}
    BY <1>1, <2>1, FactsAreKnown DEF Sound, Batch
  <2> HIDE DEF old, value
  <2>3. /\ DOMAIN x = DOMAIN Idle /\ x.beside = txn[s].beside /\ x.loaded = txn[s].loaded
        /\ x.jobs = txn[s].jobs /\ x.pc = "facts" /\ x.draft = Changing(txn[s].draft, fact.key, old, value)
    BY <1>1 DEF Sound, Idle
  <2> HIDE DEF x, fact
  <2>4. SparesActivity(txn[s].draft, x.draft) /\ DOMAIN txn[s].draft \subseteq DOMAIN x.draft
    BY <2>2, <2>3, ChangingSparesActivity
  <2> QED
    BY <1>3, <2>1, <2>3, <2>4
<1>9. CASE UpsertFilings(s)
  <2> DEFINE new == {Filing(f) : f \in Batch(s).filings} \ DOMAIN View(s)
             added == Over([k \in new |-> Batch(s).company], txn[s].draft)
             x == [txn[s] EXCEPT !.pc = "commit", !.found = At(View(s), Profile(Batch(s).company)),
                                 !.draft = added]
  <2>1. /\ Goes(s, x) \/ Flushes(s, x)
        /\ DOMAIN x = DOMAIN Idle /\ x.beside = txn[s].beside /\ x.loaded = txn[s].loaded
        /\ x.jobs = txn[s].jobs /\ x.pc = "commit" /\ x.draft = added /\ txn[s].pc = "profile"
    BY <1>1, <1>9 DEF UpsertFilings, Sound, Idle
  <2>2. SparesActivity(txn[s].draft, added) /\ DOMAIN txn[s].draft \subseteq DOMAIN added
    BY OverSparesActivity DEF Filing
  <2> HIDE DEF x, added
  <2> QED
    BY <1>3, <2>1, <2>2
<1> QED
  BY <1>4, <1>5, <1>6, <1>7, <1>8, <1>9

\* A commit is beside every other open transaction.
LEMMA CommitCounts ==
  ASSUME Persisting, Dating, Counting, NEW s \in Sessions, Commit(s) PROVE Counting'
<1> DEFINE d == Over(Collected(s), txn[s].draft)
           done == [Idle EXCEPT !.pc = IF Batch(s).cached THEN "committed" ELSE "idle",
                                !.batch = [NoBatch EXCEPT !.company = Batch(s).company]]
<1>1. /\ rows' = Over(d, rows) /\ InTransaction(s)
      /\ txn' = [t \in Sessions |->
           IF t = s THEN done
           ELSE IF InTransaction(t) /\ Batch(t).names \cap Batch(s).names = {}
           THEN [txn[t] EXCEPT !.beside = @ \cup DOMAIN d]
           ELSE txn[t]]
  BY DEF Commit, InTransaction
<1>2. SparesActivity(txn[s].draft, d) /\ DOMAIN txn[s].draft \subseteq DOMAIN d
  BY OverSparesActivity, EmptyHas DEF Collected, Profile
<1>3. txn'[s].pc \in {"idle", "committed"} /\ DOMAIN txn'[s].draft = {} /\ DOMAIN txn'[s].loaded = {}
  BY <1>1, EmptyHas DEF Idle
<1> HIDE DEF d, done
<1>4. Paired(rows, d)
  BY <1>2, SparedStaysPaired DEF Counting
<1>5. \A k \in DOMAIN d : k[1] = "source" => k \notin DOMAIN rows
  BY <1>2 DEF SparesActivity, Persisting, Sound, SoundDraft
<1>6. /\ DOMAIN rows' = DOMAIN d \cup DOMAIN rows
      /\ \A k : k \notin DOMAIN d =>
           /\ k \in DOMAIN rows' <=> k \in DOMAIN rows
           /\ k \in DOMAIN rows => rows'[k] = rows[k]
  BY <1>1 DEF Over
<1>7. Paired(rows', rows')
  BY <1>4, <1>6 DEF Counting, Paired
<1>8. ASSUME NEW t \in Sessions \ {s}
      PROVE  /\ txn'[t].pc = txn[t].pc
             /\ ~InTransaction(t) => DOMAIN txn'[t].loaded = {}
             /\ Paired(rows', txn'[t].draft)
             /\ Fresh(rows', txn'[t])
             /\ Counted(rows', txn'[t])
  <2>1. Sound(t, txn[t])
    BY DEF Persisting
  <2>2. Paired(rows, txn[t].draft) /\ Fresh(rows, txn[t]) /\ Counted(rows, txn[t])
    BY DEF Counting
  <2>3. Paired(rows', txn[t].draft)
    BY <1>6, <2>2 DEF Paired
  <2>4. CASE ~InTransaction(t)
    <3>1. txn'[t] = txn[t] /\ DOMAIN txn[t].loaded = {} /\ txn[t].pc \notin {"profile", "commit"}
      BY <1>1, <2>4 DEF Counting, InTransaction
    <3> QED
      BY <2>3, <3>1 DEF Fresh, Counted
  <2>5. CASE InTransaction(t)
    <3>1. Batch(t).names \cap Batch(s).names = {}
      BY <1>1, <2>5 DEF Dating
    <3>2. /\ txn'[t].pc = txn[t].pc /\ txn'[t].draft = txn[t].draft /\ txn'[t].loaded = txn[t].loaded
          /\ txn'[t].jobs = txn[t].jobs /\ txn'[t].beside = txn[t].beside \cup DOMAIN d
      BY <1>1, <2>1, <2>5, <3>1 DEF Sound, Idle
    <3>3. Fresh(rows', txn'[t])
      BY <1>6, <2>2, <3>2 DEF Fresh
    <3>4. ASSUME NEW p, ~Passed(rows', txn'[t].beside, p)
          PROVE  /\ ~Passed(rows, txn[t].beside, p)
                 /\ Agrees(rows, txn[t].draft, p) => Agrees(rows', txn[t].draft, p)
      <4> DEFINE e == txn[t].draft
      <4>1. ~Passed(rows, txn[t].beside, p)
        BY <1>5, <1>6, <3>2, <3>4 DEF Passed
      <4>2. Active(p) \notin DOMAIN d
        BY <3>2, <3>4 DEF Passed
      <4>3. \A k \in DOMAIN rows' : k[1] = "source" /\ rows'[k] = p => Open(k[2]) \notin DOMAIN d
        BY <3>2, <3>4 DEF Passed
      <4>4. \A k \in DOMAIN d : k[1] = "source" => Open(k[2]) \in DOMAIN d
        BY <1>4 DEF Paired
      <4>5. \A k \in DOMAIN e : k[1] = "source" => Open(k[2]) \in DOMAIN e
        BY <2>2 DEF Paired
      <4>6. \A k \in DOMAIN rows : k[1] = "source" => Open(k[2]) \in DOMAIN rows
        BY DEF Counting, Paired
      <4> HIDE DEF e
      <4> DEFINE old == Over(e, rows)
                 new == Over(e, rows')
      <4>7. /\ DOMAIN old = DOMAIN e \cup DOMAIN rows
            /\ DOMAIN new = DOMAIN e \cup DOMAIN rows'
            /\ \A k \in DOMAIN old : old[k] = IF k \in DOMAIN e THEN e[k] ELSE rows[k]
            /\ \A k \in DOMAIN new : new[k] = IF k \in DOMAIN e THEN e[k] ELSE rows'[k]
        BY DEF Over
      <4> HIDE DEF old, new
      <4>8. \A k : k[1] = "source" =>
              (k \in DOMAIN old /\ old[k] = p <=> k \in DOMAIN new /\ new[k] = p)
        <5> TAKE k
        <5> HAVE k[1] = "source"
        <5>1. k \in DOMAIN rows /\ rows[k] = p <=> k \in DOMAIN rows' /\ rows'[k] = p
          <6>1. k \in DOMAIN rows => k \notin DOMAIN d
            BY <1>5
          <6>2. k \in DOMAIN rows' /\ rows'[k] = p => k \notin DOMAIN d
            BY <4>3, <4>4
          <6> QED
            BY <1>6, <6>1, <6>2
        <5> QED
          BY <4>7, <5>1
      <4>9. \A k \in DOMAIN new : k[1] = "source" /\ new[k] = p => old[Open(k[2])] = new[Open(k[2])]
        <5> SUFFICES ASSUME NEW k \in DOMAIN new, k[1] = "source", new[k] = p
                     PROVE  old[Open(k[2])] = new[Open(k[2])]
          OBVIOUS
        <5>1. CASE k \in DOMAIN e
          BY <4>5, <4>7, <5>1
        <5>2. CASE k \notin DOMAIN e
          <6>1. k \in DOMAIN rows' /\ rows'[k] = p
            BY <4>7, <5>2
          <6>2. Open(k[2]) \notin DOMAIN d /\ k \in DOMAIN rows
            BY <1>6, <4>3, <4>4, <6>1
          <6> QED
            BY <1>6, <4>6, <4>7, <6>2
        <5> QED
          BY <5>1, <5>2
      <4>10. Shows(old, p) = Shows(new, p)
        BY <4>8, <4>9 DEF Shows
      <4>11. ASSUME Agrees(rows, e, p) PROVE Agrees(rows', e, p)
        <5>1. Active(p) \in DOMAIN old /\ old[Active(p)] = Shows(old, p)
          BY <4>7, <4>11 DEF Agrees, old
        <5>2. Active(p) \in DOMAIN new /\ new[Active(p)] = old[Active(p)]
          BY <1>6, <4>2, <4>7, <5>1
        <5> QED
          BY <4>7, <4>10, <5>1, <5>2 DEF Agrees, new
      <4> QED
        BY <4>1, <4>11 DEF e
    <3>5. Counted(rows', txn'[t])
      BY <2>2, <3>2, <3>4 DEF Counted
    <3> QED
      BY <2>3, <2>5, <3>2, <3>3, <3>5
  <2> QED
    BY <2>4, <2>5
<1>9. Paired(rows', txn'[s].draft) /\ Fresh(rows', txn'[s]) /\ Counted(rows', txn'[s])
  BY <1>3 DEF Paired, Fresh, Counted
<1> QED
  BY <1>3, <1>7, <1>8, <1>9 DEF Counting, InTransaction

LEMMA InvalidateCounts ==
  ASSUME Persisting, Counting, NEW s \in Sessions, Invalidate(s) PROVE Counting'
<1>1. Sound(s, txn[s]) /\ ~InTransaction(s)
  BY DEF Persisting, Invalidate, Advance, Scan, Delete, InTransaction
<1>2. PICK pc, seen : Stage(s, pc, seen) /\ pc \in {"idle", "bumped", "scanned"}
  BY DEF Invalidate, Advance, Scan, Delete
<1>3. UNCHANGED <<rows, claim, commits, begun>>
  BY DEF Invalidate, Advance, Scan, Delete
<1>4. CASE pc = "idle"
  <2>1. \A t \in Sessions : txn'[t] = IF t = s THEN Idle ELSE txn[t]
    BY <1>2, <1>4 DEF Stage, Persisting
  <2>2. DOMAIN Idle.draft = {} /\ DOMAIN Idle.loaded = {} /\ Idle.pc = "idle"
    BY EmptyHas DEF Idle
  <2> QED
    BY <1>3, <2>1, <2>2, ResetCounts
<1>5. CASE pc # "idle"
  <2> DEFINE x == [txn[s] EXCEPT !.pc = pc, !.found = seen]
  <2>1. Goes(s, x)
    BY <1>2, <1>3, <1>5 DEF Stage, Goes
  <2>2. x.pc = pc /\ x.draft = txn[s].draft /\ x.loaded = txn[s].loaded /\ x.beside = txn[s].beside
        /\ x.jobs = txn[s].jobs
    BY <1>1 DEF Sound, Idle
  <2>3. SparesActivity(txn[s].draft, txn[s].draft)
    BY DEF SparesActivity
  <2> HIDE DEF x
  <2> QED
    BY <1>1, <1>2, <1>5, <2>1, <2>2, <2>3, SparingCounts
<1> QED
  BY <1>4, <1>5

LEMMA CountingHolds == Persisting /\ Dating /\ Counting /\ [Next]_vars => Counting'
<1> SUFFICES ASSUME Persisting, Dating, Counting, [Next]_vars PROVE Counting'
  OBVIOUS
<1>1. DOMAIN Idle.draft = {} /\ DOMAIN Idle.loaded = {} /\ Idle.pc = "idle"
  BY EmptyHas DEF Idle
<1>2. ASSUME NEW s \in Sessions, Statement(s) PROVE Counting'
  BY <1>2, ReadJobCounts, WriteJobCounts, CountActiveCounts, OthersCount, CommitCounts DEF Statement
<1>3. ASSUME NEW s \in Sessions, Begins(s) PROVE Counting'
  <2>1. PICK b : /\ rows' = rows
                 /\ txn' = [txn EXCEPT ![s] = [Idle EXCEPT !.pc = "names", !.batch = b]]
    BY <1>3 DEF Begins, Begin
  <2> DEFINE x == [Idle EXCEPT !.pc = "names", !.batch = b]
  <2>2. x.pc = "names" /\ DOMAIN x.draft = {} /\ DOMAIN x.loaded = {}
    BY EmptyHas DEF Idle
  <2>3. \A t \in Sessions : txn'[t] = IF t = s THEN x ELSE txn[t]
    BY <2>1 DEF Persisting
  <2> HIDE DEF x
  <2> QED
    BY <2>1, <2>2, <2>3, ResetCounts
<1>4. ASSUME NEW s \in Sessions, Abort(s) PROVE Counting'
  <2>1. rows' = rows /\ \A t \in Sessions : txn'[t] = IF t = s THEN Idle ELSE txn[t]
    BY <1>4 DEF Abort, Goes, Persisting
  <2> QED
    BY <1>1, <2>1, ResetCounts
<1>5. ASSUME NEW s \in Sessions, Invalidate(s) PROVE Counting'
  BY <1>5, InvalidateCounts
<1>6. ASSUME UNCHANGED <<rows, txn>> PROVE Counting'
  BY <1>6 DEF Counting, InTransaction
<1>7. ASSUME NEW s \in Sessions, Requeue(s) PROVE Counting'
  BY <1>6, <1>7 DEF Requeue
<1>8. ASSUME NEW r \in Readers, Ask(r) \/ Respond(r) PROVE Counting'
  <2>1. UNCHANGED dbVars
    BY <1>8 DEF dbVars, Ask, Respond, ReadVersion, CheckCompany, Get, Search, LoadDetail, ListJobs,
                Store, Answer, Found, NotFound, Reads
  <2> QED
    BY <1>6, <2>1 DEF dbVars
<1>9. CASE Expire
  BY <1>6, <1>9 DEF Expire
<1>10. CASE UNCHANGED vars
  BY <1>6, <1>10 DEF vars
<1> QED
  BY <1>2, <1>3, <1>4, <1>5, <1>7, <1>8, <1>9, <1>10 DEF Next

LEMMA InitCounts == QueriesInit => Counting
<1> SUFFICES ASSUME QueriesInit PROVE Counting
  OBVIOUS
<1>1. rows = Stored /\ \A s \in Sessions : txn[s] = Idle
  BY DEF QueriesInit, PersistenceInit
<1>2. Idle.pc = "idle" /\ DOMAIN Idle.draft = {} /\ DOMAIN Idle.loaded = {}
  BY EmptyHas DEF Idle
<1>3. Paired(rows, rows)
  BY <1>1, StoredAssumption DEF Paired
<1> QED
  BY <1>1, <1>2, <1>3 DEF Counting, Paired, Fresh, Counted

\* _upsert_jobs: a commit leaves each posting of its batch active
\* exactly when one of its sources is, but for what a session that shares no name
\* with this one has committed about it meanwhile.
THEOREM ActivityFollows == Spec => ActivityFollowsSources
<1> DEFINE Follows == \A s \in Sessions : Commits(s) =>
                        \A p \in txn[s].jobs : rows'[Active(p)] = Shown(p) \/ Meanwhile(s, p)
<1>1. IInv /\ Counting /\ [Next]_vars => Follows
  <2> SUFFICES ASSUME IInv, Counting, [Next]_vars, NEW s \in Sessions, Commits(s),
                      NEW p \in txn[s].jobs, ~Meanwhile(s, p)
               PROVE  rows'[Active(p)] = Shown(p)
    OBVIOUS
  <2>1. Commit(s)
    BY CommitsCommit
  <2>2. Agrees(rows, txn[s].draft, p)
    <3>1. txn[s].pc = "commit"
      BY DEF Commits
    <3>2. ~Passed(rows, txn[s].beside, p)
      BY DEF Passed, Meanwhile, Keys
    <3> QED
      BY <3>1, <3>2 DEF Counting, Counted
  <2> DEFINE d == Over(Collected(s), txn[s].draft)
  <2>3. SparesActivity(txn[s].draft, d)
    BY OverSparesActivity, EmptyHas DEF Collected, Profile
  <2>4. rows' = Over(d, rows)
    BY <2>1 DEF Commit
  <2> HIDE DEF d
  <2>5. Agrees(rows, d, p)
    BY <2>2, <2>3, SparedShowsTheSame DEF Counting
  <2>6. rows'[Active(p)] = Shows(rows', p)
    BY <2>4, <2>5 DEF Agrees
  <2>7. Shows(rows', p) = Shown(p)
    BY DEF Shows, Shown
  <2> QED
    BY <2>6, <2>7
<1>2. Spec => [](IInv /\ Dating /\ Counting)
  <2>1. IInv /\ Dating /\ Counting /\ [Next]_vars => (IInv /\ Dating /\ Counting)'
    BY StepIsSound, DatingHolds, CountingHolds DEF IInv
  <2> QED
    BY <2>1, InitIsSound, InitDates, InitCounts, PTL DEF Spec
<1>3. IInv /\ Counting /\ [Next]_vars => [Follows]_dbVars
  BY <1>1
<1> HIDE DEF Follows
<1>4. Spec => [][Follows]_dbVars
  BY <1>2, <1>3, PTL DEF Spec
<1> QED
  BY <1>4 DEF ActivityFollowsSources, Follows
=============================================================================
