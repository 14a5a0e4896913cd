---------------------------- MODULE CompanyQueries ----------------------------
(***************************************************************************)
(* The company queries and their Redis cache, next to the sessions that    *)
(* persist companies and invalidate the cache after their commit.  Every   *)
(* call of Redis may fail, before or after Redis has done it; a query      *)
(* takes that for a miss and an invalidation ends with it.                 *)
(*                                                                         *)
(* An answer is abstracted to the commits that its first database          *)
(* statement has seen.  There is one set of parameters.                    *)
(***************************************************************************)
EXTENDS CompanyPersistence

CONSTANTS
  Readers,      \* requests that may be answered at the same time
  Published,    \* companies of the current ranking; the others are not shown
  NoVersion,    \* the version of a list whose lookup failed
  Watched,      \* bound on the batches next to which requests are made
  MaxRequests,  \* bound on the requests
  MaxErrors     \* bound on the failing calls of Redis

ASSUME VersionsAssumption == NoVersion \notin Nat

VARIABLES
  version,   \* the version of the lists
  lists,     \* the cached lists, by version
  pages,     \* the cached details and job pages
  reader,    \* the request that each reader answers
  heard,     \* the commits there were when the version last advanced
  requests, errors

cacheVars == <<version, lists, pages, reader, heard, requests, errors>>
vars == <<rows, claim, txn, commits, begun, version, lists, pages, reader, heard, requests, errors>>

Pages == {"detail", "jobs"} \X Companies
List == <<"list">>

Nothing == [c \in Companies |-> 0]
NoRequest == [pc |-> "idle", asks |-> List, version |-> NoVersion, answer |-> Nothing, since |-> Nothing]

QueriesInit ==
  /\ PersistenceInit
  /\ version = 0 /\ lists = <<>> /\ pages = <<>> /\ heard = Nothing
  /\ reader = [r \in Readers |-> NoRequest]
  /\ requests \in {0, MaxRequests + 1} /\ errors = 0

\* Other batches than the watched ones are persisted in the behaviours that
\* make no request.
Begins(s) == Begin(s) /\ (requests <= MaxRequests => txn'[s].batch \in Watched)

Works == errors' = errors
Fails == errors < MaxErrors /\ errors' = errors + 1

-----------------------------------------------------------------------------
(* Invalidation: the version first, then the pages of the company; a key   *)
(* for jobs is deleted when the scan has seen it.                          *)

Stage(s, pc, seen) ==
  txn' = [txn EXCEPT ![s] = IF pc = "idle" THEN Idle ELSE [@ EXCEPT !.pc = pc, !.found = seen]]

Advance(s) ==
  /\ txn[s].pc = "committed"
  /\ \/ Works /\ Stage(s, "bumped", {}) /\ version' = version + 1 /\ heard' = commits
     \/ Fails /\ Stage(s, "idle", {}) /\ UNCHANGED <<version, heard>>
     \/ Fails /\ Stage(s, "idle", {}) /\ version' = version + 1 /\ heard' = commits
  /\ UNCHANGED <<rows, claim, commits, begun, lists, pages, reader, requests>>

Scan(s) ==
  /\ txn[s].pc = "bumped"
  /\ \/ Works /\ Stage(s, "scanned", {<<"jobs", Batch(s).company>>} \cap DOMAIN pages)
     \/ Fails /\ Stage(s, "idle", {})
  /\ UNCHANGED <<rows, claim, commits, begun, version, heard, lists, pages, reader, requests>>

FaultyDeleted(s) == txn[s].found
Deleted(s) == {<<"detail", Batch(s).company>>} \cup txn[s].found

Without(f, S) == [k \in DOMAIN f \ S |-> f[k]]

Delete(s) ==
  /\ txn[s].pc = "scanned" /\ Stage(s, "idle", {})
  /\ \/ (Works \/ Fails) /\ pages' = Without(pages, Deleted(s))
     \/ Fails /\ UNCHANGED pages
  /\ UNCHANGED <<rows, claim, commits, begun, version, heard, lists, reader, requests>>

-----------------------------------------------------------------------------
(* Queries.                                                                *)

Reads(r, x) ==
  /\ reader' = [reader EXCEPT ![r] = x]
  /\ UNCHANGED <<rows, claim, txn, commits, begun, version, lists, pages, heard>>

Ask(r) ==
  \E q \in {List} \cup Pages :
    /\ reader[r].pc = "idle" /\ requests < MaxRequests /\ requests' = requests + 1
    /\ Reads(r, [reader[r] EXCEPT !.pc = CASE q = List -> "version" [] q[1] = "detail" -> "get"
                                         [] OTHER -> "exists",
                                  !.asks = q, !.since = heard])
    /\ UNCHANGED errors

ReadVersion(r) ==
  /\ reader[r].pc = "version"
  /\ \/ Works /\ Reads(r, [reader[r] EXCEPT !.pc = "get", !.version = version])
     \/ Fails /\ Reads(r, [reader[r] EXCEPT !.pc = "query"])
  /\ UNCHANGED requests

\* What the cache has for the request: a list only at the version just read.
FaultyCached(r) ==
  IF reader[r].asks = List THEN {lists[v] : v \in DOMAIN lists} ELSE At(pages, reader[r].asks)
Cached(r) == IF reader[r].asks = List THEN At(lists, reader[r].version) ELSE At(pages, reader[r].asks)

Get(r) ==
  /\ reader[r].pc = "get"
  /\ \/ /\ Works
        /\ IF Cached(r) = {} THEN Reads(r, [reader[r] EXCEPT !.pc = "query"])
           ELSE \E value \in Cached(r) : Reads(r, [reader[r] EXCEPT !.pc = "answered", !.answer = value])
     \/ /\ Fails
        /\ Reads(r, [reader[r] EXCEPT !.pc = "query", !.version = NoVersion])
  /\ UNCHANGED requests

Found(r) == Reads(r, [reader[r] EXCEPT !.pc = "store", !.answer = commits])
NotFound(r) == Reads(r, NoRequest)

Search(r) ==
  /\ reader[r].pc = "query" /\ reader[r].asks = List
  /\ Found(r) /\ UNCHANGED <<requests, errors>>

LoadDetail(r) ==
  /\ reader[r].pc = "query" /\ reader[r].asks # List /\ reader[r].asks[1] = "detail"
  /\ IF reader[r].asks[2] \in Published THEN Found(r) ELSE NotFound(r)
  /\ UNCHANGED <<requests, errors>>

\* Whether the company is shown is asked of the database before the cache is.
CheckCompany(r) ==
  /\ reader[r].pc = "exists"
  /\ IF reader[r].asks[2] \in Published THEN Reads(r, [reader[r] EXCEPT !.pc = "get"]) ELSE NotFound(r)
  /\ UNCHANGED <<requests, errors>>

ListJobs(r) ==
  /\ reader[r].pc = "query" /\ reader[r].asks # List /\ reader[r].asks[1] = "jobs"
  /\ Found(r) /\ UNCHANGED <<requests, errors>>

\* A list is stored, by a script, only at the version that was read before
\* the database was.
FaultyListKey(r) == {version}
ListKey(r) == {reader[r].version} \cap {version}

Stores(r) ==
  /\ lists' = IF reader[r].asks = List THEN Over([v \in ListKey(r) |-> reader[r].answer], lists) ELSE lists
  /\ pages' = IF reader[r].asks = List THEN pages ELSE With(pages, reader[r].asks, reader[r].answer)

Store(r) ==
  /\ reader[r].pc = "store"
  /\ reader' = [reader EXCEPT ![r].pc = "answered"]
  /\ \/ (Works \/ Fails) /\ Stores(r)
     \/ Fails /\ UNCHANGED <<lists, pages>>
  /\ UNCHANGED <<rows, claim, txn, commits, begun, version, heard, requests>>

Answer(r) ==
  /\ reader[r].pc = "answered"
  /\ Reads(r, NoRequest)
  /\ UNCHANGED <<requests, errors>>

\* Lists live for a minute and pages for five; Redis drops them in any order.
FaultyExpiring == {}
Expiring == DOMAIN pages
Expire ==
  /\ \/ lists # <<>> /\ lists' = <<>> /\ UNCHANGED pages
     \/ \E k \in Expiring : pages' = Without(pages, {k}) /\ UNCHANGED lists
  /\ UNCHANGED <<rows, claim, txn, commits, begun, version, heard, reader, requests, errors>>

Invalidate(s) == Advance(s) \/ Scan(s) \/ Delete(s)
Respond(r) == ReadVersion(r) \/ CheckCompany(r) \/ Get(r) \/ Search(r) \/ LoadDetail(r)
              \/ ListJobs(r) \/ Store(r) \/ Answer(r)

Next ==
  \/ \E s \in Sessions : (Begins(s) \/ Statement(s) \/ Abort(s) \/ Requeue(s)) /\ UNCHANGED cacheVars
  \/ \E s \in Sessions : Invalidate(s)
  \/ \E r \in Readers : Ask(r) \/ Respond(r)
  \/ Expire

\* Statements and calls of Redis come to an end, requests are answered, and
\* every entry has a time to live.
Fairness ==
  /\ \A s \in Sessions : WF_vars((Statement(s) \/ Abort(s)) /\ UNCHANGED cacheVars)
                         /\ WF_vars(Invalidate(s))
  /\ \A r \in Readers : WF_vars(Respond(r))
  /\ WF_vars(Expire)

Spec == QueriesInit /\ [][Next]_vars
FairSpec == Spec /\ Fairness

-----------------------------------------------------------------------------
(* Properties.                                                             *)

\* Each cached list is of a version that was reached, and what is cached or
\* answered is something the database has been.
TypeOK ==
  /\ PersistenceTypeOK
  /\ DOMAIN lists \subseteq 0 .. version /\ DOMAIN pages \subseteq Pages
  /\ \A v \in DOMAIN lists : \A c \in Companies : lists[v][c] <= commits[c]
  /\ \A k \in DOMAIN pages : \A c \in Companies : pages[k][c] <= commits[c]

\* A search that begins after a collection has been persisted and the version
\* has advanced shows it, from the cache or not, whatever readers and other
\* collections do meanwhile and whichever calls of Redis fail.
SearchesFollowInvalidation ==
  \A r \in Readers : reader[r].pc = "answered" /\ reader[r].asks = List =>
    \A c \in Companies : reader[r].answer[c] >= reader[r].since[c]

\* When collections and requests come to an end, the cache agrees with the
\* database or is empty: a page stored by a request that was overtaken by an
\* invalidation, or left by one that failed, does not stay.
CacheCatchesUp ==
  <>[](/\ \A v \in DOMAIN lists \cap {version} : lists[v] = commits
       /\ \A k \in DOMAIN pages : pages[k][k[2]] = commits[k[2]])

\* Refuted under the constants of MCCompanyQueries.cfg: a page that a request read before a
\* commit and stored after the deletion is served until it expires.
PagesFollowInvalidation ==
  \A k \in DOMAIN pages : (\A s \in Sessions : txn[s].pc \in {"idle", "names"}) /\ errors = 0 =>
    pages[k][k[2]] >= heard[k[2]]
=============================================================================
