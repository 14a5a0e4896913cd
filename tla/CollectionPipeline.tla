--------------------------- MODULE CollectionPipeline ---------------------------
(***************************************************************************)
(* What an ingestion run does between its claim and its end: the searches  *)
(* for the ATS pages of a company, the pages, and the status of the run.   *)
(*                                                                         *)
(* Every search passes the gate of its provider, which the runs of a       *)
(* process share: a semaphore, awaited in a thread of the run's executor,  *)
(* and a rate that is kept by sleeping inside the slot.  The site: queries *)
(* of entry discovery are made at once, all other searches one by one.     *)
(***************************************************************************)
EXTENDS Integers, Sequences, FiniteSets, Functions

CONSTANTS
  Collected,       \* the runs a worker process collects at a time
  Deployments,     \* the providers that are enabled and the runs that there are
  SiteQueries,     \* the queries for pages of a run's company: a name and a site each
  Finds,           \* what a search for it may find: sets of pages
  Registration,    \* what a register of companies has: it names no page
  Urls, Platforms, PlatformOf,  \* the ATS pages and who runs them
  Companies,       \* whom the name of a request may be found to mean
  MaxConcurrency,  \* PROVIDER_MAX_CONCURRENCY
  Interval,        \* PROVIDER_MIN_INTERVAL_SECONDS
  SiteLimit,       \* semaphore_site of EntryDiscoveryService
  Threads,         \* of the executor of a run
  MaxAttempts,     \* of a command of the Tianyancha CLI
  BlockThreshold   \* platform_block_threshold of AtsProvider

Discovery == <<"ymicp", "tianyancha", "zhihu", "serper">>
Providers == Range(Discovery) \cup {"ats"}

ASSUME DeploymentsAssumption == Deployments \subseteq [enabled : SUBSET Providers \ {{}}, runs : SUBSET Collected]
ASSUME PlatformAssumption == PlatformOf \in [Urls -> Platforms]
ASSUME LimitsAssumption ==
  /\ {MaxConcurrency, SiteLimit, Threads, MaxAttempts, BlockThreshold} \subseteq Nat \ {0}
  /\ Interval \in Nat
\* What a search finds: a page, whether an ATS runs it, and how it names the company.
Doc == [url : Urls, ats : BOOLEAN, mention : BOOLEAN, title : BOOLEAN, similarity : {0, 78, 92, 100}]
AllQueries == UNION Range(SiteQueries)
AllDocs == {Registration} \cup UNION UNION Range(Finds)

ASSUME DocsAssumption ==
  /\ DOMAIN SiteQueries = Collected /\ DOMAIN Finds = Collected
  /\ AllDocs \cap Urls = {}
  /\ \A r \in Collected : {} \in Finds[r] /\ UNION Finds[r] \subseteq Doc

VARIABLES
  enabled,  \* the providers of the deployment
  gates,    \* the time until a gate allows the next start
  run,      \* the orchestrator of each run
  calls     \* its searches under way, with the name, the query or the page that is asked for

pipelineVars == <<enabled, gates, run, calls>>

Issues == {"none", "blocked", "error"}
NoOutcome == [docs |-> {}, issue |-> "none"]

Fresh == [pc |-> "discovery", todo |-> <<>>, left |-> {}, outcomes |-> [p \in Providers |-> NoOutcome],
          entries |-> {}, page |-> {}, saved |-> {}, blocks |-> [f \in Platforms |-> 0], status |-> "running",
          told |-> FALSE, heard |-> {}, asked |-> {}, spent |-> 0]

Ids == (Range(Discovery) \X {"name"}) \cup ({"serper", "zhihu"} \X AllQueries) \cup ({"ats"} \X Urls)
Calls == [st : {"queued", "blocked", "granted", "calling", "connected"}, wait : Nat, tries : 0 .. MaxAttempts]

PipelineTypeOK ==
  /\ enabled \in {d.enabled : d \in Deployments}
  /\ gates \in [Providers -> Nat]
  /\ \A r \in Collected :
       /\ run[r] \in [pc : {"discovery", "queries", "pages", "persist", "done"}, todo : Seq(Providers),
                      left : SUBSET (AllQueries \cup Urls), outcomes : [Providers -> [docs : SUBSET (AllDocs \cup Urls), issue : Issues]],
                      entries : SUBSET AllDocs, page : SUBSET Urls, saved : SUBSET (Urls \X Companies),
                      blocks : [Platforms -> 0 .. BlockThreshold],
                      status : {"absent", "running", "succeeded", "partial", "failed", "raised", "retry"},
                      told : BOOLEAN, heard : SUBSET (AllDocs \cup Urls), asked : SUBSET Urls, spent : 0 .. MaxAttempts]
       /\ DOMAIN calls[r] \subseteq Ids /\ Range(calls[r]) \subseteq Calls

Offered(p) == IF p \in enabled THEN <<p>> ELSE <<>>
Listed == IF "serper" \in enabled THEN <<"serper">>
          ELSE Offered("ymicp") \o Offered("tianyancha") \o Offered("zhihu")

PipelineInit ==
  \E d \in Deployments :
    /\ enabled = d.enabled
    /\ gates = [p \in Providers |-> 0]
    /\ run = [r \in Collected |->
         IF r \in d.runs THEN [Fresh EXCEPT !.todo = Listed] ELSE [Fresh EXCEPT !.pc = "done", !.status = "absent"]]
    /\ calls = [r \in Collected |-> <<>>]

At(r, pc) == run[r].pc = pc
Waits(r) == DOMAIN calls[r] = {}
Becomes(r, x) == run' = [run EXCEPT ![r] = x]
Set(r, c, x) == calls' = [calls EXCEPT ![r] = [i \in DOMAIN @ \cup {c} |-> IF i = c THEN x ELSE @[i]]]
Closed(r, c) == calls' = [calls EXCEPT ![r] = Restrict(@, DOMAIN @ \ {c})]
Ask(r, c) == Set(r, c, [st |-> "queued", wait |-> 0, tries |-> 0])
Ends(r, status) == Becomes(r, [run[r] EXCEPT !.pc = "done", !.status = status])

-----------------------------------------------------------------------------
(* provider_slot.                                                          *)

Blocked(r) == Cardinality({c \in DOMAIN calls[r] : calls[r][c].st = "blocked"})
Inside(p) == {x \in Collected \X Ids :
                /\ x[2][1] = p /\ x[2] \in DOMAIN calls[x[1]]
                /\ calls[x[1]][x[2]].st \in {"granted", "calling", "connected"}}
FaultySlotFree(r, p) == Cardinality({x \in Inside(p) : x[1] = r}) < MaxConcurrency
SlotFree(r, p) == Cardinality(Inside(p)) < MaxConcurrency

\* asyncio.to_thread(semaphore.acquire): the thread is taken until the slot is had.
TakeThread(r, c) ==
  /\ calls[r][c].st = "queued" /\ Blocked(r) < Threads
  /\ Set(r, c, [calls[r][c] EXCEPT !.st = "blocked"])
  /\ UNCHANGED <<enabled, gates, run>>

\* Under the lock of the rate, a start is reserved after those before it.
FaultyReserved(p) == Interval
Reserved(p) == gates[p] + Interval

Acquire(r, c) ==
  /\ calls[r][c].st = "blocked" /\ SlotFree(r, c[1])
  /\ Set(r, c, [calls[r][c] EXCEPT !.st = "granted", !.wait = gates[c[1]]])
  /\ gates' = [gates EXCEPT ![c[1]] = Reserved(c[1])]
  /\ UNCHANGED <<enabled, run>>

Start(r, c) ==
  /\ calls[r][c].st = "granted" /\ calls[r][c].wait = 0
  /\ Set(r, c, [calls[r][c] EXCEPT !.st = "calling"])
  /\ run' = IF c[1] = "ats" THEN [run EXCEPT ![r].asked = @ \cup {c[2]}] ELSE run
  /\ UNCHANGED <<enabled, gates>>

\* The address of the service is looked up in a thread of the same executor.
Connect(r, c) ==
  /\ calls[r][c].st = "calling" /\ Blocked(r) < Threads
  /\ Set(r, c, [calls[r][c] EXCEPT !.st = "connected"])
  /\ UNCHANGED <<enabled, gates, run>>

Sleeping == \E r \in Collected : \E c \in DOMAIN calls[r] : calls[r][c].wait > 0
Earlier(t) == IF t > 0 THEN t - 1 ELSE 0

Tick ==
  /\ Sleeping \/ \E p \in Providers : gates[p] > 0
  /\ gates' = [p \in Providers |-> Earlier(gates[p])]
  /\ calls' = [r \in Collected |-> [c \in DOMAIN calls[r] |-> [calls[r][c] EXCEPT !.wait = Earlier(@)]]]
  /\ UNCHANGED <<enabled, run>>

-----------------------------------------------------------------------------
(* What a search comes to.  The slot is given back whether it has an       *)
(* answer or raises.                                                       *)

FaultyMerged(old, new) == [docs |-> old.docs \cup new.docs, issue |-> new.issue]
Merged(old, new) == [docs |-> old.docs \cup new.docs, issue |-> IF old.issue = "none" THEN new.issue ELSE old.issue]

Found(r, p, answer) ==
  [run[r] EXCEPT !.outcomes[p] = Merged(@, answer), !.told = @ \/ answer.issue # "none",
          !.heard = @ \cup answer.docs]

\* A page of an ATS, or a platform that rests after it has blocked too often.
AtsAnswers(r, u) ==
  IF run[r].blocks[PlatformOf[u]] >= BlockThreshold THEN {[docs |-> {}, issue |-> "blocked"]}
  ELSE [docs : {{u}}, issue : Issues] \cup {[docs |-> {}, issue |-> "error"]}

FaultyBlocking(r, u, answer, jobs) ==
  IF answer.issue = "blocked" THEN run[r].blocks[PlatformOf[u]] + 1
  ELSE IF jobs THEN 0 ELSE run[r].blocks[PlatformOf[u]]
Blocking(r, u, answer, jobs) ==
  IF answer.issue = "blocked" /\ answer.docs # {} THEN run[r].blocks[PlatformOf[u]] + 1
  ELSE IF jobs THEN 0 ELSE run[r].blocks[PlatformOf[u]]

PageAnswer(r, c) ==
  /\ c[1] = "ats" /\ calls[r][c].st = "connected"
  /\ \E answer \in AtsAnswers(r, c[2]), jobs \in BOOLEAN :
    /\ jobs => answer.docs # {} /\ answer.issue # "blocked"
    /\ Becomes(r, [Found(r, "ats", answer) EXCEPT
         !.blocks[PlatformOf[c[2]]] = Blocking(r, c[2], answer, jobs),
         !.pc = IF answer.docs # {} /\ answer.issue = "none" THEN "persist" ELSE @,
         !.page = {c[2]}])
    /\ Closed(r, c)
    /\ UNCHANGED <<enabled, gates>>

Answer(r, c) ==
  \E docs \in IF c[1] = "ymicp" THEN SUBSET {Registration} ELSE Finds[r], issue \in {"none", "error"} :
    /\ c[1] \in {"ymicp", "zhihu", "serper"} /\ calls[r][c].st = "connected"
    /\ issue = "error" => docs = {}
    /\ LET answer == [docs |-> docs, issue |-> issue] IN
       /\ Closed(r, c)
       /\ Becomes(r, IF c[1] = "serper" /\ c[2] \in AllQueries
            THEN [run[r] EXCEPT !.entries = @ \cup docs] ELSE Found(r, c[1], answer))
    /\ UNCHANGED <<enabled, gates>>

\* Every thread waits for a slot, so the lookup times out.
FaultyStarve(r, c) == FALSE
Starve(r, c) ==
  LET answer == [docs |-> {}, issue |-> "error"] IN
  /\ calls[r][c].st = "calling" /\ Blocked(r) = Threads
  /\ Closed(r, c)
  /\ run' = IF c[2] \in AllQueries THEN run ELSE [run EXCEPT ![r] = Found(r, c[1], answer)]
  /\ UNCHANGED <<enabled, gates>>

\* Inside one search the command is run up to MaxAttempts times.  The budget
\* is never reached: it is at least one, and each orchestrator makes a provider
\* of its own and one search with it.
CliFails(r, c) ==
  /\ c[1] = "tianyancha" /\ calls[r][c].st = "connected" /\ calls[r][c].tries + 1 < MaxAttempts
  /\ Set(r, c, [calls[r][c] EXCEPT !.tries = @ + 1])
  /\ run' = [run EXCEPT ![r].spent = @ + 1]
  /\ UNCHANGED <<enabled, gates>>

CliEnds(r, c) ==
  \E answer \in [docs : SUBSET {Registration}, issue : {"none", "error"}] :
    /\ c[1] = "tianyancha" /\ calls[r][c].st = "connected"
    /\ answer.issue = "error" <=> answer.docs = {}
    /\ Becomes(r, [Found(r, "tianyancha", answer) EXCEPT !.spent = @ + 1])
    /\ Closed(r, c)
    /\ UNCHANGED <<enabled, gates>>

-----------------------------------------------------------------------------
(* IngestionOrchestrator.run.                                              *)

SearchName(r) ==
  /\ At(r, "discovery") /\ Waits(r) /\ run[r].todo # <<>>
  /\ Ask(r, <<Head(run[r].todo), "name">>)
  /\ Becomes(r, [run[r] EXCEPT !.todo = Tail(@)])
  /\ UNCHANGED <<enabled, gates>>

StartQueries(r) ==
  /\ At(r, "discovery") /\ Waits(r) /\ run[r].todo = <<>>
  /\ Becomes(r, [run[r] EXCEPT !.pc = "queries", !.left = IF enabled \cap {"serper", "zhihu"} = {} THEN {} ELSE SiteQueries[r]])
  /\ UNCHANGED <<enabled, gates, calls>>

\* Entry discovery makes all its queries at once, up to SiteLimit of them;
\* without Serper the orchestrator makes them one after another with Zhihu.
SiteQuery(r) ==
  \E q \in run[r].left :
    /\ At(r, "queries")
    /\ IF "serper" \in enabled
       THEN Cardinality(DOMAIN calls[r]) < SiteLimit /\ Ask(r, <<"serper", q>>)
       ELSE Waits(r) /\ Ask(r, <<"zhihu", q>>)
    /\ Becomes(r, [run[r] EXCEPT !.left = @ \ {q}])
    /\ UNCHANGED <<enabled, gates>>

\* validate_entry_candidate, in hundredths, for a pool of names without domains.
Score(d) ==
  (IF d.mention THEN 25 ELSE 0)
    + (CASE d.similarity = 100 -> 30 [] d.similarity = 92 -> 22 [] d.similarity = 78 -> 10 [] OTHER -> 0)
    + (IF d.ats THEN 5 ELSE 0)
FaultyConfidence(d) == IF d.similarity = 92 THEN Score(d) + 8 ELSE Score(d)
Confidence(d) == IF d.ats /\ ~(d.title \/ d.similarity >= 92) /\ Score(d) > 59 THEN 59 ELSE Score(d)

HighConfidence(r) == {d \in run[r].entries : Confidence(d) >= 60}
Documents(r) == UNION {run[r].outcomes[p].docs : p \in Providers \ {"ats"}}
FaultyScanned(r) == Documents(r) \ {Registration}
Scanned(r) == {d \in Documents(r) \ {Registration} : d.mention \/ d.title}
CareerUrls(r) == {d.url : d \in HighConfidence(r) \cup Scanned(r)}

EndQueries(r) ==
  /\ At(r, "queries") /\ Waits(r) /\ run[r].left = {}
  /\ IF CareerUrls(r) = {} THEN Ends(r, "failed")
     ELSE Becomes(r, [run[r] EXCEPT !.pc = "pages", !.left = CareerUrls(r)])
  /\ UNCHANGED <<enabled, gates, calls>>

\* Without the ATS provider a page has no outcome and is passed over.
VisitPage(r) ==
  \E u \in run[r].left :
    /\ At(r, "pages") /\ Waits(r)
    /\ IF "ats" \in enabled THEN Ask(r, <<"ats", u>>) ELSE UNCHANGED calls
    /\ Becomes(r, [run[r] EXCEPT !.left = @ \ {u}])
    /\ UNCHANGED <<enabled, gates>>

\* DirectAtsPersistence.persist commits the page for the company of that name,
\* if there is one, and then tells the cache.
Persist(r) ==
  \E company \in SUBSET Companies :
    /\ At(r, "persist") /\ Cardinality(company) <= 1
    /\ Becomes(r, [run[r] EXCEPT !.pc = "pages", !.saved = @ \cup (run[r].page \X company)])
    /\ UNCHANGED <<enabled, gates, calls>>

\* The database fails and the delivery is retried, or another error ends the run.
PersistRaises(r) ==
  \E status \in {"raised", "retry"} :
    At(r, "persist") /\ Ends(r, status) /\ UNCHANGED <<enabled, gates, calls>>

ProviderError(r) == \E p \in Providers : run[r].outcomes[p].issue # "none"
Status(r) ==
  IF run[r].saved = {} THEN "failed"
  ELSE IF Cardinality({x[2] : x \in run[r].saved}) > 1 THEN "raised"
  ELSE IF ProviderError(r) THEN "partial" ELSE "succeeded"

FinishRun(r) ==
  /\ At(r, "pages") /\ Waits(r) /\ run[r].left = {}
  /\ Ends(r, Status(r))
  /\ UNCHANGED <<enabled, gates, calls>>

-----------------------------------------------------------------------------
Call(r) ==
  \E c \in DOMAIN calls[r] :
    \/ TakeThread(r, c) \/ Acquire(r, c) \/ Start(r, c) \/ Connect(r, c)
    \/ PageAnswer(r, c) \/ Answer(r, c) \/ Starve(r, c) \/ CliFails(r, c) \/ CliEnds(r, c)

Step(r) ==
  \/ SearchName(r) \/ StartQueries(r) \/ SiteQuery(r) \/ EndQueries(r) \/ VisitPage(r)
  \/ Persist(r) \/ PersistRaises(r) \/ FinishRun(r)

PipelineNext == Tick \/ \E r \in Collected : Call(r) \/ Step(r)

PipelineSpec == PipelineInit /\ [][PipelineNext]_pipelineVars

\* Time passes, every call of a service has a timeout, and the loop of a run
\* goes on while one of its steps can be taken.
FairPipelineSpec ==
  /\ PipelineSpec /\ WF_pipelineVars(Tick)
  /\ \A r \in Collected : WF_pipelineVars(Call(r)) /\ WF_pipelineVars(Step(r))

-----------------------------------------------------------------------------
\* README.md:221: the gate of a provider is shared by all that search with it,
\* whichever run they belong to.
SlotsAreShared == \A p \in Providers : Cardinality(Inside(p)) <= MaxConcurrency

\* Searches that sleep in one gate wake Interval apart, whatever slots were
\* given back since their starts were reserved.
StartsKeepApart ==
  \A p \in Providers : \A x, y \in Inside(p) :
    LET w(z) == calls[z[1]][z[2]].wait IN
    x # y /\ w(x) > 0 /\ w(y) > 0 => w(x) - w(y) >= Interval \/ w(y) - w(x) >= Interval

\* A run succeeds only if it saved a page and no listed provider complained,
\* early or late, and is partial only if one did; it does not fail with pages
\* saved unless it raised.  The failures of site: queries do not count.
StatusTellsOutcome ==
  \A r \in Collected :
    /\ run[r].status = "succeeded" => run[r].saved # {} /\ ~run[r].told
    /\ run[r].status = "partial" => run[r].saved # {} /\ run[r].told
    /\ run[r].status = "failed" => run[r].saved = {}

\* A page that names the company, found by a listed search, or an ATS page
\* that names it in full, found by a site: query, has been asked for when the
\* run ends, whatever failed in between, and no other page is.
Named(r) ==
  {d.url : d \in {e \in run[r].heard \ (Urls \cup {Registration}) : e.mention \/ e.title}
               \cup {e \in run[r].entries : e.ats /\ e.mention /\ e.similarity = 100}}
NamedPagesAreAsked ==
  \A r \in Collected :
    /\ run[r].asked \subseteq Named(r)
    /\ run[r].status \in {"succeeded", "partial", "failed"} /\ "ats" \in enabled => run[r].asked = Named(r)

\* Every run comes to an end, whatever fails and with however few threads.
RunsFinish == \A r \in Collected : <>(run[r].status # "running")

\* tianyancha.py:24: a search spends one call of the quota of the CLI.
QuotaSpentOnce == \A r \in Collected : run[r].spent <= 1

\* A run that ends as failed has left nothing in the tables.
FailedRunsSaveNothing == \A r \in Collected : run[r].status \in {"failed", "raised"} => run[r].saved = {}

\* While the services answer, so do searches (service.py:66: site: queries can
\* be made many at a time): none fails for want of a thread.
SearchesAreNotStarved == [][\A r \in Collected : \A c \in DOMAIN calls[r] : ~Starve(r, c)]_pipelineVars
=============================================================================
