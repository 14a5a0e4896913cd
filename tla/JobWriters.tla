------------------------------ MODULE JobWriters ------------------------------
(***************************************************************************)
(* The writers of job rows around the coverage service: the JobHunt        *)
(* enumeration task, which commits the rows it saw and then records the    *)
(* snapshot in a second transaction, and the direct ATS write of a         *)
(* collection run, which does both in one transaction of its own and does  *)
(* not go through the coverage service.  JobLifecycle gives the tables,    *)
(* the coverage service and the daily expiration.                          *)
(*                                                                         *)
(* One company.  Enumerated and AtsSources are the sources of the two      *)
(* writers, which never share one: a source is named by its provider.  The *)
(* entry that an enumeration files under is the company's primary entry,   *)
(* which entry verification and the ATS write choose, or else ListEntry.   *)
(***************************************************************************)
EXTENDS JobLifecycle

CONSTANTS
  Workers,     \* processes that run enumeration tasks
  Enumerated,  \* the sources a JobHunt site may list
  AtsSources,  \* the sources an ATS page may list
  ListEntry,   \* the entry at the root of the site the listed jobs are on
  AtsEntries,  \* the entries of ATS pages
  PageEntries, \* the entries that entry verification may find
  Outcomes,    \* whether a listing comes back complete: TRUE, FALSE or both
  Freshness,   \* age, in ticks, up to which a complete snapshot is fresh
  MaxDeaths    \* bound on the worker deaths

ASSUME WritersAssumption ==
  /\ Enumerated \cap AtsSources = {} /\ Enumerated \cup AtsSources = Sources
  /\ Runs # {}
  /\ ListEntry \in Entries /\ AtsEntries \subseteq Entries /\ PageEntries \subseteq Entries
  /\ Outcomes \subseteq BOOLEAN
  /\ Freshness \in Nat /\ MaxDeaths \in Nat

VARIABLES
  workers,  \* what each enumeration task knows
  creator,  \* the writer that inserted each entry
  primary,  \* the primary entry of the company
  deaths    \* worker deaths so far

writerVars == <<workers, creator, primary, deaths>>
vars == <<lifecycleVars, writerVars>>

Idle == [pc |-> "idle", run |-> CHOOSE r \in Runs : TRUE, jobs |-> {}, complete |-> FALSE,
         entry |-> NoEntry, observed |-> Never, completed |-> Never,
         held |-> NoPosting, loaded |-> "absent"]

\* held is the posting whose row object the task still refers to, and loaded
\* the activity it read.
Worker == [pc : {"idle", "listed", "saved"}, run : Runs, jobs : SUBSET Sources,
           complete : BOOLEAN, entry : Entries \cup {NoEntry}, observed : Nat, completed : Nat,
           held : Postings \cup {NoPosting}, loaded : {"absent", "active", "inactive"}]

Creator == {"nobody", "jobhunt", "other"}

-----------------------------------------------------------------------------
(* A name that starts with Faulty is a deliberate defect: no action uses   *)
(* it, and the mutation runs put it in the place of the definition that    *)
(* follows.                                                                *)

Exists(s) == sources[s].posting # NoPosting

NoRow == [posting |-> NoPosting, entry |-> NoEntry, active |-> FALSE, managed |-> FALSE,
          missing |-> 0, seen |-> Never]

\* No source has been seen yet.
WritersInit ==
  /\ now = 1
  /\ sources = [s \in Sources |-> NoRow]
  /\ postings = [p \in Postings |-> "absent"]
  /\ entries = [e \in Entries |-> [status |-> "unknown", failures |-> 0,
                                   checked |-> Never, success |-> Never]]
  /\ snapshots = {}
  /\ workers = [w \in Workers |-> Idle]
  /\ creator = [e \in Entries |-> "nobody"]
  /\ primary = NoEntry
  /\ deaths = 0

NewRow(p, e, t) == [posting |-> p, entry |-> e, active |-> TRUE, managed |-> FALSE,
                    missing |-> 0, seen |-> t]

\* A posting is looked up by title and city and inserted, active, when absent;
\* a posting that is there keeps its activity.
WithPostings(ps) == [p \in Postings |-> IF p \in ps /\ postings[p] = "absent"
                                        THEN "active" ELSE postings[p]]

-----------------------------------------------------------------------------
(* The enumeration task.                                                   *)

FaultyFresh == \E n \in snapshots : CompleteList(n.command) /\ n.command.completed + Freshness > now
Fresh == \E n \in snapshots : CompleteList(n.command) /\ n.command.completed + Freshness >= now

\* enumerate_if_stale: the company is due, and the site lists these jobs.  A
\* listing that failed as a whole ends the task, so it takes no step.
StartEnumeration(w) ==
  /\ workers[w].pc = "idle"
  /\ ~Fresh
  /\ \E r \in Runs, jobs \in SUBSET Enumerated, complete \in Outcomes :
       workers' = [workers EXCEPT ![w] = [Idle EXCEPT !.pc = "listed", !.run = r, !.jobs = jobs,
                                            !.complete = complete, !.observed = now]]
  /\ UNCHANGED <<lifecycleVars, creator, primary, deaths>>

EntryFor == IF primary = NoEntry THEN ListEntry ELSE primary

\* Without a primary entry the URL of the entry is taken from the first job;
\* an entry that another writer inserted is a provenance conflict.
Fileable(jobs) == /\ primary # NoEntry \/ jobs # {}
                  /\ creator[EntryFor] # "other"

SeenAgain(source, t) ==
  [source EXCEPT !.entry = EntryFor, !.active = TRUE, !.seen = IF t > @ THEN t ELSE @]

\* The task keeps the row of the last job it handled; its session does not
\* expire rows on commit.
Held(w, rows, shown) ==
  \/ /\ workers[w].jobs = {}
     /\ workers' = [workers EXCEPT ![w].pc = "saved", ![w].entry = EntryFor, ![w].completed = now]
  \/ \E last \in workers[w].jobs :
       workers' = [workers EXCEPT ![w].pc = "saved", ![w].entry = EntryFor, ![w].completed = now,
                                  ![w].held = rows[last].posting,
                                  ![w].loaded = shown[rows[last].posting]]

\* The first transaction of persist.
SaveRows(w) ==
  LET jobs == workers[w].jobs
  IN  /\ workers[w].pc = "listed"
      /\ Fileable(jobs)
      /\ sources' = [s \in Sources |->
                       IF s \notin jobs THEN sources[s]
                       ELSE IF Exists(s) THEN SeenAgain(sources[s], workers[w].observed)
                       ELSE NewRow(Home[s].posting, EntryFor, workers[w].observed)]
      /\ postings' = WithPostings({Home[s].posting : s \in {j \in jobs : ~Exists(j)}})
      /\ creator' = [creator EXCEPT ![EntryFor] = "jobhunt"]
      /\ Held(w, sources', postings')
      /\ UNCHANGED <<now, entries, snapshots, primary, deaths>>

\* There is no entry to file under: the listing is dropped.
DropList(w) ==
  /\ workers[w].pc = "listed"
  /\ ~Fileable(workers[w].jobs)
  /\ workers' = [workers EXCEPT ![w] = Idle]
  /\ UNCHANGED <<lifecycleVars, creator, primary, deaths>>

ListCommand(worker) ==
  [entry |-> worker.entry, run |-> worker.run, complete |-> worker.complete,
   status |-> IF worker.complete THEN "succeeded" ELSE "partial",
   seen |-> worker.jobs, completed |-> worker.completed]

\* The session writes a column only when its value is not the one it loaded.
Flushed(worker, shown) ==
  [p \in Postings |-> IF p = worker.held /\ shown[p] = worker.loaded THEN postings[p] ELSE shown[p]]

RecordThroughSession(worker, c) ==
  /\ RecordHealth(c)
  /\ Applies(c)
  /\ sources' = AfterList(c)
  /\ postings' = Flushed(worker, Recomputed(sources', Affected(SourcesOf(c.entry))))
  /\ UNCHANGED now

\* The second transaction of persist.
RecordList(w) ==
  /\ workers[w].pc = "saved"
  /\ LET c == ListCommand(workers[w])
     IN  RecordDelayed(c) \/ RecordIncomplete(c) \/ RecordThroughSession(workers[w], c)
  /\ workers' = [workers EXCEPT ![w] = Idle]
  /\ UNCHANGED <<creator, primary, deaths>>

\* record finds the row of an earlier delivery of the run and raises.
RecordConflict(w) ==
  /\ workers[w].pc = "saved"
  /\ Recorded(ListCommand(workers[w]))
  /\ workers' = [workers EXCEPT ![w] = Idle]
  /\ UNCHANGED <<lifecycleVars, creator, primary, deaths>>

WorkerDies(w) ==
  /\ deaths < MaxDeaths
  /\ workers[w].pc # "idle"
  /\ deaths' = deaths + 1
  /\ workers' = [workers EXCEPT ![w] = Idle]
  /\ UNCHANGED <<lifecycleVars, creator, primary>>

-----------------------------------------------------------------------------
(* The writers that choose the primary entry.                              *)

Chosen(e) ==
  /\ creator' = [creator EXCEPT ![e] = IF @ = "nobody" THEN "other" ELSE @]
  /\ primary' = e

Found(e) == [entries[e] EXCEPT !.status = "active", !.checked = now, !.success = now]

\* Entry verification found the recruiting page of the company.
VerifyEntry(e) ==
  /\ e \in PageEntries
  /\ Chosen(e)
  /\ entries' = [entries EXCEPT ![e] = [Found(e) EXCEPT !.failures = 0]]
  /\ UNCHANGED <<now, sources, postings, snapshots, workers, deaths>>

\* A source that is there moves to the posting and the entry of this page;
\* its counter and its charge stay what they were.
AtsRow(s, p, e) ==
  IF Exists(s)
  THEN [sources[s] EXCEPT !.posting = p, !.entry = e, !.active = TRUE, !.seen = now]
  ELSE NewRow(p, e, now)

\* An ATS page is read in part only: the run knows no end of its pages.
AtsCommand(e, r, jobs) == [entry |-> e, run |-> r, complete |-> FALSE, status |-> "partial",
                           seen |-> jobs, completed |-> now]

\* found gives each job of the page the posting its title and city name.
AtsWrite(e, r, found) ==
  LET jobs == DOMAIN found
      c    == AtsCommand(e, r, jobs)
  IN  /\ c \in Commands
      /\ Cardinality(snapshots) < MaxSnapshots
      /\ ~Recorded(c)
      /\ sources' = [s \in Sources |-> IF s \in jobs THEN AtsRow(s, found[s], e) ELSE sources[s]]
      /\ postings' = WithPostings({found[s] : s \in jobs})
      /\ Chosen(e)
      /\ entries' = [entries EXCEPT ![e] = Found(e)]
      /\ snapshots' = snapshots \cup {[command |-> c, applied |-> FALSE]}
      /\ UNCHANGED <<now, workers, deaths>>

AtsStep ==
  \E e \in AtsEntries, r \in Runs, jobs \in SUBSET AtsSources \ {{}} :
    \E found \in [jobs -> Postings] : AtsWrite(e, r, found)

Daily == (Expire \/ Tick) /\ UNCHANGED writerVars

EnumerationStep(w) ==
  \/ StartEnumeration(w)
  \/ SaveRows(w)
  \/ DropList(w)
  \/ RecordList(w)
  \/ RecordConflict(w)
  \/ WorkerDies(w)

WritersNext ==
  \/ \E w \in Workers : EnumerationStep(w)
  \/ \E e \in Entries : VerifyEntry(e)
  \/ AtsStep
  \/ Daily

WritersSpec == WritersInit /\ [][WritersNext]_vars

-----------------------------------------------------------------------------
(* Properties.                                                             *)

\* The rows and the tasks are well typed.
WritersTypeOK ==
  /\ TypeOK
  /\ workers \in [Workers -> Worker]
  /\ creator \in [Entries -> Creator]
  /\ primary \in Entries \cup {NoEntry} /\ deaths \in 0 .. MaxDeaths

\* A posting that is shown as active without an active source comes from an ATS
\* page that moved the source to another posting, and from nothing else: closing
\* sources never leaves one, also when a task dies between its transactions.
Ghost(p) == postings[p] = "active" /\ ~Advertised(p, sources)
GhostsComeFromMoves ==
  [][\A p \in Postings : Ghost(p)' /\ ~Ghost(p) =>
       \E s \in AtsSources : sources[s].posting = p /\ sources'[s].posting # p]_vars

\* When no enumeration is half way, a posting with an open source is shown as
\* active.
OpenSourcesShow ==
  (\A w \in Workers : workers[w].pc = "idle") =>
    \A s \in Sources : sources[s].active => postings[sources[s].posting] = "active"

\* The task's session holds a row of this posting that another transaction has
\* changed since.
HeldStale(w, p) == workers[w].held = p /\ workers[w].loaded # postings[p]

\* A complete list that takes part in the lifecycle puts every posting of its
\* entry right, whatever half-written rows and moved sources it finds, but for
\* a posting of which its session holds an old row.
ListsRepairUnlessStale ==
  [][\A w \in Workers, n \in snapshots' \ snapshots, s \in Sources :
       /\ n.applied /\ workers'[w] # workers[w]
       /\ sources'[s].entry = n.command.entry
       /\ ~HeldStale(w, sources'[s].posting)
       => (postings'[sources'[s].posting] = "active" <=> Advertised(sources'[s].posting, sources'))]_vars

\* ... and for that posting, too.
CompleteListRepairs ==
  [][\A n \in snapshots' \ snapshots : n.applied =>
       \A s \in Sources : sources'[s].entry = n.command.entry =>
         (postings'[sources'[s].posting] = "active" <=> Advertised(sources'[s].posting, sources'))]_vars

\* A source that enumerations feed is closed only by its age, which its last
\* sighting sets, while no list has charge of it, or by a second complete list
\* in a row that lacks it; the rows a dead task left, a partial listing in
\* between and a task delivered twice make no difference.
EnumerationsCloseForCause ==
  [][\A s \in Enumerated : sources[s].active /\ ~sources'[s].active =>
       \/ ~sources[s].managed /\ sources[s].seen + Window < now
       \/ TwoAbsencesClose(s)]_vars

\* Complete lists of the company are further apart than the freshness period,
\* so that a source is not closed by two listings of the same day.
ListsAreApart ==
  \A m, n \in snapshots :
    CompleteList(m.command) /\ CompleteList(n.command) /\ m # n =>
      \/ m.command.completed + Freshness < n.command.completed
      \/ n.command.completed + Freshness < m.command.completed

\* A listing that was made before a source was last seen does not count as an
\* absence of the source.
DelayedListsDoNotCount ==
  [][\A w \in Workers, s \in Enumerated :
       workers[w].pc = "saved" /\ workers'[w].pc = "idle" /\ sources'[s].missing > sources[s].missing
         => sources[s].seen <= workers[w].observed]_vars

\* A listing that was obtained is saved unless the task dies.
ListingsAreSaved ==
  [][\A w \in Workers : workers[w].pc = "listed" /\ workers'[w].pc # "listed" /\ deaths' = deaths
        => workers'[w].pc = "saved"]_vars
=============================================================================
