----------------------------- MODULE JobLifecycle -----------------------------
(***************************************************************************)
(* How a job posting is opened and closed.                                 *)
(*                                                                         *)
(* A posting is advertised by sources.  A source belongs to an entry (a    *)
(* recruiting page of the company) when a list of that page showed it.     *)
(* JobCoverageService.record stores one observation of an entry's list, a  *)
(* snapshot, and when the list is complete it closes the sources that two  *)
(* consecutive complete lists lack.  expire_stale_job_sources closes, once *)
(* a day, the sources no complete list has ever taken charge of and nobody *)
(* has seen for a month.  Both derive the activity of the postings they    *)
(* touch from the sources.                                                 *)
(*                                                                         *)
(* Each of the two is one transaction and one step here; module            *)
(* ActivityTransactions looks inside.  Snapshots arrive in any order, late *)
(* or twice.                                                               *)
(***************************************************************************)
EXTENDS Naturals, FiniteSets

CONSTANTS
  Sources,    \* identities (provider, source_raw_id) of job_sources
  Postings,   \* identities of job_postings
  Entries,    \* identities of job_entries
  Runs,       \* crawl runs a snapshot may name
  NoEntry,    \* the NULL of job_sources.job_entry_id
  NoPosting,  \* the posting of a source row that does not exist
  Home,       \* the posting and the entry of each source in the initial state
  Commands,   \* the snapshot commands a caller may send
  Window,     \* age, in ticks, from which an unmanaged source is stale
  MaxTime,    \* bound on the clock
  MaxSnapshots \* bound on the snapshots filed

VARIABLES
  now,       \* the clock
  sources,   \* the job_sources rows
  postings,  \* job_postings.is_active, or "absent"
  entries,   \* the health columns of the job_entries rows
  snapshots  \* the job_collection_snapshots rows

lifecycleVars == <<now, sources, postings, entries, snapshots>>

Never == 0  \* the NULL of a timestamp, older than any instant
Times == 1 .. MaxTime

\* RecordJobSnapshot, with the rules of its validators.
Command ==
  {c \in [entry : Entries, run : Runs, status : {"succeeded", "partial", "failed"},
          complete : BOOLEAN, seen : SUBSET Sources, completed : Times] :
     /\ c.status = "succeeded" => c.complete
     /\ c.status = "failed" => ~c.complete /\ c.seen = {}}

Source == [posting : Postings \cup {NoPosting}, entry : Entries \cup {NoEntry},
           active : BOOLEAN, managed : BOOLEAN, missing : Nat, seen : Nat]

Entry == [status : {"unknown", "active"}, failures : Nat, checked : Nat, success : Nat]

Snapshot == [command : Commands, applied : BOOLEAN]

ASSUME NoEntryAssumption == NoEntry \notin Entries
ASSUME NoPostingAssumption == NoPosting \notin Postings
ASSUME HomeAssumption ==
  Home \in [Sources -> [posting : Postings, entry : Entries \cup {NoEntry}]]
ASSUME CommandsAssumption == Commands \subseteq Command
ASSUME BoundsAssumption == Window \in Nat /\ MaxTime \in Nat /\ MaxSnapshots \in Nat

-----------------------------------------------------------------------------
(* The rules of the two transactions.  A name that starts with Faulty is a *)
(* deliberate defect: no action uses it, and the mutation runs put it in    *)
(* the place of the definition that follows.                               *)

SourcesOf(e) == {s \in Sources : sources[s].entry = e}

FaultyNewer(c) == TRUE
Newer(c) == c.completed > entries[c.entry].checked

CompleteList(c) == c.status = "succeeded" /\ c.complete

FaultyApplies(c) == c.complete /\ Newer(c)
Applies(c) == CompleteList(c) /\ Newer(c)

FaultyListed(source, c) ==
  [source EXCEPT !.managed = TRUE, !.active = TRUE, !.seen = c.completed]
Listed(source, c) ==
  [source EXCEPT !.managed = TRUE, !.missing = 0, !.active = TRUE, !.seen = c.completed]

Threshold == 2

Unlisted(source) ==
  [source EXCEPT !.managed = TRUE, !.missing = @ + 1,
                 !.active  = @ /\ source.missing + 1 < Threshold]

AfterList(c) ==
  [s \in Sources |-> IF sources[s].entry # c.entry THEN sources[s]
                     ELSE IF s \in c.seen THEN Listed(sources[s], c)
                     ELSE Unlisted(sources[s])]

FaultyHealthStatus(entry, c) ==
  IF CompleteList(c)
  THEN [status |-> "active", failures |-> 0, checked |-> c.completed, success |-> c.completed]
  ELSE [entry EXCEPT !.status = c.status, !.failures = @ + 1, !.checked = c.completed]

Health(entry, c) ==
  IF CompleteList(c)
  THEN [status |-> "active", failures |-> 0, checked |-> c.completed, success |-> c.completed]
  ELSE [entry EXCEPT !.failures = @ + 1, !.checked = c.completed]

\* A posting is active while one of its sources is.
Advertised(p, rows) == \E s \in Sources : rows[s].posting = p /\ rows[s].active

FaultyRecomputed(rows, affected) ==
  [p \in Postings |-> IF p \notin affected THEN postings[p]
                      ELSE IF Advertised(p, sources) THEN "active" ELSE "inactive"]
Recomputed(rows, affected) ==
  [p \in Postings |-> IF p \notin affected THEN postings[p]
                      ELSE IF Advertised(p, rows) THEN "active" ELSE "inactive"]

FaultyAffected(ss) == {sources[s].posting : s \in {r \in ss : sources[r].active}}
Affected(ss) == {sources[s].posting : s \in ss}

\* Sources that only their age can close.
Fallback(source) == source.entry = NoEntry \/ ~source.managed

Stale(source) == source.active /\ Fallback(source) /\ source.seen + Window < now

-----------------------------------------------------------------------------
Init ==
  /\ now = 1
  /\ sources = [s \in Sources |-> [posting |-> Home[s].posting, entry |-> Home[s].entry,
                                   active |-> TRUE, managed |-> FALSE,
                                   missing |-> 0, seen |-> Never]]
  /\ postings = [p \in Postings |-> IF \E s \in Sources : Home[s].posting = p
                                    THEN "active" ELSE "absent"]
  /\ entries = [e \in Entries |-> [status |-> "unknown", failures |-> 0,
                                   checked |-> Never, success |-> Never]]
  /\ snapshots = {}

\* A snapshot of this entry by this run is in the table.
Recorded(c) ==
  \E n \in snapshots : n.command.entry = c.entry /\ n.command.run = c.run

\* record returns the row it finds, or raises snapshot_conflict when its
\* hash differs, or source_entry_conflict when the caller names a source of
\* another entry: none of the three writes anything.
Accepted(c) ==
  /\ c \in Commands
  /\ c.completed <= now
  /\ Cardinality(snapshots) < MaxSnapshots
  /\ ~Recorded(c)
  /\ c.seen \subseteq SourcesOf(c.entry)

\* A snapshot no newer than the last one is filed for the audit only.
RecordDelayed(c) ==
  /\ Accepted(c)
  /\ ~Newer(c)
  /\ snapshots' = snapshots \cup {[command |-> c, applied |-> Applies(c)]}
  /\ UNCHANGED <<now, sources, postings, entries>>

RecordHealth(c) ==
  /\ Accepted(c)
  /\ Newer(c)
  /\ snapshots' = snapshots \cup {[command |-> c, applied |-> Applies(c)]}
  /\ entries' = [entries EXCEPT ![c.entry] = Health(@, c)]

RecordIncomplete(c) ==
  /\ RecordHealth(c)
  /\ ~Applies(c)
  /\ UNCHANGED <<now, sources, postings>>

RecordComplete(c) ==
  /\ RecordHealth(c)
  /\ Applies(c)
  /\ sources' = AfterList(c)
  /\ postings' = Recomputed(sources', Affected(SourcesOf(c.entry)))
  /\ UNCHANGED now

Record(c) == RecordDelayed(c) \/ RecordIncomplete(c) \/ RecordComplete(c)

StaleSources == {s \in Sources : Stale(sources[s])}

Expire ==
  /\ StaleSources # {}
  /\ sources' = [s \in Sources |-> [sources[s] EXCEPT !.active = @ /\ s \notin StaleSources]]
  /\ postings' = Recomputed(sources', Affected(StaleSources))
  /\ UNCHANGED <<now, entries, snapshots>>

Tick ==
  /\ now < MaxTime
  /\ now' = now + 1
  /\ UNCHANGED <<sources, postings, entries, snapshots>>

Next == \/ \E c \in Commands : Record(c)
        \/ Expire
        \/ Tick

Spec == Init /\ [][Next]_lifecycleVars

-----------------------------------------------------------------------------
(* Properties.                                                             *)

\* Every table holds rows of its type.
TypeOK ==
  /\ now \in Nat
  /\ sources \in [Sources -> Source]
  /\ postings \in [Postings -> {"absent", "active", "inactive"}]
  /\ entries \in [Entries -> Entry]
  /\ snapshots \subseteq Snapshot

\* A posting is shown as active exactly while one of its sources is active,
\* whichever of the two transactions touched which of its sources last.
PostingFollowsSources ==
  \A p \in Postings : postings[p] = "active" <=> Advertised(p, sources)

\* The complete lists of an entry that took part in its lifecycle.
ListsIn(filed, e) ==
  {n.command : n \in {m \in filed : m.applied /\ m.command.entry = e /\ CompleteList(m.command)}}

CompleteLists(e) == ListsIn(snapshots, e)

\* The complete lists since the one that last showed the source.
Absences(s) ==
  LET lists == CompleteLists(sources[s].entry)
  IN  {c \in lists : \A d \in lists : s \in d.seen => d.completed < c.completed}

\* The counter that closes a source is the number of complete lists that have
\* lacked it in a row, whatever was delayed, repeated, partial or failed in
\* between, and a source is open while the counter is below the threshold
\* unless its age closed it before a list took charge of it.
CounterCountsAbsences ==
  \A s \in Sources : sources[s].entry # NoEntry =>
    /\ sources[s].missing = Cardinality(Absences(s))
    /\ sources[s].managed <=> CompleteLists(sources[s].entry) # {}
    /\ sources[s].managed /\ sources[s].active => sources[s].missing < Threshold

\* The health of an entry summarises its snapshots: the latest check and the
\* latest complete list are the newest ones on file, and every failure that is
\* counted is an incomplete snapshot since that list.
HealthMatchesHistory ==
  \A e \in Entries :
    LET filed    == {n.command : n \in {m \in snapshots : m.command.entry = e}}
        lists    == CompleteLists(e)
        failures == {c \in filed \ lists : c.completed > entries[e].success}
        Latest(t, cs) == IF cs = {} THEN t = Never
                         ELSE \A c \in cs : c.completed <= t /\ \E d \in cs : d.completed = t
    IN  /\ Latest(entries[e].checked, filed)
        /\ Latest(entries[e].success, lists)
        /\ entries[e].failures <= Cardinality(failures)

\* Counters, flags and dates are those that the snapshots on file come to, in
\* whatever order they arrived.
CountersTellHistory == CounterCountsAbsences /\ HealthMatchesHistory

\* A source is closed only by its age, before any complete list took charge of
\* it, or by the second of two consecutive complete lists of its entry that
\* both lack it.
TwoAbsencesClose(s) ==
  LET before == ListsIn(snapshots, sources[s].entry)
      after  == ListsIn(snapshots', sources[s].entry)
  IN  \E c \in before, d \in after \ before :
        /\ s \notin c.seen /\ s \notin d.seen
        /\ \A b \in before : b.completed <= c.completed
        /\ c.completed < d.completed

AgeCloses(s) ==
  /\ sources[s].entry = NoEntry \/ CompleteLists(sources[s].entry) = {}
  /\ sources[s].seen + Window < now

ClosedForCause ==
  [][\A s \in Sources : sources[s].active /\ ~sources'[s].active
        => TwoAbsencesClose(s) \/ AgeCloses(s)]_lifecycleVars
=============================================================================
