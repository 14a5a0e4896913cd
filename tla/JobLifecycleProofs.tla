-------------------------- MODULE JobLifecycleProofs --------------------------
(***************************************************************************)
(* Proofs about JobLifecycle, for any sources, postings, entries, runs and *)
(* commands; then, from Blank on, about JobWriters, for any workers.       *)
(*                                                                         *)
(* ClosedForCause is not a fact about one step: that a source is closed by *)
(* two consecutive lists depends on what its counter stands for.  Absent-  *)
(* FromLatest says it (a counter above zero means that the latest complete *)
(* list lacked the source), and ChecksAreLatest makes the list of the next *)
(* step later than all of them.                                            *)
(*                                                                         *)
(* CountersTellHistory counts lists, so it needs that their set is finite  *)
(* (CountersIInv).                                                         *)
(***************************************************************************)
EXTENDS JobWriters, FiniteSetTheorems, TLAPS

\* No snapshot on file is newer than the last check of its entry.
ChecksAreLatest ==
  \A n \in snapshots : n.command.completed <= entries[n.command.entry].checked

\* The lists took charge of exactly the sources of the entries that have one.
ManagedByLists ==
  \A s \in Sources : sources[s].entry # NoEntry =>
    (sources[s].managed <=> CompleteLists(sources[s].entry) # {})

\* A counter above zero: the latest complete list lacked the source.
AbsentFromLatest ==
  \A s \in Sources : sources[s].missing > 0 =>
    \E c \in CompleteLists(sources[s].entry) :
      /\ s \notin c.seen
      /\ \A b \in CompleteLists(sources[s].entry) : b.completed <= c.completed

IInv == /\ TypeOK
        /\ PostingFollowsSources
        /\ ChecksAreLatest
        /\ ManagedByLists
        /\ AbsentFromLatest

-----------------------------------------------------------------------------
\* What the validators promise of every command.
LEMMA CommandShape ==
  ASSUME NEW c \in Commands
  PROVE  c \in Command /\ c.entry \in Entries /\ c.completed \in Nat /\ c.completed > Never
<1>1. c \in Command
  BY CommandsAssumption
<1>2. c.entry \in Entries /\ c.completed \in 1 .. MaxTime
  BY <1>1 DEF Command, Times
<1>. QED  BY <1>1, <1>2, BoundsAssumption DEF Never

\* Filing a snapshot adds its list to those of its entry when it was applied,
\* and changes nothing else.
LEMMA ListsOfFiled ==
  ASSUME NEW filed, NEW n, NEW e
  PROVE  ListsIn(filed \cup {n}, e) =
           ListsIn(filed, e) \cup
             (IF n.applied /\ n.command.entry = e /\ CompleteList(n.command)
              THEN {n.command} ELSE {})
  BY DEF ListsIn

\* The row that a command files, and what it adds to the lists of an entry.
FiledRow(c) == [command |-> c, applied |-> Applies(c)]
Added(c, e) == IF Applies(c) /\ c.entry = e THEN {c} ELSE {}

\* The row is a row of the table; its flag says whether the list was applied.
LEMMA FiledRowShape ==
  ASSUME NEW c \in Commands
  PROVE  /\ FiledRow(c) \in Snapshot
         /\ FiledRow(c).command = c
         /\ FiledRow(c).applied <=> Applies(c)
<1>1. Applies(c) \in BOOLEAN
  BY DEF Applies
<1>. SUFFICES ASSUME NEW b \in BOOLEAN
              PROVE  LET n == [command |-> c, applied |-> b]
                     IN  n \in Snapshot /\ n.command = c /\ (n.applied <=> b)
  BY <1>1 DEF FiledRow
<1>. QED  BY DEF Snapshot

\* The complete lists after a command was filed.
LEMMA ListsAfterFiling ==
  ASSUME NEW c \in Commands, snapshots' = snapshots \cup {FiledRow(c)}
  PROVE  \A e : CompleteLists(e)' = CompleteLists(e) \cup Added(c, e)
<1>. TAKE e
<1>1. Applies(c) => CompleteList(c)
  BY DEF Applies
<1>2. ListsIn(snapshots', e) =
        ListsIn(snapshots, e) \cup
          (IF FiledRow(c).applied /\ FiledRow(c).command.entry = e /\ CompleteList(FiledRow(c).command)
           THEN {FiledRow(c).command} ELSE {})
  BY ListsOfFiled
<1>. QED  BY <1>1, <1>2, FiledRowShape DEF CompleteLists, Added

\* A list on file is a snapshot on file.
LEMMA ListsAreFiled ==
  ASSUME NEW filed, NEW e, NEW c \in ListsIn(filed, e)
  PROVE  \E n \in filed : n.command = c /\ c.entry = e
  BY DEF ListsIn

\* The activity recomputed for the postings a step touched agrees with the
\* sources when it did before and the other sources kept their activity.
LEMMA RecomputedFollows ==
  ASSUME TypeOK, PostingFollowsSources,
         NEW rows \in [Sources -> Source], NEW ss \in SUBSET Sources,
         \A s \in Sources : rows[s].posting = sources[s].posting,
         \A s \in Sources \ ss : rows[s].active = sources[s].active
  PROVE  /\ Recomputed(rows, Affected(ss)) \in [Postings -> {"absent", "active", "inactive"}]
         /\ \A p \in Postings :
              Recomputed(rows, Affected(ss))[p] = "active" <=> Advertised(p, rows)
<1>1. Recomputed(rows, Affected(ss)) \in [Postings -> {"absent", "active", "inactive"}]
  BY DEF Recomputed, TypeOK
<1>2. ASSUME NEW p \in Postings
      PROVE  Recomputed(rows, Affected(ss))[p] = "active" <=> Advertised(p, rows)
  <2>1. CASE p \in Affected(ss)
    BY <2>1 DEF Recomputed
  <2>2. CASE p \notin Affected(ss)
    <3>1. Recomputed(rows, Affected(ss))[p] = postings[p]
      BY <2>2 DEF Recomputed
    <3>2. \A s \in Sources : sources[s].posting = p => s \notin ss
      BY <2>2 DEF Affected
    <3>3. Advertised(p, rows) <=> Advertised(p, sources)
      BY <3>2 DEF Advertised
    <3>. QED  BY <3>1, <3>3 DEF PostingFollowsSources
  <2>. QED  BY <2>1, <2>2
<1>. QED  BY <1>1, <1>2

\* Updating the counters of a row with numbers and truth values keeps its type.
LEMMA UnlistedShape ==
  ASSUME NEW source \in Source, NEW n \in Nat, NEW b \in BOOLEAN
  PROVE  [source EXCEPT !.managed = TRUE, !.missing = n, !.active = b] \in Source
  BY DEF Source
\* The same for the health of an entry.
LEMMA FailureShape ==
  ASSUME NEW entry \in Entry, NEW n \in Nat, NEW t \in Nat
  PROVE  [entry EXCEPT !.failures = n, !.checked = t] \in Entry
  BY DEF Entry

\* A complete list leaves the sources of other entries alone, keeps every
\* posting and entry, and treats its own sources by whether it shows them.
LEMMA AfterListRows ==
  ASSUME TypeOK, NEW c \in Commands
  PROVE  /\ AfterList(c) \in [Sources -> Source]
         /\ \A s \in Sources : /\ AfterList(c)[s].posting = sources[s].posting
                               /\ AfterList(c)[s].entry = sources[s].entry
         /\ \A s \in Sources \ SourcesOf(c.entry) : AfterList(c)[s] = sources[s]
         /\ \A s \in SourcesOf(c.entry) :
              /\ AfterList(c)[s].managed
              /\ s \in c.seen => AfterList(c)[s].missing = 0 /\ AfterList(c)[s].active
              /\ s \notin c.seen =>
                   /\ AfterList(c)[s].missing = sources[s].missing + 1
                   /\ AfterList(c)[s].active <=>
                        (sources[s].active /\ sources[s].missing + 1 < Threshold)
<1>0. c.completed \in Nat
  BY CommandShape
<1>a. \A s \in Sources : sources[s] \in Source
  BY DEF TypeOK
<1>1. ASSUME NEW s \in Sources
      PROVE  /\ Listed(sources[s], c) \in Source
             /\ Listed(sources[s], c).posting = sources[s].posting
             /\ Listed(sources[s], c).entry = sources[s].entry
             /\ Listed(sources[s], c).managed
             /\ Listed(sources[s], c).active
             /\ Listed(sources[s], c).missing = 0
  BY <1>0, <1>a DEF Listed, Source
<1>2. ASSUME NEW s \in Sources
      PROVE  /\ Unlisted(sources[s]) \in Source
             /\ Unlisted(sources[s]).posting = sources[s].posting
             /\ Unlisted(sources[s]).entry = sources[s].entry
             /\ Unlisted(sources[s]).managed
             /\ Unlisted(sources[s]).missing = sources[s].missing + 1
             /\ Unlisted(sources[s]).active <=>
                  (sources[s].active /\ sources[s].missing + 1 < Threshold)
  <2>1. sources[s].missing + 1 \in Nat
        /\ (sources[s].active /\ sources[s].missing + 1 < Threshold) \in BOOLEAN
    BY <1>a DEF Source
  <2>2. Unlisted(sources[s]) \in Source
    BY <1>a, <2>1, UnlistedShape DEF Unlisted
  <2>. QED  BY <1>a, <2>2 DEF Unlisted, Source
<1>3. ASSUME NEW s \in Sources
      PROVE  /\ s \notin SourcesOf(c.entry) => AfterList(c)[s] = sources[s]
             /\ s \in SourcesOf(c.entry) =>
                  AfterList(c)[s] = IF s \in c.seen THEN Listed(sources[s], c)
                                    ELSE Unlisted(sources[s])
  BY DEF AfterList, SourcesOf
<1>4. \A s \in Sources : AfterList(c)[s] \in Source
  BY <1>a, <1>1, <1>2, <1>3
<1>5. AfterList(c) \in [Sources -> Source]
  BY <1>4 DEF AfterList
<1>6. SourcesOf(c.entry) \subseteq Sources
  BY DEF SourcesOf
<1>. QED  BY <1>1, <1>2, <1>3, <1>5, <1>6

\* The stale sources are closed and nothing else about a source changes.
LEMMA ExpiredRows ==
  ASSUME TypeOK, NEW rows,
         rows = [s \in Sources |-> [sources[s] EXCEPT !.active = @ /\ s \notin StaleSources]]
  PROVE  /\ rows \in [Sources -> Source]
         /\ \A s \in Sources :
              /\ rows[s].posting = sources[s].posting
              /\ rows[s].entry = sources[s].entry
              /\ rows[s].managed = sources[s].managed
              /\ rows[s].missing = sources[s].missing
              /\ s \notin StaleSources => rows[s].active = sources[s].active
<1>1. \A s \in Sources : sources[s] \in Source
  BY DEF TypeOK
<1>2. ASSUME NEW s \in Sources
      PROVE  /\ rows[s] \in Source
             /\ rows[s].posting = sources[s].posting
             /\ rows[s].entry = sources[s].entry
             /\ rows[s].managed = sources[s].managed
             /\ rows[s].missing = sources[s].missing
             /\ s \notin StaleSources => rows[s].active = sources[s].active
  BY <1>1 DEF Source
<1>. QED  BY <1>2

-----------------------------------------------------------------------------
\* Initially no list was recorded, every source is open and in nobody's charge.
LEMMA InitEstablishesIInv == Init => IInv
<1>. SUFFICES ASSUME Init PROVE IInv
  OBVIOUS
<1>1. TypeOK
  <2>1. sources \in [Sources -> Source]
    BY HomeAssumption DEF Init, Source, Never
  <2>. QED  BY <2>1 DEF Init, TypeOK, Entry, Never
<1>2. PostingFollowsSources
  BY HomeAssumption DEF Init, PostingFollowsSources, Advertised
<1>3. \A e : CompleteLists(e) = {}
  BY DEF Init, CompleteLists, ListsIn
<1>4. ChecksAreLatest
  BY DEF Init, ChecksAreLatest
<1>5. ManagedByLists /\ AbsentFromLatest
  BY <1>3 DEF Init, ManagedByLists, AbsentFromLatest
<1>. QED  BY <1>1, <1>2, <1>4, <1>5 DEF IInv

\* What filing a snapshot newer than the last check does to the entries and
\* to the history.
LEMMA HealthStep ==
  ASSUME TypeOK, ChecksAreLatest, NEW c \in Commands, RecordHealth(c)
  PROVE  /\ entries' \in [Entries -> Entry]
         /\ snapshots' \subseteq Snapshot
         /\ ChecksAreLatest'
         /\ \A n \in snapshots : n.command.entry = c.entry => n.command.completed < c.completed
<1>1. c.entry \in Entries /\ c.completed \in Nat
  BY CommandShape
<1>2. entries[c.entry] \in Entry /\ \A e \in Entries : entries[e].checked \in Nat
  BY <1>1 DEF TypeOK, Entry
<1>3. Health(entries[c.entry], c) \in Entry /\ Health(entries[c.entry], c).checked = c.completed
  <2>1. CASE CompleteList(c)
    BY <1>1, <2>1 DEF Health, Entry
  <2>2. CASE ~CompleteList(c)
    <3>1. entries[c.entry].failures + 1 \in Nat
      BY <1>2 DEF Entry
    <3>2. Health(entries[c.entry], c) \in Entry
      BY <1>1, <1>2, <2>2, <3>1, FailureShape DEF Health
    <3>. QED  BY <1>1, <1>2, <2>2, <3>2 DEF Health, Entry
  <2>. QED  BY <2>1, <2>2
<1>4. entries' = [entries EXCEPT ![c.entry] = Health(entries[c.entry], c)]
  BY DEF RecordHealth
<1>12. entries' \in [Entries -> Entry]
  <2>1. entries \in [Entries -> Entry]
    BY DEF TypeOK
  <2>. QED  BY <1>3, <1>4, <2>1
<1>5. snapshots' \subseteq Snapshot
  BY FiledRowShape DEF RecordHealth, FiledRow, TypeOK
<1>6. c.completed > entries[c.entry].checked
  BY DEF RecordHealth, Newer
<1>7. \A n \in snapshots : n.command \in Commands /\ n.command.completed <= entries[n.command.entry].checked
  BY DEF TypeOK, Snapshot, ChecksAreLatest
<1>8. \A n \in snapshots : n.command.entry \in Entries /\ n.command.completed \in Nat
  BY <1>7, CommandShape
<1>9. \A n \in snapshots : n.command.entry = c.entry => n.command.completed < c.completed
  BY <1>1, <1>2, <1>6, <1>7, <1>8
<1>10. \A e \in Entries : entries'[e].checked = IF e = c.entry THEN c.completed ELSE entries[e].checked
  BY <1>1, <1>3, <1>4 DEF TypeOK
<1>11. ChecksAreLatest'
  BY <1>1, <1>7, <1>8, <1>9, <1>10 DEF RecordHealth, ChecksAreLatest
<1>. QED  BY <1>5, <1>9, <1>11, <1>12

-----------------------------------------------------------------------------
\* Every step of the lifecycle preserves the invariant.
LEMMA NextPreservesIInv == IInv /\ [Next]_lifecycleVars => IInv'
<1>. SUFFICES ASSUME IInv, [Next]_lifecycleVars PROVE IInv'
  OBVIOUS
<1>. USE DEF IInv
<1>1. ASSUME NEW c \in Commands, RecordDelayed(c) PROVE IInv'
  <2>1. c.entry \in Entries /\ c.completed \in Nat /\ entries[c.entry].checked \in Nat
    BY CommandShape DEF TypeOK, Entry
  <2>2. ~Applies(c) /\ c.completed <= entries[c.entry].checked
    BY <1>1, <2>1 DEF RecordDelayed, Applies, Newer
  <2>3. \A e : CompleteLists(e)' = CompleteLists(e)
    BY <1>1, <2>2, ListsAfterFiling DEF RecordDelayed, FiledRow, Added
  <2>4. TypeOK'
    BY <1>1, FiledRowShape DEF RecordDelayed, FiledRow, TypeOK
  <2>5. PostingFollowsSources'
    BY <1>1 DEF RecordDelayed, PostingFollowsSources, Advertised
  <2>6. ChecksAreLatest'
    BY <1>1, <2>2 DEF RecordDelayed, ChecksAreLatest
  <2>7. ManagedByLists' /\ AbsentFromLatest'
    BY <1>1, <2>3 DEF RecordDelayed, ManagedByLists, AbsentFromLatest
  <2>. QED  BY <2>4, <2>5, <2>6, <2>7
<1>2. ASSUME NEW c \in Commands, RecordIncomplete(c) PROVE IInv'
  <2>1. RecordHealth(c) /\ ~Applies(c) /\ UNCHANGED <<now, sources, postings>>
    BY <1>2 DEF RecordIncomplete
  <2>2. entries' \in [Entries -> Entry] /\ snapshots' \subseteq Snapshot /\ ChecksAreLatest'
    BY <2>1, HealthStep
  <2>3. \A e : CompleteLists(e)' = CompleteLists(e)
    BY <2>1, ListsAfterFiling DEF RecordHealth, FiledRow, Added
  <2>4. TypeOK'
    BY <2>1, <2>2 DEF TypeOK
  <2>5. PostingFollowsSources'
    BY <2>1 DEF PostingFollowsSources, Advertised
  <2>6. ManagedByLists' /\ AbsentFromLatest'
    BY <2>1, <2>3 DEF ManagedByLists, AbsentFromLatest
  <2>. QED  BY <2>2, <2>4, <2>5, <2>6
<1>3. ASSUME NEW c \in Commands, RecordComplete(c) PROVE IInv'
  <2>1. /\ RecordHealth(c) /\ Applies(c) /\ now' = now
        /\ sources' = AfterList(c)
        /\ postings' = Recomputed(AfterList(c), Affected(SourcesOf(c.entry)))
    BY <1>3 DEF RecordComplete
  <2>2. /\ entries' \in [Entries -> Entry] /\ snapshots' \subseteq Snapshot /\ ChecksAreLatest'
        /\ \A n \in snapshots : n.command.entry = c.entry => n.command.completed < c.completed
    BY <2>1, HealthStep
  <2>3. /\ SourcesOf(c.entry) \in SUBSET Sources
        /\ \A s \in Sources : s \in SourcesOf(c.entry) <=> sources[s].entry = c.entry
    BY DEF SourcesOf
  <2>4. /\ postings' \in [Postings -> {"absent", "active", "inactive"}]
        /\ PostingFollowsSources'
    <3>1. \A s \in Sources \ SourcesOf(c.entry) : AfterList(c)[s].active = sources[s].active
      BY AfterListRows
    <3>2. /\ postings' \in [Postings -> {"absent", "active", "inactive"}]
          /\ \A p \in Postings : postings'[p] = "active" <=> Advertised(p, AfterList(c))
      BY <2>1, <2>3, <3>1, AfterListRows, RecomputedFollows
    <3>. QED  BY <2>1, <3>2 DEF PostingFollowsSources, Advertised
  <2>5. TypeOK'
    BY <2>1, <2>2, <2>4, AfterListRows DEF TypeOK
  <2>6. \A e : CompleteLists(e)' = CompleteLists(e) \cup (IF e = c.entry THEN {c} ELSE {})
    BY <2>1, ListsAfterFiling DEF RecordHealth, FiledRow, Added
  <2>7. /\ c.completed \in Nat
        /\ \A b \in CompleteLists(c.entry) : b.completed \in Nat /\ b.completed < c.completed
    <3>1. \A b \in CompleteLists(c.entry) : b \in Commands /\ b.completed < c.completed
      BY <2>2, ListsAreFiled DEF CompleteLists, TypeOK, Snapshot
    <3>. QED  BY <3>1, CommandShape
  <2>8. ManagedByLists'
    <3>1. ASSUME NEW s \in Sources, sources[s].entry = c.entry
          PROVE  sources'[s].managed /\ CompleteLists(sources[s].entry)' # {}
      BY <2>1, <2>3, <2>6, <3>1, AfterListRows
    <3>2. ASSUME NEW s \in Sources, sources[s].entry # c.entry
          PROVE  sources'[s] = sources[s] /\ CompleteLists(sources[s].entry)' = CompleteLists(sources[s].entry)
      BY <2>1, <2>3, <2>6, <3>2, AfterListRows
    <3>3. \A s \in Sources : sources'[s].entry = sources[s].entry
      BY <2>1, AfterListRows
    <3>. QED  BY <3>1, <3>2, <3>3 DEF ManagedByLists, CompleteLists
  <2>9. AbsentFromLatest'
    <3>1. ASSUME NEW s \in Sources, sources[s].entry = c.entry, sources'[s].missing > 0
          PROVE  s \notin c.seen /\ \A b \in CompleteLists(c.entry)' : b.completed <= c.completed
      BY <2>1, <2>3, <2>6, <2>7, <3>1, AfterListRows
    <3>2. ASSUME NEW s \in Sources, sources[s].entry # c.entry
          PROVE  sources'[s] = sources[s] /\ CompleteLists(sources[s].entry)' = CompleteLists(sources[s].entry)
      BY <2>1, <2>3, <2>6, <3>2, AfterListRows
    <3>3. \A s \in Sources : sources'[s].entry = sources[s].entry
      BY <2>1, AfterListRows
    <3>4. c \in CompleteLists(c.entry)'
      BY <2>6
    <3>. QED  BY <3>1, <3>2, <3>3, <3>4 DEF AbsentFromLatest, CompleteLists
  <2>. QED  BY <2>2, <2>4, <2>5, <2>8, <2>9
<1>4. CASE Expire
  <2>1. /\ sources' = [s \in Sources |-> [sources[s] EXCEPT !.active = @ /\ s \notin StaleSources]]
        /\ postings' = Recomputed(sources', Affected(StaleSources))
        /\ UNCHANGED <<now, entries, snapshots>>
    BY <1>4 DEF Expire
  <2>2. /\ sources' \in [Sources -> Source]
        /\ \A s \in Sources :
              /\ sources'[s].posting = sources[s].posting
              /\ sources'[s].entry = sources[s].entry
              /\ sources'[s].managed = sources[s].managed
              /\ sources'[s].missing = sources[s].missing
              /\ s \notin StaleSources => sources'[s].active = sources[s].active
    BY <2>1, ExpiredRows
  <2>3. StaleSources \in SUBSET Sources
    BY DEF StaleSources
  <2>4. /\ postings' \in [Postings -> {"absent", "active", "inactive"}]
        /\ \A p \in Postings : postings'[p] = "active" <=> Advertised(p, sources')
    BY <2>1, <2>2, <2>3, RecomputedFollows
  <2>5. TypeOK' /\ PostingFollowsSources'
    BY <2>1, <2>2, <2>4 DEF TypeOK, PostingFollowsSources, Advertised
  <2>6. ChecksAreLatest' /\ ManagedByLists' /\ AbsentFromLatest'
    BY <2>1, <2>2, SMTT(30) DEF ChecksAreLatest, ManagedByLists, AbsentFromLatest, CompleteLists
  <2>. QED  BY <2>5, <2>6
<1>5. CASE Tick \/ UNCHANGED lifecycleVars
  <2>1. now' \in Nat /\ UNCHANGED <<sources, postings, entries, snapshots>>
    BY <1>5 DEF Tick, lifecycleVars, TypeOK
  <2>. QED  BY <2>1 DEF TypeOK, PostingFollowsSources, Advertised, ChecksAreLatest,
                        ManagedByLists, AbsentFromLatest, CompleteLists
<1>. QED  BY <1>1, <1>2, <1>3, <1>4, <1>5 DEF Next, Record

\* Every reachable state satisfies the inductive invariant.
THEOREM Invariance == Spec => []IInv
  BY InitEstablishesIInv, NextPreservesIInv, PTL DEF Spec

\* Type correctness of the tables.
THEOREM TypeCorrect == Spec => []TypeOK
<1>1. IInv => TypeOK
  BY DEF IInv
<1>. QED  BY <1>1, Invariance, PTL

\* A posting is shown as active exactly while one of its sources is.
THEOREM PostingsFollow == Spec => []PostingFollowsSources
<1>1. IInv => PostingFollowsSources
  BY DEF IInv
<1>. QED  BY <1>1, Invariance, PTL

\* A source is closed by its age or by two consecutive complete lists only.
THEOREM ClosingHasCause == Spec => ClosedForCause
<1>. DEFINE Closing(s) == sources[s].active /\ ~sources'[s].active
<1>1. IInv /\ [Next]_lifecycleVars =>
        [\A s \in Sources : Closing(s) => TwoAbsencesClose(s) \/ AgeCloses(s)]_lifecycleVars
  <2>. SUFFICES ASSUME IInv, [Next]_lifecycleVars, NEW s \in Sources, Closing(s)
                PROVE  TwoAbsencesClose(s) \/ AgeCloses(s)
    OBVIOUS
  <2>. USE DEF IInv
  <2>1. ASSUME NEW c \in Commands, RecordDelayed(c) \/ RecordIncomplete(c) PROVE FALSE
    BY <2>1 DEF RecordDelayed, RecordIncomplete
  <2>2. ASSUME NEW c \in Commands, RecordComplete(c) PROVE TwoAbsencesClose(s)
    <3>1. /\ RecordHealth(c) /\ Applies(c) /\ sources' = AfterList(c)
      BY <2>2 DEF RecordComplete
    <3>2. sources[s].entry = c.entry /\ s \notin c.seen
      BY <3>1, AfterListRows DEF SourcesOf
    <3>3. sources[s].missing > 0
      BY <3>1, <3>2, AfterListRows DEF SourcesOf, Threshold, TypeOK, Source
    <3>4. PICK b \in CompleteLists(c.entry) :
            s \notin b.seen /\ \A a \in CompleteLists(c.entry) : a.completed <= b.completed
      BY <3>2, <3>3 DEF AbsentFromLatest
    <3>5. \A a \in CompleteLists(c.entry) : a.completed < c.completed
      BY <3>1, HealthStep, ListsAreFiled DEF CompleteLists
    <3>6. ListsIn(snapshots', c.entry) = CompleteLists(c.entry) \cup {c}
      BY <3>1, ListsAfterFiling DEF RecordHealth, FiledRow, Added, CompleteLists
    <3>7. c \notin CompleteLists(c.entry)
      BY <3>1, ListsAreFiled DEF RecordHealth, Accepted, Recorded, CompleteLists
    <3>. QED  BY <3>2, <3>4, <3>5, <3>6, <3>7 DEF TwoAbsencesClose, CompleteLists
  <2>3. CASE Expire
    <3>1. s \in StaleSources
      BY <2>3, ExpiredRows DEF Expire
    <3>. QED  BY <3>1 DEF StaleSources, Stale, Fallback, AgeCloses, ManagedByLists
  <2>4. ASSUME Tick \/ UNCHANGED lifecycleVars PROVE FALSE
    BY <2>4 DEF Tick, lifecycleVars
  <2>. QED  BY <2>1, <2>2, <2>3, <2>4 DEF Next, Record
<1>. QED  BY <1>1, Invariance, PTL DEF Spec, ClosedForCause

-----------------------------------------------------------------------------
(* The counters count.  CounterCountsAbsences and HealthMatchesHistory are *)
(* inductive together with IInv, as long as the table of snapshots is      *)
(* finite: a list that is counted was not on file before.                  *)

CountersIInv == IInv /\ IsFiniteSet(snapshots) /\ CountersTellHistory

\* The parts of HealthMatchesHistory, by name.
FiledFor(e) == {n.command : n \in {m \in snapshots : m.command.entry = e}}
FailedSince(e) == {c \in FiledFor(e) \ CompleteLists(e) : c.completed > entries[e].success}
LatestOf(t, cs) == IF cs = {} THEN t = Never
                   ELSE \A c \in cs : c.completed <= t /\ \E d \in cs : d.completed = t

HealthOf(e) == /\ LatestOf(entries[e].checked, FiledFor(e))
               /\ LatestOf(entries[e].success, CompleteLists(e))
               /\ entries[e].failures <= Cardinality(FailedSince(e))

LEMMA HealthByEntry ==
  /\ HealthMatchesHistory <=> \A e \in Entries : HealthOf(e)
  /\ HealthMatchesHistory' <=> \A e \in Entries : HealthOf(e)'
  BY DEF HealthMatchesHistory, HealthOf, FiledFor, FailedSince, LatestOf

\* What the counter of one source says.
CountOf(s) ==
  sources[s].entry # NoEntry =>
    /\ sources[s].missing = Cardinality(Absences(s))
    /\ sources[s].managed <=> CompleteLists(sources[s].entry) # {}
    /\ sources[s].managed /\ sources[s].active => sources[s].missing < Threshold

LEMMA CountBySource ==
  /\ CounterCountsAbsences <=> \A s \in Sources : CountOf(s)
  /\ CounterCountsAbsences' <=> \A s \in Sources : CountOf(s)'
  BY DEF CounterCountsAbsences, CountOf

\* Everything that is counted is a finite set of commands.
LEMMA HistoryIsFinite ==
  ASSUME IsFiniteSet(snapshots), snapshots \subseteq Snapshot
  PROVE  /\ \A e : /\ IsFiniteSet(FiledFor(e)) /\ CompleteLists(e) \subseteq FiledFor(e)
                   /\ IsFiniteSet(FailedSince(e)) /\ IsFiniteSet(CompleteLists(e))
                   /\ \A c \in FiledFor(e) : c \in Commands /\ c.entry = e /\ c.completed \in Nat /\ c.completed > Never
         /\ \A s : IsFiniteSet(Absences(s))
<1>1. ASSUME NEW e
      PROVE  /\ IsFiniteSet(FiledFor(e)) /\ CompleteLists(e) \subseteq FiledFor(e)
             /\ \A c \in FiledFor(e) : c \in Commands /\ c.entry = e
  <2>. DEFINE rows == {m \in snapshots : m.command.entry = e}
              commandOf == [m \in rows |-> m.command]
  <2>1. IsFiniteSet(rows)
    BY FS_Subset
  <2>2. IsFiniteSet(FiledFor(e))
    <3>1. commandOf \in Surjection(rows, FiledFor(e))
      BY DEF Surjection, FiledFor
    <3>. QED  BY <2>1, <3>1, FS_Surjection
  <2>3. CompleteLists(e) \subseteq FiledFor(e)
    BY DEF CompleteLists, ListsIn, FiledFor
  <2>4. \A c \in FiledFor(e) : c \in Commands /\ c.entry = e
    BY DEF FiledFor, Snapshot
  <2>. QED  BY <2>2, <2>3, <2>4
<1>2. \A e : IsFiniteSet(CompleteLists(e)) /\ IsFiniteSet(FailedSince(e))
  BY <1>1, FS_Subset DEF FailedSince
<1>3. \A s : IsFiniteSet(Absences(s))
  BY <1>2, FS_Subset DEF Absences
<1>. QED  BY <1>1, <1>2, <1>3, CommandShape

\* Filing a snapshot of an entry adds its command to what is on file for it.
LEMMA FiledAfter ==
  ASSUME NEW c \in Commands, snapshots' = snapshots \cup {FiledRow(c)}
  PROVE  \A e : FiledFor(e)' = FiledFor(e) \cup IF c.entry = e THEN {c} ELSE {}
<1>1. FiledRow(c).command = c
  BY FiledRowShape
<1>. QED  BY <1>1 DEF FiledFor

LEMMA CountersInit == Init => CountersIInv
<1>. SUFFICES ASSUME Init PROVE CountersIInv
  OBVIOUS
<1>1. \A e : CompleteLists(e) = {} /\ FiledFor(e) = {}
  BY DEF Init, CompleteLists, ListsIn, FiledFor
<1>2. \A s : Absences(s) = {}
  BY <1>1 DEF Absences
<1>3. \A e : FailedSince(e) = {}
  BY <1>1 DEF FailedSince
<1>4. Cardinality({}) = 0 /\ IsFiniteSet({})
  BY FS_EmptySet
<1>5. \A s \in Sources : CountOf(s)
  BY <1>1, <1>2, <1>4 DEF Init, CountOf
<1>6. ASSUME NEW e \in Entries PROVE HealthOf(e)
  <2>1. entries[e].checked = Never /\ entries[e].success = Never /\ entries[e].failures = 0
    BY DEF Init
  <2>2. LatestOf(entries[e].checked, FiledFor(e)) /\ LatestOf(entries[e].success, CompleteLists(e))
    BY <1>1, <2>1 DEF LatestOf
  <2>3. entries[e].failures <= Cardinality(FailedSince(e))
    BY <1>3, <1>4, <2>1
  <2>. QED  BY <2>2, <2>3 DEF HealthOf
<1>. QED
  BY <1>4, <1>5, <1>6, CountBySource, HealthByEntry, InitEstablishesIInv DEF CountersIInv, CountersTellHistory, Init

\* A counter depends on the lists of the source's entry alone.
LEMMA SameListsSameCount ==
  ASSUME NEW s \in Sources, CountOf(s), NEW e, e = sources[s].entry,
         CompleteLists(e)' = CompleteLists(e),
         sources'[s].entry = e, sources'[s].missing = sources[s].missing,
         sources'[s].managed = sources[s].managed,
         sources'[s].active => sources[s].active
  PROVE  CountOf(s)'
<1>1. Absences(s)' = Absences(s)
  BY DEF Absences
<1>2. CompleteLists(sources[s].entry)' = CompleteLists(e)
  BY DEF CompleteLists
<1>. QED  BY <1>1, <1>2 DEF CountOf

\* The health of an entry that no snapshot was filed for.
LEMMA SameHealth ==
  ASSUME NEW e \in Entries, HealthOf(e), entries'[e] = entries[e],
         CompleteLists(e)' = CompleteLists(e), FiledFor(e)' = FiledFor(e)
  PROVE  HealthOf(e)'
<1>1. FailedSince(e)' = FailedSince(e)
  BY DEF FailedSince
<1>. QED  BY <1>1 DEF HealthOf, LatestOf

\* What a command that is filed says of the history of its entry.
LEMMA FilingHistory ==
  ASSUME CountersIInv, NEW c \in Commands, Accepted(c), snapshots' = snapshots \cup {FiledRow(c)}
  PROVE  /\ IsFiniteSet(snapshots')
         /\ c \notin FiledFor(c.entry)
         /\ entries[c.entry] \in Entry
         /\ c.entry \in Entries /\ c.completed \in Nat /\ c.completed > Never
         /\ \A x \in FiledFor(c.entry) : x.completed \in Nat /\ x.completed <= entries[c.entry].checked
         /\ \A x \in CompleteLists(c.entry) : x \in FiledFor(c.entry)
         /\ entries[c.entry].success <= entries[c.entry].checked
<1>1. IsFiniteSet(snapshots')
  BY FS_AddElement DEF CountersIInv
<1>2. c \notin FiledFor(c.entry)
  BY DEF Accepted, Recorded, FiledFor
<1>3. c.entry \in Entries /\ c.completed \in Nat /\ c.completed > Never
  BY CommandShape
<1>4. entries[c.entry] \in Entry /\ HealthOf(c.entry)
  BY <1>3, HealthByEntry DEF CountersIInv, IInv, TypeOK, CountersTellHistory
<1>5. snapshots \subseteq Snapshot /\ IsFiniteSet(snapshots)
  BY DEF CountersIInv, IInv, TypeOK
<1>6. /\ CompleteLists(c.entry) \subseteq FiledFor(c.entry)
      /\ \A x \in FiledFor(c.entry) : x.completed \in Nat /\ x.completed > Never
  BY <1>5, HistoryIsFinite
<1>7. \A x \in FiledFor(c.entry) : x.completed <= entries[c.entry].checked
  BY <1>4 DEF HealthOf, LatestOf
<1>8. entries[c.entry].success <= entries[c.entry].checked
  <2>1. CASE CompleteLists(c.entry) = {}
    BY <1>4, <2>1 DEF HealthOf, LatestOf, Never, Entry
  <2>2. CASE CompleteLists(c.entry) # {}
    <3>1. PICK x \in CompleteLists(c.entry) : x.completed = entries[c.entry].success
      BY <1>4, <2>2 DEF HealthOf, LatestOf
    <3>. QED  BY <1>6, <1>7, <3>1
  <2>. QED  BY <2>1, <2>2
<1>. QED  BY <1>1, <1>2, <1>3, <1>4, <1>6, <1>7, <1>8

LEMMA DelayedKeepsCounters ==
  ASSUME CountersIInv, NEW c \in Commands, RecordDelayed(c)
  PROVE  IsFiniteSet(snapshots') /\ CountersTellHistory'
<1>. PICK e : e = c.entry
  OBVIOUS
<1>1. /\ Accepted(c) /\ ~Newer(c) /\ snapshots' = snapshots \cup {FiledRow(c)}
      /\ UNCHANGED <<sources, entries>>
  BY DEF RecordDelayed, FiledRow
<1>2. /\ IsFiniteSet(snapshots') /\ c \notin FiledFor(e) /\ entries[e] \in Entry /\ e \in Entries
      /\ c.completed \in Nat /\ c.completed > Never
      /\ \A x \in FiledFor(e) : x.completed \in Nat /\ x.completed <= entries[e].checked
      /\ entries[e].success <= entries[e].checked
  BY <1>1, FilingHistory
<1>3. \A x : CompleteLists(x)' = CompleteLists(x)
  BY <1>1, ListsAfterFiling DEF Added, Applies
<1>4. \A x : FiledFor(x)' = FiledFor(x) \cup IF e = x THEN {c} ELSE {}
  BY <1>1, FiledAfter
<1>5. \A s \in Sources : CountOf(s) => CountOf(s)'
  BY <1>1, <1>3, SameListsSameCount
<1>6. HealthOf(e) => HealthOf(e)'
  <2>. SUFFICES ASSUME HealthOf(e) PROVE HealthOf(e)'
    OBVIOUS
  <2>1. c.completed <= entries[e].checked
    BY <1>1, <1>2 DEF Newer, Entry
  <2>2. FiledFor(e) # {}
    BY <1>2, <2>1 DEF HealthOf, LatestOf, Never
  <2>3. LatestOf(entries[e].checked, FiledFor(e) \cup {c})
    BY <2>1, <2>2 DEF HealthOf, LatestOf
  <2>4. FailedSince(e) \subseteq FailedSince(e)'
    BY <1>1, <1>3, <1>4 DEF FailedSince
  <2>5. /\ IsFiniteSet(FailedSince(e)') /\ Cardinality(FailedSince(e)) <= Cardinality(FailedSince(e)')
        /\ Cardinality(FailedSince(e)) \in Nat /\ Cardinality(FailedSince(e)') \in Nat
    <3>1. FailedSince(e)' \subseteq FailedSince(e) \cup {c}
      BY <1>1, <1>3, <1>4 DEF FailedSince
    <3>2. IsFiniteSet(FailedSince(e))
      BY HistoryIsFinite DEF CountersIInv, IInv, TypeOK
    <3>. QED  BY <2>4, <3>1, <3>2, FS_AddElement, FS_Subset, FS_CardinalityType
  <2>6. entries[e].failures \in Nat
    BY <1>2 DEF Entry
  <2>7. FiledFor(e)' = FiledFor(e) \cup {c}
    BY <1>4
  <2>. QED  BY <1>1, <1>3, <2>3, <2>5, <2>6, <2>7 DEF HealthOf, LatestOf
<1>7. \A x \in Entries : x # e /\ HealthOf(x) => HealthOf(x)'
  BY <1>1, <1>3, <1>4, SameHealth
<1>. QED
  BY <1>2, <1>5, <1>6, <1>7, CountBySource, HealthByEntry DEF CountersIInv, CountersTellHistory

LEMMA IncompleteKeepsCounters ==
  ASSUME CountersIInv, NEW c \in Commands, RecordIncomplete(c)
  PROVE  IsFiniteSet(snapshots') /\ CountersTellHistory'
<1>. PICK e : e = c.entry
  OBVIOUS
<1>1. /\ Accepted(c) /\ Newer(c) /\ ~CompleteList(c) /\ snapshots' = snapshots \cup {FiledRow(c)}
      /\ UNCHANGED sources /\ entries' = [entries EXCEPT ![e] = Health(entries[e], c)]
  BY DEF RecordIncomplete, RecordHealth, FiledRow, Applies
<1>2. /\ IsFiniteSet(snapshots') /\ c \notin FiledFor(e) /\ entries[e] \in Entry /\ e \in Entries
      /\ c.completed \in Nat /\ c.completed > Never
      /\ \A x \in FiledFor(e) : x.completed \in Nat /\ x.completed <= entries[e].checked
      /\ entries[e].success <= entries[e].checked
      /\ \A x \in CompleteLists(e) : x \in FiledFor(e)
  BY <1>1, FilingHistory
<1>3. \A x : CompleteLists(x)' = CompleteLists(x)
  BY <1>1, ListsAfterFiling DEF Added, Applies
<1>4. \A x : FiledFor(x)' = FiledFor(x) \cup IF e = x THEN {c} ELSE {}
  BY <1>1, FiledAfter
<1>5. \A s \in Sources : CountOf(s) => CountOf(s)'
  BY <1>1, <1>3, SameListsSameCount
<1>6. /\ entries'[e].failures = entries[e].failures + 1
      /\ entries'[e].checked = c.completed /\ entries'[e].success = entries[e].success
      /\ \A x \in Entries : x # e => entries'[x] = entries[x]
  BY <1>1, <1>2 DEF Health, Entry, CountersIInv, IInv, TypeOK
<1>7. HealthOf(e) => HealthOf(e)'
  <2>. SUFFICES ASSUME HealthOf(e) PROVE HealthOf(e)'
    OBVIOUS
  <2>1. c.completed > entries[e].checked
    BY <1>1 DEF Newer
  <2>2. entries[e].checked \in Nat /\ entries[e].success \in Nat /\ entries[e].failures \in Nat
    BY <1>2 DEF Entry
  <2>3. FiledFor(e)' = FiledFor(e) \cup {c}
    BY <1>4
  <2>4. LatestOf(c.completed, FiledFor(e) \cup {c})
    <3>1. \A x \in FiledFor(e) \cup {c} : x.completed <= c.completed
      BY <1>2, <2>1, <2>2
    <3>. QED  BY <3>1 DEF LatestOf
  <2>5. FailedSince(e)' = FailedSince(e) \cup {c}
    <3>1. c \notin CompleteLists(e)
      BY <1>2
    <3>2. c.completed > entries[e].success
      BY <1>2, <2>1, <2>2
    <3>. QED  BY <1>3, <1>6, <2>3, <3>1, <3>2 DEF FailedSince
  <2>6. c \notin FailedSince(e)
    BY <1>2 DEF FailedSince
  <2>7. IsFiniteSet(FailedSince(e))
    BY HistoryIsFinite DEF CountersIInv, IInv, TypeOK
  <2>8. Cardinality(FailedSince(e) \cup {c}) = Cardinality(FailedSince(e)) + 1
        /\ Cardinality(FailedSince(e)) \in Nat
    BY <2>6, <2>7, FS_AddElement, FS_CardinalityType
  <2>9. entries[e].failures + 1 <= Cardinality(FailedSince(e) \cup {c})
    BY <2>2, <2>8 DEF HealthOf
  <2>. QED  BY <1>3, <1>6, <2>3, <2>4, <2>5, <2>9 DEF HealthOf, LatestOf
<1>8. \A x \in Entries : x # e /\ HealthOf(x) => HealthOf(x)'
  BY <1>3, <1>4, <1>6, SameHealth
<1>. QED
  BY <1>2, <1>5, <1>7, <1>8, CountBySource, HealthByEntry DEF CountersIInv, CountersTellHistory

\* A complete list that is applied is later than all before it: it is one more
\* absence of a source that it lacks, and the end of the absences of the others.
LEMMA AbsencesAfterList ==
  ASSUME NEW s \in Sources, NEW e, NEW c, e = sources[s].entry, sources'[s].entry = e,
         CompleteLists(e)' = CompleteLists(e) \cup {c},
         c.completed \in Nat,
         \A x \in CompleteLists(e) : x.completed \in Nat /\ x.completed < c.completed
  PROVE  Absences(s)' = IF s \in c.seen THEN {} ELSE Absences(s) \cup {c}
<1>1. CompleteLists(sources[s].entry)' = CompleteLists(e) \cup {c}
  BY DEF CompleteLists
<1>. DEFINE lists == CompleteLists(e) \cup {c}
<1>2. Absences(s)' = {x \in lists : \A d \in lists : s \in d.seen => d.completed < x.completed}
  BY <1>1 DEF Absences
<1>3. CASE s \in c.seen
  BY <1>2, <1>3
<1>4. CASE s \notin c.seen
  <2>1. \A x \in CompleteLists(e) :
          (\A d \in lists : s \in d.seen => d.completed < x.completed)
            <=> (\A d \in CompleteLists(e) : s \in d.seen => d.completed < x.completed)
    BY <1>4
  <2>2. \A d \in lists : s \in d.seen => d.completed < c.completed
    BY <1>4
  <2>. QED  BY <1>2, <1>4, <2>1, <2>2 DEF Absences
<1>. QED  BY <1>3, <1>4

LEMMA CompleteKeepsCounters ==
  ASSUME CountersIInv, NEW c \in Commands, RecordComplete(c)
  PROVE  IsFiniteSet(snapshots') /\ CountersTellHistory'
<1>. PICK e : e = c.entry
  OBVIOUS
<1>1. /\ Accepted(c) /\ Newer(c) /\ Applies(c) /\ CompleteList(c)
      /\ snapshots' = snapshots \cup {FiledRow(c)}
      /\ sources' = AfterList(c) /\ entries' = [entries EXCEPT ![e] = Health(entries[e], c)]
  BY DEF RecordComplete, RecordHealth, FiledRow, Applies
<1>2. /\ IsFiniteSet(snapshots') /\ c \notin FiledFor(e) /\ entries[e] \in Entry /\ e \in Entries
      /\ c.completed \in Nat /\ c.completed > Never
      /\ \A x \in FiledFor(e) : x.completed \in Nat /\ x.completed <= entries[e].checked
      /\ \A x \in CompleteLists(e) : x \in FiledFor(e)
  BY <1>1, FilingHistory
<1>3. \A x : CompleteLists(x)' = CompleteLists(x) \cup IF x = e THEN {c} ELSE {}
  BY <1>1, ListsAfterFiling DEF Added
<1>4. \A x : FiledFor(x)' = FiledFor(x) \cup IF e = x THEN {c} ELSE {}
  BY <1>1, FiledAfter
<1>5. \A x \in FiledFor(e) : x.completed < c.completed
  BY <1>1, <1>2 DEF Newer, Entry
<1>6. ASSUME NEW s \in Sources, CountOf(s) PROVE CountOf(s)'
  <2>1. TypeOK /\ sources[s] \in Source
    BY DEF CountersIInv, IInv, TypeOK
  <2>2. sources'[s].entry = sources[s].entry
    BY <1>1, <2>1, AfterListRows
  <2>3. CASE sources[s].entry # e
    <3>1. sources'[s] = sources[s]
      BY <1>1, <2>1, <2>3, AfterListRows DEF SourcesOf
    <3>2. PICK f : f = sources[s].entry
      OBVIOUS
    <3>3. CompleteLists(f)' = CompleteLists(f)
      BY <1>3, <2>3, <3>2
    <3>. QED  BY <1>6, <3>1, <3>2, <3>3, SameListsSameCount
  <2>4. CASE sources[s].entry = e
    <3>1. s \in SourcesOf(c.entry)
      BY <2>4 DEF SourcesOf
    <3>2. /\ sources'[s].managed
          /\ s \in c.seen => sources'[s].missing = 0 /\ sources'[s].active
          /\ s \notin c.seen =>
               /\ sources'[s].missing = sources[s].missing + 1
               /\ sources'[s].active <=> (sources[s].active /\ sources[s].missing + 1 < Threshold)
      BY <1>1, <2>1, <3>1, AfterListRows
    <3>3. Absences(s)' = IF s \in c.seen THEN {} ELSE Absences(s) \cup {c}
      BY <1>2, <1>3, <1>5, <2>2, <2>4, AbsencesAfterList
    <3>4. sources[s].missing = Cardinality(Absences(s))
      BY <1>2, <1>6, <2>4, NoEntryAssumption DEF CountOf
    <3>5. IsFiniteSet(Absences(s)) /\ c \notin Absences(s)
      BY <1>2, <2>4, HistoryIsFinite DEF CountersIInv, IInv, TypeOK, Absences
    <3>6. sources'[s].missing = Cardinality(Absences(s)')
      BY <3>2, <3>3, <3>4, <3>5, FS_EmptySet, FS_AddElement
    <3>7. sources'[s].active => sources'[s].missing < Threshold
      BY <3>2 DEF Threshold
    <3>8. CompleteLists(e)' # {}
      BY <1>3
    <3>9. CompleteLists(sources[s].entry)' = CompleteLists(e)'
      BY <2>2, <2>4 DEF CompleteLists
    <3>. QED  BY <3>2, <3>6, <3>7, <3>8, <3>9 DEF CountOf
  <2>. QED  BY <2>3, <2>4
<1>7. /\ entries'[e].failures = 0
      /\ entries'[e].checked = c.completed /\ entries'[e].success = c.completed
      /\ \A x \in Entries : x # e => entries'[x] = entries[x]
  BY <1>1, <1>2 DEF Health, CountersIInv, IInv, TypeOK
<1>8. HealthOf(e)'
  <2>1. LatestOf(c.completed, FiledFor(e) \cup {c}) /\ LatestOf(c.completed, CompleteLists(e) \cup {c})
    <3>1. \A x \in FiledFor(e) \cup {c} : x.completed <= c.completed
      BY <1>2, <1>5
    <3>. QED  BY <1>2, <3>1 DEF LatestOf
  <2>2. FiledFor(e)' = FiledFor(e) \cup {c} /\ CompleteLists(e)' = CompleteLists(e) \cup {c}
    BY <1>3, <1>4
  <2>3. Cardinality(FailedSince(e)') \in Nat
    <3>1. IsFiniteSet(FailedSince(e)')
      <4>1. IsFiniteSet(FiledFor(e)')
        BY <2>2, HistoryIsFinite, FS_AddElement DEF CountersIInv, IInv, TypeOK
      <4>2. FailedSince(e)' \subseteq FiledFor(e)'
        BY DEF FailedSince
      <4>. QED  BY <4>1, <4>2, FS_Subset
    <3>. QED  BY <3>1, FS_CardinalityType
  <2>. QED  BY <1>7, <2>1, <2>2, <2>3 DEF HealthOf, LatestOf
<1>9. \A x \in Entries : x # e /\ HealthOf(x) => HealthOf(x)'
  BY <1>3, <1>4, <1>7, SameHealth
<1>. QED
  BY <1>2, <1>6, <1>8, <1>9, CountBySource, HealthByEntry DEF CountersIInv, CountersTellHistory

LEMMA ExpireKeepsCounters ==
  ASSUME CountersIInv, Expire
  PROVE  IsFiniteSet(snapshots') /\ CountersTellHistory'
<1>1. /\ sources' = [s \in Sources |-> [sources[s] EXCEPT !.active = @ /\ s \notin StaleSources]]
      /\ UNCHANGED <<entries, snapshots>>
  BY DEF Expire
<1>2. \A s \in Sources :
        /\ sources'[s].entry = sources[s].entry /\ sources'[s].managed = sources[s].managed
        /\ sources'[s].missing = sources[s].missing
  BY <1>1, ExpiredRows DEF CountersIInv, IInv
<1>3. \A s \in Sources : sources'[s].active => sources[s].active
  <2>1. \A s \in Sources : sources[s] \in Source
    BY DEF CountersIInv, IInv, TypeOK
  <2>. QED  BY <1>1, <2>1 DEF Source
<1>4. \A e : CompleteLists(e)' = CompleteLists(e) /\ FiledFor(e)' = FiledFor(e)
  BY <1>1 DEF CompleteLists, FiledFor
<1>5. \A s \in Sources : CountOf(s) => CountOf(s)'
  BY <1>2, <1>3, <1>4, SameListsSameCount
<1>6. \A e \in Entries : HealthOf(e) => HealthOf(e)'
  BY <1>1, <1>4, SameHealth
<1>. QED
  BY <1>1, <1>5, <1>6, CountBySource, HealthByEntry DEF CountersIInv, CountersTellHistory

\* Counters, flags and dates are what the snapshots on file come to, whatever
\* was late, repeated, partial or failed in between.
THEOREM CountersTell == Spec => []CountersTellHistory
<1>1. Init => CountersIInv
  BY CountersInit
<1>2. CountersIInv /\ [Next]_lifecycleVars => CountersIInv'
  <2>. SUFFICES ASSUME CountersIInv, [Next]_lifecycleVars PROVE IsFiniteSet(snapshots') /\ CountersTellHistory'
    BY NextPreservesIInv DEF CountersIInv
  <2>1. ASSUME NEW c \in Commands, Record(c) PROVE IsFiniteSet(snapshots') /\ CountersTellHistory'
    BY <2>1, DelayedKeepsCounters, IncompleteKeepsCounters, CompleteKeepsCounters DEF Record
  <2>2. CASE Expire
    BY <2>2, ExpireKeepsCounters
  <2>3. CASE Tick \/ UNCHANGED lifecycleVars
    <3>1. UNCHANGED <<sources, entries, snapshots>>
      BY <2>3 DEF Tick, lifecycleVars
    <3>2. \A e : CompleteLists(e)' = CompleteLists(e) /\ FiledFor(e)' = FiledFor(e)
      BY <3>1 DEF CompleteLists, FiledFor
    <3>3. \A s \in Sources : CountOf(s) => CountOf(s)'
      BY <3>1, <3>2, SameListsSameCount
    <3>4. \A e \in Entries : HealthOf(e) => HealthOf(e)'
      BY <3>1, <3>2, SameHealth
    <3>. QED
      BY <3>1, <3>3, <3>4, CountBySource, HealthByEntry DEF CountersIInv, CountersTellHistory
  <2>. QED  BY <2>1, <2>2, <2>3 DEF Next
<1>3. CountersIInv => CountersTellHistory
  BY DEF CountersIInv
<1>. QED  BY <1>1, <1>2, <1>3, PTL DEF Spec

-----------------------------------------------------------------------------
(***************************************************************************)
(* JobWriters: the same tables under more writers.                         *)
(*                                                                         *)
(* PostingFollowsSources does not hold there, and none of the three        *)
(* properties rests on it.  What they rest on is that all enumerations of  *)
(* the company file under one entry.  The code does not say so: it takes   *)
(* the primary entry, which other writers change.  But a primary entry was *)
(* inserted by the writer that chose it, which makes it a conflict for an  *)
(* enumeration, unless an enumeration had inserted it before (OneListed-   *)
(* Entry).  So the counter of a source never mixes lists of two entries,   *)
(* and a task that has saved its rows finds them where it left them        *)
(* (SoundTask).                                                            *)
(***************************************************************************)

\* A row that is not there is blank; one that is there belongs to an entry, and
\* one that enumerations feed to the entry of the list.
Blank(row) == row.entry = NoEntry /\ ~row.active /\ row.missing = 0
SoundRow(s, rows) ==
  /\ rows[s].posting = NoPosting => Blank(rows[s])
  /\ rows[s].posting # NoPosting => rows[s].entry \in Entries
  /\ rows[s].posting # NoPosting /\ s \in Enumerated => rows[s].entry = ListEntry

\* No enumeration inserts another entry, and whoever chose the primary entry found
\* or made its row.
OneListedEntry ==
  /\ \A e \in Entries : creator[e] = "jobhunt" => e = ListEntry
  /\ primary # NoEntry => creator[primary] # "nobody"

\* The rows a task has saved are there until it ends, the one it holds among
\* them.
SoundTask(worker, rows) ==
  /\ worker.jobs \subseteq Enumerated
  /\ worker.pc # "saved" => worker.held = NoPosting
  /\ worker.pc = "saved" =>
       /\ worker.entry = ListEntry
       /\ \A s \in worker.jobs : rows[s].posting # NoPosting
       /\ worker.held # NoPosting => \E s \in worker.jobs : rows[s].posting = worker.held

\* No snapshot is from the future.
NothingIsAhead == \A n \in snapshots : n.command.completed <= now

\* AbsentFromLatest for the sources of enumerations.
Absent(s, lists) == \E c \in lists : s \notin c.seen /\ \A b \in lists : b.completed <= c.completed
AbsencesAreCounted ==
  \A s \in Enumerated : sources[s].missing > 0 => Absent(s, CompleteLists(ListEntry))

WritersInv == /\ WritersTypeOK
              /\ \A s \in Sources : SoundRow(s, sources)
              /\ OneListedEntry
              /\ \A w \in Workers : SoundTask(workers[w], sources)
              /\ NothingIsAhead
              /\ ChecksAreLatest
              /\ AbsencesAreCounted

-----------------------------------------------------------------------------
\* A task that is idle is well typed and remembers nothing.
LEMMA IdleShape == /\ Idle \in Worker /\ Idle.pc = "idle" /\ Idle.jobs = {}
                   /\ \A rows : SoundTask(Idle, rows)
<1>1. (CHOOSE r \in Runs : TRUE) \in Runs
  BY WritersAssumption
<1>2. Idle \in Worker
  BY <1>1 DEF Idle, Worker, Never
<1>. QED  BY <1>2 DEF Idle, SoundTask

\* Initially there are no rows, no entries in use and no tasks.
LEMMA WritersStart == WritersInit => WritersInv
<1>. SUFFICES ASSUME WritersInit PROVE WritersInv
  OBVIOUS
<1>1. NoRow \in Source /\ NoRow.posting = NoPosting /\ NoRow.missing = 0 /\ Blank(NoRow)
  BY DEF NoRow, Source, Blank, Never
<1>2. TypeOK
  <2>1. sources \in [Sources -> Source]
    BY <1>1 DEF WritersInit
  <2>2. entries \in [Entries -> Entry]
    BY DEF WritersInit, Entry, Never
  <2>. QED  BY <2>1, <2>2 DEF WritersInit, TypeOK
<1>3. WritersTypeOK
  BY <1>2, IdleShape, WritersAssumption DEF WritersInit, WritersTypeOK, Creator
<1>4. \A s \in Sources : SoundRow(s, sources)
  BY <1>1 DEF WritersInit, SoundRow
<1>5. \A w \in Workers : SoundTask(workers[w], sources)
  BY IdleShape DEF WritersInit
<1>6. OneListedEntry /\ NothingIsAhead /\ ChecksAreLatest
  BY DEF WritersInit, OneListedEntry, NothingIsAhead, ChecksAreLatest
<1>7. AbsencesAreCounted
  BY <1>1, WritersAssumption DEF WritersInit, AbsencesAreCounted
<1>. QED  BY <1>3, <1>4, <1>5, <1>6, <1>7 DEF WritersInv

\* A task goes on or ends: nothing else is said of it, when the rows that are
\* there stay there and keep their posting as far as enumerations feed them.
LEMMA TasksGoOn ==
  ASSUME WritersInv, NEW w \in Workers, NEW worker \in Worker,
         workers' = [workers EXCEPT ![w] = worker],
         SoundTask(worker, sources'),
         \A s \in Enumerated : sources[s].posting # NoPosting => sources'[s].posting = sources[s].posting
  PROVE  workers' \in [Workers -> Worker] /\ \A v \in Workers : SoundTask(workers'[v], sources')
<1>1. workers \in [Workers -> Worker] /\ \A v \in Workers : SoundTask(workers[v], sources)
  BY DEF WritersInv, WritersTypeOK
<1>2. \A v \in Workers : SoundTask(workers[v], sources) => SoundTask(workers[v], sources')
  BY DEF SoundTask
<1>. QED  BY <1>1, <1>2

\* The same when all tasks stay where they are.
LEMMA TasksStay ==
  ASSUME WritersInv, workers' = workers,
         \A s \in Enumerated : sources[s].posting # NoPosting => sources'[s].posting = sources[s].posting
  PROVE  workers' \in [Workers -> Worker] /\ \A v \in Workers : SoundTask(workers'[v], sources')
<1>1. workers \in [Workers -> Worker] /\ \A v \in Workers : SoundTask(workers[v], sources)
  BY DEF WritersInv, WritersTypeOK
<1>2. \A v \in Workers : SoundTask(workers[v], sources) => SoundTask(workers[v], sources')
  BY DEF SoundTask
<1>. QED  BY <1>1, <1>2

\* A step of a task that touches no table.
LEMMA TaskAloneKeeps ==
  ASSUME WritersInv, NEW w \in Workers, NEW worker \in Worker,
         workers' = [workers EXCEPT ![w] = worker], SoundTask(worker, sources),
         UNCHANGED <<lifecycleVars, creator, primary>>, deaths' \in 0 .. MaxDeaths
  PROVE  WritersInv'
<1>1. UNCHANGED <<now, sources, postings, entries, snapshots, creator, primary>>
  BY DEF lifecycleVars
<1>2. workers' \in [Workers -> Worker] /\ \A v \in Workers : SoundTask(workers'[v], sources')
  BY <1>1, TasksGoOn
<1>3. WritersTypeOK'
  BY <1>1, <1>2 DEF WritersInv, WritersTypeOK, TypeOK
<1>4. CompleteLists(ListEntry)' = CompleteLists(ListEntry)
  BY <1>1 DEF CompleteLists
<1>5. \A s \in Sources : SoundRow(s, sources')
  BY <1>1 DEF WritersInv
<1>6. OneListedEntry' /\ NothingIsAhead' /\ ChecksAreLatest' /\ AbsencesAreCounted'
  BY <1>1, <1>4 DEF WritersInv, OneListedEntry, NothingIsAhead, ChecksAreLatest, AbsencesAreCounted
<1>. QED  BY <1>2, <1>3, <1>5, <1>6 DEF WritersInv

\* Whatever the primary entry is, rows are filed under the entry of the list.
LEMMA FiledUnderListEntry ==
  ASSUME WritersInv, NEW jobs, Fileable(jobs)
  PROVE  EntryFor = ListEntry
<1>1. CASE primary = NoEntry
  BY <1>1 DEF EntryFor
<1>2. CASE primary # NoEntry
  <2>1. primary \in Entries /\ creator[primary] \in Creator /\ creator[primary] # "nobody"
    BY <1>2 DEF WritersInv, WritersTypeOK, OneListedEntry
  <2>2. EntryFor = primary /\ creator[primary] # "other"
    BY <1>2 DEF EntryFor, Fileable
  <2>. QED  BY <2>1, <2>2 DEF Creator, WritersInv, OneListedEntry
<1>. QED  BY <1>1, <1>2

\* A snapshot that is no later than now may be filed, and what it adds to the
\* complete lists counts as an absence of the sources it lacks.
LEMMA TimesAreNumbers ==
  ASSUME WritersInv
  PROVE  /\ now \in Nat
         /\ \A n \in snapshots : n.command \in Commands /\ n.command.completed \in Nat
                                 /\ n.command.entry \in Entries
         /\ \A c \in CompleteLists(ListEntry) : c \in Commands /\ c.completed \in Nat
<1>1. now \in Nat /\ snapshots \subseteq Snapshot
  BY DEF WritersInv, WritersTypeOK, TypeOK
<1>2. \A n \in snapshots : n.command \in Commands
  BY <1>1 DEF Snapshot
<1>3. \A c \in CompleteLists(ListEntry) : \E n \in snapshots : n.command = c
  BY DEF CompleteLists, ListsIn
<1>. QED  BY <1>1, <1>2, <1>3, CommandShape

\* The rows after the first transaction of an enumeration.
LEMMA SavedRows ==
  ASSUME WritersInv, NEW w \in Workers, SaveRows(w)
  PROVE  /\ EntryFor = ListEntry
         /\ sources' \in [Sources -> Source]
         /\ \A s \in Sources : SoundRow(s, sources')
         /\ \A s \in Sources : sources[s].posting # NoPosting =>
              /\ sources'[s].posting = sources[s].posting
              /\ sources[s].active => sources'[s].active
         /\ \A s \in workers[w].jobs :
              s \in Enumerated /\ s \in Sources /\ sources'[s].posting \in Postings /\ sources'[s].active
         /\ \A s \in Sources : sources'[s].missing = sources[s].missing
         /\ \A s \in workers[w].jobs : ~Exists(s) => sources'[s].posting = Home[s].posting
<1>. DEFINE jobs == workers[w].jobs
            old(s) == SeenAgain(sources[s], workers[w].observed)
            new(s) == NewRow(Home[s].posting, EntryFor, workers[w].observed)
<1>1. EntryFor = ListEntry /\ ListEntry \in Entries
  BY FiledUnderListEntry, WritersAssumption DEF SaveRows
<1>2. workers[w] \in Worker /\ jobs \subseteq Enumerated /\ Enumerated \subseteq Sources
  BY WritersAssumption DEF WritersInv, WritersTypeOK, SoundTask
<1>3. workers[w].observed \in Nat
  BY <1>2 DEF Worker
<1>4. \A s \in Sources : sources[s] \in Source /\ SoundRow(s, sources)
  BY DEF WritersInv, WritersTypeOK, TypeOK
<1>5. ASSUME NEW s \in Sources
      PROVE  /\ old(s) \in Source /\ old(s).posting = sources[s].posting /\ old(s).entry = ListEntry
             /\ old(s).active /\ old(s).missing = sources[s].missing
  BY <1>1, <1>3, <1>4 DEF SeenAgain, Source
<1>6. ASSUME NEW s \in Sources
      PROVE  /\ new(s) \in Source /\ new(s).posting = Home[s].posting /\ new(s).posting \in Postings
             /\ new(s).entry = ListEntry /\ new(s).active /\ new(s).missing = 0
  BY <1>1, <1>3, HomeAssumption DEF NewRow, Source
<1>. HIDE DEF old, new
<1>7. sources' = [s \in Sources |-> IF s \notin jobs THEN sources[s]
                                    ELSE IF Exists(s) THEN old(s) ELSE new(s)]
  BY DEF SaveRows, old, new
<1>8. \A s \in Sources : ~Exists(s) => sources[s].missing = 0
  BY <1>4 DEF SoundRow, Exists, Blank
<1>9. \A s \in Sources : Exists(s) => sources[s].posting \in Postings
  BY <1>4 DEF Exists, Source
<1>10. sources' \in [Sources -> Source]
  BY <1>4, <1>5, <1>6, <1>7
<1>11. \A s \in Sources : SoundRow(s, sources')
  BY <1>1, <1>2, <1>4, <1>5, <1>6, <1>7, NoPostingAssumption DEF SoundRow, Exists
<1>12. \A s \in jobs : s \in Sources /\ sources'[s].posting \in Postings /\ sources'[s].active
  BY <1>2, <1>5, <1>6, <1>7, <1>9
<1>13. \A s \in Sources : sources'[s].missing = sources[s].missing
  BY <1>5, <1>6, <1>7, <1>8
<1>14. \A s \in Sources : sources[s].posting # NoPosting =>
         sources'[s].posting = sources[s].posting /\ (sources[s].active => sources'[s].active)
  BY <1>5, <1>7 DEF Exists
<1>. QED  BY <1>1, <1>2, <1>6, <1>7, <1>10, <1>11, <1>12, <1>13, <1>14

LEMMA SaveRowsKeeps ==
  ASSUME WritersInv, NEW w \in Workers, SaveRows(w)
  PROVE  WritersInv'
<1>. DEFINE jobs == workers[w].jobs
<1>1. /\ creator' = [creator EXCEPT ![EntryFor] = "jobhunt"]
      /\ Held(w, sources', postings')
      /\ UNCHANGED <<now, entries, snapshots, primary, deaths>>
      /\ postings' = WithPostings({Home[s].posting : s \in {j \in jobs : ~Exists(j)}})
  BY DEF SaveRows
<1>2. EntryFor = ListEntry /\ ListEntry \in Entries
  BY SavedRows, WritersAssumption
<1>3. /\ workers \in [Workers -> Worker] /\ workers[w] \in Worker /\ now \in Nat
      /\ creator \in [Entries -> Creator] /\ postings \in [Postings -> {"absent", "active", "inactive"}]
  BY DEF WritersInv, WritersTypeOK, TypeOK
<1>4. postings' \in [Postings -> {"absent", "active", "inactive"}]
  BY <1>1, <1>3 DEF WithPostings
<1>5. PICK worker \in Worker : workers' = [workers EXCEPT ![w] = worker] /\ SoundTask(worker, sources')
  <2>1. jobs \subseteq Enumerated
        /\ \A s \in jobs : sources'[s].posting \in Postings /\ sources'[s].posting # NoPosting
    BY SavedRows, NoPostingAssumption
  <2>2. CASE jobs = {} /\ workers' = [workers EXCEPT ![w].pc = "saved", ![w].entry = EntryFor,
                                                     ![w].completed = now]
    <3>. DEFINE x == [workers[w] EXCEPT !.pc = "saved", !.entry = EntryFor, !.completed = now]
    <3>1. x \in Worker /\ x.jobs = {} /\ x.entry = ListEntry /\ x.held = workers[w].held
      BY <1>2, <1>3, <2>2 DEF Worker
    <3>2. workers' = [workers EXCEPT ![w] = x]
      BY <1>3, <2>2
    <3>3. workers[w].held = NoPosting
      BY DEF WritersInv, SoundTask, SaveRows
    <3>. QED  BY <3>1, <3>2, <3>3 DEF SoundTask
  <2>3. ASSUME NEW last \in jobs,
               workers' = [workers EXCEPT ![w].pc = "saved", ![w].entry = EntryFor, ![w].completed = now,
                                          ![w].held = sources'[last].posting,
                                          ![w].loaded = postings'[sources'[last].posting]]
        PROVE  \E x \in Worker : workers' = [workers EXCEPT ![w] = x] /\ SoundTask(x, sources')
    <3>. DEFINE p == sources'[last].posting
                a == postings'[p]
                x == [workers[w] EXCEPT !.pc = "saved", !.entry = EntryFor, !.completed = now,
                                        !.held = p, !.loaded = a]
    <3>1. p \in Postings /\ a \in {"absent", "active", "inactive"}
      BY <1>4, <2>1
    <3>. HIDE DEF p, a
    <3>2. x \in Worker /\ x.jobs = jobs /\ x.entry = ListEntry /\ x.held = p
      BY <1>2, <1>3, <3>1 DEF Worker
    <3>3. workers' = [workers EXCEPT ![w] = x]
      BY <1>3, <2>3 DEF p, a
    <3>4. SoundTask(x, sources')
      BY <2>1, <3>2 DEF SoundTask, p
    <3>. QED  BY <3>2, <3>3, <3>4
  <2>. QED  BY <1>1, <2>2, <2>3 DEF Held
<1>6. \A s \in Enumerated : sources[s].posting # NoPosting => sources'[s].posting = sources[s].posting
  BY SavedRows, WritersAssumption
<1>7. workers' \in [Workers -> Worker] /\ \A v \in Workers : SoundTask(workers'[v], sources')
  BY <1>5, <1>6, TasksGoOn
<1>8. WritersTypeOK'
  <2>1. creator' \in [Entries -> Creator]
    BY <1>1, <1>2, <1>3 DEF Creator
  <2>2. TypeOK'
    BY <1>1, <1>4, SavedRows DEF WritersInv, WritersTypeOK, TypeOK
  <2>. QED  BY <1>1, <1>7, <2>1, <2>2 DEF WritersInv, WritersTypeOK
<1>9. OneListedEntry'
  <2>1. \A e \in Entries : creator'[e] = IF e = ListEntry THEN "jobhunt" ELSE creator[e]
    BY <1>1, <1>2, <1>3
  <2>2. primary \in Entries \cup {NoEntry}
    BY DEF WritersInv, WritersTypeOK
  <2>. QED  BY <1>1, <2>1, <2>2 DEF WritersInv, OneListedEntry
<1>10. CompleteLists(ListEntry)' = CompleteLists(ListEntry)
  BY <1>1 DEF CompleteLists
<1>11. AbsencesAreCounted'
  BY <1>10, SavedRows, WritersAssumption DEF WritersInv, AbsencesAreCounted
<1>12. NothingIsAhead' /\ ChecksAreLatest'
  BY <1>1 DEF WritersInv, NothingIsAhead, ChecksAreLatest
<1>. QED  BY <1>7, <1>8, <1>9, <1>11, <1>12, SavedRows DEF WritersInv

\* A snapshot that is filed changes nothing about the lists unless it was
\* applied, and none of it is from the future.
LEMMA FilingKeepsAbsences ==
  ASSUME WritersInv, NEW c \in Commands, NEW b \in BOOLEAN,
         snapshots' = snapshots \cup {[command |-> c, applied |-> b]},
         c.completed <= now, now' = now,
         ~b, \A s \in Enumerated : sources'[s].missing = sources[s].missing
  PROVE  snapshots' \subseteq Snapshot /\ NothingIsAhead' /\ AbsencesAreCounted'
<1>. DEFINE n == [command |-> c, applied |-> b]
<1>1. n \in Snapshot /\ n.command = c /\ n.applied = b
  BY DEF Snapshot
<1>0. ~n.applied
  OBVIOUS
<1>. HIDE DEF n
<1>2. snapshots' \subseteq Snapshot
  BY <1>1 DEF WritersInv, WritersTypeOK, TypeOK, n
<1>3. ListsIn(snapshots \cup {n}, ListEntry) = ListsIn(snapshots, ListEntry)
  <2>1. ListsIn(snapshots \cup {n}, ListEntry) =
          ListsIn(snapshots, ListEntry) \cup
            (IF n.applied /\ n.command.entry = ListEntry /\ CompleteList(n.command)
             THEN {n.command} ELSE {})
    BY ListsOfFiled
  <2>. QED  BY <1>0, <2>1
<1>4. CompleteLists(ListEntry)' = CompleteLists(ListEntry)
  BY <1>3 DEF CompleteLists, n
<1>5. AbsencesAreCounted'
  BY <1>4 DEF WritersInv, AbsencesAreCounted
<1>6. NothingIsAhead'
  BY <1>1 DEF WritersInv, NothingIsAhead, n
<1>. QED  BY <1>2, <1>5, <1>6

\* The command of a task that has saved its rows.
LEMMA ListCommandOfTask ==
  ASSUME WritersInv, NEW w \in Workers, workers[w].pc = "saved"
  PROVE  /\ ListCommand(workers[w]).entry = ListEntry
         /\ ListCommand(workers[w]).seen = workers[w].jobs
  BY DEF WritersInv, SoundTask, ListCommand

\* A list that is recorded without being applied.
LEMMA RecordOnlyKeeps ==
  ASSUME WritersInv, NEW w \in Workers, NEW c \in Commands, RecordDelayed(c) \/ RecordIncomplete(c),
         workers' = [workers EXCEPT ![w] = Idle], UNCHANGED <<creator, primary, deaths>>
  PROVE  WritersInv'
<1>1. /\ snapshots' = snapshots \cup {[command |-> c, applied |-> Applies(c)]}
      /\ ~Applies(c) /\ c.completed <= now /\ UNCHANGED <<now, sources, postings>>
  BY DEF RecordDelayed, RecordIncomplete, RecordHealth, Applies, Accepted
<1>2. snapshots' \subseteq Snapshot /\ NothingIsAhead' /\ AbsencesAreCounted'
  <2>1. Applies(c) \in BOOLEAN
    BY DEF Applies
  <2>. QED  BY <1>1, <2>1, FilingKeepsAbsences
<1>3. entries' \in [Entries -> Entry] /\ ChecksAreLatest'
  <2>1. TypeOK /\ ChecksAreLatest
    BY DEF WritersInv, WritersTypeOK
  <2>2. CASE RecordIncomplete(c)
    BY <2>1, <2>2, HealthStep DEF RecordIncomplete
  <2>3. CASE RecordDelayed(c)
    <3>1. c.entry \in Entries /\ c.completed \in Nat /\ entries[c.entry].checked \in Nat
      BY <2>1, CommandShape DEF TypeOK, Entry
    <3>2. c.completed <= entries[c.entry].checked /\ entries' = entries
      BY <2>3, <3>1 DEF RecordDelayed, Newer
    <3>. QED  BY <1>1, <2>1, <3>2 DEF ChecksAreLatest, TypeOK
  <2>. QED  BY <2>2, <2>3
<1>4. workers' \in [Workers -> Worker] /\ \A v \in Workers : SoundTask(workers'[v], sources')
  BY <1>1, TasksGoOn, IdleShape
<1>5. WritersTypeOK'
  BY <1>1, <1>2, <1>3, <1>4 DEF WritersInv, WritersTypeOK, TypeOK
<1>6. (\A s \in Sources : SoundRow(s, sources')) /\ OneListedEntry'
  BY <1>1 DEF WritersInv, OneListedEntry
<1>. QED  BY <1>2, <1>3, <1>4, <1>5, <1>6 DEF WritersInv

\* What an applied list of the entry of the list does to the rows.
LEMMA ListedRows ==
  ASSUME WritersInv, NEW c \in Commands, c.entry = ListEntry
  PROVE  /\ AfterList(c) \in [Sources -> Source]
         /\ \A s \in Sources : AfterList(c)[s].posting = sources[s].posting
         /\ \A s \in Sources : SoundRow(s, AfterList(c))
         /\ \A s \in Sources : AfterList(c)[s].active /\ ~sources[s].active => s \in c.seen
<1>1. TypeOK /\ \A s \in Sources : SoundRow(s, sources)
  BY DEF WritersInv, WritersTypeOK
<1>2. \A s \in Sources : Blank(sources[s]) => s \notin SourcesOf(c.entry)
  BY NoEntryAssumption, WritersAssumption DEF SourcesOf, Blank
<1>3. \A s \in Sources : SoundRow(s, AfterList(c))
  BY <1>1, <1>2, AfterListRows DEF SoundRow
<1>4. \A s \in Sources : AfterList(c)[s].active /\ ~sources[s].active => s \in c.seen
  BY <1>1, AfterListRows
<1>. QED  BY <1>1, <1>3, <1>4, AfterListRows

LEMMA RecordThroughSessionKeeps ==
  ASSUME WritersInv, NEW w \in Workers, NEW c \in Commands, c.entry = ListEntry,
         RecordThroughSession(workers[w], c),
         workers' = [workers EXCEPT ![w] = Idle], UNCHANGED <<creator, primary, deaths>>
  PROVE  WritersInv'
<1>1. /\ RecordHealth(c) /\ Applies(c) /\ now' = now /\ sources' = AfterList(c)
      /\ postings' = Flushed(workers[w], Recomputed(sources', Affected(SourcesOf(c.entry))))
      /\ snapshots' = snapshots \cup {FiledRow(c)} /\ c.completed <= now
  BY DEF RecordThroughSession, RecordHealth, FiledRow, Accepted
<1>2. TypeOK /\ ChecksAreLatest
  BY DEF WritersInv, WritersTypeOK
<1>3. /\ entries' \in [Entries -> Entry] /\ snapshots' \subseteq Snapshot /\ ChecksAreLatest'
      /\ \A n \in snapshots : n.command.entry = c.entry => n.command.completed < c.completed
  BY <1>1, <1>2, HealthStep
<1>4. postings' \in [Postings -> {"absent", "active", "inactive"}]
  BY <1>1, <1>2 DEF Flushed, Recomputed, TypeOK
<1>5. workers' \in [Workers -> Worker] /\ \A v \in Workers : SoundTask(workers'[v], sources')
  BY <1>1, TasksGoOn, IdleShape, ListedRows, WritersAssumption
<1>6. WritersTypeOK'
  BY <1>1, <1>2, <1>3, <1>4, <1>5, ListedRows DEF WritersInv, WritersTypeOK, TypeOK
<1>7. NothingIsAhead'
  BY <1>1, FiledRowShape DEF WritersInv, NothingIsAhead
<1>8. AbsencesAreCounted'
  <2>1. CompleteLists(ListEntry)' = CompleteLists(ListEntry) \cup {c}
    BY <1>1, ListsAfterFiling DEF Added
  <2>2. \A b \in CompleteLists(ListEntry) : b.completed < c.completed
    BY <1>3, ListsAreFiled DEF CompleteLists
  <2>3. \A b \in CompleteLists(ListEntry) \cup {c} : b.completed <= c.completed
    BY <2>2, TimesAreNumbers, CommandShape
  <2>4. ASSUME NEW s \in Enumerated, sources'[s].missing > 0
        PROVE  Absent(s, CompleteLists(ListEntry)')
    <3>0. s \in Sources
      BY WritersAssumption
    <3>1. CASE s \in SourcesOf(c.entry)
      <4>1. s \notin c.seen
        BY <1>1, <1>2, <2>4, <3>1, AfterListRows
      <4>. QED  BY <2>1, <2>3, <4>1 DEF Absent
    <3>2. CASE s \notin SourcesOf(c.entry)
      <4>1. sources[s].missing > 0 /\ sources[s].entry # ListEntry
        BY <1>1, <1>2, <2>4, <3>0, <3>2, AfterListRows DEF SourcesOf
      <4>2. Blank(sources[s])
        BY <3>0, <4>1 DEF WritersInv, SoundRow
      <4>. QED  BY <4>1, <4>2 DEF Blank, WritersInv, WritersTypeOK, TypeOK
    <3>. QED  BY <3>1, <3>2
  <2>. QED  BY <2>4 DEF AbsencesAreCounted
<1>9. (\A s \in Sources : SoundRow(s, sources')) /\ OneListedEntry'
  BY <1>1, ListedRows DEF WritersInv, OneListedEntry
<1>. QED  BY <1>3, <1>5, <1>6, <1>7, <1>8, <1>9 DEF WritersInv

\* Whoever chooses the primary entry finds it or inserts it.
LEMMA ChosenKeeps ==
  ASSUME WritersInv, NEW e \in Entries, Chosen(e)
  PROVE  OneListedEntry' /\ creator' \in [Entries -> Creator] /\ primary' \in Entries
<1>1. creator \in [Entries -> Creator] /\ OneListedEntry
  BY DEF WritersInv, WritersTypeOK
<1>2. \A x \in Entries : creator'[x] = IF x = e /\ creator[x] = "nobody" THEN "other" ELSE creator[x]
  BY <1>1 DEF Chosen
<1>. QED  BY <1>1, <1>2 DEF Chosen, Creator, OneListedEntry

\* An entry that was found has a row like any other.
LEMMA FoundShape ==
  ASSUME WritersInv, NEW e \in Entries
  PROVE  /\ Found(e) \in Entry /\ Found(e).checked = now
         /\ [Found(e) EXCEPT !.failures = 0] \in Entry
         /\ [Found(e) EXCEPT !.failures = 0].checked = now
<1>1. entries[e] \in Entry /\ now \in Nat
  BY DEF WritersInv, WritersTypeOK, TypeOK
<1>2. Found(e) \in Entry /\ Found(e).checked = now
  BY <1>1 DEF Found, Entry
<1>3. \A x \in Entry : [x EXCEPT !.failures = 0] \in Entry /\ [x EXCEPT !.failures = 0].checked = x.checked
  BY DEF Entry
<1>. QED  BY <1>2, <1>3

\* A check that is made now is later than all snapshots on file.
LEMMA ChecksNow ==
  ASSUME WritersInv, NEW e \in Entries, NEW x \in Entry, x.checked = now,
         entries' = [entries EXCEPT ![e] = x],
         \A n \in snapshots' : n \in snapshots \/ (n.command.entry = e /\ n.command.completed <= now)
  PROVE  entries' \in [Entries -> Entry] /\ ChecksAreLatest'
<1>1. entries \in [Entries -> Entry] /\ NothingIsAhead /\ ChecksAreLatest
  BY DEF WritersInv, WritersTypeOK, TypeOK
<1>2. \A n \in snapshots : n.command.entry \in Entries
  BY TimesAreNumbers
<1>. QED  BY <1>1, <1>2 DEF NothingIsAhead, ChecksAreLatest

LEMMA VerifyEntryKeeps ==
  ASSUME WritersInv, NEW e \in Entries, VerifyEntry(e)
  PROVE  WritersInv'
<1>1. /\ Chosen(e) /\ entries' = [entries EXCEPT ![e] = [Found(e) EXCEPT !.failures = 0]]
      /\ UNCHANGED <<now, sources, postings, snapshots, workers, deaths>>
  BY DEF VerifyEntry
<1>2. entries' \in [Entries -> Entry] /\ ChecksAreLatest'
  BY <1>1, FoundShape, ChecksNow
<1>3. OneListedEntry' /\ creator' \in [Entries -> Creator] /\ primary' \in Entries
  BY <1>1, ChosenKeeps
<1>4. workers' \in [Workers -> Worker] /\ \A v \in Workers : SoundTask(workers'[v], sources')
  BY <1>1, TasksStay
<1>5. WritersTypeOK'
  BY <1>1, <1>2, <1>3, <1>4 DEF WritersInv, WritersTypeOK, TypeOK
<1>6. CompleteLists(ListEntry)' = CompleteLists(ListEntry)
  BY <1>1 DEF CompleteLists
<1>7. (\A s \in Sources : SoundRow(s, sources')) /\ NothingIsAhead' /\ AbsencesAreCounted'
  BY <1>1, <1>6 DEF WritersInv, NothingIsAhead, AbsencesAreCounted
<1>. QED  BY <1>2, <1>3, <1>4, <1>5, <1>7 DEF WritersInv

\* The rows after an ATS page.
LEMMA AtsRows ==
  ASSUME WritersInv, NEW e \in Entries, NEW jobs \in SUBSET AtsSources, NEW found \in [jobs -> Postings],
         sources' = [s \in Sources |-> IF s \in jobs THEN AtsRow(s, found[s], e) ELSE sources[s]]
  PROVE  /\ sources' \in [Sources -> Source]
         /\ \A s \in Sources : SoundRow(s, sources')
         /\ \A s \in Enumerated : sources'[s] = sources[s]
         /\ \A s \in Sources : s \notin jobs => sources'[s] = sources[s]
         /\ \A s \in jobs : s \in Sources /\ sources'[s].posting = found[s] /\ sources'[s].active
<1>1. now \in Nat /\ \A s \in Sources : sources[s] \in Source /\ SoundRow(s, sources)
  BY DEF WritersInv, WritersTypeOK, TypeOK
<1>2. jobs \subseteq Sources /\ jobs \cap Enumerated = {} /\ Enumerated \subseteq Sources
  BY WritersAssumption
<1>3. ASSUME NEW s \in jobs
      PROVE  /\ AtsRow(s, found[s], e) \in Source /\ AtsRow(s, found[s], e).posting = found[s]
             /\ AtsRow(s, found[s], e).entry = e /\ AtsRow(s, found[s], e).active
  <2>1. sources[s] \in Source /\ found[s] \in Postings
    BY <1>1, <1>2
  <2>2. CASE Exists(s)
    <3>1. AtsRow(s, found[s], e) = [sources[s] EXCEPT !.posting = found[s], !.entry = e,
                                                      !.active = TRUE, !.seen = now]
      BY <2>2 DEF AtsRow
    <3>. QED  BY <1>1, <2>1, <3>1 DEF Source
  <2>3. CASE ~Exists(s)
    BY <1>1, <2>1, <2>3 DEF AtsRow, NewRow, Source
  <2>. QED  BY <2>2, <2>3
<1>4. \A s \in Sources : sources'[s] = IF s \in jobs THEN AtsRow(s, found[s], e) ELSE sources[s]
  OBVIOUS
<1>5. sources' \in [Sources -> Source]
  BY <1>1, <1>3, <1>4
<1>6. \A s \in jobs : found[s] \in Postings
  OBVIOUS
<1>7. \A s \in Sources : SoundRow(s, sources')
  BY <1>1, <1>2, <1>3, <1>4, <1>6, NoPostingAssumption DEF SoundRow
<1>. QED  BY <1>2, <1>3, <1>4, <1>5, <1>7

LEMMA AtsWriteKeeps ==
  ASSUME WritersInv, NEW e \in AtsEntries, NEW r \in Runs, NEW jobs \in SUBSET AtsSources,
         NEW found \in [jobs -> Postings], AtsWrite(e, r, found)
  PROVE  WritersInv'
<1>. DEFINE c == AtsCommand(e, r, jobs)
<1>1. /\ c \in Commands /\ Chosen(e) /\ entries' = [entries EXCEPT ![e] = Found(e)]
      /\ sources' = [s \in Sources |-> IF s \in jobs THEN AtsRow(s, found[s], e) ELSE sources[s]]
      /\ postings' = WithPostings({found[s] : s \in jobs})
      /\ snapshots' = snapshots \cup {[command |-> c, applied |-> FALSE]}
      /\ UNCHANGED <<now, workers, deaths>>
  BY DEF AtsWrite
<1>2. e \in Entries /\ c.entry = e /\ c.completed = now /\ c.completed <= now
  BY WritersAssumption, TimesAreNumbers DEF AtsCommand
<1>. HIDE DEF c
<1>3. entries' \in [Entries -> Entry] /\ ChecksAreLatest'
  <2>1. \A n \in snapshots' : n \in snapshots \/ (n.command.entry = e /\ n.command.completed <= now)
    BY <1>1, <1>2
  <2>2. Found(e) \in Entry /\ Found(e).checked = now
    BY <1>2, FoundShape
  <2>. QED  BY <1>1, <1>2, <2>1, <2>2, ChecksNow
<1>4. OneListedEntry' /\ creator' \in [Entries -> Creator] /\ primary' \in Entries
  BY <1>1, <1>2, ChosenKeeps
<1>5. /\ sources' \in [Sources -> Source] /\ \A s \in Sources : SoundRow(s, sources')
      /\ \A s \in Enumerated : sources'[s] = sources[s]
  BY <1>1, <1>2, AtsRows
<1>6. workers' \in [Workers -> Worker] /\ \A v \in Workers : SoundTask(workers'[v], sources')
  BY <1>1, <1>5, TasksStay
<1>7. snapshots' \subseteq Snapshot /\ NothingIsAhead' /\ AbsencesAreCounted'
  BY <1>1, <1>2, <1>5, FilingKeepsAbsences
<1>8. postings' \in [Postings -> {"absent", "active", "inactive"}]
  BY <1>1 DEF WithPostings, WritersInv, WritersTypeOK, TypeOK
<1>9. WritersTypeOK'
  BY <1>1, <1>3, <1>4, <1>5, <1>6, <1>7, <1>8 DEF WritersInv, WritersTypeOK, TypeOK
<1>. QED  BY <1>3, <1>4, <1>5, <1>6, <1>7, <1>9 DEF WritersInv

LEMMA DailyKeeps ==
  ASSUME WritersInv, Daily
  PROVE  WritersInv'
<1>1. UNCHANGED <<workers, creator, primary, deaths, entries, snapshots>>
  BY DEF Daily, writerVars, Expire, Tick
<1>2. TypeOK
  BY DEF WritersInv, WritersTypeOK
<1>3. /\ sources' \in [Sources -> Source] /\ now' \in Nat /\ now <= now'
      /\ postings' \in [Postings -> {"absent", "active", "inactive"}]
      /\ \A s \in Sources : /\ sources'[s].posting = sources[s].posting
                            /\ sources'[s].missing = sources[s].missing
      /\ \A s \in Sources : SoundRow(s, sources')
  <2>1. CASE Expire
    <3>1. /\ sources' = [s \in Sources |-> [sources[s] EXCEPT !.active = @ /\ s \notin StaleSources]]
          /\ postings' = Recomputed(sources', Affected(StaleSources)) /\ now' = now
      BY <2>1 DEF Expire
    <3>2. postings' \in [Postings -> {"absent", "active", "inactive"}]
      BY <1>2, <3>1 DEF Recomputed, TypeOK
    <3>3. \A s \in Sources : sources'[s].active => sources[s].active
      BY <1>2, <3>1 DEF TypeOK, Source
    <3>4. /\ sources' \in [Sources -> Source]
          /\ \A s \in Sources :
               /\ sources'[s].posting = sources[s].posting /\ sources'[s].entry = sources[s].entry
               /\ sources'[s].missing = sources[s].missing
      BY <1>2, <3>1, ExpiredRows
    <3>5. \A s \in Sources : SoundRow(s, sources')
      BY <3>3, <3>4 DEF SoundRow, Blank, WritersInv
    <3>6. now \in Nat
      BY <1>2 DEF TypeOK
    <3>. QED  BY <3>1, <3>2, <3>4, <3>5, <3>6
  <2>2. CASE Tick
    BY <1>2, <2>2 DEF Tick, TypeOK, WritersInv
  <2>. QED  BY <2>1, <2>2 DEF Daily
<1>4. workers' \in [Workers -> Worker] /\ \A v \in Workers : SoundTask(workers'[v], sources')
  BY <1>1, <1>3, TasksStay, WritersAssumption
<1>5. WritersTypeOK'
  BY <1>1, <1>2, <1>3, <1>4 DEF WritersInv, WritersTypeOK, TypeOK
<1>6. NothingIsAhead'
  BY <1>1, <1>2, <1>3, TimesAreNumbers DEF WritersInv, NothingIsAhead, TypeOK
<1>7. CompleteLists(ListEntry)' = CompleteLists(ListEntry)
  BY <1>1 DEF CompleteLists
<1>8. AbsencesAreCounted'
  BY <1>3, <1>7, WritersAssumption DEF WritersInv, AbsencesAreCounted
<1>9. OneListedEntry' /\ ChecksAreLatest'
  BY <1>1 DEF WritersInv, OneListedEntry, ChecksAreLatest
<1>. QED  BY <1>3, <1>4, <1>5, <1>6, <1>8, <1>9 DEF WritersInv

\* The four ways of a task to leave the tables as they are.
LEMMA TasksOwnStepsKeep ==
  ASSUME WritersInv, NEW w \in Workers,
         StartEnumeration(w) \/ DropList(w) \/ RecordConflict(w) \/ WorkerDies(w)
  PROVE  WritersInv'
<1>1. deaths \in 0 .. MaxDeaths /\ MaxDeaths \in Nat /\ workers \in [Workers -> Worker] /\ now \in Nat
  BY WritersAssumption DEF WritersInv, WritersTypeOK, TypeOK
<1>2. CASE StartEnumeration(w)
  <2>1. PICK r \in Runs, jobs \in SUBSET Enumerated, complete \in Outcomes :
          workers' = [workers EXCEPT ![w] = [Idle EXCEPT !.pc = "listed", !.run = r, !.jobs = jobs,
                                               !.complete = complete, !.observed = now]]
    BY <1>2 DEF StartEnumeration
  <2>. DEFINE x == [Idle EXCEPT !.pc = "listed", !.run = r, !.jobs = jobs,
                                !.complete = complete, !.observed = now]
  <2>2. jobs \in SUBSET Sources /\ complete \in BOOLEAN
    BY WritersAssumption
  <2>3. x \in Worker
    BY <1>1, <2>2, IdleShape DEF Worker
  <2>4. x.pc = "listed" /\ x.jobs = jobs /\ x.held = NoPosting
    BY DEF Idle
  <2>5. SoundTask(x, sources)
    BY <2>4 DEF SoundTask
  <2>. QED  BY <1>1, <1>2, <2>1, <2>3, <2>5, TaskAloneKeeps DEF StartEnumeration
<1>3. CASE DropList(w) \/ RecordConflict(w)
  BY <1>1, <1>3, IdleShape, TaskAloneKeeps DEF DropList, RecordConflict
<1>4. CASE WorkerDies(w)
  <2>1. deaths' \in 0 .. MaxDeaths
    BY <1>1, <1>4 DEF WorkerDies
  <2>. QED  BY <1>4, <2>1, IdleShape, TaskAloneKeeps DEF WorkerDies
<1>. QED  BY <1>2, <1>3, <1>4

LEMMA RecordListKeeps ==
  ASSUME WritersInv, NEW w \in Workers, RecordList(w)
  PROVE  WritersInv'
<1>. DEFINE c == ListCommand(workers[w])
<1>1. /\ RecordDelayed(c) \/ RecordIncomplete(c) \/ RecordThroughSession(workers[w], c)
      /\ workers' = [workers EXCEPT ![w] = Idle] /\ UNCHANGED <<creator, primary, deaths>>
      /\ workers[w].pc = "saved"
  BY DEF RecordList
<1>2. c \in Commands
  BY <1>1 DEF RecordDelayed, RecordIncomplete, RecordThroughSession, RecordHealth, Accepted
<1>3. c.entry = ListEntry
  BY <1>1, ListCommandOfTask
<1>. HIDE DEF c
<1>. QED  BY <1>1, <1>2, <1>3, RecordOnlyKeeps, RecordThroughSessionKeeps

\* Every step of a writer preserves the invariant.
LEMMA WritersStepKeeps == WritersInv /\ [WritersNext]_vars => WritersInv'
<1>. SUFFICES ASSUME WritersInv, [WritersNext]_vars PROVE WritersInv'
  OBVIOUS
<1>1. ASSUME NEW w \in Workers, EnumerationStep(w) PROVE WritersInv'
  BY <1>1, TasksOwnStepsKeep, SaveRowsKeeps, RecordListKeeps DEF EnumerationStep
<1>2. ASSUME NEW e \in Entries, VerifyEntry(e) PROVE WritersInv'
  BY <1>2, VerifyEntryKeeps
<1>3. CASE AtsStep
  <2>1. PICK e \in AtsEntries, r \in Runs, jobs \in SUBSET AtsSources :
          \E found \in [jobs -> Postings] : AtsWrite(e, r, found)
    BY <1>3 DEF AtsStep
  <2>. QED  BY <2>1, AtsWriteKeeps
<1>4. CASE Daily
  BY <1>4, DailyKeeps
<1>5. CASE UNCHANGED vars
  <2>1. UNCHANGED <<now, sources, postings, entries, snapshots, workers, creator, primary, deaths>>
    BY <1>5 DEF vars, lifecycleVars, writerVars
  <2>2. CompleteLists(ListEntry)' = CompleteLists(ListEntry)
    BY <2>1 DEF CompleteLists
  <2>. QED  BY <2>1, <2>2 DEF WritersInv, WritersTypeOK, TypeOK, OneListedEntry, NothingIsAhead,
                             ChecksAreLatest, AbsencesAreCounted
<1>. QED  BY <1>1, <1>2, <1>3, <1>4, <1>5 DEF WritersNext

\* The invariant holds of every behaviour of the writers.
LEMMA WritersInvariant == WritersSpec => []WritersInv
<1>. QED  BY WritersStart, WritersStepKeeps, PTL DEF WritersSpec

\* Rows and tasks stay well typed.
THEOREM WritersTypes == WritersSpec => []WritersTypeOK
<1>1. WritersInv => WritersTypeOK
  BY DEF WritersInv
<1>. QED  BY <1>1, WritersInvariant, PTL

-----------------------------------------------------------------------------
\* A step of the writers is one of these, as far as tables are concerned.
LEMMA StepsOfWriters ==
  ASSUME [WritersNext]_vars
  PROVE  \/ UNCHANGED <<sources, postings, snapshots>>
         \/ \E w \in Workers : SaveRows(w)
         \/ \E w \in Workers : RecordList(w)
         \/ \E e \in AtsEntries, r \in Runs, jobs \in SUBSET AtsSources :
              \E found \in [jobs -> Postings] : AtsWrite(e, r, found)
         \/ Expire
<1>1. CASE \E w \in Workers : EnumerationStep(w)
  BY <1>1 DEF EnumerationStep, StartEnumeration, DropList, RecordConflict, WorkerDies, lifecycleVars
<1>2. CASE \E e \in Entries : VerifyEntry(e)
  BY <1>2 DEF VerifyEntry
<1>3. CASE AtsStep
  BY <1>3 DEF AtsStep
<1>4. CASE Daily
  BY <1>4 DEF Daily, Tick
<1>5. CASE UNCHANGED vars
  BY <1>5 DEF vars, lifecycleVars
<1>. QED  BY <1>1, <1>2, <1>3, <1>4, <1>5 DEF WritersNext

\* What the second transaction of a task does to the tables: it files only, or it
\* applies a list.
LEMMA RecordListTables ==
  ASSUME WritersInv, NEW w \in Workers, RecordList(w)
  PROVE  LET c == ListCommand(workers[w])
         IN  /\ c \in Commands /\ c.entry = ListEntry /\ c.seen = workers[w].jobs
             /\ snapshots' = snapshots \cup {FiledRow(c)}
             /\ \/ ~Applies(c) /\ UNCHANGED <<sources, postings>>
                \/ /\ Applies(c)
                   /\ sources' = AfterList(c)
                   /\ postings' = Flushed(workers[w], Recomputed(sources', Affected(SourcesOf(c.entry))))
                   /\ \A n \in snapshots : n.command.entry = c.entry => n.command.completed < c.completed
<1>. DEFINE c == ListCommand(workers[w])
<1>1. /\ RecordDelayed(c) \/ RecordIncomplete(c) \/ RecordThroughSession(workers[w], c)
      /\ workers[w].pc = "saved"
  BY DEF RecordList
<1>2. c \in Commands /\ snapshots' = snapshots \cup {FiledRow(c)}
  BY <1>1 DEF RecordDelayed, RecordIncomplete, RecordThroughSession, RecordHealth, Accepted, FiledRow
<1>3. c.entry = ListEntry /\ c.seen = workers[w].jobs
  BY <1>1, ListCommandOfTask
<1>. HIDE DEF c
<1>4. CASE RecordDelayed(c) \/ RecordIncomplete(c)
  BY <1>2, <1>3, <1>4 DEF RecordDelayed, RecordIncomplete, Applies, c
<1>5. CASE RecordThroughSession(workers[w], c)
  <2>1. TypeOK /\ ChecksAreLatest
    BY DEF WritersInv, WritersTypeOK
  <2>. QED  BY <1>2, <1>3, <1>5, <2>1, HealthStep DEF RecordThroughSession, c
<1>. QED  BY <1>1, <1>4, <1>5

\* A source that enumerations feed is closed by its age, while no list has charge
\* of it, or by two complete lists in a row of the entry it is filed under, however
\* tasks overlap, die and are delivered again and whatever becomes the primary entry.
THEOREM EnumerationsClose == WritersSpec => EnumerationsCloseForCause
<1>. DEFINE Cause == \A s \in Enumerated : sources[s].active /\ ~sources'[s].active =>
                       \/ ~sources[s].managed /\ sources[s].seen + Window < now
                       \/ TwoAbsencesClose(s)
<1>1. ASSUME WritersInv, [WritersNext]_vars PROVE Cause
  <2>. SUFFICES ASSUME NEW s \in Enumerated, sources[s].active, ~sources'[s].active
                PROVE  \/ ~sources[s].managed /\ sources[s].seen + Window < now
                       \/ TwoAbsencesClose(s)
    OBVIOUS
  <2>0. s \in Sources /\ TypeOK /\ sources[s] \in Source
    BY <1>1, WritersAssumption DEF WritersInv, WritersTypeOK, TypeOK
  <2>1. sources[s].posting # NoPosting /\ sources[s].entry = ListEntry
    BY <1>1, <2>0 DEF WritersInv, SoundRow, Blank
  <2>2. CASE UNCHANGED <<sources, postings, snapshots>>
    BY <2>2
  <2>3. ASSUME NEW w \in Workers, SaveRows(w) PROVE FALSE
    BY <1>1, <2>0, <2>1, <2>3, SavedRows
  <2>4. ASSUME NEW w \in Workers, RecordList(w) PROVE TwoAbsencesClose(s)
    <3>. DEFINE c == ListCommand(workers[w])
    <3>1. /\ c \in Commands /\ c.entry = ListEntry
          /\ snapshots' = snapshots \cup {FiledRow(c)}
          /\ Applies(c) /\ sources' = AfterList(c)
          /\ \A n \in snapshots : n.command.entry = c.entry => n.command.completed < c.completed
      BY <1>1, <2>4, RecordListTables
    <3>. HIDE DEF c
    <3>2. s \in SourcesOf(c.entry)
      BY <2>0, <2>1, <3>1 DEF SourcesOf
    <3>3. s \notin c.seen /\ sources[s].missing + 1 >= Threshold
      BY <2>0, <3>1, <3>2, AfterListRows DEF Source, Threshold
    <3>4. Absent(s, CompleteLists(ListEntry))
      BY <1>1, <2>0, <3>3 DEF WritersInv, AbsencesAreCounted, Threshold, Source
    <3>5. PICK b \in CompleteLists(ListEntry) :
            s \notin b.seen /\ \A x \in CompleteLists(ListEntry) : x.completed <= b.completed
      BY <3>4 DEF Absent
    <3>6. ListsIn(snapshots', ListEntry) = ListsIn(snapshots, ListEntry) \cup {c}
      BY <3>1, ListsAfterFiling DEF Added, CompleteLists
    <3>7. \A x \in ListsIn(snapshots, ListEntry) : x.completed < c.completed
      BY <3>1, ListsAreFiled
    <3>8. c \notin ListsIn(snapshots, ListEntry)
      BY <3>1, <3>7, CommandShape
    <3>. QED  BY <2>1, <3>3, <3>5, <3>6, <3>7, <3>8 DEF TwoAbsencesClose, CompleteLists
  <2>5. ASSUME NEW e \in AtsEntries, NEW r \in Runs, NEW jobs \in SUBSET AtsSources,
               NEW found \in [jobs -> Postings], AtsWrite(e, r, found)
        PROVE  FALSE
    <3>1. sources' = [x \in Sources |-> IF x \in jobs THEN AtsRow(x, found[x], e) ELSE sources[x]]
          /\ e \in Entries
      BY <2>5, WritersAssumption DEF AtsWrite
    <3>. QED  BY <1>1, <3>1, AtsRows
  <2>6. CASE Expire
    <3>1. Stale(sources[s])
      <4>1. sources' = [x \in Sources |-> [sources[x] EXCEPT !.active = @ /\ x \notin StaleSources]]
        BY <2>6 DEF Expire
      <4>2. s \in StaleSources
        BY <2>0, <4>1, ExpiredRows
      <4>. QED  BY <4>2 DEF StaleSources
    <3>2. sources[s].entry # NoEntry
      BY <2>1, NoEntryAssumption, WritersAssumption
    <3>. QED  BY <3>1, <3>2 DEF Stale, Fallback
  <2>. QED  BY <1>1, <2>2, <2>3, <2>4, <2>5, <2>6, StepsOfWriters
<1>. QED  BY <1>1, WritersInvariant, PTL DEF WritersSpec, EnumerationsCloseForCause

-----------------------------------------------------------------------------
\* A posting that the rows of a step leave as it is, or put right, is no new ghost.
LEMMA RecomputedIsRight ==
  ASSUME NEW rows, NEW ss \in SUBSET Sources, NEW p \in Postings, p \in Affected(ss)
  PROVE  Recomputed(rows, Affected(ss))[p] = "active" <=> Advertised(p, rows)
BY DEF Recomputed

\* Of the postings that a step does not recompute it leaves the sources alone.
LEMMA UnaffectedStay ==
  ASSUME NEW rows, NEW ss \in SUBSET Sources, NEW p \in Postings, p \notin Affected(ss),
         \A s \in Sources : rows[s].posting = sources[s].posting,
         \A s \in Sources \ ss : rows[s].active = sources[s].active
  PROVE  /\ Recomputed(rows, Affected(ss))[p] = postings[p]
         /\ Advertised(p, rows) <=> Advertised(p, sources)
<1>1. \A s \in Sources : sources[s].posting = p => s \notin ss
  BY DEF Affected
<1>. QED  BY <1>1 DEF Recomputed, Advertised

\* A posting becomes a ghost, shown without an open source, only when an ATS page
\* moves one of its sources.  A task that ends between its transactions leaves open
\* sources of postings that are shown; and a task that does not write what it
\* recomputed, because its session holds an old row, has just seen a job of that very
\* posting.
THEOREM GhostsHaveMoved == WritersSpec => GhostsComeFromMoves
<1>. DEFINE Moved == \A p \in Postings : Ghost(p)' /\ ~Ghost(p) =>
                       \E s \in AtsSources : sources[s].posting = p /\ sources'[s].posting # p
<1>1. ASSUME WritersInv, [WritersNext]_vars PROVE Moved
  <2>. SUFFICES ASSUME NEW p \in Postings, postings'[p] = "active", ~Advertised(p, sources'),
                       postings[p] = "active" => Advertised(p, sources)
                PROVE  \E s \in AtsSources : sources[s].posting = p /\ sources'[s].posting # p
    BY DEF Ghost
  <2>0. TypeOK
    BY <1>1 DEF WritersInv, WritersTypeOK
  <2>1. CASE UNCHANGED <<sources, postings, snapshots>>
    BY <2>1
  <2>2. ASSUME NEW w \in Workers, SaveRows(w) PROVE FALSE
    <3>1. postings[p] # "active"
      <4>1. Advertised(p, sources) => Advertised(p, sources')
        BY <1>1, <2>2, SavedRows, NoPostingAssumption DEF Advertised
      <4>. QED  BY <4>1
    <3>2. PICK s \in workers[w].jobs : ~Exists(s) /\ Home[s].posting = p
      BY <2>2, <3>1 DEF SaveRows, WithPostings
    <3>. QED  BY <1>1, <2>2, <3>2, SavedRows DEF Advertised
  <2>3. ASSUME NEW w \in Workers, RecordList(w) PROVE FALSE
    <3>. DEFINE c == ListCommand(workers[w])
                ss == SourcesOf(c.entry)
    <3>1. /\ c \in Commands /\ c.entry = ListEntry /\ c.seen = workers[w].jobs
          /\ sources' = AfterList(c)
          /\ postings' = Flushed(workers[w], Recomputed(sources', Affected(ss)))
      BY <1>1, <2>3, RecordListTables
    <3>. HIDE DEF c
    <3>2. /\ \A s \in Sources : sources'[s].posting = sources[s].posting
          /\ \A s \in Sources \ ss : sources'[s].active = sources[s].active
          /\ \A s \in ss : s \in c.seen => sources'[s].active
      BY <2>0, <3>1, AfterListRows
    <3>3. ss \in SUBSET Sources
      BY DEF SourcesOf
    <3>. HIDE DEF ss
    <3>4. Recomputed(sources', Affected(ss))[p] # "active"
      BY <3>2, <3>3, RecomputedIsRight, UnaffectedStay
    <3>5. p = workers[w].held
      BY <3>1, <3>4 DEF Flushed
    <3>6. PICK s \in workers[w].jobs : sources[s].posting = p
      BY <1>1, <2>3, <3>5, NoPostingAssumption DEF WritersInv, SoundTask, RecordList
    <3>7. s \in Enumerated /\ s \in Sources
      BY <1>1, <3>6, WritersAssumption DEF WritersInv, SoundTask
    <3>8. s \in ss
      BY <1>1, <3>1, <3>6, <3>7, NoPostingAssumption DEF WritersInv, SoundRow, SourcesOf, ss
    <3>. QED  BY <3>1, <3>2, <3>6, <3>7, <3>8 DEF Advertised
  <2>4. ASSUME NEW e \in AtsEntries, NEW r \in Runs, NEW jobs \in SUBSET AtsSources,
               NEW found \in [jobs -> Postings], AtsWrite(e, r, found)
        PROVE  \E s \in AtsSources : sources[s].posting = p /\ sources'[s].posting # p
    <3>1. /\ sources' = [x \in Sources |-> IF x \in jobs THEN AtsRow(x, found[x], e) ELSE sources[x]]
          /\ postings' = WithPostings({found[s] : s \in jobs}) /\ e \in Entries
      BY <2>4, WritersAssumption DEF AtsWrite
    <3>2. /\ \A s \in Sources : s \notin jobs => sources'[s] = sources[s]
          /\ \A s \in jobs : s \in Sources /\ sources'[s].posting = found[s] /\ sources'[s].active
      BY <1>1, <3>1, AtsRows
    <3>3. \A s \in jobs : found[s] # p
      BY <3>2 DEF Advertised
    <3>4. postings[p] = "active"
      BY <3>1, <3>3 DEF WithPostings
    <3>5. PICK s \in Sources : sources[s].posting = p /\ sources[s].active
      BY <3>4 DEF Advertised
    <3>6. s \in jobs
      BY <3>2, <3>5 DEF Advertised
    <3>. QED  BY <3>2, <3>3, <3>5, <3>6
  <2>5. CASE Expire
    <3>1. /\ sources' = [x \in Sources |-> [sources[x] EXCEPT !.active = @ /\ x \notin StaleSources]]
          /\ postings' = Recomputed(sources', Affected(StaleSources))
      BY <2>5 DEF Expire
    <3>2. /\ \A s \in Sources : sources'[s].posting = sources[s].posting
          /\ \A s \in Sources \ StaleSources : sources'[s].active = sources[s].active
      BY <2>0, <3>1, ExpiredRows
    <3>3. StaleSources \in SUBSET Sources
      BY DEF StaleSources
    <3>. QED  BY <3>1, <3>2, <3>3, RecomputedIsRight, UnaffectedStay
  <2>. QED  BY <1>1, <2>1, <2>2, <2>3, <2>4, <2>5, StepsOfWriters
<1>. QED  BY <1>1, WritersInvariant, PTL DEF WritersSpec, GhostsComeFromMoves

\* A complete list that is applied puts the postings of its entry right, but for one of
\* which its session holds an old row.
THEOREM ListsRepair == WritersSpec => ListsRepairUnlessStale
<1>. DEFINE Right == \A w \in Workers, n \in snapshots' \ snapshots, s \in Sources :
                       /\ n.applied /\ workers'[w] # workers[w]
                       /\ sources'[s].entry = n.command.entry
                       /\ ~HeldStale(w, sources'[s].posting)
                       => (postings'[sources'[s].posting] = "active"
                             <=> Advertised(sources'[s].posting, sources'))
<1>1. ASSUME WritersInv, [WritersNext]_vars PROVE Right
  <2>. SUFFICES ASSUME NEW w \in Workers, NEW n \in snapshots' \ snapshots, NEW s \in Sources,
                       n.applied, workers'[w] # workers[w], sources'[s].entry = n.command.entry,
                       ~HeldStale(w, sources'[s].posting)
                PROVE  postings'[sources'[s].posting] = "active"
                         <=> Advertised(sources'[s].posting, sources')
    OBVIOUS
  <2>0. TypeOK
    BY <1>1 DEF WritersInv, WritersTypeOK
  <2>1. PICK v \in Workers : RecordList(v)
    <3>1. ~\E v \in Workers : SaveRows(v)
      BY DEF SaveRows
    <3>2. ~\E e \in AtsEntries, r \in Runs, jobs \in SUBSET AtsSources :
            \E found \in [jobs -> Postings] : AtsWrite(e, r, found)
      BY DEF AtsWrite
    <3>3. ~Expire
      BY DEF Expire
    <3>. QED  BY <1>1, <3>1, <3>2, <3>3, StepsOfWriters
  <2>2. v = w
    BY <1>1, <2>1 DEF RecordList, WritersInv, WritersTypeOK
  <2>. DEFINE c == ListCommand(workers[w])
              ss == SourcesOf(c.entry)
              p == sources[s].posting
  <2>3. /\ c \in Commands /\ c.entry = ListEntry /\ snapshots' = snapshots \cup {FiledRow(c)}
    BY <1>1, <2>1, <2>2, RecordListTables
  <2>4. n.command = c /\ Applies(c)
    BY <2>3, FiledRowShape
  <2>5. /\ sources' = AfterList(c)
        /\ postings' = Flushed(workers[w], Recomputed(sources', Affected(ss)))
    BY <1>1, <2>1, <2>2, <2>4, RecordListTables
  <2>. HIDE DEF c
  <2>6. sources'[s].posting = p /\ sources'[s].entry = sources[s].entry
    BY <2>0, <2>3, <2>5, AfterListRows
  <2>7. s \in ss /\ ss \in SUBSET Sources
    BY <2>4, <2>6 DEF SourcesOf
  <2>. HIDE DEF ss
  <2>8. p \in Affected(ss)
    BY <2>7 DEF Affected
  <2>9. p \in Postings
    <3>1. sources[s] \in Source /\ SoundRow(s, sources) /\ sources[s].entry = ListEntry
      BY <1>1, <2>0, <2>3, <2>4, <2>6 DEF WritersInv, TypeOK
    <3>. QED
      BY <3>1, NoEntryAssumption, WritersAssumption DEF Source, SoundRow, Blank
  <2>. HIDE DEF p
  <2>10. Recomputed(sources', Affected(ss))[p] = "active" <=> Advertised(p, sources')
    BY <2>7, <2>8, <2>9, RecomputedIsRight
  <2>11. postings'[p] = Recomputed(sources', Affected(ss))[p]
    BY <2>5, <2>6, <2>9 DEF Flushed, HeldStale
  <2>. QED  BY <2>6, <2>10, <2>11
<1>. QED  BY <1>1, WritersInvariant, PTL DEF WritersSpec, ListsRepairUnlessStale
=============================================================================
