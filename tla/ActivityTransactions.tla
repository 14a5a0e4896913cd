-------------------------- MODULE ActivityTransactions --------------------------
(***************************************************************************)
(* The statements of the transactions that derive the activity of job      *)
(* postings, under READ COMMITTED, PostgreSQL's default, which the code    *)
(* does not change.                                                        *)
(*                                                                         *)
(* JobLifecycle takes JobCoverageService.record and                        *)
(* expire_stale_job_sources for single steps.  Here each is a sequence of  *)
(* statements.  A statement sees what was committed when it began and what *)
(* its own transaction wrote; a written or selected-for-update row stays   *)
(* locked until the commit; a statement that waited for a row goes on with *)
(* the newest version of that row, but still sees the rest of the database *)
(* as it was when the statement began.  The database breaks a cycle of     *)
(* waiting transactions by rolling one of them back.                       *)
(***************************************************************************)
EXTENDS Naturals, FiniteSets

CONSTANTS
  Sources,      \* job_sources rows
  Postings,     \* job_postings rows; a set of numbers, in the order of their ids
  PostingOf,    \* the posting of each source
  Lists,        \* transactions of JobCoverageService.record
  ListSources,  \* the sources of the entry each of them locks
  Expirations,  \* transactions of expire_stale_job_sources
  Overdue       \* the sets of sources that may have been unseen for a month

ASSUME PostingsAssumption == Postings \subseteq Nat /\ PostingOf \in [Sources -> Postings]
ASSUME ListsAssumption ==
  ListSources \in [Lists -> SUBSET Sources] /\ Lists \cap Expirations = {}
ASSUME OverdueAssumption == Overdue \subseteq SUBSET Sources

VARIABLES
  aged,     \* the sources that nobody has seen for a month; they stay the same
  active,   \* the sources that are active, as committed
  managed,  \* the sources a complete list took charge of, as committed
  shown,    \* the postings whose is_active is true, as committed
  txns      \* what each transaction has done so far

activityVars == <<aged, active, managed, shown, txns>>

Txns == Lists \cup Expirations

\* kept and dropped are the sources the transaction wrote, raised and lowered
\* the postings; view is what its present statement sees of the sources.
Idle == [pc |-> "idle", kept |-> {}, dropped |-> {}, postings |-> {}, locked |-> {},
         raised |-> {}, lowered |-> {}, view |-> {}]

Txn == [pc : {"idle", "locking", "deriving", "reading", "updating", "written"},
        kept : SUBSET Sources, dropped : SUBSET Sources,
        postings : SUBSET Postings, locked : SUBSET Postings,
        raised : SUBSET Postings, lowered : SUBSET Postings, view : SUBSET Sources]

-----------------------------------------------------------------------------
(* A name that starts with Faulty is a deliberate defect: no action uses    *)
(* it, and the mutation runs put it in the place of the definition that     *)
(* follows.                                                                *)

Written(t) == txns[t].kept \cup txns[t].dropped

\* The active sources, for a statement of t that begins now.
Visible(t) == (active \cup txns[t].kept) \ txns[t].dropped

SourceFree(t, s)  == \A u \in Txns \ {t} : s \notin Written(u)
PostingFree(t, p) == \A u \in Txns \ {t} : p \notin txns[u].locked

Advertised(p, sources) == \E s \in sources : PostingOf[s] = p

PostingsOf(sources) == {PostingOf[s] : s \in sources}

Init ==
  /\ aged \in Overdue
  /\ active \in SUBSET Sources
  /\ managed = {}
  /\ shown = PostingsOf(active)
  /\ txns = [t \in Txns |-> Idle]

-----------------------------------------------------------------------------
(* JobCoverageService.record.                                              *)

\* lock_entry, lock_entry_sources and the flush of _apply_complete_snapshot.
ListWritesSources(t) ==
  /\ txns[t].pc = "idle"
  /\ \A s \in ListSources[t] : SourceFree(t, s)
  /\ \E open \in SUBSET ListSources[t] :
       txns' = [txns EXCEPT ![t] = [Idle EXCEPT !.pc = "locking", !.kept = open,
                                                !.dropped = ListSources[t] \ open,
                                                !.postings = PostingsOf(ListSources[t])]]
  /\ UNCHANGED <<active, managed, shown>>

\* recompute_job_activity locks the postings in the order of their ids.
FaultyNextPosting(t, p) == p \in txns[t].postings \ txns[t].locked
NextPosting(t, p) ==
  LET rest == txns[t].postings \ txns[t].locked
  IN  p \in rest /\ \A q \in rest : p <= q

ListLocksPosting(t, p) ==
  /\ txns[t].pc = "locking"
  /\ NextPosting(t, p)
  /\ PostingFree(t, p)
  /\ txns' = [txns EXCEPT ![t].locked = @ \cup {p}]
  /\ UNCHANGED <<active, managed, shown>>

\* The statement that asks which of them an active source advertises begins
\* when they are all locked.
FaultyDerivable(t) == TRUE
Derivable(t) == txns[t].locked = txns[t].postings

ListReadsSources(t) ==
  /\ txns[t].pc = "locking"
  /\ Derivable(t)
  /\ txns' = [txns EXCEPT ![t].pc = "deriving", ![t].view = Visible(t)]
  /\ UNCHANGED <<active, managed, shown>>

FaultyWithActivity(txn) ==
  [txn EXCEPT !.pc = "written", !.raised = txn.view, !.locked = txn.postings]
WithActivity(txn) ==
  LET raised == {p \in txn.postings : Advertised(p, txn.view)}
  IN  [txn EXCEPT !.pc = "written", !.raised = raised, !.lowered = txn.postings \ raised,
                  !.locked = txn.postings]

ListWritesPostings(t) ==
  /\ txns[t].pc = "deriving"
  /\ \A p \in txns[t].postings : PostingFree(t, p)
  /\ txns' = [txns EXCEPT ![t] = WithActivity(@)]
  /\ UNCHANGED <<active, managed, shown>>

-----------------------------------------------------------------------------
(* expire_stale_job_sources.                                               *)

FaultyStaleFallback == active \cap aged
StaleFallback == (active \cap aged) \ managed

\* SELECT job_posting_id.
ExpireSelects(t) ==
  /\ txns[t].pc = "idle"
  /\ StaleFallback # {}
  /\ txns' = [txns EXCEPT ![t] = [Idle EXCEPT !.pc = "reading",
                                              !.postings = PostingsOf(StaleFallback)]]
  /\ UNCHANGED <<active, managed, shown>>

\* UPDATE job_sources; a row it had to wait for is tested again.
ExpireWritesSources(t) ==
  /\ txns[t].pc = "reading"
  /\ \A s \in StaleFallback : SourceFree(t, s)
  /\ txns' = [txns EXCEPT ![t].dropped = StaleFallback, ![t].pc = "locking"]
  /\ UNCHANGED <<active, managed, shown>>

\* UPDATE job_postings begins ...
ExpireReadsSources(t) ==
  /\ txns[t].pc = "locking"
  /\ txns' = [txns EXCEPT ![t].pc = "updating", ![t].view = Visible(t)]
  /\ UNCHANGED <<active, managed, shown>>

\* ... and comes to its rows in any order ...
ExpireLocksPosting(t, p) ==
  /\ txns[t].pc = "updating"
  /\ p \in txns[t].postings \ txns[t].locked
  /\ PostingFree(t, p)
  /\ txns' = [txns EXCEPT ![t].locked = @ \cup {p}]
  /\ UNCHANGED <<active, managed, shown>>

\* ... and gives them what its EXISTS finds in the rows it began with.
ExpireWritesPostings(t) ==
  /\ txns[t].pc = "updating"
  /\ txns[t].locked = txns[t].postings
  /\ txns' = [txns EXCEPT ![t] = WithActivity(@)]
  /\ UNCHANGED <<active, managed, shown>>

-----------------------------------------------------------------------------
Commit(t) ==
  /\ txns[t].pc = "written"
  /\ active' = Visible(t)
  /\ managed' = IF t \in Lists THEN managed \cup Written(t) ELSE managed
  /\ shown' = (shown \cup txns[t].raised) \ txns[t].lowered
  /\ txns' = [txns EXCEPT ![t] = Idle]

\* The postings that the next statement of a list needs.
WaitsFor(t, u) ==
  /\ t # u
  /\ \/ txns[t].pc = "locking" /\ \E p \in txns[u].locked : NextPosting(t, p)
     \/ txns[t].pc = "deriving" /\ txns[t].postings \cap txns[u].locked # {}

\* The database rolls a transaction of a cycle back, or the process dies.
Rollback(t) ==
  /\ txns[t].pc # "idle"
  /\ txns' = [txns EXCEPT ![t] = Idle]
  /\ UNCHANGED <<active, managed, shown>>

ListStep(t) ==
  \/ ListWritesSources(t)
  \/ \E p \in Postings : ListLocksPosting(t, p)
  \/ ListReadsSources(t)
  \/ ListWritesPostings(t)

ExpireStep(t) ==
  \/ ExpireSelects(t)
  \/ ExpireWritesSources(t)
  \/ ExpireReadsSources(t)
  \/ \E p \in Postings : ExpireLocksPosting(t, p)
  \/ ExpireWritesPostings(t)

Next ==
  /\ \/ \E t \in Lists : ListStep(t)
     \/ \E t \in Expirations : ExpireStep(t)
     \/ \E t \in Txns : Commit(t) \/ Rollback(t)
  /\ UNCHANGED aged

Spec == Init /\ [][Next]_activityVars

-----------------------------------------------------------------------------
(* Properties.                                                             *)

\* The variables are well typed.
TypeOK ==
  /\ aged \subseteq Sources /\ active \subseteq Sources /\ managed \subseteq Sources /\ shown \subseteq Postings
  /\ txns \in [Txns -> Txn]

\* Whenever all transactions are over, a posting is shown as active exactly
\* while one of its sources is active: no interleaving loses an update.
QuietPostingsFollowSources ==
  (\A t \in Txns : txns[t].pc = "idle") => shown = PostingsOf(active)

\* The same while there is nothing to expire: two lists lose none of each
\* other's updates.
ListsLoseNoUpdate == aged = {} => QuietPostingsFollowSources

\* A source that a complete list took charge of is closed by lists only, even
\* when the list and the expiration wait for each other's rows.
ListsKeepCharge ==
  [][\A s \in managed \cap (active \ active') : \E t \in Lists : s \in txns[t].dropped]_activityVars

\* Two lists never wait for each other: they lock postings in one order.
NoWaitCycle == \A t, u \in Lists : ~(WaitsFor(t, u) /\ WaitsFor(u, t))
=============================================================================
