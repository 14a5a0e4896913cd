-------------------------- MODULE EntryVerification --------------------------
(***************************************************************************)
(* The on-demand collection path as it runs in production: the callers     *)
(* that create a request and publish its task (the API's submit and the    *)
(* daily scheduler), the broker, the workers that run                      *)
(* run_entry_verification and the redispatch task that beat fires every    *)
(* minute.  The tables are those of CollectionRepository; between two of   *)
(* its transactions any other actor may step, and any actor may die.       *)
(*                                                                         *)
(* A member of FaultSets names the failures that one behaviour may have,   *)
(* and MaxFaults bounds how many of them it has.                           *)
(***************************************************************************)
EXTENDS Naturals, FiniteSets

CONSTANTS
  Runs, Queries, NoCompany, MaxClaims,
  NoRun,          \* an actor that works on no run
  Clients,        \* API calls of CollectionService.submit
  Schedulers,     \* executions of enqueue_stale_companies
  Beats,          \* executions of redispatch_stale_queued_runs
  Workers,        \* executions of run_entry_verification
  Known,          \* the queries _resolve_company finds a company for
  FaultSets, MaxFaults

ASSUME NoCompanyAssumption == NoCompany \notin Queries
ASSUME MaxClaimsAssumption == MaxClaims \in Nat
ASSUME NoRunAssumption == NoRun \notin Runs
ASSUME KnownAssumption == Known \subseteq Queries
ASSUME MaxFaultsAssumption == MaxFaults \in Nat

FaultKinds == {"caller_dies", "publish_raises", "publish_ambiguous", "message_lost",
               "redelivery", "claim_raises", "worker_dies", "slow_worker",
               "slow_publisher", "beat_dies"}
ASSUME FaultsAssumption == FaultSets \subseteq SUBSET FaultKinds

\* The failures after which no message may lead to a queued run.
Stranding == {"message_lost", "claim_raises", "slow_publisher"}

VARIABLES
  rows, issued,
  inbox,    \* inbox[r]: messages in the broker that name run r
  caller,   \* what each client and scheduler is doing
  beat,     \* what each redispatch task is doing
  worker,   \* what each worker is doing
  saved,    \* claim tokens under which _save_verified_entry has committed
  faults    \* the kinds of failures there may be, and how many there were

Repo == INSTANCE CollectionRepository

actorVars == <<inbox, caller, beat, worker, saved, faults>>
vars == <<rows, issued, actorVars>>

Callers == Clients \cup Schedulers
NoQuery == NoCompany

IdleCaller == [pc |-> "idle", query |-> NoQuery, run |-> NoRun]
IdleBeat   == [pc |-> "idle", todo |-> {}, run |-> NoRun, token |-> 0]
IdleWorker == [pc |-> "idle", run |-> NoRun, token |-> 0]

Fault(kind) ==
  /\ kind \in faults.kinds /\ faults.injected < MaxFaults
  /\ faults' = [faults EXCEPT !.injected = @ + 1]

-----------------------------------------------------------------------------
(* Submitting a request: check, insert, publish, store the task id.  Only  *)
(* the insert is protected by the unique index.                            *)

\* The scheduler also looks for a live run of the company it is about to refresh.
CompanyBusy(p, q) ==
  p \in Schedulers /\ \E r \in Runs : rows[r].company = q /\ rows[r].run \in Repo!Active

CheckActive(p, q) ==
  /\ caller[p].pc = "idle"
  /\ ~Repo!ActiveRequest(q)
  /\ ~CompanyBusy(p, q)
  /\ caller' = [caller EXCEPT ![p] = [pc |-> "insert", query |-> q, run |-> NoRun]]
  /\ UNCHANGED <<rows, issued, inbox, beat, worker, saved, faults>>

Insert(p, r) ==
  /\ caller[p].pc = "insert"
  /\ Repo!CreateRequest(r, caller[p].query,
                        IF p \in Schedulers THEN caller[p].query ELSE NoCompany)
  /\ caller' = [caller EXCEPT ![p].pc = "publish", ![p].run = r]
  /\ UNCHANGED <<inbox, beat, worker, saved, faults>>

\* The index refuses the insert: another request won, and it is the answer.
InsertConflict(p) ==
  /\ caller[p].pc = "insert"
  /\ Repo!ActiveRequest(caller[p].query)
  /\ caller' = [caller EXCEPT ![p] = IdleCaller]
  /\ UNCHANGED <<rows, issued, inbox, beat, worker, saved, faults>>

Publish(p) ==
  /\ caller[p].pc = "publish"
  /\ inbox' = [inbox EXCEPT ![caller[p].run] = @ + 1]
  /\ caller' = [caller EXCEPT ![p].pc = "store"]
  /\ UNCHANGED <<rows, issued, beat, worker, saved, faults>>

\* delay() raises; whether the broker has the message is unknown to the caller.
PublishRaises(p) ==
  /\ caller[p].pc = "publish"
  /\ caller' = [caller EXCEPT ![p].pc = "undo"]
  /\ \/ Fault("publish_raises") /\ UNCHANGED inbox
     \/ Fault("publish_ambiguous") /\ inbox' = [inbox EXCEPT ![caller[p].run] = @ + 1]
  /\ UNCHANGED <<rows, issued, beat, worker, saved>>

FailDispatch(p) ==
  /\ caller[p].pc = "undo"
  /\ Repo!FailQueuedDispatch(caller[p].run)
  /\ caller' = [caller EXCEPT ![p] = IdleCaller]
  /\ UNCHANGED <<inbox, beat, worker, saved, faults>>

FaultyStoreTaskId(p) ==  \* writes the whole row back as it was inserted
  /\ caller[p].pc = "store"
  /\ rows' = [rows EXCEPT ![caller[p].run] =
                [Repo!QueuedPair(@.query, @.company) EXCEPT !.task = TRUE]]
  /\ caller' = [caller EXCEPT ![p] = IdleCaller]
  /\ UNCHANGED <<issued, inbox, beat, worker, saved, faults>>

StoreTaskId(p) ==
  /\ caller[p].pc = "store"
  /\ Repo!StoreTaskId(caller[p].run)
  /\ caller' = [caller EXCEPT ![p] = IdleCaller]
  /\ UNCHANGED <<inbox, beat, worker, saved, faults>>

\* The process dies, or the database fails it, between two commits.
CallerDies(p) ==
  /\ caller[p].pc # "idle"
  /\ Fault("caller_dies")
  /\ caller' = [caller EXCEPT ![p] = IdleCaller]
  /\ UNCHANGED <<rows, issued, inbox, beat, worker, saved>>

-----------------------------------------------------------------------------
(* The redispatch task.  The rows it lists stay in its session as they were *)
(* read until its first requeue rolls the session back; from then on the    *)
(* claim token of every later row is read afresh.                           *)

FaultyAbandoned == {r \in Runs : rows[r].run = "running"}

Abandoned == {r \in Runs : rows[r].run = "running" /\ rows[r].started = "stale"}

FaultyUndispatched ==
  {r \in Runs : rows[r].run = "running" /\ ~rows[r].task /\ rows[r].created = "stale"}

Undispatched ==
  {r \in Runs : rows[r].run = "queued" /\ ~rows[r].task /\ rows[r].created = "stale"}

ListAbandoned(b) ==
  /\ beat[b].pc = "idle"
  /\ \/ /\ Abandoned = {}
        /\ beat' = [beat EXCEPT ![b].pc = "next"]
     \/ \E r \in Abandoned :
          beat' = [beat EXCEPT ![b] = [pc |-> "requeue", todo |-> Abandoned \ {r},
                                       run |-> r, token |-> rows[r].token]]
  /\ UNCHANGED <<rows, issued, inbox, caller, worker, saved, faults>>

Requeue(b) ==
  /\ beat[b].pc = "requeue"
  /\ Repo!RequeueForRetry(beat[b].run, beat[b].token)
  /\ beat' = [beat EXCEPT ![b].pc = "next", ![b].run = NoRun, ![b].token = 0]
  /\ UNCHANGED <<inbox, caller, worker, saved, faults>>

\* The token is the row's current one, whoever holds it; a row without is skipped.
NextAbandoned(b, r) ==
  /\ beat[b].pc = "next"
  /\ r \in beat[b].todo
  /\ \/ /\ rows[r].token = 0
        /\ beat' = [beat EXCEPT ![b].todo = @ \ {r}]
     \/ /\ rows[r].token # 0
        /\ beat' = [beat EXCEPT ![b] = [pc |-> "requeue", todo |-> @.todo \ {r},
                                        run |-> r, token |-> rows[r].token]]
  /\ UNCHANGED <<rows, issued, inbox, caller, worker, saved, faults>>

ListUndispatched(b) ==
  /\ beat[b].pc = "next"
  /\ beat[b].todo = {}
  /\ beat' = [beat EXCEPT ![b].pc = "redispatch", ![b].todo = Undispatched]
  /\ UNCHANGED <<rows, issued, inbox, caller, worker, saved, faults>>

Republish(b, r) ==
  /\ beat[b].pc = "redispatch"
  /\ r \in beat[b].todo
  /\ inbox' = [inbox EXCEPT ![r] = @ + 1]
  /\ beat' = [beat EXCEPT ![b].pc = "mark", ![b].todo = @ \ {r}, ![b].run = r]
  /\ UNCHANGED <<rows, issued, caller, worker, saved, faults>>

RepublishRaises(b, r) ==
  /\ beat[b].pc = "redispatch"
  /\ r \in beat[b].todo
  /\ beat' = [beat EXCEPT ![b].todo = @ \ {r}]
  /\ \/ Fault("publish_raises") /\ UNCHANGED inbox
     \/ Fault("publish_ambiguous") /\ inbox' = [inbox EXCEPT ![r] = @ + 1]
  /\ UNCHANGED <<rows, issued, caller, worker, saved>>

Mark(b) ==
  /\ beat[b].pc = "mark"
  /\ Repo!MarkRedispatched(beat[b].run)
  /\ beat' = [beat EXCEPT ![b].pc = "redispatch", ![b].run = NoRun]
  /\ UNCHANGED <<inbox, caller, worker, saved, faults>>

Done(b) ==
  /\ beat[b].pc = "redispatch"
  /\ beat[b].todo = {}
  /\ beat' = [beat EXCEPT ![b] = IdleBeat]
  /\ UNCHANGED <<rows, issued, inbox, caller, worker, saved, faults>>

BeatDies(b) ==
  /\ beat[b].pc # "idle"
  /\ Fault("beat_dies")
  /\ beat' = [beat EXCEPT ![b] = IdleBeat]
  /\ UNCHANGED <<rows, issued, inbox, caller, worker, saved>>

-----------------------------------------------------------------------------
(* A worker: take a message, claim the run, look for a verified entry, save *)
(* it, settle the run.  The message is acknowledged when the task ends,     *)
(* also when it ends in an exception.                                       *)

Deliver(w, r) ==
  /\ worker[w].pc = "idle"
  /\ inbox[r] > 0
  /\ inbox' = [inbox EXCEPT ![r] = @ - 1]
  /\ worker' = [worker EXCEPT ![w] = [pc |-> "claim", run |-> r, token |-> 0]]
  /\ UNCHANGED <<rows, issued, caller, beat, saved, faults>>

Claim(w) ==
  /\ worker[w].pc = "claim"
  /\ Repo!ClaimQueued(worker[w].run)
  /\ worker' = [worker EXCEPT ![w].pc = "verify", ![w].token = issued + 1]
  /\ UNCHANGED <<inbox, caller, beat, saved, faults>>

FaultyClaimRefused(w) ==  \* takes the owner's token for its own
  /\ worker[w].pc = "claim"
  /\ ~Repo!Claimable(rows[worker[w].run])
  /\ worker' = [worker EXCEPT ![w].pc = "verify", ![w].token = rows[worker[w].run].token]
  /\ UNCHANGED <<rows, issued, inbox, caller, beat, saved, faults>>

ClaimRefused(w) ==
  /\ worker[w].pc = "claim"
  /\ ~Repo!Claimable(rows[worker[w].run])
  /\ worker' = [worker EXCEPT ![w] = IdleWorker]
  /\ UNCHANGED <<rows, issued, inbox, caller, beat, saved, faults>>

\* RunClaimError ends the task, whether or not the claim had committed.
ClaimRaises(w) ==
  /\ worker[w].pc = "claim"
  /\ Fault("claim_raises")
  /\ \/ Repo!ClaimQueued(worker[w].run)
     \/ UNCHANGED <<rows, issued>>
  /\ worker' = [worker EXCEPT ![w] = IdleWorker]
  /\ UNCHANGED <<inbox, caller, beat, saved>>

FaultyFindEntry(w) ==  \* an unverified candidate counts as found
  /\ worker[w].pc = "verify"
  /\ \E next \in {"save", "saved"} : worker' = [worker EXCEPT ![w].pc = next]
  /\ UNCHANGED <<rows, issued, inbox, caller, beat, saved, faults>>

FindEntry(w) ==
  /\ worker[w].pc = "verify"
  /\ \E next \in IF rows[worker[w].run].query \in Known THEN {"save", "not_found"}
                                                       ELSE {"unknown"} :
       worker' = [worker EXCEPT ![w].pc = next]
  /\ UNCHANGED <<rows, issued, inbox, caller, beat, saved, faults>>

\* Commits on its own, without looking at the claim.
SaveEntry(w) ==
  /\ worker[w].pc = "save"
  /\ saved' = saved \cup {worker[w].token}
  /\ worker' = [worker EXCEPT ![w].pc = "saved"]
  /\ UNCHANGED <<rows, issued, inbox, caller, beat, faults>>

\* PersistenceResult carries the company; without one company_id becomes NULL.
FinishRun(w) ==
  LET r == worker[w].run  t == worker[w].token IN
  /\ \/ worker[w].pc = "saved"     /\ Repo!Finish(r, t, "succeeded", rows[r].query)
     \/ worker[w].pc = "not_found" /\ Repo!Finish(r, t, "partial", rows[r].query)
     \/ worker[w].pc = "unknown"   /\ Repo!Finish(r, t, "partial", NoCompany)
  /\ worker' = [worker EXCEPT ![w] = IdleWorker]
  /\ UNCHANGED <<inbox, caller, beat, saved, faults>>

\* An exception or a killed process; the broker may or may not redeliver.
WorkerDies(w) ==
  /\ worker[w].pc # "idle"
  /\ worker' = [worker EXCEPT ![w] = IdleWorker]
  /\ \/ Fault("worker_dies") /\ inbox' = [inbox EXCEPT ![worker[w].run] = @ + 1]
     \/ worker[w].pc # "claim" /\ Fault("worker_dies") /\ UNCHANGED inbox
     \/ worker[w].pc = "claim" /\ Fault("message_lost") /\ UNCHANGED inbox
  /\ UNCHANGED <<rows, issued, caller, beat, saved>>

-----------------------------------------------------------------------------
(* The broker and the clock.                                               *)

LoseMessage(r) ==
  /\ inbox[r] > 0
  /\ Fault("message_lost")
  /\ inbox' = [inbox EXCEPT ![r] = @ - 1]
  /\ UNCHANGED <<rows, issued, caller, beat, worker, saved>>

\* The visibility timeout expires under a worker that is still busy.
Redeliver(w) ==
  /\ worker[w].pc # "idle"
  /\ Fault("redelivery")
  /\ inbox' = [inbox EXCEPT ![worker[w].run] = @ + 1]
  /\ UNCHANGED <<rows, issued, caller, beat, worker, saved>>

OwnerAlive(r)   == \E w \in Workers : worker[w].run = r /\ worker[w].token = rows[r].token
BeingPublished(r) == \/ \E p \in Callers : caller[p].run = r
                     \/ \E b \in Beats : beat[b].pc = "mark" /\ beat[b].run = r

\* The cutoffs are long: a live owner or publisher that crosses one is a fault.
ClaimAges(r) ==
  /\ ~OwnerAlive(r) /\ ~BeingPublished(r)
  /\ Repo!ClaimTurnsStale(r)
  /\ UNCHANGED <<inbox, caller, beat, worker, saved, faults>>

ClaimAgesEarly(r) ==
  /\ \/ BeingPublished(r) /\ Fault("slow_publisher")
     \/ OwnerAlive(r) /\ ~BeingPublished(r) /\ Fault("slow_worker")
  /\ Repo!ClaimTurnsStale(r)
  /\ UNCHANGED <<inbox, caller, beat, worker, saved>>

CreationAges(r) ==
  /\ ~BeingPublished(r)
  /\ Repo!CreationTurnsStale(r)
  /\ UNCHANGED <<inbox, caller, beat, worker, saved, faults>>

CreationAgesEarly(r) ==
  /\ BeingPublished(r)
  /\ Fault("slow_publisher")
  /\ Repo!CreationTurnsStale(r)
  /\ UNCHANGED <<inbox, caller, beat, worker, saved>>

-----------------------------------------------------------------------------
Init ==
  /\ Repo!Init
  /\ inbox  = [r \in Runs |-> 0]
  /\ caller = [p \in Callers |-> IdleCaller]
  /\ beat   = [b \in Beats |-> IdleBeat]
  /\ worker = [w \in Workers |-> IdleWorker]
  /\ saved  = {}
  /\ faults \in [kinds : FaultSets, injected : {0}]

CallerStep(p) ==
  \/ \E r \in Runs : Insert(p, r)
  \/ InsertConflict(p)
  \/ Publish(p)
  \/ FailDispatch(p)
  \/ StoreTaskId(p)

BeatStep(b) ==
  \/ ListAbandoned(b)
  \/ Requeue(b)
  \/ \E r \in Runs : NextAbandoned(b, r)
  \/ ListUndispatched(b)
  \/ \E r \in Runs : Republish(b, r)
  \/ Mark(b)
  \/ Done(b)

WorkerStep(w) ==
  \/ Claim(w)
  \/ ClaimRefused(w)
  \/ FindEntry(w)
  \/ SaveEntry(w)
  \/ FinishRun(w)

FaultStep ==
  \/ \E p \in Callers : PublishRaises(p) \/ CallerDies(p)
  \/ \E b \in Beats : BeatDies(b) \/ \E r \in Runs : RepublishRaises(b, r)
  \/ \E w \in Workers : ClaimRaises(w) \/ WorkerDies(w) \/ Redeliver(w)
  \/ \E r \in Runs : LoseMessage(r) \/ ClaimAgesEarly(r) \/ CreationAgesEarly(r)

Next ==
  \/ \E p \in Callers : (\E q \in Queries : CheckActive(p, q)) \/ CallerStep(p)
  \/ \E b \in Beats : BeatStep(b)
  \/ \E w \in Workers : (\E r \in Runs : Deliver(w, r)) \/ WorkerStep(w)
  \/ \E r \in Runs : ClaimAges(r) \/ CreationAges(r)
  \/ FaultStep

Spec == Init /\ [][Next]_vars

\* Every process that is not killed goes on, beat fires every minute, a worker
\* that is free takes a waiting message, and time passes.  Nothing is assumed of
\* new submissions or of faults.
Fairness ==
  /\ \A p \in Callers : WF_vars(CallerStep(p))
  /\ \A b \in Beats : WF_vars(BeatStep(b))
  /\ \A w \in Workers : WF_vars(WorkerStep(w))
  /\ \A r \in Runs : /\ WF_vars(\E w \in Workers : Deliver(w, r))
                     /\ WF_vars(ClaimAges(r))
                     /\ WF_vars(CreationAges(r))

FairSpec == Spec /\ Fairness

-----------------------------------------------------------------------------
(* Properties.                                                             *)

TypeOK ==
  /\ Repo!TypeOK
  /\ inbox \in [Runs -> Nat]
  /\ caller \in [Callers -> [pc : {"idle", "insert", "publish", "undo", "store"},
                             query : Queries \cup {NoQuery}, run : Runs \cup {NoRun}]]
  /\ beat \in [Beats -> [pc : {"idle", "requeue", "next", "redispatch", "mark"},
                         todo : SUBSET Runs, run : Runs \cup {NoRun}, token : Nat]]
  /\ worker \in [Workers -> [pc : {"idle", "claim", "verify", "save", "saved",
                                    "not_found", "unknown"},
                             run : Runs \cup {NoRun}, token : Nat]]
  /\ saved \subseteq 1..issued
  /\ faults \in [kinds : FaultSets, injected : 0 .. MaxFaults]

\* The callers, workers and the redispatch task use the tables only through the
\* repository's transactions, with tokens those transactions gave them.
UsesRepository == Repo!Spec

\* Two workers in the middle of one run hold different claims of it, and at
\* most one of the claims is the one on the row.
OneOwnerPerRun ==
  \A w1, w2 \in Workers :
    /\ worker[w1].run = worker[w2].run
    /\ worker[w1].token # 0
    /\ worker[w1].token = worker[w2].token
    => w1 = w2

\* A publish that raised but reached the broker cannot fail the run a worker
\* has meanwhile claimed ("cannot overwrite a worker that already claimed").
DispatchFailureSparesClaims ==
  [][\A r \in Runs : rows[r].run = "running" => rows'[r].run # "failed"]_vars

\* A run is taken from its owner only when its claim is older than the cutoff.
OnlyStaleClaimsRequeued ==
  [][\A r \in Runs :
       rows[r].run = "running" /\ rows'[r].run = "queued" => rows[r].started = "stale"]_vars

\* Only the worker that holds the claim on the row settles a running run: one
\* whose run was requeued and claimed again settles nothing.
OwnerSettles ==
  [][\A r \in Runs :
       rows[r].run = "running" /\ rows'[r].run \in Repo!Terminal =>
         \E w \in Workers : /\ worker[w].run = r
                            /\ worker[w].token = rows[r].token
                            /\ worker'[w].pc = "idle"]_vars

\* A run is shown as succeeded only when its own claim has saved an entry.
SuccessHasEntry ==
  \A r \in Runs : rows[r].run = "succeeded" => rows[r].token \in saved

\* A queued run is always in somebody's hands: a message names it, a worker is
\* about to claim it, its caller is about to publish or to fail it, or it has
\* no task id and the redispatch task will find it.
NeverStranded ==
  \A r \in Runs :
    rows[r].run = "queued" /\ faults.kinds \cap Stranding = {} =>
      \/ ~rows[r].task
      \/ inbox[r] > 0
      \/ \E w \in Workers : worker[w].run = r /\ worker[w].pc = "claim"

\* The saved entry was written under the claim the run still carries.
SavesUnderClaim ==
  [][\A t \in saved' \ saved :
       \E r \in Runs : rows[r].run = "running" /\ rows[r].token = t]_vars

\* Every accepted request is eventually settled, when no failure strands it.
EventuallySettled ==
  \A r \in Runs :
    rows[r].run \in Repo!Active /\ faults.kinds \cap Stranding = {} ~> rows[r].run \in Repo!Terminal

\* A crash of a worker or of the broker leaves no run queued for ever.
QueuedRunsMoveOn ==
  \A r \in Runs : rows[r].run = "queued" ~> rows[r].run # "queued"
=============================================================================
