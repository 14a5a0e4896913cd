----------------------------- MODULE IngestionTask -----------------------------
(***************************************************************************)
(* The ingestion task with its retries, run by Celery workers on the       *)
(* tables of CollectionRepository.                                         *)
(*                                                                         *)
(* A delivery claims its run, collects what the providers find, files the  *)
(* jobs of each ATS page in a transaction of its own and settles the run   *)
(* under its claim.  A failure of the database ends the delivery in a      *)
(* retry: the claim is given back and a new message carries its token, or, *)
(* after the last retry, the run is failed.  Beside it run the redispatch  *)
(* tasks, which list the stale claims and take them away one by one, the   *)
(* entry verification task, which gets the runs that were given back, and  *)
(* the operator script that resets runs.                                   *)
(***************************************************************************)
EXTENDS Naturals

CONSTANTS
  Runs, Queries, NoCompany, MaxClaims,
  NoRun,          \* a worker that works on no run
  Workers,        \* Celery processes that run run_ingestion
  Beats,          \* executions of redispatch_stale_queued_runs, which may overlap
  Pages,          \* the ATS pages discovery may find
  Known,          \* the queries that name a company of the database
  Runtimes,       \* whether the worker's runtime can be built: TRUE, FALSE or both
  MaxRetries,     \* _MAX_INFRASTRUCTURE_RETRIES
  Scenarios       \* the runs there may be, with the kinds of failures and their number

ASSUME NoRunAssumption == NoRun \notin Runs
ASSUME KnownAssumption == Known \subseteq Queries
ASSUME RuntimesAssumption == Runtimes \subseteq BOOLEAN
ASSUME RetriesAssumption == MaxRetries \in Nat

FaultKinds == {"recover_raises", "claim_raises", "token_unknown", "save_raises", "finish_raises",
               "requeue_raises", "pipeline_raises", "worker_dies", "message_acked", "redelivery",
               "slow_worker", "beat_dies", "operator_reset"}
ASSUME ScenariosAssumption ==
  Scenarios \subseteq [runs : SUBSET Runs, kinds : SUBSET FaultKinds, most : Nat]

VARIABLES
  rows, issued,
  inbox,   \* the messages in the broker
  worker,  \* what each worker is doing
  filed,   \* the pairs of a page and a run with a job_collection_snapshots row
  beat,    \* what each redispatch task is doing
  rescuer, \* the claim token the entry verification task holds on each run
  faults   \* the kinds of failures there may be, and how many are still to come

Repo == INSTANCE CollectionRepository

taskVars == <<inbox, worker, filed, beat, rescuer, faults>>
vars == <<rows, issued, taskVars>>

NoToken == 0

Message == [run : Runs, token : Nat, retries : 0 .. MaxRetries]

IdleWorker == [pc |-> "idle", run |-> NoRun, given |-> NoToken, retries |-> 0,
               token |-> NoToken, pages |-> {}, saved |-> FALSE]

Steps == {"idle", "recover", "claim", "unconfigured", "decline", "collect", "save", "fail", "none",
          "requeue", "resend"}

IdleBeat == [todo |-> {}, run |-> NoRun, token |-> NoToken]

Worker == [pc : Steps, run : Runs \cup {NoRun}, given : Nat, retries : 0 .. MaxRetries,
           token : Nat, pages : SUBSET Pages, saved : BOOLEAN]

Fault(kind) ==
  /\ kind \in faults.kinds /\ faults.left > 0
  /\ faults' = [faults EXCEPT !.left = @ - 1]

\* A worker goes on with some fields changed.
Goes(w, state) == worker' = [worker EXCEPT ![w] = state]

-----------------------------------------------------------------------------
(* A name that starts with Faulty is a deliberate defect: no action uses   *)
(* it, and the mutation runs put it in the place of the definition that    *)
(* follows.                                                                *)

\* A retried message first gives back the claim it names.  Then the runtime is
\* built.
Receive(w, m) ==
  /\ worker[w].pc = "idle"
  /\ m \in inbox
  /\ inbox' = inbox \ {m}
  /\ \E configured \in Runtimes :
       Goes(w, [IdleWorker EXCEPT
                  !.run = m.run, !.given = m.token, !.retries = m.retries,
                  !.pc = IF m.retries > 0 /\ m.token # NoToken THEN "recover"
                         ELSE IF configured THEN "claim" ELSE "unconfigured"])
  /\ UNCHANGED <<rows, issued, filed, beat, rescuer, faults>>

Retry(m) == [m EXCEPT !.retries = @ + 1]
Given(w) == [run |-> worker[w].run, token |-> worker[w].given, retries |-> worker[w].retries]

FaultyRecover(w) ==  \* gives back whatever claim the run has
  /\ worker[w].pc = "recover"
  /\ Repo!RequeueForRetry(worker[w].run, rows[worker[w].run].token)
  /\ Goes(w, [worker[w] EXCEPT !.pc = "claim"])
  /\ UNCHANGED <<inbox, filed, beat, rescuer, faults>>
Recover(w) ==
  /\ worker[w].pc = "recover"
  /\ Repo!RequeueForRetry(worker[w].run, worker[w].given)
  /\ \E configured \in Runtimes :
       Goes(w, [worker[w] EXCEPT !.pc = IF configured THEN "claim" ELSE "unconfigured"])
  /\ UNCHANGED <<inbox, filed, beat, rescuer, faults>>

\* The database fails before or after the commit.  The message is sent again
\* until its retries are used up; the claim it names is then left to the
\* redispatch task.
RecoverRaises(w) ==
  /\ worker[w].pc = "recover"
  /\ Fault("recover_raises")
  /\ \/ UNCHANGED <<rows, issued>>
     \/ Repo!RequeueForRetry(worker[w].run, worker[w].given)
  /\ inbox' = IF worker[w].retries < MaxRetries THEN inbox \cup {Retry(Given(w))} ELSE inbox
  /\ Goes(w, IdleWorker)
  /\ UNCHANGED <<filed, beat, rescuer>>

Claim(w) ==
  /\ worker[w].pc \in {"claim", "unconfigured"}
  /\ Repo!ClaimQueued(worker[w].run)
  /\ Goes(w, [worker[w] EXCEPT !.token = issued + 1,
                               !.pc = IF @ = "claim" THEN "collect" ELSE "decline"])
  /\ UNCHANGED <<inbox, filed, beat, rescuer, faults>>

ClaimRefused(w) ==
  /\ worker[w].pc \in {"claim", "unconfigured"}
  /\ ~Repo!Claimable(rows[worker[w].run])
  /\ Goes(w, IdleWorker)
  /\ UNCHANGED <<rows, issued, inbox, filed, beat, rescuer, faults>>

\* The connection fails before or after the claim is committed;
\* recover_claim_token looks which.  An unconfigured task just ends.
ClaimRaises(w) ==
  /\ worker[w].pc = "claim"
  /\ Fault("claim_raises")
  /\ \/ /\ UNCHANGED <<rows, issued>>
        /\ Goes(w, [worker[w] EXCEPT !.pc = "requeue"])
     \/ /\ Repo!ClaimQueued(worker[w].run)
        /\ Goes(w, [worker[w] EXCEPT !.pc = "requeue", !.token = issued + 1])
  /\ UNCHANGED <<inbox, filed, beat, rescuer>>

\* recover_claim_token fails too: the retry goes on without the token.
TokenUnknown(w) ==
  /\ worker[w].pc = "requeue" /\ worker[w].token # NoToken /\ worker[w].pages = {}
  /\ Fault("token_unknown")
  /\ Goes(w, [worker[w] EXCEPT !.token = NoToken])
  /\ UNCHANGED <<rows, issued, inbox, filed, beat, rescuer>>

\* _mark_collection_unavailable.
Decline(w) ==
  /\ worker[w].pc = "decline"
  /\ Repo!Finish(worker[w].run, worker[w].token, "failed", NoCompany)
  /\ Goes(w, IdleWorker)
  /\ UNCHANGED <<inbox, filed, beat, rescuer, faults>>

\* The providers find nothing at all, documents without an ATS page, or pages.
Collect(w) ==
  /\ worker[w].pc = "collect"
  /\ \/ Goes(w, [worker[w] EXCEPT !.pc = "none"])
     \/ \E pages \in SUBSET Pages : Goes(w, [worker[w] EXCEPT !.pc = "save", !.pages = pages])
  /\ UNCHANGED <<rows, issued, inbox, filed, beat, rescuer, faults>>

CompanyOf(r) == IF rows[r].query \in Known THEN rows[r].query ELSE NoCompany

WithoutPage(state, page) == [state EXCEPT !.pages = @ \ {page}]

\* The page cannot be read, or nobody knows the company.
SkipPage(w, page) ==
  /\ worker[w].pc = "save" /\ page \in worker[w].pages
  /\ Goes(w, WithoutPage(worker[w], page))
  /\ UNCHANGED <<rows, issued, inbox, filed, beat, rescuer, faults>>

SavePage(w, page) ==
  /\ worker[w].pc = "save" /\ page \in worker[w].pages
  /\ CompanyOf(worker[w].run) # NoCompany
  /\ <<page, worker[w].run>> \notin filed
  /\ filed' = filed \cup {<<page, worker[w].run>>}
  /\ Goes(w, [WithoutPage(worker[w], page) EXCEPT !.saved = TRUE])
  /\ UNCHANGED <<rows, issued, inbox, beat, rescuer, faults>>

\* uq_job_snapshot_entry_run refuses a second snapshot of the page by the run:
\* an IntegrityError is no reason to retry.
PageConflict(w, page) ==
  /\ worker[w].pc = "save" /\ page \in worker[w].pages
  /\ CompanyOf(worker[w].run) # NoCompany
  /\ <<page, worker[w].run>> \in filed
  /\ Goes(w, [worker[w] EXCEPT !.pc = "fail"])
  /\ UNCHANGED <<rows, issued, inbox, filed, beat, rescuer, faults>>

\* OperationalError, before or after the commit of the page.
SaveRaises(w, page) ==
  /\ worker[w].pc = "save" /\ page \in worker[w].pages
  /\ Fault("save_raises")
  /\ filed' \in {filed} \cup (IF CompanyOf(worker[w].run) # NoCompany
                              THEN {filed \cup {<<page, worker[w].run>>}} ELSE {})
  /\ Goes(w, [worker[w] EXCEPT !.pc = "requeue"])
  /\ UNCHANGED <<rows, issued, inbox, beat, rescuer>>

\* Any other exception of the pipeline settles the run.
PipelineRaises(w) ==
  /\ worker[w].pc \in {"collect", "save"}
  /\ Fault("pipeline_raises")
  /\ Goes(w, [worker[w] EXCEPT !.pc = "fail"])
  /\ UNCHANGED <<rows, issued, inbox, filed, beat, rescuer>>

\* The statuses and the company that _finish may be called with.
Ending(state) ==
  CASE state.pc \in {"none", "fail"} -> {<<"failed", NoCompany>>}
    [] state.pc = "save" /\ state.pages = {} ->
         {<<s, CompanyOf(state.run)>> : s \in IF state.saved THEN {"succeeded", "partial"}
                                              ELSE {"failed"}}
    [] OTHER -> {}

Finish(w) ==
  /\ \E ending \in Ending(worker[w]) :
       Repo!Finish(worker[w].run, worker[w].token, ending[1], ending[2])
  /\ Goes(w, IdleWorker)
  /\ UNCHANGED <<inbox, filed, beat, rescuer, faults>>

\* OperationalError, before or after the commit of finish.
FinishRaises(w) ==
  /\ Ending(worker[w]) # {}
  /\ Fault("finish_raises")
  /\ \/ UNCHANGED <<rows, issued>>
     \/ \E ending \in Ending(worker[w]) :
          Repo!Finish(worker[w].run, worker[w].token, ending[1], ending[2])
  /\ Goes(w, [worker[w] EXCEPT !.pc = "requeue"])
  /\ UNCHANGED <<inbox, filed, beat, rescuer>>

\* A delivery that failed gives its claim back and is sent again with it; an
\* error without a token leaves the run as it is.
Requeue(w) ==
  /\ worker[w].pc = "requeue" /\ worker[w].retries < MaxRetries
  /\ Repo!RequeueForRetry(worker[w].run, worker[w].token)
  /\ Goes(w, [worker[w] EXCEPT !.pc = "resend"])
  /\ UNCHANGED <<inbox, filed, beat, rescuer, faults>>

FailExhausted(w) ==
  /\ worker[w].pc = "requeue" /\ worker[w].retries = MaxRetries
  /\ Repo!FailRetryExhausted(worker[w].run, worker[w].token)
  /\ Goes(w, IdleWorker)
  /\ UNCHANGED <<inbox, filed, beat, rescuer, faults>>

\* The failure to give the claim back is suppressed; the last delivery ends.
RequeueRaises(w) ==
  /\ worker[w].pc = "requeue" /\ worker[w].token # NoToken
  /\ Fault("requeue_raises")
  /\ Goes(w, IF worker[w].retries < MaxRetries THEN [worker[w] EXCEPT !.pc = "resend"]
             ELSE IdleWorker)
  /\ UNCHANGED <<rows, issued, inbox, filed, beat, rescuer>>

Resend(w) ==
  /\ worker[w].pc = "resend"
  /\ inbox' = inbox \cup {[run |-> worker[w].run, token |-> worker[w].token,
                           retries |-> worker[w].retries + 1]}
  /\ Goes(w, IdleWorker)
  /\ UNCHANGED <<rows, issued, filed, beat, rescuer, faults>>

-----------------------------------------------------------------------------
(* The broker, the clock, the redispatch task and the operator.            *)

\* A message is acknowledged when its task ends.  A lost worker's message comes
\* back, or, when only the child process died, is acknowledged.
WorkerDies(w) ==
  /\ worker[w].pc # "idle"
  /\ \/ Fault("worker_dies") /\ inbox' = inbox \cup {Given(w)}
     \/ Fault("message_acked") /\ UNCHANGED inbox
  /\ Goes(w, IdleWorker)
  /\ UNCHANGED <<rows, issued, filed, beat, rescuer>>

Redeliver(w) ==
  /\ worker[w].pc # "idle"
  /\ Fault("redelivery")
  /\ inbox' = inbox \cup {Given(w)}
  /\ UNCHANGED <<rows, issued, worker, filed, beat, rescuer>>

OwnerAlive(r) == \/ rescuer[r] = rows[r].token
                 \/ \E w \in Workers : worker[w].run = r /\ worker[w].token = rows[r].token

\* The cutoff is long: a live owner that crosses it is a fault.
ClaimAges(r) ==
  /\ ~OwnerAlive(r)
  /\ Repo!ClaimTurnsStale(r)
  /\ UNCHANGED taskVars

ClaimAgesEarly(r) ==
  /\ OwnerAlive(r)
  /\ Fault("slow_worker")
  /\ Repo!ClaimTurnsStale(r)
  /\ UNCHANGED <<inbox, worker, filed, beat, rescuer>>

\* The rows stay in the session as they were listed until the first requeue rolls
\* the session back; from then on the claim token of every later row is read
\* afresh, whoever holds it, and a row without one is skipped.
Stale == {r \in Runs : rows[r].run = "running" /\ rows[r].started = "stale"}

BeatLists(b) ==
  /\ beat[b] = IdleBeat
  /\ \E r \in Stale :
       beat' = [beat EXCEPT ![b] = [todo |-> Stale \ {r}, run |-> r, token |-> rows[r].token]]
  /\ UNCHANGED <<rows, issued, inbox, worker, filed, rescuer, faults>>

BeatReads(b, r) ==
  /\ beat[b].run = NoRun /\ r \in beat[b].todo
  /\ beat' = [beat EXCEPT ![b] = [todo  |-> beat[b].todo \ {r},
                                  run   |-> IF rows[r].token = NoToken THEN NoRun ELSE r,
                                  token |-> rows[r].token]]
  /\ UNCHANGED <<rows, issued, inbox, worker, filed, rescuer, faults>>

BeatRequeues(b) ==
  /\ beat[b].run # NoRun
  /\ Repo!RequeueForRetry(beat[b].run, beat[b].token)
  /\ beat' = [beat EXCEPT ![b].run = NoRun, ![b].token = NoToken]
  /\ UNCHANGED <<inbox, worker, filed, rescuer, faults>>

BeatDies(b) ==
  /\ beat[b] # IdleBeat
  /\ Fault("beat_dies")
  /\ beat' = [beat EXCEPT ![b] = IdleBeat]
  /\ UNCHANGED <<rows, issued, inbox, worker, filed, rescuer>>

\* A queued run without a task id is published to the entry verification task,
\* which claims it, and settles it in any way; EntryVerification has the steps
\* in between.
RescuerTakes(r) ==
  /\ ~rows[r].task /\ rescuer[r] = NoToken
  /\ Repo!ClaimQueued(r)
  /\ rescuer' = [rescuer EXCEPT ![r] = issued + 1]
  /\ UNCHANGED <<inbox, worker, filed, beat, faults>>

RescuerFinishes(r) ==
  /\ rescuer[r] # NoToken
  /\ \E s \in Repo!Terminal, c \in {CompanyOf(r), NoCompany} : Repo!Finish(r, rescuer[r], s, c)
  /\ rescuer' = [rescuer EXCEPT ![r] = NoToken]
  /\ UNCHANGED <<inbox, worker, filed, beat, faults>>

\* reset_and_dispatch.py resets the runs and leaves their requests alone.
OperatorReset(r) ==
  /\ rows[r].run \in {"failed", "running", "partial"}
  /\ Fault("operator_reset")
  /\ rows' = [rows EXCEPT ![r].run = "queued", ![r].token = NoToken,
                          ![r].started = "none", ![r].task = TRUE]
  /\ inbox' = inbox \cup {[run |-> r, token |-> NoToken, retries |-> 0]}
  /\ UNCHANGED <<issued, worker, filed, beat, rescuer>>

-----------------------------------------------------------------------------
\* The runs of a scenario have been created, published and given their task ids;
\* no two active runs have the same query.
Init ==
  \E scenario \in Scenarios :
    /\ \E query \in [Runs -> Queries] :
         /\ \A x, y \in scenario.runs : query[x] = query[y] => x = y
         /\ rows = [r \in Runs |->
                      IF r \in scenario.runs
                      THEN [Repo!QueuedPair(query[r], NoCompany) EXCEPT !.task = TRUE]
                      ELSE Repo!AbsentRow]
    /\ issued = 0
    /\ inbox = [run : scenario.runs, token : {NoToken}, retries : {0}]
    /\ worker = [w \in Workers |-> IdleWorker]
    /\ filed = {}
    /\ beat = [b \in Beats |-> IdleBeat]
    /\ rescuer = [r \in Runs |-> NoToken]
    /\ faults = [kinds |-> scenario.kinds, left |-> scenario.most]

WorkerStep(w) ==
  \/ Recover(w)
  \/ Claim(w)
  \/ ClaimRefused(w)
  \/ Decline(w)
  \/ Collect(w)
  \/ \E page \in Pages : SkipPage(w, page) \/ SavePage(w, page) \/ PageConflict(w, page)
  \/ Finish(w)
  \/ Requeue(w)
  \/ FailExhausted(w)
  \/ Resend(w)

BeatStep(b) ==
  \/ BeatLists(b)
  \/ \E r \in Runs : BeatReads(b, r)
  \/ BeatRequeues(b)

FaultStep ==
  \/ \E w \in Workers :
       \/ RecoverRaises(w)
       \/ ClaimRaises(w)
       \/ TokenUnknown(w)
       \/ \E page \in Pages : SaveRaises(w, page)
       \/ PipelineRaises(w)
       \/ FinishRaises(w)
       \/ RequeueRaises(w)
       \/ WorkerDies(w)
       \/ Redeliver(w)
  \/ \E b \in Beats : BeatDies(b)
  \/ \E r \in Runs : ClaimAgesEarly(r) \/ OperatorReset(r)

Next ==
  \/ \E w \in Workers : (\E m \in inbox : Receive(w, m)) \/ WorkerStep(w)
  \/ \E b \in Beats : BeatStep(b)
  \/ \E r \in Runs : ClaimAges(r) \/ RescuerTakes(r) \/ RescuerFinishes(r)
  \/ FaultStep

Spec == Init /\ [][Next]_vars

\* A process that is not killed goes on, a free worker takes a waiting message,
\* time passes, and beat and the entry verification task run.  Nothing is
\* assumed of faults.
Fairness ==
  /\ \A w \in Workers : WF_vars(WorkerStep(w))
  /\ WF_vars(\E w \in Workers : \E m \in inbox : Receive(w, m))
  /\ \A b \in Beats : WF_vars(BeatStep(b))
  /\ \A r \in Runs : /\ WF_vars(ClaimAges(r))
                     /\ WF_vars(RescuerTakes(r))
                     /\ WF_vars(RescuerFinishes(r))

FairSpec == Spec /\ Fairness

-----------------------------------------------------------------------------
(* Properties.                                                             *)

TypeOK ==
  /\ Repo!TypeOK
  /\ inbox \subseteq Message
  /\ worker \in [Workers -> Worker]
  /\ filed \subseteq Pages \X Runs
  /\ beat \in [Beats -> [todo : SUBSET Runs, run : Runs \cup {NoRun}, token : Nat]]
  /\ rescuer \in [Runs -> Nat]
  /\ faults \in [kinds : SUBSET FaultKinds, left : Nat]

Working == {"unconfigured", "decline", "collect", "save", "fail", "none"}

\* A redispatch task gives back the claim it has read on the run.
BeatTakes(b, r) ==
  beat[b].run = r /\ beat[b].token = rows[r].token /\ beat'[b].run = NoRun

\* No delivery gives back a claim that is younger than the cutoff while its owner
\* works: the requeue that opens a retry, or ends a failed delivery, spares the run
\* when somebody else has claimed it between the two deliveries.  The clock, the
\* entry verification task and the operator spare it, too.  The redispatch task is
\* excepted: it lists the stale rows once and requeues the later ones with the
\* token it finds then (schedule.py:123-125 after the rollback in
\* repository.py:74), which may be the one of a fresh claim.
RetriesSpareLiveClaims ==
  [][\A r \in Runs, w \in Workers :
       /\ worker[w].run = r /\ worker[w].pc \in Working
       /\ rows[r].run = "running" /\ rows[r].token = worker[w].token
       /\ rows[r].started = "recent"
       => ~Repo!Claimable(rows'[r]) \/ \E b \in Beats : BeatTakes(b, r)]_vars

\* A run is settled by the delivery that holds its claim; the failure of an
\* earlier delivery, or its late end, never settles the work of its successor.
OwnerSettles ==
  [][\A r \in Runs :
       rows[r].run = "running" /\ rows'[r].run \in Repo!Terminal =>
         \/ rescuer[r] = rows[r].token
         \/ \E w \in Workers : worker[w].run = r /\ worker[w].token = rows[r].token]_vars

\* A run that was claimed once is settled, unless the operator's script splits
\* it from its request: no claim stays on a run for ever, whichever state write
\* fails, and a run that was given back is always found again.
RunsSettle ==
  \A r \in Runs :
    rows[r].run = "running" /\ rows[r].request = "running"
      ~> rows[r].run \in Repo!Terminal \/ rows[r].run # rows[r].request

\* "Repeated delivery is terminally idempotent": a delivery that finds a page
\* which an earlier delivery of the run has filed does not fail the run for it.
RedeliveryIsIdempotent ==
  [][\A w \in Workers, page \in Pages :
       page \in worker[w].pages /\ <<page, worker[w].run>> \in filed
       => worker'[w].pc # "fail"]_vars

\* "test_stale_running_reconciliation_cannot_requeue_a_new_claim_generation": a
\* redispatch task takes no claim that is younger than the cutoff.
BeatSparesLiveClaims ==
  [][\A b \in Beats, r \in Runs :
       rows[r].run = "running" /\ rows[r].started = "recent" /\ BeatTakes(b, r)
       => ~Repo!Claimable(rows'[r])]_vars

\* "Persistence must carry that exact token": a page is written under the claim
\* that the run carries.
PagesFiledUnderClaim ==
  [][\A page \in Pages, r \in Runs :
       <<page, r>> \in filed' \ filed =>
         \E w \in Workers : /\ worker[w].run = r /\ worker[w].token = rows[r].token
                            /\ rows[r].run = "running"]_vars

\* "Reset non-queued runs and dispatch a bounded batch": a run that the script
\* puts back can be claimed by the delivery it sends.
QueuedRunsAreClaimable == \A r \in Runs : rows[r].run = "queued" => Repo!Claimable(rows[r])
=============================================================================
