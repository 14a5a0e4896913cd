------------------------- MODULE CollectionRepository -------------------------
(***************************************************************************)
(* The two tables behind a collection request, collection_requests and     *)
(* crawl_runs, and the transactions that write them.                       *)
(*                                                                         *)
(* Every run is created together with its request, so one row of this      *)
(* model is the pair.  A repository method locks the run row and then the  *)
(* request row, re-reads both and writes both or neither; it is one step   *)
(* here.  What happens between two transactions of a caller is the         *)
(* business of the modules that call this one: the specification below     *)
(* lets any caller call any method at any time with any claim token ever   *)
(* issued.                                                                 *)
(***************************************************************************)
EXTENDS Naturals

CONSTANTS
  Runs,        \* identities of request/run pairs
  Queries,     \* normalized queries; a company is named by its normalized name
  NoCompany,   \* the NULL of company_id and of the query of an unused pair
  MaxClaims    \* bound on the claim tokens ever issued

ASSUME NoCompanyAssumption == NoCompany \notin Queries
ASSUME MaxClaimsAssumption == MaxClaims \in Nat

VARIABLES
  rows,    \* rows[r]: the committed pair r
  issued   \* number of claim tokens stored so far; token n is the n-th uuid4

repositoryVars == <<rows, issued>>

Active    == {"queued", "running"}
Terminal  == {"succeeded", "partial", "failed"}
Status    == Active \cup Terminal
NoToken   == 0
Companies == Queries \cup {NoCompany}

Row == [query   : Companies,              \* collection_requests.normalized_query
        company : Companies,              \* company_id, the same in both tables
        run     : Status \cup {"absent"}, \* crawl_runs.status
        request : Status \cup {"absent"}, \* collection_requests.status
        token   : Nat,                    \* crawl_runs.claim_token
        task    : BOOLEAN,                \* crawl_runs.celery_task_id IS NOT NULL
        started : {"none", "recent", "stale"},  \* started_at against its cutoff
        created : {"recent", "stale"}]          \* created_at against its cutoff

AbsentRow == [query   |-> NoCompany, company |-> NoCompany,
              run     |-> "absent",  request |-> "absent",
              token   |-> NoToken,   task    |-> FALSE,
              started |-> "none",    created |-> "recent"]

-----------------------------------------------------------------------------
(* The repository's methods, as functions from a pair to a pair.  A name    *)
(* that starts with Faulty is a deliberate defect: no action uses it, and   *)
(* the mutation runs put it in the place of the definition that follows.    *)

QueuedPair(q, c) ==
  [AbsentRow EXCEPT !.query = q, !.company = c, !.run = "queued", !.request = "queued"]

Claimable(row) == row.run = "queued" /\ row.request = "queued"

Claimed(row, t) ==
  [row EXCEPT !.run = "running", !.request = "running", !.token = t, !.started = "recent"]

\* The compare-and-set every owner's write goes through.
Owned(row, t) == row.run = "running" /\ row.token = t /\ row.request = "running"

BothSettled(row, s) == [row EXCEPT !.run = s, !.request = s]

FaultyFinishedSwapped(row, t, s, c) ==
  IF Owned(row, t) THEN [BothSettled(row, c) EXCEPT !.company = s] ELSE row
FaultyFinishedByToken(row, t, s, c) ==
  IF row.token = t THEN [BothSettled(row, s) EXCEPT !.company = c] ELSE row
FaultyFinishedByAnyone(row, t, s, c) ==
  IF row.run = "running" THEN [BothSettled(row, s) EXCEPT !.company = c] ELSE row

Finished(row, t, s, c) ==
  IF Owned(row, t) THEN [BothSettled(row, s) EXCEPT !.company = c] ELSE row

FaultyDispatchFailed(row) == IF row.run # "absent" THEN BothSettled(row, "failed") ELSE row

DispatchFailed(row) == IF Claimable(row) THEN BothSettled(row, "failed") ELSE row

\* _fail_invalid_locked: a running run whose request is still queued.
InvalidPair(row, t) == row.run = "running" /\ row.token = t /\ row.request = "queued"

FailedIfInvalid(row, t) == IF InvalidPair(row, t) THEN BothSettled(row, "failed") ELSE row

FaultyRetryQueuedRun(row, t) ==
  IF Owned(row, t)
  THEN [row EXCEPT !.run = "queued", !.token = NoToken, !.started = "none", !.task = FALSE]
  ELSE FailedIfInvalid(row, t)
FaultyRetryKeepsToken(row, t) ==
  IF Owned(row, t)
  THEN [row EXCEPT !.run = "queued", !.request = "queued", !.started = "none", !.task = FALSE]
  ELSE FailedIfInvalid(row, t)
FaultyRetryKeepsTask(row, t) ==
  IF Owned(row, t)
  THEN [row EXCEPT !.run = "queued", !.request = "queued", !.token = NoToken, !.started = "none"]
  ELSE FailedIfInvalid(row, t)

RetryQueued(row, t) ==
  IF Owned(row, t)
  THEN [row EXCEPT !.run = "queued", !.request = "queued", !.token = NoToken,
                   !.started = "none", !.task = FALSE]
  ELSE FailedIfInvalid(row, t)

RetryExhausted(row, t) ==
  IF Owned(row, t) THEN BothSettled(row, "failed") ELSE FailedIfInvalid(row, t)

-----------------------------------------------------------------------------
(* The same methods as steps of the tables.                                *)

FaultyActiveRequest(q) == \E r \in Runs : rows[r].query = q /\ rows[r].request = "queued"

ActiveRequest(q) == \E r \in Runs : rows[r].query = q /\ rows[r].request \in Active

\* uq_collection_requests_active_query rejects a second active request for q.
CreateRequest(r, q, c) ==
  /\ rows[r].run = "absent"
  /\ ~ActiveRequest(q)
  /\ rows' = [rows EXCEPT ![r] = QueuedPair(q, c)]
  /\ UNCHANGED issued

FaultyClaimQueued(r) ==  \* one token for the life of the process
  /\ Claimable(rows[r])
  /\ rows' = [rows EXCEPT ![r] = Claimed(@, 1)]
  /\ issued' = 1

ClaimQueued(r) ==
  /\ issued < MaxClaims
  /\ Claimable(rows[r])
  /\ rows' = [rows EXCEPT ![r] = Claimed(@, issued + 1)]
  /\ issued' = issued + 1

Finish(r, t, s, c) ==
  /\ rows' = [rows EXCEPT ![r] = Finished(@, t, s, c)]
  /\ UNCHANGED issued

FailQueuedDispatch(r) ==
  /\ rows' = [rows EXCEPT ![r] = DispatchFailed(@)]
  /\ UNCHANGED issued

RequeueForRetry(r, t) ==
  /\ rows' = [rows EXCEPT ![r] = RetryQueued(@, t)]
  /\ UNCHANGED issued

FailRetryExhausted(r, t) ==
  /\ rows' = [rows EXCEPT ![r] = RetryExhausted(@, t)]
  /\ UNCHANGED issued

\* The publisher writes the task id through the ORM: by run id, whatever the status.
StoreTaskId(r) ==
  /\ rows[r].run # "absent"
  /\ rows' = [rows EXCEPT ![r].task = TRUE]
  /\ UNCHANGED issued

\* The reconciler's conditional write of the same column.
MarkRedispatched(r) ==
  /\ rows' = [rows EXCEPT ![r].task = @ \/ rows[r].run = "queued"]
  /\ UNCHANGED issued

\* started_at or created_at of a row falls behind the reconciler's cutoff.
ClaimTurnsStale(r) ==
  /\ rows[r].run = "running"
  /\ rows[r].started = "recent"
  /\ rows' = [rows EXCEPT ![r].started = "stale"]
  /\ UNCHANGED issued

CreationTurnsStale(r) ==
  /\ rows[r].run \in Active
  /\ rows[r].created = "recent"
  /\ rows' = [rows EXCEPT ![r].created = "stale"]
  /\ UNCHANGED issued

Init ==
  /\ rows = [r \in Runs |-> AbsentRow]
  /\ issued = 0

Next ==
  \E r \in Runs :
    \/ \E q \in Queries, c \in Companies : CreateRequest(r, q, c)
    \/ ClaimQueued(r)
    \/ \E t \in 1..issued, s \in Terminal, c \in Companies : Finish(r, t, s, c)
    \/ FailQueuedDispatch(r)
    \/ \E t \in 1..issued : RequeueForRetry(r, t)
    \/ \E t \in 1..issued : FailRetryExhausted(r, t)
    \/ StoreTaskId(r)
    \/ MarkRedispatched(r)
    \/ ClaimTurnsStale(r)
    \/ CreationTurnsStale(r)

Spec == Init /\ [][Next]_repositoryVars

-----------------------------------------------------------------------------
(* Properties.                                                             *)

TypeOK == rows \in [Runs -> Row] /\ issued \in Nat

\* A run and its request always carry the same status: the two conditional
\* updates of every method commit together or not at all, so the
\* "invalid_run_state" repair of _fail_invalid_locked never has work to do.
PairsAgree == \A r \in Runs : rows[r].run = rows[r].request

\* The unique index covers collection_requests only; that no two *runs* of one
\* query are ever live together follows from it and from PairsAgree.
OneActiveRunPerQuery ==
  \A r1, r2 \in Runs :
    /\ rows[r1].run \in Active
    /\ rows[r2].run \in Active
    /\ rows[r1].query = rows[r2].query
    => r1 = r2

\* A claim token names one claim generation of one run: no other row ever
\* carries it, and a queued row carries none, so a requeued run cannot be
\* written with the token of its earlier owner.
TokensNameOneClaim ==
  /\ \A r \in Runs :
       /\ rows[r].token <= issued
       /\ rows[r].run \in {"absent", "queued"} => rows[r].token = NoToken
       /\ rows[r].run = "running" => rows[r].token # NoToken
  /\ \A r1, r2 \in Runs :
       rows[r1].token = rows[r2].token /\ rows[r1].token # NoToken => r1 = r2

\* A run's claim clock runs exactly while it has an owner: the reconciler's
\* scan for stale running rows can see every abandoned claim and no queued run.
ClockRunsWithClaim ==
  \A r \in Runs : /\ rows[r].run = "running" => rows[r].started # "none"
                  /\ rows[r].run = "queued" => rows[r].started = "none"

Outcome(row) == <<row.query, row.company, row.run, row.request, row.token>>

\* "Repeated delivery is terminally idempotent": whatever call arrives after
\* a pair is terminal, from whichever owner, its outcome does not change.
TerminalIsFinal ==
  [][\A r \in Runs :
       rows[r].run \in Terminal => Outcome(rows'[r]) = Outcome(rows[r])]_repositoryVars

\* The claim generation of a row changes only by a fresh claim, or by the
\* requeue that gives it up; a token once released never comes back.
TokensNeverReturn ==
  [][\A r \in Runs :
       rows'[r].token # rows[r].token =>
         \/ rows'[r].token = NoToken /\ rows[r].run = "running" /\ rows'[r].run = "queued"
         \/ rows'[r].token > issued /\ rows[r].run = "queued"]_repositoryVars
-----------------------------------------------------------------------------
\* A pair whose two rows disagree has no phase at all in the client's view.
PairPhase(row) == IF row.run = row.request THEN row.run ELSE "split"

Lifecycle == INSTANCE RequestLifecycle WITH
  Requests <- Runs, NoQuery <- NoCompany,
  phase   <- [r \in Runs |-> PairPhase(rows[r])],
  subject <- [r \in Runs |-> rows[r].query],
  lease   <- [r \in Runs |-> rows[r].token],
  leases  <- issued

\* The two tables behave as the one state machine a client is promised.
ImplementsLifecycle == Lifecycle!Spec
=============================================================================
