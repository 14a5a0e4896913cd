------------------------ MODULE EntryVerificationProofs ------------------------
(***************************************************************************)
(* Proofs about EntryVerification, for any callers, workers, redispatch    *)
(* tasks, requests and failures.                                           *)
(*                                                                         *)
(* The tables come first: every step of an actor is a step that            *)
(* CollectionRepository allows or leaves the tables alone (StepsUse-       *)
(* Repository), so the invariant proved there holds here as well.  IInv    *)
(* adds what each actor holds between two of its transactions; that two    *)
(* workers hold different claims rests on a claim's token being newer      *)
(* than every token issued before it.                                      *)
(*                                                                         *)
(* NeverStranded needs a second invariant, HInv: what a publisher holds of *)
(* its run from the message to the task id.  It holds while executions of  *)
(* the redispatch task do not overlap, and only then.                      *)
(***************************************************************************)
EXTENDS EntryVerification, TLAPS

RepoProofs == INSTANCE CollectionRepositoryProofs

\* The repository that the actors use and the one that is proved about are the same.
LEMMA SameTables ==
  /\ Repo!repositoryVars = RepoProofs!repositoryVars
  /\ Repo!Init <=> RepoProofs!Init
  /\ Repo!Next => RepoProofs!Next
<1>. USE DEF Repo!NoToken, RepoProofs!NoToken, Repo!AbsentRow, RepoProofs!AbsentRow,
     Repo!repositoryVars, RepoProofs!repositoryVars, Repo!Active, RepoProofs!Active,
     Repo!Terminal, RepoProofs!Terminal, Repo!Companies, RepoProofs!Companies
<1>1. Repo!repositoryVars = RepoProofs!repositoryVars
  OBVIOUS
<1>2. Repo!Init <=> RepoProofs!Init
  BY DEF Repo!Init, RepoProofs!Init
<1>3. ASSUME NEW row, NEW t, NEW s, NEW c
      PROVE /\ Repo!QueuedPair(t, c) = RepoProofs!QueuedPair(t, c)
            /\ Repo!Claimable(row) <=> RepoProofs!Claimable(row)
            /\ Repo!Claimed(row, t) = RepoProofs!Claimed(row, t)
            /\ Repo!Finished(row, t, s, c) = RepoProofs!Finished(row, t, s, c)
            /\ Repo!DispatchFailed(row) = RepoProofs!DispatchFailed(row)
            /\ Repo!RetryQueued(row, t) = RepoProofs!RetryQueued(row, t)
            /\ Repo!RetryExhausted(row, t) = RepoProofs!RetryExhausted(row, t)
  BY DEF Repo!QueuedPair, RepoProofs!QueuedPair, Repo!Claimable, RepoProofs!Claimable,
         Repo!Claimed, RepoProofs!Claimed, Repo!Finished, RepoProofs!Finished,
         Repo!Owned, RepoProofs!Owned, Repo!BothSettled, RepoProofs!BothSettled,
         Repo!DispatchFailed, RepoProofs!DispatchFailed, Repo!RetryQueued, RepoProofs!RetryQueued,
         Repo!FailedIfInvalid, RepoProofs!FailedIfInvalid, Repo!InvalidPair, RepoProofs!InvalidPair,
         Repo!RetryExhausted, RepoProofs!RetryExhausted
<1>4. ASSUME NEW r, NEW q, NEW t, NEW s, NEW c
      PROVE  /\ Repo!CreateRequest(r, q, c) <=> RepoProofs!CreateRequest(r, q, c)
             /\ Repo!ClaimQueued(r) <=> RepoProofs!ClaimQueued(r)
             /\ Repo!Finish(r, t, s, c) <=> RepoProofs!Finish(r, t, s, c)
             /\ Repo!FailQueuedDispatch(r) <=> RepoProofs!FailQueuedDispatch(r)
             /\ Repo!RequeueForRetry(r, t) <=> RepoProofs!RequeueForRetry(r, t)
             /\ Repo!FailRetryExhausted(r, t) <=> RepoProofs!FailRetryExhausted(r, t)
             /\ Repo!StoreTaskId(r) <=> RepoProofs!StoreTaskId(r)
             /\ Repo!MarkRedispatched(r) <=> RepoProofs!MarkRedispatched(r)
             /\ Repo!ClaimTurnsStale(r) <=> RepoProofs!ClaimTurnsStale(r)
             /\ Repo!CreationTurnsStale(r) <=> RepoProofs!CreationTurnsStale(r)
  BY <1>3 DEF Repo!CreateRequest, RepoProofs!CreateRequest, Repo!ClaimQueued, RepoProofs!ClaimQueued, Repo!Finish, RepoProofs!Finish, Repo!FailQueuedDispatch, RepoProofs!FailQueuedDispatch, Repo!RequeueForRetry, RepoProofs!RequeueForRetry, Repo!FailRetryExhausted, RepoProofs!FailRetryExhausted, Repo!StoreTaskId, RepoProofs!StoreTaskId, Repo!MarkRedispatched, RepoProofs!MarkRedispatched, Repo!ClaimTurnsStale, RepoProofs!ClaimTurnsStale, Repo!CreationTurnsStale, RepoProofs!CreationTurnsStale, Repo!ActiveRequest, RepoProofs!ActiveRequest
<1>5. Repo!Next => RepoProofs!Next
  <2>1. ASSUME NEW r \in Runs, NEW q \in Queries, NEW c \in Repo!Companies, Repo!CreateRequest(r, q, c)
        PROVE  RepoProofs!Next
    BY <1>4, <2>1 DEF RepoProofs!Next
  <2>2. ASSUME NEW r \in Runs, NEW t \in 1..issued, NEW s \in Repo!Terminal,
               NEW c \in Repo!Companies, Repo!Finish(r, t, s, c)
        PROVE  RepoProofs!Next
    BY <1>4, <2>2 DEF RepoProofs!Next
  <2>3. ASSUME NEW r \in Runs, NEW t \in 1..issued,
               Repo!RequeueForRetry(r, t) \/ Repo!FailRetryExhausted(r, t)
        PROVE  RepoProofs!Next
    BY <1>4, <2>3 DEF RepoProofs!Next
  <2>4. ASSUME NEW r \in Runs,
               \/ Repo!ClaimQueued(r) \/ Repo!FailQueuedDispatch(r) \/ Repo!StoreTaskId(r)
               \/ Repo!MarkRedispatched(r) \/ Repo!ClaimTurnsStale(r) \/ Repo!CreationTurnsStale(r)
        PROVE  RepoProofs!Next
    BY <1>4, <2>4 DEF RepoProofs!Next
  <2>. QED  BY <2>1, <2>2, <2>3, <2>4, Zenon DEF Repo!Next
<1>. QED  BY <1>1, <1>2, <1>5

-----------------------------------------------------------------------------
\* An actor that goes on with a run has one, and a claim it works under was issued.
CallersReady ==
  \A p \in Callers : /\ caller[p].pc = "insert" => caller[p].query \in Queries
                     /\ caller[p].pc \in {"publish", "undo", "store"} => caller[p].run \in Runs

BeatsReady ==
  \A b \in Beats : /\ beat[b].pc \in {"requeue", "mark"} => beat[b].run \in Runs
                   /\ beat[b].pc = "requeue" => beat[b].token \in 1..issued

WorkersReady ==
  \A w \in Workers :
    /\ worker[w].pc # "idle" => worker[w].run \in Runs
    /\ IF worker[w].pc \in {"idle", "claim"} THEN worker[w].token = 0
                                             ELSE worker[w].token \in 1..issued
    /\ worker[w].pc = "saved" => worker[w].token \in saved

\* No two workers hold the same claim, of whatever run.
ClaimsApart ==
  \A w1, w2 \in Workers : worker[w1].token = worker[w2].token /\ worker[w1].token # 0 => w1 = w2

IInv ==
  /\ RepoProofs!IInv
  /\ TypeOK
  /\ CallersReady
  /\ BeatsReady
  /\ WorkersReady
  /\ ClaimsApart
  /\ SuccessHasEntry

-----------------------------------------------------------------------------
\* What the invariant of the tables says, in the names of EntryVerification.
LEMMA SoundTables ==
  ASSUME RepoProofs!IInv
  PROVE  /\ issued \in Nat
         /\ rows \in [Runs -> Repo!Row]
         /\ \A r \in Runs :
              /\ rows[r].run = rows[r].request
              /\ rows[r].token \in 0..issued
              /\ rows[r].run \in {"absent", "queued"} => rows[r].token = 0
              /\ rows[r].run = "running" => rows[r].token # 0
              /\ rows[r].run = "queued" => rows[r].started = "none"
  BY DEF RepoProofs!IInv, RepoProofs!TypeOK, RepoProofs!PairsAgree, RepoProofs!TokensNameOneClaim,
         RepoProofs!ClockRunsWithClaim, RepoProofs!NoToken,
         RepoProofs!Row, RepoProofs!Companies, RepoProofs!Status, RepoProofs!Active, RepoProofs!Terminal,
         Repo!Row, Repo!Companies, Repo!Status, Repo!Active, Repo!Terminal

\* What every method does to every row but the settlement of a claim.
Gentle ==
  \A r \in Runs :
    /\ rows'[r].run = "succeeded" => rows[r].run = "succeeded" /\ rows'[r].token = rows[r].token
    /\ rows[r].run = "running" => rows'[r].run \notin Repo!Terminal

\* A step of the tables that settles no claim makes no run succeed and fails none that runs.
LEMMA MethodsAreGentle ==
  ASSUME RepoProofs!IInv, NEW r \in Runs,
         \/ \E q \in Queries, c \in Repo!Companies : Repo!CreateRequest(r, q, c)
         \/ \E t \in 1..issued : Repo!RequeueForRetry(r, t)
         \/ Repo!ClaimQueued(r) \/ Repo!FailQueuedDispatch(r)
         \/ Repo!StoreTaskId(r) \/ Repo!MarkRedispatched(r)
         \/ Repo!ClaimTurnsStale(r) \/ Repo!CreationTurnsStale(r)
  PROVE  Gentle
<1>. USE DEF Repo!Terminal
<1>1. rows \in [Runs -> Repo!Row] /\ rows[r] \in Repo!Row
  BY SoundTables
<1>2. ASSUME NEW new, rows' = [rows EXCEPT ![r] = new],
             new.run = "succeeded" => rows[r].run = "succeeded" /\ new.token = rows[r].token,
             rows[r].run = "running" => new.run \notin Repo!Terminal
      PROVE  Gentle
  BY <1>1, <1>2 DEF Gentle
<1>3. CASE \E q \in Queries, c \in Repo!Companies : Repo!CreateRequest(r, q, c)
  BY <1>1, <1>2, <1>3 DEF Repo!CreateRequest, Repo!QueuedPair, Repo!AbsentRow
<1>4. CASE Repo!ClaimQueued(r)
  BY <1>1, <1>2, <1>4 DEF Repo!ClaimQueued, Repo!Claimed, Repo!Row
<1>5. CASE Repo!FailQueuedDispatch(r)
  BY <1>1, <1>2, <1>5
  DEF Repo!FailQueuedDispatch, Repo!DispatchFailed, Repo!Claimable, Repo!BothSettled, Repo!Row
<1>6. CASE \E t \in 1..issued : Repo!RequeueForRetry(r, t)
  <2>1. \A t : ~Repo!InvalidPair(rows[r], t)
    BY SoundTables DEF Repo!InvalidPair
  <2>. QED  BY <1>1, <1>2, <1>6, <2>1
            DEF Repo!RequeueForRetry, Repo!RetryQueued, Repo!FailedIfInvalid, Repo!Row
<1>7. CASE Repo!StoreTaskId(r)
  BY <1>1, <1>2, <1>7 DEF Repo!StoreTaskId, Repo!Row
<1>8. CASE Repo!MarkRedispatched(r)
  BY <1>1, <1>8 DEF Repo!MarkRedispatched, Gentle, Repo!Row
<1>9. CASE Repo!ClaimTurnsStale(r)
  BY <1>1, <1>2, <1>9 DEF Repo!ClaimTurnsStale, Repo!Row
<1>10. CASE Repo!CreationTurnsStale(r)
  BY <1>1, <1>2, <1>10 DEF Repo!CreationTurnsStale, Repo!Row
<1>. QED  BY <1>3, <1>4, <1>5, <1>6, <1>7, <1>8, <1>9, <1>10

\* An owner's write changes the row of its own claim only; late, it changes nothing.
LEMMA FinishSettlesOwnClaim ==
  ASSUME RepoProofs!IInv, NEW r \in Runs, NEW t \in 1..issued, NEW s \in Repo!Terminal,
         NEW c \in Repo!Companies, Repo!Finish(r, t, s, c), NEW x \in Runs
  PROVE  /\ rows'[x].run # rows[x].run =>
              x = r /\ rows[x].run = "running" /\ rows[x].token = t /\ rows'[x].run = s
         /\ rows'[x].token = rows[x].token
  BY SoundTables DEF Repo!Finish, Repo!Finished, Repo!Owned, Repo!BothSettled, Repo!Row

-----------------------------------------------------------------------------
\* The steps by who takes them, failures included.
CallerActs(p) ==
  (\E q \in Queries : CheckActive(p, q)) \/ CallerStep(p) \/ PublishRaises(p) \/ CallerDies(p)
BeatActs(b) == BeatStep(b) \/ BeatDies(b) \/ \E r \in Runs : RepublishRaises(b, r)
WorkerActs(w) ==
  (\E r \in Runs : Deliver(w, r)) \/ WorkerStep(w) \/ ClaimRaises(w) \/ WorkerDies(w) \/ Redeliver(w)
RunActs(r) ==
  ClaimAges(r) \/ CreationAges(r) \/ ClaimAgesEarly(r) \/ CreationAgesEarly(r) \/ LoseMessage(r)

\* Every step is one of a caller, a redispatch task, a worker or the clock.
LEMMA StepByActor ==
  Next => \/ \E p \in Callers : CallerActs(p)
          \/ \E b \in Beats : BeatActs(b)
          \/ \E w \in Workers : WorkerActs(w)
          \/ \E r \in Runs : RunActs(r)
  BY Zenon DEF Next, FaultStep, CallerActs, BeatActs, WorkerActs, RunActs

\* Every step of an actor leaves the tables alone, is a method of the repository
\* that settles no claim, or is the write that ends a worker's run.
LEMMA StepsUseRepository ==
  ASSUME IInv, Next
  PROVE  \/ UNCHANGED <<rows, issued>>
         \/ Repo!Next /\ Gentle
         \/ \E w \in Workers : FinishRun(w) /\ Repo!Next
<1>. DEFINE Method(r) == \/ \E q \in Queries, c \in Repo!Companies : Repo!CreateRequest(r, q, c)
                         \/ \E t \in 1..issued : Repo!RequeueForRetry(r, t)
                         \/ Repo!ClaimQueued(r) \/ Repo!FailQueuedDispatch(r)
                         \/ Repo!StoreTaskId(r) \/ Repo!MarkRedispatched(r)
                         \/ Repo!ClaimTurnsStale(r) \/ Repo!CreationTurnsStale(r)
<1>1. /\ issued \in Nat /\ rows \in [Runs -> Repo!Row] /\ RepoProofs!IInv
      /\ CallersReady /\ BeatsReady /\ WorkersReady /\ TypeOK
  BY SoundTables DEF IInv
<1>2. ASSUME NEW r \in Runs, Method(r) PROVE Repo!Next /\ Gentle
  BY <1>1, <1>2, MethodsAreGentle DEF Repo!Next
<1>. HIDE DEF Method
<1>3. ASSUME NEW p \in Callers, CallerActs(p)
      PROVE  UNCHANGED <<rows, issued>> \/ \E r \in Runs : Method(r)
  <2>1. ASSUME NEW r \in Runs, Insert(p, r) PROVE Method(r)
    BY <1>1, <2>1 DEF Insert, CallersReady, Method, Repo!Companies
  <2>2. ASSUME FailDispatch(p) \/ StoreTaskId(p) PROVE \E r \in Runs : Method(r)
    BY <1>1, <2>2 DEF FailDispatch, StoreTaskId, CallersReady, Method
  <2>. QED  BY <1>3, <2>1, <2>2 DEF CallerActs, CallerStep, CheckActive, InsertConflict, Publish, PublishRaises, CallerDies
<1>4. ASSUME NEW b \in Beats, BeatActs(b)
      PROVE  UNCHANGED <<rows, issued>> \/ \E r \in Runs : Method(r)
  <2>1. ASSUME Requeue(b) \/ Mark(b) PROVE \E r \in Runs : Method(r)
    BY <1>1, <2>1 DEF Requeue, Mark, BeatsReady, Method
  <2>. QED  BY <1>4, <2>1 DEF BeatActs, BeatStep, ListAbandoned, NextAbandoned, ListUndispatched, Republish, Done,
                              BeatDies, RepublishRaises
<1>5. ASSUME NEW w \in Workers, WorkerActs(w)
      PROVE  \/ UNCHANGED <<rows, issued>> \/ \E r \in Runs : Method(r)
             \/ FinishRun(w) /\ Repo!Next
  <2>1. ASSUME Claim(w) \/ ClaimRaises(w)
        PROVE  UNCHANGED <<rows, issued>> \/ \E r \in Runs : Method(r)
    BY <1>1, <2>1 DEF Claim, ClaimRaises, WorkersReady, Method
  <2>2. ASSUME FinishRun(w) PROVE Repo!Next
    <3>1. worker[w].run \in Runs /\ worker[w].token \in 1..issued
      BY <1>1, <2>2 DEF FinishRun, WorkersReady
    <3>2. rows[worker[w].run].query \in Repo!Companies /\ NoCompany \in Repo!Companies
      BY <1>1, <3>1 DEF Repo!Row, Repo!Companies
    <3>3. "succeeded" \in Repo!Terminal /\ "partial" \in Repo!Terminal
      BY DEF Repo!Terminal
    <3>. QED  BY <2>2, <3>1, <3>2, <3>3 DEF FinishRun, Repo!Next
  <2>. QED  BY <1>5, <2>1, <2>2 DEF WorkerActs, WorkerStep, Deliver, ClaimRefused, FindEntry, SaveEntry, WorkerDies, Redeliver
<1>6. ASSUME NEW r \in Runs, RunActs(r)
      PROVE  UNCHANGED <<rows, issued>> \/ Method(r)
  BY <1>6 DEF RunActs, ClaimAges, CreationAges, ClaimAgesEarly, CreationAgesEarly, LoseMessage, Method
<1>7. UNCHANGED <<rows, issued>> \/ (\E r \in Runs : Method(r)) \/ \E w \in Workers : FinishRun(w) /\ Repo!Next
  BY <1>3, <1>4, <1>5, <1>6, StepByActor, Zenon
<1>. QED  BY <1>2, <1>7

\* Claim tokens are only ever added to those issued.
LEMMA IssuedGrows ==
  ASSUME IInv, [Next]_vars
  PROVE  /\ RepoProofs!IInv'
         /\ issued \in Nat /\ issued' \in Nat /\ issued <= issued'
<1>1. RepoProofs!IInv /\ issued \in Nat
  BY SoundTables DEF IInv
<1>2. UNCHANGED <<rows, issued>> \/ Repo!Next
  BY StepsUseRepository DEF vars
<1>3. RepoProofs!IInv'
  <2>1. UNCHANGED RepoProofs!repositoryVars \/ RepoProofs!Next
    BY <1>2, SameTables DEF RepoProofs!repositoryVars
  <2>. QED  BY <1>1, <2>1, NoCompanyAssumption, MaxClaimsAssumption, RepoProofs!NextPreservesIInv
<1>4. issued' = issued \/ issued' = issued + 1
  BY <1>2 DEF Repo!Next, Repo!CreateRequest, Repo!ClaimQueued, Repo!Finish, Repo!FailQueuedDispatch,
       Repo!RequeueForRetry, Repo!FailRetryExhausted, Repo!StoreTaskId, Repo!MarkRedispatched,
       Repo!ClaimTurnsStale, Repo!CreationTurnsStale
<1>. QED  BY <1>1, <1>3, <1>4

\* A run becomes succeeded only by its owner, after the owner saved an entry.
LEMMA SuccessStep ==
  ASSUME IInv, [Next]_vars
  PROVE  SuccessHasEntry'
<1>1. RepoProofs!IInv /\ SuccessHasEntry /\ WorkersReady
  BY DEF IInv
<1>2. saved \subseteq saved'
  <2>1. ASSUME NEW p \in Callers, CallerActs(p) PROVE saved' = saved
    BY <2>1 DEF CallerActs, CallerStep, CheckActive, Insert, InsertConflict, Publish, FailDispatch,
       StoreTaskId, PublishRaises, CallerDies
  <2>2. ASSUME NEW b \in Beats, BeatActs(b) PROVE saved' = saved
    BY <2>2 DEF BeatActs, BeatStep, ListAbandoned, NextAbandoned, Requeue, ListUndispatched, Republish,
       RepublishRaises, Mark, Done, BeatDies
  <2>3. ASSUME NEW w \in Workers, WorkerActs(w) PROVE saved \subseteq saved'
    BY <2>3 DEF WorkerActs, WorkerStep, Deliver, Claim, ClaimRefused, ClaimRaises, FindEntry, SaveEntry,
       FinishRun, WorkerDies, Redeliver
  <2>4. ASSUME NEW r \in Runs, RunActs(r) PROVE saved' = saved
    BY <2>4 DEF RunActs, LoseMessage, ClaimAges, ClaimAgesEarly, CreationAges, CreationAgesEarly
  <2>. QED  BY <2>1, <2>2, <2>3, <2>4, StepByActor DEF vars, actorVars
<1>3. CASE UNCHANGED <<rows, issued>>
  BY <1>1, <1>2, <1>3 DEF SuccessHasEntry
<1>4. CASE Gentle
  BY <1>1, <1>2, <1>4 DEF SuccessHasEntry, Gentle
<1>5. ASSUME NEW w \in Workers, FinishRun(w) PROVE SuccessHasEntry'
  <2>. SUFFICES ASSUME NEW x \in Runs, rows'[x].run = "succeeded" PROVE rows'[x].token \in saved
    BY <1>2 DEF SuccessHasEntry
  <2>. DEFINE r == worker[w].run
              t == worker[w].token
  <2>1. r \in Runs /\ t \in 1..issued
    BY <1>1, <1>5 DEF FinishRun, WorkersReady
  <2>2. rows[r].query \in Repo!Companies /\ NoCompany \in Repo!Companies
    BY <1>1, <2>1, SoundTables DEF Repo!Row, Repo!Companies
  <2>3. PICK s \in Repo!Terminal, c \in Repo!Companies :
          Repo!Finish(r, t, s, c) /\ (s = "succeeded" => worker[w].pc = "saved")
    BY <1>5, <2>2 DEF FinishRun, Repo!Terminal
  <2>. HIDE DEF r, t
  <2>4. /\ rows'[x].run # rows[x].run => rows[x].token = t /\ s = "succeeded"
        /\ rows'[x].token = rows[x].token
    BY <1>1, <2>1, <2>3, FinishSettlesOwnClaim
  <2>5. worker[w].pc = "saved" => t \in saved
    BY <1>1 DEF WorkersReady, t
  <2>. QED  BY <1>1, <2>3, <2>4, <2>5 DEF SuccessHasEntry
<1>6. CASE UNCHANGED vars
  BY <1>3, <1>6 DEF vars
<1>. QED  BY <1>3, <1>4, <1>5, <1>6, StepsUseRepository

-----------------------------------------------------------------------------
(* The actors' part of the invariant, one lemma per kind of actor.         *)

Actors == TypeOK /\ CallersReady /\ BeatsReady /\ WorkersReady /\ ClaimsApart

\* The tables part of TypeOK is in the invariant of the tables.
LEMMA TablesTyped == RepoProofs!IInv => Repo!TypeOK
  BY SoundTables DEF Repo!TypeOK

\* A failure counts up to the bound and stays of its kind.
LEMMA FaultsTyped ==
  ASSUME faults \in [kinds : FaultSets, injected : 0 .. MaxFaults],
         (\E kind \in FaultKinds : Fault(kind)) \/ faults' = faults
  PROVE  faults' \in [kinds : FaultSets, injected : 0 .. MaxFaults]
  BY MaxFaultsAssumption DEF Fault

\* A caller goes on with the run that it has inserted.
LEMMA CallersKeepActors ==
  ASSUME IInv, RepoProofs!IInv', issued' \in Nat, issued <= issued',
         NEW p \in Callers, CallerActs(p)
  PROVE  Actors'
<1>1. Actors /\ issued \in Nat
  BY SoundTables DEF IInv, Actors
<1>2. Repo!TypeOK'
  BY TablesTyped, PTL
<1>3. UNCHANGED <<beat, worker, saved>>
  BY DEF CallerActs, CallerStep, CheckActive, Insert, InsertConflict, Publish, FailDispatch,
     StoreTaskId, PublishRaises, CallerDies
<1>4. BeatsReady' /\ WorkersReady' /\ ClaimsApart' /\ saved' \subseteq 1..issued'
  <2>1. \A t \in 1..issued : t \in 1..issued'
    BY <1>1
  <2>2. BeatsReady'
    BY <1>1, <1>3, <2>1 DEF Actors, BeatsReady
  <2>3. WorkersReady'
    BY <1>1, <1>3, <2>1 DEF Actors, WorkersReady
  <2>. QED  BY <1>1, <1>3, <2>1, <2>2, <2>3 DEF Actors, ClaimsApart, TypeOK
<1>5. faults' \in [kinds : FaultSets, injected : 0 .. MaxFaults]
  <2>1. (\E kind \in FaultKinds : Fault(kind)) \/ faults' = faults
    BY DEF CallerActs, CallerStep, CheckActive, Insert, InsertConflict, Publish, FailDispatch,
       StoreTaskId, PublishRaises, CallerDies, FaultKinds
  <2>. QED  BY <1>1, <2>1, FaultsTyped DEF Actors, TypeOK
<1>6. CallersReady' /\ TypeOK'
  <2>. USE <1>1, <1>2, <1>3, <1>4, <1>5 DEF Actors, TypeOK, CallersReady, Callers, NoQuery
  <2>1. CASE \E q \in Queries : CheckActive(p, q)
    BY <2>1 DEF CheckActive
  <2>2. CASE \E r \in Runs : Insert(p, r)
    BY <2>2 DEF Insert
  <2>3. CASE InsertConflict(p) \/ FailDispatch(p) \/ StoreTaskId(p)
    BY <2>3 DEF InsertConflict, FailDispatch, StoreTaskId, IdleCaller
  <2>4. CASE Publish(p)
    BY <2>4 DEF Publish
  <2>5. CASE PublishRaises(p)
    <3>1. caller[p].run \in Runs
      BY <2>5 DEF PublishRaises
    <3>2. inbox' \in [Runs -> Nat]
      BY <2>5, <3>1 DEF PublishRaises
    <3>3. caller' = [caller EXCEPT ![p].pc = "undo"] /\ caller[p].pc = "publish"
      BY <2>5 DEF PublishRaises
    <3>. QED  BY <3>1, <3>2, <3>3
  <2>6. CASE CallerDies(p)
    BY <2>6 DEF CallerDies, IdleCaller
  <2>. QED  BY <2>1, <2>2, <2>3, <2>4, <2>5, <2>6 DEF CallerActs, CallerStep
<1>. QED  BY <1>4, <1>6 DEF Actors

\* What a redispatch task and a worker are in the middle of.
BeatRow == [pc : {"idle", "requeue", "next", "redispatch", "mark"},
            todo : SUBSET Runs, run : Runs \cup {NoRun}, token : Nat]
WorkerRow == [pc : {"idle", "claim", "verify", "save", "saved", "not_found", "unknown"},
              run : Runs \cup {NoRun}, token : Nat]

\* A redispatch task requeues with a token that it has read from a row.
LEMMA BeatsKeepActors ==
  ASSUME IInv, RepoProofs!IInv', issued' \in Nat, issued <= issued',
         NEW b \in Beats, BeatActs(b)
  PROVE  Actors'
<1>1. Actors /\ issued \in Nat /\ \A r \in Runs : rows[r].token \in 0..issued
  BY SoundTables DEF IInv, Actors
<1>2. Repo!TypeOK'
  BY TablesTyped, PTL
<1>3. UNCHANGED <<caller, worker, saved>>
  BY DEF BeatActs, BeatStep, ListAbandoned, NextAbandoned, Requeue, ListUndispatched, Republish,
     RepublishRaises, Mark, Done, BeatDies
<1>4. \A t \in 1..issued : t \in 1..issued'
  BY <1>1
<1>5. CallersReady' /\ WorkersReady' /\ ClaimsApart' /\ saved' \subseteq 1..issued'
  BY <1>1, <1>3, <1>4 DEF Actors, CallersReady, WorkersReady, ClaimsApart, TypeOK
<1>6. faults' \in [kinds : FaultSets, injected : 0 .. MaxFaults]
  <2>1. (\E kind \in FaultKinds : Fault(kind)) \/ faults' = faults
    BY DEF BeatActs, BeatStep, ListAbandoned, NextAbandoned, Requeue, ListUndispatched, Republish,
       RepublishRaises, Mark, Done, BeatDies, FaultKinds
  <2>. QED  BY <1>1, <2>1, FaultsTyped DEF Actors, TypeOK
<1>7. ASSUME NEW new \in BeatRow, beat' = [beat EXCEPT ![b] = new], inbox' \in [Runs -> Nat],
             new.pc \in {"requeue", "mark"} => new.run \in Runs,
             new.pc = "requeue" => new.token \in 1..issued
      PROVE  BeatsReady' /\ TypeOK'
  BY <1>1, <1>2, <1>3, <1>4, <1>5, <1>6, <1>7 DEF Actors, TypeOK, BeatsReady, BeatRow
<1>8. BeatsReady' /\ TypeOK'
  <2>. DEFINE old == beat[b]
  <2>1. /\ inbox \in [Runs -> Nat] /\ old \in BeatRow
        /\ old.pc \in {"requeue", "mark"} => old.run \in Runs
    BY <1>1 DEF Actors, TypeOK, BeatsReady, BeatRow
  <2>2. CASE ListAbandoned(b)
    <3>1. \A r \in Abandoned : r \in Runs /\ rows[r].token \in 1..issued
      BY SoundTables DEF Abandoned, IInv
    <3>. QED  BY <1>7, <2>1, <2>2, <3>1 DEF ListAbandoned, BeatRow
  <2>3. CASE Requeue(b)
    <3>. DEFINE new == [old EXCEPT !.pc = "next", !.run = NoRun, !.token = 0]
    <3>1. beat' = [beat EXCEPT ![b] = new] /\ inbox' = inbox
      BY <2>3 DEF Requeue
    <3>2. new \in BeatRow /\ new.pc = "next"
      BY <2>1 DEF BeatRow
    <3>. HIDE DEF new
    <3>. QED  BY <1>7, <2>1, <3>1, <3>2
  <2>4. ASSUME NEW r \in Runs, NextAbandoned(b, r) PROVE BeatsReady' /\ TypeOK'
    <3>1. rows[r].token # 0 => rows[r].token \in 1..issued
      BY <1>1
    <3>2. old.pc = "next" /\ inbox' = inbox
      BY <2>4 DEF NextAbandoned
    <3>3. \/ beat' = [beat EXCEPT ![b] = [old EXCEPT !.todo = @ \ {r}]]
          \/ /\ rows[r].token # 0
             /\ beat' = [beat EXCEPT ![b] = [pc |-> "requeue", todo |-> old.todo \ {r},
                                             run |-> r, token |-> rows[r].token]]
      BY <2>4 DEF NextAbandoned
    <3>. QED  BY <1>7, <2>1, <3>1, <3>2, <3>3 DEF BeatRow
  <2>5. CASE ListUndispatched(b)
    <3>1. Undispatched \in SUBSET Runs
      BY DEF Undispatched
    <3>. DEFINE new == [old EXCEPT !.pc = "redispatch", !.todo = Undispatched]
    <3>2. beat' = [beat EXCEPT ![b] = new] /\ inbox' = inbox
      BY <2>5 DEF ListUndispatched
    <3>3. new \in BeatRow /\ new.pc = "redispatch"
      BY <2>1, <3>1 DEF BeatRow
    <3>. HIDE DEF new
    <3>. QED  BY <1>7, <2>1, <3>2, <3>3
  <2>6. ASSUME NEW r \in Runs, Republish(b, r) PROVE BeatsReady' /\ TypeOK'
    <3>. DEFINE new == [old EXCEPT !.pc = "mark", !.todo = @ \ {r}, !.run = r]
    <3>1. beat' = [beat EXCEPT ![b] = new]
      BY <2>6 DEF Republish
    <3>2. new \in BeatRow /\ new.pc = "mark" /\ new.run = r
      BY <2>1 DEF BeatRow
    <3>3. inbox' \in [Runs -> Nat]
      <4>1. inbox' = [inbox EXCEPT ![r] = @ + 1]
        BY <2>6 DEF Republish
      <4>. QED  BY <2>1, <4>1
    <3>. HIDE DEF new
    <3>. QED  BY <1>7, <2>1, <3>1, <3>2, <3>3
  <2>7. ASSUME NEW r \in Runs, RepublishRaises(b, r) PROVE BeatsReady' /\ TypeOK'
    <3>1. /\ inbox' \in [Runs -> Nat] /\ old.pc = "redispatch"
          /\ beat' = [beat EXCEPT ![b] = [old EXCEPT !.todo = @ \ {r}]]
      BY <2>1, <2>7 DEF RepublishRaises
    <3>. QED  BY <1>7, <2>1, <3>1 DEF BeatRow
  <2>8. CASE Mark(b)
    BY <1>7, <2>1, <2>8 DEF Mark, BeatRow
  <2>9. CASE Done(b) \/ BeatDies(b)
    BY <1>7, <2>1, <2>9 DEF Done, BeatDies, IdleBeat, BeatRow
  <2>. QED  BY <2>2, <2>3, <2>4, <2>5, <2>6, <2>7, <2>8, <2>9 DEF BeatActs, BeatStep
<1>. QED  BY <1>5, <1>8 DEF Actors

\* A worker works under the claim that it was given, which nobody else has.
LEMMA WorkersKeepActors ==
  ASSUME IInv, RepoProofs!IInv', issued' \in Nat, issued <= issued',
         NEW w \in Workers, WorkerActs(w)
  PROVE  Actors'
<1>1. Actors /\ issued \in Nat
  BY SoundTables DEF IInv, Actors
<1>2. Repo!TypeOK'
  BY TablesTyped, PTL
<1>3. UNCHANGED <<caller, beat>>
  BY DEF WorkerActs, WorkerStep, Deliver, Claim, ClaimRefused, ClaimRaises, FindEntry, SaveEntry,
     FinishRun, WorkerDies, Redeliver
<1>4. \A t \in 1..issued : t \in 1..issued'
  BY <1>1
<1>5. CallersReady' /\ BeatsReady'
  BY <1>1, <1>3, <1>4 DEF Actors, CallersReady, BeatsReady
<1>6. faults' \in [kinds : FaultSets, injected : 0 .. MaxFaults]
  <2>1. (\E kind \in FaultKinds : Fault(kind)) \/ faults' = faults
    BY DEF WorkerActs, WorkerStep, Deliver, Claim, ClaimRefused, ClaimRaises, FindEntry, SaveEntry,
       FinishRun, WorkerDies, Redeliver, FaultKinds
  <2>. QED  BY <1>1, <2>1, FaultsTyped DEF Actors, TypeOK
<1>7. ASSUME NEW new \in WorkerRow, worker' = [worker EXCEPT ![w] = new], inbox' \in [Runs -> Nat],
             saved \subseteq saved', saved' \subseteq 1..issued',
             new.pc # "idle" => new.run \in Runs,
             IF new.pc \in {"idle", "claim"} THEN new.token = 0 ELSE new.token \in 1..issued',
             new.pc = "saved" => new.token \in saved',
             new.token \in {0, worker[w].token} \/ new.token > issued
      PROVE  WorkersReady' /\ ClaimsApart' /\ TypeOK'
  <2>1. TypeOK'
    BY <1>1, <1>2, <1>3, <1>6, <1>7 DEF Actors, TypeOK, WorkerRow
  <2>2. \A v \in Workers : worker'[v] = IF v = w THEN new ELSE worker[v]
    BY <1>1, <1>7 DEF Actors, TypeOK
  <2>3. WorkersReady'
    BY <1>1, <1>4, <1>7, <2>2 DEF Actors, WorkersReady
  <2>4. \A v \in Workers : worker[v].token \in 0..issued
    BY <1>1 DEF Actors, WorkersReady
  <2>5. ClaimsApart'
    BY <1>1, <1>7, <2>2, <2>4 DEF Actors, ClaimsApart
  <2>. QED  BY <2>1, <2>3, <2>5
<1>8. WorkersReady' /\ ClaimsApart' /\ TypeOK'
  <2>. DEFINE old == worker[w]
              Goal == WorkersReady' /\ ClaimsApart' /\ TypeOK'
  <2>1. /\ inbox \in [Runs -> Nat] /\ old \in WorkerRow
        /\ old.pc # "idle" => old.run \in Runs
        /\ IF old.pc \in {"idle", "claim"} THEN old.token = 0 ELSE old.token \in 1..issued
        /\ old.pc = "saved" => old.token \in saved
        /\ saved \subseteq 1..issued
    BY <1>1 DEF Actors, TypeOK, WorkersReady, WorkerRow
  <2>2. IdleWorker \in WorkerRow /\ IdleWorker.pc = "idle" /\ IdleWorker.token = 0
    BY DEF IdleWorker, WorkerRow
  <2>3. ASSUME worker' = [worker EXCEPT ![w] = IdleWorker], inbox' \in [Runs -> Nat], saved' = saved
        PROVE  Goal
    BY <1>4, <1>7, <2>1, <2>2, <2>3
  <2>4. ASSUME NEW r \in Runs, Deliver(w, r) PROVE Goal
    <3>. DEFINE new == [pc |-> "claim", run |-> r, token |-> 0]
    <3>1. worker' = [worker EXCEPT ![w] = new] /\ saved' = saved /\ inbox' \in [Runs -> Nat]
      BY <2>1, <2>4 DEF Deliver
    <3>2. new \in WorkerRow /\ new.pc = "claim" /\ new.run = r /\ new.token = 0
      BY DEF WorkerRow
    <3>. HIDE DEF new
    <3>. QED  BY <1>4, <1>7, <2>1, <3>1, <3>2
  <2>5. CASE Claim(w)
    <3>1. issued' = issued + 1
      BY <2>5 DEF Claim, Repo!ClaimQueued
    <3>. DEFINE new == [old EXCEPT !.pc = "verify", !.token = issued + 1]
    <3>2. /\ worker' = [worker EXCEPT ![w] = new]
          /\ old.pc = "claim" /\ inbox' = inbox /\ saved' = saved
      BY <2>5 DEF Claim
    <3>3. new \in WorkerRow /\ new.pc = "verify" /\ new.run = old.run /\ new.token = issued + 1
      <4>1. \A t \in Nat : LET n == [old EXCEPT !.pc = "verify", !.token = t]
                           IN  n \in WorkerRow /\ n.pc = "verify" /\ n.run = old.run /\ n.token = t
        BY <2>1 DEF WorkerRow
      <4>2. issued + 1 \in Nat
        BY <1>1
      <4>. QED  BY <4>1, <4>2
    <3>4. new.token \in 1..issued' /\ new.token > issued
      BY <1>1, <3>1, <3>3
    <3>5. saved' \subseteq 1..issued' /\ old.run \in Runs
      BY <1>4, <2>1, <3>2
    <3>. HIDE DEF new, old
    <3>. QED  BY <1>7, <2>1, <3>2, <3>3, <3>4, <3>5
  <2>6. CASE ClaimRefused(w) \/ ClaimRaises(w) \/ FinishRun(w) \/ WorkerDies(w)
    <3>1. worker' = [worker EXCEPT ![w] = IdleWorker] /\ saved' = saved
      BY <2>6 DEF ClaimRefused, ClaimRaises, FinishRun, WorkerDies
    <3>2. inbox' \in [Runs -> Nat]
      BY <2>1, <2>6 DEF ClaimRefused, ClaimRaises, FinishRun, WorkerDies
    <3>. QED  BY <2>3, <3>1, <3>2
  <2>7. CASE FindEntry(w)
    <3>1. PICK next \in {"save", "not_found", "unknown"} :
            worker' = [worker EXCEPT ![w] = [old EXCEPT !.pc = next]]
      BY <2>7 DEF FindEntry
    <3>2. old.pc = "verify" /\ inbox' = inbox /\ saved' = saved
      BY <2>7 DEF FindEntry
    <3>. QED  BY <1>4, <1>7, <2>1, <3>1, <3>2 DEF WorkerRow
  <2>8. CASE SaveEntry(w)
    <3>1. /\ worker' = [worker EXCEPT ![w] = [old EXCEPT !.pc = "saved"]]
          /\ old.pc = "save" /\ inbox' = inbox /\ saved' = saved \cup {old.token}
      BY <2>8 DEF SaveEntry
    <3>. QED  BY <1>4, <1>7, <2>1, <3>1 DEF WorkerRow
  <2>9. CASE Redeliver(w)
    <3>1. worker' = worker /\ saved' = saved /\ inbox' \in [Runs -> Nat]
      BY <2>1, <2>9 DEF Redeliver
    <3>. QED  BY <1>1, <1>2, <1>3, <1>4, <1>6, <3>1 DEF Actors, TypeOK, WorkersReady, ClaimsApart
  <2>. QED  BY <2>4, <2>5, <2>6, <2>7, <2>8, <2>9 DEF WorkerActs, WorkerStep
<1>. QED  BY <1>5, <1>8 DEF Actors

\* A lost message and the clock leave the actors what they hold.
LEMMA ClockKeepsActors ==
  ASSUME IInv, RepoProofs!IInv', issued' \in Nat, issued <= issued',
         NEW r \in Runs, RunActs(r)
  PROVE  Actors'
<1>1. Actors /\ issued \in Nat
  BY SoundTables DEF IInv, Actors
<1>2. Repo!TypeOK'
  BY TablesTyped, PTL
<1>3. UNCHANGED <<caller, beat, worker, saved>>
  BY DEF RunActs, LoseMessage, ClaimAges, ClaimAgesEarly, CreationAges, CreationAgesEarly
<1>4. \A t \in 1..issued : t \in 1..issued'
  BY <1>1
<1>5. inbox' \in [Runs -> Nat]
  BY <1>1 DEF RunActs, LoseMessage, ClaimAges, ClaimAgesEarly, CreationAges, CreationAgesEarly, Actors, TypeOK
<1>6. faults' \in [kinds : FaultSets, injected : 0 .. MaxFaults]
  <2>1. (\E kind \in FaultKinds : Fault(kind)) \/ faults' = faults
    BY DEF RunActs, LoseMessage, ClaimAges, ClaimAgesEarly, CreationAges, CreationAgesEarly, FaultKinds
  <2>. QED  BY <1>1, <2>1, FaultsTyped DEF Actors, TypeOK
<1>. QED  BY <1>1, <1>2, <1>3, <1>4, <1>5, <1>6
          DEF Actors, TypeOK, CallersReady, BeatsReady, WorkersReady, ClaimsApart

-----------------------------------------------------------------------------
\* The invariant holds initially: every table, list of messages and actor is empty.
LEMMA InitEstablishesIInv == Init => IInv
<1>. SUFFICES ASSUME Init PROVE IInv
  OBVIOUS
<1>1. RepoProofs!IInv
  <2>1. RepoProofs!Init
    BY SameTables DEF Init
  <2>. QED  BY <2>1, NoCompanyAssumption, MaxClaimsAssumption, RepoProofs!InitEstablishesIInv
<1>2. TypeOK
  <2>1. Repo!TypeOK
    BY <1>1, TablesTyped
  <2>. QED  BY <2>1, MaxFaultsAssumption DEF Init, TypeOK, IdleCaller, IdleBeat, IdleWorker, NoQuery
<1>3. CallersReady /\ BeatsReady /\ WorkersReady /\ ClaimsApart
  BY DEF Init, CallersReady, BeatsReady, WorkersReady, ClaimsApart, IdleCaller, IdleBeat, IdleWorker
<1>4. SuccessHasEntry
  BY DEF Init, SuccessHasEntry, Repo!Init, Repo!AbsentRow
<1>. QED  BY <1>1, <1>2, <1>3, <1>4 DEF IInv

\* Every step of an actor, of the clock or of a failure preserves the invariant.
LEMMA NextPreservesIInv == IInv /\ [Next]_vars => IInv'
<1>. SUFFICES ASSUME IInv, [Next]_vars PROVE IInv'
  OBVIOUS
<1>1. RepoProofs!IInv' /\ issued' \in Nat /\ issued <= issued'
  BY IssuedGrows
<1>2. SuccessHasEntry'
  BY SuccessStep
<1>3. Actors'
  <2>1. CASE UNCHANGED vars
    BY <2>1 DEF vars, actorVars, Actors, IInv, TypeOK, CallersReady, BeatsReady, WorkersReady, ClaimsApart,
       Repo!TypeOK
  <2>. QED  BY <1>1, <2>1, CallersKeepActors, BeatsKeepActors, WorkersKeepActors, ClockKeepsActors, StepByActor
<1>. QED  BY <1>1, <1>2, <1>3 DEF IInv, Actors

\* Every reachable state satisfies the inductive invariant.
THEOREM Invariance == Spec => []IInv
  BY InitEstablishesIInv, NextPreservesIInv, PTL DEF Spec

\* Type correctness of the tables, the broker and the actors.
THEOREM TypeCorrect == Spec => []TypeOK
<1>1. IInv => TypeOK
  BY DEF IInv
<1>. QED  BY <1>1, Invariance, PTL

\* Two workers never hold the same claim of a run, whatever is redelivered or requeued.
THEOREM OneOwner == Spec => []OneOwnerPerRun
<1>1. IInv => OneOwnerPerRun
  BY DEF IInv, ClaimsApart, OneOwnerPerRun
<1>. QED  BY <1>1, Invariance, PTL

\* A run is shown as succeeded only when an entry was saved under its claim.
THEOREM SuccessSaved == Spec => []SuccessHasEntry
<1>1. IInv => SuccessHasEntry
  BY DEF IInv
<1>. QED  BY <1>1, Invariance, PTL

\* The actors touch the tables only as the repository allows, so that all that
\* is proved of the repository holds of the whole path.
THEOREM RepositoryUsed == Spec => UsesRepository
<1>1. Init => Repo!Init
  BY DEF Init
<1>2. IInv /\ [Next]_vars => [Repo!Next]_(Repo!repositoryVars)
  BY StepsUseRepository DEF vars, Repo!repositoryVars
<1>. QED  BY <1>1, <1>2, Invariance, PTL DEF Spec, UsesRepository, Repo!Spec

\* A publish that raised cannot fail the run that a worker has claimed meanwhile.
THEOREM ClaimsSpared == Spec => DispatchFailureSparesClaims
<1>. DEFINE Spares == \A r \in Runs : rows[r].run = "running" => rows'[r].run # "failed"
<1>1. IInv /\ [Next]_vars => [Spares]_vars
  <2>. SUFFICES ASSUME IInv, Next PROVE Spares
    OBVIOUS
  <2>1. RepoProofs!IInv /\ WorkersReady
    BY DEF IInv
  <2>2. CASE UNCHANGED <<rows, issued>>
    BY <2>2
  <2>3. CASE Gentle
    BY <2>3 DEF Gentle, Repo!Terminal
  <2>4. ASSUME NEW w \in Workers, FinishRun(w) PROVE Spares
    <3>1. worker[w].run \in Runs /\ worker[w].token \in 1..issued
      BY <2>1, <2>4 DEF FinishRun, WorkersReady
    <3>2. PICK s \in {"succeeded", "partial"}, c \in Repo!Companies :
            Repo!Finish(worker[w].run, worker[w].token, s, c)
      <4>1. rows[worker[w].run].query \in Repo!Companies /\ NoCompany \in Repo!Companies
        BY <2>1, <3>1, SoundTables DEF Repo!Row, Repo!Companies
      <4>. QED  BY <2>4, <4>1 DEF FinishRun
    <3>3. s \in Repo!Terminal
      BY DEF Repo!Terminal
    <3>. QED  BY <2>1, <3>1, <3>2, <3>3, FinishSettlesOwnClaim
  <2>. QED  BY <2>2, <2>3, <2>4, StepsUseRepository
<1>. QED  BY <1>1, Invariance, PTL DEF Spec, DispatchFailureSparesClaims

\* A running run is settled by the worker whose claim is on its row and by
\* nobody else: a worker that lost its claim to a requeue settles nothing.
THEOREM OwnersSettle == Spec => OwnerSettles
<1>. DEFINE Settles == \A r \in Runs :
              rows[r].run = "running" /\ rows'[r].run \in Repo!Terminal =>
                \E w \in Workers : /\ worker[w].run = r
                                   /\ worker[w].token = rows[r].token
                                   /\ worker'[w].pc = "idle"
<1>1. IInv /\ [Next]_vars => [Settles]_vars
  <2>. SUFFICES ASSUME IInv, Next PROVE Settles
    OBVIOUS
  <2>1. RepoProofs!IInv /\ WorkersReady /\ TypeOK
    BY DEF IInv
  <2>2. CASE UNCHANGED <<rows, issued>>
    BY <2>2 DEF Repo!Terminal
  <2>3. CASE Gentle
    BY <2>3 DEF Gentle
  <2>4. ASSUME NEW w \in Workers, FinishRun(w) PROVE Settles
    <3>1. worker[w].run \in Runs /\ worker[w].token \in 1..issued /\ worker'[w].pc = "idle"
      BY <2>1, <2>4 DEF FinishRun, WorkersReady, TypeOK, IdleWorker
    <3>2. PICK s \in Repo!Terminal, c \in Repo!Companies :
            Repo!Finish(worker[w].run, worker[w].token, s, c)
      <4>1. rows[worker[w].run].query \in Repo!Companies /\ NoCompany \in Repo!Companies
        BY <2>1, <3>1, SoundTables DEF Repo!Row, Repo!Companies
      <4>. QED  BY <2>4, <4>1 DEF FinishRun, Repo!Terminal
    <3>3. \A x \in Runs : rows'[x].run # rows[x].run =>
            x = worker[w].run /\ rows[x].token = worker[w].token
      BY <2>1, <3>1, <3>2, FinishSettlesOwnClaim
    <3>. QED  BY <3>1, <3>3 DEF Repo!Terminal
  <2>. QED  BY <2>2, <2>3, <2>4, StepsUseRepository
<1>. QED  BY <1>1, Invariance, PTL DEF Spec, OwnerSettles

-----------------------------------------------------------------------------
(* NeverStranded, when no two executions of the redispatch task overlap.    *)
(* One that listed a stale claim could otherwise requeue the claim that     *)
(* another one's message led to, before the other writes the task id, and   *)
(* nothing would lead to the run any more.                                  *)

\* No failure can happen that takes the last message of a run away.
Spared == faults.kinds \cap Stranding = {}

\* A message or a worker that is about to claim leads to the run.
Led(r) == inbox[r] > 0 \/ \E w \in Workers : worker[w].run = r /\ worker[w].pc = "claim"

Listed(b) == (beat[b].todo \cup {beat[b].run}) \ {NoRun}

\* What a caller holds of its run until it has stored the task id: the run is
\* young, no redispatch task has listed it, and it is led to once published.
CallersHold ==
  \A p \in Callers : \A r \in Runs :
    caller[p].pc \in {"publish", "undo", "store"} /\ caller[p].run = r =>
      /\ rows[r].run # "absent"
      /\ Spared => /\ rows[r].created = "recent"
                   /\ rows[r].started # "stale"
                   /\ \A b \in Beats : r \notin Listed(b)
                   /\ caller[p].pc = "store" /\ rows[r].run = "queued" => Led(r)

\* A redispatch task lists runs that exist, and marks a run that its message leads to.
BeatsHold ==
  \A b \in Beats : \A r \in Runs :
    /\ r \in Listed(b) => rows[r].run # "absent"
    /\ Spared /\ beat[b].pc = "mark" /\ beat[b].run = r /\ rows[r].run = "queued" => Led(r)

HInv == NeverStranded /\ CallersHold /\ BeatsHold

\* A method that works on row r leaves the other rows alone.
OnlyRow(r) == \A x \in Runs : x # r => rows'[x] = rows[x]

SameClocks(r) == rows'[r].created = rows[r].created /\ rows'[r].started = rows[r].started

\* What each method does to the columns that NeverStranded is about.
LEMMA RowEffects ==
  ASSUME RepoProofs!IInv, NEW r \in Runs
  PROVE  /\ \A q \in Queries, c \in Repo!Companies : Repo!CreateRequest(r, q, c) =>
              /\ OnlyRow(r) /\ rows[r].run = "absent" /\ rows'[r].run = "queued" /\ ~rows'[r].task
              /\ rows'[r].created = "recent" /\ rows'[r].started = "none"
         /\ \A t \in 1..issued : Repo!RequeueForRetry(r, t) =>
              /\ OnlyRow(r) /\ rows'[r].created = rows[r].created
              /\ \/ rows'[r] = rows[r]
                 \/ rows'[r].run = "queued" /\ ~rows'[r].task /\ rows'[r].started = "none"
         /\ \A t \in 1..issued, s \in Repo!Terminal, c \in Repo!Companies : Repo!Finish(r, t, s, c) =>
              /\ OnlyRow(r) /\ SameClocks(r)
              /\ rows'[r] = rows[r] \/ rows'[r].run \notin {"absent", "queued"}
         /\ Repo!ClaimQueued(r) =>
              /\ OnlyRow(r) /\ rows'[r].run = "running"
              /\ rows'[r].created = rows[r].created /\ rows'[r].started = "recent"
         /\ Repo!FailQueuedDispatch(r) =>
              /\ OnlyRow(r) /\ SameClocks(r)
              /\ rows'[r] = rows[r] \/ rows'[r].run = "failed"
         /\ Repo!StoreTaskId(r) \/ Repo!MarkRedispatched(r) =>
              OnlyRow(r) /\ SameClocks(r) /\ rows'[r].run = rows[r].run
         /\ Repo!ClaimTurnsStale(r) =>
              /\ OnlyRow(r) /\ rows'[r].run = rows[r].run /\ rows[r].run = "running"
              /\ rows'[r].created = rows[r].created
         /\ Repo!CreationTurnsStale(r) =>
              /\ OnlyRow(r) /\ rows'[r].run = rows[r].run /\ rows'[r].task = rows[r].task
              /\ rows'[r].started = rows[r].started
<1>1. rows \in [Runs -> Repo!Row] /\ rows[r] \in Repo!Row
  BY SoundTables
<1>2. ASSUME NEW new, rows' = [rows EXCEPT ![r] = new]
      PROVE  OnlyRow(r) /\ rows'[r] = new
  BY <1>1, <1>2 DEF OnlyRow
<1>3. ASSUME NEW q \in Queries, NEW c \in Repo!Companies, Repo!CreateRequest(r, q, c)
      PROVE  /\ OnlyRow(r) /\ rows[r].run = "absent" /\ rows'[r].run = "queued" /\ ~rows'[r].task
             /\ rows'[r].created = "recent" /\ rows'[r].started = "none"
  <2>. DEFINE new == Repo!QueuedPair(q, c)
  <2>1. rows' = [rows EXCEPT ![r] = new] /\ rows[r].run = "absent"
    BY <1>3 DEF Repo!CreateRequest
  <2>2. new.run = "queued" /\ ~new.task /\ new.created = "recent" /\ new.started = "none"
    BY <1>1 DEF Repo!QueuedPair, Repo!AbsentRow
  <2>. HIDE DEF new
  <2>3. OnlyRow(r) /\ rows'[r] = new
    BY <1>2, <2>1
  <2>. QED  BY <2>1, <2>2, <2>3
<1>4. ASSUME NEW t \in 1..issued, Repo!RequeueForRetry(r, t)
      PROVE  /\ OnlyRow(r) /\ rows'[r].created = rows[r].created
             /\ \/ rows'[r] = rows[r]
                \/ rows'[r].run = "queued" /\ ~rows'[r].task /\ rows'[r].started = "none"
  <2>1. rows' = [rows EXCEPT ![r] = Repo!RetryQueued(rows[r], t)]
    BY <1>4 DEF Repo!RequeueForRetry
  <2>2. ~Repo!InvalidPair(rows[r], t)
    BY SoundTables DEF Repo!InvalidPair
  <2>. QED  BY <1>1, <1>2, <2>1, <2>2 DEF Repo!RetryQueued, Repo!FailedIfInvalid, Repo!Row
<1>5. ASSUME NEW t \in 1..issued, NEW s \in Repo!Terminal, NEW c \in Repo!Companies, Repo!Finish(r, t, s, c)
      PROVE  /\ OnlyRow(r) /\ SameClocks(r)
             /\ rows'[r] = rows[r] \/ rows'[r].run \notin {"absent", "queued"}
  <2>1. rows' = [rows EXCEPT ![r] = Repo!Finished(rows[r], t, s, c)]
    BY <1>5 DEF Repo!Finish
  <2>. QED  BY <1>1, <1>2, <2>1 DEF Repo!Finished, Repo!BothSettled, Repo!Row, Repo!Terminal, SameClocks
<1>6. ASSUME Repo!ClaimQueued(r)
      PROVE  /\ OnlyRow(r) /\ rows'[r].run = "running"
             /\ rows'[r].created = rows[r].created /\ rows'[r].started = "recent"
  <2>. DEFINE new == Repo!Claimed(rows[r], issued + 1)
  <2>1. rows' = [rows EXCEPT ![r] = new]
    BY <1>6 DEF Repo!ClaimQueued
  <2>2. new.run = "running" /\ new.created = rows[r].created /\ new.started = "recent"
    BY <1>1 DEF Repo!Claimed, Repo!Row
  <2>. HIDE DEF new
  <2>3. OnlyRow(r) /\ rows'[r] = new
    BY <1>2, <2>1
  <2>. QED  BY <2>1, <2>2, <2>3
<1>7. ASSUME Repo!FailQueuedDispatch(r)
      PROVE  /\ OnlyRow(r) /\ SameClocks(r)
             /\ rows'[r] = rows[r] \/ rows'[r].run = "failed"
  <2>. DEFINE new == Repo!DispatchFailed(rows[r])
  <2>1. rows' = [rows EXCEPT ![r] = new]
    BY <1>7 DEF Repo!FailQueuedDispatch
  <2>2. /\ new.created = rows[r].created /\ new.started = rows[r].started
        /\ new = rows[r] \/ new.run = "failed"
    BY <1>1 DEF Repo!DispatchFailed, Repo!BothSettled, Repo!Row
  <2>. HIDE DEF new
  <2>3. OnlyRow(r) /\ rows'[r] = new
    BY <1>2, <2>1
  <2>. QED  BY <2>1, <2>2, <2>3 DEF SameClocks
<1>8. ASSUME Repo!StoreTaskId(r)
      PROVE  OnlyRow(r) /\ SameClocks(r) /\ rows'[r].run = rows[r].run
  <2>. DEFINE new == [rows[r] EXCEPT !.task = TRUE]
  <2>1. rows' = [rows EXCEPT ![r] = new]
    BY <1>1, <1>8 DEF Repo!StoreTaskId
  <2>2. new.created = rows[r].created /\ new.started = rows[r].started /\ new.run = rows[r].run
    BY <1>1 DEF Repo!Row
  <2>. HIDE DEF new
  <2>3. OnlyRow(r) /\ rows'[r] = new
    BY <1>2, <2>1
  <2>. QED  BY <2>1, <2>2, <2>3 DEF SameClocks
<1>9. ASSUME Repo!MarkRedispatched(r)
      PROVE  OnlyRow(r) /\ SameClocks(r) /\ rows'[r].run = rows[r].run
  <2>. DEFINE marked == rows[r].task \/ rows[r].run = "queued"
  <2>. DEFINE new == [rows[r] EXCEPT !.task = marked]
  <2>1. rows' = [rows EXCEPT ![r] = new]
    BY <1>1, <1>9, Zenon DEF Repo!MarkRedispatched
  <2>. HIDE DEF marked
  <2>2. new.created = rows[r].created /\ new.started = rows[r].started /\ new.run = rows[r].run
    BY <1>1 DEF Repo!Row
  <2>. HIDE DEF new
  <2>3. OnlyRow(r) /\ rows'[r] = new
    BY <1>2, <2>1
  <2>. QED  BY <2>1, <2>2, <2>3 DEF SameClocks
<1>10. ASSUME Repo!ClaimTurnsStale(r)
      PROVE  /\ OnlyRow(r) /\ rows'[r].run = rows[r].run /\ rows[r].run = "running"
             /\ rows'[r].created = rows[r].created
  <2>. DEFINE new == [rows[r] EXCEPT !.started = "stale"]
  <2>1. rows' = [rows EXCEPT ![r] = new] /\ rows[r].run = "running"
    BY <1>1, <1>10 DEF Repo!ClaimTurnsStale
  <2>2. new.run = rows[r].run /\ new.created = rows[r].created
    BY <1>1 DEF Repo!Row
  <2>. HIDE DEF new
  <2>3. OnlyRow(r) /\ rows'[r] = new
    BY <1>2, <2>1
  <2>. QED  BY <2>1, <2>2, <2>3
<1>11. ASSUME Repo!CreationTurnsStale(r)
      PROVE  /\ OnlyRow(r) /\ rows'[r].run = rows[r].run /\ rows'[r].task = rows[r].task
             /\ rows'[r].started = rows[r].started
  <2>. DEFINE new == [rows[r] EXCEPT !.created = "stale"]
  <2>1. rows' = [rows EXCEPT ![r] = new]
    BY <1>1, <1>11 DEF Repo!CreationTurnsStale
  <2>2. new.run = rows[r].run /\ new.task = rows[r].task /\ new.started = rows[r].started
    BY <1>1 DEF Repo!Row
  <2>. HIDE DEF new
  <2>3. OnlyRow(r) /\ rows'[r] = new
    BY <1>2, <2>1
  <2>. QED  BY <2>1, <2>2, <2>3
<1>. QED  BY <1>3, <1>4, <1>5, <1>6, <1>7, <1>8, <1>9, <1>10, <1>11, Zenon

\* A step of a worker or of the clock: the callers and the redispatch tasks stand still.
LEMMA OthersKeepHands ==
  ASSUME HInv, UNCHANGED <<caller, beat>>, faults'.kinds = faults.kinds,
         \A x \in Runs :
           /\ rows[x].run # "absent" => rows'[x].run # "absent"
           /\ rows'[x].run = "queued" => rows[x].run = "queued" /\ (rows'[x].task => rows[x].task)
           /\ Spared /\ BeingPublished(x) /\ rows[x].run # "absent" =>
                /\ rows'[x].created # "recent" => rows[x].created # "recent"
                /\ rows'[x].started = "stale" => rows[x].started = "stale"
           /\ Spared /\ rows'[x].run = "queued" /\ Led(x) => Led(x)'
  PROVE  HInv'
<1>1. Spared' <=> Spared
  BY DEF Spared
<1>2. \A b \in Beats : Listed(b)' = Listed(b)
  BY DEF Listed
<1>3. NeverStranded'
  BY <1>1 DEF HInv, NeverStranded, Spared, Led
<1>4. CallersHold'
  BY <1>1, <1>2 DEF HInv, CallersHold, BeingPublished
<1>5. BeatsHold'
  BY <1>1, <1>2 DEF HInv, BeatsHold
<1>. QED  BY <1>3, <1>4, <1>5 DEF HInv

\* What the failures of a behaviour can be is fixed when it begins.
LEMMA FaultKindsStay ==
  ASSUME IInv, Next PROVE faults'.kinds = faults.kinds
<1>1. \A kind : Fault(kind) => faults'.kinds = faults.kinds
  BY DEF Fault, IInv, TypeOK
<1>2. ASSUME NEW p \in Callers, CallerActs(p) PROVE faults'.kinds = faults.kinds
  BY <1>1, <1>2 DEF CallerActs, CallerStep, CheckActive, Insert, InsertConflict, Publish, FailDispatch,
     StoreTaskId, PublishRaises, CallerDies
<1>3. ASSUME NEW b \in Beats, BeatActs(b) PROVE faults'.kinds = faults.kinds
  BY <1>1, <1>3 DEF BeatActs, BeatStep, ListAbandoned, NextAbandoned, Requeue, ListUndispatched, Republish,
     RepublishRaises, Mark, Done, BeatDies
<1>4. ASSUME NEW w \in Workers, WorkerActs(w) PROVE faults'.kinds = faults.kinds
  BY <1>1, <1>4 DEF WorkerActs, WorkerStep, Deliver, Claim, ClaimRefused, ClaimRaises, FindEntry, SaveEntry,
     FinishRun, WorkerDies, Redeliver
<1>5. ASSUME NEW r \in Runs, RunActs(r) PROVE faults'.kinds = faults.kinds
  BY <1>1, <1>5 DEF RunActs, LoseMessage, ClaimAges, ClaimAgesEarly, CreationAges, CreationAgesEarly
<1>. QED  BY <1>2, <1>3, <1>4, <1>5, StepByActor

\* A publisher's step: what it puts into the broker stays, so what led to a run still does.
LEMMA MessagesAdded ==
  ASSUME IInv, worker' = worker,
         inbox' = inbox \/ \E r \in Runs : inbox' = [inbox EXCEPT ![r] = @ + 1]
  PROVE  /\ \A x \in Runs : Led(x) => Led(x)'
         /\ \A r \in Runs : inbox' = [inbox EXCEPT ![r] = @ + 1] => Led(r)'
<1>1. inbox \in [Runs -> Nat]
  BY DEF IInv, TypeOK
<1>2. \A r \in Runs : inbox' = [inbox EXCEPT ![r] = @ + 1] =>
         inbox'[r] > 0 /\ \A x \in Runs : inbox[x] > 0 => inbox'[x] > 0
  BY <1>1
<1>. QED  BY <1>2 DEF Led

\* A caller's run is its own until the task id is stored.
LEMMA CallersKeepHands ==
  ASSUME IInv, HInv, faults'.kinds = faults.kinds, NEW p \in Callers, CallerActs(p)
  PROVE  HInv'
<1>1. /\ RepoProofs!IInv /\ CallersReady /\ NeverStranded /\ CallersHold /\ BeatsHold
      /\ caller \in [Callers -> [pc : {"idle", "insert", "publish", "undo", "store"},
                                 query : Queries \cup {NoQuery}, run : Runs \cup {NoRun}]]
  BY DEF IInv, TypeOK, HInv
<1>2. /\ UNCHANGED <<beat, worker>>
      /\ inbox' = inbox \/ \E r \in Runs : inbox' = [inbox EXCEPT ![r] = @ + 1]
  BY <1>1 DEF CallerActs, CallerStep, CheckActive, Insert, InsertConflict, Publish, FailDispatch,
     StoreTaskId, PublishRaises, CallerDies, CallersReady
<1>3. \A x \in Runs : Led(x) => Led(x)'
  BY <1>2, MessagesAdded
<1>4. /\ Spared' <=> Spared
      /\ \A b \in Beats : Listed(b)' = Listed(b)
  BY <1>2 DEF Spared, Listed
<1>5. ASSUME rows' = rows, NEW new, caller' = [caller EXCEPT ![p] = new],
             new.pc \in {"publish", "undo", "store"} =>
               new.run = caller[p].run /\ caller[p].pc \in {"publish", "undo", "store"},
             new.pc = "store" => \A x \in Runs : x = caller[p].run => Led(x)'
      PROVE  HInv'
  <2>1. /\ caller'[p] = new
        /\ \A p1 \in Callers : p1 # p => caller'[p1] = caller[p1]
    BY <1>1, <1>5
  <2>2. NeverStranded' /\ BeatsHold'
    BY <1>1, <1>2, <1>3, <1>4, <1>5 DEF NeverStranded, BeatsHold, Led, Spared
  <2>3. CallersHold'
    BY <1>1, <1>2, <1>3, <1>4, <1>5, <2>1 DEF CallersHold
  <2>. QED  BY <2>2, <2>3 DEF HInv
<1>6. ASSUME (\E q \in Queries : CheckActive(p, q)) \/ InsertConflict(p) \/ CallerDies(p)
      PROVE  HInv'
  <2>1. CASE \E q \in Queries : CheckActive(p, q)
    <3>1. PICK q \in Queries : CheckActive(p, q)
      BY <2>1
    <3>2. /\ rows' = rows
          /\ caller' = [caller EXCEPT ![p] = [pc |-> "insert", query |-> q, run |-> NoRun]]
      BY <3>1 DEF CheckActive
    <3>. QED  BY <1>5, <3>2
  <2>2. CASE InsertConflict(p) \/ CallerDies(p)
    <3>1. rows' = rows /\ caller' = [caller EXCEPT ![p] = IdleCaller] /\ IdleCaller.pc = "idle"
      BY <2>2 DEF InsertConflict, CallerDies, IdleCaller
    <3>. QED  BY <1>5, <3>1
  <2>. QED  BY <1>6, <2>1, <2>2
<1>7. ASSUME Publish(p) \/ PublishRaises(p) PROVE HInv'
  <2>1. caller[p].pc = "publish" /\ rows' = rows /\ caller[p].run \in Runs
    BY <1>1, <1>7 DEF Publish, PublishRaises, CallersReady
  <2>2. \/ /\ caller' = [caller EXCEPT ![p] = [caller[p] EXCEPT !.pc = "store"]]
           /\ inbox' = [inbox EXCEPT ![caller[p].run] = @ + 1]
        \/ caller' = [caller EXCEPT ![p] = [caller[p] EXCEPT !.pc = "undo"]]
    BY <1>1, <1>7 DEF Publish, PublishRaises
  <2>3. \A c \in {"store", "undo"} : /\ [caller[p] EXCEPT !.pc = c].pc = c
                                     /\ [caller[p] EXCEPT !.pc = c].run = caller[p].run
    BY <1>1
  <2>4. inbox' = [inbox EXCEPT ![caller[p].run] = @ + 1] =>
          \A x \in Runs : x = caller[p].run => Led(x)'
    BY <1>2, <2>1, MessagesAdded
  <2>. QED  BY <1>5, <2>1, <2>2, <2>3, <2>4
<1>8. ASSUME NEW r \in Runs, Insert(p, r) PROVE HInv'
  <2>1. /\ caller[p].query \in Queries
        /\ \E c \in Repo!Companies : Repo!CreateRequest(r, caller[p].query, c)
    BY <1>1, <1>8 DEF Insert, CallersReady, Repo!Companies
  <2>2. /\ OnlyRow(r) /\ rows[r].run = "absent" /\ rows'[r].run = "queued" /\ ~rows'[r].task
        /\ rows'[r].created = "recent" /\ rows'[r].started = "none"
    BY <1>1, <2>1, RowEffects
  <2>3. caller'[p].pc = "publish" /\ caller'[p].run = r
    BY <1>1, <1>8 DEF Insert
  <2>4. \A p1 \in Callers : p1 # p => caller'[p1] = caller[p1]
    BY <1>1, <1>8 DEF Insert
  <2>5. \A b \in Beats : r \notin Listed(b) /\ ~(beat[b].pc = "mark" /\ beat[b].run = r)
    BY <1>1, <2>2, NoRunAssumption DEF BeatsHold, Listed
  <2>6. NeverStranded'
    BY <1>1, <1>2, <1>3, <1>4, <2>2 DEF NeverStranded, OnlyRow, Led, Spared
  <2>7. BeatsHold'
    BY <1>1, <1>2, <1>3, <1>4, <2>2, <2>5 DEF BeatsHold, OnlyRow
  <2>8. CallersHold'
    BY <1>1, <1>3, <1>4, <2>2, <2>3, <2>4, <2>5 DEF CallersHold, OnlyRow
  <2>. QED  BY <2>6, <2>7, <2>8 DEF HInv
<1>9. ASSUME FailDispatch(p) \/ StoreTaskId(p) PROVE HInv'
  <2>. DEFINE r == caller[p].run
  <2>1. /\ r \in Runs /\ rows[r].run # "absent"
        /\ Spared /\ StoreTaskId(p) /\ rows[r].run = "queued" => Led(r)
    BY <1>1, <1>9 DEF FailDispatch, StoreTaskId, CallersReady, CallersHold
  <2>2. caller'[p].pc = "idle" /\ \A p1 \in Callers : p1 # p => caller'[p1] = caller[p1]
    BY <1>1, <1>9 DEF FailDispatch, StoreTaskId, IdleCaller
  <2>3. /\ OnlyRow(r) /\ SameClocks(r)
        /\ \/ rows'[r] = rows[r] \/ rows'[r].run = "failed"
           \/ rows'[r].run = rows[r].run /\ StoreTaskId(p)
    BY <1>1, <1>9, <2>1, RowEffects DEF FailDispatch, StoreTaskId
  <2>. HIDE DEF r
  <2>4. NeverStranded'
    BY <1>1, <1>2, <1>3, <1>4, <2>1, <2>3 DEF NeverStranded, OnlyRow, Led, Spared
  <2>5. BeatsHold'
    BY <1>1, <1>2, <1>3, <1>4, <2>1, <2>3 DEF BeatsHold, OnlyRow
  <2>6. CallersHold'
    BY <1>1, <1>3, <1>4, <2>1, <2>2, <2>3 DEF CallersHold, OnlyRow, SameClocks
  <2>. QED  BY <2>4, <2>5, <2>6 DEF HInv
<1>. QED  BY <1>6, <1>7, <1>8, <1>9 DEF CallerActs, CallerStep

\* With two overlapping executions the step Requeue is where this would fail.
LEMMA BeatsKeepHands ==
  ASSUME IInv, HInv, faults'.kinds = faults.kinds, NEW b \in Beats, BeatActs(b),
         \A b1, b2 \in Beats : b1 = b2
  PROVE  HInv'
<1>1. /\ RepoProofs!IInv /\ BeatsReady /\ NeverStranded /\ CallersHold /\ BeatsHold
      /\ beat \in [Beats -> [pc : {"idle", "requeue", "next", "redispatch", "mark"},
                             todo : SUBSET Runs, run : Runs \cup {NoRun}, token : Nat]]
  BY DEF IInv, TypeOK, HInv
<1>2. /\ UNCHANGED <<caller, worker>>
      /\ inbox' = inbox \/ \E r \in Runs : inbox' = [inbox EXCEPT ![r] = @ + 1]
  BY DEF BeatActs, BeatStep, ListAbandoned, NextAbandoned, Requeue, ListUndispatched, Republish,
     RepublishRaises, Mark, Done, BeatDies
<1>3. \A x \in Runs : Led(x) => Led(x)'
  BY <1>2, MessagesAdded
<1>4. Spared' <=> Spared
  BY DEF Spared
<1>5. ASSUME NEW new, beat' = [beat EXCEPT ![b] = new], rows' = rows,
             \A x \in (new.todo \cup {new.run}) \ {NoRun} :
               \/ x \in Listed(b)
               \/ x \in Runs /\ rows[x].run # "absent" /\ (rows[x].created = "stale" \/ rows[x].started = "stale"),
             new.pc = "mark" => \A x \in Runs : x = new.run => Led(x)'
      PROVE  HInv'
  <2>1. beat'[b] = new /\ \A b1 \in Beats : b1 = b
    BY <1>1, <1>5
  <2>2. /\ Listed(b)' = (new.todo \cup {new.run}) \ {NoRun}
        /\ \A b1 \in Beats : b1 = b
    BY <2>1 DEF Listed
  <2>3. NeverStranded'
    BY <1>1, <1>2, <1>3, <1>4, <1>5 DEF NeverStranded, Led, Spared
  <2>4. CallersHold'
    BY <1>1, <1>2, <1>3, <1>4, <1>5, <2>2 DEF CallersHold
  <2>5. BeatsHold'
    BY <1>1, <1>2, <1>3, <1>4, <1>5, <2>1, <2>2 DEF BeatsHold
  <2>. QED  BY <2>3, <2>4, <2>5 DEF HInv
<1>6. ASSUME ListAbandoned(b) PROVE HInv'
  <2>1. CASE beat' = [beat EXCEPT ![b].pc = "next"] /\ rows' = rows
    <3>. DEFINE new == [beat[b] EXCEPT !.pc = "next"]
    <3>1. beat' = [beat EXCEPT ![b] = new]
      BY <1>1, <2>1
    <3>2. new.pc = "next" /\ new.todo = beat[b].todo /\ new.run = beat[b].run
      BY <1>1
    <3>. HIDE DEF new
    <3>. QED  BY <1>5, <2>1, <3>1, <3>2 DEF Listed
  <2>2. ASSUME NEW r \in Abandoned, rows' = rows,
               beat' = [beat EXCEPT ![b] = [pc |-> "requeue", todo |-> Abandoned \ {r},
                                            run |-> r, token |-> rows[r].token]]
        PROVE  HInv'
    BY <1>5, <2>2 DEF Abandoned
  <2>. QED  BY <1>6, <2>1, <2>2 DEF ListAbandoned
<1>7. ASSUME NEW r \in Runs, NextAbandoned(b, r) PROVE HInv'
  <2>1. CASE beat' = [beat EXCEPT ![b].todo = @ \ {r}] /\ rows' = rows
    <3>. DEFINE new == [beat[b] EXCEPT !.todo = @ \ {r}]
    <3>1. beat' = [beat EXCEPT ![b] = new]
      BY <1>1, <2>1
    <3>2. new.pc = beat[b].pc /\ new.todo \subseteq beat[b].todo /\ new.run = beat[b].run
      BY <1>1
    <3>3. beat[b].pc = "next"
      BY <1>7 DEF NextAbandoned
    <3>. HIDE DEF new
    <3>. QED  BY <1>5, <2>1, <3>1, <3>2, <3>3 DEF Listed
  <2>2. CASE /\ rows' = rows
             /\ beat' = [beat EXCEPT ![b] = [pc |-> "requeue", todo |-> @.todo \ {r},
                                             run |-> r, token |-> rows[r].token]]
    <3>1. r \in beat[b].todo
      BY <1>7 DEF NextAbandoned
    <3>2. beat' = [beat EXCEPT ![b] = [pc |-> "requeue", todo |-> beat[b].todo \ {r},
                                       run |-> r, token |-> rows[r].token]]
      BY <1>1, <2>2
    <3>. QED  BY <1>5, <2>2, <3>1, <3>2 DEF Listed
  <2>. QED  BY <1>7, <2>1, <2>2 DEF NextAbandoned
<1>8. ASSUME ListUndispatched(b) PROVE HInv'
  <2>. DEFINE new == [beat[b] EXCEPT !.pc = "redispatch", !.todo = Undispatched]
  <2>1. beat' = [beat EXCEPT ![b] = new] /\ rows' = rows
    BY <1>1, <1>8 DEF ListUndispatched
  <2>2. new.pc = "redispatch" /\ new.todo = Undispatched /\ new.run = beat[b].run
    BY <1>1
  <2>. HIDE DEF new
  <2>. QED  BY <1>5, <2>1, <2>2 DEF Listed, Undispatched
<1>9. ASSUME NEW r \in Runs, Republish(b, r) \/ RepublishRaises(b, r) PROVE HInv'
  <2>. DEFINE sent == [beat[b] EXCEPT !.pc = "mark", !.todo = @ \ {r}, !.run = r]
              raised == [beat[b] EXCEPT !.todo = @ \ {r}]
  <2>1. /\ rows' = rows /\ r \in beat[b].todo /\ beat[b].pc = "redispatch"
        /\ \/ beat' = [beat EXCEPT ![b] = sent] /\ inbox' = [inbox EXCEPT ![r] = @ + 1]
           \/ beat' = [beat EXCEPT ![b] = raised]
    BY <1>1, <1>9 DEF Republish, RepublishRaises
  <2>2. /\ sent.pc = "mark" /\ sent.todo \subseteq beat[b].todo /\ sent.run = r
        /\ raised.pc = beat[b].pc /\ raised.todo \subseteq beat[b].todo /\ raised.run = beat[b].run
    BY <1>1
  <2>. HIDE DEF sent, raised
  <2>3. inbox' = [inbox EXCEPT ![r] = @ + 1] => Led(r)'
    BY <1>2, MessagesAdded
  <2>. QED  BY <1>5, <2>1, <2>2, <2>3 DEF Listed
<1>10. ASSUME Done(b) \/ BeatDies(b) PROVE HInv'
  <2>1. /\ rows' = rows /\ beat' = [beat EXCEPT ![b] = IdleBeat]
        /\ IdleBeat.pc = "idle" /\ IdleBeat.todo = {} /\ IdleBeat.run = NoRun
    BY <1>10 DEF Done, BeatDies, IdleBeat
  <2>. QED  BY <1>5, <2>1
<1>11. ASSUME Requeue(b) \/ Mark(b) PROVE HInv'
  <2>. DEFINE r == beat[b].run
  <2>1. /\ r \in Runs /\ r \in Listed(b) /\ rows[r].run # "absent"
        /\ Spared /\ Mark(b) /\ rows[r].run = "queued" => Led(r)
    BY <1>1, <1>11, NoRunAssumption DEF Requeue, Mark, BeatsReady, BeatsHold, Listed
  <2>2. beat'[b].pc # "mark" /\ Listed(b)' \subseteq Listed(b)
    BY <1>1, <1>11 DEF Requeue, Mark, Listed
  <2>3. /\ OnlyRow(r)
        /\ \/ rows'[r] = rows[r]
           \/ rows'[r].run = "queued" /\ ~rows'[r].task
           \/ rows'[r].run = rows[r].run /\ Mark(b)
    BY <1>1, <1>11, <2>1, RowEffects DEF Requeue, Mark, BeatsReady
  <2>. HIDE DEF r
  <2>4. NeverStranded'
    BY <1>1, <1>2, <1>3, <1>4, <2>1, <2>3 DEF NeverStranded, OnlyRow, Led, Spared
  <2>5. CallersHold'
    BY <1>1, <1>2, <1>3, <1>4, <2>1, <2>2, <2>3 DEF CallersHold, OnlyRow
  <2>6. BeatsHold'
    BY <1>1, <1>3, <1>4, <2>1, <2>2, <2>3 DEF BeatsHold, OnlyRow
  <2>. QED  BY <2>4, <2>5, <2>6 DEF HInv
<1>. QED  BY <1>6, <1>7, <1>8, <1>9, <1>10, <1>11 DEF BeatActs, BeatStep

\* A worker takes the last message of a run only to claim it.
LEMMA WorkersKeepHands ==
  ASSUME IInv, HInv, faults'.kinds = faults.kinds, NEW w \in Workers, WorkerActs(w)
  PROVE  HInv'
<1>1. /\ RepoProofs!IInv /\ WorkersReady /\ inbox \in [Runs -> Nat]
      /\ worker \in [Workers -> [pc : {"idle", "claim", "verify", "save", "saved",
                                       "not_found", "unknown"},
                                 run : Runs \cup {NoRun}, token : Nat]]
      /\ \A x \in Runs : rows[x].run = rows[x].request
  BY SoundTables DEF IInv, TypeOK
<1>2. /\ UNCHANGED <<caller, beat>>
      /\ \A w1 \in Workers : w1 # w => worker'[w1] = worker[w1]
  BY <1>1 DEF WorkerActs, WorkerStep, Deliver, Claim, ClaimRefused, ClaimRaises, FindEntry, SaveEntry,
     FinishRun, WorkerDies, Redeliver
<1>3. ASSUME rows' = rows,
             \A x \in Runs : Spared /\ rows[x].run = "queued" /\ Led(x) => Led(x)'
      PROVE  HInv'
  BY <1>2, <1>3, OthersKeepHands
<1>4. ASSUME NEW r \in Runs, Deliver(w, r) PROVE HInv'
  <2>1. /\ rows' = rows /\ worker[w].pc = "idle"
        /\ worker'[w].pc = "claim" /\ worker'[w].run = r
        /\ \A x \in Runs : x # r => inbox'[x] = inbox[x]
    BY <1>1, <1>4 DEF Deliver
  <2>2. \A x \in Runs : Led(x) => Led(x)'
    BY <1>2, <2>1 DEF Led
  <2>. QED  BY <1>3, <2>1, <2>2
<1>5. ASSUME Claim(w) PROVE HInv'
  <2>. DEFINE r == worker[w].run
  <2>1. r \in Runs /\ inbox' = inbox /\ Repo!ClaimQueued(r)
    BY <1>1, <1>5 DEF Claim, WorkersReady
  <2>2. /\ OnlyRow(r) /\ rows'[r].run = "running"
        /\ rows'[r].created = rows[r].created /\ rows'[r].started = "recent"
    BY <1>1, <2>1, RowEffects
  <2>3. \A w1 \in Workers : worker[w1].run # r => worker'[w1] = worker[w1]
    BY <1>2
  <2>. HIDE DEF r
  <2>4. \A x \in Runs : rows'[x].run = "queued" /\ Led(x) => Led(x)'
    BY <2>1, <2>2, <2>3 DEF Led
  <2>. QED  BY <1>2, <2>1, <2>2, <2>4, OthersKeepHands DEF OnlyRow
<1>6. ASSUME ClaimRefused(w) PROVE HInv'
  <2>1. rows' = rows /\ inbox' = inbox /\ rows[worker[w].run].run # "queued"
    BY <1>1, <1>6 DEF ClaimRefused, WorkersReady, Repo!Claimable
  <2>2. \A x \in Runs : rows[x].run = "queued" /\ Led(x) => Led(x)'
    BY <1>2, <2>1 DEF Led
  <2>. QED  BY <1>3, <2>1, <2>2
<1>7. ASSUME ClaimRaises(w) PROVE HInv'
  <2>. DEFINE r == worker[w].run
  <2>1. ~Spared /\ r \in Runs /\ (rows' = rows \/ Repo!ClaimQueued(r))
    BY <1>1, <1>7 DEF ClaimRaises, WorkersReady, Fault, Spared, Stranding
  <2>2. CASE rows' = rows
    BY <1>3, <2>1, <2>2
  <2>3. CASE Repo!ClaimQueued(r)
    <3>1. /\ OnlyRow(r) /\ rows'[r].run = "running"
          /\ rows'[r].created = rows[r].created /\ rows'[r].started = "recent"
      BY <1>1, <2>1, <2>3, RowEffects
    <3>. QED  BY <1>2, <2>1, <3>1, OthersKeepHands DEF OnlyRow
  <2>. QED  BY <2>1, <2>2, <2>3
<1>8. ASSUME FindEntry(w) \/ SaveEntry(w) PROVE HInv'
  <2>1. rows' = rows /\ inbox' = inbox /\ worker[w].pc # "claim"
    BY <1>8 DEF FindEntry, SaveEntry
  <2>2. \A x \in Runs : Led(x) => Led(x)'
    BY <1>2, <2>1 DEF Led
  <2>. QED  BY <1>3, <2>1, <2>2
<1>9. ASSUME FinishRun(w) PROVE HInv'
  <2>. DEFINE r == worker[w].run
  <2>1. /\ r \in Runs /\ worker[w].token \in 1..issued /\ inbox' = inbox /\ worker[w].pc # "claim"
        /\ rows[r].query \in Repo!Companies
    <3>1. r \in Runs /\ worker[w].token \in 1..issued /\ inbox' = inbox /\ worker[w].pc # "claim"
      BY <1>1, <1>9 DEF FinishRun, WorkersReady
    <3>. QED  BY <1>1, <3>1, SoundTables DEF Repo!Row, Repo!Companies
  <2>2. \E s \in Repo!Terminal, c \in Repo!Companies : Repo!Finish(r, worker[w].token, s, c)
    BY <1>9, <2>1 DEF FinishRun, Repo!Terminal, Repo!Companies
  <2>3. /\ OnlyRow(r) /\ SameClocks(r)
        /\ rows'[r] = rows[r] \/ rows'[r].run \notin {"absent", "queued"}
    BY <1>1, <2>1, <2>2, RowEffects
  <2>4. \A x \in Runs : Led(x) => Led(x)'
    BY <1>2, <2>1 DEF Led
  <2>. HIDE DEF r
  <2>. QED  BY <1>2, <2>1, <2>3, <2>4, OthersKeepHands DEF OnlyRow, SameClocks
<1>10. ASSUME WorkerDies(w) \/ Redeliver(w) PROVE HInv'
  <2>. DEFINE r == worker[w].run
  <2>1. rows' = rows /\ r \in Runs
    BY <1>1, <1>10 DEF WorkerDies, Redeliver, WorkersReady
  <2>2. Spared => \/ inbox' = [inbox EXCEPT ![r] = @ + 1]
                  \/ inbox' = inbox /\ worker[w].pc # "claim"
    BY <1>10 DEF WorkerDies, Redeliver, Fault, Spared, Stranding
  <2>3. \A w1 \in Workers : worker[w1].run # r => worker'[w1] = worker[w1]
    BY <1>2
  <2>. HIDE DEF r
  <2>4. inbox' = [inbox EXCEPT ![r] = @ + 1] =>
          inbox'[r] > 0 /\ \A x \in Runs : x # r => inbox'[x] = inbox[x]
    BY <1>1, <2>1
  <2>5. \A x \in Runs : Spared /\ Led(x) => Led(x)'
    BY <1>2, <2>2, <2>3, <2>4 DEF Led
  <2>. QED  BY <1>3, <2>1, <2>5
<1>. QED  BY <1>4, <1>5, <1>6, <1>7, <1>8, <1>9, <1>10 DEF WorkerActs, WorkerStep

\* Time passes for a run only while nobody is publishing it.
LEMMA ClockKeepsHands ==
  ASSUME IInv, HInv, faults'.kinds = faults.kinds, NEW r \in Runs, RunActs(r)
  PROVE  HInv'
<1>1. RepoProofs!IInv /\ UNCHANGED <<caller, beat, worker>>
  BY DEF IInv, RunActs, LoseMessage, ClaimAges, ClaimAgesEarly, CreationAges, CreationAgesEarly
<1>2. CASE LoseMessage(r)
  <2>1. ~Spared /\ rows' = rows
    BY <1>2 DEF LoseMessage, Fault, Spared, Stranding
  <2>. QED  BY <1>1, <2>1, OthersKeepHands
<1>3. CASE ~LoseMessage(r)
  <2>1. /\ inbox' = inbox
        /\ Repo!ClaimTurnsStale(r) \/ Repo!CreationTurnsStale(r)
        /\ Spared => ~BeingPublished(r)
    BY <1>3 DEF RunActs, ClaimAges, ClaimAgesEarly, CreationAges, CreationAgesEarly, Fault, Spared, Stranding
  <2>2. /\ OnlyRow(r) /\ rows'[r].run = rows[r].run
        /\ rows[r].run = "running" \/ rows'[r].task = rows[r].task
    BY <1>1, <2>1, RowEffects
  <2>3. \A x \in Runs : Led(x) => Led(x)'
    BY <1>1, <2>1 DEF Led
  <2>. QED  BY <1>1, <2>1, <2>2, <2>3, OthersKeepHands DEF OnlyRow
<1>. QED  BY <1>2, <1>3

\* At first nobody holds anything.
LEMMA InitEstablishesHInv == Init => HInv
  BY DEF Init, Repo!Init, Repo!AbsentRow, IdleCaller, IdleBeat, HInv, NeverStranded, CallersHold, BeatsHold, Listed

\* What publishers hold is kept by every step.
LEMMA NextPreservesHInv ==
  ASSUME \A b1, b2 \in Beats : b1 = b2
  PROVE  IInv /\ HInv /\ [Next]_vars => HInv'
<1>1. ASSUME IInv, HInv, Next PROVE HInv'
  <2>1. faults'.kinds = faults.kinds
    BY <1>1, FaultKindsStay
  <2>. QED  BY <1>1, <2>1, StepByActor, CallersKeepHands, BeatsKeepHands, WorkersKeepHands, ClockKeepsHands
<1>2. HInv /\ UNCHANGED vars => HInv'
  BY DEF vars, actorVars, HInv, NeverStranded, CallersHold, BeatsHold, Listed, Led, Spared
<1>. QED  BY <1>1, <1>2

\* While executions of the redispatch task do not overlap, and no message or
\* claim is lost for good, something always leads to a queued run.
THEOREM QueuedRunsAreLed ==
  ASSUME \A b1, b2 \in Beats : b1 = b2
  PROVE  Spec => []NeverStranded
<1>1. IInv /\ HInv /\ [Next]_vars => HInv'
  BY NextPreservesHInv
<1>2. HInv => NeverStranded
  BY DEF HInv
<1>. QED  BY <1>1, <1>2, InitEstablishesHInv, Invariance, PTL DEF Spec
=============================================================================
