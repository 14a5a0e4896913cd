-------------------------- MODULE IngestionTaskProofs --------------------------
(***************************************************************************)
(* Proofs about IngestionTask, for any runs, workers, pages, retries and   *)
(* faults.                                                                 *)
(*                                                                         *)
(* The operator's script writes one row of a pair, so that the invariant   *)
(* of CollectionRepository does not hold here.  What is left of it is      *)
(* Tables; what the proofs rest on is Actors: a token that a message or a  *)
(* delivery carries to give a claim back is never the token of a claim     *)
(* that some delivery works under.                                         *)
(*                                                                         *)
(* From Orders on, about CollectionPipeline, for any deployments, runs,    *)
(* queries, finds, limits and intervals.                                   *)
(***************************************************************************)
EXTENDS IngestionTask, CollectionPipeline, FiniteSetTheorems, SequenceTheorems, TLAPS

\* A request waits only together with its run, which the script cannot undo, and
\* a run that works carries a token.
Tables ==
  /\ Repo!TypeOK
  /\ \A r \in Runs : /\ rows[r].request = "queued" => rows[r].run = "queued"
                     /\ rows[r].run = "running" => rows[r].token # NoToken

\* The tokens that a delivery has given back, or may give back when it begins.
Spent == {m.token : m \in inbox} \cup {worker[w].given : w \in Workers}

TokensIssued ==
  /\ \A t \in Spent : t <= issued
  /\ \A w \in Workers : worker[w].token <= issued

\* A claim that a delivery holds is held by no other one and has not been spent.
ClaimsApart ==
  \A w \in Workers : worker[w].token # NoToken =>
    /\ worker[w].token \notin Spent
    /\ \A v \in Workers : worker[v].token = worker[w].token => v = w

\* A delivery is about a run, and the last one sends no message.
SoundDelivery(state) ==
  /\ state.pc # "idle" => state.run \in Runs
  /\ state.pc = "resend" => state.retries < MaxRetries

Actors ==
  /\ inbox \subseteq Message
  /\ worker \in [Workers -> Worker]
  /\ TokensIssued
  /\ ClaimsApart
  /\ \A w \in Workers : SoundDelivery(worker[w])

IInv == TypeOK /\ Tables /\ Actors

\* One worker goes on: it takes its token from its state or from a fresh claim,
\* and lets go of a token that it sends.
Turn(w) ==
  \E new \in Worker :
    /\ worker' = [worker EXCEPT ![w] = new]
    /\ SoundDelivery(new)
    /\ new.given \in Spent \cup {NoToken}
    /\ \/ new.token \in {NoToken, worker[w].token}
       \/ new.token = issued + 1 /\ issued' = issued + 1
    /\ inbox' \subseteq Message
    /\ \A m \in inbox' : \/ m.token \in Spent \cup {NoToken}
                         \/ m.token = worker[w].token /\ new.token = NoToken

-----------------------------------------------------------------------------
\* What the methods of the repository do to the rest of a sound pair.
LEMMA MethodsKeepTables ==
  ASSUME Tables, NEW r \in Runs
  PROVE  /\ Repo!ClaimQueued(r) => Tables' /\ issued' = issued + 1
         /\ \A t : Repo!RequeueForRetry(r, t) => Tables' /\ issued' = issued
         /\ \A t : Repo!FailRetryExhausted(r, t) => Tables' /\ issued' = issued
         /\ \A t : \A s \in Repo!Terminal, c \in Repo!Companies :
              Repo!Finish(r, t, s, c) => Tables' /\ issued' = issued
         /\ Repo!ClaimTurnsStale(r) => Tables' /\ issued' = issued
<1>0. /\ rows \in [Runs -> Repo!Row] /\ issued \in Nat
      /\ \A x \in Runs : /\ rows[x].request = "queued" => rows[x].run = "queued"
                         /\ rows[x].run = "running" => rows[x].token # NoToken
  BY DEF Tables, Repo!TypeOK
<1>. USE <1>0
<1>. DEFINE Sound(row) == /\ row \in Repo!Row
                          /\ row.request = "queued" => row.run = "queued"
                          /\ row.run = "running" => row.token # NoToken
<1>1. ASSUME NEW row, Sound(row), rows' = [rows EXCEPT ![r] = row], issued' \in Nat
      PROVE  Tables'
  BY <1>1 DEF Tables, Repo!TypeOK
<1>2. Sound(rows[r])
  OBVIOUS
<1>3. \A t \in Nat \ {0} : Sound(Repo!Claimed(rows[r], t))
  BY DEF Repo!Claimed, Repo!Row, Repo!Status, Repo!Active, NoToken
<1>4. \A t : Sound(Repo!RetryQueued(rows[r], t))
  BY DEF Repo!RetryQueued, Repo!FailedIfInvalid, Repo!InvalidPair, Repo!BothSettled, Repo!Row,
         Repo!Status, Repo!Active, Repo!Terminal, NoToken, Repo!NoToken
<1>5. \A t : Sound(Repo!RetryExhausted(rows[r], t))
  BY DEF Repo!RetryExhausted, Repo!FailedIfInvalid, Repo!InvalidPair, Repo!BothSettled, Repo!Row,
         Repo!Status, Repo!Active, Repo!Terminal, NoToken, Repo!NoToken
<1>6. \A t : \A s \in Repo!Terminal, c \in Repo!Companies : Sound(Repo!Finished(rows[r], t, s, c))
  <2>. SUFFICES ASSUME NEW t, NEW s \in Repo!Terminal, NEW c \in Repo!Companies
                PROVE  Sound([[rows[r] EXCEPT !.run = s, !.request = s] EXCEPT !.company = c])
    BY <1>2 DEF Repo!Finished, Repo!BothSettled
  <2>1. s \in Repo!Status /\ s # "queued" /\ s # "running"
    BY DEF Repo!Status, Repo!Terminal
  <2>. QED  BY <2>1 DEF Repo!Row
<1>7. Sound([rows[r] EXCEPT !.started = "stale"])
  BY DEF Repo!Row
<1>. HIDE DEF Sound
<1>. QED  BY <1>1, <1>2, <1>3, <1>4, <1>5, <1>6, <1>7
          DEF Repo!ClaimQueued, Repo!RequeueForRetry, Repo!FailRetryExhausted, Repo!Finish,
              Repo!ClaimTurnsStale

\* A turn leaves the claims apart.
LEMMA TurnsKeepActors ==
  ASSUME Actors, issued \in Nat, issued' \in Nat, issued <= issued', NEW w \in Workers, Turn(w)
  PROVE  Actors'
<1>1. PICK new \in Worker :
        /\ worker' = [worker EXCEPT ![w] = new]
        /\ SoundDelivery(new)
        /\ new.given \in Spent \cup {NoToken}
        /\ \/ new.token \in {NoToken, worker[w].token}
           \/ new.token = issued + 1 /\ issued' = issued + 1
        /\ inbox' \subseteq Message
        /\ \A m \in inbox' : \/ m.token \in Spent \cup {NoToken}
                             \/ m.token = worker[w].token /\ new.token = NoToken
  BY DEF Turn
<1>2. /\ worker \in [Workers -> Worker] /\ worker' \in [Workers -> Worker]
      /\ worker'[w] = new /\ \A v \in Workers : v # w => worker'[v] = worker[v]
  BY <1>1 DEF Actors
<1>3. \A v \in Workers : worker[v].token \in Nat /\ worker[v].given \in Nat
  BY <1>2 DEF Worker
<1>4. \A t \in Spent' : t \in Spent \cup {NoToken} \/ (t = worker[w].token /\ new.token = NoToken)
  <2>1. \A m \in inbox' : m.token \in Spent \cup {NoToken} \/ (m.token = worker[w].token /\ new.token = NoToken)
    BY <1>1
  <2>2. \A v \in Workers : worker'[v].given \in Spent \cup {NoToken}
    <3>1. \A v \in Workers : worker[v].given \in Spent
      BY DEF Spent
    <3>. QED  BY <1>1, <1>2, <3>1
  <2>3. \A t \in Spent' : \/ \E m \in inbox' : t = m.token
                        \/ \E v \in Workers : t = worker'[v].given
    BY DEF Spent
  <2>. QED  BY <2>1, <2>2, <2>3
<1>5. \A t \in Spent : t \in Nat
  BY <1>3 DEF Spent, Actors, Message
<1>6. TokensIssued'
  <2>1. \A t \in Spent' : t <= issued'
    BY <1>3, <1>4, <1>5 DEF Actors, TokensIssued, NoToken
  <2>2. \A v \in Workers : worker'[v].token <= issued'
    BY <1>1, <1>2, <1>3 DEF Actors, TokensIssued, NoToken
  <2>. QED  BY <2>1, <2>2 DEF TokensIssued
<1>7. ClaimsApart'
  <2>. SUFFICES ASSUME NEW v \in Workers, worker'[v].token # NoToken
                PROVE  /\ worker'[v].token \notin Spent'
                       /\ \A u \in Workers : worker'[u].token = worker'[v].token => u = v
    BY DEF ClaimsApart
  <2>1. CASE worker'[v].token = issued + 1
    <3>1. v = w /\ issued' = issued + 1
      BY <1>1, <1>2, <1>3, <2>1 DEF Actors, TokensIssued, NoToken
    <3>. QED  BY <1>2, <1>3, <1>4, <1>5, <2>1, <3>1 DEF Actors, TokensIssued, NoToken
  <2>2. CASE worker'[v].token # issued + 1
    <3>1. worker'[v].token = worker[v].token
      BY <1>1, <1>2, <2>2
    <3>2. worker[v].token \notin Spent /\ \A u \in Workers : worker[u].token = worker[v].token => u = v
      BY <3>1 DEF Actors, ClaimsApart
    <3>3. worker'[v].token \notin Spent'
      BY <1>2, <1>4, <3>1, <3>2
    <3>4. \A u \in Workers : worker'[u].token = worker'[v].token => u = v
      BY <1>1, <1>2, <2>2, <3>1, <3>2
    <3>. QED  BY <3>3, <3>4
  <2>. QED  BY <2>1, <2>2
<1>8. \A v \in Workers : SoundDelivery(worker'[v])
  BY <1>1, <1>2 DEF Actors
<1>. QED  BY <1>1, <1>2, <1>6, <1>7, <1>8 DEF Actors
\* A delivery goes on and takes no other token.
Continues(old, new) ==
  /\ new \in Worker /\ SoundDelivery(new)
  /\ new.given \in {NoToken, old.given} /\ new.token \in {NoToken, old.token}

\* The ways in which deliveries go on.
LEMMA Continuations ==
  ASSUME NEW old \in Worker, SoundDelivery(old)
  PROVE  /\ Continues(old, IdleWorker)
         /\ old.pc # "idle" =>
              /\ \A pc \in Steps : (pc = "resend" => old.retries < MaxRetries) =>
                   Continues(old, [old EXCEPT !.pc = pc])
              /\ \A pages \in SUBSET Pages : Continues(old, [old EXCEPT !.pc = "save", !.pages = pages])
              /\ \A page : /\ Continues(old, WithoutPage(old, page))
                           /\ Continues(old, [WithoutPage(old, page) EXCEPT !.saved = TRUE])
              /\ Continues(old, [old EXCEPT !.token = NoToken])
<1>1. Continues(old, IdleWorker)
  BY RetriesAssumption DEF Continues, IdleWorker, Worker, Steps, SoundDelivery, NoToken
<1>. SUFFICES ASSUME old.pc # "idle"
              PROVE  /\ \A pc \in Steps : (pc = "resend" => old.retries < MaxRetries) =>
                          Continues(old, [old EXCEPT !.pc = pc])
                     /\ \A pages \in SUBSET Pages : Continues(old, [old EXCEPT !.pc = "save", !.pages = pages])
                     /\ \A page : /\ Continues(old, WithoutPage(old, page))
                                  /\ Continues(old, [WithoutPage(old, page) EXCEPT !.saved = TRUE])
                     /\ Continues(old, [old EXCEPT !.token = NoToken])
  BY <1>1
<1>2. \A pc \in Steps : (pc = "resend" => old.retries < MaxRetries) => Continues(old, [old EXCEPT !.pc = pc])
  BY DEF Continues, Worker, SoundDelivery
<1>3. \A pages \in SUBSET Pages : Continues(old, [old EXCEPT !.pc = "save", !.pages = pages])
  BY DEF Continues, Worker, SoundDelivery, Steps
<1>4. \A page : /\ Continues(old, WithoutPage(old, page))
                /\ Continues(old, [WithoutPage(old, page) EXCEPT !.saved = TRUE])
  <2>. TAKE page
  <2>1. old.pages \ {page} \in SUBSET Pages
    BY DEF Worker
  <2>. QED  BY <2>1 DEF Continues, Worker, SoundDelivery, WithoutPage
<1>5. Continues(old, [old EXCEPT !.token = NoToken])
  BY DEF Continues, Worker, SoundDelivery, NoToken
<1>. QED  BY <1>2, <1>3, <1>4, <1>5

\* A worker goes on and nothing is sent.
LEMMA QuietTurn ==
  ASSUME Actors, NEW w \in Workers, NEW state, Goes(w, state), Continues(worker[w], state),
         inbox' = inbox
  PROVE  Turn(w)
<1>1. worker[w].given \in Spent /\ \A m \in inbox' : m.token \in Spent
  BY DEF Spent
<1>. QED  BY <1>1 DEF Turn, Goes, Actors, Continues

\* What a delivery of one run is settled as.
LEMMA EndingsTyped ==
  ASSUME Tables, NEW state \in Worker, SoundDelivery(state), NEW ending \in Ending(state)
  PROVE  /\ state.pc \in {"none", "fail", "save"}
         /\ ending[1] \in Repo!Terminal /\ ending[2] \in Repo!Companies
<1>1. state.pc \in {"none", "fail", "save"}
  BY DEF Ending
<1>2. CompanyOf(state.run) \in Repo!Companies
  BY <1>1, KnownAssumption DEF CompanyOf, Repo!Companies, SoundDelivery
<1>. QED  BY <1>1, <1>2 DEF Ending, Repo!Terminal, Repo!Companies

\* The kinds of failures and how many are still to come.
Failures == [kinds : SUBSET FaultKinds, left : Nat]

\* The tables and the rest of the state stay sound.
Quietly(w) == /\ Tables' /\ issued' \in Nat /\ issued <= issued'
              /\ filed' \subseteq Pages \X Runs /\ faults' \in Failures
              /\ Turn(w)

LEMMA FaultsCounted ==
  ASSUME TypeOK, NEW kind, Fault(kind)
  PROVE  faults' \in Failures
<1>1. faults \in Failures /\ faults.left > 0 /\ faults' = [faults EXCEPT !.left = @ - 1]
  BY DEF TypeOK, Fault, Failures
<1>. QED  BY <1>1 DEF Failures

\* A delivery that only computes, files a page or ends.
LEMMA ComputingIsATurn ==
  ASSUME IInv, NEW w \in Workers,
         \/ ClaimRefused(w) \/ Collect(w) \/ TokenUnknown(w) \/ PipelineRaises(w) \/ RequeueRaises(w)
         \/ \E page \in Pages : \/ SkipPage(w, page) \/ SavePage(w, page)
                                \/ PageConflict(w, page) \/ SaveRaises(w, page)
  PROVE  Quietly(w) /\ UNCHANGED <<beat, rescuer>>
<1>. DEFINE old == worker[w]
<1>1. /\ old \in Worker /\ SoundDelivery(old) /\ inbox' = inbox /\ issued' = issued /\ issued \in Nat /\ Tables'
      /\ UNCHANGED <<beat, rescuer>>
  BY DEF IInv, Actors, Tables, Repo!TypeOK, ClaimRefused, Collect, TokenUnknown, PipelineRaises, RequeueRaises,
         SkipPage, SavePage, PageConflict, SaveRaises
<1>2. filed' \subseteq Pages \X Runs
  <2>1. filed \subseteq Pages \X Runs
    BY DEF IInv, TypeOK
  <2>2. CASE UNCHANGED filed
    BY <2>1, <2>2
  <2>3. ASSUME NEW page \in Pages, SavePage(w, page) \/ SaveRaises(w, page)
        PROVE  filed' \subseteq Pages \X Runs
    BY <1>1, <2>1, <2>3 DEF SavePage, SaveRaises, SoundDelivery
  <2>. QED  BY <2>2, <2>3 DEF ClaimRefused, Collect, TokenUnknown, PipelineRaises, RequeueRaises,
                              SkipPage, PageConflict
<1>3. faults' \in Failures
  BY FaultsCounted DEF IInv, TypeOK, Failures, ClaimRefused, Collect, TokenUnknown, PipelineRaises, RequeueRaises,
         SkipPage, SavePage, PageConflict, SaveRaises
<1>4. \E state : Goes(w, state) /\ Continues(old, state)
  <2>1. CASE ClaimRefused(w)
    BY <1>1, <2>1, Continuations DEF ClaimRefused
  <2>2. CASE Collect(w)
    BY <1>1, <2>2, Continuations DEF Collect, Steps
  <2>3. CASE TokenUnknown(w)
    BY <1>1, <2>3, Continuations DEF TokenUnknown
  <2>4. CASE PipelineRaises(w)
    BY <1>1, <2>4, Continuations DEF PipelineRaises, Steps
  <2>5. CASE RequeueRaises(w)
    BY <1>1, <2>5, Continuations DEF RequeueRaises, Steps
  <2>6. ASSUME NEW page \in Pages,
               SkipPage(w, page) \/ SavePage(w, page) \/ PageConflict(w, page) \/ SaveRaises(w, page)
        PROVE  \E state : Goes(w, state) /\ Continues(old, state)
    BY <1>1, <2>6, Continuations DEF SkipPage, SavePage, PageConflict, SaveRaises, Steps
  <2>. QED  BY <2>1, <2>2, <2>3, <2>4, <2>5, <2>6
<1>. QED  BY <1>1, <1>2, <1>3, <1>4, QuietTurn DEF IInv, Quietly

\* A delivery that calls a method on its run.
LEMMA CallingIsATurn ==
  ASSUME IInv, NEW w \in Workers,
         \/ Recover(w) \/ Claim(w) \/ ClaimRaises(w) \/ Decline(w) \/ Finish(w) \/ FinishRaises(w)
         \/ Requeue(w) \/ FailExhausted(w)
  PROVE  Quietly(w) /\ UNCHANGED <<beat, rescuer>>
<1>. DEFINE old == worker[w]
<1>1. /\ old \in Worker /\ SoundDelivery(old) /\ inbox' = inbox /\ issued \in Nat /\ Tables /\ Actors
      /\ UNCHANGED <<beat, rescuer>> /\ filed' \subseteq Pages \X Runs
  BY DEF IInv, TypeOK, Actors, Tables, Repo!TypeOK, Recover, Claim, ClaimRaises, Decline, Finish, FinishRaises,
         Requeue, FailExhausted
<1>2. faults' \in Failures
  BY FaultsCounted DEF IInv, TypeOK, Failures, Recover, Claim, ClaimRaises, Decline, Finish, FinishRaises,
         Requeue, FailExhausted
<1>3. old.pc # "idle" /\ old.run \in Runs
  <2>1. \A ending \in Ending(old) : old.pc # "idle"
    BY <1>1, EndingsTyped
  <2>. QED  BY <1>1, <2>1 DEF Recover, Claim, ClaimRaises, Decline, Finish, FinishRaises,
                              Requeue, FailExhausted, SoundDelivery
<1>4. CASE Claim(w) \/ (ClaimRaises(w) /\ Repo!ClaimQueued(old.run))
  <2>1. Tables' /\ issued' = issued + 1
    BY <1>1, <1>3, <1>4, MethodsKeepTables DEF Claim
  <2>2. \E pc \in Steps \ {"idle", "resend"} :
          worker' = [worker EXCEPT ![w] = [old EXCEPT !.pc = pc, !.token = issued + 1]]
    <3>1. CASE Claim(w)
      <4>1. worker' = [worker EXCEPT ![w] = [old EXCEPT !.token = issued + 1,
                         !.pc = IF old.pc = "claim" THEN "collect" ELSE "decline"]]
        BY <3>1 DEF Claim, Goes
      <4>2. \A pc, t : [old EXCEPT !.token = t, !.pc = pc] = [old EXCEPT !.pc = pc, !.token = t]
        BY <1>1 DEF Worker
      <4>. QED  BY <4>1, <4>2 DEF Steps
    <3>2. CASE ClaimRaises(w) /\ Repo!ClaimQueued(old.run)
      <4>1. issued' # issued
        BY <1>1, <3>2 DEF Repo!ClaimQueued
      <4>. QED  BY <3>2, <4>1 DEF ClaimRaises, Goes, Steps
    <3>. QED  BY <1>4, <3>1, <3>2
  <2>. SUFFICES Turn(w)
    BY <1>1, <1>2, <2>1 DEF Quietly
  <2>3. PICK pc \in Steps \ {"idle", "resend"} :
          worker' = [worker EXCEPT ![w] = [old EXCEPT !.pc = pc, !.token = issued + 1]]
    BY <2>2
  <2>. DEFINE new == [old EXCEPT !.pc = pc, !.token = issued + 1]
  <2>4. new \in Worker /\ SoundDelivery(new)
    <3>1. \A t \in Nat : [old EXCEPT !.pc = pc, !.token = t] \in Worker
      BY <1>1 DEF Worker
    <3>2. new.pc = pc /\ new.run = old.run
      BY <1>1 DEF Worker
    <3>3. new \in Worker
      <4>1. issued + 1 \in Nat
        BY <1>1
      <4>. QED  BY <3>1, <4>1
    <3>. QED  BY <1>1, <1>3, <3>2, <3>3 DEF SoundDelivery
  <2>5. new.given = old.given /\ new.token = issued + 1
    BY <1>1 DEF Worker
  <2>6. old.given \in Spent /\ \A m \in inbox' : m.token \in Spent
    BY <1>1 DEF Spent
  <2>. HIDE DEF new
  <2>. QED  BY <1>1, <2>1, <2>3, <2>4, <2>5, <2>6 DEF Turn, Actors, new
<1>5. CASE ~(Claim(w) \/ (ClaimRaises(w) /\ Repo!ClaimQueued(old.run)))
  <2>1. Tables' /\ issued' = issued
    <3>1. \A ending \in Ending(old) : ending[1] \in Repo!Terminal /\ ending[2] \in Repo!Companies
      BY <1>1, EndingsTyped
    <3>2. "failed" \in Repo!Terminal /\ NoCompany \in Repo!Companies
      BY DEF Repo!Terminal, Repo!Companies
    <3>3. UNCHANGED <<rows, issued>> => Tables' /\ issued' = issued
      BY <1>1 DEF Tables, Repo!TypeOK
    <3>4. CASE Recover(w) \/ Requeue(w) \/ FailExhausted(w)
      BY <1>1, <1>3, <3>4, MethodsKeepTables DEF Recover, Requeue, FailExhausted
    <3>5. CASE Decline(w)
      BY <1>1, <1>3, <3>2, <3>5, MethodsKeepTables DEF Decline
    <3>6. CASE Finish(w) \/ FinishRaises(w)
      BY <1>1, <1>3, <3>1, <3>3, <3>6, MethodsKeepTables DEF Finish, FinishRaises
    <3>7. CASE ClaimRaises(w)
      BY <1>5, <3>3, <3>7 DEF ClaimRaises
    <3>. QED  BY <1>5, <3>4, <3>5, <3>6, <3>7
  <2>2. \E state : Goes(w, state) /\ Continues(old, state)
    BY <1>1, <1>3, <1>5, Continuations
    DEF Recover, ClaimRaises, Decline, Finish, FinishRaises, Requeue, FailExhausted, Steps
  <2>. QED  BY <1>1, <1>2, <2>1, <2>2, QuietTurn DEF Quietly
<1>. QED  BY <1>4, <1>5

\* A delivery begins, or ends with a message.
LEMMA SendingIsATurn ==
  ASSUME IInv, NEW w \in Workers,
         \/ RecoverRaises(w) \/ Resend(w) \/ WorkerDies(w) \/ Redeliver(w)
         \/ \E m \in inbox : Receive(w, m)
  PROVE  Quietly(w) /\ UNCHANGED <<beat, rescuer>>
<1>. DEFINE old == worker[w]
<1>1. /\ old \in Worker /\ SoundDelivery(old) /\ issued \in Nat /\ Tables /\ Actors
      /\ UNCHANGED <<beat, rescuer>> /\ filed' \subseteq Pages \X Runs
  BY DEF IInv, TypeOK, Actors, Tables, Repo!TypeOK, RecoverRaises, Resend, WorkerDies, Redeliver, Receive
<1>2. faults' \in Failures
  BY FaultsCounted DEF IInv, TypeOK, Failures, RecoverRaises, Resend, WorkerDies, Redeliver, Receive
<1>3. Tables' /\ issued' = issued
  <2>1. UNCHANGED <<rows, issued>> => Tables' /\ issued' = issued
    BY <1>1 DEF Tables, Repo!TypeOK
  <2>2. CASE RecoverRaises(w)
    <3>1. old.run \in Runs
      BY <1>1, <2>2 DEF RecoverRaises, SoundDelivery
    <3>. QED  BY <1>1, <2>1, <2>2, <3>1, MethodsKeepTables DEF RecoverRaises
  <2>. QED  BY <2>1, <2>2 DEF Resend, WorkerDies, Redeliver, Receive
<1>4. /\ old.given \in Spent /\ \A m \in inbox : m.token \in Spent
      /\ inbox \subseteq Message /\ worker \in [Workers -> Worker]
  BY <1>1 DEF Spent, Actors
<1>5. Continues(old, IdleWorker) /\ IdleWorker.given = NoToken /\ IdleWorker.token = NoToken
  BY <1>1, Continuations DEF IdleWorker
<1>6. old.pc # "idle" => Given(w) \in Message /\ Given(w).token = old.given /\ Given(w).retries = old.retries
  BY <1>1 DEF Given, Message, Worker, SoundDelivery
<1>7. Turn(w)
  <2>1. CASE RecoverRaises(w)
    <3>1. inbox' \subseteq inbox \cup {Retry(Given(w))} /\ (old.retries < MaxRetries \/ inbox' = inbox)
      BY <2>1 DEF RecoverRaises
    <3>2. old.retries < MaxRetries => Retry(Given(w)) \in Message /\ Retry(Given(w)).token = old.given
      BY <1>1, <1>6, <2>1, RetriesAssumption DEF RecoverRaises, Retry, Message, Worker
    <3>. QED  BY <1>4, <1>5, <2>1, <3>1, <3>2 DEF RecoverRaises, Turn, Goes, Continues
  <2>2. CASE Resend(w)
    <3>. DEFINE sent == [run |-> old.run, token |-> old.token, retries |-> old.retries + 1]
    <3>1. sent \in Message /\ sent.token = old.token
      BY <1>1, <2>2, RetriesAssumption DEF Resend, Message, Worker, SoundDelivery
    <3>2. inbox' = inbox \cup {sent} /\ Goes(w, IdleWorker)
      BY <2>2 DEF Resend
    <3>. HIDE DEF sent
    <3>. QED  BY <1>4, <1>5, <3>1, <3>2 DEF Turn, Goes, Continues
  <2>3. CASE WorkerDies(w)
    <3>1. inbox' \subseteq inbox \cup {Given(w)} /\ Goes(w, IdleWorker) /\ old.pc # "idle"
      BY <2>3 DEF WorkerDies
    <3>. QED  BY <1>4, <1>5, <1>6, <3>1 DEF Turn, Goes, Continues
  <2>4. CASE Redeliver(w)
    <3>1. inbox' = inbox \cup {Given(w)} /\ worker' = worker /\ old.pc # "idle"
      BY <2>4 DEF Redeliver
    <3>2. worker' = [worker EXCEPT ![w] = old]
      BY <1>4, <3>1
    <3>. QED  BY <1>1, <1>4, <1>6, <3>1, <3>2 DEF Turn
  <2>5. ASSUME NEW m \in inbox, Receive(w, m)
        PROVE  Turn(w)
    <3>1. PICK pc \in {"recover", "claim", "unconfigured"} :
            worker' = [worker EXCEPT ![w] = [IdleWorker EXCEPT !.run = m.run, !.given = m.token,
                                                               !.retries = m.retries, !.pc = pc]]
      BY <2>5 DEF Receive, Goes
    <3>. DEFINE new == [IdleWorker EXCEPT !.run = m.run, !.given = m.token,
                                          !.retries = m.retries, !.pc = pc]
    <3>2. new \in Worker /\ SoundDelivery(new) /\ new.given = m.token /\ new.token = NoToken
      BY <1>4 DEF IdleWorker, Worker, Message, SoundDelivery, Steps, NoToken
    <3>3. inbox' \subseteq inbox
      BY <2>5 DEF Receive
    <3>. HIDE DEF new
    <3>. QED  BY <1>4, <3>1, <3>2, <3>3 DEF Turn, new
  <2>. QED  BY <2>1, <2>2, <2>3, <2>4, <2>5
<1>. QED  BY <1>1, <1>2, <1>3, <1>7 DEF Quietly

\* The clock, the run's new owner and the operator.
LEMMA OthersKeepActors ==
  ASSUME IInv, NEW r \in Runs,
         \/ ClaimAges(r) \/ ClaimAgesEarly(r) \/ RescuerTakes(r) \/ RescuerFinishes(r)
         \/ OperatorReset(r)
  PROVE  IInv'
<1>1. /\ Tables /\ Actors /\ issued \in Nat /\ rows \in [Runs -> Repo!Row]
      /\ rescuer \in [Runs -> Nat] /\ filed' = filed /\ filed \subseteq Pages \X Runs /\ beat' = beat
  BY DEF IInv, TypeOK, Tables, Repo!TypeOK, ClaimAges, ClaimAgesEarly, RescuerTakes, RescuerFinishes,
         OperatorReset, taskVars
<1>2. faults' \in Failures
  BY FaultsCounted DEF IInv, TypeOK, Failures, ClaimAges, ClaimAgesEarly, RescuerTakes, RescuerFinishes,
         OperatorReset, taskVars
<1>3. Tables' /\ issued' \in Nat /\ issued <= issued'
  <2>1. CASE ClaimAges(r) \/ ClaimAgesEarly(r) \/ RescuerTakes(r)
    BY <1>1, <2>1, MethodsKeepTables DEF ClaimAges, ClaimAgesEarly, RescuerTakes
  <2>2. CASE RescuerFinishes(r)
    <3>1. CompanyOf(r) \in Repo!Companies /\ NoCompany \in Repo!Companies
      BY <1>1, KnownAssumption DEF CompanyOf, Repo!Companies
    <3>. QED  BY <1>1, <2>2, <3>1, MethodsKeepTables DEF RescuerFinishes
  <2>3. CASE OperatorReset(r)
    <3>. DEFINE new == [rows[r] EXCEPT !.run = "queued", !.token = NoToken, !.started = "none", !.task = TRUE]
    <3>1. new \in Repo!Row /\ new.run = "queued"
      BY <1>1 DEF Repo!Row, Repo!Status, Repo!Active, NoToken
    <3>2. rows' = [rows EXCEPT ![r] = new] /\ issued' = issued
      BY <1>1, <2>3 DEF OperatorReset
    <3>. HIDE DEF new
    <3>. QED  BY <1>1, <3>1, <3>2 DEF Tables, Repo!TypeOK
  <2>. QED  BY <2>1, <2>2, <2>3
<1>4. rescuer' \in [Runs -> Nat]
  BY <1>1, <1>3 DEF ClaimAges, ClaimAgesEarly, RescuerTakes, RescuerFinishes,
                    OperatorReset, taskVars, NoToken
<1>5. /\ worker' = worker /\ inbox' \subseteq Message
      /\ \A m \in inbox' : m \in inbox \/ m.token = NoToken
  <2>1. CASE OperatorReset(r)
    BY <1>1, <2>1, RetriesAssumption DEF OperatorReset, Actors, Message, NoToken
  <2>. QED  BY <1>1, <2>1 DEF ClaimAges, ClaimAgesEarly, RescuerTakes, RescuerFinishes,
                              taskVars, Actors
<1>6. \A t \in Spent' : t \in Spent \cup {NoToken}
  BY <1>5 DEF Spent
<1>7. \A t \in Spent : t \in Nat
  BY <1>1 DEF Spent, Actors, Message, Worker
<1>8. TokensIssued'
  BY <1>1, <1>3, <1>5, <1>6, <1>7 DEF Actors, TokensIssued, Worker, NoToken
<1>9. ClaimsApart'
  BY <1>1, <1>5, <1>6 DEF Actors, ClaimsApart
<1>10. Actors'
  BY <1>1, <1>5, <1>8, <1>9 DEF Actors
<1>. QED  BY <1>1, <1>2, <1>3, <1>4, <1>5, <1>10 DEF IInv, TypeOK, Failures, Actors, Tables

\* A redispatch task touches the tables by one method and the other actors not at all.
LEMMA BeatsKeepActors ==
  ASSUME IInv, NEW b \in Beats, BeatStep(b) \/ BeatDies(b)
  PROVE  IInv'
<1>. DEFINE Beat == [todo : SUBSET Runs, run : Runs \cup {NoRun}, token : Nat]
<1>1. /\ Tables /\ Actors /\ issued \in Nat /\ rows \in [Runs -> Repo!Row] /\ beat \in [Beats -> Beat]
      /\ UNCHANGED <<inbox, worker, filed, rescuer>>
  BY DEF IInv, TypeOK, Tables, Repo!TypeOK, BeatStep, BeatLists, BeatReads, BeatRequeues, BeatDies
<1>2. faults' \in Failures
  BY FaultsCounted DEF IInv, TypeOK, Failures, BeatStep, BeatLists, BeatReads, BeatRequeues, BeatDies
<1>3. \A r \in Runs : rows[r].token \in Nat
  BY <1>1 DEF Repo!Row
<1>4. beat' \in [Beats -> Beat]
  <2>1. CASE BeatLists(b)
    <3>1. PICK r \in Stale : beat' = [beat EXCEPT ![b] = [todo |-> Stale \ {r}, run |-> r, token |-> rows[r].token]]
      BY <2>1 DEF BeatLists
    <3>2. Stale \subseteq Runs
      BY DEF Stale
    <3>3. [todo |-> Stale \ {r}, run |-> r, token |-> rows[r].token] \in Beat
      BY <1>3, <3>1, <3>2
    <3>. QED  BY <1>1, <3>1, <3>3
  <2>2. ASSUME NEW r \in Runs, BeatReads(b, r)
        PROVE  beat' \in [Beats -> Beat]
    <3>1. [todo |-> beat[b].todo \ {r}, run |-> IF rows[r].token = NoToken THEN NoRun ELSE r,
           token |-> rows[r].token] \in Beat
      BY <1>1, <1>3
    <3>. QED  BY <1>1, <2>2, <3>1 DEF BeatReads
  <2>3. CASE BeatRequeues(b)
    <3>1. [beat[b] EXCEPT !.run = NoRun, !.token = NoToken] \in Beat
      BY <1>1 DEF NoToken
    <3>2. beat' = [beat EXCEPT ![b] = [beat[b] EXCEPT !.run = NoRun, !.token = NoToken]]
      BY <1>1, <2>3 DEF BeatRequeues
    <3>. QED  BY <1>1, <3>1, <3>2
  <2>4. CASE BeatDies(b)
    <3>1. IdleBeat \in Beat
      BY DEF IdleBeat, NoToken
    <3>. QED  BY <1>1, <2>4, <3>1 DEF BeatDies
  <2>. QED  BY <2>1, <2>2, <2>3, <2>4 DEF BeatStep
<1>5. Tables' /\ issued' = issued
  <2>1. CASE UNCHANGED <<rows, issued>>
    BY <1>1, <2>1 DEF Tables, Repo!TypeOK
  <2>2. CASE BeatRequeues(b)
    <3>1. beat[b].run \in Runs
      BY <1>1, <2>2 DEF BeatRequeues
    <3>. QED  BY <1>1, <2>2, <3>1, MethodsKeepTables DEF BeatRequeues
  <2>. QED  BY <2>1, <2>2 DEF BeatStep, BeatLists, BeatReads, BeatDies
<1>6. Actors'
  BY <1>1, <1>5 DEF Actors, TokensIssued, ClaimsApart, Spent
<1>. QED  BY <1>1, <1>2, <1>4, <1>5, <1>6 DEF IInv, TypeOK, Failures, Actors, Tables

\* A worker's turn keeps everything.
LEMMA QuietlyKeeps ==
  ASSUME IInv, NEW w \in Workers, Quietly(w), UNCHANGED <<beat, rescuer>>
  PROVE  IInv'
<1>1. Actors'
  BY TurnsKeepActors DEF IInv, Quietly, Tables, Repo!TypeOK
<1>. QED  BY <1>1 DEF IInv, Quietly, TypeOK, Failures, Actors, Tables

LEMMA Invariant == Spec => []IInv
<1>1. ASSUME Init PROVE IInv
  <2>1. PICK scenario \in Scenarios, query \in [Runs -> Queries] :
          /\ rows = [r \in Runs |-> IF r \in scenario.runs
                                    THEN [Repo!QueuedPair(query[r], NoCompany) EXCEPT !.task = TRUE]
                                    ELSE Repo!AbsentRow]
          /\ issued = 0 /\ inbox = [run : scenario.runs, token : {NoToken}, retries : {0}]
          /\ worker = [w \in Workers |-> IdleWorker]
          /\ filed = {} /\ beat = [b \in Beats |-> IdleBeat] /\ rescuer = [r \in Runs |-> NoToken]
          /\ faults = [kinds |-> scenario.kinds, left |-> scenario.most]
    BY <1>1 DEF Init
  <2>2. scenario.runs \subseteq Runs /\ scenario.kinds \subseteq FaultKinds /\ scenario.most \in Nat
    BY ScenariosAssumption
  <2>3. Tables
    <3>1. \A r \in Runs : rows[r] \in Repo!Row /\ rows[r].run \in {"queued", "absent"}
                          /\ (rows[r].request = "queued" => rows[r].run = "queued")
      <4>1. /\ Repo!AbsentRow \in Repo!Row /\ Repo!AbsentRow.run = "absent" /\ Repo!AbsentRow.request # "queued"
        BY DEF Repo!AbsentRow, Repo!Row, Repo!Companies, Repo!Status, Repo!Active, Repo!NoToken
      <4>2. \A r \in Runs : [Repo!QueuedPair(query[r], NoCompany) EXCEPT !.task = TRUE] \in Repo!Row
        BY DEF Repo!QueuedPair, Repo!AbsentRow, Repo!Row, Repo!Companies, Repo!Status, Repo!Active, Repo!NoToken
      <4>3. \A r \in Runs : [Repo!QueuedPair(query[r], NoCompany) EXCEPT !.task = TRUE].run = "queued"
        BY DEF Repo!QueuedPair, Repo!AbsentRow
      <4>. QED  BY <2>1, <4>1, <4>2, <4>3
    <3>. QED  BY <2>1, <3>1 DEF Tables, Repo!TypeOK
  <2>4. inbox \subseteq Message /\ \A m \in inbox : m.token = NoToken
    BY <2>1, <2>2, RetriesAssumption DEF Message, NoToken
  <2>5. IdleWorker \in Worker /\ SoundDelivery(IdleWorker) /\ IdleWorker.token = NoToken /\ IdleWorker.given = NoToken
    BY RetriesAssumption DEF IdleWorker, Worker, SoundDelivery, Steps, NoToken
  <2>6. worker \in [Workers -> Worker] /\ \A w \in Workers : worker[w] = IdleWorker
    BY <2>1, <2>5
  <2>7. Actors
    BY <2>1, <2>4, <2>5, <2>6 DEF Actors, TokensIssued, ClaimsApart, Spent, NoToken
  <2>8. /\ beat \in [Beats -> [todo : SUBSET Runs, run : Runs \cup {NoRun}, token : Nat]]
        /\ rescuer \in [Runs -> Nat] /\ faults \in [kinds : SUBSET FaultKinds, left : Nat]
    BY <2>1, <2>2 DEF IdleBeat, NoToken
  <2>. QED  BY <2>1, <2>3, <2>4, <2>6, <2>7, <2>8 DEF IInv, TypeOK, Tables
<1>2. ASSUME IInv, [Next]_vars PROVE IInv'
  <2>1. CASE UNCHANGED vars
    BY <1>2, <2>1 DEF vars, taskVars, IInv, TypeOK, Tables, Repo!TypeOK, Actors, TokensIssued, ClaimsApart, Spent
  <2>2. ASSUME NEW w \in Workers, NEW m \in inbox, Receive(w, m)
        PROVE  IInv'
    BY <1>2, <2>2, SendingIsATurn, QuietlyKeeps
  <2>3. ASSUME NEW w \in Workers, WorkerStep(w)
        PROVE  IInv'
    BY <1>2, <2>3, ComputingIsATurn, CallingIsATurn, SendingIsATurn, QuietlyKeeps DEF WorkerStep
  <2>4. ASSUME NEW b \in Beats, BeatStep(b)
        PROVE  IInv'
    BY <1>2, <2>4, BeatsKeepActors
  <2>5. ASSUME NEW r \in Runs, ClaimAges(r) \/ RescuerTakes(r) \/ RescuerFinishes(r)
        PROVE  IInv'
    BY <1>2, <2>5, OthersKeepActors
  <2>6. CASE FaultStep
    BY <1>2, <2>6, ComputingIsATurn, CallingIsATurn, SendingIsATurn, QuietlyKeeps, BeatsKeepActors,
       OthersKeepActors DEF FaultStep
  <2>. QED  BY <1>2, <2>1, <2>2, <2>3, <2>4, <2>5, <2>6 DEF Next
<1>. QED  BY <1>1, <1>2, PTL DEF Spec

\* The tables, the messages and the workers stay well typed.
THEOREM TypeCorrect == Spec => []TypeOK
  BY Invariant, PTL DEF IInv

-----------------------------------------------------------------------------
\* What a method can do to a running row: only giving its own claim back makes it
\* claimable, and only a method called with its token settles it.
LEMMA MethodsNeedTheToken ==
  ASSUME Tables, NEW r \in Runs, rows[r].run = "running", NEW x
  PROVE  /\ Repo!ClaimQueued(x) \/ Repo!ClaimTurnsStale(x) =>
              ~Repo!Claimable(rows'[r]) /\ rows'[r].run \notin Repo!Terminal
         /\ \A t : Repo!RequeueForRetry(x, t) =>
              /\ Repo!Claimable(rows'[r]) => x = r /\ t = rows[r].token
              /\ rows'[r].run \notin Repo!Terminal
         /\ \A t : Repo!FailRetryExhausted(x, t) =>
              /\ ~Repo!Claimable(rows'[r])
              /\ rows'[r].run \in Repo!Terminal => x = r /\ t = rows[r].token
         /\ \A t, c : \A s \in Repo!Terminal : Repo!Finish(x, t, s, c) =>
              /\ ~Repo!Claimable(rows'[r])
              /\ rows'[r].run \in Repo!Terminal => x = r /\ t = rows[r].token
<1>1. rows \in [Runs -> Repo!Row] /\ rows[r] \in Repo!Row /\ rows[r].request # "queued"
  BY DEF Tables, Repo!TypeOK
<1>2. \A row : rows' = [rows EXCEPT ![x] = row] => rows'[r] = IF x = r THEN row ELSE rows[r]
  BY <1>1
<1>3. ~Repo!Claimable(rows[r]) /\ rows[r].run \notin Repo!Terminal
  BY DEF Repo!Claimable, Repo!Terminal
<1>4. Repo!ClaimQueued(x) => x # r
  BY DEF Repo!ClaimQueued, Repo!Claimable
<1>5. Repo!ClaimTurnsStale(x) => rows'[r].run = "running"
  BY <1>1 DEF Repo!ClaimTurnsStale, Repo!Row
<1>6. \A t : ~Repo!InvalidPair(rows[r], t)
  BY <1>1 DEF Repo!InvalidPair
<1>7. \A t : /\ ~Repo!Owned(rows[r], t) => Repo!RetryQueued(rows[r], t) = rows[r]
             /\ Repo!RetryQueued(rows[r], t).run \notin Repo!Terminal
  BY <1>1, <1>3, <1>6 DEF Repo!RetryQueued, Repo!FailedIfInvalid, Repo!Terminal, Repo!Row
<1>8. \A t : /\ ~Repo!Owned(rows[r], t) => Repo!RetryExhausted(rows[r], t) = rows[r]
             /\ ~Repo!Claimable(Repo!RetryExhausted(rows[r], t))
  BY <1>1, <1>3, <1>6 DEF Repo!RetryExhausted, Repo!FailedIfInvalid, Repo!BothSettled, Repo!Claimable, Repo!Row
<1>9. \A t, c : \A s \in Repo!Terminal :
        /\ ~Repo!Owned(rows[r], t) => Repo!Finished(rows[r], t, s, c) = rows[r]
        /\ ~Repo!Claimable(Repo!Finished(rows[r], t, s, c))
  <2>. TAKE t, c
  <2>. TAKE s \in Repo!Terminal
  <2>1. s # "queued"
    BY DEF Repo!Terminal
  <2>2. [[rows[r] EXCEPT !.run = s, !.request = s] EXCEPT !.company = c].run = s
    BY <1>1 DEF Repo!Row
  <2>. QED  BY <1>3, <2>1, <2>2 DEF Repo!Finished, Repo!BothSettled, Repo!Claimable
<1>10. \A t : Repo!Owned(rows[r], t) => t = rows[r].token
  BY DEF Repo!Owned
<1>11. \A t : Repo!RequeueForRetry(x, t) =>
         rows'[r] = IF x = r THEN Repo!RetryQueued(rows[r], t) ELSE rows[r]
  BY <1>1 DEF Repo!RequeueForRetry
<1>12. \A t : Repo!FailRetryExhausted(x, t) =>
         rows'[r] = IF x = r THEN Repo!RetryExhausted(rows[r], t) ELSE rows[r]
  BY <1>1 DEF Repo!FailRetryExhausted
<1>13. \A t, c : \A s \in Repo!Terminal : Repo!Finish(x, t, s, c) =>
         rows'[r] = IF x = r THEN Repo!Finished(rows[r], t, s, c) ELSE rows[r]
  BY <1>1 DEF Repo!Finish
<1>14. Repo!ClaimQueued(x) => rows'[r] = rows[r]
  BY <1>1, <1>4 DEF Repo!ClaimQueued
<1>15. Repo!ClaimQueued(x) \/ Repo!ClaimTurnsStale(x) =>
         ~Repo!Claimable(rows'[r]) /\ rows'[r].run \notin Repo!Terminal
  BY <1>3, <1>5, <1>14 DEF Repo!Claimable, Repo!Terminal
<1>16. \A t : Repo!RequeueForRetry(x, t) =>
         /\ Repo!Claimable(rows'[r]) => x = r /\ t = rows[r].token
         /\ rows'[r].run \notin Repo!Terminal
  BY <1>3, <1>7, <1>10, <1>11
<1>17. \A t : Repo!FailRetryExhausted(x, t) =>
         /\ ~Repo!Claimable(rows'[r])
         /\ rows'[r].run \in Repo!Terminal => x = r /\ t = rows[r].token
  BY <1>3, <1>8, <1>10, <1>12
<1>18. \A t, c : \A s \in Repo!Terminal : Repo!Finish(x, t, s, c) =>
         /\ ~Repo!Claimable(rows'[r])
         /\ rows'[r].run \in Repo!Terminal => x = r /\ t = rows[r].token
  BY <1>3, <1>9, <1>10, <1>13
<1>. QED  BY <1>15, <1>16, <1>17, <1>18

\* One step, seen from a running row: it becomes claimable only by giving its own
\* claim back, and is settled only by somebody who holds its claim.
LEMMA StepsNeedTheToken ==
  ASSUME IInv, [Next]_vars, NEW r \in Runs, rows[r].run = "running"
  PROVE  /\ Repo!Claimable(rows'[r]) =>
              \/ \E b \in Beats : BeatTakes(b, r)
              \/ \E w \in Workers : \/ worker[w].given = rows[r].token
                                    \/ worker[w].pc = "requeue" /\ worker[w].token = rows[r].token
         /\ rows'[r].run \in Repo!Terminal =>
              \/ rescuer[r] = rows[r].token
              \/ \E w \in Workers : worker[w].run = r /\ worker[w].token = rows[r].token
<1>. DEFINE Frees == Repo!Claimable(rows'[r])
            Settles == rows'[r].run \in Repo!Terminal
<1>1. Tables /\ rows \in [Runs -> Repo!Row] /\ rows[r].request # "queued"
  BY DEF IInv, Tables, Repo!TypeOK
<1>2. UNCHANGED rows => ~Frees /\ ~Settles
  BY DEF Repo!Claimable, Repo!Terminal
<1>. USE <1>1, MethodsNeedTheToken
<1>3. ASSUME NEW w \in Workers,
             \/ ClaimRefused(w) \/ Collect(w) \/ TokenUnknown(w) \/ PipelineRaises(w) \/ RequeueRaises(w)
             \/ Resend(w) \/ WorkerDies(w) \/ Redeliver(w)
             \/ \E m \in inbox : Receive(w, m)
             \/ \E page \in Pages : \/ SkipPage(w, page) \/ SavePage(w, page)
                                    \/ PageConflict(w, page) \/ SaveRaises(w, page)
      PROVE  UNCHANGED rows
  BY <1>3 DEF ClaimRefused, Collect, TokenUnknown, PipelineRaises, RequeueRaises, Resend, WorkerDies, Redeliver,
              Receive, SkipPage, SavePage, PageConflict, SaveRaises
<1>4. ASSUME NEW w \in Workers, Claim(w) \/ ClaimRaises(w)
      PROVE  ~Frees /\ ~Settles
  BY <1>2, <1>4 DEF Claim, ClaimRaises
<1>5. ASSUME NEW w \in Workers, Recover(w) \/ RecoverRaises(w)
      PROVE  (Frees => worker[w].given = rows[r].token) /\ ~Settles
  BY <1>2, <1>5 DEF Recover, RecoverRaises
<1>6. ASSUME NEW w \in Workers, Requeue(w)
      PROVE  (Frees => worker[w].pc = "requeue" /\ worker[w].token = rows[r].token) /\ ~Settles
  BY <1>6 DEF Requeue
<1>7. ASSUME NEW w \in Workers, FailExhausted(w)
      PROVE  ~Frees /\ (Settles => worker[w].run = r /\ worker[w].token = rows[r].token)
  BY <1>7 DEF FailExhausted
<1>8. ASSUME NEW w \in Workers, Decline(w) \/ Finish(w) \/ FinishRaises(w)
      PROVE  ~Frees /\ (Settles => worker[w].run = r /\ worker[w].token = rows[r].token)
  <2>1. worker[w] \in Worker /\ SoundDelivery(worker[w])
    BY DEF IInv, Actors
  <2>2. \A ending \in Ending(worker[w]) : ending[1] \in Repo!Terminal
    BY <2>1, EndingsTyped
  <2>3. "failed" \in Repo!Terminal
    BY DEF Repo!Terminal
  <2>. QED  BY <1>2, <1>8, <2>2, <2>3 DEF Decline, Finish, FinishRaises
<1>9. ASSUME NEW x \in Runs, ClaimAges(x) \/ ClaimAgesEarly(x) \/ RescuerTakes(x)
      PROVE  ~Frees /\ ~Settles
  BY <1>9 DEF ClaimAges, ClaimAgesEarly, RescuerTakes
<1>10. ASSUME NEW b \in Beats, BeatStep(b) \/ BeatDies(b)
       PROVE  (Frees => BeatTakes(b, r)) /\ ~Settles
  <2>1. CASE UNCHANGED rows
    BY <1>2, <2>1
  <2>2. CASE BeatRequeues(b)
    <3>1. (Frees => beat[b].run = r /\ beat[b].token = rows[r].token) /\ ~Settles
      BY <2>2 DEF BeatRequeues
    <3>2. beat'[b].run = NoRun
      BY <2>2 DEF BeatRequeues, IInv, TypeOK
    <3>. QED  BY <3>1, <3>2 DEF BeatTakes
  <2>. QED  BY <1>10, <2>1, <2>2 DEF BeatStep, BeatLists, BeatReads, BeatDies
<1>11. ASSUME NEW x \in Runs, RescuerFinishes(x)
       PROVE  ~Frees /\ (Settles => rescuer[r] = rows[r].token)
  BY <1>11 DEF RescuerFinishes
<1>12. ASSUME NEW x \in Runs, OperatorReset(x)
       PROVE  ~Frees /\ ~Settles
  BY <1>2, <1>12 DEF OperatorReset, Repo!Row, Repo!Claimable, Repo!Terminal
<1>13. CASE UNCHANGED vars
  BY <1>2, <1>13 DEF vars
<1>14. CASE Next
  BY <1>2, <1>3, <1>4, <1>5, <1>6, <1>7, <1>8, <1>9, <1>10, <1>11, <1>12, <1>14
  DEF Next, WorkerStep, FaultStep
<1>. QED  BY <1>13, <1>14

\* No delivery takes the claim that a live delivery works under, however many
\* deliveries of however many retries there are: a token that a message carries
\* was let go of by its owner before the message was sent.  Only a redispatch task
\* that has read the claim gives it back.
THEOREM RetriesSpare == Spec => RetriesSpareLiveClaims
<1>1. ASSUME IInv, [Next]_vars, NEW r \in Runs, NEW w \in Workers,
             worker[w].pc \in Working, rows[r].run = "running",
             rows[r].token = worker[w].token, rows[r].started = "recent"
      PROVE  ~Repo!Claimable(rows'[r]) \/ \E b \in Beats : BeatTakes(b, r)
  <2>1. worker[w].token # NoToken
    BY <1>1 DEF IInv, Tables
  <2>2. \A v \in Workers : worker[v].given # worker[w].token
    BY <1>1, <2>1 DEF IInv, Actors, ClaimsApart, Spent
  <2>3. \A v \in Workers : worker[v].token = worker[w].token => v = w
    BY <1>1, <2>1 DEF IInv, Actors, ClaimsApart
  <2>. QED  BY <1>1, <2>2, <2>3, StepsNeedTheToken DEF Working
<1>2. ASSUME IInv, [Next]_vars
      PROVE  [\A r \in Runs, w \in Workers :
                /\ worker[w].run = r /\ worker[w].pc \in Working
                /\ rows[r].run = "running" /\ rows[r].token = worker[w].token
                /\ rows[r].started = "recent"
                => ~Repo!Claimable(rows'[r]) \/ \E b \in Beats : BeatTakes(b, r)]_vars
  BY <1>1, <1>2
<1>. QED  BY <1>2, Invariant, PTL DEF Spec, RetriesSpareLiveClaims

\* Whatever fails, a running run is settled by the delivery, or the entry
\* verification task, whose claim token is on its row.
THEOREM OwnersSettle == Spec => OwnerSettles
<1>1. ASSUME IInv, [Next]_vars PROVE [\A r \in Runs :
       rows[r].run = "running" /\ rows'[r].run \in Repo!Terminal =>
         \/ rescuer[r] = rows[r].token
         \/ \E w \in Workers : worker[w].run = r /\ worker[w].token = rows[r].token]_vars
  BY <1>1, StepsNeedTheToken
<1>. QED  BY <1>1, Invariant, PTL DEF Spec, OwnerSettles

-----------------------------------------------------------------------------
(* CollectionPipeline.  What a run ends with is what its orchestrator k     *)
(* knows on the way (Informed, Asking, Ended); what the searches of all     *)
(* runs do to a provider is kept by its gate (Gates).                       *)
(*                                                                          *)
(* The invariant, of a run r whose orchestrator is k and                    *)
(* whose searches under way are g, where the providers e are enabled.       *)

\* What is left of the providers that a name is searched with, and when
\* Tianyancha is not among them any more.
Orders == {<<>>, <<"serper">>, <<"zhihu">>, <<"tianyancha">>, <<"tianyancha", "zhihu">>, <<"ymicp">>,
           <<"ymicp", "zhihu">>, <<"ymicp", "tianyancha">>, <<"ymicp", "tianyancha", "zhihu">>}
LateOrders == {<<>>, <<"serper">>, <<"zhihu">>, <<"ymicp">>, <<"ymicp", "zhihu">>}

Outcome == [docs : SUBSET (AllDocs \cup Urls), issue : Issues]
Orchestrator ==
  [pc : {"discovery", "queries", "pages", "persist", "done"}, todo : Orders,
   left : SUBSET (AllQueries \cup Urls), outcomes : [Providers -> Outcome],
   entries : SUBSET AllDocs, page : SUBSET Urls, saved : SUBSET (Urls \X Companies),
   blocks : [Platforms -> 0 .. BlockThreshold],
   status : {"absent", "running", "succeeded", "partial", "failed", "raised", "retry"},
   told : BOOLEAN, heard : SUBSET (AllDocs \cup Urls), asked : SUBSET Urls, spent : 0 .. MaxAttempts]
Searches == UNION {[D -> Calls] : D \in SUBSET Ids}

\* What was told and heard is what the outcomes say.
Informed(r, k) ==
  /\ k.told <=> \E p \in Providers : k.outcomes[p].issue # "none"
  /\ k.heard = UNION {k.outcomes[p].docs : p \in Providers}
  /\ k.outcomes["ats"].docs \subseteq Urls
  /\ \A p \in Providers \ {"ats"} : k.outcomes[p].docs \subseteq AllDocs
  /\ k.entries \subseteq UNION Finds[r]

\* The searches of each stage.
Staged(e, k, g) ==
  /\ k.pc = "discovery" => DOMAIN g \subseteq Range(Discovery) \X {"name"}
  /\ k.pc = "queries" => k.left \subseteq AllQueries /\ DOMAIN g \subseteq {"serper", "zhihu"} \X AllQueries
  /\ k.pc = "pages" => "ats" \in e \/ DOMAIN g = {}
  /\ k.pc = "pages" => DOMAIN g \subseteq {"ats"} \X Urls /\ \A c, d \in DOMAIN g : c = d
  /\ k.pc \in {"persist", "done"} => DOMAIN g = {}
  /\ \A c \in DOMAIN g : c[1] = "ats" /\ g[c].st \in {"calling", "connected"} => c[2] \in k.asked

Careers(k) ==
  {d.url : d \in {e \in k.entries : Confidence(e) >= 60} \cup
                 {e \in (UNION {k.outcomes[p].docs : p \in Providers \ {"ats"}}) \ {Registration} : e.mention \/ e.title}}

\* The pages still to be asked for.
Pending(k, g) == k.left \cup {c[2] : c \in DOMAIN g}

\* Every page that a run must ask for has been asked for or is still to be.
Asking(e, k, g) ==
  /\ k.pc \in {"discovery", "queries"} => k.asked = {} /\ k.saved = {}
  /\ k.asked \subseteq Careers(k)
  /\ k.pc \in {"pages", "persist"} => Pending(k, g) \subseteq Careers(k)
  /\ k.pc \in {"pages", "persist"} /\ "ats" \in e => Careers(k) \subseteq k.asked \cup Pending(k, g)

Ended(e, k) ==
  /\ k.pc = "done" <=> k.status # "running"
  /\ k.status = "succeeded" => k.saved # {} /\ ~k.told
  /\ k.status = "partial" => k.saved # {} /\ k.told
  /\ k.status = "failed" => k.saved = {}
  /\ k.status \in {"succeeded", "partial", "failed"} /\ "ats" \in e => Careers(k) \subseteq k.asked

\* The command of Tianyancha was run for its one search as often as it was tried.
T == <<"tianyancha", "name">>
Spending(k, g) ==
  /\ k.todo \notin LateOrders => k.spent = 0 /\ T \notin DOMAIN g
  /\ T \in DOMAIN g => k.spent = g[T].tries /\ k.spent < MaxAttempts

Sound(e, r, k, g) ==
  /\ k \in Orchestrator /\ g \in Searches
  /\ Informed(r, k) /\ Staged(e, k, g) /\ Asking(e, k, g) /\ Ended(e, k) /\ Spending(k, g)

Gates ==
  /\ gates \in [Providers -> Nat]
  /\ \A p \in Providers : \A x \in Inside(p) :
       LET w == calls[x[1]][x[2]].wait IN w > 0 => w + Interval <= gates[p]
  /\ StartsKeepApart
  /\ \A p \in Providers : IsFiniteSet(Inside(p)) /\ Cardinality(Inside(p)) <= MaxConcurrency

PipelineInv ==
  /\ enabled \in {d.enabled : d \in Deployments}
  /\ run = [r \in Collected |-> run[r]] /\ calls = [r \in Collected |-> calls[r]]
  /\ \A r \in Collected : Sound(enabled, r, run[r], calls[r])
  /\ Gates

-----------------------------------------------------------------------------
(* The gates.                                                               *)

InGate == {"granted", "calling", "connected"}
Wait(x) == calls[x[1]][x[2]].wait

\* While no search comes into a gate and none that is in it sleeps anew, the gates
\* stay as they were.
LEMMA GatesKept ==
  ASSUME Gates, UNCHANGED gates,
         \A r \in Collected : \A c \in DOMAIN calls'[r] : calls'[r][c].st \in InGate =>
           c \in DOMAIN calls[r] /\ calls[r][c].st \in InGate /\ calls'[r][c].wait = calls[r][c].wait
  PROVE  Gates'
<1>1. ASSUME NEW p PROVE Inside(p)' \subseteq Inside(p) /\ \A x \in Inside(p)' : calls'[x[1]][x[2]].wait = calls[x[1]][x[2]].wait
  BY DEF Inside, InGate
<1>2. \A p \in Providers : \A x \in Inside(p)' :
        calls'[x[1]][x[2]].wait > 0 => calls'[x[1]][x[2]].wait + Interval <= gates'[p]
  BY <1>1 DEF Gates
<1>3. StartsKeepApart'
  BY <1>1 DEF Gates, StartsKeepApart
<1>4. ASSUME NEW p \in Providers PROVE IsFiniteSet(Inside(p)') /\ Cardinality(Inside(p)') <= MaxConcurrency
  <2>1. IsFiniteSet(Inside(p)) /\ Cardinality(Inside(p)) <= MaxConcurrency
    BY DEF Gates
  <2>2. IsFiniteSet(Inside(p)') /\ Cardinality(Inside(p)') <= Cardinality(Inside(p))
    BY <1>1, <2>1, FS_Subset
  <2>3. Cardinality(Inside(p)) \in Nat /\ Cardinality(Inside(p)') \in Nat
    BY <2>1, <2>2, FS_CardinalityType
  <2>. QED  BY <2>1, <2>2, <2>3, LimitsAssumption
<1>. QED  BY <1>2, <1>3, <1>4 DEF Gates

LEMMA SearchTypes ==
  ASSUME PipelineInv, NEW r \in Collected, NEW c \in DOMAIN calls[r]
  PROVE  /\ calls[r][c] \in Calls /\ c \in Ids /\ c[1] \in Providers
         /\ calls[r][c].wait \in Nat /\ calls[r][c].tries \in 0 .. MaxAttempts
<1>1. PICK D \in SUBSET Ids : calls[r] \in [D -> Calls]
  BY DEF PipelineInv, Sound, Searches
<1>2. calls[r][c] \in Calls /\ c \in Ids
  BY <1>1
<1>3. c[1] \in Range(Discovery) \cup {"serper", "zhihu", "ats"}
  BY <1>2 DEF Ids
<1>4. Discovery[3] = "zhihu" /\ Discovery[4] = "serper" /\ DOMAIN Discovery = 1 .. 4
  BY DEF Discovery
<1>5. {"serper", "zhihu"} \subseteq Range(Discovery)
  BY <1>4 DEF Range
<1>. QED  BY <1>2, <1>3, <1>5 DEF Providers, Calls

LEMMA TickKeepsGates ==
  ASSUME PipelineInv, Tick
  PROVE  Gates'
<1>1. /\ gates' = [p \in Providers |-> Earlier(gates[p])]
      /\ \A r \in Collected : /\ DOMAIN calls'[r] = DOMAIN calls[r]
                              /\ \A c \in DOMAIN calls[r] : /\ calls'[r][c].st = calls[r][c].st
                                                            /\ calls'[r][c].wait = Earlier(calls[r][c].wait)
  <2>1. ASSUME NEW r \in Collected, NEW c \in DOMAIN calls[r]
        PROVE  [calls[r][c] EXCEPT !.wait = Earlier(@)].st = calls[r][c].st
               /\ [calls[r][c] EXCEPT !.wait = Earlier(@)].wait = Earlier(calls[r][c].wait)
    BY <2>1, SearchTypes DEF Calls
  <2>. QED  BY <2>1 DEF Tick
<1>2. \A p : Inside(p)' = Inside(p)
  BY <1>1 DEF Inside
<1>3. gates \in [Providers -> Nat] /\ gates' \in [Providers -> Nat]
  BY <1>1 DEF PipelineInv, Gates, Earlier
<1>4. ASSUME NEW p \in Providers, NEW x \in Inside(p)
      PROVE  /\ calls[x[1]][x[2]].wait \in Nat /\ calls'[x[1]][x[2]].wait = Earlier(calls[x[1]][x[2]].wait)
             /\ calls[x[1]][x[2]].wait > 0 => calls[x[1]][x[2]].wait + Interval <= gates[p]
  <2>1. x[1] \in Collected /\ x[2] \in DOMAIN calls[x[1]]
    BY <1>4 DEF Inside
  <2>. QED  BY <1>1, <1>4, <2>1, SearchTypes DEF PipelineInv, Gates
<1>5. ASSUME NEW p \in Providers, NEW x \in Inside(p)', calls'[x[1]][x[2]].wait > 0
      PROVE  calls'[x[1]][x[2]].wait + Interval <= gates'[p]
  BY <1>1, <1>2, <1>3, <1>4, <1>5, LimitsAssumption DEF Earlier
<1>6. StartsKeepApart'
  <2>. SUFFICES ASSUME NEW p \in Providers, NEW x \in Inside(p)', NEW y \in Inside(p)', x # y,
                       calls'[x[1]][x[2]].wait > 0, calls'[y[1]][y[2]].wait > 0
                PROVE  \/ calls'[x[1]][x[2]].wait - calls'[y[1]][y[2]].wait >= Interval
                       \/ calls'[y[1]][y[2]].wait - calls'[x[1]][x[2]].wait >= Interval
    BY DEF StartsKeepApart
  <2>. DEFINE v == calls[x[1]][x[2]].wait
              w == calls[y[1]][y[2]].wait
  <2>1. v \in Nat /\ w \in Nat /\ calls'[x[1]][x[2]].wait = Earlier(v) /\ calls'[y[1]][y[2]].wait = Earlier(w)
    BY <1>2, <1>4
  <2>2. v > 0 /\ w > 0 => v - w >= Interval \/ w - v >= Interval
    BY <1>2 DEF PipelineInv, Gates, StartsKeepApart
  <2>. HIDE DEF v, w
  <2>. QED  BY <2>1, <2>2, LimitsAssumption DEF Earlier
<1>7. \A p \in Providers : IsFiniteSet(Inside(p)') /\ Cardinality(Inside(p)') <= MaxConcurrency
  BY <1>2 DEF PipelineInv, Gates
<1>. QED  BY <1>3, <1>5, <1>6, <1>7 DEF Gates

LEMMA AcquireKeepsGates ==
  ASSUME PipelineInv, NEW r \in Collected, NEW c \in DOMAIN calls[r], Acquire(r, c)
  PROVE  Gates'
<1>. DEFINE q == c[1]
            z == <<r, c>>
            new == [calls[r][c] EXCEPT !.st = "granted", !.wait = gates[q]]
<1>1. c \in Ids /\ q \in Providers /\ calls[r][c] \in Calls /\ gates \in [Providers -> Nat]
  BY SearchTypes DEF PipelineInv, Gates
<1>2. new.st = "granted" /\ new.wait = gates[q]
  BY <1>1 DEF Calls
<1>3. calls' = [calls EXCEPT ![r] = [i \in DOMAIN @ \cup {c} |-> IF i = c THEN new ELSE @[i]]]
  BY DEF Acquire, Set
<1>. HIDE DEF new
<1>4. /\ DOMAIN calls'[r] = DOMAIN calls[r] /\ calls'[r][c] = new
      /\ \A i \in DOMAIN calls[r] : i # c => calls'[r][i] = calls[r][i]
      /\ \A t \in Collected : t # r => calls'[t] = calls[t]
  BY <1>3 DEF PipelineInv
<1>5. calls[r][c].st = "blocked" /\ SlotFree(r, q) /\ gates' = [gates EXCEPT ![q] = @ + Interval]
  BY DEF Acquire, Reserved
<1>6. ASSUME NEW p \in Providers
      PROVE  /\ Inside(p)' = IF p = q THEN Inside(p) \cup {z} ELSE Inside(p)
             /\ z \notin Inside(p)
             /\ \A x \in Inside(p) : calls'[x[1]][x[2]].wait = calls[x[1]][x[2]].wait /\ calls[x[1]][x[2]].wait \in Nat
  <2>1. z \notin Inside(p)
    BY <1>5 DEF Inside
  <2>2. ASSUME NEW x \in Inside(p)
        PROVE  x \in Inside(p)' /\ calls'[x[1]][x[2]] = calls[x[1]][x[2]] /\ calls[x[1]][x[2]].wait \in Nat
    <3>1. PICK t \in Collected, i \in Ids : x = <<t, i>> /\ i[1] = p /\ i \in DOMAIN calls[t] /\ calls[t][i].st \in InGate
      BY <2>2 DEF Inside, InGate
    <3>2. calls'[t][i] = calls[t][i] /\ i \in DOMAIN calls'[t]
      BY <1>4, <2>1, <2>2, <3>1
    <3>3. calls[t][i].wait \in Nat
      BY <3>1, SearchTypes
    <3>. QED  BY <3>1, <3>2, <3>3 DEF Inside, InGate
  <2>3. ASSUME NEW x \in Inside(p)' PROVE x \in Inside(p) \/ (x = z /\ p = q)
    <3>1. PICK t \in Collected, i \in Ids : x = <<t, i>> /\ i[1] = p /\ i \in DOMAIN calls'[t] /\ calls'[t][i].st \in InGate
      BY <2>3 DEF Inside, InGate
    <3>2. CASE t = r /\ i = c
      BY <3>1, <3>2
    <3>3. CASE ~(t = r /\ i = c)
      BY <1>4, <3>1, <3>3 DEF Inside, InGate
    <3>. QED  BY <3>2, <3>3
  <2>4. z \in Inside(q)'
    BY <1>1, <1>2, <1>4 DEF Inside
  <2>. QED  BY <2>1, <2>2, <2>3, <2>4
<1>7. calls'[z[1]][z[2]].wait = gates[q] /\ gates[q] \in Nat /\ gates' \in [Providers -> Nat] /\ Interval \in Nat
      /\ gates'[q] = gates[q] + Interval
  BY <1>1, <1>2, <1>4, <1>5, LimitsAssumption
<1>. HIDE DEF q, z
<1>8. ASSUME NEW p \in Providers, NEW x \in Inside(p), calls[x[1]][x[2]].wait > 0
      PROVE  calls[x[1]][x[2]].wait + Interval <= gates[p]
  BY <1>8 DEF PipelineInv, Gates
<1>9. ASSUME NEW p \in Providers, NEW x \in Inside(p)', calls'[x[1]][x[2]].wait > 0
      PROVE  calls'[x[1]][x[2]].wait + Interval <= gates'[p]
  <2>1. CASE p = q /\ x = z
    BY <1>7, <2>1
  <2>2. CASE ~(p = q /\ x = z)
    <3>1. x \in Inside(p)
      BY <1>6, <1>9, <2>2
    <3>2. calls'[x[1]][x[2]].wait = calls[x[1]][x[2]].wait /\ calls[x[1]][x[2]].wait \in Nat
      BY <1>6, <3>1
    <3>3. calls[x[1]][x[2]].wait + Interval <= gates[p]
      BY <1>8, <1>9, <3>1, <3>2
    <3>4. gates'[p] = gates[p] \/ gates'[p] = gates[p] + Interval
      BY <1>1, <1>5
    <3>5. gates[p] \in Nat
      BY <1>1
    <3>. QED  BY <1>7, <3>2, <3>3, <3>4, <3>5
  <2>. QED  BY <2>1, <2>2
<1>10. ASSUME NEW p \in Providers, NEW x \in Inside(p)', NEW y \in Inside(p)', x # y,
              calls'[x[1]][x[2]].wait > 0, calls'[y[1]][y[2]].wait > 0
       PROVE  \/ calls'[x[1]][x[2]].wait - calls'[y[1]][y[2]].wait >= Interval
              \/ calls'[y[1]][y[2]].wait - calls'[x[1]][x[2]].wait >= Interval
  <2>1. ASSUME NEW u \in Inside(p), calls'[u[1]][u[2]].wait > 0
        PROVE  calls'[u[1]][u[2]].wait \in Nat /\ calls'[u[1]][u[2]].wait + Interval <= gates[p]
    BY <1>6, <1>8, <2>1
  <2>2. CASE x \in Inside(p) /\ y \in Inside(p)
    <3>1. calls'[x[1]][x[2]].wait = calls[x[1]][x[2]].wait /\ calls'[y[1]][y[2]].wait = calls[y[1]][y[2]].wait
      BY <1>6, <2>2
    <3>. QED  BY <1>10, <2>2, <3>1 DEF PipelineInv, Gates, StartsKeepApart
  <2>3. CASE x = z /\ p = q /\ y \in Inside(p)
    BY <1>7, <1>10, <2>1, <2>3
  <2>4. CASE y = z /\ p = q /\ x \in Inside(p)
    BY <1>7, <1>10, <2>1, <2>4
  <2>. QED  BY <1>6, <1>10, <2>2, <2>3, <2>4
<1>11. StartsKeepApart'
  BY <1>10 DEF StartsKeepApart
<1>12. ASSUME NEW p \in Providers PROVE IsFiniteSet(Inside(p)') /\ Cardinality(Inside(p)') <= MaxConcurrency
  <2>1. IsFiniteSet(Inside(p)) /\ Cardinality(Inside(p)) <= MaxConcurrency /\ Cardinality(Inside(p)) \in Nat
    BY FS_CardinalityType DEF PipelineInv, Gates
  <2>2. CASE p = q
    <3>1. Cardinality(Inside(p)) < MaxConcurrency
      BY <1>5, <2>2 DEF SlotFree
    <3>2. Inside(p)' = Inside(p) \cup {z} /\ z \notin Inside(p)
      BY <1>6, <2>2
    <3>3. IsFiniteSet(Inside(p)') /\ Cardinality(Inside(p)') = Cardinality(Inside(p)) + 1
      BY <2>1, <3>2, FS_AddElement
    <3>. QED  BY <2>1, <3>1, <3>3, LimitsAssumption
  <2>3. CASE p # q
    BY <1>6, <2>1, <2>3
  <2>. QED  BY <2>2, <2>3
<1>. QED  BY <1>7, <1>9, <1>11, <1>12 DEF Gates

-----------------------------------------------------------------------------
(* The orchestrators.                                                       *)

\* A document counts as a find of a site: query if it names the company in full.
LEMMA HighConfidenceNamesInFull ==
  ASSUME NEW d \in Doc
  PROVE  Confidence(d) >= 60 <=> d.ats /\ d.mention /\ d.similarity = 100
<1>1. d.ats \in BOOLEAN /\ d.mention \in BOOLEAN /\ d.title \in BOOLEAN /\ d.similarity \in {0, 78, 92, 100}
  BY DEF Doc
<1>2. CASE d.similarity = 100
  BY <1>1, <1>2 DEF Confidence, Score
<1>3. CASE d.similarity = 92
  BY <1>1, <1>3 DEF Confidence, Score
<1>4. CASE d.similarity = 78
  BY <1>1, <1>4 DEF Confidence, Score
<1>5. CASE d.similarity = 0
  BY <1>1, <1>5 DEF Confidence, Score
<1>. QED  BY <1>1, <1>2, <1>3, <1>4, <1>5

LEMMA ProvidersAre == Providers = {"ymicp", "tianyancha", "zhihu", "serper", "ats"}
<1>1. DOMAIN Discovery = 1 .. 4 /\ Discovery[1] = "ymicp" /\ Discovery[2] = "tianyancha"
      /\ Discovery[3] = "zhihu" /\ Discovery[4] = "serper"
  BY DEF Discovery
<1>2. Range(Discovery) = {"ymicp", "tianyancha", "zhihu", "serper"}
  <2>1. \A i \in 1 .. 4 : i = 1 \/ i = 2 \/ i = 3 \/ i = 4
    OBVIOUS
  <2>. QED  BY <1>1, <2>1 DEF Range
<1>. QED  BY <1>2 DEF Providers

\* An answer of provider p becomes part of its outcome.
Hears(k, p, answer) ==
  [k EXCEPT !.outcomes[p] = Merged(@, answer), !.told = @ \/ answer.issue # "none",
            !.heard = @ \cup answer.docs]

LEMMA Hearing ==
  ASSUME NEW r, NEW k \in Orchestrator, Informed(r, k), NEW p \in Providers, NEW answer \in Outcome,
         answer.docs \subseteq IF p = "ats" THEN Urls ELSE AllDocs,
         NEW m, m = Hears(k, p, answer)
  PROVE  /\ m \in Orchestrator /\ Informed(r, m)
         /\ m.pc = k.pc /\ m.todo = k.todo /\ m.left = k.left /\ m.entries = k.entries /\ m.page = k.page
         /\ m.saved = k.saved /\ m.blocks = k.blocks /\ m.status = k.status /\ m.asked = k.asked
         /\ m.spent = k.spent
         /\ p = "ats" \/ answer.docs = {} => Careers(m) = Careers(k)
<1>. DEFINE old == k.outcomes[p]
            new == Merged(old, answer)
<1>1. k.outcomes \in [Providers -> Outcome] /\ k.told \in BOOLEAN /\ k.heard \in SUBSET (AllDocs \cup Urls)
  BY DEF Orchestrator
<1>2. old \in Outcome
  BY <1>1
<1>3. new \in Outcome /\ new.docs = old.docs \cup answer.docs
      /\ (new.issue # "none" <=> old.issue # "none" \/ answer.issue # "none")
  BY <1>2 DEF Merged, Outcome, Issues
<1>4. m = [k EXCEPT !.outcomes = [k.outcomes EXCEPT ![p] = new],
                    !.told = k.told \/ answer.issue # "none", !.heard = k.heard \cup answer.docs]
  BY DEF Hears
<1>. HIDE DEF new
<1>5. [k.outcomes EXCEPT ![p] = new] \in [Providers -> Outcome]
  BY <1>1, <1>3
<1>6. (k.told \/ answer.issue # "none") \in BOOLEAN /\ k.heard \cup answer.docs \in SUBSET (AllDocs \cup Urls)
  BY <1>1 DEF Outcome
<1>7. /\ m \in Orchestrator
      /\ m.outcomes = [k.outcomes EXCEPT ![p] = new]
      /\ m.told = (k.told \/ answer.issue # "none") /\ m.heard = k.heard \cup answer.docs
      /\ m.pc = k.pc /\ m.todo = k.todo /\ m.left = k.left /\ m.entries = k.entries /\ m.page = k.page
      /\ m.saved = k.saved /\ m.blocks = k.blocks /\ m.status = k.status /\ m.asked = k.asked
      /\ m.spent = k.spent
  BY <1>4, <1>5, <1>6 DEF Orchestrator
<1>8. m.outcomes[p] = new /\ \A q \in Providers : q # p => m.outcomes[q] = k.outcomes[q]
  BY <1>1, <1>7
<1>9. Informed(r, m)
  <2>1. m.told <=> \E q \in Providers : m.outcomes[q].issue # "none"
    <3>1. \A q \in Providers : m.outcomes[q].issue # "none" <=>
             k.outcomes[q].issue # "none" \/ (q = p /\ answer.issue # "none")
      BY <1>3, <1>8
    <3>2. k.told <=> \E q \in Providers : k.outcomes[q].issue # "none"
      BY DEF Informed
    <3>3. m.told <=> k.told \/ answer.issue # "none"
      BY <1>7
    <3>. QED  BY <3>1, <3>2, <3>3
  <2>2. m.heard = UNION {m.outcomes[q].docs : q \in Providers}
    <3>1. \A q \in Providers : m.outcomes[q].docs = IF q = p THEN k.outcomes[q].docs \cup answer.docs ELSE k.outcomes[q].docs
      BY <1>3, <1>8
    <3>2. ASSUME NEW d PROVE d \in m.heard <=> \E q \in Providers : d \in m.outcomes[q].docs
      <4>1. d \in m.heard <=> d \in k.heard \/ d \in answer.docs
        BY <1>7
      <4>2. d \in k.heard <=> \E q \in Providers : d \in k.outcomes[q].docs
        BY DEF Informed
      <4>. QED  BY <3>1, <4>1, <4>2
    <3>. QED  BY <3>2
  <2>3. m.outcomes["ats"].docs \subseteq Urls /\ \A q \in Providers \ {"ats"} : m.outcomes[q].docs \subseteq AllDocs
    BY <1>3, <1>8, ProvidersAre DEF Informed
  <2>. QED  BY <1>7, <2>1, <2>2, <2>3 DEF Informed
<1>10. ASSUME p = "ats" \/ answer.docs = {} PROVE Careers(m) = Careers(k)
  <2>1. \A q \in Providers \ {"ats"} : m.outcomes[q].docs = k.outcomes[q].docs
    BY <1>3, <1>8, <1>10
  <2>2. {m.outcomes[q].docs : q \in Providers \ {"ats"}} = {k.outcomes[q].docs : q \in Providers \ {"ats"}}
    BY <2>1
  <2>. QED  BY <1>7, <2>2 DEF Careers
<1>. QED  BY <1>7, <1>9, <1>10

\* What one run does leaves the others alone.
LEMMA OneRunMoves ==
  ASSUME PipelineInv, NEW r \in Collected, NEW k, NEW g, Sound(enabled, r, k, g), Gates',
         run' = [run EXCEPT ![r] = k], calls' = [calls EXCEPT ![r] = g], UNCHANGED enabled
  PROVE  PipelineInv'
<1>1. ASSUME NEW t \in Collected PROVE Sound(enabled', t, run'[t], calls'[t])
  BY DEF PipelineInv
<1>2. run' = [t \in Collected |-> run'[t]] /\ calls' = [t \in Collected |-> calls'[t]]
  BY DEF PipelineInv
<1>. QED  BY <1>1, <1>2 DEF PipelineInv

LEMMA RunFacts ==
  ASSUME PipelineInv, NEW r \in Collected
  PROVE  /\ Sound(enabled, r, run[r], calls[r])
         /\ run = [t \in Collected |-> run[t]] /\ calls = [t \in Collected |-> calls[t]]
         /\ DOMAIN calls[r] \subseteq Ids
         /\ \A d \in DOMAIN calls[r] : calls[r][d] \in Calls
<1>1. Sound(enabled, r, run[r], calls[r])
  BY DEF PipelineInv
<1>2. PICK D \in SUBSET Ids : calls[r] \in [D -> Calls]
  BY <1>1 DEF Sound, Searches
<1>. QED  BY <1>1, <1>2 DEF PipelineInv

\* A search is given up.
LEMMA Closing ==
  ASSUME PipelineInv, NEW r \in Collected, NEW c \in DOMAIN calls[r], Closed(r, c), UNCHANGED gates
  PROVE  /\ Gates' /\ calls'[r] \in Searches /\ calls' = [calls EXCEPT ![r] = calls'[r]]
         /\ DOMAIN calls'[r] = DOMAIN calls[r] \ {c}
         /\ \A d \in DOMAIN calls'[r] : calls'[r][d] = calls[r][d]
<1>. DEFINE g == [d \in DOMAIN calls[r] \ {c} |-> calls[r][d]]
<1>1. calls' = [calls EXCEPT ![r] = g]
  BY DEF Closed, Restrict
<1>2. calls'[r] = g /\ \A t \in Collected : t # r => calls'[t] = calls[t]
  BY <1>1, RunFacts
<1>3. g \in [DOMAIN calls[r] \ {c} -> Calls] /\ DOMAIN calls[r] \ {c} \in SUBSET Ids
  BY RunFacts
<1>4. g \in Searches
  BY <1>3 DEF Searches
<1>5. Gates'
  BY <1>2, GatesKept DEF PipelineInv
<1>. QED  BY <1>1, <1>2, <1>4, <1>5

\* A search begins or goes on.
LEMMA Setting ==
  ASSUME PipelineInv, NEW r \in Collected, NEW c \in Ids, NEW x \in Calls, Set(r, c, x)
  PROVE  /\ calls'[r] \in Searches /\ calls' = [calls EXCEPT ![r] = calls'[r]]
         /\ DOMAIN calls'[r] = DOMAIN calls[r] \cup {c} /\ calls'[r][c] = x
         /\ \A d \in DOMAIN calls[r] : d # c => calls'[r][d] = calls[r][d]
         /\ \A t \in Collected : t # r => calls'[t] = calls[t]
<1>. DEFINE g == [d \in DOMAIN calls[r] \cup {c} |-> IF d = c THEN x ELSE calls[r][d]]
<1>1. calls' = [calls EXCEPT ![r] = g]
  BY DEF Set
<1>2. calls'[r] = g /\ \A t \in Collected : t # r => calls'[t] = calls[t]
  BY <1>1, RunFacts
<1>3. g \in [DOMAIN calls[r] \cup {c} -> Calls] /\ DOMAIN calls[r] \cup {c} \in SUBSET Ids
  BY RunFacts
<1>4. g \in Searches
  BY <1>3 DEF Searches
<1>. QED  BY <1>1, <1>2, <1>4

LEMMA SettingKeepsGates ==
  ASSUME PipelineInv, NEW r \in Collected, NEW c \in Ids, NEW x \in Calls, Set(r, c, x), UNCHANGED gates,
         x.st \in InGate => c \in DOMAIN calls[r] /\ calls[r][c].st \in InGate /\ x.wait = calls[r][c].wait
  PROVE  Gates'
<1>1. ASSUME NEW t \in Collected, NEW d \in DOMAIN calls'[t], calls'[t][d].st \in InGate
      PROVE  d \in DOMAIN calls[t] /\ calls[t][d].st \in InGate /\ calls'[t][d].wait = calls[t][d].wait
  BY <1>1, Setting
<1>. QED  BY <1>1, GatesKept DEF PipelineInv

\* The searches of a run are where they were, but for their places in the gates.
LEMMA SearchesGoOn ==
  ASSUME NEW e, NEW r, NEW k, NEW g, NEW h \in Searches, Sound(e, r, k, g), DOMAIN h = DOMAIN g,
         \A d \in DOMAIN g : /\ h[d].tries = g[d].tries
                             /\ d[1] = "ats" /\ h[d].st \in {"calling", "connected"} => g[d].st \in {"calling", "connected"}
  PROVE  Sound(e, r, k, h)
<1>1. Staged(e, k, h)
  BY DEF Sound, Staged
<1>2. Asking(e, k, h)
  BY DEF Sound, Asking, Pending
<1>3. Spending(k, h)
  BY DEF Sound, Spending
<1>. QED  BY <1>1, <1>2, <1>3 DEF Sound

\* The stage of a run tells what it searches.
LEMMA Stages ==
  ASSUME PipelineInv, NEW r \in Collected, NEW c \in DOMAIN calls[r]
  PROVE  /\ run[r].pc \in {"discovery", "queries", "pages"} /\ run[r].status = "running"
         /\ c[1] = "ats" => run[r].pc = "pages" /\ c = <<"ats", c[2]>> /\ c[2] \in Urls /\ DOMAIN calls[r] = {c}
         /\ c[1] # "ats" => run[r].pc \in {"discovery", "queries"}
         /\ c[1] = "tianyancha" => c = T
<1>1. Sound(enabled, r, run[r], calls[r]) /\ c \in Ids
  BY RunFacts
<1>2. run[r].pc \in {"discovery", "queries", "pages"} /\ run[r].status = "running"
  BY <1>1 DEF Sound, Staged, Ended, Orchestrator
<1>3. "ats" \notin Range(Discovery)
  <2>1. \A i \in 1 .. 4 : Discovery[i] # "ats"
    BY DEF Discovery
  <2>. QED  BY <2>1 DEF Discovery, Range
<1>4. run[r].pc # "pages" => c[1] # "ats"
  BY <1>1, <1>2, <1>3 DEF Sound, Staged
<1>5. run[r].pc = "pages" => c \in {"ats"} \X Urls /\ \A d \in DOMAIN calls[r] : d = c
  BY <1>1 DEF Sound, Staged
<1>6. c[1] = "tianyancha" => c = T
  BY <1>1 DEF Ids, T
<1>. QED  BY <1>2, <1>4, <1>5, <1>6

LEMMA GateStepsKeepInv ==
  ASSUME PipelineInv, NEW r \in Collected, NEW c \in DOMAIN calls[r],
         TakeThread(r, c) \/ Acquire(r, c) \/ Connect(r, c)
  PROVE  PipelineInv'
<1>1. c \in Ids /\ c[1] \in Providers /\ calls[r][c] \in Calls /\ Sound(enabled, r, run[r], calls[r])
  BY SearchTypes, RunFacts
<1>2. gates \in [Providers -> Nat]
  BY DEF PipelineInv, Gates
<1>3. PICK x \in Calls : /\ Set(r, c, x) /\ UNCHANGED <<enabled, run>> /\ x.tries = calls[r][c].tries
                         /\ x.st \in {"blocked", "granted", "connected"}
                         /\ x.st = "connected" => calls[r][c].st = "calling"
  <2>1. CASE TakeThread(r, c)
    <3>. DEFINE x == [calls[r][c] EXCEPT !.st = "blocked"]
    <3>1. x \in Calls /\ x.st = "blocked" /\ x.tries = calls[r][c].tries
      BY <1>1 DEF Calls
    <3>. QED  BY <2>1, <3>1 DEF TakeThread
  <2>2. CASE Acquire(r, c)
    <3>. DEFINE x == [calls[r][c] EXCEPT !.st = "granted", !.wait = gates[c[1]]]
    <3>1. x \in Calls /\ x.st = "granted" /\ x.tries = calls[r][c].tries
      BY <1>1, <1>2 DEF Calls
    <3>. QED  BY <2>2, <3>1 DEF Acquire
  <2>3. CASE Connect(r, c)
    <3>. DEFINE x == [calls[r][c] EXCEPT !.st = "connected"]
    <3>1. x \in Calls /\ x.st = "connected" /\ x.tries = calls[r][c].tries
      BY <1>1 DEF Calls
    <3>. QED  BY <2>3, <3>1 DEF Connect
  <2>. QED  BY <2>1, <2>2, <2>3
<1>4. Gates'
  <2>1. CASE TakeThread(r, c)
    <3>. DEFINE y == [calls[r][c] EXCEPT !.st = "blocked"]
    <3>1. y \in Calls /\ y.st = "blocked"
      BY <1>1 DEF Calls
    <3>. QED  BY <1>1, <2>1, <3>1, SettingKeepsGates DEF TakeThread, InGate
  <2>2. CASE Acquire(r, c)
    BY <2>2, AcquireKeepsGates
  <2>3. CASE Connect(r, c)
    <3>. DEFINE y == [calls[r][c] EXCEPT !.st = "connected"]
    <3>1. y \in Calls /\ y.wait = calls[r][c].wait
      BY <1>1 DEF Calls
    <3>. QED  BY <1>1, <2>3, <3>1, SettingKeepsGates DEF Connect, InGate
  <2>. QED  BY <2>1, <2>2, <2>3
<1>5. Sound(enabled, r, run[r], calls'[r])
  <2>1. /\ calls'[r] \in Searches /\ DOMAIN calls'[r] = DOMAIN calls[r] /\ calls'[r][c] = x
        /\ \A d \in DOMAIN calls[r] : d # c => calls'[r][d] = calls[r][d]
    <3>1. /\ calls'[r] \in Searches /\ DOMAIN calls'[r] = DOMAIN calls[r] \cup {c} /\ calls'[r][c] = x
          /\ \A d \in DOMAIN calls[r] : d # c => calls'[r][d] = calls[r][d]
      BY <1>1, <1>3, Setting
    <3>2. DOMAIN calls[r] \cup {c} = DOMAIN calls[r]
      OBVIOUS
    <3>. QED  BY <3>1, <3>2
  <2>2. \A d \in DOMAIN calls[r] :
          /\ calls'[r][d].tries = calls[r][d].tries
          /\ d[1] = "ats" /\ calls'[r][d].st \in {"calling", "connected"} => calls[r][d].st \in {"calling", "connected"}
    BY <1>3, <2>1
  <2>. QED  BY <1>1, <2>1, <2>2, SearchesGoOn
<1>6. run' = [run EXCEPT ![r] = run[r]]
  BY <1>3, RunFacts
<1>7. calls' = [calls EXCEPT ![r] = calls'[r]]
  BY <1>1, <1>3, Setting
<1>. QED  BY <1>3, <1>4, <1>5, <1>6, <1>7, OneRunMoves

LEMMA TickKeepsInv ==
  ASSUME PipelineInv, Tick
  PROVE  PipelineInv'
<1>1. ASSUME NEW r \in Collected PROVE Sound(enabled, r, run[r], calls'[r])
  <2>. DEFINE h == [c \in DOMAIN calls[r] |-> [calls[r][c] EXCEPT !.wait = Earlier(@)]]
  <2>1. calls'[r] = h
    BY DEF Tick
  <2>2. ASSUME NEW c \in DOMAIN calls[r]
        PROVE  h[c] \in Calls /\ h[c].tries = calls[r][c].tries /\ h[c].st = calls[r][c].st
    <3>1. calls[r][c] \in Calls
      BY RunFacts
    <3>2. Earlier(calls[r][c].wait) \in Nat
      BY <3>1 DEF Calls, Earlier
    <3>. QED  BY <3>1, <3>2 DEF Calls
  <2>3. h \in [DOMAIN calls[r] -> Calls] /\ DOMAIN calls[r] \in SUBSET Ids
    BY <2>2, RunFacts
  <2>4. h \in Searches
    BY <2>3 DEF Searches
  <2>5. Sound(enabled, r, run[r], calls[r])
    BY RunFacts
  <2>6. DOMAIN h = DOMAIN calls[r]
    OBVIOUS
  <2>7. \A d \in DOMAIN calls[r] :
          /\ h[d].tries = calls[r][d].tries
          /\ d[1] = "ats" /\ h[d].st \in {"calling", "connected"} => calls[r][d].st \in {"calling", "connected"}
    BY <2>2
  <2>. HIDE DEF h
  <2>8. Sound(enabled, r, run[r], h)
    BY <2>4, <2>5, <2>6, <2>7, SearchesGoOn
  <2>. QED  BY <2>1, <2>8
<1>2. \A r \in Collected : Sound(enabled', r, run'[r], calls'[r])
  BY <1>1 DEF Tick
<1>3. run' = [r \in Collected |-> run'[r]] /\ calls' = [r \in Collected |-> calls'[r]]
  BY DEF Tick, PipelineInv
<1>. QED  BY <1>2, <1>3, TickKeepsGates DEF Tick, PipelineInv

LEMMA StartKeepsInv ==
  ASSUME PipelineInv, NEW r \in Collected, NEW c \in DOMAIN calls[r], Start(r, c)
  PROVE  PipelineInv'
<1>. DEFINE x == [calls[r][c] EXCEPT !.st = "calling"]
            k == run[r]
            m == IF c[1] = "ats" THEN [k EXCEPT !.asked = k.asked \cup {c[2]}] ELSE k
            g == calls[r]
            h == calls'[r]
<1>1. c \in Ids /\ calls[r][c] \in Calls /\ Sound(enabled, r, k, g)
  BY RunFacts
<1>2. x \in Calls /\ x.st = "calling" /\ x.wait = calls[r][c].wait /\ x.tries = calls[r][c].tries
  BY <1>1 DEF Calls
<1>3. Set(r, c, x) /\ UNCHANGED <<enabled, gates>> /\ calls[r][c].st = "granted"
  BY DEF Start
<1>. HIDE DEF x
<1>4. /\ h \in Searches /\ calls' = [calls EXCEPT ![r] = h]
      /\ DOMAIN h = DOMAIN g /\ h[c] = x
      /\ \A d \in DOMAIN g : d # c => h[d] = g[d]
  <2>1. /\ h \in Searches /\ calls' = [calls EXCEPT ![r] = h]
        /\ DOMAIN h = DOMAIN g \cup {c} /\ h[c] = x
        /\ \A d \in DOMAIN g : d # c => h[d] = g[d]
    BY <1>1, <1>2, <1>3, Setting
  <2>2. DOMAIN g \cup {c} = DOMAIN g
    OBVIOUS
  <2>. QED  BY <2>1, <2>2
<1>5. Gates'
  BY <1>1, <1>2, <1>3, SettingKeepsGates DEF InGate
<1>6. run' = [run EXCEPT ![r] = m]
  BY RunFacts DEF Start
<1>7. Sound(enabled, r, m, h)
  <2>1. CASE c[1] = "ats"
    <3>1. k.pc = "pages" /\ c[2] \in Urls /\ DOMAIN g = {c}
      BY <2>1, Stages
    <3>2. /\ m \in Orchestrator /\ m.asked = k.asked \cup {c[2]} /\ m.pc = k.pc /\ m.todo = k.todo /\ m.left = k.left
          /\ m.outcomes = k.outcomes /\ m.entries = k.entries /\ m.saved = k.saved /\ m.status = k.status
          /\ m.told = k.told /\ m.heard = k.heard /\ m.spent = k.spent
      <4>1. k \in Orchestrator /\ k.asked \cup {c[2]} \in SUBSET Urls
        BY <1>1, <3>1 DEF Sound, Orchestrator
      <4>. QED  BY <2>1, <4>1 DEF Orchestrator
    <3>10. c \in DOMAIN g /\ x.tries = g[c].tries
      BY <1>2
    <3>. HIDE DEF m, k, g, h
    <3>3. Careers(m) = Careers(k) /\ Pending(m, h) = Pending(k, g)
      BY <1>4, <3>2 DEF Careers, Pending
    <3>4. c[2] \in Careers(k)
      BY <1>1, <3>1 DEF Sound, Asking, Pending
    <3>5. Informed(r, m)
      BY <1>1, <3>2 DEF Sound, Informed
    <3>6. Staged(enabled, m, h)
      BY <1>1, <1>4, <3>1, <3>2 DEF Sound, Staged
    <3>7. Asking(enabled, m, h)
      BY <1>1, <3>1, <3>2, <3>3, <3>4 DEF Sound, Asking
    <3>8. Ended(enabled, m)
      BY <1>1, <3>1, <3>2, <3>3 DEF Sound, Ended
    <3>9. Spending(m, h)
      BY <1>1, <1>4, <3>2, <3>10 DEF Sound, Spending
    <3>. QED  BY <1>4, <3>2, <3>5, <3>6, <3>7, <3>8, <3>9 DEF Sound
  <2>2. CASE c[1] # "ats"
    <3>1. \A d \in DOMAIN g :
            /\ h[d].tries = g[d].tries
            /\ d[1] = "ats" /\ h[d].st \in {"calling", "connected"} => g[d].st \in {"calling", "connected"}
      BY <1>2, <1>4, <2>2
    <3>2. m = k
      BY <2>2
    <3>. QED  BY <1>1, <1>4, <3>1, <3>2, SearchesGoOn
  <2>. QED  BY <2>1, <2>2
<1>. HIDE DEF m
<1>. QED  BY <1>3, <1>4, <1>5, <1>6, <1>7, OneRunMoves

\* The orchestrator k hears the answer of a search that is closed.
LEMMA HearingKeepsSound ==
  ASSUME PipelineInv, NEW r \in Collected, NEW c \in DOMAIN calls[r], Closed(r, c), UNCHANGED gates,
         c[1] = "ats" => calls[r][c].st \in {"calling", "connected"},
         NEW answer \in Outcome,
         answer.docs \subseteq IF c[1] = "ats" THEN Urls ELSE AllDocs,
         NEW m, m = Found(r, c[1], answer)
  PROVE  Sound(enabled, r, m, calls'[r])
<1>. DEFINE k == run[r]
            g == calls[r]
            h == calls'[r]
            p == c[1]
<1>1. Sound(enabled, r, k, g) /\ p \in Providers /\ k \in Orchestrator /\ Informed(r, k)
  BY RunFacts, SearchTypes DEF Sound
<1>2. h \in Searches /\ DOMAIN h = DOMAIN g \ {c} /\ \A d \in DOMAIN h : h[d] = g[d]
  BY Closing
<1>3. m = Hears(k, p, answer)
  BY DEF Found, Hears
<1>4. /\ m \in Orchestrator /\ Informed(r, m)
      /\ m.pc = k.pc /\ m.todo = k.todo /\ m.left = k.left /\ m.entries = k.entries /\ m.page = k.page
      /\ m.saved = k.saved /\ m.blocks = k.blocks /\ m.status = k.status /\ m.asked = k.asked
      /\ m.spent = k.spent
      /\ p = "ats" \/ answer.docs = {} => Careers(m) = Careers(k)
  BY <1>1, <1>3, Hearing
<1>5. /\ k.pc \in {"discovery", "queries", "pages"} /\ k.status = "running"
      /\ p = "ats" => k.pc = "pages" /\ c[2] \in Urls /\ DOMAIN g = {c}
      /\ p # "ats" => k.pc \in {"discovery", "queries"}
  BY Stages
<1>. HIDE DEF k, g, h, p
<1>6. Staged(enabled, m, h)
  BY <1>1, <1>2, <1>4 DEF Sound, Staged
<1>7. Asking(enabled, m, h)
  <2>1. CASE p = "ats"
    <3>1. c[2] \in k.asked
      BY <1>1, <2>1 DEF Sound, Staged, g, p
    <3>2. Pending(m, h) = k.left /\ Pending(k, g) = k.left \cup {c[2]}
      BY <1>2, <1>4, <1>5, <2>1 DEF Pending
    <3>. QED  BY <1>1, <1>4, <1>5, <2>1, <3>1, <3>2 DEF Sound, Asking
  <2>2. CASE p # "ats"
    <3>1. k.asked = {} /\ k.saved = {} /\ k.pc \notin {"pages", "persist"}
      BY <1>1, <1>5, <2>2 DEF Sound, Asking
    <3>. QED  BY <1>4, <3>1 DEF Asking
  <2>. QED  BY <2>1, <2>2
<1>8. Ended(enabled, m)
  BY <1>1, <1>4, <1>5 DEF Sound, Ended
<1>9. Spending(m, h)
  BY <1>1, <1>2, <1>4 DEF Sound, Spending
<1>. QED  BY <1>2, <1>4, <1>6, <1>7, <1>8, <1>9 DEF Sound, h

LEMMA PageAnswerKeepsInv ==
  ASSUME PipelineInv, NEW r \in Collected, NEW c \in DOMAIN calls[r], PageAnswer(r, c)
  PROVE  PipelineInv'
<1>. DEFINE u == c[2]
            f == PlatformOf[u]
            k == run[r]
            h == calls'[r]
<1>1. PICK answer \in AtsAnswers(r, u), jobs \in BOOLEAN :
        /\ jobs => answer.docs # {} /\ answer.issue # "blocked"
        /\ Becomes(r, [Found(r, "ats", answer) EXCEPT
             !.blocks[f] = Blocking(r, u, answer, jobs),
             !.pc = IF answer.docs # {} /\ answer.issue = "none" THEN "persist" ELSE @,
             !.page = {u}])
        /\ Closed(r, c)
        /\ UNCHANGED <<enabled, gates>>
  BY DEF PageAnswer
<1>2. /\ c[1] = "ats" /\ calls[r][c].st = "connected"
      /\ k.pc = "pages" /\ u \in Urls /\ DOMAIN calls[r] = {c} /\ f \in Platforms
      /\ k \in Orchestrator
  BY Stages, PlatformAssumption, RunFacts DEF PageAnswer, Sound
<1>3. /\ answer \in Outcome /\ answer.docs \subseteq {u}
      /\ answer.issue = "blocked" /\ answer.docs # {} => k.blocks[f] < BlockThreshold
  <2>1. k.blocks[f] \in 0 .. BlockThreshold /\ BlockThreshold \in Nat
    BY <1>2, LimitsAssumption DEF Orchestrator
  <2>2. CASE k.blocks[f] >= BlockThreshold
    BY <2>2 DEF AtsAnswers, Outcome, Issues
  <2>3. CASE ~(k.blocks[f] >= BlockThreshold)
    <3>1. answer \in [docs : {{u}}, issue : Issues] \cup {[docs |-> {}, issue |-> "error"]}
      BY <2>3 DEF AtsAnswers
    <3>2. "error" \in Issues
      BY DEF Issues
    <3>. QED  BY <1>2, <2>1, <2>3, <3>1, <3>2 DEF Outcome
  <2>. QED  BY <2>2, <2>3
<1>. DEFINE m == Found(r, "ats", answer)
            b == Blocking(r, u, answer, jobs)
            pc == IF answer.docs # {} /\ answer.issue = "none" THEN "persist" ELSE m.pc
            j == [m EXCEPT !.blocks = [m.blocks EXCEPT ![f] = b], !.pc = pc, !.page = {u}]
<1>4. Sound(enabled, r, m, h)
  <2>1. m = Found(r, c[1], answer)
    BY <1>2
  <2>. HIDE DEF u, f, k, m, b, pc, j
  <2>2. answer.docs \subseteq Urls /\ c[1] = "ats" /\ u \in Urls
    BY <1>2, <1>3
  <2>3. answer.docs \subseteq IF c[1] = "ats" THEN Urls ELSE AllDocs
    BY <2>2
  <2>. QED  BY <1>1, <1>2, <1>3, <2>1, <2>3, HearingKeepsSound
<1>5. m.pc = k.pc /\ m.blocks = k.blocks /\ m.status = k.status
  BY <1>2 DEF Found, Orchestrator
<1>6. b \in 0 .. BlockThreshold
  <2>1. k.blocks[f] \in 0 .. BlockThreshold /\ BlockThreshold \in Nat
    BY <1>2, LimitsAssumption DEF Orchestrator
  <2>. HIDE DEF u, f, k, m, pc, j
  <2>2. b = IF answer.issue = "blocked" /\ answer.docs # {} THEN k.blocks[f] + 1
            ELSE IF jobs THEN 0 ELSE k.blocks[f]
    BY DEF Blocking, k, f
  <2>3. answer.issue = "blocked" /\ answer.docs # {} => k.blocks[f] + 1 \in 0 .. BlockThreshold
    BY <1>3, <2>1
  <2>. HIDE DEF b
  <2>4. 0 \in 0 .. BlockThreshold
    BY <2>1
  <2>. QED  BY <2>1, <2>2, <2>3, <2>4
<1>7. run' = [run EXCEPT ![r] = j]
  BY <1>1 DEF Becomes
<1>8. Gates' /\ h \in Searches /\ calls' = [calls EXCEPT ![r] = h] /\ DOMAIN h = {}
  <2>1. DOMAIN calls[r] \ {c} = {}
    BY <1>2
  <2>. QED  BY <1>1, <2>1, Closing
<1>. HIDE DEF m, b, h
<1>9. m \in Orchestrator
  BY <1>4 DEF Sound
<1>10. [m.blocks EXCEPT ![f] = b] \in [Platforms -> 0 .. BlockThreshold]
  BY <1>2, <1>6, <1>9 DEF Orchestrator
<1>11. pc \in {"pages", "persist"}
  BY <1>2, <1>5
<1>. HIDE DEF pc
<1>12. /\ j \in Orchestrator /\ j.pc = pc /\ j.todo = m.todo /\ j.left = m.left
       /\ j.outcomes = m.outcomes /\ j.entries = m.entries /\ j.saved = m.saved /\ j.status = m.status
       /\ j.told = m.told /\ j.heard = m.heard /\ j.spent = m.spent /\ j.asked = m.asked
  BY <1>2, <1>9, <1>10, <1>11 DEF Orchestrator
<1>. HIDE DEF j
<1>13. Careers(j) = Careers(m) /\ Pending(j, h) = Pending(m, h)
  BY <1>12 DEF Careers, Pending
<1>14. Informed(r, j)
  BY <1>4, <1>12 DEF Sound, Informed
<1>15. Staged(enabled, j, h)
  BY <1>8, <1>11, <1>12 DEF Staged
<1>16. Asking(enabled, j, h)
  BY <1>2, <1>4, <1>5, <1>11, <1>12, <1>13 DEF Sound, Asking
<1>17. Ended(enabled, j)
  BY <1>2, <1>4, <1>5, <1>11, <1>12, <1>13 DEF Sound, Ended
<1>18. Spending(j, h)
  BY <1>4, <1>12 DEF Sound, Spending
<1>19. Sound(enabled, r, j, h)
  BY <1>8, <1>12, <1>14, <1>15, <1>16, <1>17, <1>18 DEF Sound
<1>. QED  BY <1>1, <1>7, <1>8, <1>19, OneRunMoves

LEMMA DocsAreKnown ==
  ASSUME NEW r \in Collected
  PROVE  /\ UNION Finds[r] \subseteq AllDocs /\ UNION Finds[r] \subseteq Doc
         /\ Registration \in AllDocs /\ AllDocs \subseteq Doc \cup {Registration}
         /\ SiteQueries[r] \subseteq AllQueries
<1>1. Finds[r] \in Range(Finds) /\ SiteQueries[r] \in Range(SiteQueries)
  BY DocsAssumption DEF Range
<1>2. ASSUME NEW F \in Range(Finds) PROVE UNION F \subseteq Doc
  BY DocsAssumption DEF Range
<1>3. UNION Finds[r] \subseteq AllDocs /\ Registration \in AllDocs /\ SiteQueries[r] \subseteq AllQueries
  BY <1>1 DEF AllDocs, AllQueries
<1>4. ASSUME NEW d \in AllDocs, d # Registration PROVE d \in Doc
  <2>1. PICK D \in UNION Range(Finds) : d \in D
    BY <1>4 DEF AllDocs
  <2>. QED  BY <1>2, <2>1
<1>. QED  BY <1>3, <1>4, DocsAssumption

\* What is found of pages of the company, for a run whose name searches are not over.
LEMMA EntriesKeepSound ==
  ASSUME NEW e, NEW r, NEW k, NEW g, Sound(e, r, k, g), k.pc \in {"discovery", "queries"},
         NEW D, D \subseteq UNION Finds[r], D \subseteq AllDocs, NEW m, m = [k EXCEPT !.entries = k.entries \cup D]
  PROVE  Sound(e, r, m, g)
<1>1. k \in Orchestrator /\ k.entries \cup D \in SUBSET AllDocs
  BY DEF Sound, Orchestrator
<1>2. /\ m \in Orchestrator /\ m.pc = k.pc /\ m.todo = k.todo /\ m.left = k.left
      /\ m.outcomes = k.outcomes /\ m.entries = k.entries \cup D /\ m.saved = k.saved /\ m.status = k.status
      /\ m.told = k.told /\ m.heard = k.heard /\ m.spent = k.spent /\ m.asked = k.asked
  BY <1>1 DEF Orchestrator
<1>3. Informed(r, m)
  BY <1>2 DEF Sound, Informed
<1>4. Staged(e, m, g)
  BY <1>2 DEF Sound, Staged
<1>5. Asking(e, m, g)
  BY <1>2 DEF Sound, Asking
<1>6. Ended(e, m)
  BY <1>2 DEF Sound, Ended
<1>7. Spending(m, g)
  BY <1>2 DEF Sound, Spending
<1>. QED  BY <1>2, <1>3, <1>4, <1>5, <1>6, <1>7 DEF Sound

\* A search is closed and nothing more comes of it.
LEMMA ClosingKeepsSound ==
  ASSUME PipelineInv, NEW r \in Collected, NEW c \in DOMAIN calls[r], Closed(r, c), UNCHANGED gates,
         c[1] = "ats" => calls[r][c].st \in {"calling", "connected"}
  PROVE  Sound(enabled, r, run[r], calls'[r])
<1>. DEFINE k == run[r]
            g == calls[r]
            h == calls'[r]
<1>1. Sound(enabled, r, k, g)
  BY RunFacts
<1>2. h \in Searches /\ DOMAIN h = DOMAIN g \ {c} /\ \A d \in DOMAIN h : h[d] = g[d]
  BY Closing
<1>3. /\ c[1] = "ats" => k.pc = "pages" /\ DOMAIN g = {c}
      /\ c[1] # "ats" => k.pc \in {"discovery", "queries"}
  BY Stages
<1>. HIDE DEF k, g, h
<1>4. Staged(enabled, k, h)
  BY <1>1, <1>2 DEF Sound, Staged
<1>5. Asking(enabled, k, h)
  <2>1. CASE c[1] = "ats"
    <3>1. c[2] \in k.asked
      BY <1>1, <2>1 DEF Sound, Staged, g
    <3>2. Pending(k, h) = k.left /\ Pending(k, g) = k.left \cup {c[2]}
      BY <1>2, <1>3, <2>1 DEF Pending
    <3>. QED  BY <1>1, <1>3, <2>1, <3>1, <3>2 DEF Sound, Asking
  <2>2. CASE c[1] # "ats"
    BY <1>1, <1>3, <2>2 DEF Sound, Asking
  <2>. QED  BY <2>1, <2>2
<1>6. Spending(k, h)
  BY <1>1, <1>2 DEF Sound, Spending
<1>. QED  BY <1>1, <1>2, <1>4, <1>5, <1>6 DEF Sound, k, h

LEMMA AnswerKeepsInv ==
  ASSUME PipelineInv, NEW r \in Collected, NEW c \in DOMAIN calls[r], Answer(r, c)
  PROVE  PipelineInv'
<1>1. PICK docs \in IF c[1] = "ymicp" THEN SUBSET {Registration} ELSE Finds[r], issue \in {"none", "error"} :
        LET answer == [docs |-> docs, issue |-> issue] IN
        /\ c[1] \in {"ymicp", "zhihu", "serper"}
        /\ Closed(r, c) /\ UNCHANGED <<enabled, gates>>
        /\ Becomes(r, IF c[1] = "serper" /\ c[2] \in AllQueries
             THEN [run[r] EXCEPT !.entries = @ \cup docs] ELSE Found(r, c[1], answer))
  BY DEF Answer
<1>. DEFINE answer == [docs |-> docs, issue |-> issue]
            k == run[r]
            h == calls'[r]
<1>2. docs \subseteq AllDocs /\ answer \in Outcome
  BY <1>1, DocsAreKnown DEF Outcome, Issues
<1>3. Gates' /\ h \in Searches /\ calls' = [calls EXCEPT ![r] = h]
  BY <1>1, Closing
<1>4. CASE c[1] = "serper" /\ c[2] \in AllQueries
  <2>. DEFINE m == [k EXCEPT !.entries = k.entries \cup docs]
  <2>1. Sound(enabled, r, k, h)
    BY <1>1, ClosingKeepsSound
  <2>2. k.pc \in {"discovery", "queries"}
    BY <1>4, Stages
  <2>3. docs \subseteq UNION Finds[r]
    BY <1>4
  <2>. HIDE DEF k, h
  <2>4. Sound(enabled, r, m, h)
    BY <1>2, <2>1, <2>2, <2>3, EntriesKeepSound
  <2>5. run' = [run EXCEPT ![r] = m]
    BY <1>1, <1>4 DEF Becomes, k
  <2>. QED  BY <1>1, <1>3, <2>4, <2>5, OneRunMoves
<1>5. CASE ~(c[1] = "serper" /\ c[2] \in AllQueries)
  <2>1. Sound(enabled, r, Found(r, c[1], answer), h)
    BY <1>1, <1>2, HearingKeepsSound
  <2>2. run' = [run EXCEPT ![r] = Found(r, c[1], answer)]
    BY <1>1, <1>5 DEF Becomes
  <2>. QED  BY <1>1, <1>3, <2>1, <2>2, OneRunMoves
<1>. QED  BY <1>4, <1>5

LEMMA StarveKeepsInv ==
  ASSUME PipelineInv, NEW r \in Collected, NEW c \in DOMAIN calls[r], Starve(r, c)
  PROVE  PipelineInv'
<1>. DEFINE answer == [docs |-> {}, issue |-> "error"]
            h == calls'[r]
<1>1. /\ calls[r][c].st = "calling" /\ Closed(r, c) /\ UNCHANGED <<enabled, gates>>
      /\ run' = IF c[2] \in AllQueries THEN run ELSE [run EXCEPT ![r] = Found(r, c[1], answer)]
  BY DEF Starve
<1>2. answer \in Outcome /\ answer.docs = {}
  BY DEF Outcome, Issues
<1>3. Gates' /\ h \in Searches /\ calls' = [calls EXCEPT ![r] = h]
  BY <1>1, Closing
<1>. HIDE DEF answer
<1>4. CASE c[2] \in AllQueries
  <2>1. Sound(enabled, r, run[r], h)
    BY <1>1, ClosingKeepsSound
  <2>2. run' = [run EXCEPT ![r] = run[r]]
    BY <1>1, <1>4, RunFacts
  <2>. QED  BY <1>1, <1>3, <2>1, <2>2, OneRunMoves
<1>5. CASE c[2] \notin AllQueries
  <2>1. Sound(enabled, r, Found(r, c[1], answer), h)
    BY <1>1, <1>2, HearingKeepsSound
  <2>2. run' = [run EXCEPT ![r] = Found(r, c[1], answer)]
    BY <1>1, <1>5
  <2>. QED  BY <1>1, <1>3, <2>1, <2>2, OneRunMoves
<1>. QED  BY <1>4, <1>5

\* A search with Tianyancha: of its name, with what its command was run for so far.
LEMMA CliSearch ==
  ASSUME PipelineInv, NEW r \in Collected, NEW c \in DOMAIN calls[r], c[1] = "tianyancha"
  PROVE  /\ c = T /\ run[r].todo \in LateOrders /\ run[r].pc \in {"discovery", "queries"}
         /\ run[r].spent = calls[r][c].tries /\ run[r].spent < MaxAttempts
         /\ run[r].spent \in Nat /\ run[r].spent + 1 \in 0 .. MaxAttempts
<1>1. c = T /\ run[r].pc \in {"discovery", "queries"}
  BY Stages
<1>2. Sound(enabled, r, run[r], calls[r])
  BY RunFacts
<1>3. /\ run[r].todo \in LateOrders
      /\ run[r].spent = calls[r][c].tries /\ run[r].spent < MaxAttempts
  BY <1>1, <1>2 DEF Sound, Spending
<1>4. run[r].spent \in 0 .. MaxAttempts /\ MaxAttempts \in Nat
  BY <1>2, LimitsAssumption DEF Sound, Orchestrator
<1>5. run[r].spent \in Nat /\ run[r].spent + 1 \in 0 .. MaxAttempts
  BY <1>3, <1>4
<1>. QED  BY <1>1, <1>3, <1>5

\* The spending of a run has no part in the rest of what is sound about it.
LEMMA SpendingKeepsSound ==
  ASSUME NEW e, NEW r, NEW k, NEW g, Sound(e, r, k, g), NEW n \in 0 .. MaxAttempts,
         NEW m, m = [k EXCEPT !.spent = n],
         k.todo \in LateOrders, T \in DOMAIN g => n = g[T].tries /\ n < MaxAttempts
  PROVE  Sound(e, r, m, g)
<1>1. /\ m \in Orchestrator /\ m.pc = k.pc /\ m.todo = k.todo /\ m.left = k.left
      /\ m.outcomes = k.outcomes /\ m.entries = k.entries /\ m.saved = k.saved /\ m.status = k.status
      /\ m.told = k.told /\ m.heard = k.heard /\ m.spent = n /\ m.asked = k.asked
  BY DEF Orchestrator, Sound
<1>2. Careers(m) = Careers(k) /\ Pending(m, g) = Pending(k, g)
  BY <1>1 DEF Careers, Pending
<1>3. Informed(r, m)
  BY <1>1 DEF Sound, Informed
<1>4. Staged(e, m, g)
  BY <1>1 DEF Sound, Staged
<1>5. Asking(e, m, g)
  BY <1>1, <1>2 DEF Sound, Asking
<1>6. Ended(e, m)
  BY <1>1, <1>2 DEF Sound, Ended
<1>7. Spending(m, g)
  BY <1>1 DEF Spending
<1>. QED  BY <1>1, <1>3, <1>4, <1>5, <1>6, <1>7 DEF Sound

LEMMA CliFailsKeepsInv ==
  ASSUME PipelineInv, NEW r \in Collected, NEW c \in DOMAIN calls[r], CliFails(r, c)
  PROVE  PipelineInv'
<1>. DEFINE k == run[r]
            g == calls[r]
            h == calls'[r]
            n == k.spent + 1
            m == [k EXCEPT !.spent = n]
            x == [g[c] EXCEPT !.tries = g[c].tries + 1]
<1>1. /\ c[1] = "tianyancha" /\ g[c].st = "connected" /\ g[c].tries + 1 < MaxAttempts
      /\ Set(r, c, x) /\ UNCHANGED <<enabled, gates>>
      /\ run' = [run EXCEPT ![r].spent = @ + 1]
  BY DEF CliFails
<1>2. /\ c = T /\ k.todo \in LateOrders /\ k.pc \in {"discovery", "queries"}
      /\ k.spent = g[c].tries /\ k.spent \in Nat /\ n \in 0 .. MaxAttempts
  BY <1>1, CliSearch
<1>3. Sound(enabled, r, k, g) /\ c \in Ids /\ g[c] \in Calls
  BY RunFacts
<1>4. x \in Calls /\ x.st = "connected" /\ x.wait = g[c].wait /\ x.tries = n
  BY <1>1, <1>2, <1>3 DEF Calls
<1>. HIDE DEF x
<1>5. /\ h \in Searches /\ calls' = [calls EXCEPT ![r] = h]
      /\ DOMAIN h = DOMAIN g /\ h[c] = x
      /\ \A d \in DOMAIN g : d # c => h[d] = g[d]
  <2>1. /\ h \in Searches /\ calls' = [calls EXCEPT ![r] = h]
        /\ DOMAIN h = DOMAIN g \cup {c} /\ h[c] = x
        /\ \A d \in DOMAIN g : d # c => h[d] = g[d]
    BY <1>1, <1>3, <1>4, Setting
  <2>2. DOMAIN g \cup {c} = DOMAIN g
    OBVIOUS
  <2>. QED  BY <2>1, <2>2
<1>6. Gates'
  BY <1>1, <1>3, <1>4, SettingKeepsGates DEF InGate
<1>7. run' = [run EXCEPT ![r] = m]
  BY <1>1
<1>8. k \in Orchestrator /\ Informed(r, k) /\ Staged(enabled, k, g) /\ Asking(enabled, k, g) /\ Ended(enabled, k)
  BY <1>3 DEF Sound
<1>9. c \in DOMAIN g /\ c[1] # "ats"
  BY <1>1
<1>. HIDE DEF n, k, g, h
<1>10. /\ m \in Orchestrator /\ m.pc = k.pc /\ m.todo = k.todo /\ m.left = k.left
       /\ m.outcomes = k.outcomes /\ m.entries = k.entries /\ m.saved = k.saved /\ m.status = k.status
       /\ m.told = k.told /\ m.heard = k.heard /\ m.spent = n /\ m.asked = k.asked
  BY <1>2, <1>8 DEF Orchestrator
<1>. HIDE DEF m
<1>11. Careers(m) = Careers(k) /\ Pending(m, h) = Pending(k, g)
  BY <1>5, <1>10 DEF Careers, Pending
<1>12. Informed(r, m)
  BY <1>8, <1>10 DEF Informed
<1>13. Staged(enabled, m, h)
  BY <1>5, <1>8, <1>9, <1>10 DEF Staged
<1>14. Asking(enabled, m, h)
  BY <1>8, <1>10, <1>11 DEF Asking
<1>15. Ended(enabled, m)
  BY <1>8, <1>10, <1>11 DEF Ended
<1>16. Spending(m, h)
  BY <1>1, <1>2, <1>4, <1>5, <1>10 DEF Spending, k, g, n
<1>17. Sound(enabled, r, m, h)
  BY <1>5, <1>10, <1>12, <1>13, <1>14, <1>15, <1>16 DEF Sound
<1>. QED  BY <1>1, <1>5, <1>6, <1>7, <1>17, OneRunMoves DEF h

LEMMA CliEndsKeepsInv ==
  ASSUME PipelineInv, NEW r \in Collected, NEW c \in DOMAIN calls[r], CliEnds(r, c)
  PROVE  PipelineInv'
<1>. DEFINE k == run[r]
            h == calls'[r]
            n == k.spent + 1
<1>1. PICK answer \in [docs : SUBSET {Registration}, issue : {"none", "error"}] :
        /\ c[1] = "tianyancha" /\ calls[r][c].st = "connected"
        /\ Becomes(r, [Found(r, "tianyancha", answer) EXCEPT !.spent = @ + 1])
        /\ Closed(r, c) /\ UNCHANGED <<enabled, gates>>
  BY DEF CliEnds
<1>. DEFINE m == Found(r, "tianyancha", answer)
<1>2. c = T /\ k.todo \in LateOrders /\ n \in 0 .. MaxAttempts
  BY <1>1, CliSearch
<1>3. answer \in Outcome /\ answer.docs \subseteq IF c[1] = "ats" THEN Urls ELSE AllDocs
  BY <1>1, DocsAreKnown DEF Outcome, Issues
<1>4. m = Found(r, c[1], answer)
  BY <1>1
<1>5. m.spent = k.spent /\ m.todo = k.todo
  BY RunFacts DEF Found, Sound, Orchestrator
<1>. HIDE DEF m
<1>6. Sound(enabled, r, m, h)
  BY <1>1, <1>3, <1>4, HearingKeepsSound
<1>7. Gates' /\ h \in Searches /\ calls' = [calls EXCEPT ![r] = h] /\ DOMAIN h = DOMAIN calls[r] \ {c}
  BY <1>1, Closing
<1>8. run' = [run EXCEPT ![r] = [m EXCEPT !.spent = n]]
  BY <1>1, <1>5 DEF Becomes, m
<1>. HIDE DEF h, n, k
<1>9. Sound(enabled, r, [m EXCEPT !.spent = n], h)
  BY <1>2, <1>5, <1>6, <1>7, SpendingKeepsSound
<1>. QED  BY <1>1, <1>7, <1>8, <1>9, OneRunMoves DEF h

\* A step of an orchestrator that makes no search.
LEMMA QuietStep ==
  ASSUME PipelineInv, NEW r \in Collected, NEW m, Becomes(r, m), UNCHANGED <<enabled, gates, calls>>,
         Sound(enabled, r, m, calls[r])
  PROVE  PipelineInv'
<1>1. Gates'
  <2>1. \A t \in Collected : \A c \in DOMAIN calls'[t] : calls'[t][c].st \in InGate =>
           c \in DOMAIN calls[t] /\ calls[t][c].st \in InGate /\ calls'[t][c].wait = calls[t][c].wait
    OBVIOUS
  <2>. QED  BY <2>1, GatesKept DEF PipelineInv
<1>2. calls' = [calls EXCEPT ![r] = calls[r]]
  BY RunFacts
<1>. QED  BY <1>1, <1>2, OneRunMoves DEF Becomes

\* A step of an orchestrator that makes search c.
LEMMA AskingStep ==
  ASSUME PipelineInv, NEW r \in Collected, NEW c \in Ids, Ask(r, c), UNCHANGED gates
  PROVE  /\ Gates' /\ calls'[r] \in Searches /\ calls' = [calls EXCEPT ![r] = calls'[r]]
         /\ DOMAIN calls'[r] = DOMAIN calls[r] \cup {c}
         /\ calls'[r][c].st = "queued" /\ calls'[r][c].tries = 0
         /\ \A d \in DOMAIN calls[r] : d # c => calls'[r][d] = calls[r][d]
<1>. DEFINE x == [st |-> "queued", wait |-> 0, tries |-> 0]
<1>1. 0 \in 0 .. MaxAttempts
  BY LimitsAssumption
<1>2. x \in Calls /\ x.st = "queued" /\ x.tries = 0
  BY <1>1 DEF Calls
<1>3. Set(r, c, x)
  BY DEF Ask
<1>. HIDE DEF x
<1>4. Gates'
  BY <1>2, <1>3, SettingKeepsGates DEF InGate
<1>. QED  BY <1>2, <1>3, <1>4, Setting

LEMMA SearchNameKeepsInv ==
  ASSUME PipelineInv, NEW r \in Collected, SearchName(r)
  PROVE  PipelineInv'
<1>. DEFINE k == run[r]
            h == calls'[r]
            p == Head(k.todo)
            c == <<p, "name">>
            rest == Tail(k.todo)
            m == [k EXCEPT !.todo = rest]
<1>1. /\ k.pc = "discovery" /\ DOMAIN calls[r] = {} /\ k.todo # <<>>
      /\ Ask(r, c) /\ run' = [run EXCEPT ![r] = m] /\ UNCHANGED <<enabled, gates>>
  BY DEF SearchName, At, Waits, Becomes
<1>2. Sound(enabled, r, k, calls[r])
  BY RunFacts
<1>3. k.todo \in Orders
  BY <1>2 DEF Sound, Orchestrator
<1>4. /\ p \in {"ymicp", "tianyancha", "zhihu", "serper"} /\ rest \in Orders
      /\ p = "tianyancha" => rest \in LateOrders /\ k.todo \notin LateOrders
      /\ rest \notin LateOrders => k.todo \notin LateOrders /\ p # "tianyancha"
  <2>. USE DEF LateOrders, Orders
  <2>1. CASE k.todo = <<"serper">>
    <3>1. p = "serper" /\ rest = <<>>
      BY <2>1
    <3>. QED  BY <2>1, <3>1
  <2>2. CASE k.todo = <<"zhihu">>
    <3>1. p = "zhihu" /\ rest = <<>>
      BY <2>2
    <3>. QED  BY <2>2, <3>1
  <2>3. CASE k.todo = <<"tianyancha">>
    <3>1. p = "tianyancha" /\ rest = <<>>
      BY <2>3
    <3>. QED  BY <2>3, <3>1
  <2>4. CASE k.todo = <<"tianyancha", "zhihu">>
    <3>1. p = "tianyancha" /\ rest = <<"zhihu">>
      BY <2>4
    <3>. QED  BY <2>4, <3>1
  <2>5. CASE k.todo = <<"ymicp">>
    <3>1. p = "ymicp" /\ rest = <<>>
      BY <2>5
    <3>. QED  BY <2>5, <3>1
  <2>6. CASE k.todo = <<"ymicp", "zhihu">>
    <3>1. p = "ymicp" /\ rest = <<"zhihu">>
      BY <2>6
    <3>. QED  BY <2>6, <3>1
  <2>7. CASE k.todo = <<"ymicp", "tianyancha">>
    <3>1. p = "ymicp" /\ rest = <<"tianyancha">>
      BY <2>7
    <3>. QED  BY <2>7, <3>1
  <2>8. CASE k.todo = <<"ymicp", "tianyancha", "zhihu">>
    <3>1. p = "ymicp" /\ rest = <<"tianyancha", "zhihu">>
      BY <2>8
    <3>. QED  BY <2>8, <3>1
  <2>. QED  BY <1>1, <1>3, <2>1, <2>2, <2>3, <2>4, <2>5, <2>6, <2>7, <2>8
<1>5. p \in Range(Discovery)
  <2>1. DOMAIN Discovery = 1 .. 4 /\ Discovery[1] = "ymicp" /\ Discovery[2] = "tianyancha"
        /\ Discovery[3] = "zhihu" /\ Discovery[4] = "serper"
    BY DEF Discovery
  <2>. QED  BY <1>4, <2>1 DEF Range
<1>6. c \in Ids
  BY <1>5 DEF Ids
<1>7. /\ Gates' /\ h \in Searches /\ calls' = [calls EXCEPT ![r] = h]
      /\ DOMAIN h = {c} /\ h[c].tries = 0
  BY <1>1, <1>6, AskingStep
<1>. HIDE DEF rest, p, h, k
<1>8. /\ m \in Orchestrator /\ m.pc = k.pc /\ m.todo = rest /\ m.left = k.left
      /\ m.outcomes = k.outcomes /\ m.entries = k.entries /\ m.saved = k.saved /\ m.status = k.status
      /\ m.told = k.told /\ m.heard = k.heard /\ m.spent = k.spent /\ m.asked = k.asked
  BY <1>2, <1>4 DEF Orchestrator, Sound
<1>. HIDE DEF m
<1>9. Careers(m) = Careers(k)
  BY <1>8 DEF Careers
<1>10. Informed(r, m)
  BY <1>2, <1>8 DEF Sound, Informed
<1>11. Staged(enabled, m, h)
  BY <1>1, <1>4, <1>5, <1>7, <1>8 DEF Staged, k
<1>12. Asking(enabled, m, h)
  BY <1>1, <1>2, <1>8, <1>9 DEF Sound, Asking, k
<1>13. Ended(enabled, m)
  BY <1>2, <1>8, <1>9 DEF Sound, Ended
<1>14. Spending(m, h)
  <2>1. ASSUME T \in DOMAIN h PROVE p = "tianyancha" /\ T = c
    BY <1>7, <2>1 DEF T
  <2>2. k.todo \notin LateOrders => k.spent = 0
    BY <1>2 DEF Sound, Spending
  <2>3. MaxAttempts \in Nat \ {0}
    BY LimitsAssumption
  <2>. QED  BY <1>4, <1>7, <1>8, <2>1, <2>2, <2>3 DEF Spending
<1>15. Sound(enabled, r, m, h)
  BY <1>7, <1>8, <1>10, <1>11, <1>12, <1>13, <1>14 DEF Sound
<1>. QED  BY <1>1, <1>7, <1>15, OneRunMoves DEF h

\* k with another place, list, end and pages saved.
Moved(k, pc, left, status, saved) ==
  [k EXCEPT !.pc = pc, !.left = left, !.status = status, !.saved = saved]

\* That are what they should be.
Fitting(pc, left, status, saved) ==
  /\ pc \in {"discovery", "queries", "pages", "persist", "done"}
  /\ left \in SUBSET (AllQueries \cup Urls)
  /\ status \in {"absent", "running", "succeeded", "partial", "failed", "raised", "retry"}
  /\ saved \in SUBSET (Urls \X Companies)

\* A step of an orchestrator that changes no more than its place, its list and its end.
LEMMA Onward ==
  ASSUME NEW e, NEW r, NEW k, NEW g, Sound(e, r, k, g),
         NEW pc, NEW left, NEW status, NEW saved, Fitting(pc, left, status, saved),
         NEW m, m = Moved(k, pc, left, status, saved)
  PROVE  /\ m \in Orchestrator /\ m.pc = pc /\ m.todo = k.todo /\ m.left = left
         /\ m.outcomes = k.outcomes /\ m.entries = k.entries /\ m.saved = saved /\ m.status = status
         /\ m.told = k.told /\ m.heard = k.heard /\ m.spent = k.spent /\ m.asked = k.asked
         /\ m.page = k.page /\ m.blocks = k.blocks
         /\ Informed(r, m) /\ Careers(m) = Careers(k) /\ Spending(m, g)
<1>1. k \in Orchestrator /\ Informed(r, k) /\ Spending(k, g)
  BY DEF Sound
<1>2. /\ m \in Orchestrator /\ m.pc = pc /\ m.todo = k.todo /\ m.left = left
      /\ m.outcomes = k.outcomes /\ m.entries = k.entries /\ m.saved = saved /\ m.status = status
      /\ m.told = k.told /\ m.heard = k.heard /\ m.spent = k.spent /\ m.asked = k.asked
      /\ m.page = k.page /\ m.blocks = k.blocks
  BY <1>1 DEF Orchestrator, Moved, Fitting
<1>3. Informed(r, m)
  BY <1>1, <1>2 DEF Informed
<1>4. Careers(m) = Careers(k)
  BY <1>2 DEF Careers
<1>5. Spending(m, g)
  BY <1>1, <1>2 DEF Spending
<1>. QED  BY <1>2, <1>3, <1>4, <1>5

LEMMA OrchestratorParts ==
  ASSUME PipelineInv, NEW r \in Collected
  PROVE  /\ run[r].pc \in {"discovery", "queries", "pages", "persist", "done"}
         /\ run[r].left \in SUBSET (AllQueries \cup Urls) /\ run[r].saved \in SUBSET (Urls \X Companies)
         /\ run[r].status \in {"absent", "running", "succeeded", "partial", "failed", "raised", "retry"}
         /\ run[r].page \in SUBSET Urls
         /\ \A pc, left : [run[r] EXCEPT !.pc = pc, !.left = left]
              = Moved(run[r], pc, left, run[r].status, run[r].saved)
         /\ \A left : [run[r] EXCEPT !.left = left]
              = Moved(run[r], run[r].pc, left, run[r].status, run[r].saved)
         /\ \A pc, saved : [run[r] EXCEPT !.pc = pc, !.saved = saved]
              = Moved(run[r], pc, run[r].left, run[r].status, saved)
         /\ \A pc, status : [run[r] EXCEPT !.pc = pc, !.status = status]
              = Moved(run[r], pc, run[r].left, status, run[r].saved)
<1>1. run[r] \in Orchestrator
  BY RunFacts DEF Sound
<1>2. ASSUME NEW pc, NEW left
      PROVE  /\ [run[r] EXCEPT !.pc = pc, !.left = left]
                  = Moved(run[r], pc, left, run[r].status, run[r].saved)
             /\ [run[r] EXCEPT !.left = left]
                  = Moved(run[r], run[r].pc, left, run[r].status, run[r].saved)
  BY <1>1 DEF Orchestrator, Moved
<1>3. ASSUME NEW pc, NEW x
      PROVE  /\ [run[r] EXCEPT !.pc = pc, !.saved = x]
                  = Moved(run[r], pc, run[r].left, run[r].status, x)
             /\ [run[r] EXCEPT !.pc = pc, !.status = x]
                  = Moved(run[r], pc, run[r].left, x, run[r].saved)
  BY <1>1 DEF Orchestrator, Moved
<1>. QED  BY <1>1, <1>2, <1>3 DEF Orchestrator

\* What a run must ask for are pages.
LEMMA CareersAreUrls ==
  ASSUME PipelineInv, NEW r \in Collected
  PROVE  Careers(run[r]) \subseteq Urls /\ CareerUrls(r) = Careers(run[r])
<1>. DEFINE k == run[r]
            docs == UNION {k.outcomes[p].docs : p \in Providers \ {"ats"}}
<1>1. Informed(r, k)
  BY RunFacts DEF Sound
<1>2. docs \subseteq AllDocs /\ k.entries \subseteq Doc
  BY <1>1, DocsAreKnown DEF Informed
<1>3. docs \ {Registration} \subseteq Doc
  BY <1>2, DocsAreKnown
<1>4. \A d \in Doc : d.url \in Urls
  BY DEF Doc
<1>5. CareerUrls(r) = Careers(k)
  BY DEF CareerUrls, Careers, HighConfidence, Scanned, Documents
<1>6. Careers(k) \subseteq Urls
  <2>. HIDE DEF docs
  <2>1. Careers(k) = {d.url : d \in {e \in k.entries : Confidence(e) >= 60} \cup {e \in docs \ {Registration} : e.mention \/ e.title}}
    BY DEF Careers, docs
  <2>. QED  BY <1>2, <1>3, <1>4, <2>1
<1>. QED  BY <1>5, <1>6

LEMMA StartQueriesKeepsInv ==
  ASSUME PipelineInv, NEW r \in Collected, StartQueries(r)
  PROVE  PipelineInv'
<1>. DEFINE k == run[r]
            g == calls[r]
            left == IF enabled \cap {"serper", "zhihu"} = {} THEN {} ELSE SiteQueries[r]
            m == [k EXCEPT !.pc = "queries", !.left = left]
<1>1. k.pc = "discovery" /\ DOMAIN g = {} /\ Becomes(r, m) /\ UNCHANGED <<enabled, gates, calls>>
  BY DEF StartQueries, At, Waits
<1>2. Sound(enabled, r, k, g)
  BY RunFacts
<1>3. left \in SUBSET (AllQueries \cup Urls) /\ left \subseteq AllQueries
  BY DocsAreKnown
<1>4. m = Moved(k, "queries", left, k.status, k.saved)
  BY OrchestratorParts
<1>5. Fitting("queries", left, k.status, k.saved)
  BY <1>3, OrchestratorParts DEF Fitting
<1>. HIDE DEF left, m, k, g
<1>6. /\ m \in Orchestrator /\ m.pc = "queries" /\ m.left = left /\ m.saved = k.saved /\ m.status = k.status
      /\ m.asked = k.asked /\ m.told = k.told
      /\ Informed(r, m) /\ Careers(m) = Careers(k) /\ Spending(m, g)
  BY <1>2, <1>3, <1>4, <1>5, Onward
<1>7. Staged(enabled, m, g)
  BY <1>1, <1>3, <1>6 DEF Staged
<1>8. Asking(enabled, m, g) /\ Ended(enabled, m)
  BY <1>1, <1>2, <1>6 DEF Sound, Asking, Ended
<1>9. Sound(enabled, r, m, g)
  BY <1>2, <1>6, <1>7, <1>8 DEF Sound
<1>. QED  BY <1>1, <1>9, QuietStep DEF g

LEMMA SiteQueryKeepsInv ==
  ASSUME PipelineInv, NEW r \in Collected, SiteQuery(r)
  PROVE  PipelineInv'
<1>1. PICK q \in run[r].left :
        /\ run[r].pc = "queries" /\ UNCHANGED <<enabled, gates>>
        /\ IF "serper" \in enabled
           THEN Cardinality(DOMAIN calls[r]) < SiteLimit /\ Ask(r, <<"serper", q>>)
           ELSE Waits(r) /\ Ask(r, <<"zhihu", q>>)
        /\ Becomes(r, [run[r] EXCEPT !.left = @ \ {q}])
  BY DEF SiteQuery, At
<1>. DEFINE k == run[r]
            g == calls[r]
            h == calls'[r]
            left == k.left \ {q}
            m == [k EXCEPT !.left = left]
<1>2. Sound(enabled, r, k, g) /\ q \in AllQueries
  BY <1>1, RunFacts DEF Sound, Staged
<1>3. PICK c \in {"serper", "zhihu"} \X AllQueries : Ask(r, c)
  BY <1>1, <1>2
<1>4. c \in Ids /\ c # T /\ c[1] # "ats"
  BY <1>3 DEF Ids, T
<1>5. /\ Gates' /\ h \in Searches /\ calls' = [calls EXCEPT ![r] = h]
      /\ DOMAIN h = DOMAIN g \cup {c}
      /\ \A d \in DOMAIN g : d # c => h[d] = g[d]
  BY <1>1, <1>3, <1>4, AskingStep
<1>6. m = Moved(k, k.pc, left, k.status, k.saved)
  BY OrchestratorParts
<1>7. Fitting(k.pc, left, k.status, k.saved)
  BY OrchestratorParts DEF Fitting
<1>8. run' = [run EXCEPT ![r] = m] /\ k.pc = "queries" /\ left \subseteq k.left
  BY <1>1 DEF Becomes
<1>. HIDE DEF left, m, k, g, h
<1>9. /\ m \in Orchestrator /\ m.pc = k.pc /\ m.left = left /\ m.saved = k.saved /\ m.status = k.status
      /\ m.asked = k.asked /\ m.told = k.told
      /\ Informed(r, m) /\ Careers(m) = Careers(k) /\ Spending(m, g)
  BY <1>2, <1>6, <1>7, Onward
<1>10. Staged(enabled, m, h)
  BY <1>2, <1>3, <1>4, <1>5, <1>8, <1>9 DEF Sound, Staged
<1>11. Asking(enabled, m, h) /\ Ended(enabled, m)
  BY <1>2, <1>8, <1>9 DEF Sound, Asking, Ended
<1>12. Spending(m, h)
  BY <1>4, <1>5, <1>9 DEF Spending
<1>13. Sound(enabled, r, m, h)
  BY <1>5, <1>9, <1>10, <1>11, <1>12 DEF Sound
<1>. QED  BY <1>1, <1>5, <1>8, <1>13, OneRunMoves DEF h

LEMMA EndQueriesKeepsInv ==
  ASSUME PipelineInv, NEW r \in Collected, EndQueries(r)
  PROVE  PipelineInv'
<1>. DEFINE k == run[r]
            g == calls[r]
            left == Careers(k)
            m == [k EXCEPT !.pc = "pages", !.left = left]
            n == [k EXCEPT !.pc = "done", !.status = "failed"]
<1>1. /\ k.pc = "queries" /\ DOMAIN g = {} /\ UNCHANGED <<enabled, gates, calls>>
      /\ IF Careers(k) = {} THEN Becomes(r, n) ELSE Becomes(r, m)
  BY CareersAreUrls DEF EndQueries, At, Waits, Ends
<1>2. Sound(enabled, r, k, g)
  BY RunFacts
<1>3. left \in SUBSET (AllQueries \cup Urls) /\ left \subseteq Urls
  BY CareersAreUrls
<1>4. /\ m = Moved(k, "pages", left, k.status, k.saved)
      /\ n = Moved(k, "done", k.left, "failed", k.saved)
  BY OrchestratorParts
<1>5. Fitting("pages", left, k.status, k.saved) /\ Fitting("done", k.left, "failed", k.saved)
  BY <1>3, OrchestratorParts DEF Fitting
<1>. HIDE DEF m, n, k, g
<1>6. CASE Careers(k) = {}
  <2>1. /\ n \in Orchestrator /\ n.pc = "done" /\ n.saved = k.saved /\ n.status = "failed"
        /\ n.asked = k.asked
        /\ Informed(r, n) /\ Careers(n) = Careers(k) /\ Spending(n, g)
    BY <1>2, <1>4, <1>5, Onward
  <2>2. Staged(enabled, n, g)
    BY <1>1, <2>1 DEF Staged
  <2>3. Asking(enabled, n, g) /\ Ended(enabled, n)
    BY <1>1, <1>2, <1>6, <2>1 DEF Sound, Asking, Ended
  <2>4. Sound(enabled, r, n, g)
    BY <1>2, <2>1, <2>2, <2>3 DEF Sound
  <2>. QED  BY <1>1, <1>6, <2>4, QuietStep DEF g
<1>7. CASE Careers(k) # {}
  <2>1. /\ m \in Orchestrator /\ m.pc = "pages" /\ m.left = Careers(k) /\ m.saved = k.saved /\ m.status = k.status
        /\ m.asked = k.asked
        /\ Informed(r, m) /\ Careers(m) = Careers(k) /\ Spending(m, g)
    BY <1>2, <1>3, <1>4, <1>5, Onward
  <2>2. Staged(enabled, m, g)
    BY <1>1, <2>1 DEF Staged
  <2>3. Pending(m, g) = Careers(k)
    BY <1>1, <2>1 DEF Pending
  <2>4. Asking(enabled, m, g) /\ Ended(enabled, m)
    BY <1>1, <1>2, <2>1, <2>3 DEF Sound, Asking, Ended
  <2>5. Sound(enabled, r, m, g)
    BY <1>2, <2>1, <2>2, <2>4 DEF Sound
  <2>. QED  BY <1>1, <1>7, <2>5, QuietStep DEF g
<1>. QED  BY <1>6, <1>7

LEMMA VisitPageKeepsInv ==
  ASSUME PipelineInv, NEW r \in Collected, VisitPage(r)
  PROVE  PipelineInv'
<1>1. PICK u \in run[r].left :
        /\ run[r].pc = "pages" /\ DOMAIN calls[r] = {} /\ UNCHANGED <<enabled, gates>>
        /\ IF "ats" \in enabled THEN Ask(r, <<"ats", u>>) ELSE UNCHANGED calls
        /\ Becomes(r, [run[r] EXCEPT !.left = @ \ {u}])
  BY DEF VisitPage, At, Waits
<1>. DEFINE k == run[r]
            g == calls[r]
            h == calls'[r]
            c == <<"ats", u>>
            left == k.left \ {u}
            m == [k EXCEPT !.left = left]
<1>2. Sound(enabled, r, k, g) /\ u \in Careers(k) /\ u \in Urls
  <2>1. Sound(enabled, r, k, g) /\ u \in Careers(k)
    BY <1>1, RunFacts DEF Sound, Asking, Pending
  <2>. QED  BY <2>1, CareersAreUrls
<1>3. c \in Ids /\ c[1] = "ats" /\ c[2] = u /\ c # T /\ c \in {"ats"} \X Urls
  BY <1>2 DEF Ids, T
<1>4. m = Moved(k, k.pc, left, k.status, k.saved)
  BY OrchestratorParts
<1>5. Fitting(k.pc, left, k.status, k.saved)
  BY OrchestratorParts DEF Fitting
<1>6. Becomes(r, m) /\ k.pc = "pages" /\ left \cup {u} = k.left /\ DOMAIN g = {}
  BY <1>1
<1>. HIDE DEF m, k, g, h
<1>7. /\ m \in Orchestrator /\ m.pc = k.pc /\ m.left = left /\ m.saved = k.saved /\ m.status = k.status
      /\ m.asked = k.asked /\ m.told = k.told
      /\ Informed(r, m) /\ Careers(m) = Careers(k) /\ Spending(m, g)
  BY <1>2, <1>4, <1>5, Onward
<1>. HIDE DEF left
<1>8. Pending(k, g) = left \cup {u}
  BY <1>6 DEF Pending
<1>9. Ended(enabled, m)
  BY <1>2, <1>6, <1>7 DEF Sound, Ended
<1>10. CASE "ats" \in enabled
  <2>1. /\ Gates' /\ h \in Searches /\ calls' = [calls EXCEPT ![r] = h]
        /\ DOMAIN h = {c} /\ h[c].st = "queued"
    <3>1. Ask(r, c)
      BY <1>1, <1>10
    <3>. HIDE DEF c
    <3>. QED  BY <1>1, <1>3, <3>1, AskingStep DEF h
  <2>2. Pending(m, h) = left \cup {u}
    BY <1>3, <1>7, <2>1 DEF Pending
  <2>. HIDE DEF c
  <2>3. Staged(enabled, m, h)
    BY <1>3, <1>6, <1>7, <1>10, <2>1 DEF Staged
  <2>4. Asking(enabled, m, h)
    BY <1>2, <1>6, <1>7, <1>8, <2>2 DEF Sound, Asking
  <2>5. Spending(m, h)
    BY <1>3, <1>7, <2>1 DEF Spending
  <2>6. Sound(enabled, r, m, h)
    BY <1>7, <1>9, <2>1, <2>3, <2>4, <2>5 DEF Sound
  <2>. QED  BY <1>1, <1>6, <2>1, <2>6, OneRunMoves DEF h, Becomes
<1>11. CASE "ats" \notin enabled
  <2>1. Pending(m, g) \subseteq Pending(k, g)
    BY <1>6, <1>7, <1>8 DEF Pending
  <2>2. Staged(enabled, m, g)
    BY <1>6, <1>7 DEF Staged
  <2>3. Asking(enabled, m, g)
    BY <1>2, <1>6, <1>7, <1>11, <2>1 DEF Sound, Asking
  <2>4. Sound(enabled, r, m, g)
    BY <1>2, <1>7, <1>9, <2>2, <2>3 DEF Sound
  <2>. QED  BY <1>1, <1>6, <1>11, <2>4, QuietStep DEF g
<1>. QED  BY <1>10, <1>11

LEMMA PersistKeepsInv ==
  ASSUME PipelineInv, NEW r \in Collected, Persist(r)
  PROVE  PipelineInv'
<1>. DEFINE k == run[r]
            g == calls[r]
<1>1. PICK company \in SUBSET Companies :
        /\ k.pc = "persist" /\ UNCHANGED <<enabled, gates, calls>>
        /\ Becomes(r, [k EXCEPT !.pc = "pages", !.saved = @ \cup (k.page \X company)])
  BY DEF Persist, At
<1>. DEFINE saved == k.saved \cup (k.page \X company)
            m == [k EXCEPT !.pc = "pages", !.saved = saved]
<1>2. Sound(enabled, r, k, g) /\ Becomes(r, m)
  BY <1>1, RunFacts
<1>3. Fitting("pages", k.left, k.status, saved)
  BY OrchestratorParts DEF Fitting
<1>4. m = Moved(k, "pages", k.left, k.status, saved)
  <2>1. \A pc, x : [k EXCEPT !.pc = pc, !.saved = x] = Moved(k, pc, k.left, k.status, x)
    BY OrchestratorParts
  <2>. QED  BY <2>1
<1>5. DOMAIN g = {}
  BY <1>1, <1>2 DEF Sound, Staged
<1>. HIDE DEF m, k, g, saved
<1>6. /\ m \in Orchestrator /\ m.pc = "pages" /\ m.left = k.left /\ m.status = k.status
      /\ m.asked = k.asked
      /\ Informed(r, m) /\ Careers(m) = Careers(k) /\ Spending(m, g)
  BY <1>2, <1>3, <1>4, Onward
<1>7. Pending(m, g) = Pending(k, g)
  BY <1>6 DEF Pending
<1>8. Staged(enabled, m, g)
  BY <1>5, <1>6 DEF Staged
<1>9. Asking(enabled, m, g) /\ Ended(enabled, m)
  BY <1>1, <1>2, <1>6, <1>7 DEF Sound, Asking, Ended
<1>10. Sound(enabled, r, m, g)
  BY <1>2, <1>6, <1>8, <1>9 DEF Sound
<1>. QED  BY <1>1, <1>2, <1>10, QuietStep DEF g

\* A run ends with a status that its pages and its outcomes justify.
LEMMA EndKeepsInv ==
  ASSUME PipelineInv, NEW r \in Collected, UNCHANGED <<enabled, gates, calls>>, DOMAIN calls[r] = {},
         NEW status \in {"succeeded", "partial", "failed", "raised", "retry"}, Ends(r, status),
         status = "succeeded" => run[r].saved # {} /\ ~run[r].told,
         status = "partial" => run[r].saved # {} /\ run[r].told,
         status = "failed" => run[r].saved = {},
         status \in {"succeeded", "partial", "failed"} /\ "ats" \in enabled => Careers(run[r]) \subseteq run[r].asked,
         run[r].pc \in {"pages", "persist"}
  PROVE  PipelineInv'
<1>. DEFINE k == run[r]
            g == calls[r]
            m == [k EXCEPT !.pc = "done", !.status = status]
<1>1. Sound(enabled, r, k, g) /\ Becomes(r, m)
  BY RunFacts DEF Ends
<1>2. Fitting("done", k.left, status, k.saved)
  BY OrchestratorParts DEF Fitting
<1>3. m = Moved(k, "done", k.left, status, k.saved)
  BY OrchestratorParts
<1>4. k.asked \subseteq Careers(k)
  BY <1>1 DEF Sound, Asking
<1>. HIDE DEF m
<1>5. /\ m \in Orchestrator /\ m.pc = "done" /\ m.status = status /\ m.saved = k.saved
      /\ m.asked = k.asked /\ m.told = k.told
      /\ Informed(r, m) /\ Careers(m) = Careers(k) /\ Spending(m, g)
  BY <1>1, <1>2, <1>3, Onward
<1>6. Staged(enabled, m, g)
  BY <1>5 DEF Staged
<1>7. Asking(enabled, m, g)
  BY <1>4, <1>5 DEF Asking
<1>8. Ended(enabled, m)
  BY <1>5 DEF Ended
<1>9. Sound(enabled, r, m, g)
  BY <1>1, <1>5, <1>6, <1>7, <1>8 DEF Sound
<1>. QED  BY <1>1, <1>9, QuietStep

LEMMA PersistRaisesKeepsInv ==
  ASSUME PipelineInv, NEW r \in Collected, PersistRaises(r)
  PROVE  PipelineInv'
<1>1. PICK status \in {"raised", "retry"} :
        run[r].pc = "persist" /\ Ends(r, status) /\ UNCHANGED <<enabled, gates, calls>>
  BY DEF PersistRaises, At
<1>2. DOMAIN calls[r] = {}
  BY <1>1, RunFacts DEF Sound, Staged
<1>. QED  BY <1>1, <1>2, EndKeepsInv

LEMMA FinishRunKeepsInv ==
  ASSUME PipelineInv, NEW r \in Collected, FinishRun(r)
  PROVE  PipelineInv'
<1>. DEFINE k == run[r]
            g == calls[r]
<1>1. /\ k.pc = "pages" /\ DOMAIN g = {} /\ k.left = {} /\ Ends(r, Status(r))
      /\ UNCHANGED <<enabled, gates, calls>>
  BY DEF FinishRun, At, Waits
<1>2. Sound(enabled, r, k, g)
  BY RunFacts
<1>3. k.told <=> ProviderError(r)
  BY <1>2 DEF Sound, Informed, ProviderError
<1>4. "ats" \in enabled => Careers(k) \subseteq k.asked
  <2>1. Pending(k, g) = {}
    BY <1>1 DEF Pending
  <2>. QED  BY <1>1, <1>2, <2>1 DEF Sound, Asking
<1>5. /\ Status(r) \in {"succeeded", "partial", "failed", "raised", "retry"}
      /\ Status(r) = "succeeded" => k.saved # {} /\ ~k.told
      /\ Status(r) = "partial" => k.saved # {} /\ k.told
      /\ Status(r) = "failed" => k.saved = {}
  BY <1>3 DEF Status
<1>. QED  BY <1>1, <1>4, <1>5, EndKeepsInv

LEMMA Joined ==
  ASSUME NEW a, NEW b, NEW c
  PROVE  <<a>> \o <<b>> = <<a, b>> /\ <<a, b>> \o <<c>> = <<a, b, c>>
<1>. DEFINE S == {a, b, c}
<1>1. /\ <<a>> \in Seq(S) /\ <<b>> \in Seq(S) /\ <<c>> \in Seq(S) /\ <<a, b>> \in Seq(S)
      /\ <<a, b, c>> \in Seq(S) /\ <<a>> \o <<b>> \in Seq(S) /\ <<a, b>> \o <<c>> \in Seq(S)
  OBVIOUS
<1>2. /\ Len(<<a>> \o <<b>>) = 2 /\ Len(<<a, b>>) = 2 /\ Len(<<a, b>> \o <<c>>) = 3 /\ Len(<<a, b, c>>) = 3
      /\ \A i \in 1 .. 2 : (<<a>> \o <<b>>)[i] = <<a, b>>[i]
      /\ \A i \in 1 .. 3 : (<<a, b>> \o <<c>>)[i] = <<a, b, c>>[i]
  BY <1>1
<1>3. <<a>> \o <<b>> = <<a, b>>
  BY <1>1, <1>2, SeqEqual
<1>. QED  BY <1>1, <1>2, <1>3, SeqEqual

LEMMA PipelineInitially == PipelineInit => PipelineInv
<1>. SUFFICES ASSUME PipelineInit PROVE PipelineInv
  OBVIOUS
<1>1. PICK d \in Deployments :
        /\ enabled = d.enabled
        /\ gates = [p \in Providers |-> 0]
        /\ run = [r \in Collected |->
             IF r \in d.runs THEN [Fresh EXCEPT !.todo = Listed] ELSE [Fresh EXCEPT !.pc = "done", !.status = "absent"]]
        /\ calls = [r \in Collected |-> <<>>]
  BY DEF PipelineInit
<1>2. Listed \in Orders
  <2>. DEFINE y == Offered("ymicp")
              t == Offered("tianyancha")
              z == Offered("zhihu")
  <2>1. y \in {<<>>, <<"ymicp">>} /\ t \in {<<>>, <<"tianyancha">>} /\ z \in {<<>>, <<"zhihu">>}
    BY DEF Offered
  <2>. HIDE DEF y, t, z
  <2>5. /\ <<"ymicp">> \o <<"tianyancha">> = <<"ymicp", "tianyancha">>
        /\ <<"ymicp">> \o <<"zhihu">> = <<"ymicp", "zhihu">>
        /\ <<"tianyancha">> \o <<"zhihu">> = <<"tianyancha", "zhihu">>
        /\ <<"ymicp", "tianyancha">> \o <<"zhihu">> = <<"ymicp", "tianyancha", "zhihu">>
    BY Joined
  <2>6. /\ <<>> \o <<"tianyancha">> = <<"tianyancha">> /\ <<>> \o <<"zhihu">> = <<"zhihu">>
        /\ <<"ymicp">> \o <<>> = <<"ymicp">> /\ <<"tianyancha">> \o <<>> = <<"tianyancha">>
        /\ <<"ymicp", "tianyancha">> \o <<>> = <<"ymicp", "tianyancha">> /\ <<>> \o <<>> = <<>>
    OBVIOUS
  <2>2. y \o t \in {<<>>, <<"ymicp">>, <<"tianyancha">>, <<"ymicp", "tianyancha">>}
    BY <2>1, <2>5, <2>6
  <2>3. y \o t \o z \in Orders
    BY <2>1, <2>2, <2>5, <2>6 DEF Orders
  <2>4. Listed = IF "serper" \in enabled THEN <<"serper">> ELSE y \o t \o z
    BY DEF Listed, y, t, z
  <2>. QED  BY <2>3, <2>4 DEF Orders
<1>3. DOMAIN <<>> = {} /\ <<>> \in Searches
  <2>1. <<>> \in [{} -> Calls]
    OBVIOUS
  <2>. QED  BY <2>1 DEF Searches
<1>4. Fresh \in Orchestrator
  <2>1. NoOutcome \in Outcome
    BY DEF NoOutcome, Outcome, Issues
  <2>2. 0 \in 0 .. MaxAttempts /\ 0 \in 0 .. BlockThreshold
    BY LimitsAssumption
  <2>. QED  BY <2>1, <2>2 DEF Fresh, Orchestrator, Orders
<1>5. ASSUME NEW r \in Collected PROVE Sound(enabled, r, run[r], calls[r])
  <2>. DEFINE k == run[r]
              g == calls[r]
  <2>1. DOMAIN g = {} /\ g \in Searches
    BY <1>1, <1>3
  <2>2. /\ k \in Orchestrator /\ k.outcomes = [p \in Providers |-> NoOutcome] /\ k.told = FALSE /\ k.heard = {}
        /\ k.entries = {} /\ k.saved = {} /\ k.asked = {} /\ k.spent = 0
        /\ \/ k.pc = "discovery" /\ k.status = "running"
           \/ k.pc = "done" /\ k.status = "absent"
    <3>1. CASE r \in d.runs
      <4>1. k = [Fresh EXCEPT !.todo = Listed]
        BY <1>1, <3>1
      <4>2. k \in Orchestrator
        BY <1>2, <1>4, <4>1 DEF Orchestrator
      <4>. QED  BY <4>1, <4>2 DEF Fresh
    <3>2. CASE r \notin d.runs
      <4>1. k = [Fresh EXCEPT !.pc = "done", !.status = "absent"]
        BY <1>1, <3>2
      <4>2. k \in Orchestrator
        BY <1>4, <4>1 DEF Orchestrator
      <4>. QED  BY <4>1, <4>2 DEF Fresh
    <3>. QED  BY <3>1, <3>2
  <2>. HIDE DEF k, g
  <2>3. \A p \in Providers : k.outcomes[p].docs = {} /\ k.outcomes[p].issue = "none"
    BY <2>2 DEF NoOutcome
  <2>4. Informed(r, k)
    <3>1. UNION {k.outcomes[p].docs : p \in Providers} = {}
      BY <2>3
    <3>. QED  BY <2>2, <2>3, <3>1, ProvidersAre DEF Informed
  <2>5. Staged(enabled, k, g)
    BY <2>1, <2>2 DEF Staged
  <2>6. Asking(enabled, k, g) /\ Ended(enabled, k)
    BY <2>2 DEF Asking, Ended
  <2>7. Spending(k, g)
    BY <2>1, <2>2 DEF Spending
  <2>. QED  BY <2>1, <2>2, <2>4, <2>5, <2>6, <2>7 DEF Sound, k, g
<1>6. Gates
  <2>1. \A p : Inside(p) = {}
    BY <1>1, <1>3 DEF Inside
  <2>2. IsFiniteSet({}) /\ Cardinality({}) = 0
    BY FS_EmptySet
  <2>3. StartsKeepApart
    BY <2>1 DEF StartsKeepApart
  <2>4. gates \in [Providers -> Nat]
    BY <1>1
  <2>5. MaxConcurrency \in Nat
    BY LimitsAssumption
  <2>6. \A p \in Providers : IsFiniteSet(Inside(p)) /\ Cardinality(Inside(p)) <= MaxConcurrency
    BY <2>1, <2>2, <2>5
  <2>. QED  BY <2>1, <2>3, <2>4, <2>6 DEF Gates
<1>. QED  BY <1>1, <1>5, <1>6 DEF PipelineInv

LEMMA PipelineStep == PipelineInv /\ [PipelineNext]_pipelineVars => PipelineInv'
<1>. SUFFICES ASSUME PipelineInv, [PipelineNext]_pipelineVars PROVE PipelineInv'
  OBVIOUS
<1>1. CASE Tick
  BY <1>1, TickKeepsInv
<1>2. ASSUME NEW r \in Collected, Call(r) PROVE PipelineInv'
  <2>1. PICK c \in DOMAIN calls[r] :
          \/ TakeThread(r, c) \/ Acquire(r, c) \/ Start(r, c) \/ Connect(r, c)
          \/ PageAnswer(r, c) \/ Answer(r, c) \/ Starve(r, c) \/ CliFails(r, c) \/ CliEnds(r, c)
    BY <1>2 DEF Call
  <2>. QED  BY <2>1, GateStepsKeepInv, StartKeepsInv, PageAnswerKeepsInv, AnswerKeepsInv, StarveKeepsInv,
               CliFailsKeepsInv, CliEndsKeepsInv
<1>3. ASSUME NEW r \in Collected, Step(r) PROVE PipelineInv'
  BY <1>3, SearchNameKeepsInv, StartQueriesKeepsInv, SiteQueryKeepsInv, EndQueriesKeepsInv, VisitPageKeepsInv,
     PersistKeepsInv, PersistRaisesKeepsInv, FinishRunKeepsInv DEF Step
<1>4. CASE UNCHANGED pipelineVars
  <2>1. UNCHANGED <<enabled, gates, run, calls>>
    BY <1>4 DEF pipelineVars
  <2>2. Gates'
    <3>1. \A r \in Collected : \A c \in DOMAIN calls'[r] : calls'[r][c].st \in InGate =>
            c \in DOMAIN calls[r] /\ calls[r][c].st \in InGate /\ calls'[r][c].wait = calls[r][c].wait
      BY <2>1
    <3>. QED  BY <2>1, <3>1, GatesKept DEF PipelineInv
  <2>. QED  BY <2>1, <2>2 DEF PipelineInv
<1>. QED  BY <1>1, <1>2, <1>3, <1>4 DEF PipelineNext

LEMMA PipelineInvariant == PipelineSpec => []PipelineInv
BY PipelineInitially, PipelineStep, PTL DEF PipelineSpec

\* Of every run: a status of success means that pages were saved and no listed
\* provider ever complained, a partial one that one did, and a failed one that nothing
\* was saved, whatever searches fail, starve or are answered late.
THEOREM StatusIsEarned == PipelineSpec => []StatusTellsOutcome
<1>1. PipelineInv => StatusTellsOutcome
  BY DEF PipelineInv, Sound, Ended, StatusTellsOutcome
<1>. QED  BY <1>1, PipelineInvariant, PTL

\* A run that ends has asked for exactly the pages that its finds call for.
THEOREM NamedPagesAreVisited == PipelineSpec => []NamedPagesAreAsked
<1>1. ASSUME PipelineInv, NEW r \in Collected PROVE Named(r) = Careers(run[r])
  <2>. DEFINE k == run[r]
              docs == UNION {k.outcomes[p].docs : p \in Providers \ {"ats"}}
  <2>1. Informed(r, k)
    BY <1>1, RunFacts DEF Sound
  <2>2. k.heard \ (Urls \cup {Registration}) = docs \ {Registration}
    <3>1. ASSUME NEW x PROVE x \in k.heard \ Urls <=> x \in docs
      <4>1. x \in k.heard <=> \E p \in Providers : x \in k.outcomes[p].docs
        BY <2>1 DEF Informed
      <4>2. x \in docs <=> \E p \in Providers \ {"ats"} : x \in k.outcomes[p].docs
        OBVIOUS
      <4>3. "ats" \in Providers /\ (x \in k.outcomes["ats"].docs => x \in Urls)
        BY <2>1, ProvidersAre DEF Informed
      <4>4. ASSUME NEW p \in Providers \ {"ats"}, x \in k.outcomes[p].docs PROVE x \notin Urls
        BY <2>1, <4>4, DocsAssumption DEF Informed
      <4>. QED  BY <4>1, <4>2, <4>3, <4>4
    <3>. QED  BY <3>1
  <2>3. k.entries \subseteq Doc
    BY <2>1, DocsAreKnown DEF Informed
  <2>4. {e \in k.entries : Confidence(e) >= 60} = {e \in k.entries : e.ats /\ e.mention /\ e.similarity = 100}
    BY <2>3, HighConfidenceNamesInFull
  <2>. HIDE DEF docs
  <2>5. Careers(k) = {d.url : d \in {e \in k.entries : Confidence(e) >= 60} \cup {e \in docs \ {Registration} : e.mention \/ e.title}}
    BY DEF Careers, docs
  <2>. QED  BY <2>2, <2>4, <2>5 DEF Named
<1>2. PipelineInv => NamedPagesAreAsked
  <2>. SUFFICES ASSUME PipelineInv, NEW r \in Collected
                PROVE  /\ run[r].asked \subseteq Named(r)
                       /\ run[r].status \in {"succeeded", "partial", "failed"} /\ "ats" \in enabled =>
                            run[r].asked = Named(r)
    BY DEF NamedPagesAreAsked
  <2>1. Named(r) = Careers(run[r])
    BY <1>1
  <2>. QED  BY <2>1, RunFacts DEF Sound, Asking, Ended
<1>. QED  BY <1>2, PipelineInvariant, PTL

\* However many runs search at a time, no provider is asked more than MaxConcurrency
\* times at once.
THEOREM ProvidersAreNotCrowded == PipelineSpec => []SlotsAreShared
<1>1. PipelineInv => SlotsAreShared
  BY DEF PipelineInv, Gates, SlotsAreShared
<1>. QED  BY <1>1, PipelineInvariant, PTL

\* The starts of the searches of one provider that are still to come are Interval apart.
THEOREM SearchesAreSpaced == PipelineSpec => []StartsKeepApart
<1>1. PipelineInv => StartsKeepApart
  BY DEF PipelineInv, Gates
<1>. QED  BY <1>1, PipelineInvariant, PTL

\* Every run keeps its shape; the command of Tianyancha is run at most MaxAttempts
\* times for it and a platform that blocks is left alone at the threshold.
THEOREM PipelineTypes == PipelineSpec => []PipelineTypeOK
<1>1. PipelineInv => PipelineTypeOK
  <2>. SUFFICES ASSUME PipelineInv PROVE PipelineTypeOK
    OBVIOUS
  <2>1. {"ymicp", "tianyancha", "zhihu", "serper"} \subseteq Providers
    BY ProvidersAre
  <2>2. Orders \subseteq Seq(Providers)
    <3>1. /\ <<>> \in Seq(Providers)
          /\ \A p \in Providers : <<p>> \in Seq(Providers)
          /\ \A p, q \in Providers : <<p, q>> \in Seq(Providers)
          /\ \A p, q, z \in Providers : <<p, q, z>> \in Seq(Providers)
      OBVIOUS
    <3>. QED  BY <2>1, <3>1 DEF Orders
  <2>3. ASSUME NEW r \in Collected
        PROVE  run[r] \in [pc : {"discovery", "queries", "pages", "persist", "done"}, todo : Seq(Providers),
                      left : SUBSET (AllQueries \cup Urls), outcomes : [Providers -> [docs : SUBSET (AllDocs \cup Urls), issue : Issues]],
                      entries : SUBSET AllDocs, page : SUBSET Urls, saved : SUBSET (Urls \X Companies),
                      blocks : [Platforms -> 0 .. BlockThreshold],
                      status : {"absent", "running", "succeeded", "partial", "failed", "raised", "retry"},
                      told : BOOLEAN, heard : SUBSET (AllDocs \cup Urls), asked : SUBSET Urls, spent : 0 .. MaxAttempts]
    <3>1. run[r] \in Orchestrator
      BY RunFacts DEF Sound
    <3>. QED  BY <2>2, <3>1 DEF Orchestrator, Outcome
  <2>4. ASSUME NEW r \in Collected PROVE DOMAIN calls[r] \subseteq Ids /\ Range(calls[r]) \subseteq Calls
    BY RunFacts DEF Range
  <2>5. gates \in [Providers -> Nat] /\ enabled \in {d.enabled : d \in Deployments}
    BY DEF PipelineInv, Gates
  <2>. QED  BY <2>3, <2>4, <2>5 DEF PipelineTypeOK
<1>. QED  BY <1>1, PipelineInvariant, PTL
=============================================================================
