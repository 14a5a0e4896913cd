----------------------- MODULE CollectionRepositoryProofs -----------------------
(***************************************************************************)
(* Proofs that the invariants and action properties of                     *)
(* CollectionRepository hold for every set of runs and queries and for     *)
(* every bound on the claims.                                              *)
(*                                                                         *)
(* None of the four safety invariants is inductive without the others: that *)
(* one query has one live run rests on the index over *requests*, hence on *)
(* PairsAgree, and that a token names one claim rests on the bound by      *)
(* issued.  The proof splits the invariant into what it says of one row    *)
(* (SoundRow) and of two (Apart), and shows every method to be a RowStep.  *)
(***************************************************************************)
EXTENDS CollectionRepository, TLAPS

IInv == /\ TypeOK
        /\ PairsAgree
        /\ OneActiveRunPerQuery
        /\ TokensNameOneClaim
        /\ ClockRunsWithClaim

\* What the invariant says of one row when n tokens have been stored.
SoundRow(row, n) ==
  /\ row.run = row.request
  /\ row.token <= n
  /\ row.run \in {"absent", "queued"} => row.token = NoToken
  /\ row.run = "running" => row.token # NoToken /\ row.started # "none"
  /\ row.run = "queued" => row.started = "none"

\* What it says of two different rows.
Apart(x, y) ==
  /\ x.run \in Active /\ y.run \in Active => x.query # y.query
  /\ x.token = y.token => x.token = NoToken

\* Everything a method may do to a row it does not create, when n tokens are
\* stored before it: it keeps the query, wakes no settled run, leaves a settled
\* row's outcome alone, and gives the token up or takes a new one.
RowStep(old, new, n) ==
  /\ new.query = old.query
  /\ new.run \in Active => old.run \in Active
  /\ old.run \in Terminal => Outcome(new) = Outcome(old)
  /\ \/ new.token = old.token
     \/ new.token = NoToken /\ old.run = "running" /\ new.run = "queued"
     \/ new.token = n + 1 /\ old.run = "queued"

\* The invariant is the conjunction of its one-row and its two-row parts.
LEMMA InvariantByRows ==
  ASSUME TypeOK
  PROVE  IInv <=> /\ \A r \in Runs : SoundRow(rows[r], issued)
                  /\ \A r1, r2 \in Runs : r1 # r2 => Apart(rows[r1], rows[r2])
  BY DEF IInv, TypeOK, PairsAgree, OneActiveRunPerQuery, TokensNameOneClaim,
         ClockRunsWithClaim, SoundRow, Apart, Active, NoToken

\* A claim of a claimable row leaves a sound row that carries the new token.
LEMMA ClaimedIsRowStep ==
  ASSUME NEW n \in Nat, NEW row \in Row, SoundRow(row, n), Claimable(row)
  PROVE  /\ Claimed(row, n + 1) \in Row
         /\ SoundRow(Claimed(row, n + 1), n + 1)
         /\ RowStep(row, Claimed(row, n + 1), n)
<1>1. Claimed(row, n + 1) \in Row
  <2>. SUFFICES ASSUME NEW t \in Nat PROVE Claimed(row, t) \in Row
    OBVIOUS
  <2>. QED  BY DEF Claimed, Row, Status, Active
<1>2. SoundRow(Claimed(row, n + 1), n + 1)
  BY DEF Claimed, Row, SoundRow, NoToken
<1>3. RowStep(row, Claimed(row, n + 1), n)
  BY DEF Claimed, Claimable, Row, RowStep, Active, Terminal
<1>. QED  BY <1>1, <1>2, <1>3

\* The terminal write of an owner settles both statuses and keeps the token.
LEMMA FinishedIsRowStep ==
  ASSUME NEW n \in Nat, NEW row \in Row, SoundRow(row, n),
         NEW t, NEW s \in Terminal, NEW c \in Companies
  PROVE  /\ Finished(row, t, s, c) \in Row
         /\ SoundRow(Finished(row, t, s, c), n)
         /\ RowStep(row, Finished(row, t, s, c), n)
  BY DEF Finished, Owned, BothSettled, Row, SoundRow, RowStep, Status, Active, Terminal, NoToken, Companies

\* A failed publish settles a queued pair and leaves every other pair alone.
LEMMA DispatchFailedIsRowStep ==
  ASSUME NEW n \in Nat, NEW row \in Row, SoundRow(row, n)
  PROVE  /\ DispatchFailed(row) \in Row
         /\ SoundRow(DispatchFailed(row), n)
         /\ RowStep(row, DispatchFailed(row), n)
  BY DEF DispatchFailed, Claimable, BothSettled, Row, SoundRow, RowStep, Status, Active, Terminal, NoToken, Companies

\* In a sound row the repair of _fail_invalid_locked has nothing to repair.
LEMMA SoundRowIsValid ==
  ASSUME NEW n \in Nat, NEW row \in Row, SoundRow(row, n), NEW t
  PROVE  FailedIfInvalid(row, t) = row
  BY DEF FailedIfInvalid, InvalidPair, SoundRow

\* Giving a claim up for a retry returns the pair to the queue without a token.
LEMMA RetryQueuedIsRowStep ==
  ASSUME NEW n \in Nat, NEW row \in Row, SoundRow(row, n), NEW t
  PROVE  /\ RetryQueued(row, t) \in Row
         /\ SoundRow(RetryQueued(row, t), n)
         /\ RowStep(row, RetryQueued(row, t), n)
<1>1. CASE ~Owned(row, t)
  BY <1>1, SoundRowIsValid DEF RetryQueued, RowStep
<1>2. CASE Owned(row, t)
  <2>. DEFINE new == [row EXCEPT !.run = "queued", !.request = "queued", !.token = NoToken,
                                 !.started = "none", !.task = FALSE]
  <2>1. RetryQueued(row, t) = new
    BY <1>2 DEF RetryQueued
  <2>2. new \in Row
    BY DEF Row, Status, Active, NoToken
  <2>3. SoundRow(new, n)
    BY DEF Row, SoundRow, NoToken
  <2>4. RowStep(row, new, n)
    BY <1>2 DEF Owned, Row, RowStep, Active, Terminal, NoToken
  <2>. QED  BY <2>1, <2>2, <2>3, <2>4
<1>. QED  BY <1>1, <1>2

\* Giving a claim up for good settles the pair as failed.
LEMMA RetryExhaustedIsRowStep ==
  ASSUME NEW n \in Nat, NEW row \in Row, SoundRow(row, n), NEW t
  PROVE  /\ RetryExhausted(row, t) \in Row
         /\ SoundRow(RetryExhausted(row, t), n)
         /\ RowStep(row, RetryExhausted(row, t), n)
  BY SoundRowIsValid
  DEF RetryExhausted, Owned, BothSettled, Row, SoundRow, RowStep, Status, Active, Terminal, NoToken, Companies

-----------------------------------------------------------------------------
\* A step that changes one row r, by a RowStep, and stores at most one token more.
OneRowStep(r) ==
  /\ rows' = [rows EXCEPT ![r] = rows'[r]]
  /\ rows'[r] \in Row
  /\ SoundRow(rows'[r], issued')
  /\ RowStep(rows[r], rows'[r], issued)
  /\ issued' \in {issued, issued + 1}
  /\ rows'[r].token = issued + 1 => issued' = issued + 1

\* A new pair joins the rows only when no live request has its query.
Created(r) == \E q \in Queries, c \in Companies : CreateRequest(r, q, c)

\* Every action other than the creation of a pair is such a step.
LEMMA StepsOfRows ==
  ASSUME IInv, Next
  PROVE  \E r \in Runs : Created(r) \/ OneRowStep(r)
<1>1. /\ issued \in Nat
      /\ rows \in [Runs -> Row]
      /\ \A r \in Runs : rows[r] \in Row /\ SoundRow(rows[r], issued)
  BY InvariantByRows DEF IInv, TypeOK
<1>2. PICK r \in Runs :
        \/ Created(r)
        \/ ClaimQueued(r)
        \/ \E t \in 1..issued, s \in Terminal, c \in Companies : Finish(r, t, s, c)
        \/ FailQueuedDispatch(r)
        \/ \E t \in 1..issued : RequeueForRetry(r, t)
        \/ \E t \in 1..issued : FailRetryExhausted(r, t)
        \/ StoreTaskId(r)
        \/ MarkRedispatched(r)
        \/ ClaimTurnsStale(r)
        \/ CreationTurnsStale(r)
  BY DEF Next, Created
<1>. DEFINE old == rows[r]
<1>3. old \in Row /\ SoundRow(old, issued)
  BY <1>1
\* A step that keeps issued and replaces row r by a RowStep of it.
<1>4. ASSUME NEW new \in Row, SoundRow(new, issued), RowStep(old, new, issued),
             rows' = [rows EXCEPT ![r] = new], issued' = issued
      PROVE  OneRowStep(r)
  <2>1. rows'[r] = new
    BY <1>1, <1>4
  <2>2. new.token # issued + 1
    BY <1>1, <1>4 DEF SoundRow, Row
  <2>. QED  BY <1>4, <2>1, <2>2 DEF OneRowStep
<1>5. CASE Created(r)
  BY <1>5
<1>6. CASE ClaimQueued(r)
  <2>. DEFINE new == Claimed(old, issued + 1)
  <2>1. Claimable(old) /\ rows' = [rows EXCEPT ![r] = new] /\ issued' = issued + 1
    BY <1>6 DEF ClaimQueued
  <2>2. new \in Row /\ SoundRow(new, issued + 1) /\ RowStep(old, new, issued)
    BY <1>1, <1>3, <2>1, ClaimedIsRowStep
  <2>3. rows'[r] = new
    BY <1>1, <2>1
  <2>. HIDE DEF new
  <2>. QED  BY <2>1, <2>2, <2>3 DEF OneRowStep
<1>7. CASE \E t \in 1..issued, s \in Terminal, c \in Companies : Finish(r, t, s, c)
  BY <1>1, <1>3, <1>4, <1>7, FinishedIsRowStep DEF Finish
<1>8. CASE FailQueuedDispatch(r)
  BY <1>1, <1>3, <1>4, <1>8, DispatchFailedIsRowStep DEF FailQueuedDispatch
<1>9. CASE \E t \in 1..issued : RequeueForRetry(r, t)
  BY <1>1, <1>3, <1>4, <1>9, RetryQueuedIsRowStep DEF RequeueForRetry
<1>10. CASE \E t \in 1..issued : FailRetryExhausted(r, t)
  BY <1>1, <1>3, <1>4, <1>10, RetryExhaustedIsRowStep DEF FailRetryExhausted
<1>11. CASE StoreTaskId(r)
  <2>. DEFINE new == [old EXCEPT !.task = TRUE]
  <2>1. new \in Row /\ SoundRow(new, issued) /\ RowStep(old, new, issued)
    BY <1>3 DEF Row, SoundRow, RowStep, Outcome
  <2>2. rows' = [rows EXCEPT ![r] = new] /\ issued' = issued
    BY <1>1, <1>11 DEF StoreTaskId
  <2>. QED  BY <1>4, <2>1, <2>2
<1>12. CASE MarkRedispatched(r)
  <2>. DEFINE marked == old.task \/ old.run = "queued"
              new == [old EXCEPT !.task = marked]
  <2>1. marked \in BOOLEAN
    OBVIOUS
  <2>. HIDE DEF marked
  <2>2. new \in Row /\ SoundRow(new, issued) /\ RowStep(old, new, issued)
    BY <1>3, <2>1 DEF Row, SoundRow, RowStep, Outcome
  <2>3. rows' = [rows EXCEPT ![r] = new] /\ issued' = issued
    BY <1>1, <1>12, Zenon DEF MarkRedispatched, marked
  <2>. QED  BY <1>4, <2>2, <2>3
<1>13. CASE ClaimTurnsStale(r)
  <2>. DEFINE new == [old EXCEPT !.started = "stale"]
  <2>1. new \in Row /\ SoundRow(new, issued) /\ RowStep(old, new, issued)
    BY <1>3, <1>13 DEF ClaimTurnsStale, Row, SoundRow, RowStep, Outcome
  <2>2. rows' = [rows EXCEPT ![r] = new] /\ issued' = issued
    BY <1>1, <1>13 DEF ClaimTurnsStale
  <2>. QED  BY <1>4, <2>1, <2>2
<1>14. CASE CreationTurnsStale(r)
  <2>. DEFINE new == [old EXCEPT !.created = "stale"]
  <2>1. new \in Row /\ SoundRow(new, issued) /\ RowStep(old, new, issued)
    BY <1>3 DEF Row, SoundRow, RowStep, Outcome
  <2>2. rows' = [rows EXCEPT ![r] = new] /\ issued' = issued
    BY <1>1, <1>14 DEF CreationTurnsStale
  <2>. QED  BY <1>4, <2>1, <2>2
<1>. QED
  BY <1>2, <1>5, <1>6, <1>7, <1>8, <1>9, <1>10, <1>11, <1>12, <1>13, <1>14

-----------------------------------------------------------------------------
\* The invariant holds initially: there is no pair and no token.
LEMMA InitEstablishesIInv == Init => IInv
  BY DEF Init, IInv, TypeOK, PairsAgree, OneActiveRunPerQuery, TokensNameOneClaim,
         ClockRunsWithClaim, AbsentRow, Row, Companies, Active, Status, NoToken

\* Every step of the tables preserves the invariant.
LEMMA NextPreservesIInv == IInv /\ [Next]_repositoryVars => IInv'
<1>. SUFFICES ASSUME IInv, [Next]_repositoryVars PROVE IInv'
  OBVIOUS
<1>1. /\ issued \in Nat
      /\ rows \in [Runs -> Row]
      /\ \A r \in Runs : SoundRow(rows[r], issued)
      /\ \A r1, r2 \in Runs : r1 # r2 => Apart(rows[r1], rows[r2])
  BY InvariantByRows DEF IInv, TypeOK
<1>2. CASE UNCHANGED repositoryVars
  BY <1>2 DEF repositoryVars, IInv, TypeOK, PairsAgree, OneActiveRunPerQuery,
              TokensNameOneClaim, ClockRunsWithClaim
<1>3. CASE Next
  <2>1. PICK r \in Runs : Created(r) \/ OneRowStep(r)
    BY <1>3, StepsOfRows
  <2>2. SUFFICES /\ TypeOK'
                 /\ \A x \in Runs : SoundRow(rows'[x], issued')
                 /\ \A x \in Runs : x # r => Apart(rows'[r], rows'[x])
    <3>1. \A x \in Runs : x # r => rows'[x] = rows[x]
      BY <1>1, <2>1 DEF Created, CreateRequest, OneRowStep
    <3>2. \A x, y \in Runs : x # y => Apart(rows'[x], rows'[y])
      BY <1>1, <2>2, <3>1 DEF Apart
    <3>. QED  BY <2>2, <3>2, InvariantByRows
              DEF IInv, TypeOK, PairsAgree, OneActiveRunPerQuery, TokensNameOneClaim,
                  ClockRunsWithClaim, SoundRow, Apart, Active, NoToken
  <2>3. CASE Created(r)
    <3>1. PICK q \in Queries, c \in Companies : CreateRequest(r, q, c)
      BY <2>3 DEF Created
    <3>2. /\ rows' = [rows EXCEPT ![r] = QueuedPair(q, c)]
          /\ issued' = issued
          /\ \A x \in Runs : rows[x].query = q => rows[x].request \notin Active
      BY <3>1 DEF CreateRequest, ActiveRequest
    <3>3. /\ QueuedPair(q, c) \in Row
          /\ QueuedPair(q, c).query = q
          /\ QueuedPair(q, c).token = NoToken
          /\ SoundRow(QueuedPair(q, c), issued)
      <4>1. AbsentRow \in Row /\ AbsentRow.token = NoToken /\ AbsentRow.started = "none"
        BY DEF AbsentRow, Row, Companies, NoToken
      <4>2. q \in Companies
        BY DEF Companies
      <4>3. QueuedPair(q, c) \in Row
        BY <4>1, <4>2 DEF QueuedPair, Row, Status, Active
      <4>. QED  BY <1>1, <4>1, <4>2, <4>3 DEF QueuedPair, Row, NoToken, SoundRow
    <3>4. TypeOK'
      BY <1>1, <3>2, <3>3 DEF TypeOK
    <3>5. \A x \in Runs : SoundRow(rows'[x], issued')
      BY <1>1, <3>2, <3>3
    <3>6. \A x \in Runs : x # r => Apart(QueuedPair(q, c), rows[x])
      BY <1>1, <3>2, <3>3 DEF Apart, SoundRow
    <3>. QED  BY <1>1, <3>2, <3>4, <3>5, <3>6
  <2>4. CASE OneRowStep(r)
    <3>1. /\ rows' = [rows EXCEPT ![r] = rows'[r]]
          /\ rows'[r] \in Row /\ SoundRow(rows'[r], issued')
          /\ RowStep(rows[r], rows'[r], issued)
          /\ issued' \in {issued, issued + 1}
      BY <2>4 DEF OneRowStep
    <3>2. TypeOK'
      BY <1>1, <3>1 DEF TypeOK
    <3>3. \A x \in Runs : SoundRow(rows'[x], issued')
      <4>. SUFFICES ASSUME NEW x \in Runs PROVE SoundRow(rows'[x], issued')
        OBVIOUS
      <4>1. CASE x = r
        BY <3>1, <4>1
      <4>2. CASE x # r
        <5>1. rows'[x] = rows[x] /\ rows[x].token \in Nat
          BY <1>1, <3>1, <4>2 DEF Row
        <5>. QED  BY <1>1, <3>1, <5>1 DEF SoundRow
      <4>. QED  BY <4>1, <4>2
    <3>4. ASSUME NEW x \in Runs, x # r
          PROVE  Apart(rows'[r], rows'[x])
      <4>1. rows'[x] = rows[x] /\ Apart(rows[r], rows[x])
        BY <1>1, <3>1, <3>4
      <4>2. rows[x].token <= issued /\ rows[x].token \in Nat
        BY <1>1 DEF SoundRow, Row
      <4>. QED  BY <1>1, <3>1, <4>1, <4>2 DEF Apart, RowStep, NoToken
    <3>. QED  BY <3>2, <3>3, <3>4
  <2>. QED  BY <2>1, <2>2, <2>3, <2>4
<1>. QED  BY <1>2, <1>3

\* Every reachable state of the tables satisfies the inductive invariant.
THEOREM Invariance == Spec => []IInv
  BY InitEstablishesIInv, NextPreservesIInv, PTL DEF Spec

\* Type correctness of the two tables.
THEOREM TypeCorrect == Spec => []TypeOK
<1>1. IInv => TypeOK
  BY DEF IInv
<1>. QED  BY <1>1, Invariance, PTL

\* A run and its request carry the same status in every committed state.
THEOREM PairsAlwaysAgree == Spec => []PairsAgree
<1>1. IInv => PairsAgree
  BY DEF IInv
<1>. QED  BY <1>1, Invariance, PTL

\* No query ever has two live runs.
THEOREM OneActiveRun == Spec => []OneActiveRunPerQuery
<1>1. IInv => OneActiveRunPerQuery
  BY DEF IInv
<1>. QED  BY <1>1, Invariance, PTL

\* A claim token names one claim of one run.
THEOREM TokensUnique == Spec => []TokensNameOneClaim
<1>1. IInv => TokensNameOneClaim
  BY DEF IInv
<1>. QED  BY <1>1, Invariance, PTL

\* The claim clock runs exactly while a run is claimed.
THEOREM ClockFollowsClaim == Spec => []ClockRunsWithClaim
<1>1. IInv => ClockRunsWithClaim
  BY DEF IInv
<1>. QED  BY <1>1, Invariance, PTL

-----------------------------------------------------------------------------
\* No call, late or repeated, changes the outcome of a settled request.
THEOREM SettledStaysSettled == Spec => TerminalIsFinal
<1>. DEFINE Keeps == \A r \in Runs :
                       rows[r].run \in Terminal => Outcome(rows'[r]) = Outcome(rows[r])
<1>1. IInv /\ [Next]_repositoryVars => [Keeps]_repositoryVars
  <2>. SUFFICES ASSUME IInv, Next PROVE Keeps
    BY DEF repositoryVars
  <2>1. rows \in [Runs -> Row]
    BY DEF IInv, TypeOK
  <2>2. PICK r \in Runs : Created(r) \/ OneRowStep(r)
    BY StepsOfRows
  <2>3. \A x \in Runs : x # r => rows'[x] = rows[x]
    BY <2>1, <2>2 DEF Created, CreateRequest, OneRowStep
  <2>4. rows[r].run \in Terminal => Outcome(rows'[r]) = Outcome(rows[r])
    BY <2>2 DEF Created, CreateRequest, OneRowStep, RowStep, Terminal
  <2>. QED  BY <2>3, <2>4
<1>. QED  BY <1>1, Invariance, PTL DEF Spec, TerminalIsFinal

\* A claim generation ends by being given up, and a new one is always fresh.
THEOREM TokensFresh == Spec => TokensNeverReturn
<1>. DEFINE Fresh == \A r \in Runs :
       rows'[r].token # rows[r].token =>
         \/ rows'[r].token = NoToken /\ rows[r].run = "running" /\ rows'[r].run = "queued"
         \/ rows'[r].token > issued /\ rows[r].run = "queued"
<1>1. IInv /\ [Next]_repositoryVars => [Fresh]_repositoryVars
  <2>. SUFFICES ASSUME IInv, Next PROVE Fresh
    BY DEF repositoryVars
  <2>1. /\ issued \in Nat
        /\ rows \in [Runs -> Row]
        /\ \A r \in Runs : SoundRow(rows[r], issued)
    BY InvariantByRows DEF IInv, TypeOK
  <2>2. PICK r \in Runs : Created(r) \/ OneRowStep(r)
    BY StepsOfRows
  <2>3. \A x \in Runs : x # r => rows'[x] = rows[x]
    BY <2>1, <2>2 DEF Created, CreateRequest, OneRowStep
  <2>4. CASE Created(r)
    <3>1. rows'[r].token = NoToken /\ rows[r].token = NoToken
      BY <2>1, <2>4 DEF Created, CreateRequest, QueuedPair, AbsentRow, SoundRow
    <3>. QED  BY <2>3, <3>1
  <2>5. CASE OneRowStep(r)
    BY <2>1, <2>3, <2>5 DEF OneRowStep, RowStep
  <2>. QED  BY <2>2, <2>4, <2>5
<1>. QED  BY <1>1, Invariance, PTL DEF Spec, TokensNeverReturn

-----------------------------------------------------------------------------
(* The refinement: on a sound row the client's phase is the run's status.   *)

\* The empty tables are the lifecycle in which nothing was ever requested.
LEMMA InitImplements == Init => Lifecycle!Init
  BY DEF Init, Lifecycle!Init, AbsentRow, PairPhase, NoToken

\* Every step of the tables is a step of the lifecycle or invisible to a client.
LEMMA StepsImplement ==
  IInv /\ [Next]_repositoryVars => [Lifecycle!Next]_(Lifecycle!lifecycleVars)
<1>. SUFFICES ASSUME IInv, [Next]_repositoryVars
              PROVE  [Lifecycle!Next]_(Lifecycle!lifecycleVars)
  OBVIOUS
<1>1. /\ issued \in Nat
      /\ rows \in [Runs -> Row]
      /\ \A r \in Runs : rows[r] \in Row /\ SoundRow(rows[r], issued)
  BY InvariantByRows DEF IInv, TypeOK
<1>2. CASE UNCHANGED repositoryVars
  BY <1>2 DEF repositoryVars, Lifecycle!lifecycleVars
<1>3. CASE Next
  <2>1. PICK r \in Runs :
        \/ \E q \in Queries, c \in Companies : CreateRequest(r, q, c)
        \/ ClaimQueued(r)
        \/ \E t \in 1..issued, s \in Terminal, c \in Companies : Finish(r, t, s, c)
        \/ FailQueuedDispatch(r)
        \/ \E t \in 1..issued : RequeueForRetry(r, t)
        \/ \E t \in 1..issued : FailRetryExhausted(r, t)
        \/ StoreTaskId(r)
        \/ MarkRedispatched(r)
        \/ ClaimTurnsStale(r)
        \/ CreationTurnsStale(r)
    BY <1>3 DEF Next
  <2>. DEFINE Phase == [x \in Runs |-> PairPhase(rows[x])]
              Subject == [x \in Runs |-> rows[x].query]
              Lease == [x \in Runs |-> rows[x].token]
  <2>2. \A x \in Runs : PairPhase(rows[x]) = rows[x].run
    BY <1>1 DEF PairPhase, SoundRow
  \* What a step that replaces row r by new looks like to the client.
  <2>3. ASSUME NEW new, rows' = [rows EXCEPT ![r] = new], new.request = new.run
        PROVE  /\ Phase' = [Phase EXCEPT ![r] = new.run]
               /\ Subject' = [Subject EXCEPT ![r] = new.query]
               /\ Lease' = [Lease EXCEPT ![r] = new.token]
    BY <1>1, <2>3 DEF PairPhase
  <2>3a. ASSUME NEW new, rows' = [rows EXCEPT ![r] = new], new.request = new.run
         PROVE  /\ new.run = rows[r].run => Phase' = Phase
                /\ new.query = rows[r].query => Subject' = Subject
                /\ new.token = rows[r].token => Lease' = Lease
    <3>1. new.run = rows[r].run => Phase' = Phase
      <4>1. Phase[r] = rows[r].run
        BY <2>2
      <4>. HIDE DEF Phase
      <4>2. Phase' = [Phase EXCEPT ![r] = new.run]
        BY <2>3, <2>3a
      <4>3. Phase \in [Runs -> {Phase[x] : x \in Runs}]
        BY DEF Phase
      <4>. QED  BY <4>1, <4>2, <4>3
    <3>2. new.query = rows[r].query => Subject' = Subject
      BY <2>3, <2>3a
    <3>3. new.token = rows[r].token => Lease' = Lease
      BY <2>3, <2>3a
    <3>. QED  BY <3>1, <3>2, <3>3
  <2>4. ASSUME NEW new, rows' = [rows EXCEPT ![r] = new], issued' = issued,
               new.request = new.run, new.run = rows[r].run,
               new.query = rows[r].query, new.token = rows[r].token
        PROVE  UNCHANGED Lifecycle!lifecycleVars
    <3>1. Phase' = Phase /\ Subject' = Subject /\ Lease' = Lease
      BY <2>3a, <2>4
    <3>. QED  BY <2>4, <3>1 DEF Lifecycle!lifecycleVars
  <2>5. ASSUME NEW q \in Queries, NEW c \in Companies, CreateRequest(r, q, c)
        PROVE  Lifecycle!Accept(r, q)
    <3>1. /\ QueuedPair(q, c).run = "queued" /\ QueuedPair(q, c).request = "queued"
          /\ QueuedPair(q, c).query = q /\ QueuedPair(q, c).token = NoToken
      BY DEF QueuedPair, AbsentRow
    <3>2. /\ Phase' = [Phase EXCEPT ![r] = "queued"]
          /\ Subject' = [Subject EXCEPT ![r] = q]
          /\ Lease' = [Lease EXCEPT ![r] = NoToken]
      BY <2>3, <2>5, <3>1 DEF CreateRequest
    <3>3. Lease' = Lease
      <4>1. rows[r].token = NoToken
        BY <1>1, <2>5 DEF CreateRequest, SoundRow
      <4>. QED  BY <3>2, <4>1
    <3>4. \A x \in Runs : ~(rows[x].query = q /\ PairPhase(rows[x]) \in Active)
      BY <1>1, <2>2, <2>5 DEF CreateRequest, ActiveRequest, SoundRow
    <3>. QED  BY <2>2, <2>5, <3>2, <3>3, <3>4
              DEF Lifecycle!Accept, Lifecycle!Live, Active, CreateRequest
  <2>6. ASSUME ClaimQueued(r)
        PROVE  Lifecycle!Grant(r)
    <3>. DEFINE new == Claimed(rows[r], issued + 1)
    <3>1. /\ new.run = "running" /\ new.request = "running"
          /\ new.token = issued + 1 /\ new.query = rows[r].query
      BY <1>1 DEF Claimed, Row
    <3>2. rows[r].run = "queued" /\ rows' = [rows EXCEPT ![r] = new] /\ issued' = issued + 1
      BY <2>6 DEF ClaimQueued, Claimable
    <3>. HIDE DEF new
    <3>3. /\ Phase' = [Phase EXCEPT ![r] = "running"]
          /\ Lease' = [Lease EXCEPT ![r] = issued + 1]
          /\ Subject' = Subject
      <4>. HIDE DEF Phase, Subject, Lease
      <4>. QED  BY <2>3, <2>3a, <3>1, <3>2
    <3>. QED  BY <2>2, <3>2, <3>3 DEF Lifecycle!Grant
  \* An owner's write that settles both statuses.
  <2>7. ASSUME NEW s \in Terminal, NEW new, rows' = [rows EXCEPT ![r] = new], issued' = issued,
               rows[r].run = "running", new.run = s, new.request = s,
               new.query = rows[r].query, new.token = rows[r].token
        PROVE  Lifecycle!Settle(r, s)
    <3>1. Phase' = [Phase EXCEPT ![r] = s]
      BY <2>3, <2>7
    <3>2. Subject' = Subject /\ Lease' = Lease
      BY <2>3a, <2>7
    <3>. QED  BY <2>2, <2>7, <3>1, <3>2 DEF Lifecycle!Settle
  <2>8. ASSUME NEW t, NEW s \in Terminal, NEW c \in Companies, Finish(r, t, s, c)
        PROVE  Lifecycle!Settle(r, s) \/ UNCHANGED Lifecycle!lifecycleVars
    <3>1. rows' = [rows EXCEPT ![r] = Finished(rows[r], t, s, c)] /\ issued' = issued
      BY <2>8 DEF Finish
    <3>2. CASE Owned(rows[r], t)
      <4>. DEFINE new == Finished(rows[r], t, s, c)
      <4>1. /\ new.run = s /\ new.request = s /\ rows[r].run = "running"
            /\ new.query = rows[r].query /\ new.token = rows[r].token
        BY <1>1, <3>2 DEF Finished, Owned, BothSettled, Row
      <4>. HIDE DEF new
      <4>. QED  BY <2>7, <3>1, <4>1 DEF new
    <3>3. CASE ~Owned(rows[r], t)
      BY <1>1, <2>4, <3>1, <3>3 DEF Finished, SoundRow
    <3>. QED  BY <3>2, <3>3
  <2>9. ASSUME FailQueuedDispatch(r)
        PROVE  Lifecycle!Reject(r) \/ UNCHANGED Lifecycle!lifecycleVars
    <3>. DEFINE new == DispatchFailed(rows[r])
    <3>1. rows' = [rows EXCEPT ![r] = new] /\ issued' = issued
      BY <2>9 DEF FailQueuedDispatch
    <3>2. CASE Claimable(rows[r])
      <4>1. /\ new.run = "failed" /\ new.request = "failed" /\ rows[r].run = "queued"
            /\ new.query = rows[r].query /\ new.token = rows[r].token
        BY <1>1, <3>2 DEF DispatchFailed, Claimable, BothSettled, Row
      <4>. HIDE DEF new
      <4>2. Phase' = [Phase EXCEPT ![r] = "failed"]
        <5>. HIDE DEF Phase, Subject, Lease
        <5>. QED  BY <2>3, <3>1, <4>1, ZenonT(60)
      <4>3. Subject' = Subject /\ Lease' = Lease
        BY <2>3a, <3>1, <4>1
      <4>. QED  BY <2>2, <3>1, <4>1, <4>2, <4>3 DEF Lifecycle!Reject
    <3>3. CASE ~Claimable(rows[r])
      BY <1>1, <2>4, <3>1, <3>3 DEF DispatchFailed, SoundRow
    <3>. QED  BY <3>2, <3>3
  <2>10. ASSUME NEW t, RequeueForRetry(r, t)
         PROVE  Lifecycle!Return(r) \/ UNCHANGED Lifecycle!lifecycleVars
    <3>. DEFINE new == RetryQueued(rows[r], t)
    <3>1. rows' = [rows EXCEPT ![r] = new] /\ issued' = issued
      BY <2>10 DEF RequeueForRetry
    <3>2. CASE Owned(rows[r], t)
      <4>1. /\ new.run = "queued" /\ new.request = "queued" /\ rows[r].run = "running"
            /\ new.query = rows[r].query /\ new.token = 0
        BY <1>1, <3>2 DEF RetryQueued, Owned, Row, NoToken
      <4>. HIDE DEF new
      <4>2. Phase' = [Phase EXCEPT ![r] = "queued"] /\ Lease' = [Lease EXCEPT ![r] = 0]
        BY <2>3, <3>1, <4>1, ZenonT(60)
      <4>3. Subject' = Subject
        BY <2>3a, <3>1, <4>1
      <4>. QED  BY <2>2, <3>1, <4>1, <4>2, <4>3 DEF Lifecycle!Return
    <3>3. CASE ~Owned(rows[r], t)
      <4>1. new = rows[r]
        BY <1>1, <3>3, SoundRowIsValid DEF RetryQueued
      <4>. QED  BY <1>1, <2>4, <3>1, <4>1 DEF SoundRow
    <3>. QED  BY <3>2, <3>3
  <2>11. ASSUME NEW t, FailRetryExhausted(r, t)
         PROVE  Lifecycle!Settle(r, "failed") \/ UNCHANGED Lifecycle!lifecycleVars
    <3>. DEFINE new == RetryExhausted(rows[r], t)
    <3>1. rows' = [rows EXCEPT ![r] = new] /\ issued' = issued
      BY <2>11 DEF FailRetryExhausted
    <3>2. CASE Owned(rows[r], t)
      <4>1. /\ new.run = "failed" /\ new.request = "failed" /\ rows[r].run = "running"
            /\ new.query = rows[r].query /\ new.token = rows[r].token
        BY <1>1, <3>2 DEF RetryExhausted, Owned, BothSettled, Row
      <4>. HIDE DEF new
      <4>. QED  BY <2>7, <3>1, <4>1 DEF Terminal
    <3>3. CASE ~Owned(rows[r], t)
      <4>1. new = rows[r]
        BY <1>1, <3>3, SoundRowIsValid DEF RetryExhausted
      <4>. QED  BY <1>1, <2>4, <3>1, <4>1 DEF SoundRow
    <3>. QED  BY <3>2, <3>3
  <2>12. ASSUME StoreTaskId(r) \/ ClaimTurnsStale(r) \/ CreationTurnsStale(r)
         PROVE  UNCHANGED Lifecycle!lifecycleVars
    <3>1. PICK new \in {[rows[r] EXCEPT !.task = TRUE], [rows[r] EXCEPT !.started = "stale"],
                        [rows[r] EXCEPT !.created = "stale"]} :
             rows' = [rows EXCEPT ![r] = new] /\ issued' = issued
      BY <1>1, <2>12 DEF StoreTaskId, ClaimTurnsStale, CreationTurnsStale
    <3>. QED  BY <1>1, <2>4, <3>1 DEF Row, SoundRow
  <2>13. ASSUME MarkRedispatched(r)
         PROVE  UNCHANGED Lifecycle!lifecycleVars
    <3>. DEFINE marked == rows[r].task \/ rows[r].run = "queued"
                new == [rows[r] EXCEPT !.task = marked]
    <3>1. rows' = [rows EXCEPT ![r] = new] /\ issued' = issued
      BY <1>1, <2>13, Zenon DEF MarkRedispatched
    <3>. HIDE DEF marked
    <3>. QED  BY <1>1, <2>4, <3>1 DEF Row, SoundRow
  <2>14. Terminal = Lifecycle!Settled
    BY DEF Terminal, Lifecycle!Settled
  <2>15. \/ UNCHANGED Lifecycle!lifecycleVars
         \/ \E q \in Queries : Lifecycle!Accept(r, q)
         \/ Lifecycle!Grant(r) \/ Lifecycle!Return(r) \/ Lifecycle!Reject(r)
         \/ \E s \in Terminal : Lifecycle!Settle(r, s)
    <3>1. "failed" \in Terminal
      BY DEF Terminal
    <3>. QED  BY <2>1, <2>5, <2>6, <2>8, <2>9, <2>10, <2>11, <2>12, <2>13, <3>1
  <2>. QED  BY <2>14, <2>15 DEF Lifecycle!Next
<1>. QED  BY <1>2, <1>3

\* The two tables implement the request lifecycle a client is promised.
THEOREM Implementation == Spec => ImplementsLifecycle
  BY InitImplements, StepsImplement, Invariance, PTL DEF Spec, ImplementsLifecycle, Lifecycle!Spec
=============================================================================
