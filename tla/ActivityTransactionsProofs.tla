---------------------- MODULE ActivityTransactionsProofs ----------------------
(***************************************************************************)
(* Proofs about ActivityTransactions, for any sources, postings, lists and *)
(* expirations.                                                            *)
(*                                                                         *)
(* Everything rests on row locks.  Those of the sources keep the           *)
(* expiration away from what a list took charge of; those of the postings, *)
(* taken in the order of the ids, keep two lists from waiting for each     *)
(* other, and make what a list read of the sources of its postings as good *)
(* as what it commits.  The invariant is split into what it says of one    *)
(* transaction (Sound) and of two (Apart); only a commit changes what it   *)
(* says of the others.                                                     *)
(***************************************************************************)
EXTENDS ActivityTransactions, TLAPS

\* The transaction holds the least of the postings that it wants.
Ascending(x) == \A p \in x.locked, q \in x.postings \ x.locked : p < q

\* What the transaction has read of its postings' sources is what it will
\* commit, and what it has written of the postings follows from it.
Foresees(x) ==
  /\ x.pc \in {"deriving", "written"} =>
       \A s \in Sources : PostingOf[s] \in x.postings =>
         (s \in x.view <=> s \in (active \cup x.kept) \ x.dropped)
  /\ x.pc = "written" =>
       /\ x.raised = {p \in x.postings : Advertised(p, x.view)}
       /\ x.lowered = x.postings \ x.raised

\* What the invariant says of a list, of an expiration, and of either.
SoundList(x) ==
  /\ x.pc \in {"idle", "locking", "deriving", "written"}
  /\ PostingsOf(x.kept \cup x.dropped) \subseteq x.postings
  /\ x.pc = "locking" => Ascending(x)
  /\ aged = {} => Foresees(x)

SoundExpiration(x) ==
  /\ x.kept = {} /\ x.dropped \cap managed = {}
  /\ aged = {} => x.pc = "idle"

Sound(t, x) ==
  /\ x \in Txn
  /\ x.pc \in {"deriving", "written"} => x.locked = x.postings
  /\ t \in Lists => SoundList(x)
  /\ t \in Expirations => SoundExpiration(x)

\* What it says of two transactions: no row is locked by both.
Apart(x, y) ==
  /\ (x.kept \cup x.dropped) \cap (y.kept \cup y.dropped) = {}
  /\ x.locked \cap y.locked = {}

\* What it says of the tables.
Tables ==
  /\ aged \subseteq Sources /\ active \subseteq Sources /\ managed \subseteq Sources
  /\ shown \subseteq Postings
  /\ aged = {} => shown = PostingsOf(active)

IInv ==
  /\ Tables
  /\ txns \in [Txns -> Txn]
  /\ \A t \in Txns : Sound(t, txns[t])
  /\ \A t, u \in Txns : t # u => Apart(txns[t], txns[u])

-----------------------------------------------------------------------------
\* A transaction that has not begun is sound and has nothing in common with another.
LEMMA IdleIsSound ==
  ASSUME NEW t
  PROVE  /\ Sound(t, Idle)
         /\ \A x \in Txn : Apart(Idle, x) /\ Apart(x, Idle)
<1>1. /\ Idle \in Txn /\ Idle.pc = "idle" /\ Idle.kept = {} /\ Idle.dropped = {}
      /\ Idle.locked = {} /\ Idle.postings = {}
  BY DEF Idle, Txn
<1>2. PostingsOf(Idle.kept \cup Idle.dropped) = {}
  BY <1>1 DEF PostingsOf
<1>. QED  BY <1>1, <1>2 DEF Sound, SoundList, SoundExpiration, Foresees, Apart

LEMMA InitEstablishesIInv == Init => IInv
<1>. SUFFICES ASSUME Init PROVE IInv
  OBVIOUS
<1>1. Tables
  BY PostingsAssumption, OverdueAssumption DEF Init, Tables, PostingsOf
<1>2. \A t \in Txns : txns[t] = Idle
  BY DEF Init
<1>3. Idle \in Txn
  BY DEF Idle, Txn
<1>. QED  BY <1>1, <1>2, <1>3, IdleIsSound DEF Init, IInv

\* A statement of t changes what is known of t only.
LEMMA OneMoves ==
  ASSUME IInv, NEW t \in Txns, NEW new, UNCHANGED <<aged, active, managed, shown>>,
         txns' = [txns EXCEPT ![t] = new],
         Sound(t, new),
         \A u \in Txns \ {t} : Apart(new, txns[u])
  PROVE  IInv'
<1>1. /\ txns'[t] = new
      /\ \A u \in Txns \ {t} : txns'[u] = txns[u]
      /\ txns' \in [Txns -> Txn]
  BY DEF IInv, Sound
<1>2. Tables'
  BY DEF IInv, Tables
<1>3. ASSUME NEW u \in Txns PROVE Sound(u, txns[u])'
  <2>1. Sound(u, txns'[u])
    BY <1>1 DEF IInv
  <2>. QED  BY <2>1 DEF Sound, SoundList, SoundExpiration, Foresees
<1>4. ASSUME NEW u \in Txns, NEW v \in Txns, u # v PROVE Apart(txns[u], txns[v])'
  <2>1. Apart(txns'[u], txns'[v])
    <3>1. CASE u = t
      BY <1>1, <1>4, <3>1
    <3>2. CASE v = t
      <4>1. Apart(new, txns[u])
        BY <1>4, <3>2
      <4>. QED  BY <1>1, <1>4, <3>2, <4>1 DEF Apart
    <3>3. CASE u # t /\ v # t
      BY <1>1, <1>4, <3>3 DEF IInv
    <3>. QED  BY <3>1, <3>2, <3>3
  <2>. QED  BY <2>1 DEF Apart
<1>. QED  BY <1>1, <1>2, <1>3, <1>4 DEF IInv

\* Rows that are free, or already its own, are nobody else's.
LEMMA FreeIsApart ==
  ASSUME IInv, NEW t \in Txns, NEW new,
         \A s \in new.kept \cup new.dropped : s \in Written(t) \/ SourceFree(t, s),
         \A p \in new.locked : p \in txns[t].locked \/ PostingFree(t, p)
  PROVE  \A u \in Txns \ {t} : Apart(new, txns[u])
  BY DEF IInv, Apart, Written, SourceFree, PostingFree

LEMMA ListStepKeepsIInv ==
  ASSUME IInv, NEW t \in Lists, ListStep(t), UNCHANGED aged
  PROVE  IInv'
<1>. DEFINE x == txns[t]
<1>1. /\ t \in Txns /\ t \notin Expirations /\ x \in Txn /\ Sound(t, x) /\ SoundList(x)
      /\ txns \in [Txns -> Txn] /\ Postings \subseteq Nat
  BY ListsAssumption, PostingsAssumption DEF IInv, Txns, Sound
<1>2. /\ x.kept \cup x.dropped = Written(t)
      /\ x.locked \subseteq Postings /\ x.postings \subseteq Postings
  BY <1>1 DEF Written, Txn
<1>3. CASE ListWritesSources(t)
  <2>1. PICK open \in SUBSET ListSources[t] :
          txns' = [txns EXCEPT ![t] = [Idle EXCEPT !.pc = "locking", !.kept = open,
                                                   !.dropped = ListSources[t] \ open,
                                                   !.postings = PostingsOf(ListSources[t])]]
    BY <1>3 DEF ListWritesSources
  <2>. DEFINE new == [Idle EXCEPT !.pc = "locking", !.kept = open,
                                  !.dropped = ListSources[t] \ open,
                                  !.postings = PostingsOf(ListSources[t])]
  <2>2. /\ new.pc = "locking" /\ new.kept = open /\ new.dropped = ListSources[t] \ open
        /\ new.postings = PostingsOf(ListSources[t]) /\ new.locked = {}
    BY DEF Idle
  <2>3. ListSources[t] \subseteq Sources /\ PostingsOf(ListSources[t]) \subseteq Postings
    BY ListsAssumption, PostingsAssumption DEF PostingsOf
  <2>4. new \in Txn
    BY <2>3 DEF Idle, Txn
  <2>. HIDE DEF new
  <2>5. new.kept \cup new.dropped = ListSources[t]
    BY <2>2
  <2>6. Sound(t, new)
    BY <1>1, <2>2, <2>4, <2>5 DEF Sound, SoundList, Ascending, Foresees
  <2>7. \A u \in Txns \ {t} : Apart(new, txns[u])
    BY <1>1, <1>3, <2>2, <2>5, FreeIsApart DEF ListWritesSources
  <2>8. txns' = [txns EXCEPT ![t] = new]
    BY <2>1 DEF new
  <2>. QED  BY <1>1, <1>3, <2>6, <2>7, <2>8, OneMoves DEF ListWritesSources
<1>4. ASSUME NEW p \in Postings, ListLocksPosting(t, p) PROVE IInv'
  <2>. DEFINE new == [x EXCEPT !.locked = @ \cup {p}]
  <2>1. txns' = [txns EXCEPT ![t] = new]
    BY <1>1, <1>4 DEF ListLocksPosting
  <2>2. /\ new \in Txn /\ new.pc = x.pc /\ new.kept = x.kept /\ new.dropped = x.dropped
        /\ new.postings = x.postings /\ new.locked = x.locked \cup {p}
    BY <1>1 DEF Txn
  <2>3. x.pc = "locking" /\ NextPosting(t, p) /\ PostingFree(t, p)
    BY <1>4 DEF ListLocksPosting
  <2>4. \A a \in x.locked \cup {p}, q \in x.postings \ (x.locked \cup {p}) : a < q
    BY <1>1, <1>2, <2>3 DEF NextPosting, SoundList, Ascending
  <2>. HIDE DEF new, x
  <2>5. Sound(t, new)
    BY <1>1, <2>2, <2>3, <2>4 DEF Sound, SoundList, Ascending, Foresees
  <2>6. \A u \in Txns \ {t} : Apart(new, txns[u])
    BY <1>1, <1>2, <2>2, <2>3, FreeIsApart DEF x
  <2>. QED  BY <1>1, <1>4, <2>1, <2>5, <2>6, OneMoves DEF ListLocksPosting
<1>5. CASE ListReadsSources(t)
  <2>. DEFINE new == [x EXCEPT !.pc = "deriving", !.view = Visible(t)]
  <2>1. txns' = [txns EXCEPT ![t] = new]
    BY <1>1, <1>5 DEF ListReadsSources
  <2>2. Visible(t) \subseteq Sources /\ Visible(t) = (active \cup x.kept) \ x.dropped
    BY <1>1 DEF Visible, Txn, IInv, Tables
  <2>3. /\ new \in Txn /\ new.pc = "deriving" /\ new.kept = x.kept /\ new.dropped = x.dropped
        /\ new.postings = x.postings /\ new.locked = x.locked /\ new.view = Visible(t)
    BY <1>1, <2>2 DEF Txn
  <2>4. x.locked = x.postings
    BY <1>5 DEF ListReadsSources, Derivable
  <2>. HIDE DEF new, x
  <2>5. Sound(t, new)
    BY <1>1, <2>2, <2>3, <2>4 DEF Sound, SoundList, Foresees
  <2>6. \A u \in Txns \ {t} : Apart(new, txns[u])
    BY <1>1, <1>2, <2>3, FreeIsApart DEF x
  <2>. QED  BY <1>1, <1>5, <2>1, <2>5, <2>6, OneMoves DEF ListReadsSources
<1>6. CASE ListWritesPostings(t)
  <2>. DEFINE new == WithActivity(x)
              raised == {p \in x.postings : Advertised(p, x.view)}
  <2>1. txns' = [txns EXCEPT ![t] = new]
    BY <1>1, <1>6 DEF ListWritesPostings
  <2>2. /\ new \in Txn /\ new.pc = "written" /\ new.kept = x.kept /\ new.dropped = x.dropped
        /\ new.postings = x.postings /\ new.locked = x.postings /\ new.view = x.view
        /\ new.raised = raised /\ new.lowered = x.postings \ raised
    <3>1. raised \subseteq Postings /\ x.postings \ raised \subseteq Postings
      BY <1>2
    <3>2. new = [x EXCEPT !.pc = "written", !.raised = raised, !.lowered = x.postings \ raised,
                          !.locked = x.postings]
      BY DEF WithActivity
    <3>. HIDE DEF new, raised
    <3>. QED  BY <1>1, <3>1, <3>2 DEF Txn
  <2>3. x.pc = "deriving" /\ x.locked = x.postings
    BY <1>1, <1>6 DEF ListWritesPostings, Sound
  <2>. HIDE DEF new, x
  <2>4. Sound(t, new)
    BY <1>1, <2>2, <2>3 DEF Sound, SoundList, Foresees
  <2>5. \A u \in Txns \ {t} : Apart(new, txns[u])
    BY <1>1, <1>2, <2>2, <2>3, FreeIsApart DEF x
  <2>. QED  BY <1>1, <1>6, <2>1, <2>4, <2>5, OneMoves DEF ListWritesPostings
<1>. QED  BY <1>3, <1>4, <1>5, <1>6 DEF ListStep

\* An expiration that has begun means that something is overdue.
LEMMA ExpireStepKeepsIInv ==
  ASSUME IInv, NEW t \in Expirations, ExpireStep(t), UNCHANGED aged
  PROVE  IInv'
<1>. DEFINE x == txns[t]
<1>1. /\ t \in Txns /\ t \notin Lists /\ x \in Txn /\ Sound(t, x) /\ SoundExpiration(x)
      /\ txns \in [Txns -> Txn]
  BY ListsAssumption DEF IInv, Txns, Sound
<1>2. /\ x.kept \cup x.dropped = Written(t)
      /\ x.locked \subseteq Postings /\ x.postings \subseteq Postings
  BY <1>1 DEF Written, Txn
<1>3. UNCHANGED <<active, managed, shown>>
  BY DEF ExpireStep, ExpireSelects, ExpireWritesSources, ExpireReadsSources, ExpireLocksPosting,
     ExpireWritesPostings
<1>4. aged # {}
  <2>1. CASE ExpireSelects(t)
    BY <2>1 DEF ExpireSelects, StaleFallback
  <2>2. CASE x.pc # "idle"
    BY <1>1, <2>2 DEF SoundExpiration
  <2>. QED  BY <2>1, <2>2 DEF ExpireStep, ExpireWritesSources, ExpireReadsSources, ExpireLocksPosting,
            ExpireWritesPostings
<1>5. ASSUME NEW new \in Txn, txns' = [txns EXCEPT ![t] = new],
             new.kept = {}, new.dropped \cap managed = {},
             \A s \in new.dropped : s \in Written(t) \/ SourceFree(t, s),
             \A p \in new.locked : p \in txns[t].locked \/ PostingFree(t, p),
             new.pc \in {"deriving", "written"} => new.locked = new.postings
      PROVE  IInv'
  <2>1. Sound(t, new)
    BY <1>1, <1>4, <1>5 DEF Sound, SoundExpiration
  <2>2. \A u \in Txns \ {t} : Apart(new, txns[u])
    BY <1>1, <1>5, FreeIsApart
  <2>. QED  BY <1>1, <1>3, <1>5, <2>1, <2>2, OneMoves
<1>6. StaleFallback \subseteq Sources /\ PostingsOf(StaleFallback) \subseteq Postings
  BY PostingsAssumption DEF IInv, Tables, StaleFallback, PostingsOf
<1>7. CASE ExpireSelects(t)
  <2>. DEFINE new == [Idle EXCEPT !.pc = "reading", !.postings = PostingsOf(StaleFallback)]
  <2>1. txns' = [txns EXCEPT ![t] = new]
    BY <1>7 DEF ExpireSelects
  <2>2. /\ new \in Txn /\ new.pc = "reading" /\ new.kept = {} /\ new.dropped = {} /\ new.locked = {}
    BY <1>6 DEF Idle, Txn
  <2>. HIDE DEF new
  <2>. QED  BY <1>5, <2>1, <2>2
<1>8. CASE ExpireWritesSources(t)
  <2>. DEFINE new == [x EXCEPT !.dropped = StaleFallback, !.pc = "locking"]
  <2>1. txns' = [txns EXCEPT ![t] = new] /\ \A s \in StaleFallback : SourceFree(t, s)
    BY <1>1, <1>8 DEF ExpireWritesSources
  <2>2. /\ new \in Txn /\ new.pc = "locking" /\ new.kept = x.kept /\ new.dropped = StaleFallback
        /\ new.locked = x.locked
    BY <1>1, <1>6 DEF Txn
  <2>3. x.kept = {} /\ StaleFallback \cap managed = {}
    BY <1>1 DEF SoundExpiration, StaleFallback
  <2>. HIDE DEF new
  <2>. QED  BY <1>5, <2>1, <2>2, <2>3
<1>9. CASE ExpireReadsSources(t)
  <2>. DEFINE new == [x EXCEPT !.pc = "updating", !.view = Visible(t)]
  <2>1. txns' = [txns EXCEPT ![t] = new]
    BY <1>1, <1>9 DEF ExpireReadsSources
  <2>2. Visible(t) \subseteq Sources
    BY <1>1 DEF Visible, Txn, IInv, Tables
  <2>3. /\ new \in Txn /\ new.pc = "updating" /\ new.kept = x.kept /\ new.dropped = x.dropped
        /\ new.locked = x.locked
    BY <1>1, <2>2 DEF Txn
  <2>4. x.kept = {} /\ x.dropped \cap managed = {}
    BY <1>1 DEF SoundExpiration
  <2>. HIDE DEF new
  <2>. QED  BY <1>2, <1>5, <2>1, <2>3, <2>4
<1>10. ASSUME NEW p \in Postings, ExpireLocksPosting(t, p) PROVE IInv'
  <2>. DEFINE new == [x EXCEPT !.locked = @ \cup {p}]
  <2>1. txns' = [txns EXCEPT ![t] = new] /\ PostingFree(t, p) /\ x.pc = "updating"
    BY <1>1, <1>10 DEF ExpireLocksPosting
  <2>2. /\ new \in Txn /\ new.pc = x.pc /\ new.kept = x.kept /\ new.dropped = x.dropped
        /\ new.locked = x.locked \cup {p}
    BY <1>1 DEF Txn
  <2>3. x.kept = {} /\ x.dropped \cap managed = {}
    BY <1>1 DEF SoundExpiration
  <2>. HIDE DEF new
  <2>. QED  BY <1>2, <1>5, <2>1, <2>2, <2>3
<1>11. CASE ExpireWritesPostings(t)
  <2>. DEFINE new == WithActivity(x)
              raised == {p \in x.postings : Advertised(p, x.view)}
  <2>1. txns' = [txns EXCEPT ![t] = new] /\ x.locked = x.postings
    BY <1>1, <1>11 DEF ExpireWritesPostings
  <2>2. /\ new \in Txn /\ new.kept = x.kept /\ new.dropped = x.dropped
        /\ new.postings = x.postings /\ new.locked = x.postings
    <3>1. raised \subseteq Postings /\ x.postings \ raised \subseteq Postings
      BY <1>2
    <3>2. new = [x EXCEPT !.pc = "written", !.raised = raised, !.lowered = x.postings \ raised,
                          !.locked = x.postings]
      BY DEF WithActivity
    <3>. HIDE DEF new, raised
    <3>. QED  BY <1>1, <3>1, <3>2 DEF Txn
  <2>3. x.kept = {} /\ x.dropped \cap managed = {}
    BY <1>1 DEF SoundExpiration
  <2>. HIDE DEF new
  <2>. QED  BY <1>2, <1>5, <2>1, <2>2, <2>3
<1>. QED  BY <1>7, <1>8, <1>9, <1>10, <1>11 DEF ExpireStep

\* A commit changes no source of a posting that another list has read the sources of.
LEMMA CommitKeepsIInv ==
  ASSUME IInv, NEW t \in Txns, Commit(t), UNCHANGED aged
  PROVE  IInv'
<1>. DEFINE x == txns[t]
            written == x.kept \cup x.dropped
<1>1. /\ x \in Txn /\ Sound(t, x) /\ x.pc = "written" /\ x.locked = x.postings
      /\ txns \in [Txns -> Txn] /\ Tables
      /\ t \in Lists \/ t \in Expirations
  BY DEF IInv, Sound, Commit, Txns
<1>2. /\ active' = (active \cup x.kept) \ x.dropped
      /\ managed' \subseteq managed \cup written /\ managed \subseteq managed'
      /\ shown' = (shown \cup x.raised) \ x.lowered
      /\ txns' = [txns EXCEPT ![t] = Idle]
  BY DEF Commit, Visible, Written
<1>3. Idle \in Txn /\ txns' \in [Txns -> Txn]
  BY <1>1, <1>2 DEF Idle, Txn
<1>4. txns'[t] = Idle /\ \A u \in Txns \ {t} : txns'[u] = txns[u]
  BY <1>1, <1>2
<1>5. aged = {} =>
        /\ t \in Lists
        /\ PostingsOf(written) \subseteq x.postings
        /\ x.raised = {p \in x.postings : Advertised(p, x.view)}
        /\ x.lowered = x.postings \ x.raised
        /\ \A s \in Sources : PostingOf[s] \in x.postings => (s \in x.view <=> s \in active')
  BY <1>1, <1>2 DEF Sound, SoundExpiration, SoundList, Foresees
<1>6. /\ x.kept \subseteq Sources /\ x.dropped \subseteq Sources /\ x.raised \subseteq Postings
      /\ x.view \subseteq Sources
  BY <1>1 DEF Txn
<1>. HIDE DEF x
<1>7. aged = {} => \A s \in Sources : PostingOf[s] \notin x.postings => (s \in active' <=> s \in active)
  <2>1. PostingsOf(written) \subseteq x.postings => \A s \in written : PostingOf[s] \in x.postings
    BY DEF PostingsOf
  <2>. QED  BY <1>2, <1>5, <1>6, <2>1
<1>8. Tables'
  <2>1. /\ active' \subseteq Sources /\ managed' \subseteq Sources /\ shown' \subseteq Postings
    BY <1>1, <1>2, <1>6 DEF Tables
  <2>2. ASSUME aged = {} PROVE shown' = PostingsOf(active')
    <3>1. ASSUME NEW p \in x.postings PROVE p \in shown' <=> p \in PostingsOf(active')
      <4>1. p \in shown' <=> \E s \in x.view : PostingOf[s] = p
        BY <1>2, <1>5, <2>2, <3>1 DEF Advertised
      <4>. QED  BY <1>5, <1>6, <2>1, <2>2, <3>1, <4>1 DEF PostingsOf
    <3>2. ASSUME NEW p, p \notin x.postings PROVE p \in shown' <=> p \in PostingsOf(active')
      <4>1. p \in shown' <=> p \in PostingsOf(active)
        BY <1>1, <1>2, <1>5, <2>2, <3>2 DEF Tables
      <4>. QED  BY <1>1, <1>7, <2>1, <2>2, <3>2, <4>1 DEF PostingsOf, Tables
    <3>. QED  BY <3>1, <3>2
  <2>. QED  BY <1>1, <2>1, <2>2 DEF Tables, PostingsOf
<1>9. ASSUME NEW u \in Txns PROVE Sound(u, txns[u])'
  <2>1. CASE u = t
    <3>1. /\ Idle.pc = "idle" /\ Idle.kept = {} /\ Idle.dropped = {} /\ Idle.postings = {}
          /\ PostingsOf({}) = {}
      BY DEF Idle, PostingsOf
    <3>. QED  BY <1>3, <1>4, <2>1, <3>1 DEF Sound, SoundList, SoundExpiration, Foresees
  <2>2. CASE u # t
    <3>. DEFINE y == txns[u]
    <3>1. Sound(u, y) /\ Apart(x, y)
      BY <2>2 DEF IInv, x
    <3>2. u \in Expirations => y.dropped \cap managed' = {}
      BY <1>2, <3>1 DEF Apart, Sound, SoundExpiration
    <3>3. ASSUME aged = {}, y.pc \in {"deriving", "written"}, NEW s \in Sources, PostingOf[s] \in y.postings
          PROVE  s \in active' <=> s \in active
      <4>1. PostingOf[s] \notin x.postings
        BY <1>1, <3>1, <3>3 DEF Sound, Apart, x
      <4>. QED  BY <1>7, <3>3, <4>1
    <3>. HIDE DEF y
    <3>4. aged = {} /\ Foresees(y) =>
            /\ y.pc \in {"deriving", "written"} =>
                 \A s \in Sources : PostingOf[s] \in y.postings =>
                   (s \in y.view <=> s \in (active' \cup y.kept) \ y.dropped)
            /\ y.pc = "written" =>
                 /\ y.raised = {p \in y.postings : Advertised(p, y.view)}
                 /\ y.lowered = y.postings \ y.raised
      BY <3>3 DEF Foresees
    <3>5. txns'[u] = y
      BY <1>4, <2>2 DEF y
    <3>. QED  BY <3>1, <3>2, <3>4, <3>5 DEF Sound, SoundList, SoundExpiration, Foresees
  <2>. QED  BY <2>1, <2>2
<1>10. ASSUME NEW u \in Txns, NEW v \in Txns, u # v PROVE Apart(txns[u], txns[v])'
  <2>1. Idle.kept = {} /\ Idle.dropped = {} /\ Idle.locked = {}
    BY DEF Idle
  <2>. QED  BY <1>4, <1>10, <2>1 DEF IInv, Apart
<1>. QED  BY <1>3, <1>8, <1>9, <1>10 DEF IInv

LEMMA NextPreservesIInv == IInv /\ [Next]_activityVars => IInv'
<1>. SUFFICES ASSUME IInv, [Next]_activityVars PROVE IInv'
  OBVIOUS
<1>1. CASE UNCHANGED activityVars
  BY <1>1 DEF activityVars, IInv, Tables, Sound, SoundList, SoundExpiration, Foresees
<1>2. ASSUME NEW t \in Txns, Rollback(t), UNCHANGED aged PROVE IInv'
  <2>1. \A u \in Txns : txns[u] \in Txn
    BY DEF IInv
  <2>. QED  BY <1>2, <2>1, IdleIsSound, OneMoves DEF Rollback
<1>. QED  BY <1>1, <1>2, ListStepKeepsIInv, ExpireStepKeepsIInv, CommitKeepsIInv DEF Next

\* Every reachable state satisfies the inductive invariant.
THEOREM Invariance == Spec => []IInv
  BY InitEstablishesIInv, NextPreservesIInv, PTL DEF Spec

\* Type correctness of the tables and of what a transaction has done.
THEOREM TypeCorrect == Spec => []TypeOK
<1>1. IInv => TypeOK
  BY DEF IInv, Tables, TypeOK
<1>. QED  BY <1>1, Invariance, PTL

\* Two lists never wait for each other, however many there are and whatever
\* postings they share.
THEOREM ListsNeverDeadlock == Spec => []NoWaitCycle
<1>1. IInv => NoWaitCycle
  <2>. SUFFICES ASSUME IInv, NEW t \in Lists, NEW u \in Lists, WaitsFor(t, u), WaitsFor(u, t)
                PROVE  FALSE
    BY DEF NoWaitCycle
  <2>1. /\ t \in Txns /\ u \in Txns /\ t # u
        /\ Sound(t, txns[t]) /\ Sound(u, txns[u]) /\ Apart(txns[t], txns[u]) /\ Apart(txns[u], txns[t])
        /\ txns[t] \in Txn /\ txns[u] \in Txn
    BY DEF IInv, Txns, WaitsFor
  <2>2. PICK p \in txns[u].locked : txns[t].pc = "locking" /\ NextPosting(t, p)
    BY <2>1 DEF WaitsFor, Sound, Apart
  <2>3. PICK q \in txns[t].locked : txns[u].pc = "locking" /\ NextPosting(u, q)
    BY <2>1 DEF WaitsFor, Sound, Apart
  <2>4. p \in Nat /\ q \in Nat
    BY <2>1, PostingsAssumption DEF Txn
  <2>5. q < p
    BY <2>1, <2>2, <2>3 DEF NextPosting, Sound, SoundList, Ascending
  <2>6. p < q
    BY <2>1, <2>2, <2>3 DEF NextPosting, Sound, SoundList, Ascending
  <2>. QED  BY <2>4, <2>5, <2>6
<1>. QED  BY <1>1, Invariance, PTL

\* Whoever a list waits for waits, if at all, for a posting with a larger id, so
\* there is no cycle of any number of waiting lists.
WaitsClimb ==
  \A t, u, v \in Lists : WaitsFor(t, u) /\ WaitsFor(u, v) =>
    /\ txns[t].pc = "locking" /\ txns[u].pc = "locking"
    /\ \A p, q \in Postings : NextPosting(t, p) /\ NextPosting(u, q) => p < q

\* A chain of waiting lists asks for ever larger postings.
THEOREM ListsClimb == Spec => []WaitsClimb
<1>1. IInv => WaitsClimb
  <2>. SUFFICES ASSUME IInv, NEW t \in Lists, NEW u \in Lists, NEW v \in Lists,
                       WaitsFor(t, u), WaitsFor(u, v)
                PROVE  /\ txns[t].pc = "locking" /\ txns[u].pc = "locking"
                       /\ \A p, q \in Postings : NextPosting(t, p) /\ NextPosting(u, q) => p < q
    BY DEF WaitsClimb
  <2>1. /\ t # u /\ u # v /\ Sound(t, txns[t]) /\ Sound(u, txns[u])
        /\ Apart(txns[t], txns[u]) /\ Apart(txns[u], txns[v])
        /\ txns[t] \in Txn /\ txns[u] \in Txn
    BY DEF IInv, Txns, WaitsFor
  <2>2. PICK a \in txns[u].locked : txns[t].pc = "locking" /\ NextPosting(t, a)
    BY <2>1 DEF WaitsFor, Sound, Apart
  <2>3. txns[u].pc = "locking"
    BY <2>1 DEF WaitsFor, Sound, Apart
  <2>4. ASSUME NEW p \in Postings, NEW q \in Postings, NextPosting(t, p), NextPosting(u, q)
        PROVE  p < q
    <3>1. a \in Nat /\ p \in Nat /\ q \in Nat
      BY <2>1, PostingsAssumption DEF Txn
    <3>2. a = p
      BY <2>2, <2>4, <3>1 DEF NextPosting
    <3>3. a < q
      BY <2>1, <2>3, <2>4 DEF NextPosting, Sound, SoundList, Ascending
    <3>. QED  BY <3>2, <3>3
  <2>. QED  BY <2>2, <2>3, <2>4
<1>. QED  BY <1>1, Invariance, PTL

\* While nothing is overdue, no interleaving of lists loses an update.
THEOREM NoListUpdateLost == Spec => []ListsLoseNoUpdate
<1>1. IInv => ListsLoseNoUpdate
  BY DEF IInv, Tables, ListsLoseNoUpdate, QuietPostingsFollowSources
<1>. QED  BY <1>1, Invariance, PTL

\* What a complete list took charge of is closed by a list, whatever the expiration read before.
THEOREM ChargeKept == Spec => ListsKeepCharge
<1>. DEFINE Kept == \A s \in managed \cap (active \ active') : \E t \in Lists : s \in txns[t].dropped
<1>1. IInv /\ [Next]_activityVars => [Kept]_activityVars
  <2>. SUFFICES ASSUME IInv, Next PROVE Kept
    OBVIOUS
  <2>1. CASE active' = active
    BY <2>1
  <2>2. ASSUME NEW t \in Txns, Commit(t) PROVE Kept
    <3>1. t \in Lists \/ txns[t].dropped \cap managed = {}
      BY <2>2 DEF Txns, IInv, Sound, SoundExpiration
    <3>2. active \ active' \subseteq txns[t].dropped
      BY <2>2 DEF Commit, Visible
    <3>. QED  BY <3>1, <3>2
  <2>. QED  BY <2>1, <2>2 DEF Next, ListStep, ListWritesSources, ListLocksPosting, ListReadsSources,
            ListWritesPostings, ExpireStep, ExpireSelects, ExpireWritesSources, ExpireReadsSources,
            ExpireLocksPosting, ExpireWritesPostings, Rollback
<1>. QED  BY <1>1, Invariance, PTL DEF Spec, ListsKeepCharge
=============================================================================
