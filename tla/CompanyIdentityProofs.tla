------------------------- MODULE CompanyIdentityProofs -------------------------
(***************************************************************************)
(* Proofs about CompanyIdentity, for any identities, facts, imports and    *)
(* sessions, and batches of any size: names have one owner (NamesOwned),   *)
(* the audit finds nothing (AuditFindsNothing), decisions last (Decisions- *)
(* Stay), and nobody waits in a circle (NobodyWaitsInACircle, under two    *)
(* hypotheses).                                                            *)
(*                                                                         *)
(* A transaction checks the owners of the names it has locked in what it   *)
(* sees, its view, and its commit makes the view the tables.  SoundDraft   *)
(* says that the view of its names is right and that its draft is about    *)
(* them, with one exception: the old name of a renamed company, which      *)
(* nobody has locked, becomes an alias.  That it still leads where it led  *)
(* rests on the row lock and on the unique index of the aliases.           *)
(***************************************************************************)
EXTENDS CompanyIdentity, FiniteSetTheorems, WellFoundedInduction, TLAPS

\* Name n leads to company i in these tables, as canonical name or as alias.
Leads(rows, aliases, n, i) ==
  \/ i \in DOMAIN rows /\ rows[i].name = n
  \/ n \in DOMAIN aliases /\ aliases[n] = i

Led(n, i) == Leads(company, alias, n, i)
Seen(d, n, i) == Leads(RowsIn(d), AliasesIn(d), n, i)
SeenAt(d, s, i) == i \in DOMAIN RowsIn(d) /\ RowsIn(d)[i].site = s

IsAlias(d, n, i) == n \in DOMAIN AliasesIn(d) /\ AliasesIn(d)[n] = i

\* The rows of a draft: a company that is on file is renamed to a name that is
\* locked and keeps its old one as an alias, or is not renamed.
SoundRows(d, H) ==
  \A i \in DOMAIN d.company :
    IF i \in DOMAIN company
    THEN /\ \/ d.company[i].name = company[i].name
            \/ d.company[i].name \in H /\ IsAlias(d, company[i].name, i)
         /\ d.company[i].site \in H \cup {NoSite, company[i].site}
    ELSE d.company[i].name \in H /\ d.company[i].site \in H \cup {NoSite}

\* The aliases of a draft are of names that are locked, or are old names.
SoundAliases(d, H) ==
  \A n \in DOMAIN d.alias :
    /\ \/ n \in H
       \/ \E i \in DOMAIN d.company \cap DOMAIN company : company[i].name = n /\ d.alias[n] = i
    /\ d.alias[n] \in DOMAIN RowsIn(d)
    /\ n \in DOMAIN alias => n \in d.dropped

\* A name whose alias is deleted is used otherwise, and led to a row of the draft.
SoundDrops(d, H) ==
  \A n \in d.dropped :
    /\ n \in H
    /\ n \in DOMAIN d.alias \/ \E j \in DOMAIN d.company : d.company[j].name = n
    /\ n \in DOMAIN alias => alias[n] \in DOMAIN d.company

OneRowPerName(rows) == \A i, j \in DOMAIN rows : rows[i].name = rows[j].name => i = j

\* The view of what is locked: a name or website that no import has touched has
\* one owner at most, and a name leads where it led.
SoundView(d, H) ==
  /\ OneRowPerName(RowsIn(d))
  /\ \A n \in H :
       /\ \A i : Led(n, i) => Seen(d, n, i)
       /\ n \notin imported => \A i, j : Seen(d, n, i) /\ Seen(d, n, j) => i = j
       /\ n \notin imported => \A i, j : SeenAt(d, n, i) /\ SeenAt(d, n, j) => i = j

SoundDraft(d, H) ==
  SoundRows(d, H) /\ SoundAliases(d, H) /\ SoundDrops(d, H) /\ SoundView(d, H)

\* The same of what is committed.
SoundTables ==
  /\ DOMAIN company \subseteq Companies
  /\ \A n \in DOMAIN alias : alias[n] \in DOMAIN company
  /\ OneRowPerName(company)
  /\ \A n : n \notin imported => \A i, j : Led(n, i) /\ Led(n, j) => i = j
  /\ \A s : s # NoSite /\ s \notin imported =>
       \A i, j \in DOMAIN company : company[i].site = s /\ company[j].site = s => i = j

\* What is accepted has its names: they lead to the company it is accepted for.
SoundFile ==
  /\ \A c \in Found : item[c].status = "accepted" => \A n \in NamesOf(c) : Led(n, item[c].company)
  /\ \A f \in Facts : /\ fact[f].status = "accepted" => \A n \in NamesOf(f) : Led(n, fact[f].company)
                      /\ fact[f].status = "review" => fact[f] = Undecided

\* A transaction holds the names of what it still has to do before it writes.
SoundLocks(a, t) ==
  /\ t.pc = "keys" => \A c \in DOMAIN t.todo : IdentityKeys({c}) \subseteq t.keys \cup t.held
  /\ t.pc \in {"work", "filing"} => \A c \in DOMAIN t.todo : IdentityKeys({c}) \subseteq t.held
  /\ t.pc \in {"keys", "work"} => \A c \in DOMAIN t.todo :
       /\ t.todo[c].target \in DOMAIN company \cup {NoCompany}
       /\ t.todo[c].action \in {"link", "rename"} => t.todo[c].target \in DOMAIN company
       /\ a \in Reviewers /\ t.pc = "work" => t.todo[c].target \in t.rows \cup {NoCompany}
  /\ t.pc \notin {"work", "filing"} => t.draft = NoDraft
  /\ t.keys \cup t.held \subseteq Nat
  /\ a \in Ingesters => \A c, e \in DOMAIN t.todo : c = e

\* What it has to do is not decided yet: a reviewer has locked the items, and a
\* curator has read the facts under the locks.  A call has one kind of work.
SoundWork(a, t) ==
  /\ DOMAIN t.todo \subseteq IF a \in Curators THEN Facts ELSE Found
  /\ \A c \in DOMAIN t.todo :
       /\ a \in Reviewers => c \in t.locked /\ item[c].status = "review"
       /\ a \in Curators /\ t.todo[c].action = "auto" =>
            /\ \A e \in DOMAIN t.todo : t.todo[e].action = "auto"
            /\ t.pc = "work" => fact[c] = Undecided

\* Where the rows of a draft come from.
SoundWrites(a, t) ==
  \A i \in DOMAIN t.draft.company :
    IF i \in DOMAIN company THEN i \in t.rows /\ a \notin Curators
    ELSE \/ i \in FreshIds
         \/ i \in Identities /\ NameOf[i] \in t.held

\* A draft decides what was not decided, and an accepted name is seen to lead to
\* its company.
SoundRecords(a, t) ==
  \A c \in DOMAIN t.draft.record :
    /\ a \notin Ingesters /\ NamesOf(c) \subseteq t.held
    /\ IF a \in Reviewers THEN c \in Found \cap t.locked /\ item[c].status = "review"
       ELSE c \in Facts /\ fact[c] = Undecided
    /\ t.draft.record[c].status \in {"accepted", "rejected"}
    /\ t.draft.record[c].status = "accepted" =>
         \A n \in NamesOf(c) : Seen(t.draft, n, t.draft.record[c].company)

SoundTxn(a, t) ==
  /\ SoundDraft(t.draft, t.held) /\ SoundLocks(a, t) /\ SoundWork(a, t)
  /\ SoundWrites(a, t) /\ SoundRecords(a, t)

\* Two transactions have no key, no item, no company row that they write and no
\* alias in common.
Apart(a, t, b, u) ==
  /\ t.held \cap u.held = {} /\ t.locked \cap u.locked = {}
  /\ DOMAIN t.draft.company \cap DOMAIN u.draft.company = {}
  /\ DOMAIN t.draft.alias \cap DOMAIN u.draft.alias = {}
  /\ Excludes(a, b) => t.rows \cap u.rows = {}

NamesInv ==
  /\ SoundTables /\ SoundFile
  /\ \A a \in Actors : SoundTxn(a, txn[a])
  /\ \A a, b \in Actors : a # b => Apart(a, txn[a], b, txn[b])


\* The shape of the records, which no step changes.
IsDraft(d) ==
  d = [company |-> d.company, alias |-> d.alias, filing |-> d.filing, record |-> d.record,
       dropped |-> d.dropped]
IsTxn(t) ==
  /\ t = [pc |-> t.pc, todo |-> t.todo, locked |-> t.locked, keys |-> t.keys, held |-> t.held,
          rows |-> t.rows, draft |-> t.draft]
  /\ IsDraft(t.draft)

Shape ==
  /\ txn = [a \in Actors |-> txn[a]] /\ \A a \in Actors : IsTxn(txn[a])
  /\ item = [c \in Found |-> item[c]] /\ fact = [f \in Facts |-> fact[f]]

CInv == Shape /\ NamesInv

-----------------------------------------------------------------------------
(* The four ways to write a draft.                                         *)

\* What a transaction sees, row by row.
LEMMA Views ==
  ASSUME NEW d
  PROVE  /\ DOMAIN RowsIn(d) = DOMAIN d.company \cup DOMAIN company
         /\ \A i \in DOMAIN RowsIn(d) :
              RowsIn(d)[i] = IF i \in DOMAIN d.company THEN d.company[i] ELSE company[i]
         /\ DOMAIN AliasesIn(d) = DOMAIN d.alias \cup (DOMAIN alias \ d.dropped)
         /\ \A n \in DOMAIN AliasesIn(d) :
              AliasesIn(d)[n] = IF n \in DOMAIN d.alias THEN d.alias[n] ELSE alias[n]
  BY DEF RowsIn, AliasesIn, Over, Without

\* e is d with the row of company i written.
CompanyIn(e, d, i, name, site) ==
  /\ IsDraft(e) /\ e.alias = d.alias /\ e.dropped = d.dropped /\ e.filing = d.filing /\ e.record = d.record
  /\ DOMAIN e.company = DOMAIN d.company \cup {i}
  /\ e.company[i].name = name /\ e.company[i].site = site
  /\ \A x \in DOMAIN d.company : x # i => e.company[x] = d.company[x]
  /\ DOMAIN RowsIn(e) = DOMAIN RowsIn(d) \cup {i}
  /\ RowsIn(e)[i].name = name /\ RowsIn(e)[i].site = site
  /\ \A x \in DOMAIN RowsIn(d) : x # i => RowsIn(e)[x] = RowsIn(d)[x]
  /\ AliasesIn(e) = AliasesIn(d)

LEMMA CompanyWritten ==
  ASSUME NEW d, IsDraft(d), NEW i, NEW name, NEW site
  PROVE  CompanyIn(WithCompany(d, i, name, site), d, i, name, site)
<1>. DEFINE e == WithCompany(d, i, name, site)
<1>1. /\ IsDraft(e) /\ e.alias = d.alias /\ e.dropped = d.dropped /\ e.filing = d.filing /\ e.record = d.record
      /\ e.company = With(d.company, i, [name |-> name, site |-> site])
  BY DEF IsDraft, WithCompany
<1>2. /\ DOMAIN e.company = DOMAIN d.company \cup {i}
      /\ e.company[i] = [name |-> name, site |-> site]
      /\ \A x \in DOMAIN d.company : x # i => e.company[x] = d.company[x]
  BY <1>1 DEF With
<1>3. AliasesIn(e) = AliasesIn(d)
  BY <1>1 DEF AliasesIn
<1>. HIDE DEF e
<1>4. /\ DOMAIN RowsIn(e) = DOMAIN RowsIn(d) \cup {i}
      /\ RowsIn(e)[i] = [name |-> name, site |-> site]
      /\ \A x \in DOMAIN RowsIn(d) : x # i => RowsIn(e)[x] = RowsIn(d)[x]
  <2>1. /\ DOMAIN RowsIn(e) = DOMAIN e.company \cup DOMAIN company
        /\ \A x \in DOMAIN RowsIn(e) :
             RowsIn(e)[x] = IF x \in DOMAIN e.company THEN e.company[x] ELSE company[x]
    BY Views
  <2>2. /\ DOMAIN RowsIn(d) = DOMAIN d.company \cup DOMAIN company
        /\ \A x \in DOMAIN RowsIn(d) :
             RowsIn(d)[x] = IF x \in DOMAIN d.company THEN d.company[x] ELSE company[x]
    BY Views
  <2>. QED  BY <1>2, <2>1, <2>2
<1>. QED  BY <1>1, <1>2, <1>3, <1>4 DEF e, CompanyIn

\* Seen, without the view.
LEMMA SeenByDraft ==
  ASSUME NEW d, NEW n, NEW i
  PROVE  Seen(d, n, i) <=>
           \/ i \in DOMAIN d.company /\ d.company[i].name = n
           \/ i \in DOMAIN company \ DOMAIN d.company /\ company[i].name = n
           \/ IsAlias(d, n, i)
  BY Views DEF Seen, Leads, IsAlias

LEMMA AliasByDraft ==
  ASSUME NEW d, NEW n, NEW i
  PROVE  IsAlias(d, n, i) <=> \/ n \in DOMAIN d.alias /\ d.alias[n] = i
                              \/ n \in (DOMAIN alias \ d.dropped) \ DOMAIN d.alias /\ alias[n] = i
  BY Views DEF IsAlias

\* A new company with a name that nobody has.
LEMMA CreationIsSound ==
  ASSUME NEW d, IsDraft(d), NEW H, NoSite \notin H, SoundDraft(d, H),
         NEW i, i \notin DOMAIN RowsIn(d), NEW name \in H, NEW site \in H \cup {NoSite},
         \A x : ~Seen(d, name, x), \A x : site # NoSite => ~SeenAt(d, site, x)
  PROVE  LET e == WithCompany(d, i, name, site) IN
         /\ SoundDraft(e, H)
         /\ \A n, x : Seen(e, n, x) <=> Seen(d, n, x) \/ (n = name /\ x = i)
<1>. DEFINE e == WithCompany(d, i, name, site)
<1>1. /\ e.alias = d.alias /\ e.dropped = d.dropped
      /\ DOMAIN e.company = DOMAIN d.company \cup {i}
      /\ e.company[i].name = name /\ e.company[i].site = site
      /\ \A x \in DOMAIN d.company : x # i => e.company[x] = d.company[x]
      /\ DOMAIN RowsIn(e) = DOMAIN RowsIn(d) \cup {i}
      /\ RowsIn(e)[i].name = name /\ RowsIn(e)[i].site = site
      /\ \A x \in DOMAIN RowsIn(d) : x # i => RowsIn(e)[x] = RowsIn(d)[x]
      /\ AliasesIn(e) = AliasesIn(d)
  <2>1. CompanyIn(e, d, i, name, site)
    BY CompanyWritten
  <2>. HIDE DEF e
  <2>. QED  BY <2>1 DEF CompanyIn
<1>. HIDE DEF e
<1>2. i \notin DOMAIN company /\ i \notin DOMAIN d.company
  BY Views
<1>3. \A n, x : Seen(e, n, x) <=> Seen(d, n, x) \/ (n = name /\ x = i)
  BY <1>1 DEF Seen, Leads
<1>4. \A n, x : IsAlias(e, n, x) <=> IsAlias(d, n, x)
  BY <1>1 DEF IsAlias
<1>5. SoundRows(e, H)
  BY <1>1, <1>2, <1>4 DEF SoundDraft, SoundRows
<1>6. SoundAliases(e, H)
  BY <1>1, <1>2 DEF SoundDraft, SoundAliases
<1>7. SoundDrops(e, H)
  BY <1>1, <1>2 DEF SoundDraft, SoundDrops
<1>8. OneRowPerName(RowsIn(e))
  <2>1. \A x \in DOMAIN RowsIn(d) : RowsIn(d)[x].name # name
    BY DEF Seen, Leads
  <2>. QED  BY <1>1, <2>1 DEF SoundDraft, SoundView, OneRowPerName
<1>9. \A s, x : SeenAt(e, s, x) <=> SeenAt(d, s, x) \/ (s = site /\ x = i)
  BY <1>1 DEF SeenAt
<1>10. SoundView(e, H)
  BY <1>3, <1>8, <1>9 DEF SoundDraft, SoundView
<1>. QED  BY <1>3, <1>5, <1>6, <1>7, <1>10 DEF SoundDraft, e

\* A company keeps its name and may get another website.
LEMMA UpdateIsSound ==
  ASSUME NEW d, IsDraft(d), NEW H, NoSite \notin H, SoundDraft(d, H),
         NEW i \in DOMAIN RowsIn(d), NEW site \in H \cup {NoSite, RowsIn(d)[i].site},
         \A x : site # RowsIn(d)[i].site /\ SeenAt(d, site, x) => site = NoSite \/ x = i
  PROVE  LET e == WithCompany(d, i, RowsIn(d)[i].name, site) IN
         /\ SoundDraft(e, H)
         /\ \A n, x : Seen(e, n, x) <=> Seen(d, n, x)
<1>. DEFINE name == RowsIn(d)[i].name
            e == WithCompany(d, i, name, site)
<1>1. /\ e.alias = d.alias /\ e.dropped = d.dropped
      /\ DOMAIN e.company = DOMAIN d.company \cup {i}
      /\ e.company[i].name = name /\ e.company[i].site = site
      /\ \A x \in DOMAIN d.company : x # i => e.company[x] = d.company[x]
      /\ DOMAIN RowsIn(e) = DOMAIN RowsIn(d)
      /\ RowsIn(e)[i].name = name /\ RowsIn(e)[i].site = site
      /\ \A x \in DOMAIN RowsIn(d) : x # i => RowsIn(e)[x] = RowsIn(d)[x]
      /\ AliasesIn(e) = AliasesIn(d)
  <2>1. CompanyIn(e, d, i, name, site)
    BY CompanyWritten
  <2>. HIDE DEF e
  <2>. QED  BY <2>1 DEF CompanyIn
<1>2. /\ i \in DOMAIN d.company => RowsIn(d)[i] = d.company[i]
      /\ i \notin DOMAIN d.company => i \in DOMAIN company /\ RowsIn(d)[i] = company[i]
  BY Views
<1>. HIDE DEF e
<1>3. \A n, x : Seen(e, n, x) <=> Seen(d, n, x)
  BY <1>1 DEF Seen, Leads
<1>4. \A n, x : IsAlias(e, n, x) <=> IsAlias(d, n, x)
  BY <1>1 DEF IsAlias
<1>5. SoundRows(e, H)
  <2>. SUFFICES ASSUME NEW x \in DOMAIN e.company
                PROVE  IF x \in DOMAIN company
                       THEN /\ \/ e.company[x].name = company[x].name
                               \/ e.company[x].name \in H /\ IsAlias(e, company[x].name, x)
                            /\ e.company[x].site \in H \cup {NoSite, company[x].site}
                       ELSE e.company[x].name \in H /\ e.company[x].site \in H \cup {NoSite}
    BY DEF SoundRows
  <2>. QED  BY <1>1, <1>2, <1>4 DEF SoundDraft, SoundRows
<1>6. SoundAliases(e, H)
  BY <1>1 DEF SoundDraft, SoundAliases
<1>7. SoundDrops(e, H)
  BY <1>1, <1>2 DEF SoundDraft, SoundDrops
<1>8. OneRowPerName(RowsIn(e))
  BY <1>1 DEF SoundDraft, SoundView, OneRowPerName
<1>9. \A s, x : SeenAt(e, s, x) =>
        SeenAt(d, s, x) \/ (s = site /\ x = i /\ site # RowsIn(d)[i].site)
  BY <1>1 DEF SeenAt
<1>10. SoundView(e, H)
  BY <1>3, <1>8, <1>9 DEF SoundDraft, SoundView
<1>. QED  BY <1>3, <1>5, <1>6, <1>7, <1>10 DEF SoundDraft, e

\* Names of which nobody else is seen to be the owner become aliases.
LEMMA AliasesAreSound ==
  ASSUME NEW d, IsDraft(d), NEW H, SoundDraft(d, H),
         NEW i \in DOMAIN RowsIn(d), NEW S \in SUBSET H,
         \A n \in S : \A x : Seen(d, n, x) => x = i
  PROVE  LET e == WithAliases(d, i, S) IN
         /\ IsDraft(e) /\ e.company = d.company /\ e.record = d.record
         /\ SoundDraft(e, H)
         /\ \A n, x : Seen(d, n, x) => Seen(e, n, x)
         /\ \A n \in S : Seen(e, n, i)
<1>. DEFINE new == S \ ({RowsIn(d)[i].name} \cup DOMAIN AliasesIn(d))
            e == WithAliases(d, i, S)
<1>1. /\ IsDraft(e) /\ e.company = d.company /\ e.record = d.record /\ e.dropped = d.dropped
      /\ e.alias = Over([n \in new |-> i], d.alias)
  BY DEF IsDraft, WithAliases
<1>2. /\ DOMAIN e.alias = new \cup DOMAIN d.alias
      /\ \A n \in DOMAIN e.alias : e.alias[n] = IF n \in new THEN i ELSE d.alias[n]
  BY <1>1 DEF Over
<1>3. RowsIn(e) = RowsIn(d)
  BY <1>1 DEF RowsIn
<1>4. /\ DOMAIN AliasesIn(d) = DOMAIN d.alias \cup (DOMAIN alias \ d.dropped)
      /\ \A n \in new : n \notin DOMAIN d.alias /\ (n \in DOMAIN alias => n \in d.dropped)
  BY Views
<1>. HIDE DEF e
<1>5. \A n, x : IsAlias(e, n, x) <=> IsAlias(d, n, x) \/ (n \in new /\ x = i)
  BY <1>1, <1>2, <1>4, AliasByDraft
<1>6. \A n, x : Seen(e, n, x) <=> Seen(d, n, x) \/ (n \in new /\ x = i)
  BY <1>3, <1>5 DEF Seen, Leads, IsAlias
<1>7. SoundRows(e, H)
  BY <1>1, <1>5 DEF SoundDraft, SoundRows
<1>8. SoundAliases(e, H)
  BY <1>1, <1>2, <1>3, <1>4 DEF SoundDraft, SoundAliases
<1>9. SoundDrops(e, H)
  BY <1>1, <1>2 DEF SoundDraft, SoundDrops
<1>10. SoundView(e, H)
  <2>1. \A s, x : SeenAt(e, s, x) <=> SeenAt(d, s, x)
    BY <1>3 DEF SeenAt
  <2>2. \A n \in new : \A x : Seen(d, n, x) => x = i
    OBVIOUS
  <2>. QED  BY <1>3, <1>6, <2>1, <2>2 DEF SoundDraft, SoundView
<1>11. \A n \in S : Seen(e, n, i)
  <2>. SUFFICES ASSUME NEW n \in S, n \notin new PROVE Seen(d, n, i)
    BY <1>6
  <2>1. CASE n = RowsIn(d)[i].name
    BY <2>1 DEF Seen, Leads
  <2>2. CASE n \in DOMAIN AliasesIn(d)
    BY <2>2 DEF Seen, Leads
  <2>. QED  BY <2>1, <2>2
<1>. QED  BY <1>1, <1>6, <1>7, <1>8, <1>9, <1>10, <1>11 DEF SoundDraft, e

\* A company gets another name, of which nobody else is seen to be the owner.
LEMMA RenamingIsSound ==
  ASSUME NEW d, IsDraft(d), NEW H, NoSite \notin H, SoundDraft(d, H),
         NEW i \in DOMAIN RowsIn(d), NEW name \in H, NEW site \in H \cup {NoSite},
         RowsIn(d)[i].name # name,
         \A x : Seen(d, name, x) => x = i,
         \A x : site \in H /\ SeenAt(d, site, x) => x = i,
         \A x : IsAlias(d, RowsIn(d)[i].name, x) => x = i
  PROVE  LET e == WithCompany(Renamed(d, i, name), i, name, site) IN
         /\ IsDraft(e) /\ e.record = d.record
         /\ DOMAIN e.company = DOMAIN d.company \cup {i}
         /\ SoundDraft(e, H)
         /\ \A n, x : Seen(d, n, x) => Seen(e, n, x)
         /\ \A n, x : Seen(e, n, x) => Seen(d, n, x) \/ x = i
         /\ Seen(e, name, i)
<1>. DEFINE old == RowsIn(d)[i].name
            k == KeepsOldName(d, i)
            r == Renamed(d, i, name)
            e == WithCompany(r, i, name, site)
<1>1. /\ IsDraft(k) /\ k.company = d.company /\ k.record = d.record /\ k.dropped = d.dropped
      /\ DOMAIN k.alias = DOMAIN d.alias \cup ({old} \ DOMAIN AliasesIn(d))
      /\ \A n \in DOMAIN k.alias : k.alias[n] = IF n \notin DOMAIN AliasesIn(d) /\ n = old THEN i ELSE d.alias[n]
  BY Views DEF KeepsOldName, IsDraft, With
<1>2. /\ IsDraft(r) /\ r.company = k.company /\ r.record = k.record
      /\ r.dropped = k.dropped \cup {name} /\ r.alias = Without(k.alias, {name})
  <2>1. r = [k EXCEPT !.alias = Without(@, {name}), !.dropped = @ \cup {name}]
    BY DEF Renamed
  <2>. HIDE DEF k, r
  <2>. QED  BY <1>1, <2>1 DEF IsDraft
<1>3. CompanyIn(e, r, i, name, site)
  BY <1>2, CompanyWritten
<1>. HIDE DEF k, r, e
<1>4. /\ IsDraft(e) /\ e.record = d.record
      /\ DOMAIN e.company = DOMAIN d.company \cup {i}
      /\ e.company[i].name = name /\ e.company[i].site = site
      /\ \A x \in DOMAIN d.company : x # i => e.company[x] = d.company[x]
      /\ e.dropped = d.dropped \cup {name}
  BY <1>1, <1>2, <1>3 DEF CompanyIn
<1>5. /\ DOMAIN e.alias = (DOMAIN d.alias \cup ({old} \ DOMAIN AliasesIn(d))) \ {name}
      /\ \A n \in DOMAIN e.alias : e.alias[n] = IF n \notin DOMAIN AliasesIn(d) /\ n = old THEN i ELSE d.alias[n]
  BY <1>1, <1>2, <1>3 DEF CompanyIn, Without
<1>6. /\ DOMAIN RowsIn(e) = DOMAIN RowsIn(d)
      /\ RowsIn(e)[i].name = name /\ RowsIn(e)[i].site = site
      /\ \A x \in DOMAIN RowsIn(d) : x # i => RowsIn(e)[x] = RowsIn(d)[x]
  <2>1. RowsIn(r) = RowsIn(d)
    BY <1>1, <1>2 DEF RowsIn
  <2>. QED  BY <1>3, <2>1 DEF CompanyIn
<1>7. /\ DOMAIN AliasesIn(d) = DOMAIN d.alias \cup (DOMAIN alias \ d.dropped)
      /\ i \in DOMAIN d.company => RowsIn(d)[i] = d.company[i]
      /\ i \notin DOMAIN d.company => i \in DOMAIN company /\ RowsIn(d)[i] = company[i]
      /\ old # name
  BY Views
<1>8. \A n, x : IsAlias(e, n, x) <=> n # name /\ (IsAlias(d, n, x) \/ (n = old /\ x = i))
  <2>. SUFFICES ASSUME NEW n, NEW x
                PROVE  IsAlias(e, n, x) <=> n # name /\ (IsAlias(d, n, x) \/ (n = old /\ x = i))
    OBVIOUS
  <2>1. CASE n = name
    BY <1>4, <1>5, <2>1, AliasByDraft
  <2>2. CASE n # name /\ n # old
    BY <1>4, <1>5, <2>2, AliasByDraft
  <2>3. CASE n # name /\ n = old
    <3>1. CASE old \in DOMAIN AliasesIn(d)
      <4>1. IsAlias(d, old, AliasesIn(d)[old])
        BY <3>1 DEF IsAlias
      <4>2. AliasesIn(d)[old] = i
        BY <4>1
      <4>3. IsAlias(e, n, x) <=> IsAlias(d, n, x)
        BY <1>4, <1>5, <2>3, <3>1, AliasByDraft
      <4>. QED  BY <2>3, <4>1, <4>2, <4>3
    <3>2. CASE old \notin DOMAIN AliasesIn(d)
      <4>1. old \in DOMAIN e.alias /\ e.alias[old] = i /\ ~IsAlias(d, old, x)
        BY <1>5, <1>7, <3>2 DEF IsAlias
      <4>. QED  BY <2>3, <4>1, AliasByDraft
    <3>. QED  BY <3>1, <3>2
  <2>. QED  BY <2>1, <2>2, <2>3
<1>9. \A n, x : Seen(d, n, x) => Seen(e, n, x)
  <2>. SUFFICES ASSUME NEW n, NEW x, Seen(d, n, x) PROVE Seen(e, n, x)
    OBVIOUS
  <2>1. CASE n = name
    BY <1>6, <2>1 DEF Seen, Leads
  <2>2. CASE n # name /\ IsAlias(d, n, x)
    BY <1>8, <2>2 DEF Seen, Leads, IsAlias
  <2>3. CASE n # name /\ x \in DOMAIN RowsIn(d) /\ RowsIn(d)[x].name = n
    BY <1>6, <1>8, <2>3 DEF Seen, Leads, IsAlias
  <2>. QED  BY <2>1, <2>2, <2>3 DEF Seen, Leads, IsAlias
<1>10. \A n, x : Seen(e, n, x) => Seen(d, n, x) \/ x = i
  BY <1>6, <1>8 DEF Seen, Leads, IsAlias
<1>11. \A x : Seen(e, name, x) => x = i
  <2>1. \A x : Seen(e, name, x) => Seen(d, name, x) \/ x = i
    BY <1>10
  <2>. QED  BY <2>1
<1>12. \A n, x : n # name /\ Seen(e, n, x) => Seen(d, n, x)
  BY <1>6, <1>8 DEF Seen, Leads, IsAlias
<1>13. SoundRows(e, H)
  <2>. SUFFICES ASSUME NEW x \in DOMAIN e.company
                PROVE  IF x \in DOMAIN company
                       THEN /\ \/ e.company[x].name = company[x].name
                               \/ e.company[x].name \in H /\ IsAlias(e, company[x].name, x)
                            /\ e.company[x].site \in H \cup {NoSite, company[x].site}
                       ELSE e.company[x].name \in H /\ e.company[x].site \in H \cup {NoSite}
    BY DEF SoundRows
  <2>1. CASE x # i
    <3>1. x \in DOMAIN d.company /\ e.company[x] = d.company[x]
      BY <1>4, <2>1
    <3>2. x \in DOMAIN company /\ IsAlias(d, company[x].name, x) => IsAlias(e, company[x].name, x)
      <4>1. \A n : IsAlias(d, n, x) => n # name
        BY <2>1 DEF IsAlias, Seen, Leads
      <4>. QED  BY <1>8, <4>1
    <3>. QED  BY <3>1, <3>2 DEF SoundDraft, SoundRows
  <2>2. CASE x = i /\ i \in DOMAIN company
    <3>1. company[i].name = old \/ IsAlias(d, company[i].name, i)
      BY <1>7, <2>2 DEF SoundDraft, SoundRows
    <3>. QED  BY <1>4, <1>8, <2>2, <3>1
  <2>3. CASE x = i /\ i \notin DOMAIN company
    BY <1>4, <2>3
  <2>. QED  BY <2>1, <2>2, <2>3
<1>14. SoundAliases(e, H)
  <2>. SUFFICES ASSUME NEW n \in DOMAIN e.alias
                PROVE  /\ \/ n \in H
                          \/ \E x \in DOMAIN e.company \cap DOMAIN company :
                               company[x].name = n /\ e.alias[n] = x
                       /\ e.alias[n] \in DOMAIN RowsIn(e)
                       /\ n \in DOMAIN alias => n \in e.dropped
    BY DEF SoundAliases
  <2>1. CASE n \in DOMAIN AliasesIn(d) \/ n # old
    <3>1. n \in DOMAIN d.alias /\ e.alias[n] = d.alias[n]
      BY <1>5, <2>1
    <3>. QED  BY <1>4, <1>6, <3>1 DEF SoundDraft, SoundAliases
  <2>2. CASE n \notin DOMAIN AliasesIn(d) /\ n = old
    <3>1. e.alias[n] = i /\ (n \in DOMAIN alias => n \in e.dropped)
      BY <1>4, <1>5, <1>7, <2>2
    <3>2. old \in H \/ (i \in DOMAIN company /\ company[i].name = old)
      BY <1>7 DEF SoundDraft, SoundRows
    <3>. QED  BY <1>4, <1>6, <2>2, <3>1, <3>2
  <2>. QED  BY <2>1, <2>2
<1>15. SoundDrops(e, H)
  <2>. SUFFICES ASSUME NEW n \in e.dropped
                PROVE  /\ n \in H
                       /\ n \in DOMAIN e.alias \/ \E j \in DOMAIN e.company : e.company[j].name = n
                       /\ n \in DOMAIN alias => alias[n] \in DOMAIN e.company
    BY DEF SoundDrops
  <2>1. CASE n = name
    <3>1. n \in DOMAIN alias => n \in d.dropped \/ n \in DOMAIN AliasesIn(d)
      BY <1>7
    <3>2. n \in DOMAIN alias /\ n \notin d.dropped => alias[n] = i
      <4>1. n \in DOMAIN alias /\ n \notin d.dropped => n \notin DOMAIN d.alias
        BY DEF SoundDraft, SoundAliases
      <4>2. n \in DOMAIN alias /\ n \notin d.dropped => IsAlias(d, n, alias[n])
        BY <4>1, AliasByDraft
      <4>. QED  BY <2>1, <4>2 DEF Seen, Leads, IsAlias
    <3>3. n \in d.dropped /\ n \in DOMAIN alias => alias[n] \in DOMAIN d.company
      BY DEF SoundDraft, SoundDrops
    <3>. QED  BY <1>4, <2>1, <3>2, <3>3
  <2>2. CASE n # name
    <3>1. /\ n \in H /\ (n \in DOMAIN alias => alias[n] \in DOMAIN d.company)
          /\ n \in DOMAIN d.alias \/ \E j \in DOMAIN d.company : d.company[j].name = n
      BY <1>4, <2>2 DEF SoundDraft, SoundDrops
    <3>2. CASE n \in DOMAIN d.alias
      BY <1>4, <1>5, <2>2, <3>1, <3>2
    <3>3. ASSUME NEW j \in DOMAIN d.company, d.company[j].name = n, n \notin DOMAIN d.alias
          PROVE  n \in DOMAIN e.alias \/ \E x \in DOMAIN e.company : e.company[x].name = n
      <4>1. CASE j # i
        BY <1>4, <3>3, <4>1
      <4>2. CASE j = i
        <5>1. n = old /\ n \in d.dropped
          BY <1>4, <1>7, <2>2, <3>3, <4>2
        <5>2. n \notin DOMAIN AliasesIn(d)
          BY <1>7, <3>3, <5>1
        <5>. QED  BY <1>5, <2>2, <5>1, <5>2
      <4>. QED  BY <4>1, <4>2
    <3>. QED  BY <1>4, <3>1, <3>2, <3>3
  <2>. QED  BY <2>1, <2>2
<1>16. SoundView(e, H)
  <2>1. OneRowPerName(RowsIn(e))
    <3>1. \A x \in DOMAIN RowsIn(d) : RowsIn(d)[x].name = name => x = i
      BY DEF Seen, Leads
    <3>. QED  BY <1>6, <3>1 DEF SoundDraft, SoundView, OneRowPerName
  <2>2. \A s, x : SeenAt(e, s, x) => SeenAt(d, s, x) \/ (s = site /\ x = i)
    BY <1>6 DEF SeenAt
  <2>3. \A n \in H : n \notin imported => \A x, y : Seen(e, n, x) /\ Seen(e, n, y) => x = y
    BY <1>11, <1>12 DEF SoundDraft, SoundView
  <2>4. \A n \in H : n \notin imported => \A x, y : SeenAt(e, n, x) /\ SeenAt(e, n, y) => x = y
    BY <2>2 DEF SoundDraft, SoundView
  <2>5. \A n \in H : \A x : Led(n, x) => Seen(e, n, x)
    BY <1>9 DEF SoundDraft, SoundView
  <2>. QED  BY <2>1, <2>3, <2>4, <2>5 DEF SoundView
<1>17. Seen(e, name, i)
  BY <1>6 DEF Seen, Leads
<1>. QED  BY <1>4, <1>9, <1>10, <1>13, <1>14, <1>15, <1>16, <1>17 DEF SoundDraft, e, r

-----------------------------------------------------------------------------
(* Commits.                                                                *)

\* The view adds nothing to the names that are not locked, and no name is seen
\* to lose an owner.
LEMMA ViewIsRight ==
  ASSUME NEW d, NEW H, SoundDraft(d, H)
  PROVE  /\ \A n, i : n \notin H /\ Seen(d, n, i) => Led(n, i)
         /\ \A n, i : Led(n, i) => Seen(d, n, i)
<1>1. ASSUME NEW n, NEW i, n \notin H, Seen(d, n, i)
      PROVE  Led(n, i)
  <2>1. CASE i \in DOMAIN d.company /\ d.company[i].name = n
    BY <1>1, <2>1 DEF SoundDraft, SoundRows, Led, Leads
  <2>2. CASE i \in DOMAIN company /\ company[i].name = n
    BY <2>2 DEF Led, Leads
  <2>3. CASE n \in DOMAIN d.alias /\ d.alias[n] = i
    BY <1>1, <2>3 DEF SoundDraft, SoundAliases, Led, Leads
  <2>4. CASE n \in DOMAIN alias /\ alias[n] = i
    BY <2>4 DEF Led, Leads
  <2>. QED  BY <1>1, <2>1, <2>2, <2>3, <2>4, SeenByDraft, AliasByDraft
<1>2. ASSUME NEW n, NEW i, Led(n, i)
      PROVE  Seen(d, n, i)
  <2>1. CASE n \in H
    BY <1>2, <2>1 DEF SoundDraft, SoundView
  <2>2. CASE n \notin H /\ i \in DOMAIN company /\ company[i].name = n
    BY <2>2, SeenByDraft DEF SoundDraft, SoundRows
  <2>3. CASE n \notin H /\ n \in DOMAIN alias /\ alias[n] = i
    <3>1. n \notin d.dropped /\ n \notin DOMAIN d.alias
      BY <2>3 DEF SoundDraft, SoundAliases, SoundDrops
    <3>. QED  BY <2>3, <3>1, SeenByDraft, AliasByDraft
  <2>. QED  BY <1>2, <2>1, <2>2, <2>3 DEF Led, Leads
<1>. QED  BY <1>1, <1>2

\* d becomes the tables.
Commits(d) == company' = RowsIn(d) /\ alias' = AliasesIn(d) /\ imported' = imported

\* What is seen in the next state.
LEMMA SeenNext ==
  ASSUME NEW d, NEW n, NEW i
  PROVE  /\ Seen(d, n, i)' <=>
              \/ i \in DOMAIN d.company /\ d.company[i].name = n
              \/ i \in DOMAIN company' \ DOMAIN d.company /\ company'[i].name = n
              \/ IsAlias(d, n, i)'
         /\ IsAlias(d, n, i)' <=>
              \/ n \in DOMAIN d.alias /\ d.alias[n] = i
              \/ n \in (DOMAIN alias' \ d.dropped) \ DOMAIN d.alias /\ alias'[n] = i
         /\ Led(n, i)' <=> \/ i \in DOMAIN company' /\ company'[i].name = n
                           \/ n \in DOMAIN alias' /\ alias'[n] = i
         /\ SeenAt(d, n, i)' <=>
              \/ i \in DOMAIN d.company /\ d.company[i].site = n
              \/ i \in DOMAIN company' \ DOMAIN d.company /\ company'[i].site = n
  BY DEF Seen, SeenAt, Leads, Led, IsAlias, RowsIn, AliasesIn, Over, Without

\* The tables after a commit.
LEMMA CommittedTables ==
  ASSUME NEW d, Commits(d)
  PROVE  /\ DOMAIN company' = DOMAIN d.company \cup DOMAIN company
         /\ \A i \in DOMAIN d.company : company'[i] = d.company[i]
         /\ \A i \in DOMAIN company \ DOMAIN d.company : company'[i] = company[i]
         /\ DOMAIN alias' = DOMAIN d.alias \cup (DOMAIN alias \ d.dropped)
         /\ \A n \in DOMAIN d.alias : alias'[n] = d.alias[n]
         /\ \A n \in (DOMAIN alias \ d.dropped) \ DOMAIN d.alias : alias'[n] = alias[n]
         /\ \A n, i : Led(n, i)' <=> Seen(d, n, i)
         /\ imported' = imported
<1>1. \A n, i : Led(n, i)' <=> Seen(d, n, i)
  BY DEF Commits, Led, Seen, Leads
<1>. QED  BY <1>1, Views DEF Commits

LEMMA CommitKeepsTables ==
  ASSUME SoundTables, NEW d, NEW H, SoundDraft(d, H), DOMAIN d.company \subseteq Companies, Commits(d)
  PROVE  SoundTables'
<1>1. /\ DOMAIN company' = DOMAIN d.company \cup DOMAIN company
      /\ \A i \in DOMAIN d.company : company'[i] = d.company[i]
      /\ \A i \in DOMAIN company \ DOMAIN d.company : company'[i] = company[i]
      /\ DOMAIN alias' = DOMAIN d.alias \cup (DOMAIN alias \ d.dropped)
      /\ \A n \in DOMAIN d.alias : alias'[n] = d.alias[n]
      /\ \A n \in (DOMAIN alias \ d.dropped) \ DOMAIN d.alias : alias'[n] = alias[n]
      /\ \A n, i : Led(n, i)' <=> Seen(d, n, i)
      /\ imported' = imported
  BY CommittedTables
<1>2. \A n \in DOMAIN alias' : alias'[n] \in DOMAIN company'
  BY <1>1, Views DEF SoundTables, SoundDraft, SoundAliases
<1>3. OneRowPerName(company)'
  <2>1. OneRowPerName(RowsIn(d))
    BY DEF SoundDraft, SoundView
  <2>. QED  BY <2>1 DEF Commits, OneRowPerName
<1>4. ASSUME NEW n, n \notin imported, NEW i, NEW j, Led(n, i)', Led(n, j)'
      PROVE  i = j
  <2>1. Seen(d, n, i) /\ Seen(d, n, j)
    BY <1>1, <1>4
  <2>2. CASE n \in H
    BY <1>4, <2>1, <2>2 DEF SoundDraft, SoundView
  <2>3. CASE n \notin H
    BY <1>4, <2>1, <2>3, ViewIsRight DEF SoundTables
  <2>. QED  BY <2>2, <2>3
<1>5. ASSUME NEW s, s # NoSite, s \notin imported, NEW i \in DOMAIN company', NEW j \in DOMAIN company',
             company'[i].site = s, company'[j].site = s
      PROVE  i = j
  <2>1. SeenAt(d, s, i) /\ SeenAt(d, s, j)
    BY <1>5 DEF SeenAt, Commits
  <2>2. CASE s \in H
    BY <1>5, <2>1, <2>2 DEF SoundDraft, SoundView
  <2>3. CASE s \notin H
    <3>1. \A x \in DOMAIN company' : company'[x].site = s => x \in DOMAIN company /\ company[x].site = s
      BY <1>1, <1>5, <2>3 DEF SoundDraft, SoundRows
    <3>. QED  BY <1>5, <3>1 DEF SoundTables
  <2>. QED  BY <2>2, <2>3
<1>. QED  BY <1>1, <1>2, <1>3, <1>4, <1>5 DEF SoundTables

\* A commit of e leaves a draft d of another transaction sound: they have no key,
\* no row and no alias in common.
LEMMA CommitKeepsDrafts ==
  ASSUME SoundTables, NEW d, NEW H, SoundDraft(d, H), NEW e, NEW K, SoundDraft(e, K),
         H \cap K = {}, H \subseteq Nat,
         DOMAIN d.company \cap DOMAIN e.company = {}, DOMAIN d.alias \cap DOMAIN e.alias = {},
         Commits(e)
  PROVE  /\ SoundDraft(d, H)'
         /\ \A n \in H : \A i : Seen(d, n, i) => Seen(d, n, i)'
<1>1. /\ DOMAIN company' = DOMAIN e.company \cup DOMAIN company
      /\ \A i \in DOMAIN e.company : company'[i] = e.company[i]
      /\ \A i \in DOMAIN company \ DOMAIN e.company : company'[i] = company[i]
      /\ DOMAIN alias' = DOMAIN e.alias \cup (DOMAIN alias \ e.dropped)
      /\ \A n \in DOMAIN e.alias : alias'[n] = e.alias[n]
      /\ \A n \in (DOMAIN alias \ e.dropped) \ DOMAIN e.alias : alias'[n] = alias[n]
      /\ \A n, i : Led(n, i)' <=> Seen(e, n, i)
      /\ imported' = imported
  BY CommittedTables
<1>2. \A i \in DOMAIN d.company : /\ i \in DOMAIN company' <=> i \in DOMAIN company
                                  /\ i \in DOMAIN company => company'[i] = company[i]
  BY <1>1
\* The name of a row is one that the other transaction sees as well.
<1>3. \A i \in DOMAIN e.company : e.company[i].name \notin K =>
        i \in DOMAIN company \ DOMAIN d.company /\ company[i].name = e.company[i].name
  BY DEF SoundDraft, SoundRows
<1>4. \A i \in DOMAIN d.company : d.company[i].name \notin H =>
        i \in DOMAIN company \ DOMAIN e.company /\ company[i].name = d.company[i].name
  BY DEF SoundDraft, SoundRows
<1>5. /\ \A x, y \in DOMAIN RowsIn(d) : RowsIn(d)[x].name = RowsIn(d)[y].name => x = y
      /\ \A x, y \in DOMAIN RowsIn(e) : RowsIn(e)[x].name = RowsIn(e)[y].name => x = y
  BY DEF SoundDraft, SoundView, OneRowPerName
<1>6. /\ \A x \in DOMAIN d.company : x \in DOMAIN RowsIn(d) /\ RowsIn(d)[x] = d.company[x]
      /\ \A x \in DOMAIN company \ DOMAIN d.company : x \in DOMAIN RowsIn(d) /\ RowsIn(d)[x] = company[x]
  BY Views
<1>7. /\ \A x \in DOMAIN e.company : x \in DOMAIN RowsIn(e) /\ RowsIn(e)[x] = e.company[x]
      /\ \A x \in DOMAIN company \ DOMAIN e.company : x \in DOMAIN RowsIn(e) /\ RowsIn(e)[x] = company[x]
  BY Views
<1>8. OneRowPerName(RowsIn(d))'
  <2>1. /\ DOMAIN RowsIn(d)' = DOMAIN d.company \cup DOMAIN company'
        /\ \A x \in DOMAIN RowsIn(d)' :
             RowsIn(d)'[x] = IF x \in DOMAIN d.company THEN d.company[x] ELSE company'[x]
    BY DEF RowsIn, Over
  <2>2. ASSUME NEW x \in DOMAIN d.company, NEW y \in DOMAIN company' \ DOMAIN d.company,
               d.company[x].name = company'[y].name
        PROVE  FALSE
    <3>1. CASE y \in DOMAIN e.company
      BY <1>1, <1>3, <1>4, <1>5, <1>6, <1>7, <2>2, <3>1
    <3>2. CASE y \notin DOMAIN e.company
      BY <1>1, <1>5, <1>6, <2>2, <3>2
    <3>. QED  BY <3>1, <3>2
  <2>3. ASSUME NEW x \in DOMAIN company' \ DOMAIN d.company, NEW y \in DOMAIN company' \ DOMAIN d.company,
               company'[x].name = company'[y].name
        PROVE  x = y
    BY <1>1, <1>5, <1>7, <2>3
  <2>4. \A x, y \in DOMAIN d.company : d.company[x].name = d.company[y].name => x = y
    BY <1>5, <1>6
  <2>. QED  BY <2>1, <2>2, <2>3, <2>4 DEF OneRowPerName
\* What hides an alias of the draft's rows belongs to the other one.
<1>9. ASSUME NEW i \in DOMAIN d.company, NEW m, IsAlias(d, m, i)
      PROVE  IsAlias(d, m, i)'
  <2>1. CASE m \in DOMAIN d.alias
    BY <1>9, <2>1, AliasByDraft, SeenNext
  <2>2. CASE m \notin DOMAIN d.alias
    <3>1. m \in DOMAIN alias \ d.dropped /\ alias[m] = i
      BY <1>9, <2>2, AliasByDraft
    <3>2. m \notin e.dropped
      BY <3>1 DEF SoundDraft, SoundDrops
    <3>3. m \notin DOMAIN e.alias
      BY <3>1, <3>2 DEF SoundDraft, SoundAliases
    <3>. QED  BY <1>1, <2>2, <3>1, <3>2, <3>3, SeenNext
  <2>. QED  BY <2>1, <2>2
<1>10. SoundRows(d, H)'
  <2>. SUFFICES ASSUME NEW i \in DOMAIN d.company
                PROVE  IF i \in DOMAIN company'
                       THEN /\ \/ d.company[i].name = company'[i].name
                               \/ d.company[i].name \in H /\ IsAlias(d, company[i].name, i)'
                            /\ d.company[i].site \in H \cup {NoSite, company'[i].site}
                       ELSE d.company[i].name \in H /\ d.company[i].site \in H \cup {NoSite}
    BY <1>2 DEF SoundRows, IsAlias
  <2>. QED  BY <1>2, <1>9 DEF SoundDraft, SoundRows
<1>11. \A n \in DOMAIN d.alias : n \in DOMAIN alias' => n \in d.dropped
  BY <1>1 DEF SoundDraft, SoundAliases
<1>12. SoundAliases(d, H)'
  <2>1. DOMAIN RowsIn(d)' = DOMAIN d.company \cup DOMAIN company'
    BY DEF RowsIn, Over
  <2>2. \A n \in DOMAIN d.alias : d.alias[n] \in DOMAIN d.company \cup DOMAIN company
    BY Views DEF SoundDraft, SoundAliases
  <2>3. \A n \in DOMAIN d.alias :
          n \in H \/ \E i \in DOMAIN d.company \cap DOMAIN company' : company'[i].name = n /\ d.alias[n] = i
    BY <1>2 DEF SoundDraft, SoundAliases
  <2>. QED  BY <1>1, <1>11, <2>1, <2>2, <2>3 DEF SoundAliases
<1>13. SoundDrops(d, H)'
  <2>. SUFFICES ASSUME NEW n \in d.dropped, n \in DOMAIN alias'
                PROVE  alias'[n] \in DOMAIN d.company
    BY DEF SoundDraft, SoundDrops
  <2>1. n \in H /\ n \notin K
    BY DEF SoundDraft, SoundDrops
  <2>2. CASE n \in DOMAIN e.alias
    <3>1. PICK i \in DOMAIN e.company \cap DOMAIN company : company[i].name = n
      BY <2>1, <2>2 DEF SoundDraft, SoundAliases
    <3>2. PICK j \in DOMAIN d.company : d.company[j].name = n
      BY <2>2 DEF SoundDraft, SoundDrops
    <3>. QED  BY <1>5, <1>6, <3>1, <3>2
  <2>3. CASE n \notin DOMAIN e.alias
    BY <1>1, <2>3 DEF SoundDraft, SoundDrops
  <2>. QED  BY <2>2, <2>3
<1>14. ASSUME NEW n \in H, NEW i, Led(n, i)'
       PROVE  Seen(d, n, i)'
  <2>1. n \notin K
    OBVIOUS
  <2>2. Led(n, i)
    BY <1>1, <1>14, <2>1, ViewIsRight
  <2>3. Seen(d, n, i)
    BY <2>2, ViewIsRight
  <2>4. CASE i \in DOMAIN company' /\ company'[i].name = n
    <3>1. CASE i \notin DOMAIN d.company
      BY <2>4, <3>1, SeenNext
    <3>2. CASE i \in DOMAIN d.company
      <4>1. d.company[i].name = n \/ IsAlias(d, n, i)
        BY <1>2, <2>4, <3>2 DEF SoundDraft, SoundRows
      <4>. QED  BY <1>9, <3>2, <4>1, SeenNext
    <3>. QED  BY <3>1, <3>2
  <2>5. CASE n \in DOMAIN alias' /\ alias'[n] = i
    <3>1. CASE n \notin DOMAIN d.alias /\ n \notin d.dropped
      BY <2>5, <3>1, SeenNext
    <3>2. CASE n \in d.dropped
      <4>1. i \in DOMAIN d.company
        BY <1>13, <2>5, <3>2 DEF SoundDrops
      <4>2. d.company[i].name = n \/ IsAlias(d, n, i)
        BY <2>3, <4>1, SeenByDraft
      <4>. QED  BY <1>9, <4>1, <4>2, SeenNext
    <3>3. CASE n \in DOMAIN d.alias /\ n \notin d.dropped
      BY <1>11, <2>5, <3>3
    <3>. QED  BY <3>1, <3>2, <3>3
  <2>. QED  BY <1>14, <2>4, <2>5, SeenNext
<1>15. ASSUME NEW n \in H, NEW i, Seen(d, n, i)
       PROVE  Seen(d, n, i)'
  <2>1. CASE i \in DOMAIN d.company /\ d.company[i].name = n
    BY <2>1, SeenNext
  <2>2. CASE n \in DOMAIN d.alias /\ d.alias[n] = i
    BY <2>2, SeenNext
  <2>3. CASE Led(n, i)
    BY <1>1, <1>14, <2>3, ViewIsRight
  <2>. QED  BY <1>15, <2>1, <2>2, <2>3, SeenByDraft, AliasByDraft DEF Led, Leads
<1>16. ASSUME NEW n \in H, NEW i, Seen(d, n, i)'
       PROVE  Seen(d, n, i)
  <2>1. CASE i \in DOMAIN company' \ DOMAIN d.company /\ company'[i].name = n
    <3>1. i \in DOMAIN company /\ company[i].name = n
      BY <1>1, <1>3, <2>1
    <3>. QED  BY <2>1, <3>1, SeenByDraft
  <2>2. CASE n \in (DOMAIN alias' \ d.dropped) \ DOMAIN d.alias /\ alias'[n] = i
    <3>1. CASE n \in DOMAIN e.alias
      <4>1. i \in DOMAIN e.company \cap DOMAIN company /\ company[i].name = n
        BY <1>1, <2>2, <3>1 DEF SoundDraft, SoundAliases
      <4>. QED  BY <4>1, SeenByDraft
    <3>2. CASE n \notin DOMAIN e.alias
      BY <1>1, <2>2, <3>2, SeenByDraft, AliasByDraft
    <3>. QED  BY <3>1, <3>2
  <2>. QED  BY <1>16, <2>1, <2>2, SeenNext, SeenByDraft, AliasByDraft
<1>17. ASSUME NEW s \in H, NEW i, SeenAt(d, s, i)'
       PROVE  SeenAt(d, s, i)
  <2>1. s # NoSite
    BY IdentitiesAssumption
  <2>2. CASE i \in DOMAIN d.company /\ d.company[i].site = s
    BY <1>6, <2>2 DEF SeenAt
  <2>3. CASE i \in DOMAIN company' \ DOMAIN d.company /\ company'[i].site = s
    <3>1. i \in DOMAIN company /\ company[i].site = s
      BY <1>1, <2>1, <2>3 DEF SoundDraft, SoundRows
    <3>. QED  BY <1>6, <2>3, <3>1 DEF SeenAt
  <2>. QED  BY <1>17, <2>2, <2>3, SeenNext
<1>18. SoundView(d, H)'
  <2>1. \A n \in H : n \notin imported => \A i, j : Seen(d, n, i)' /\ Seen(d, n, j)' => i = j
    BY <1>16 DEF SoundDraft, SoundView
  <2>2. \A n \in H : n \notin imported => \A i, j : SeenAt(d, n, i)' /\ SeenAt(d, n, j)' => i = j
    BY <1>17 DEF SoundDraft, SoundView
  <2>. QED  BY <1>1, <1>8, <1>14, <2>1, <2>2 DEF SoundView
<1>. QED  BY <1>10, <1>12, <1>13, <1>15, <1>18 DEF SoundDraft

-----------------------------------------------------------------------------
(* Imports.                                                                *)

\* An import writes the row of company i: a new one with a new name, or another
\* website for an old one.
RowImported(i, n, site) ==
  /\ DOMAIN company' = DOMAIN company \cup {i}
  /\ \A x \in DOMAIN company : x # i => company'[x] = company[x]
  /\ company'[i].name = n /\ company'[i].site = site
  /\ i \in DOMAIN company => company[i].name = n
  /\ i \notin DOMAIN company => i \in Companies /\ \A x \in DOMAIN company : company[x].name # n
  /\ alias' = alias
  /\ imported \cup ({n, site} \ {NoSite}) \subseteq imported'

LEMMA ImportKeepsTables ==
  ASSUME SoundTables, NEW i, NEW n \in Nat, NEW site, RowImported(i, n, site)
  PROVE  /\ SoundTables'
         /\ \A m, x : Led(m, x) => Led(m, x)'
<1>1. \A m, x : Led(m, x)' <=> Led(m, x) \/ (m = n /\ x = i)
  BY DEF Led, Leads, RowImported
<1>2. n \in imported' /\ (site # NoSite => site \in imported') /\ imported \subseteq imported'
  BY IdentitiesAssumption DEF RowImported
<1>3. DOMAIN company' \subseteq Companies /\ \A m \in DOMAIN alias' : alias'[m] \in DOMAIN company'
  BY DEF SoundTables, RowImported
<1>4. OneRowPerName(company)'
  BY DEF SoundTables, OneRowPerName, RowImported
<1>5. \A m : m \notin imported' => \A x, y : Led(m, x)' /\ Led(m, y)' => x = y
  BY <1>1, <1>2 DEF SoundTables
<1>6. \A s : s # NoSite /\ s \notin imported' =>
         \A x, y \in DOMAIN company' : company'[x].site = s /\ company'[y].site = s => x = y
  BY <1>2 DEF SoundTables, RowImported
<1>. QED  BY <1>1, <1>3, <1>4, <1>5, <1>6 DEF SoundTables

LEMMA ImportKeepsDrafts ==
  ASSUME SoundTables, NEW i, NEW n \in Nat, NEW site, RowImported(i, n, site),
         NEW d, NEW H, H \subseteq Nat, SoundDraft(d, H), i \notin DOMAIN d.company,
         i \notin DOMAIN company => \A x \in DOMAIN d.company : d.company[x].name # n
  PROVE  /\ SoundDraft(d, H)'
         /\ \A m, x : Seen(d, m, x) => Seen(d, m, x)'
<1>1. \A x \in DOMAIN d.company : /\ x \in DOMAIN company' <=> x \in DOMAIN company
                                  /\ x \in DOMAIN company => company'[x] = company[x]
  BY DEF RowImported
<1>2. \A m, x : Seen(d, m, x)' <=> Seen(d, m, x) \/ (m = n /\ x = i)
  BY SeenNext, SeenByDraft, AliasByDraft DEF RowImported
<1>3. \A m, x : IsAlias(d, m, x)' <=> IsAlias(d, m, x)
  BY SeenNext, AliasByDraft DEF RowImported
<1>4. n \in imported' /\ (site # NoSite => site \in imported') /\ imported \subseteq imported'
  BY IdentitiesAssumption DEF RowImported
<1>5. /\ DOMAIN RowsIn(d)' = DOMAIN d.company \cup DOMAIN company'
      /\ \A x \in DOMAIN RowsIn(d)' : RowsIn(d)'[x] = IF x \in DOMAIN d.company THEN d.company[x] ELSE company'[x]
      /\ DOMAIN RowsIn(d) = DOMAIN d.company \cup DOMAIN company
      /\ \A x \in DOMAIN RowsIn(d) : RowsIn(d)[x] = IF x \in DOMAIN d.company THEN d.company[x] ELSE company[x]
  BY DEF RowsIn, Over
<1>6. SoundRows(d, H)'
  <2>. SUFFICES ASSUME NEW x \in DOMAIN d.company
                PROVE  IF x \in DOMAIN company'
                       THEN /\ \/ d.company[x].name = company'[x].name
                               \/ d.company[x].name \in H /\ IsAlias(d, company[x].name, x)'
                            /\ d.company[x].site \in H \cup {NoSite, company'[x].site}
                       ELSE d.company[x].name \in H /\ d.company[x].site \in H \cup {NoSite}
    BY <1>1 DEF SoundRows, IsAlias
  <2>. QED  BY <1>1, <1>3 DEF SoundDraft, SoundRows
<1>7. SoundAliases(d, H)'
  <2>1. \A m \in DOMAIN d.alias :
          m \in H \/ \E x \in DOMAIN d.company \cap DOMAIN company' : company'[x].name = m /\ d.alias[m] = x
    BY <1>1 DEF SoundDraft, SoundAliases
  <2>2. \A m \in DOMAIN d.alias : d.alias[m] \in DOMAIN RowsIn(d)'
    BY <1>5 DEF SoundDraft, SoundAliases, RowImported
  <2>. QED  BY <2>1, <2>2 DEF SoundDraft, SoundAliases, RowImported
<1>8. SoundDrops(d, H)'
  BY DEF SoundDraft, SoundDrops, RowImported
<1>9. OneRowPerName(RowsIn(d))'
  <2>1. \A x \in DOMAIN RowsIn(d) : i \notin DOMAIN company => RowsIn(d)[x].name # n
    BY <1>5 DEF RowImported
  <2>2. /\ DOMAIN RowsIn(d)' = DOMAIN RowsIn(d) \cup {i}
        /\ \A x \in DOMAIN RowsIn(d) : RowsIn(d)'[x].name = RowsIn(d)[x].name
        /\ RowsIn(d)'[i].name = n
        /\ i \in DOMAIN RowsIn(d) <=> i \in DOMAIN company
    BY <1>5 DEF RowImported
  <2>. QED  BY <2>1, <2>2 DEF SoundDraft, SoundView, OneRowPerName
<1>10. SoundView(d, H)'
  <2>1. \A m, x : Led(m, x)' => Led(m, x) \/ (m = n /\ x = i)
    BY DEF Led, Leads, RowImported
  <2>2. \A m \in H : \A x : Led(m, x)' => Seen(d, m, x)'
    BY <1>2, <2>1 DEF SoundDraft, SoundView
  <2>3. \A m \in H : m \notin imported' => \A x, y : Seen(d, m, x)' /\ Seen(d, m, y)' => x = y
    BY <1>2, <1>4 DEF SoundDraft, SoundView
  <2>4. \A m \in H : m \notin imported' => \A x, y : SeenAt(d, m, x)' /\ SeenAt(d, m, y)' => x = y
    <3>1. \A m \in H : m \notin imported' => \A x : SeenAt(d, m, x)' => SeenAt(d, m, x)
      <4>1. \A m \in H : m # NoSite
        BY IdentitiesAssumption
      <4>. QED  BY <1>4, <1>5, <4>1, SeenNext DEF SeenAt, RowImported
    <3>. QED  BY <1>4, <3>1 DEF SoundDraft, SoundView
  <2>. QED  BY <1>9, <2>2, <2>3, <2>4 DEF SoundView
<1>. QED  BY <1>2, <1>6, <1>7, <1>8, <1>10 DEF SoundDraft

-----------------------------------------------------------------------------
(* Steps of one session.                                                   *)

\* In the next state the session b has the transaction t.
LEMMA AtTxn ==
  ASSUME NEW b, NEW t, t = txn'[b], SoundTxn(b, t)'
  PROVE  SoundTxn(b, txn[b])'
<1>1. SoundRows(txn[b].draft, txn[b].held)'
  BY DEF SoundTxn, SoundDraft, SoundRows, IsAlias, AliasesIn, Over, Without
<1>2. SoundAliases(txn[b].draft, txn[b].held)'
  BY DEF SoundTxn, SoundDraft, SoundAliases, RowsIn, Over
<1>3. SoundDrops(txn[b].draft, txn[b].held)'
  BY DEF SoundTxn, SoundDraft, SoundDrops
<1>4. SoundView(txn[b].draft, txn[b].held)'
  <2>1. /\ RowsIn(txn[b].draft)' = RowsIn(t.draft)'
        /\ AliasesIn(txn[b].draft)' = AliasesIn(t.draft)'
    BY DEF RowsIn, AliasesIn, Over, Without
  <2>2. OneRowPerName(RowsIn(txn[b].draft))'
    BY <2>1 DEF SoundTxn, SoundDraft, SoundView, OneRowPerName
  <2>. QED  BY <2>1, <2>2 DEF SoundTxn, SoundDraft, SoundView, Seen, SeenAt, Leads
<1>5. SoundLocks(b, txn[b])'
  BY DEF SoundTxn, SoundLocks
<1>6. SoundWork(b, txn[b])'
  BY DEF SoundTxn, SoundWork
<1>7. SoundWrites(b, txn[b])'
  BY DEF SoundTxn, SoundWrites
<1>8. SoundRecords(b, txn[b])'
  BY ZenonT(60) DEF SoundTxn, SoundRecords, Seen, Leads, RowsIn, AliasesIn, Over, Without
<1>. QED  BY <1>1, <1>2, <1>3, <1>4, <1>5, <1>6, <1>7, <1>8 DEF SoundTxn, SoundDraft

\* A step of session a that leaves the others sound.
LEMMA StepComposes ==
  ASSUME CInv, NEW a \in Actors, NEW new, IsTxn(new), txn' = [txn EXCEPT ![a] = new],
         SoundTables', SoundFile',
         item' = [c \in Found |-> item'[c]], fact' = [f \in Facts |-> fact'[f]],
         SoundTxn(a, new)',
         \A b \in Actors \ {a} : \A t : t = txn[b] => SoundTxn(b, t)',
         \A b \in Actors \ {a} : Apart(a, new, b, txn[b])
  PROVE  CInv'
<1>1. /\ txn' = [b \in Actors |-> txn'[b]] /\ txn'[a] = new
      /\ \A b \in Actors \ {a} : txn'[b] = txn[b]
  BY DEF CInv, Shape
<1>2. Shape'
  BY <1>1 DEF CInv, Shape, IsTxn, IsDraft
<1>3. ASSUME NEW b \in Actors PROVE SoundTxn(b, txn[b])'
  <2>1. PICK t : t = txn'[b]
    OBVIOUS
  <2>2. SoundTxn(b, t)'
    BY <1>1, <2>1
  <2>. QED  BY <2>1, <2>2, AtTxn
<1>4. ASSUME NEW b \in Actors, NEW c \in Actors, b # c
      PROVE  Apart(b, txn'[b], c, txn'[c])
  BY <1>1, <1>4 DEF CInv, NamesInv, Apart, Excludes
<1>5. \A b, c \in Actors : b # c => Apart(b, txn[b], c, txn[c])'
  BY <1>4 DEF Apart, Excludes
<1>. QED  BY <1>2, <1>3, <1>5 DEF CInv, NamesInv

\* Nothing changes but items that become open for review.
Stays ==
  /\ company' = company /\ alias' = alias /\ fact' = fact /\ imported' = imported
  /\ item' = [c \in Found |-> item'[c]]
  /\ \A c \in Found : item'[c] = item[c] \/ (item[c].status = "absent" /\ item'[c].status = "review")

LEMMA StaysSound ==
  ASSUME Stays, NEW b, NEW t, SoundTxn(b, t)
  PROVE  SoundTxn(b, t)'
<1>1. /\ RowsIn(t.draft)' = RowsIn(t.draft) /\ AliasesIn(t.draft)' = AliasesIn(t.draft)
      /\ \A n, i : Led(n, i)' <=> Led(n, i)
  BY DEF Stays, RowsIn, AliasesIn, Led, Leads
<1>2. /\ \A n, i : Seen(t.draft, n, i)' <=> Seen(t.draft, n, i)
      /\ \A n, i : SeenAt(t.draft, n, i)' <=> SeenAt(t.draft, n, i)
      /\ \A n, i : IsAlias(t.draft, n, i)' <=> IsAlias(t.draft, n, i)
  BY <1>1 DEF Seen, SeenAt, Leads, IsAlias
<1>3. SoundRows(t.draft, t.held)'
  BY <1>2 DEF Stays, SoundTxn, SoundDraft, SoundRows, IsAlias
<1>4. SoundAliases(t.draft, t.held)'
  BY <1>1 DEF Stays, SoundTxn, SoundDraft, SoundAliases
<1>5. SoundDrops(t.draft, t.held)'
  BY DEF Stays, SoundTxn, SoundDraft, SoundDrops
<1>6. SoundView(t.draft, t.held)'
  <2>1. OneRowPerName(RowsIn(t.draft))'
    BY <1>1 DEF SoundTxn, SoundDraft, SoundView, OneRowPerName
  <2>. QED  BY <1>1, <1>2, <2>1 DEF Stays, SoundTxn, SoundDraft, SoundView
<1>7. SoundLocks(b, t)'
  BY DEF Stays, SoundTxn, SoundLocks
<1>8. SoundWork(b, t)'
  BY SessionsAssumption DEF Stays, SoundTxn, SoundWork
<1>9. SoundWrites(b, t)'
  BY DEF Stays, SoundTxn, SoundWrites
<1>10. SoundRecords(b, t)'
  BY <1>2 DEF Stays, SoundTxn, SoundRecords
<1>. QED  BY <1>3, <1>4, <1>5, <1>6, <1>7, <1>8, <1>9, <1>10 DEF SoundTxn, SoundDraft

\* A step that writes no table but, at most, opens items for review.
LEMMA LocalStep ==
  ASSUME CInv, NEW a \in Actors, NEW new, IsTxn(new), txn' = [txn EXCEPT ![a] = new], Stays,
         SoundTxn(a, new), \A b \in Actors \ {a} : Apart(a, new, b, txn[b])
  PROVE  CInv'
<1>1. SoundTables'
  BY DEF Stays, CInv, NamesInv, SoundTables, OneRowPerName, Led, Leads
<1>2. SoundFile'
  <2>1. \A n, i : Led(n, i)' <=> Led(n, i)
    BY DEF Stays, Led, Leads
  <2>. QED  BY <2>1 DEF Stays, CInv, NamesInv, SoundFile
<1>3. fact' = [f \in Facts |-> fact'[f]]
  BY DEF Stays, CInv, Shape
<1>4. \A b \in Actors \ {a} : \A t : t = txn[b] => SoundTxn(b, t)'
  BY StaysSound DEF CInv, NamesInv
<1>. QED  BY <1>1, <1>2, <1>3, <1>4, StaysSound, StepComposes DEF Stays

\* e goes on from the draft of session a, which now has the company rows S.
WritesOn(a, e, S) ==
  /\ IsDraft(e) /\ SoundDraft(e, txn[a].held)
  /\ \A n \in txn[a].held : \A i : Seen(txn[a].draft, n, i) => Seen(e, n, i)
  /\ \A i \in DOMAIN e.company \ DOMAIN txn[a].draft.company :
       IF i \in DOMAIN company THEN i \in S /\ a \notin Curators
       ELSE Free(i) \/ (i \in Identities /\ NameOf[i] \in txn[a].held)
  /\ \A c \in DOMAIN e.record :
       \/ c \in DOMAIN txn[a].draft.record /\ e.record[c] = txn[a].draft.record[c]
       \/ /\ a \notin Ingesters /\ NamesOf(c) \subseteq txn[a].held
          /\ IF a \in Reviewers THEN c \in Found \cap txn[a].locked /\ item[c].status = "review"
             ELSE c \in Facts /\ fact[c] = Undecided
          /\ e.record[c].status \in {"accepted", "rejected"}
          /\ e.record[c].status = "accepted" => \A n \in NamesOf(c) : Seen(e, n, e.record[c].company)

LEMMA DraftStep ==
  ASSUME CInv, NEW a \in Actors, NEW new, IsTxn(new), Goes(a, new),
         new.held = txn[a].held, new.locked = txn[a].locked,
         NEW R, new.rows = txn[a].rows \cup R, \A i \in R : RowFree(a, i),
         InsertsFree(a, new.draft), WritesOn(a, new.draft, new.rows),
         SoundLocks(a, new), SoundWork(a, new)
  PROVE  CInv'
<1>. DEFINE t == txn[a]
<1>1. SoundTxn(a, t) /\ \A b \in Actors \ {a} : SoundTxn(b, txn[b]) /\ Apart(a, t, b, txn[b])
  BY DEF CInv, NamesInv
<1>2. SoundWrites(a, new)
  BY <1>1 DEF WritesOn, SoundTxn, SoundWrites, Free
<1>3. SoundRecords(a, new)
  BY <1>1 DEF WritesOn, SoundTxn, SoundRecords
<1>4. SoundTxn(a, new)
  BY <1>2, <1>3 DEF WritesOn, SoundTxn
<1>5. ASSUME NEW b \in Actors \ {a} PROVE Apart(a, new, b, txn[b])
  <2>1. DOMAIN new.draft.company \cap DOMAIN txn[b].draft.company = {}
    <3>. SUFFICES ASSUME NEW i \in DOMAIN new.draft.company, i \in DOMAIN txn[b].draft.company
                  PROVE  FALSE
      OBVIOUS
    <3>1. i \notin DOMAIN t.draft.company
      BY <1>1 DEF Apart
    <3>2. IF i \in DOMAIN company THEN i \in new.rows /\ a \notin Curators
          ELSE Free(i) \/ (i \in Identities /\ NameOf[i] \in t.held)
      BY <3>1 DEF WritesOn
    <3>3. IF i \in DOMAIN company THEN i \in txn[b].rows /\ b \notin Curators
          ELSE i \in FreshIds \/ (i \in Identities /\ NameOf[i] \in txn[b].held)
      BY <1>1 DEF SoundTxn, SoundWrites
    <3>4. CASE i \in DOMAIN company
      <4>1. Excludes(a, b)
        BY <3>2, <3>3, <3>4 DEF Excludes, Actors
      <4>. QED  BY <1>1, <3>2, <3>3, <3>4, <4>1 DEF RowFree, Apart
    <3>5. CASE i \notin DOMAIN company
      BY <1>1, <3>2, <3>3, <3>5, IdentitiesAssumption DEF Free, Apart
    <3>. QED  BY <3>4, <3>5
  <2>2. DOMAIN new.draft.alias \cap DOMAIN txn[b].draft.alias = {}
    BY DEF InsertsFree
  <2>3. Excludes(a, b) => new.rows \cap txn[b].rows = {}
    BY <1>1 DEF RowFree, Apart
  <2>. QED  BY <1>1, <2>1, <2>2, <2>3 DEF Apart
<1>6. Stays /\ txn' = [txn EXCEPT ![a] = new]
  BY DEF Goes, Stays, CInv, Shape
<1>. QED  BY <1>4, <1>5, <1>6, LocalStep

\* A session that has its keys may do a piece of work.
MayWork(a, done, rows) ==
  /\ \/ Serialized(a) \/ txn[a].pc = "work"
     \/ txn[a].pc = "filing" /\ DOMAIN txn[a].todo \subseteq done
  /\ \A i \in rows : RowFree(a, i)
  /\ Serialized(a) => /\ a \in Reviewers => Targets(a) \subseteq rows
                      /\ \A c \in DOMAIN txn[a].todo \ done :
                           a \in Curators /\ txn[a].todo[c].action = "auto" => c \in UnderReview

LEMMA WorksIsSound ==
  ASSUME CInv, NEW a \in Actors, NEW done, NEW e, NEW rows, Works(a, done, e, rows),
         MayWork(a, done, rows), WritesOn(a, e, txn[a].rows \cup rows)
  PROVE  CInv'
<1>. PICK t : t = txn[a]
  OBVIOUS
<1>1. SoundTxn(a, t) /\ SoundFile /\ IsTxn(t)
  BY DEF CInv, NamesInv, Shape
<1>. PICK new : new = [t EXCEPT !.pc = "work", !.todo = Without(@, done), !.draft = e,
                                !.rows = @ \cup rows]
  OBVIOUS
<1>2. /\ IsTxn(new) /\ new.pc = "work" /\ new.todo = Without(t.todo, done) /\ new.locked = t.locked
      /\ new.keys = t.keys /\ new.held = t.held /\ new.rows = t.rows \cup rows /\ new.draft = e
  BY <1>1 DEF IsTxn, WritesOn
<1>3. /\ DOMAIN new.todo = DOMAIN t.todo \ done
      /\ \A c \in DOMAIN new.todo : new.todo[c] = t.todo[c]
  BY <1>2 DEF Without
<1>4. Goes(a, new) /\ InsertsFree(a, new.draft)
  BY <1>2 DEF Works
<1>5. SoundLocks(a, new)
  <2>1. \A c \in DOMAIN new.todo : IdentityKeys({c}) \subseteq new.held
    BY <1>1, <1>2, <1>3 DEF SoundTxn, SoundLocks, MayWork, Serialized
  <2>2. \A c \in DOMAIN new.todo :
          /\ t.pc \in {"keys", "work"}
          /\ a \in Reviewers => new.todo[c].target \in new.rows \cup {NoCompany}
    BY <1>1, <1>2, <1>3 DEF SoundTxn, SoundLocks, MayWork, Serialized, Targets
  <2>. QED  BY <1>1, <1>2, <1>3, <2>1, <2>2 DEF SoundTxn, SoundLocks
<1>6. SoundWork(a, new)
  BY <1>1, <1>2, <1>3, SessionsAssumption
     DEF SoundTxn, SoundWork, SoundFile, MayWork, Serialized, UnderReview
<1>7. WritesOn(a, new.draft, new.rows) /\ \A i \in rows : RowFree(a, i)
  BY <1>2 DEF MayWork
<1>. QED  BY <1>2, <1>4, <1>5, <1>6, <1>7, DraftStep

-----------------------------------------------------------------------------
(* What the actions check and write, in terms of what is seen.             *)

LEMMA OwnersSeen ==
  ASSUME NEW d, NEW c
  PROVE  /\ \A i : i \in NameOwners(d, c) <=> \E n \in NamesOf(c) : Seen(d, n, i)
         /\ \A i : SiteOf[c] # NoSite /\ SeenAt(d, SiteOf[c], i) => i \in SiteOwners(d, c)
  BY DEF NameOwners, Owning, SiteOwners, Seen, SeenAt, Leads

LEMMA SeenIsRow ==
  ASSUME SoundTables, NEW d, NEW H, SoundDraft(d, H), NEW n, NEW i, Seen(d, n, i)
  PROVE  i \in DOMAIN RowsIn(d)
<1>1. DOMAIN RowsIn(d) = DOMAIN d.company \cup DOMAIN company
  BY Views
<1>2. CASE n \in DOMAIN d.alias /\ d.alias[n] = i
  BY <1>2 DEF SoundDraft, SoundAliases
<1>3. CASE n \in DOMAIN alias /\ alias[n] = i
  BY <1>1, <1>3 DEF SoundTables
<1>. QED  BY <1>1, <1>2, <1>3, SeenByDraft, AliasByDraft

LEMMA KeysOf ==
  ASSUME NEW S \in SUBSET Identities
  PROVE  /\ IdentityKeys(S) \subseteq Nat
         /\ \A c \in S : IdentityKeys({c}) \subseteq IdentityKeys(S)
         /\ \A c \in S : /\ NamesOf(c) \subseteq IdentityKeys({c})
                         /\ SiteOf[c] \in IdentityKeys({c}) \cup {NoSite}
  BY IdentitiesAssumption DEF IdentityKeys, NameKeys, NamesOf, SiteKeys

\* Rows and aliases are all that the names depend on.
LEMMA SameNames ==
  ASSUME NEW d, NEW e, e.company = d.company, e.alias = d.alias, e.dropped = d.dropped, NEW H
  PROVE  /\ SoundDraft(e, H) <=> SoundDraft(d, H)
         /\ \A n, i : Seen(e, n, i) <=> Seen(d, n, i)
<1>1. RowsIn(e) = RowsIn(d) /\ AliasesIn(e) = AliasesIn(d)
  BY DEF RowsIn, AliasesIn
<1>2. /\ \A n, i : Seen(e, n, i) <=> Seen(d, n, i)
      /\ \A n, i : SeenAt(e, n, i) <=> SeenAt(d, n, i)
      /\ \A n, i : IsAlias(e, n, i) <=> IsAlias(d, n, i)
  BY <1>1 DEF Seen, SeenAt, IsAlias
<1>3. SoundRows(e, H) <=> SoundRows(d, H)
  BY <1>2 DEF SoundRows
<1>4. SoundAliases(e, H) <=> SoundAliases(d, H)
  BY <1>1 DEF SoundAliases
<1>5. SoundDrops(e, H) <=> SoundDrops(d, H)
  BY DEF SoundDrops
<1>6. SoundView(e, H) <=> SoundView(d, H)
  BY <1>1, <1>2 DEF SoundView
<1>. QED  BY <1>2, <1>3, <1>4, <1>5, <1>6 DEF SoundDraft

\* What session a holds for the work that it does.
LEMMA AtWork ==
  ASSUME CInv, NEW a \in Actors, Serialized(a) \/ txn[a].pc \in {"work", "filing"}
  PROVE  /\ IsDraft(txn[a].draft) /\ SoundDraft(txn[a].draft, txn[a].held) /\ SoundTables
         /\ txn[a].held \subseteq Nat /\ NoSite \notin txn[a].held
         /\ \A c \in DOMAIN txn[a].todo :
              /\ c \in Identities /\ NamesOf(c) \subseteq txn[a].held
              /\ NameOf[c] \in NamesOf(c) /\ NameOf[c] \in txn[a].held /\ AliasesOf[c] \subseteq txn[a].held
              /\ SiteOf[c] \in txn[a].held \cup {NoSite}
              /\ a \in Reviewers => c \in Found \cap txn[a].locked /\ item[c].status = "review"
              /\ a \in Curators => c \in Facts
<1>. PICK t : t = txn[a]
  OBVIOUS
<1>1. SoundTxn(a, t) /\ SoundTables /\ IsDraft(t.draft)
  BY DEF CInv, NamesInv, Shape, IsTxn
<1>2. \A c \in DOMAIN t.todo : IdentityKeys({c}) \subseteq t.held
  BY <1>1 DEF SoundTxn, SoundLocks, Serialized
<1>3. \A c \in DOMAIN t.todo : /\ c \in Identities
                               /\ a \in Reviewers => c \in Found \cap t.locked /\ item[c].status = "review"
                               /\ a \in Curators => c \in Facts
  BY <1>1, SessionsAssumption DEF SoundTxn, SoundWork, Identities
<1>4. \A c \in DOMAIN t.todo : NamesOf(c) \subseteq t.held /\ SiteOf[c] \in t.held \cup {NoSite}
  <2>. SUFFICES ASSUME NEW c \in DOMAIN t.todo
                PROVE  NamesOf(c) \subseteq t.held /\ SiteOf[c] \in t.held \cup {NoSite}
    OBVIOUS
  <2>1. {c} \in SUBSET Identities
    BY <1>3
  <2>. QED  BY <1>2, <2>1, KeysOf
<1>5. t.held \subseteq Nat /\ NoSite \notin t.held
  BY <1>1, IdentitiesAssumption DEF SoundTxn, SoundLocks
<1>. QED  BY <1>1, <1>3, <1>4, <1>5 DEF SoundTxn, NamesOf

\* A decision is recorded with the names that it has written.
LEMMA DecisionIsSound ==
  ASSUME CInv, NEW a \in Actors \ Ingesters, Serialized(a) \/ txn[a].pc = "work",
         NEW c \in DOMAIN txn[a].todo, a \in Curators => fact[c] = Undecided,
         NEW e, IsDraft(e), e.record = txn[a].draft.record, SoundDraft(e, txn[a].held),
         \A n \in txn[a].held : \A i : Seen(txn[a].draft, n, i) => Seen(e, n, i),
         NEW S,
         \A i \in DOMAIN e.company \ DOMAIN txn[a].draft.company :
           IF i \in DOMAIN company THEN i \in S /\ a \notin Curators
           ELSE Free(i) \/ (i \in Identities /\ NameOf[i] \in txn[a].held),
         NEW status \in {"accepted", "rejected"}, NEW i, NEW decision,
         status = "accepted" => \A n \in NamesOf(c) : Seen(e, n, i)
  PROVE  WritesOn(a, WithRecord(e, c, status, i, decision), S)
<1>. PICK w : w = WithRecord(e, c, status, i, decision)
  OBVIOUS
<1>1. /\ IsDraft(w) /\ w.company = e.company /\ w.alias = e.alias /\ w.dropped = e.dropped
      /\ w.record = With(e.record, c, [status |-> status, company |-> i, decision |-> decision])
  BY DEF WithRecord, IsDraft
<1>2. /\ SoundDraft(w, txn[a].held)
      /\ \A n, x : Seen(w, n, x) <=> Seen(e, n, x)
  BY <1>1, SameNames
<1>3. /\ DOMAIN w.record = DOMAIN e.record \cup {c}
      /\ w.record[c].status = status /\ w.record[c].company = i
      /\ \A x \in DOMAIN e.record : x # c => w.record[x] = e.record[x]
  BY <1>1 DEF With
<1>4. /\ NamesOf(c) \subseteq txn[a].held
      /\ IF a \in Reviewers THEN c \in Found \cap txn[a].locked /\ item[c].status = "review"
         ELSE c \in Facts /\ fact[c] = Undecided
  BY AtWork DEF Actors
<1>5. WritesOn(a, w, S)
  BY <1>1, <1>2, <1>3, <1>4 DEF WritesOn
<1>. QED  BY <1>5

LEMMA UnwrittenIsSound ==
  ASSUME CInv, NEW a \in Actors, NEW S
  PROVE  WritesOn(a, txn[a].draft, S)
<1>. PICK t : t = txn[a]
  OBVIOUS
<1>1. IsDraft(t.draft) /\ SoundDraft(t.draft, t.held)
  BY DEF CInv, NamesInv, Shape, IsTxn, SoundTxn
<1>. QED  BY <1>1 DEF WritesOn

-----------------------------------------------------------------------------
(* The reviewers.                                                          *)

LEMMA LockCompaniesKeeps ==
  ASSUME CInv, NEW r \in Reviewers, LockCompanies(r)
  PROVE  CInv'
<1>1. r \in Actors
  BY DEF Actors
<1>2. MayWork(r, {}, Targets(r))
  BY SessionsAssumption DEF LockCompanies, MayWork
<1>. QED  BY <1>1, <1>2, WorksIsSound, UnwrittenIsSound DEF LockCompanies

LEMMA RejectKeeps ==
  ASSUME CInv, NEW r \in Reviewers, NEW c \in Found, Reject(r, c)
  PROVE  CInv'
<1>. PICK d : d = txn[r].draft
  OBVIOUS
<1>1. r \in Actors \ Ingesters /\ r \notin Curators
  BY SessionsAssumption DEF Actors
<1>2. MayWork(r, {c}, {}) /\ c \in DOMAIN txn[r].todo /\ txn[r].pc = "work"
  BY DEF Reject, Decides, MayWork, Serialized
<1>3. IsDraft(d) /\ SoundDraft(d, txn[r].held)
  BY <1>1, <1>2, AtWork
<1>4. WritesOn(r, WithRecord(d, c, "rejected", NoCompany, txn[r].todo[c]), txn[r].rows \cup {})
  BY <1>1, <1>2, <1>3, DecisionIsSound
<1>. QED  BY <1>1, <1>2, <1>4, WorksIsSound DEF Reject

LEMMA CreateNewKeeps ==
  ASSUME CInv, NEW r \in Reviewers, NEW c \in Found, CreateNew(r, c)
  PROVE  CInv'
<1>. PICK d : d = txn[r].draft
  OBVIOUS
<1>. PICK H : H = txn[r].held
  OBVIOUS
<1>c. PICK created : created = WithCompany(d, c, NameOf[c], SiteOf[c])
  OBVIOUS
<1>e. PICK e : e = WithAliases(created, c, AliasesOf[c])
  OBVIOUS
<1>1. r \in Actors \ Ingesters /\ r \notin Curators
  BY SessionsAssumption DEF Actors
<1>2. MayWork(r, {c}, {}) /\ c \in DOMAIN txn[r].todo /\ txn[r].pc = "work"
  BY DEF CreateNew, Decides, MayWork, Serialized
<1>3. /\ IsDraft(d) /\ SoundDraft(d, H) /\ NoSite \notin H
      /\ NameOf[c] \in NamesOf(c) /\ NameOf[c] \in H /\ AliasesOf[c] \in SUBSET H
      /\ SiteOf[c] \in H \cup {NoSite}
  BY <1>1, <1>2, AtWork
<1>4. /\ c \notin DOMAIN RowsIn(d) /\ \A n \in NamesOf(c) : \A x : ~Seen(d, n, x)
      /\ \A x : SiteOf[c] # NoSite => ~SeenAt(d, SiteOf[c], x)
  BY OwnersSeen DEF CreateNew, OwnedBy, EvidenceOwners
<1>5. CompanyIn(created, d, c, NameOf[c], SiteOf[c])
  BY <1>c, <1>3, CompanyWritten
<1>6. /\ SoundDraft(created, H)
      /\ \A n, x : Seen(created, n, x) <=> Seen(d, n, x) \/ (n = NameOf[c] /\ x = c)
  BY <1>c, <1>3, <1>4, CreationIsSound
<1>7. IsDraft(created) /\ c \in DOMAIN RowsIn(created) /\ created.record = d.record
      /\ DOMAIN created.company = DOMAIN d.company \cup {c}
  BY <1>5 DEF CompanyIn
<1>8. /\ IsDraft(e) /\ e.company = created.company /\ e.record = created.record /\ SoundDraft(e, H)
      /\ \A n, x : Seen(created, n, x) => Seen(e, n, x)
      /\ \A n \in AliasesOf[c] : Seen(e, n, c)
  <2>1. \A n \in AliasesOf[c] : \A x : Seen(created, n, x) => x = c
    BY <1>4, <1>6 DEF NamesOf
  <2>. QED  BY <1>e, <1>3, <1>6, <1>7, <2>1, AliasesAreSound
<1>9. \A n \in NamesOf(c) : Seen(e, n, c)
  BY <1>6, <1>8 DEF NamesOf
<1>10. WritesOn(r, WithRecord(e, c, "accepted", c, txn[r].todo[c]), txn[r].rows \cup {})
  <2>1. c \in Identities /\ c \notin DOMAIN company
    BY <1>4, Views DEF Identities
  <2>2. /\ IsDraft(e) /\ e.record = d.record /\ SoundDraft(e, H) /\ NameOf[c] \in H
        /\ DOMAIN e.company = DOMAIN d.company \cup {c} /\ \A n, x : Seen(d, n, x) => Seen(e, n, x)
    BY <1>3, <1>6, <1>7, <1>8
  <2>. QED  BY <1>1, <1>2, <1>9, <2>1, <2>2, DecisionIsSound
<1>11. Works(r, {c}, WithRecord(e, c, "accepted", c, txn[r].todo[c]), {})
  BY <1>c, <1>e DEF CreateNew
<1>. QED  BY <1>1, <1>2, <1>10, <1>11, WorksIsSound

\* The company of a link or a renaming is on file and locked.
LEMMA TargetLocked ==
  ASSUME CInv, NEW r \in Reviewers, NEW c \in Found, Decides(r, c, "link") \/ Decides(r, c, "rename")
  PROVE  txn[r].todo[c].target \in DOMAIN company \cap txn[r].rows
<1>. PICK t : t = txn[r]
  OBVIOUS
<1>1. SoundLocks(r, t) /\ DOMAIN company \subseteq Companies
  BY DEF CInv, NamesInv, SoundTables, SoundTxn, Actors
<1>. QED  BY <1>1, IdentitiesAssumption DEF Decides, SoundLocks

LEMMA LinkAsAliasKeeps ==
  ASSUME CInv, NEW r \in Reviewers, NEW c \in Found, LinkAsAlias(r, c)
  PROVE  CInv'
<1>. PICK d : d = txn[r].draft
  OBVIOUS
<1>. PICK H : H = txn[r].held
  OBVIOUS
<1>. PICK i : i = txn[r].todo[c].target
  OBVIOUS
<1>e. PICK e : e = WithAliases(d, i, NamesOf(c))
  OBVIOUS
<1>1. r \in Actors \ Ingesters /\ r \notin Curators
  BY SessionsAssumption DEF Actors
<1>2. MayWork(r, {c}, {}) /\ c \in DOMAIN txn[r].todo /\ txn[r].pc = "work" /\ i \in DOMAIN company
  BY TargetLocked DEF LinkAsAlias, Decides, MayWork, Serialized
<1>3. IsDraft(d) /\ SoundDraft(d, H) /\ NamesOf(c) \in SUBSET H /\ i \in DOMAIN RowsIn(d)
  <2>1. IsDraft(d) /\ SoundDraft(d, H) /\ NamesOf(c) \in SUBSET H
    BY <1>1, <1>2, AtWork
  <2>2. i \in DOMAIN RowsIn(d)
    BY <1>2, Views
  <2>. QED  BY <2>1, <2>2
<1>4. \A n \in NamesOf(c) : \A x : Seen(d, n, x) => x = i
  BY OwnersSeen DEF LinkAsAlias, OwnedBy
<1>5. /\ IsDraft(e) /\ e.company = d.company /\ e.record = d.record /\ SoundDraft(e, H)
      /\ \A n, x : Seen(d, n, x) => Seen(e, n, x)
      /\ \A n \in NamesOf(c) : Seen(e, n, i)
  BY <1>e, <1>3, <1>4, AliasesAreSound
<1>6. WritesOn(r, WithRecord(e, c, "accepted", i, txn[r].todo[c]), txn[r].rows \cup {})
  BY <1>1, <1>2, <1>5, DecisionIsSound
<1>7. Works(r, {c}, WithRecord(e, c, "accepted", i, txn[r].todo[c]), {})
  BY <1>e DEF LinkAsAlias
<1>. QED  BY <1>1, <1>2, <1>6, <1>7, WorksIsSound

LEMMA RenameCanonicalKeeps ==
  ASSUME CInv, NEW r \in Reviewers, NEW c \in Found, RenameCanonical(r, c)
  PROVE  CInv'
<1>d. PICK d : d = txn[r].draft
  OBVIOUS
<1>h. PICK H : H = txn[r].held
  OBVIOUS
<1>i. PICK i : i = txn[r].todo[c].target
  OBVIOUS
<1>r. PICK renamed : renamed = WithCompany(Renamed(d, i, NameOf[c]), i, NameOf[c], SiteOf[c])
  OBVIOUS
<1>e. PICK e : e = WithAliases(renamed, i, AliasesOf[c])
  OBVIOUS
<1>1. r \in Actors \ Ingesters /\ r \notin Curators
  BY SessionsAssumption DEF Actors
<1>2. /\ MayWork(r, {c}, {}) /\ c \in DOMAIN txn[r].todo /\ txn[r].pc = "work"
      /\ i \in DOMAIN company /\ i \in txn[r].rows
  BY <1>i, TargetLocked DEF RenameCanonical, Decides, MayWork, Serialized
<1>3. /\ IsDraft(d) /\ SoundDraft(d, H) /\ NoSite \notin H /\ i \in DOMAIN RowsIn(d)
      /\ NameOf[c] \in NamesOf(c) /\ NameOf[c] \in H /\ AliasesOf[c] \in SUBSET H
      /\ SiteOf[c] \in H \cup {NoSite}
  <2>1. /\ IsDraft(d) /\ SoundDraft(d, H) /\ NoSite \notin H
        /\ NameOf[c] \in NamesOf(c) /\ NameOf[c] \in H /\ AliasesOf[c] \in SUBSET H
        /\ SiteOf[c] \in H \cup {NoSite}
    BY <1>d, <1>h, <1>1, <1>2, AtWork
  <2>2. i \in DOMAIN RowsIn(d)
    BY <1>2, Views
  <2>. QED  BY <2>1, <2>2
<1>4. /\ \A n \in NamesOf(c) : \A x : Seen(d, n, x) => x = i
      /\ \A x : SiteOf[c] # NoSite /\ SeenAt(d, SiteOf[c], x) => x = i
      /\ \A x : IsAlias(d, RowsIn(d)[i].name, x) => x = i
  BY <1>d, <1>i, OwnersSeen DEF RenameCanonical, OwnedBy, EvidenceOwners, IsAlias
<1>5. /\ IsDraft(renamed) /\ renamed.record = d.record /\ SoundDraft(renamed, H)
      /\ DOMAIN renamed.company = DOMAIN d.company \cup {i} /\ i \in DOMAIN RowsIn(renamed)
      /\ \A n, x : Seen(d, n, x) => Seen(renamed, n, x)
      /\ \A n, x : Seen(renamed, n, x) => Seen(d, n, x) \/ x = i
      /\ Seen(renamed, NameOf[c], i)
  <2>1. CASE RowsIn(d)[i].name = NameOf[c]
    <3>u. PICK u : u = WithCompany(d, i, RowsIn(d)[i].name, SiteOf[c])
      OBVIOUS
    <3>1. u = renamed
      BY <1>r, <2>1, <3>u DEF Renamed
    <3>2. CompanyIn(u, d, i, RowsIn(d)[i].name, SiteOf[c])
      BY <1>3, <3>u, CompanyWritten
    <3>3. /\ SoundDraft(u, H)
          /\ \A n, x : Seen(u, n, x) <=> Seen(d, n, x)
      BY <1>3, <1>4, <3>u, UpdateIsSound
    <3>4. Seen(d, NameOf[c], i)
      BY <1>3, <2>1 DEF Seen, Leads
    <3>. QED  BY <3>1, <3>2, <3>3, <3>4 DEF CompanyIn
  <2>2. CASE RowsIn(d)[i].name # NameOf[c]
    <3>1. /\ IsDraft(renamed) /\ renamed.record = d.record /\ SoundDraft(renamed, H)
          /\ DOMAIN renamed.company = DOMAIN d.company \cup {i}
          /\ \A n, x : Seen(d, n, x) => Seen(renamed, n, x)
          /\ \A n, x : Seen(renamed, n, x) => Seen(d, n, x) \/ x = i
          /\ Seen(renamed, NameOf[c], i)
      <4>1. PICK name, site : name = NameOf[c] /\ site = SiteOf[c]
        OBVIOUS
      <4>2. /\ IsDraft(d) /\ SoundDraft(d, H) /\ NoSite \notin H /\ i \in DOMAIN RowsIn(d)
            /\ name \in H /\ site \in H \cup {NoSite} /\ RowsIn(d)[i].name # name
            /\ \A x : Seen(d, name, x) => x = i
            /\ \A x : site \in H /\ SeenAt(d, site, x) => x = i
            /\ \A x : IsAlias(d, RowsIn(d)[i].name, x) => x = i
        BY <1>3, <1>4, <2>2, <4>1
      <4>3. renamed = WithCompany(Renamed(d, i, name), i, name, site)
        BY <1>r, <4>1
      <4>4. /\ IsDraft(renamed) /\ renamed.record = d.record /\ SoundDraft(renamed, H)
            /\ DOMAIN renamed.company = DOMAIN d.company \cup {i}
            /\ \A n, x : Seen(d, n, x) => Seen(renamed, n, x)
            /\ \A n, x : Seen(renamed, n, x) => Seen(d, n, x) \/ x = i
            /\ Seen(renamed, name, i)
        BY <4>2, <4>3, RenamingIsSound
      <4>. QED  BY <4>1, <4>4
    <3>. QED  BY <3>1, Views
  <2>. QED  BY <2>1, <2>2
<1>6. /\ IsDraft(e) /\ e.company = renamed.company /\ e.record = renamed.record /\ SoundDraft(e, H)
      /\ \A n, x : Seen(renamed, n, x) => Seen(e, n, x)
      /\ \A n \in AliasesOf[c] : Seen(e, n, i)
  <2>1. \A n \in AliasesOf[c] : \A x : Seen(renamed, n, x) => x = i
    BY <1>4, <1>5 DEF NamesOf
  <2>2. IsDraft(renamed) /\ SoundDraft(renamed, H) /\ i \in DOMAIN RowsIn(renamed)
    BY <1>5
  <2>3. AliasesOf[c] \in SUBSET H
    BY <1>3
  <2>. QED  BY <1>e, <2>1, <2>2, <2>3, AliasesAreSound
<1>7. \A n \in NamesOf(c) : Seen(e, n, i)
  BY <1>5, <1>6 DEF NamesOf
<1>8. WritesOn(r, WithRecord(e, c, "accepted", i, txn[r].todo[c]), txn[r].rows \cup {})
  <2>1. \A x \in DOMAIN e.company \ DOMAIN txn[r].draft.company : x = i
    BY <1>d, <1>h, <1>5, <1>6
  <2>2. \A n \in txn[r].held : \A x : Seen(txn[r].draft, n, x) => Seen(e, n, x)
    BY <1>d, <1>h, <1>5, <1>6
  <2>3. IsDraft(e) /\ e.record = txn[r].draft.record /\ SoundDraft(e, txn[r].held)
    BY <1>d, <1>h, <1>5, <1>6
  <2>. QED  BY <1>h, <1>i, <1>1, <1>2, <1>7, <2>1, <2>2, <2>3, DecisionIsSound
<1>9. Works(r, {c}, WithRecord(e, c, "accepted", i, txn[r].todo[c]), {})
  BY <1>d, <1>i, <1>r, <1>e DEF RenameCanonical
<1>. QED  BY <1>1, <1>2, <1>8, <1>9, WorksIsSound

-----------------------------------------------------------------------------
(* The curators.                                                           *)

LEMMA RowsAreCompanies ==
  ASSUME CInv, NEW a \in Actors
  PROVE  DOMAIN RowsIn(txn[a].draft) \subseteq Companies
<1>. PICK t : t = txn[a]
  OBVIOUS
<1>1. SoundWrites(a, t) /\ DOMAIN company \subseteq Companies
  BY DEF CInv, NamesInv, SoundTables, SoundTxn
<1>2. DOMAIN RowsIn(t.draft) = DOMAIN t.draft.company \cup DOMAIN company
  BY Views
<1>. QED  BY <1>1, <1>2 DEF SoundWrites, Companies

LEMMA ReviewMayWork ==
  ASSUME CInv, NEW k \in Curators, NEW f \in Facts, Reviews(k, f), NEW rows,
         \A i \in rows : RowFree(k, i)
  PROVE  MayWork(k, {f}, rows)
<1>. PICK t : t = txn[k]
  OBVIOUS
<1>1. SoundWork(k, t)
  BY DEF CInv, NamesInv, SoundTxn, Actors
<1>. QED  BY <1>1, SessionsAssumption DEF SoundWork, Reviews, MayWork

\* A fact that is seen to be undecided is.
LEMMA SeenUndecided ==
  ASSUME CInv, NEW k \in Curators, NEW f \in Facts, FactsIn(txn[k].draft)[f] = Undecided
  PROVE  fact[f] = Undecided
<1>. PICK t : t = txn[k]
  OBVIOUS
<1>1. SoundRecords(k, t) /\ DOMAIN fact = Facts
  BY DEF CInv, NamesInv, Shape, SoundTxn, Actors
<1>2. CASE f \in DOMAIN t.draft.record
  BY <1>1, <1>2, SessionsAssumption DEF SoundRecords
<1>3. CASE f \notin DOMAIN t.draft.record
  BY <1>1, <1>3 DEF FactsIn, Over
<1>. QED  BY <1>2, <1>3

LEMMA ReplayReviewKeeps ==
  ASSUME CInv, NEW k \in Curators, NEW f \in Facts, ReplayReview(k, f)
  PROVE  CInv'
<1>1. k \in Actors
  BY DEF Actors
<1>2. MayWork(k, {f}, {})
  BY ReviewMayWork DEF ReplayReview
<1>. QED  BY <1>1, <1>2, WorksIsSound, UnwrittenIsSound DEF ReplayReview

LEMMA RejectFactKeeps ==
  ASSUME CInv, NEW k \in Curators, NEW f \in Facts, RejectFact(k, f)
  PROVE  CInv'
<1>. PICK d : d = txn[k].draft
  OBVIOUS
<1>1. k \in Actors \ Ingesters
  BY SessionsAssumption DEF Actors
<1>2. /\ MayWork(k, {f}, {}) /\ f \in DOMAIN txn[k].todo /\ (Serialized(k) \/ txn[k].pc = "work")
      /\ fact[f] = Undecided
  BY ReviewMayWork, SeenUndecided DEF RejectFact, Reviews
<1>3. IsDraft(d) /\ SoundDraft(d, txn[k].held)
  BY <1>1, <1>2, AtWork
<1>4. WritesOn(k, WithRecord(d, f, "rejected", NoCompany, txn[k].todo[f]), txn[k].rows \cup {})
  BY <1>1, <1>2, <1>3, DecisionIsSound
<1>. QED  BY <1>1, <1>2, <1>4, WorksIsSound DEF RejectFact

LEMMA AcceptFactKeeps ==
  ASSUME CInv, NEW k \in Curators, NEW f \in Facts, AcceptFact(k, f)
  PROVE  CInv'
<1>. PICK d : d = txn[k].draft
  OBVIOUS
<1>. PICK H : H = txn[k].held
  OBVIOUS
<1>. PICK target : target = txn[k].todo[f].target
  OBVIOUS
<1>i. PICK i : i = IF target = NoCompany THEN f ELSE target
  OBVIOUS
<1>k. PICK known : known = IF target = NoCompany THEN WithCompany(d, f, NameOf[f], SiteOf[f]) ELSE d
  OBVIOUS
<1>e. PICK e : e = WithAliases(known, i, NamesOf(f))
  OBVIOUS
<1>1. k \in Actors \ Ingesters
  BY SessionsAssumption DEF Actors
<1>2. /\ MayWork(k, {f}, {i}) /\ f \in DOMAIN txn[k].todo /\ (Serialized(k) \/ txn[k].pc = "work")
      /\ fact[f] = Undecided
  BY <1>i, ReviewMayWork, SeenUndecided DEF AcceptFact, Reviews
<1>3. /\ IsDraft(d) /\ SoundDraft(d, H) /\ NoSite \notin H /\ NamesOf(f) \in SUBSET H
      /\ NameOf[f] \in NamesOf(f) /\ NameOf[f] \in H /\ SiteOf[f] \in H \cup {NoSite}
  BY <1>1, <1>2, AtWork
<1>4. /\ \A n \in NamesOf(f) : \A x : Seen(d, n, x) => x = target
      /\ \A x : SiteOf[f] # NoSite /\ SeenAt(d, SiteOf[f], x) => x = target
  BY OwnersSeen DEF AcceptFact
<1>5. /\ IsDraft(known) /\ known.record = d.record /\ SoundDraft(known, H) /\ i \in DOMAIN RowsIn(known)
      /\ \A n, x : Seen(d, n, x) => Seen(known, n, x)
      /\ \A n \in NamesOf(f) : \A x : Seen(known, n, x) => x = i
      /\ \A x \in DOMAIN known.company \ DOMAIN d.company :
           x \notin DOMAIN company /\ x \in Identities /\ NameOf[x] \in H
  <2>1. CASE target = NoCompany
    <3>1. known = WithCompany(d, f, NameOf[f], SiteOf[f]) /\ i = f
      BY <1>i, <1>k, <2>1
    <3>2. f \notin DOMAIN RowsIn(d)
      BY <2>1 DEF AcceptFact
    <3>3. NoCompany \notin DOMAIN RowsIn(d)
      BY <1>1, RowsAreCompanies, IdentitiesAssumption
    <3>4. SoundTables
      BY DEF CInv, NamesInv
    <3>5. /\ \A n \in NamesOf(f) : \A x : ~Seen(d, n, x)
          /\ \A x : SiteOf[f] # NoSite => ~SeenAt(d, SiteOf[f], x)
      BY <1>3, <1>4, <2>1, <3>3, <3>4, SeenIsRow DEF SeenAt
    <3>6. CompanyIn(known, d, f, NameOf[f], SiteOf[f])
      BY <1>3, <3>1, CompanyWritten
    <3>7. /\ SoundDraft(known, H)
          /\ \A n, x : Seen(known, n, x) <=> Seen(d, n, x) \/ (n = NameOf[f] /\ x = f)
      BY <1>3, <3>1, <3>2, <3>5, CreationIsSound
    <3>8. f \notin DOMAIN company /\ f \in Identities
      BY <3>2, Views DEF Identities
    <3>. QED  BY <1>3, <3>1, <3>5, <3>6, <3>7, <3>8 DEF CompanyIn
  <2>2. CASE target # NoCompany
    <3>1. known = d /\ i = target
      BY <1>i, <1>k, <2>2
    <3>2. target \in DOMAIN company
      <4>. PICK t : t = txn[k]
        OBVIOUS
      <4>1. SoundLocks(k, t)
        BY <1>1 DEF CInv, NamesInv, SoundTxn
      <4>. QED  BY <1>2, <2>2, <4>1 DEF SoundLocks, Serialized
    <3>3. target \in DOMAIN RowsIn(d)
      BY <3>2, Views
    <3>. QED  BY <1>3, <1>4, <3>1, <3>3
  <2>. QED  BY <2>1, <2>2
<1>6. /\ IsDraft(e) /\ e.company = known.company /\ e.record = known.record /\ SoundDraft(e, H)
      /\ \A n, x : Seen(known, n, x) => Seen(e, n, x)
      /\ \A n \in NamesOf(f) : Seen(e, n, i)
  <2>1. IsDraft(known) /\ SoundDraft(known, H) /\ i \in DOMAIN RowsIn(known)
    BY <1>5
  <2>2. NamesOf(f) \in SUBSET H /\ \A n \in NamesOf(f) : \A x : Seen(known, n, x) => x = i
    BY <1>3, <1>5
  <2>. QED  BY <1>e, <2>1, <2>2, AliasesAreSound
<1>7. WritesOn(k, WithRecord(e, f, "accepted", i, txn[k].todo[f]), txn[k].rows \cup {i})
  <2>1. \A x \in DOMAIN e.company \ DOMAIN txn[k].draft.company :
          x \notin DOMAIN company /\ x \in Identities /\ NameOf[x] \in txn[k].held
    BY <1>5, <1>6
  <2>2. \A n \in txn[k].held : \A x : Seen(txn[k].draft, n, x) => Seen(e, n, x)
    BY <1>5, <1>6
  <2>3. IsDraft(e) /\ e.record = txn[k].draft.record /\ SoundDraft(e, txn[k].held)
    BY <1>5, <1>6
  <2>4. \A n \in NamesOf(f) : Seen(e, n, i)
    BY <1>6
  <2>. QED  BY <1>1, <1>2, <2>1, <2>2, <2>3, <2>4, DecisionIsSound
<1>8. Works(k, {f}, WithRecord(e, f, "accepted", i, txn[k].todo[f]), {i})
  BY <1>i, <1>k, <1>e DEF AcceptFact
<1>. QED  BY <1>1, <1>2, <1>7, <1>8, WorksIsSound

LEMMA RefreshKeeps ==
  ASSUME CInv, NEW k \in Curators, Refresh(k)
  PROVE  CInv'
<1>1. k \in Actors /\ k \notin Reviewers
  BY SessionsAssumption DEF Actors
<1>2. MayWork(k, DOMAIN txn[k].todo \ Pending(k), {})
  BY <1>1 DEF Refresh, MayWork, Pending
<1>. QED  BY <1>1, <1>2, WorksIsSound, UnwrittenIsSound DEF Refresh

LEMMA KeepForReviewKeeps ==
  ASSUME CInv, NEW k \in Curators, NEW f \in Facts, KeepForReview(k, f)
  PROVE  CInv'
<1>1. k \in Actors /\ k \notin Reviewers
  BY SessionsAssumption DEF Actors
<1>2. MayWork(k, Group(DOMAIN txn[k].todo, f), {})
  BY DEF KeepForReview, Resolves, MayWork, Serialized
<1>. QED  BY <1>1, <1>2, WorksIsSound, UnwrittenIsSound DEF KeepForReview

\* A group of facts has its first one and is among those to resolve.
LEMMA GroupOf ==
  ASSUME NEW S, NEW f \in S
  PROVE  f \in Group(S, f) /\ Group(S, f) \subseteq S
  BY DEF Group

LEMMA AcceptGroupKeeps ==
  ASSUME CInv, NEW k \in Curators, NEW f \in Facts, AcceptGroup(k, f)
  PROVE  CInv'
<1>. PICK d : d = txn[k].draft
  OBVIOUS
<1>. PICK H : H = txn[k].held
  OBVIOUS
<1>. PICK group : group = Group(DOMAIN txn[k].todo, f)
  OBVIOUS
<1>. PICK owners : owners = UNION {NameOwners(d, g) : g \in group}
  OBVIOUS
<1>. PICK names : names = UNION {NamesOf(g) : g \in group}
  OBVIOUS
<1>1. k \in Actors \ Ingesters /\ k \notin Reviewers
  BY SessionsAssumption DEF Actors
<1>2. /\ f \in DOMAIN txn[k].todo /\ txn[k].todo[f].action = "auto" /\ txn[k].pc = "work"
      /\ \A x, y \in owners : x = y
      /\ \A g \in group : SiteOwners(d, g) \subseteq owners
  BY DEF AcceptGroup, Resolves
<1>3. f \in group /\ group \subseteq DOMAIN txn[k].todo
  BY <1>2, GroupOf
<1>4. /\ IsDraft(d) /\ SoundDraft(d, H) /\ NoSite \notin H /\ SoundTables
      /\ NameOf[f] \in NamesOf(f) /\ NameOf[f] \in H /\ SiteOf[f] \in H \cup {NoSite}
      /\ \A g \in group : NamesOf(g) \subseteq H
  BY <1>1, <1>2, <1>3, AtWork
<1>5. \A g \in group : g \in Facts /\ fact[g] = Undecided
  <2>. PICK t : t = txn[k]
    OBVIOUS
  <2>1. SoundWork(k, t)
    BY <1>1 DEF CInv, NamesInv, SoundTxn
  <2>. QED  BY <1>2, <1>3, <2>1 DEF SoundWork
<1>6. names \in SUBSET H /\ (\A n \in names : \A x : Seen(d, n, x) => x \in owners) /\ NamesOf(f) \subseteq names
  BY <1>3, <1>4, OwnersSeen
<1>i. PICK i \in Companies : LET known == IF owners = {} THEN WithCompany(d, i, NameOf[f], SiteOf[f]) ELSE d IN
       /\ IF owners = {} THEN Free(i) ELSE i \in owners
       /\ RowFree(k, i)
       /\ Works(k, group,
                [WithAliases(known, i, names) EXCEPT
                   !.record = Over([g \in group |-> [status |-> "accepted", company |-> i,
                                                     decision |-> NoDecision]], @)],
                {i})
  BY ZenonT(60) DEF AcceptGroup
<1>k. PICK known : known = IF owners = {} THEN WithCompany(d, i, NameOf[f], SiteOf[f]) ELSE d
  OBVIOUS
<1>e. PICK e : e = WithAliases(known, i, names)
  OBVIOUS
<1>w. PICK w : w = [e EXCEPT !.record = Over([g \in group |-> [status |-> "accepted", company |-> i,
                                                            decision |-> NoDecision]], @)]
  OBVIOUS
<1>7. (IF owners = {} THEN Free(i) ELSE i \in owners) /\ RowFree(k, i) /\ Works(k, group, w, {i})
  BY <1>i, <1>k, <1>e, <1>w
<1>8. /\ IsDraft(known) /\ known.record = d.record /\ SoundDraft(known, H) /\ i \in DOMAIN RowsIn(known)
      /\ \A n, x : Seen(d, n, x) => Seen(known, n, x)
      /\ \A n \in names : \A x : Seen(known, n, x) => x = i
      /\ \A x \in DOMAIN known.company \ DOMAIN d.company : x \notin DOMAIN company /\ Free(x)
  <2>1. CASE owners = {}
    <3>1. known = WithCompany(d, i, NameOf[f], SiteOf[f]) /\ Free(i)
      BY <1>7, <1>k, <2>1
    <3>2. i \notin DOMAIN RowsIn(d) /\ i \notin DOMAIN company
      BY <1>1, <3>1, Views DEF Free
    <3>3. /\ \A n \in names : \A x : ~Seen(d, n, x)
          /\ \A x : SiteOf[f] # NoSite => ~SeenAt(d, SiteOf[f], x)
      <4>1. \A n \in names : \A x : ~Seen(d, n, x)
        BY <1>6, <2>1
      <4>2. SiteOwners(d, f) = {}
        BY <1>2, <1>3, <2>1
      <4>. QED  BY <4>1, <4>2, OwnersSeen
    <3>4. CompanyIn(known, d, i, NameOf[f], SiteOf[f])
      BY <1>4, <3>1, CompanyWritten
    <3>5. /\ SoundDraft(known, H)
          /\ \A n, x : Seen(known, n, x) <=> Seen(d, n, x) \/ (n = NameOf[f] /\ x = i)
      <4>1. \A x : ~Seen(d, NameOf[f], x)
        BY <1>4, <1>6, <3>3
      <4>. QED  BY <1>4, <3>1, <3>2, <3>3, <4>1, CreationIsSound
    <3>6. /\ IsDraft(known) /\ known.record = d.record /\ i \in DOMAIN RowsIn(known)
          /\ \A x \in DOMAIN known.company \ DOMAIN d.company : x = i
      BY <3>4 DEF CompanyIn
    <3>. QED  BY <3>1, <3>2, <3>3, <3>5, <3>6
  <2>2. CASE owners # {}
    <3>1. known = d /\ i \in owners
      BY <1>7, <1>k, <2>2
    <3>2. \E n : Seen(d, n, i)
      BY <3>1, OwnersSeen
    <3>3. i \in DOMAIN RowsIn(d)
      BY <1>4, <3>2, SeenIsRow
    <3>4. \A n \in names : \A x : Seen(d, n, x) => x = i
      BY <1>2, <1>6, <3>1
    <3>. QED  BY <1>4, <3>1, <3>3, <3>4
  <2>. QED  BY <2>1, <2>2
<1>9. /\ IsDraft(e) /\ e.company = known.company /\ e.record = known.record /\ SoundDraft(e, H)
      /\ \A n, x : Seen(known, n, x) => Seen(e, n, x)
      /\ \A n \in names : Seen(e, n, i)
  <2>1. IsDraft(known) /\ SoundDraft(known, H) /\ i \in DOMAIN RowsIn(known)
    BY <1>8
  <2>2. names \in SUBSET H /\ \A n \in names : \A x : Seen(known, n, x) => x = i
    BY <1>6, <1>8
  <2>. QED  BY <1>e, <2>1, <2>2, AliasesAreSound
<1>10. /\ IsDraft(w) /\ w.company = e.company /\ w.alias = e.alias /\ w.dropped = e.dropped
       /\ w.record = Over([g \in group |-> [status |-> "accepted", company |-> i,
                                             decision |-> NoDecision]], e.record)
  BY <1>9, <1>w DEF IsDraft
<1>11. /\ SoundDraft(w, H)
       /\ \A n, x : Seen(w, n, x) <=> Seen(e, n, x)
  <2>1. w.company = e.company /\ w.alias = e.alias /\ w.dropped = e.dropped
    BY <1>10
  <2>2. SoundDraft(e, H)
    BY <1>9
  <2>. QED  BY <2>1, <2>2, SameNames
<1>12. \A c \in DOMAIN w.record :
          \/ c \in DOMAIN d.record /\ w.record[c] = d.record[c]
          \/ c \in group /\ w.record[c].status = "accepted" /\ w.record[c].company = i
  <2>1. e.record = d.record
    BY <1>8, <1>9
  <2>2. w.record = Over([g \in group |-> [status |-> "accepted", company |-> i, decision |-> NoDecision]], d.record)
    BY <1>10, <2>1
  <2>. QED  BY <2>2 DEF Over
<1>13. WritesOn(k, w, txn[k].rows \cup {i})
  <2>1. \A x \in DOMAIN w.company \ DOMAIN d.company : x \notin DOMAIN company /\ Free(x)
    BY <1>8, <1>9, <1>10
  <2>2. \A n, x : Seen(d, n, x) => Seen(w, n, x)
    BY <1>8, <1>9, <1>11
  <2>3. \A g \in group : NamesOf(g) \subseteq H /\ \A n \in NamesOf(g) : Seen(w, n, i)
    BY <1>4, <1>9, <1>11
  <2>4. IsDraft(w) /\ SoundDraft(w, H)
    BY <1>10, <1>11
  <2>. QED  BY <1>1, <1>5, <1>12, <2>1, <2>2, <2>3, <2>4 DEF WritesOn
<1>14. MayWork(k, group, {i})
  BY <1>2, <1>7 DEF MayWork, Serialized
<1>. QED  BY <1>1, <1>7, <1>13, <1>14, WorksIsSound

-----------------------------------------------------------------------------
(* The ingestions.                                                         *)

LEMMA UpsertCompanyKeeps ==
  ASSUME CInv, NEW g \in Ingesters, NEW c \in Found, UpsertCompany(g, c)
  PROVE  CInv'
<1>. PICK t : t = txn[g]
  OBVIOUS
<1>. PICK H : H = t.held
  OBVIOUS
<1>. PICK sought : sought = Sought(g, c)
  OBVIOUS
<1>1. g \in Actors /\ g \notin Reviewers /\ g \notin Curators
  BY SessionsAssumption DEF Actors
<1>2. /\ t.pc = "keys" /\ Serialized(g) /\ c \in DOMAIN t.todo
      /\ NameOwners(t.draft, c) \subseteq sought /\ SiteOwners(t.draft, c) \subseteq sought
  BY DEF UpsertCompany, Serialized, NamesAreOwn
<1>3. /\ SoundTxn(g, t) /\ IsTxn(t) /\ SoundTables
  BY <1>1 DEF CInv, NamesInv, Shape
<1>4. t.draft = NoDraft
  BY <1>2, <1>3 DEF SoundTxn, SoundLocks
<1>5. /\ IsDraft(NoDraft) /\ SoundDraft(NoDraft, H) /\ NoSite \notin H /\ NamesOf(c) \in SUBSET H
      /\ NameOf[c] \in NamesOf(c) /\ NameOf[c] \in H /\ SiteOf[c] \in H \cup {NoSite}
  BY <1>1, <1>2, <1>4, AtWork
<1>6. DOMAIN RowsIn(NoDraft) = DOMAIN company /\ \A x \in DOMAIN company : RowsIn(NoDraft)[x] = company[x]
  BY DEF RowsIn, Over, NoDraft
<1>7. /\ sought \subseteq DOMAIN company
      /\ \A x, y \in sought : x = y
  <2>1. t.todo[c].target \in DOMAIN company \cup {NoCompany}
    BY <1>2, <1>3 DEF SoundTxn, SoundLocks
  <2>. QED  BY <1>3, <2>1 DEF Sought, SoundTables, OneRowPerName
<1>8. /\ \A n \in NamesOf(c) : \A x : Seen(NoDraft, n, x) => x \in sought
      /\ \A x : SiteOf[c] # NoSite /\ SeenAt(NoDraft, SiteOf[c], x) => x \in sought
  BY <1>2, <1>4, OwnersSeen
<1>i. PICK i \in Companies :
       LET site == IF sought # {} /\ SiteOf[c] = NoSite THEN company[i].site ELSE SiteOf[c]
           name == IF sought # {} THEN company[i].name ELSE NameOf[c]
           known == WithCompany(t.draft, i, name, site)
           named == WithAliases(known, i, NamesOf(c)) IN
       /\ IF sought = {} THEN Free(i) ELSE i \in sought
       /\ RowFree(g, i)
       /\ CanAlias(known, i, NamesOf(c)) /\ InsertsFree(g, named)
       /\ Goes(g, [txn[g] EXCEPT !.pc = "filing", !.todo[c].target = i, !.rows = @ \cup {i},
                                 !.draft = named, !.keys = LegalsOf[c]])
  BY DEF UpsertCompany
<1>. PICK site : site = IF sought # {} /\ SiteOf[c] = NoSite THEN company[i].site ELSE SiteOf[c]
  OBVIOUS
<1>. PICK name : name = IF sought # {} THEN company[i].name ELSE NameOf[c]
  OBVIOUS
<1>k. PICK known : known = WithCompany(NoDraft, i, name, site)
  OBVIOUS
<1>e. PICK e : e = WithAliases(known, i, NamesOf(c))
  OBVIOUS
<1>w. PICK new : new = [t EXCEPT !.pc = "filing", !.todo[c].target = i, !.rows = @ \cup {i},
                                 !.draft = e, !.keys = LegalsOf[c]]
  OBVIOUS
<1>9. /\ IF sought = {} THEN Free(i) ELSE i \in sought
      /\ RowFree(g, i) /\ InsertsFree(g, e) /\ Goes(g, new)
  BY <1>i, <1>k, <1>e, <1>w, <1>4
<1>10. /\ IsDraft(known) /\ known.record = NoDraft.record /\ SoundDraft(known, H) /\ i \in DOMAIN RowsIn(known)
       /\ \A n, x : Seen(NoDraft, n, x) => Seen(known, n, x)
       /\ \A n \in NamesOf(c) : \A x : Seen(known, n, x) => x = i
       /\ \A x \in DOMAIN known.company : x = i /\ (i \in DOMAIN company \/ Free(i))
  <2>1. CompanyIn(known, NoDraft, i, name, site)
    BY <1>5, <1>k, CompanyWritten
  <2>2. /\ IsDraft(known) /\ known.record = NoDraft.record /\ i \in DOMAIN RowsIn(known)
        /\ \A x \in DOMAIN known.company : x = i
    BY <2>1 DEF CompanyIn, NoDraft
  <2>3. CASE sought = {}
    <3>1. Free(i) /\ i \notin DOMAIN RowsIn(NoDraft) /\ name = NameOf[c] /\ site = SiteOf[c]
      BY <1>6, <1>9, <2>3 DEF Free
    <3>2. /\ \A n \in NamesOf(c) : \A x : ~Seen(NoDraft, n, x)
          /\ \A x : SiteOf[c] # NoSite => ~SeenAt(NoDraft, SiteOf[c], x)
      BY <1>8, <2>3
    <3>3. /\ SoundDraft(known, H)
          /\ \A n, x : Seen(known, n, x) <=> Seen(NoDraft, n, x) \/ (n = NameOf[c] /\ x = i)
      <4>1. known = WithCompany(NoDraft, i, NameOf[c], SiteOf[c])
        BY <1>k, <3>1
      <4>2. \A x : ~Seen(NoDraft, NameOf[c], x)
        BY <1>5, <3>2
      <4>. QED  BY <1>5, <3>1, <3>2, <4>1, <4>2, CreationIsSound
    <3>. QED  BY <2>2, <3>1, <3>2, <3>3
  <2>4. CASE sought # {}
    <3>1. /\ i \in sought /\ i \in DOMAIN company /\ i \in DOMAIN RowsIn(NoDraft)
          /\ name = RowsIn(NoDraft)[i].name
          /\ site \in H \cup {NoSite, RowsIn(NoDraft)[i].site}
      BY <1>5, <1>6, <1>7, <1>9, <2>4
    <3>2. /\ \A n \in NamesOf(c) : \A x : Seen(NoDraft, n, x) => x = i
          /\ \A x : SiteOf[c] # NoSite /\ SeenAt(NoDraft, SiteOf[c], x) => x = i
      BY <1>7, <1>8, <3>1
    <3>3. \A x : site # RowsIn(NoDraft)[i].site /\ SeenAt(NoDraft, site, x) => site = NoSite \/ x = i
      BY <1>6, <3>1, <3>2
    <3>4. /\ SoundDraft(known, H)
          /\ \A n, x : Seen(known, n, x) <=> Seen(NoDraft, n, x)
      <4>1. known = WithCompany(NoDraft, i, RowsIn(NoDraft)[i].name, site)
        BY <1>k, <3>1
      <4>. QED  BY <1>5, <3>1, <3>3, <4>1, UpdateIsSound
    <3>. QED  BY <2>2, <3>1, <3>2, <3>4
  <2>. QED  BY <2>3, <2>4
<1>11. /\ IsDraft(e) /\ e.company = known.company /\ e.record = known.record /\ SoundDraft(e, H)
       /\ \A n, x : Seen(known, n, x) => Seen(e, n, x)
  <2>1. IsDraft(known) /\ SoundDraft(known, H) /\ i \in DOMAIN RowsIn(known)
    BY <1>10
  <2>2. NamesOf(c) \in SUBSET H /\ \A n \in NamesOf(c) : \A x : Seen(known, n, x) => x = i
    BY <1>5, <1>10
  <2>. QED  BY <1>e, <2>1, <2>2, AliasesAreSound
<1>12. /\ IsTxn(new) /\ new.pc = "filing" /\ DOMAIN new.todo = DOMAIN t.todo /\ new.locked = t.locked
       /\ new.keys = LegalsOf[c] /\ new.held = H /\ new.rows = t.rows \cup {i} /\ new.draft = e
  BY <1>3, <1>11, <1>w DEF IsTxn
<1>13. WritesOn(g, e, new.rows)
  <2>1. \A x \in DOMAIN e.company : x = i /\ (i \in DOMAIN company \/ Free(i))
    BY <1>10, <1>11
  <2>2. \A n \in H : \A x : Seen(NoDraft, n, x) => Seen(e, n, x)
    BY <1>10, <1>11
  <2>3. IsDraft(e) /\ SoundDraft(e, H) /\ e.record = NoDraft.record
    BY <1>10, <1>11
  <2>. QED  BY <1>1, <1>4, <1>12, <2>1, <2>2, <2>3 DEF WritesOn, Free
<1>14. SoundLocks(g, new)
  <2>1. LegalsOf[c] \subseteq Nat
    BY IdentitiesAssumption DEF Identities
  <2>2. \A x \in DOMAIN new.todo : IdentityKeys({x}) \subseteq new.held
    BY <1>2, <1>3, <1>12 DEF SoundTxn, SoundLocks, Serialized
  <2>. QED  BY <1>1, <1>3, <1>12, <2>1, <2>2 DEF SoundTxn, SoundLocks
<1>15. SoundWork(g, new)
  BY <1>1, <1>3, <1>12 DEF SoundTxn, SoundWork
<1>16. IsTxn(new) /\ new.held = txn[g].held /\ new.locked = txn[g].locked /\ new.rows = txn[g].rows \cup {i}
  BY <1>12
<1>17. InsertsFree(g, new.draft) /\ WritesOn(g, new.draft, new.rows)
  BY <1>9, <1>12, <1>13
<1>. QED  BY <1>1, <1>9, <1>14, <1>15, <1>16, <1>17, DraftStep

LEMMA UpsertFilingsKeeps ==
  ASSUME CInv, NEW g \in Ingesters, NEW c \in Found, UpsertFilings(g, c)
  PROVE  CInv'
<1>. PICK t : t = txn[g]
  OBVIOUS
<1>. PICK e : e = [t.draft EXCEPT !.filing = [l \in LegalsOf[c] |-> t.todo[c].target]]
  OBVIOUS
<1>1. g \in Actors /\ SoundTxn(g, t) /\ IsTxn(t)
  BY DEF Actors, CInv, NamesInv, Shape
<1>2. /\ IsDraft(e) /\ e.company = t.draft.company /\ e.alias = t.draft.alias
      /\ e.dropped = t.draft.dropped /\ e.record = t.draft.record
  BY <1>1 DEF IsTxn, IsDraft
<1>3. SoundDraft(e, t.held) /\ \A n, x : Seen(e, n, x) <=> Seen(t.draft, n, x)
  BY <1>1, <1>2, SameNames DEF SoundTxn
<1>4. MayWork(g, {c}, {})
  BY <1>1 DEF UpsertFilings, MayWork, Serialized, SoundTxn, SoundLocks
<1>5. WritesOn(g, e, txn[g].rows \cup {})
  BY <1>2, <1>3 DEF WritesOn
<1>6. Works(g, {c}, e, {})
  BY DEF UpsertFilings
<1>. QED  BY <1>1, <1>4, <1>5, <1>6, WorksIsSound

-----------------------------------------------------------------------------
(* Beginnings, locks and ends.                                             *)

\* Whoever has written nothing sees the tables.
LEMMA EmptyDraft ==
  ASSUME SoundTables, NEW H, NoSite \notin H
  PROVE  SoundDraft(NoDraft, H)
<1>1. /\ DOMAIN RowsIn(NoDraft) = DOMAIN company
      /\ \A x \in DOMAIN company : RowsIn(NoDraft)[x] = company[x]
      /\ \A n, i : Seen(NoDraft, n, i) <=> Led(n, i)
      /\ \A s, i : SeenAt(NoDraft, s, i) <=> i \in DOMAIN company /\ company[i].site = s
  BY DEF NoDraft, RowsIn, AliasesIn, Over, Without, Seen, SeenAt, Led, Leads
<1>2. SoundRows(NoDraft, H) /\ SoundAliases(NoDraft, H) /\ SoundDrops(NoDraft, H)
  BY DEF SoundRows, SoundAliases, SoundDrops, NoDraft
<1>3. OneRowPerName(RowsIn(NoDraft))
  BY <1>1 DEF SoundTables, OneRowPerName
<1>4. SoundView(NoDraft, H)
  BY <1>1, <1>3 DEF SoundTables, SoundView
<1>. QED  BY <1>2, <1>4 DEF SoundDraft

\* A further lock is of a name of which the view is right.
LEMMA LockIsSound ==
  ASSUME SoundTables, NEW d, NEW H, SoundDraft(d, H), NEW k, k # NoSite
  PROVE  SoundDraft(d, H \cup {k})
<1>1. SoundRows(d, H \cup {k}) /\ SoundAliases(d, H \cup {k}) /\ SoundDrops(d, H \cup {k})
  BY DEF SoundDraft, SoundRows, SoundAliases, SoundDrops
<1>2. CASE k \in H
  <2>1. H \cup {k} = H
    BY <1>2
  <2>. QED  BY <2>1
<1>3. CASE k \notin H
  <2>1. \A i : Led(k, i) <=> Seen(d, k, i)
    BY <1>3, ViewIsRight
  <2>2. \A i : SeenAt(d, k, i) => i \in DOMAIN company /\ company[i].site = k
    <3>1. /\ DOMAIN RowsIn(d) = DOMAIN d.company \cup DOMAIN company
          /\ \A i \in DOMAIN RowsIn(d) : RowsIn(d)[i] = IF i \in DOMAIN d.company THEN d.company[i] ELSE company[i]
      BY Views
    <3>2. SoundRows(d, H)
      BY DEF SoundDraft
    <3>. QED  BY <1>3, <3>1, <3>2 DEF SeenAt, SoundRows
  <2>3. SoundView(d, H \cup {k})
    BY <2>1, <2>2 DEF SoundTables, SoundDraft, SoundView
  <2>. QED  BY <1>1, <2>3 DEF SoundDraft
<1>. QED  BY <1>2, <1>3

\* A session that has not begun to write.
LEMMA BeginKeeps ==
  ASSUME CInv, NEW a \in Actors, NEW new, IsTxn(new), txn' = [txn EXCEPT ![a] = new], Stays,
         new.pc \in {"idle", "keys", "record"}, new.held = {}, new.rows = {}, new.draft = NoDraft,
         new.keys \subseteq Nat, \A b \in Actors \ {a} : new.locked \cap txn[b].locked = {},
         new.pc = "keys" => \A c \in DOMAIN new.todo :
           /\ IdentityKeys({c}) \subseteq new.keys
           /\ new.todo[c].target \in DOMAIN company \cup {NoCompany}
           /\ new.todo[c].action \in {"link", "rename"} => new.todo[c].target \in DOMAIN company,
         a \in Ingesters => \A c, e \in DOMAIN new.todo : c = e,
         SoundWork(a, new)
  PROVE  CInv'
<1>1. SoundDraft(new.draft, new.held)
  BY EmptyDraft DEF CInv, NamesInv
<1>2. SoundLocks(a, new)
  BY DEF SoundLocks
<1>3. SoundWrites(a, new) /\ SoundRecords(a, new)
  BY DEF SoundWrites, SoundRecords, NoDraft
<1>4. SoundTxn(a, new)
  BY <1>1, <1>2, <1>3 DEF SoundTxn
<1>5. \A b \in Actors \ {a} : Apart(a, new, b, txn[b])
  BY DEF Apart, NoDraft
<1>. QED  BY <1>4, <1>5, LocalStep

LEMMA AbortKeeps ==
  ASSUME CInv, NEW a \in Actors, Goes(a, Idle)
  PROVE  CInv'
<1>1. /\ IsTxn(Idle) /\ Idle.pc = "idle" /\ Idle.held = {} /\ Idle.rows = {} /\ Idle.draft = NoDraft
      /\ Idle.keys = {} /\ Idle.locked = {} /\ DOMAIN Idle.todo = {}
  BY DEF Idle, IsTxn, IsDraft, NoDraft
<1>2. Stays /\ txn' = [txn EXCEPT ![a] = Idle]
  BY DEF Goes, Stays, CInv, Shape
<1>3. SoundWork(a, Idle)
  BY <1>1 DEF SoundWork
<1>. QED  BY <1>1, <1>2, <1>3, BeginKeeps

LEMMA RecordReviewKeeps ==
  ASSUME CInv, NEW g \in Ingesters, RecordReview(g)
  PROVE  CInv'
<1>1. /\ IsTxn(Idle) /\ Idle.pc = "idle" /\ Idle.held = {} /\ Idle.rows = {} /\ Idle.draft = NoDraft
      /\ Idle.keys = {} /\ Idle.locked = {} /\ DOMAIN Idle.todo = {}
  BY DEF Idle, IsTxn, IsDraft, NoDraft
<1>2. Stays /\ txn' = [txn EXCEPT ![g] = Idle] /\ g \in Actors
  BY DEF RecordReview, Stays, CInv, Shape, Undecided, Actors
<1>3. SoundWork(g, Idle)
  BY <1>1 DEF SoundWork
<1>. QED  BY <1>1, <1>2, <1>3, BeginKeeps

LEMMA AcquireKeyKeeps ==
  ASSUME CInv, NEW a \in Actors, AcquireKey(a)
  PROVE  CInv'
<1>. PICK t : t = txn[a]
  OBVIOUS
<1>0. PICK k \in t.keys : KeyFree(a, k) /\ Goes(a, [t EXCEPT !.keys = @ \ {k}, !.held = @ \cup {k}])
  BY DEF AcquireKey
<1>. PICK new : new = [t EXCEPT !.keys = @ \ {k}, !.held = @ \cup {k}]
  OBVIOUS
<1>1. SoundTxn(a, t) /\ IsTxn(t) /\ SoundTables
  BY DEF CInv, NamesInv, Shape
<1>2. /\ IsTxn(new) /\ new.pc = t.pc /\ new.todo = t.todo /\ new.locked = t.locked
      /\ new.keys = t.keys \ {k} /\ new.held = t.held \cup {k} /\ new.rows = t.rows /\ new.draft = t.draft
  BY <1>1 DEF IsTxn
<1>3. k # NoSite
  BY <1>1, IdentitiesAssumption DEF SoundTxn, SoundLocks
<1>4. SoundDraft(new.draft, new.held)
  BY <1>1, <1>2, <1>3, LockIsSound DEF SoundTxn
<1>5. SoundLocks(a, new)
  BY <1>1, <1>2 DEF SoundTxn, SoundLocks
<1>6. SoundWork(a, new)
  BY <1>1, <1>2 DEF SoundTxn, SoundWork
<1>7. SoundWrites(a, new)
  BY <1>1, <1>2 DEF SoundTxn, SoundWrites
<1>8. SoundRecords(a, new)
  BY <1>1, <1>2 DEF SoundTxn, SoundRecords
<1>9. \A b \in Actors \ {a} : Apart(a, new, b, txn[b])
  BY <1>0, <1>2 DEF CInv, NamesInv, Apart, KeyFree
<1>10. Stays /\ txn' = [txn EXCEPT ![a] = new]
  BY <1>0 DEF Goes, Stays, CInv, Shape
<1>11. SoundTxn(a, new)
  BY <1>4, <1>5, <1>6, <1>7, <1>8 DEF SoundTxn
<1>. QED  BY <1>2, <1>9, <1>10, <1>11, LocalStep

\* A call begins with the keys of what it has to do.
LEMMA CallKeeps ==
  ASSUME CInv, NEW a \in Actors, NEW new, Begins(a, new), IsTxn(new), new.pc = "keys",
         new.held = {}, new.rows = {}, new.draft = NoDraft,
         new.keys \subseteq Nat, IdentityKeys(DOMAIN new.todo) \subseteq new.keys,
         \A b \in Actors \ {a} : new.locked \cap txn[b].locked = {},
         DOMAIN new.todo \subseteq IF a \in Curators THEN Facts ELSE Found,
         a \in Ingesters => \A c, e \in DOMAIN new.todo : c = e,
         \A c \in DOMAIN new.todo :
           /\ new.todo[c].target \in DOMAIN company \cup {NoCompany}
           /\ new.todo[c].action \in {"link", "rename"} => new.todo[c].target \in DOMAIN company
           /\ a \in Reviewers => c \in new.locked /\ item[c].status = "review"
           /\ a \in Curators /\ new.todo[c].action = "auto" =>
                \A e \in DOMAIN new.todo : new.todo[e].action = "auto"
  PROVE  CInv'
<1>1. Stays /\ txn' = [txn EXCEPT ![a] = new]
  BY DEF Begins, Stays, CInv, Shape
<1>2. \A c \in DOMAIN new.todo : IdentityKeys({c}) \subseteq new.keys
  <2>1. DOMAIN new.todo \in SUBSET Identities
    BY DEF Identities
  <2>2. \A c \in DOMAIN new.todo : IdentityKeys({c}) \subseteq IdentityKeys(DOMAIN new.todo)
    BY <2>1, KeysOf
  <2>. QED  BY <2>2
<1>3. SoundWork(a, new)
  BY DEF SoundWork
<1>. QED  BY <1>1, <1>2, <1>3, BeginKeeps

\* The decisions of a call.
LEMMA BatchesOf ==
  ASSUME NEW S, NEW decisions, NEW ds \in Batches(S, decisions)
  PROVE  DOMAIN ds \subseteq S /\ \A c \in DOMAIN ds : ds[c] \in decisions
  BY DEF Batches

LEMMA StartReviewKeeps ==
  ASSUME CInv, NEW r \in Reviewers, StartReview(r)
  PROVE  CInv'
<1>0. PICK ds \in Batches(Found, Untargeted({"create", "reject"}) \cup Targeted({"link", "rename"})) :
        LET open == StillOpen(ds) IN
        /\ \A c \in DOMAIN ds : ItemFree(c)
        /\ Begins(r, [Idle EXCEPT !.pc = "keys", !.todo = [c \in open |-> ds[c]],
                                  !.locked = DOMAIN ds,
                                  !.keys = IdentityKeys(open) \cup UNION {LegalsOf[c] : c \in open}])
  BY DEF StartReview
<1>. PICK open : open = StillOpen(ds)
  OBVIOUS
<1>. PICK todo : todo = [c \in open |-> ds[c]]
  OBVIOUS
<1>. PICK keys : keys = IdentityKeys(open) \cup UNION {LegalsOf[c] : c \in open}
  OBVIOUS
<1>n. PICK new : new = [Idle EXCEPT !.pc = "keys", !.todo = todo, !.locked = DOMAIN ds, !.keys = keys]
  OBVIOUS
<1>1. /\ IsTxn(new) /\ new.pc = "keys" /\ new.todo = todo /\ new.locked = DOMAIN ds /\ new.keys = keys
      /\ new.held = {} /\ new.rows = {} /\ new.draft = NoDraft
  BY <1>n DEF IsTxn, IsDraft, Idle, NoDraft
<1>2. r \in Actors /\ r \notin Curators /\ r \notin Ingesters
  BY SessionsAssumption DEF Actors
<1>3. /\ DOMAIN ds \subseteq Found
      /\ \A c \in DOMAIN ds : ds[c] \in Untargeted({"create", "reject"}) \cup Targeted({"link", "rename"})
  BY BatchesOf
<1>4. DOMAIN todo = open /\ open \subseteq DOMAIN ds /\ \A c \in open : todo[c] = ds[c] /\ item[c].status = "review"
  BY DEF StillOpen
<1>5. \A c \in DOMAIN ds : /\ ds[c].target \in DOMAIN company \cup {NoCompany}
                           /\ ds[c].action \in {"link", "rename"} => ds[c].target \in DOMAIN company
  BY <1>3 DEF Untargeted, Targeted
<1>6. keys \subseteq Nat
  <2>1. open \in SUBSET Identities
    BY <1>3, <1>4 DEF Identities
  <2>. QED  BY <2>1, KeysOf, IdentitiesAssumption
<1>7. \A b \in Actors \ {r} : DOMAIN ds \cap txn[b].locked = {}
  BY <1>0 DEF ItemFree
<1>8. Begins(r, new)
  BY <1>0, <1>n
<1>. QED  BY <1>1, <1>2, <1>3, <1>4, <1>5, <1>6, <1>7, <1>8, CallKeeps

LEMMA StartManualKeeps ==
  ASSUME CInv, NEW k \in Curators, StartManual(k)
  PROVE  CInv'
<1>0. PICK ds \in Batches(Facts, Untargeted({"accept", "reject"}) \cup Targeted({"accept"})) :
        Begins(k, [Idle EXCEPT !.pc = "keys", !.todo = ds, !.keys = IdentityKeys(DOMAIN ds)])
  BY DEF StartManual
<1>n. PICK new : new = [Idle EXCEPT !.pc = "keys", !.todo = ds, !.keys = IdentityKeys(DOMAIN ds)]
  OBVIOUS
<1>1. /\ IsTxn(new) /\ new.pc = "keys" /\ new.todo = ds /\ new.locked = {}
      /\ new.keys = IdentityKeys(DOMAIN ds) /\ new.held = {} /\ new.rows = {} /\ new.draft = NoDraft
  BY <1>n DEF IsTxn, IsDraft, Idle, NoDraft
<1>2. k \in Actors /\ k \notin Reviewers /\ k \notin Ingesters
  BY SessionsAssumption DEF Actors
<1>3. /\ DOMAIN ds \subseteq Facts
      /\ \A c \in DOMAIN ds : ds[c] \in Untargeted({"accept", "reject"}) \cup Targeted({"accept"})
  BY BatchesOf
<1>4. \A c \in DOMAIN ds : /\ ds[c].target \in DOMAIN company \cup {NoCompany}
                           /\ ds[c].action \in {"accept", "reject"}
  BY <1>3 DEF Untargeted, Targeted
<1>5. IdentityKeys(DOMAIN ds) \subseteq Nat
  <2>1. DOMAIN ds \in SUBSET Identities
    BY <1>3 DEF Identities
  <2>. QED  BY <2>1, KeysOf
<1>6. Begins(k, new)
  BY <1>0, <1>n
<1>. QED  BY <1>1, <1>2, <1>3, <1>4, <1>5, <1>6, CallKeeps

LEMMA StartAutoKeeps ==
  ASSUME CInv, NEW k \in Curators, StartAuto(k)
  PROVE  CInv'
<1>. PICK todo : todo = [f \in UnderReview |-> [action |-> "auto", target |-> NoCompany]]
  OBVIOUS
<1>n. PICK new : new = [Idle EXCEPT !.pc = "keys", !.todo = todo, !.keys = IdentityKeys(UnderReview)]
  OBVIOUS
<1>1. /\ IsTxn(new) /\ new.pc = "keys" /\ new.todo = todo /\ new.locked = {}
      /\ new.keys = IdentityKeys(UnderReview) /\ new.held = {} /\ new.rows = {} /\ new.draft = NoDraft
  BY <1>n DEF IsTxn, IsDraft, Idle, NoDraft
<1>2. k \in Actors /\ k \notin Reviewers /\ k \notin Ingesters
  BY SessionsAssumption DEF Actors
<1>3. /\ DOMAIN todo = UnderReview /\ UnderReview \subseteq Facts
      /\ \A f \in UnderReview : todo[f].action = "auto" /\ todo[f].target = NoCompany
  BY DEF UnderReview
<1>4. IdentityKeys(UnderReview) \subseteq Nat
  <2>1. UnderReview \in SUBSET Identities
    BY <1>3 DEF Identities
  <2>. QED  BY <2>1, KeysOf
<1>5. Begins(k, new)
  BY <1>n DEF StartAuto
<1>. QED  BY <1>1, <1>2, <1>3, <1>4, <1>5, CallKeeps

LEMMA ResolveKeeps ==
  ASSUME CInv, NEW g \in Ingesters, Resolve(g)
  PROVE  CInv'
<1>0. PICK c \in Found :
        LET persists(i) == [Idle EXCEPT !.pc = "keys", !.todo = With(@, c, [action |-> "persist", target |-> i]),
                                        !.keys = IdentityKeys({c})]
            records == [Idle EXCEPT !.pc = "record", !.todo = With(@, c, NoDecision)] IN
        \/ \E i \in NameOwners(NoDraft, c) \cup {NoCompany} : Begins(g, persists(i))
        \/ Begins(g, records)
  BY DEF Resolve
<1>1. g \in Actors /\ g \notin Reviewers /\ g \notin Curators /\ {c} \in SUBSET Identities
  BY SessionsAssumption DEF Actors, Identities
<1>2. DOMAIN Idle.todo = {}
  BY DEF Idle
<1>3. ASSUME NEW i \in NameOwners(NoDraft, c) \cup {NoCompany},
             Begins(g, [Idle EXCEPT !.pc = "keys", !.todo = With(@, c, [action |-> "persist", target |-> i]),
                                    !.keys = IdentityKeys({c})])
      PROVE  CInv'
  <2>. PICK todo : todo = With(Idle.todo, c, [action |-> "persist", target |-> i])
    OBVIOUS
  <2>n. PICK new : new = [Idle EXCEPT !.pc = "keys", !.todo = With(@, c, [action |-> "persist", target |-> i]),
                                      !.keys = IdentityKeys({c})]
    OBVIOUS
  <2>1. /\ IsTxn(new) /\ new.pc = "keys" /\ new.todo = todo /\ new.locked = {}
        /\ new.keys = IdentityKeys({c}) /\ new.held = {} /\ new.rows = {} /\ new.draft = NoDraft
    BY <2>n DEF IsTxn, IsDraft, Idle, NoDraft
  <2>2. DOMAIN todo = {c} /\ todo[c].action = "persist" /\ todo[c].target = i
    BY <1>2 DEF With
  <2>3. i \in DOMAIN company \cup {NoCompany}
    <3>1. SoundTables /\ NoSite \notin {}
      BY DEF CInv, NamesInv
    <3>2. SoundDraft(NoDraft, {})
      BY <3>1, EmptyDraft
    <3>3. i # NoCompany => i \in DOMAIN RowsIn(NoDraft)
      BY <3>1, <3>2, OwnersSeen, SeenIsRow
    <3>4. DOMAIN RowsIn(NoDraft) = DOMAIN company
      BY DEF RowsIn, Over, NoDraft
    <3>. QED  BY <3>3, <3>4
  <2>4. IdentityKeys({c}) \subseteq Nat
    BY <1>1, KeysOf
  <2>5. Begins(g, new)
    BY <1>3, <2>n
  <2>6. /\ IdentityKeys(DOMAIN new.todo) \subseteq new.keys /\ new.keys \subseteq Nat
        /\ DOMAIN new.todo \subseteq IF g \in Curators THEN Facts ELSE Found
        /\ \A x, e \in DOMAIN new.todo : x = e
    BY <1>1, <2>1, <2>2, <2>4, SMTT(30)
  <2>7. \A x \in DOMAIN new.todo :
          /\ new.todo[x].target \in DOMAIN company \cup {NoCompany}
          /\ new.todo[x].action = "persist"
    BY <2>1, <2>2, <2>3
  <2>8. \A b \in Actors \ {g} : new.locked \cap txn[b].locked = {}
    BY <2>1
  <2>. QED  BY <1>1, <2>1, <2>5, <2>6, <2>7, <2>8, CallKeeps
<1>4. ASSUME Begins(g, [Idle EXCEPT !.pc = "record", !.todo = With(@, c, NoDecision)])
      PROVE  CInv'
  <2>. PICK todo : todo = With(Idle.todo, c, NoDecision)
    OBVIOUS
  <2>n. PICK new : new = [Idle EXCEPT !.pc = "record", !.todo = With(@, c, NoDecision)]
    OBVIOUS
  <2>1. /\ IsTxn(new) /\ new.pc = "record" /\ new.todo = todo /\ new.locked = {}
        /\ new.keys = {} /\ new.held = {} /\ new.rows = {} /\ new.draft = NoDraft
    BY <2>n DEF IsTxn, IsDraft, Idle, NoDraft
  <2>2. DOMAIN todo = {c}
    BY <1>2 DEF With
  <2>3. SoundWork(g, new)
    BY <1>1, <2>1, <2>2 DEF SoundWork
  <2>4. Stays /\ txn' = [txn EXCEPT ![g] = new]
    BY <1>4, <2>n DEF Begins, Stays, CInv, Shape
  <2>5. /\ \A x, e \in DOMAIN new.todo : x = e
        /\ \A b \in Actors \ {g} : new.locked \cap txn[b].locked = {}
    BY <2>1, <2>2
  <2>. QED  BY <1>1, <2>1, <2>3, <2>4, <2>5, BeginKeeps
<1>. QED  BY <1>0, <1>3, <1>4

\* Who has nothing to do is sound whatever the tables are.
LEMMA IdleNext ==
  ASSUME SoundTables', NEW a
  PROVE  SoundTxn(a, Idle)'
<1>. PICK t : t = Idle
  OBVIOUS
<1>1. /\ t.pc = "idle" /\ t.keys = {} /\ t.held = {} /\ t.rows = {} /\ t.locked = {} /\ DOMAIN t.todo = {}
      /\ DOMAIN t.draft.company = {} /\ DOMAIN t.draft.alias = {} /\ DOMAIN t.draft.record = {}
      /\ t.draft.dropped = {} /\ t.draft = NoDraft
  BY DEF Idle, NoDraft
<1>2. /\ DOMAIN RowsIn(t.draft)' = DOMAIN company'
      /\ \A x \in DOMAIN company' : RowsIn(t.draft)'[x] = company'[x]
  BY <1>1 DEF RowsIn, Over
<1>3. SoundRows(t.draft, t.held)' /\ SoundAliases(t.draft, t.held)' /\ SoundDrops(t.draft, t.held)'
  BY <1>1 DEF SoundRows, SoundAliases, SoundDrops
<1>4. OneRowPerName(RowsIn(t.draft))'
  BY <1>2 DEF SoundTables, OneRowPerName
<1>5. SoundView(t.draft, t.held)'
  BY <1>1, <1>4 DEF SoundView
<1>6. SoundLocks(a, t)' /\ SoundWork(a, t)'
  BY <1>1 DEF SoundLocks, SoundWork
<1>7. SoundWrites(a, t)' /\ SoundRecords(a, t)'
  BY <1>1 DEF SoundWrites, SoundRecords
<1>8. SoundTxn(a, t)'
  BY <1>3, <1>5, <1>6, <1>7 DEF SoundTxn, SoundDraft
<1>. QED  BY <1>8

\* The tables grow; what the transaction t has locked stays as it is.
LEMMA OtherKeeps ==
  ASSUME NEW b \in Actors, NEW t, SoundTxn(b, t), SoundDraft(t.draft, t.held)',
         \A n \in t.held : \A i : Seen(t.draft, n, i) => Seen(t.draft, n, i)',
         DOMAIN company \subseteq DOMAIN company',
         \A i \in DOMAIN t.draft.company : i \in DOMAIN company' <=> i \in DOMAIN company,
         \A c \in Found \cap t.locked : item'[c] = item[c],
         \A f \in Facts : NameOf[f] \in t.held => fact'[f] = fact[f]
  PROVE  SoundTxn(b, t)'
<1>1. SoundLocks(b, t)'
  BY DEF SoundTxn, SoundLocks
<1>2. SoundWork(b, t)'
  <2>1. ASSUME NEW c \in DOMAIN t.todo, b \in Curators, t.pc = "work"
        PROVE  fact'[c] = fact[c]
    <3>1. c \in Facts /\ IdentityKeys({c}) \subseteq t.held
      BY <2>1 DEF SoundTxn, SoundWork, SoundLocks
    <3>2. NameOf[c] \in IdentityKeys({c})
      <4>1. {c} \in SUBSET Identities
        BY <3>1 DEF Identities
      <4>. QED  BY <4>1, KeysOf DEF NamesOf
    <3>. QED  BY <3>1, <3>2
  <2>2. ASSUME NEW c \in DOMAIN t.todo, b \in Reviewers
        PROVE  c \in Found \cap t.locked /\ item'[c].status = "review"
    BY <2>2, SessionsAssumption DEF SoundTxn, SoundWork
  <2>. QED  BY <2>1, <2>2 DEF SoundTxn, SoundWork
<1>3. SoundWrites(b, t)'
  BY DEF SoundTxn, SoundWrites
<1>4. SoundRecords(b, t)'
  <2>. SUFFICES ASSUME NEW c \in DOMAIN t.draft.record
                PROVE  /\ b \notin Ingesters /\ NamesOf(c) \subseteq t.held
                       /\ IF b \in Reviewers THEN c \in Found \cap t.locked /\ item'[c].status = "review"
                          ELSE c \in Facts /\ fact'[c] = Undecided
                       /\ t.draft.record[c].status \in {"accepted", "rejected"}
                       /\ t.draft.record[c].status = "accepted" =>
                            \A n \in NamesOf(c) : Seen(t.draft, n, t.draft.record[c].company)'
    BY DEF SoundRecords
  <2>1. NameOf[c] \in NamesOf(c)
    BY DEF NamesOf
  <2>. QED  BY <2>1 DEF SoundTxn, SoundRecords
<1>. QED  BY <1>1, <1>2, <1>3, <1>4 DEF SoundTxn

\* What DecisionsLast says, but for what the invariant says already.
Lasts ==
  /\ \A n, i : Led(n, i) => Led(n, i)'
  /\ \A c \in Found : item[c].status \in {"accepted", "rejected"} => item'[c] = item[c]
  /\ \A f \in Facts : fact[f] # Undecided => fact'[f] = fact[f]

LEMMA CommitKeeps ==
  ASSUME CInv, NEW a \in Actors, Commit(a)
  PROVE  CInv' /\ Lasts
<1>. PICK t : t = txn[a]
  OBVIOUS
<1>. PICK e : e = t.draft
  OBVIOUS
<1>1. /\ SoundTxn(a, t) /\ SoundTables /\ SoundFile /\ SoundDraft(e, t.held)
      /\ item = [c \in Found |-> item[c]] /\ fact = [f \in Facts |-> fact[f]]
  BY DEF CInv, NamesInv, Shape, SoundTxn
<1>2. Commits(e) /\ txn' = [txn EXCEPT ![a] = Idle]
  BY DEF Commit, Commits
<1>3. /\ item' = [c \in Found |-> item'[c]] /\ fact' = [f \in Facts |-> fact'[f]]
      /\ \A c \in Found : item'[c] = IF c \in DOMAIN e.record THEN e.record[c] ELSE item[c]
      /\ \A f \in Facts : fact'[f] = IF f \in DOMAIN e.record THEN e.record[f] ELSE fact[f]
  BY <1>1 DEF Commit, ItemsIn, FactsIn, Over
<1>4. /\ DOMAIN company' = DOMAIN e.company \cup DOMAIN company
      /\ \A n, i : Led(n, i)' <=> Seen(e, n, i)
  BY <1>2, CommittedTables
<1>5. SoundTables'
  <2>1. DOMAIN e.company \subseteq Companies
    BY <1>1 DEF SoundTxn, SoundWrites, SoundTables, Companies
  <2>. QED  BY <1>1, <1>2, <2>1, CommitKeepsTables
<1>6. \A c \in DOMAIN e.record :
        /\ NamesOf(c) \subseteq t.held /\ e.record[c].status \in {"accepted", "rejected"}
        /\ e.record[c].status = "accepted" => \A n \in NamesOf(c) : Seen(e, n, e.record[c].company)
        /\ c \in Found => c \in t.locked
  BY <1>1, IdentitiesAssumption DEF SoundTxn, SoundRecords
<1>7. SoundFile'
  <2>1. \A n, i : Led(n, i) => Led(n, i)'
    BY <1>1, <1>4, ViewIsRight
  <2>2. ASSUME NEW c \in Found, item'[c].status = "accepted", NEW n \in NamesOf(c),
              NEW i, i = item'[c].company
       PROVE  Led(n, i)'
    <3>1. CASE c \in DOMAIN e.record
      BY <1>3, <1>4, <1>6, <2>2, <3>1
    <3>2. CASE c \notin DOMAIN e.record
      BY <1>1, <1>3, <2>1, <2>2, <3>2 DEF SoundFile
    <3>. QED  BY <3>1, <3>2
  <2>3. ASSUME NEW f \in Facts, fact'[f].status = "accepted", NEW n \in NamesOf(f),
              NEW i, i = fact'[f].company
       PROVE  Led(n, i)'
    <3>1. CASE f \in DOMAIN e.record
      BY <1>3, <1>4, <1>6, <2>3, <3>1
    <3>2. CASE f \notin DOMAIN e.record
      BY <1>1, <1>3, <2>1, <2>3, <3>2 DEF SoundFile
    <3>. QED  BY <3>1, <3>2
  <2>4. \A f \in Facts : fact'[f].status = "review" => fact'[f] = Undecided
    BY <1>1, <1>3, <1>6 DEF SoundFile
  <2>5. \A c \in Found : item'[c].status = "accepted" => \A n \in NamesOf(c) :
          \A i : i = item'[c].company => Led(n, i)'
    BY <2>2
  <2>6. \A f \in Facts : fact'[f].status = "accepted" => \A n \in NamesOf(f) :
          \A i : i = fact'[f].company => Led(n, i)'
    BY <2>3
  <2>. QED  BY <2>4, <2>5, <2>6 DEF SoundFile, Led, Leads, NamesOf
<1>8. ASSUME NEW b \in Actors \ {a}, NEW u, u = txn[b]
      PROVE  SoundTxn(b, u)'
  <2>1. SoundTxn(b, u) /\ Apart(a, t, b, u)
    BY <1>8 DEF CInv, NamesInv
  <2>2. /\ SoundDraft(u.draft, u.held)'
        /\ \A n \in u.held : \A i : Seen(u.draft, n, i) => Seen(u.draft, n, i)'
    <3>. PICK d : d = u.draft
      OBVIOUS
    <3>1. /\ SoundDraft(d, u.held) /\ u.held \subseteq Nat /\ u.held \cap t.held = {}
          /\ DOMAIN d.company \cap DOMAIN e.company = {} /\ DOMAIN d.alias \cap DOMAIN e.alias = {}
      BY <2>1 DEF SoundTxn, SoundLocks, Apart
    <3>2. /\ SoundDraft(d, u.held)'
          /\ \A n \in u.held : \A i : Seen(d, n, i) => Seen(d, n, i)'
      BY <1>1, <1>2, <3>1, CommitKeepsDrafts
    <3>. QED  BY <3>2
  <2>3. \A i \in DOMAIN u.draft.company : i \in DOMAIN company' <=> i \in DOMAIN company
    BY <1>4, <2>1 DEF Apart
  <2>4. \A c \in Found \cap u.locked : item'[c] = item[c]
    BY <1>3, <1>6, <2>1 DEF Apart
  <2>5. \A f \in Facts : NameOf[f] \in u.held => fact'[f] = fact[f]
    BY <1>3, <1>6, <2>1 DEF Apart, NamesOf
  <2>. QED  BY <1>4, <2>1, <2>2, <2>3, <2>4, <2>5, OtherKeeps
<1>9. \A b \in Actors \ {a} : Apart(a, Idle, b, txn[b])
  BY DEF Apart, Idle, NoDraft
<1>10. IsTxn(Idle)
  BY DEF IsTxn, IsDraft, Idle, NoDraft
<1>11. SoundTxn(a, Idle)'
  BY <1>5, IdleNext
<1>12. CInv'
  BY <1>2, <1>3, <1>5, <1>7, <1>8, <1>9, <1>10, <1>11, StepComposes
<1>13. Lasts
  <2>1. \A n, i : Led(n, i) => Led(n, i)'
    BY <1>1, <1>4, ViewIsRight
  <2>2. \A c \in DOMAIN e.record : /\ c \in Found => item[c].status = "review"
                                   /\ c \in Facts => fact[c] = Undecided
    BY <1>1, IdentitiesAssumption DEF SoundTxn, SoundRecords
  <2>. QED  BY <1>3, <2>1, <2>2 DEF Lasts
<1>. QED  BY <1>12, <1>13

LEMMA RowImportedKeeps ==
  ASSUME CInv, NEW i, NEW n \in Nat, NEW site, RowImported(i, n, site),
         item' = item, fact' = fact, txn' = txn,
         \A a \in Actors : i \notin DOMAIN txn[a].draft.company,
         i \notin DOMAIN company =>
           \A a \in Actors : \A x \in DOMAIN txn[a].draft.company : txn[a].draft.company[x].name # n
  PROVE  CInv' /\ Lasts
<1>1. SoundTables /\ SoundFile
  BY DEF CInv, NamesInv
<1>2. SoundTables' /\ \A m, x : Led(m, x) => Led(m, x)'
  BY <1>1, ImportKeepsTables
<1>3. SoundFile'
  <2>1. \A c \in Found : item'[c].status = "accepted" => \A m \in NamesOf(c) :
          \A x : x = item'[c].company => Led(m, x)'
    BY <1>1, <1>2 DEF SoundFile
  <2>2. \A f \in Facts : fact'[f].status = "accepted" => \A m \in NamesOf(f) :
          \A x : x = fact'[f].company => Led(m, x)'
    BY <1>1, <1>2 DEF SoundFile
  <2>3. \A f \in Facts : fact'[f].status = "review" => fact'[f] = Undecided
    BY <1>1 DEF SoundFile
  <2>. QED  BY <2>1, <2>2, <2>3 DEF SoundFile, Led, Leads, NamesOf
<1>4. ASSUME NEW b \in Actors PROVE SoundTxn(b, txn[b])'
  <2>. PICK u : u = txn[b]
    OBVIOUS
  <2>. PICK d : d = u.draft
    OBVIOUS
  <2>1. SoundTxn(b, u) /\ SoundDraft(d, u.held) /\ u.held \subseteq Nat
    BY DEF CInv, NamesInv, SoundTxn, SoundLocks
  <2>2. i \notin DOMAIN d.company /\ (i \notin DOMAIN company => \A x \in DOMAIN d.company : d.company[x].name # n)
    OBVIOUS
  <2>3. /\ SoundDraft(d, u.held)'
        /\ \A m, x : Seen(d, m, x) => Seen(d, m, x)'
    BY <1>1, <2>1, <2>2, ImportKeepsDrafts
  <2>4. /\ SoundDraft(u.draft, u.held)'
        /\ \A m \in u.held : \A x : Seen(u.draft, m, x) => Seen(u.draft, m, x)'
    BY <2>3
  <2>5. /\ DOMAIN company \subseteq DOMAIN company'
        /\ \A x \in DOMAIN u.draft.company : x \in DOMAIN company' <=> x \in DOMAIN company
    BY <2>2 DEF RowImported
  <2>6. SoundTxn(b, u)'
    BY <2>1, <2>4, <2>5, OtherKeeps
  <2>. QED  BY <2>6, AtTxn
<1>5. \A a, b \in Actors : a # b => Apart(a, txn[a], b, txn[b])'
  BY DEF CInv, NamesInv, Apart, Excludes
<1>6. Shape'
  BY DEF CInv, Shape, IsTxn, IsDraft
<1>7. Lasts
  BY <1>2 DEF Lasts
<1>. QED  BY <1>2, <1>3, <1>4, <1>5, <1>6, <1>7 DEF CInv, NamesInv

LEMMA ImportKeeps ==
  ASSUME CInv, NEW n \in Imports, Import(n) \/ ImportPilot(n)
  PROVE  CInv' /\ Lasts
<1>1. n \in Nat /\ n # NoSite
  BY IdentitiesAssumption
<1>2. ASSUME NEW site, Creates(n, site), alias' = alias, item' = item, fact' = fact, txn' = txn,
             imported \cup ({n, site} \ {NoSite}) \subseteq imported'
      PROVE  CInv' /\ Lasts
  <2>1. PICK i \in Companies : Free(i) /\ company' = With(company, i, [name |-> n, site |-> site])
    BY <1>2 DEF Creates
  <2>2. i \notin DOMAIN company /\ \A a \in Actors : i \notin DOMAIN txn[a].draft.company
    BY <2>1 DEF Free
  <2>3. RowImported(i, n, site)
    BY <1>2, <2>1, <2>2 DEF RowImported, With, Creates
  <2>. QED  BY <1>1, <1>2, <2>2, <2>3, RowImportedKeeps DEF Creates
<1>3. ASSUME NEW i \in DOMAIN company, company[i].name = n, \A a \in Actors : i \notin txn[a].rows,
             NEW site, company' = With(company, i, [name |-> n, site |-> site]),
             alias' = alias, item' = item, fact' = fact, txn' = txn,
             imported \cup ({n, site} \ {NoSite}) \subseteq imported'
      PROVE  CInv' /\ Lasts
  <2>1. \A a \in Actors : i \notin DOMAIN txn[a].draft.company
    <3>. SUFFICES ASSUME NEW a \in Actors PROVE i \notin DOMAIN txn[a].draft.company
      OBVIOUS
    <3>1. SoundWrites(a, txn[a])
      BY DEF CInv, NamesInv, SoundTxn
    <3>. QED  BY <1>3, <3>1 DEF SoundWrites
  <2>2. RowImported(i, n, site)
    BY <1>3 DEF RowImported, With
  <2>. QED  BY <1>1, <1>3, <2>1, <2>2, RowImportedKeeps
<1>4. CASE Import(n)
  BY <1>2, <1>4 DEF Import
<1>5. CASE ImportPilot(n)
  <2>. PICK site : site = PilotSiteOf[n]
    OBVIOUS
  <2>1. alias' = alias /\ item' = item /\ fact' = fact /\ txn' = txn
        /\ imported \cup ({n, site} \ {NoSite}) \subseteq imported'
    BY <1>5 DEF ImportPilot
  <2>2. CASE Creates(n, site)
    BY <1>2, <2>1, <2>2
  <2>3. CASE ~Creates(n, site)
    BY <1>3, <1>5, <2>1, <2>3 DEF ImportPilot
  <2>. QED  BY <2>2, <2>3
<1>. QED  BY <1>4, <1>5

-----------------------------------------------------------------------------
(* The invariant and what follows from it.                                 *)

LEMMA InitIsSound == Init => CInv
<1>. SUFFICES ASSUME Init PROVE CInv
  OBVIOUS
<1>1. /\ DOMAIN company = {} /\ DOMAIN alias = {} /\ txn = [a \in Actors |-> Idle]
      /\ item = [c \in Found |-> [Undecided EXCEPT !.status = "absent"]]
      /\ fact = [f \in Facts |-> Undecided]
  BY DEF Init
<1>2. SoundTables
  BY <1>1 DEF SoundTables, OneRowPerName, Led, Leads
<1>3. SoundFile
  BY <1>1 DEF SoundFile, Undecided
<1>4. /\ IsTxn(Idle) /\ Idle.pc = "idle" /\ Idle.held = {} /\ Idle.rows = {} /\ Idle.draft = NoDraft
      /\ Idle.keys = {} /\ Idle.locked = {} /\ DOMAIN Idle.todo = {}
      /\ DOMAIN NoDraft.company = {} /\ DOMAIN NoDraft.alias = {} /\ DOMAIN NoDraft.record = {}
  BY DEF IsTxn, IsDraft, Idle, NoDraft
<1>5. \A a \in Actors : SoundTxn(a, Idle)
  <2>1. SoundDraft(NoDraft, {})
    BY <1>2, EmptyDraft
  <2>. QED  BY <1>4, <2>1 DEF SoundTxn, SoundLocks, SoundWork, SoundWrites, SoundRecords
<1>6. \A a, b \in Actors : Apart(a, Idle, b, Idle)
  BY <1>4 DEF Apart
<1>7. Shape
  BY <1>1, <1>4 DEF Shape
<1>. QED  BY <1>1, <1>2, <1>3, <1>5, <1>6, <1>7 DEF CInv, NamesInv

LEMMA NextIsSound == CInv /\ [Next]_vars => CInv'
<1>. SUFFICES ASSUME CInv, [Next]_vars PROVE CInv'
  OBVIOUS
<1>1. CASE \E r \in Reviewers : ReviewerStep(r)
  <2>. PICK r \in Reviewers : ReviewerStep(r)
    BY <1>1
  <2>1. CASE StartReview(r)
    BY <2>1, StartReviewKeeps
  <2>2. CASE LockCompanies(r)
    BY <2>2, LockCompaniesKeeps
  <2>3. ASSUME NEW c \in Found, Reject(r, c)
        PROVE  CInv'
    BY <2>3, RejectKeeps
  <2>4. ASSUME NEW c \in Found, CreateNew(r, c)
        PROVE  CInv'
    BY <2>4, CreateNewKeeps
  <2>5. ASSUME NEW c \in Found, LinkAsAlias(r, c)
        PROVE  CInv'
    BY <2>5, LinkAsAliasKeeps
  <2>6. ASSUME NEW c \in Found, RenameCanonical(r, c)
        PROVE  CInv'
    BY <2>6, RenameCanonicalKeeps
  <2>. QED  BY <2>1, <2>2, <2>3, <2>4, <2>5, <2>6 DEF ReviewerStep
<1>2. CASE \E k \in Curators : CuratorStep(k)
  <2>. PICK k \in Curators : CuratorStep(k)
    BY <1>2
  <2>1. CASE StartManual(k)
    BY <2>1, StartManualKeeps
  <2>2. CASE StartAuto(k)
    BY <2>2, StartAutoKeeps
  <2>3. CASE Refresh(k)
    BY <2>3, RefreshKeeps
  <2>4. ASSUME NEW f \in Facts, ReplayReview(k, f)
        PROVE  CInv'
    BY <2>4, ReplayReviewKeeps
  <2>5. ASSUME NEW f \in Facts, RejectFact(k, f)
        PROVE  CInv'
    BY <2>5, RejectFactKeeps
  <2>6. ASSUME NEW f \in Facts, AcceptFact(k, f)
        PROVE  CInv'
    BY <2>6, AcceptFactKeeps
  <2>7. ASSUME NEW f \in Facts, KeepForReview(k, f)
        PROVE  CInv'
    BY <2>7, KeepForReviewKeeps
  <2>8. ASSUME NEW f \in Facts, AcceptGroup(k, f)
        PROVE  CInv'
    BY <2>8, AcceptGroupKeeps
  <2>. QED  BY <2>1, <2>2, <2>3, <2>4, <2>5, <2>6, <2>7, <2>8 DEF CuratorStep
<1>3. CASE \E g \in Ingesters : IngesterStep(g)
  <2>. PICK g \in Ingesters : IngesterStep(g)
    BY <1>3
  <2>1. CASE Resolve(g)
    BY <2>1, ResolveKeeps
  <2>2. CASE RecordReview(g)
    BY <2>2, RecordReviewKeeps
  <2>3. ASSUME NEW c \in Found, UpsertCompany(g, c)
        PROVE  CInv'
    BY <2>3, UpsertCompanyKeeps
  <2>4. ASSUME NEW c \in Found, UpsertFilings(g, c)
        PROVE  CInv'
    BY <2>4, UpsertFilingsKeeps
  <2>. QED  BY <2>1, <2>2, <2>3, <2>4 DEF IngesterStep
<1>4. CASE \E a \in Actors : AcquireKey(a) \/ Commit(a) \/ Abort(a)
  BY <1>4, AcquireKeyKeeps, CommitKeeps, AbortKeeps DEF Abort
<1>5. CASE \E n \in Imports : Import(n) \/ ImportPilot(n)
  BY <1>5, ImportKeeps
<1>6. CASE UNCHANGED vars
  <2>1. /\ item' = item /\ fact' = fact /\ txn' = txn /\ company' = company /\ alias' = alias
        /\ imported' = imported
    BY <1>6 DEF vars
  <2>2. Stays
    BY <2>1 DEF Stays, CInv, Shape
  <2>3. SoundTables'
    BY <2>1 DEF CInv, NamesInv, SoundTables, OneRowPerName, Led, Leads
  <2>4. SoundFile'
    BY <2>1 DEF CInv, NamesInv, SoundFile, Led, Leads
  <2>5. ASSUME NEW b \in Actors PROVE SoundTxn(b, txn[b])'
    <3>. PICK t : t = txn[b]
      OBVIOUS
    <3>1. SoundTxn(b, t)
      BY DEF CInv, NamesInv
    <3>2. SoundTxn(b, t)'
      BY <2>2, <3>1, StaysSound
    <3>. QED  BY <2>1, <3>2, AtTxn
  <2>6. \A a, b \in Actors : a # b => Apart(a, txn[a], b, txn[b])'
    BY <2>1 DEF CInv, NamesInv, Apart, Excludes
  <2>7. Shape'
    BY <2>1 DEF CInv, Shape, IsTxn, IsDraft
  <2>. QED  BY <2>3, <2>4, <2>5, <2>6, <2>7 DEF CInv, NamesInv
<1>. QED  BY <1>1, <1>2, <1>3, <1>4, <1>5, <1>6 DEF Next

\* What the sessions hold and see is sound in every reachable state.
THEOREM Invariant == Spec => []CInv
  BY InitIsSound, NextIsSound, PTL DEF Spec

\* Whom a name leads to is whom the audit finds.
LEMMA OwnersLed ==
  ASSUME NEW n
  PROVE  /\ \A i : i \in Owners(n) <=> Led(n, i)
         /\ n \in Names => \E i : Led(n, i)
  BY DEF Owners, Owning, Names, Led, Leads

\* No name belongs to two companies, whoever creates, links, renames and
\* resolves at the same time: what OneOwnerPerName says, for any sessions.
THEOREM NamesOwned == Spec => []OneOwnerPerName
<1>1. CInv => OneOwnerPerName
  <2>. SUFFICES ASSUME CInv, NEW n \in Names \ imported
                PROVE  Cardinality(Owners(n)) = 1
    BY DEF OneOwnerPerName
  <2>1. PICK i : Led(n, i)
    BY OwnersLed
  <2>2. \A j : Led(n, j) => j = i
    BY <2>1 DEF CInv, NamesInv, SoundTables
  <2>3. Owners(n) = {i}
    BY <2>1, <2>2, OwnersLed
  <2>. QED  BY <2>3, FS_Singleton
<1>. QED  BY <1>1, Invariant, PTL

\* The audit has nothing to report after any interleaving: AuditIsClean.
THEOREM AuditFindsNothing == Spec => []AuditIsClean
<1>1. CInv => AuditIsClean
  <2>. SUFFICES ASSUME CInv PROVE AuditIsClean
    OBVIOUS
  <2>1. SoundTables /\ SoundFile
    BY DEF CInv, NamesInv
  <2>2. CrossTableNames \subseteq imported
    <3>1. \A n \in DOMAIN alias : Led(n, alias[n])
      BY DEF Led, Leads
    <3>2. \A i \in DOMAIN company : Led(company[i].name, i)
      BY DEF Led, Leads
    <3>. QED  BY <2>1, <3>1, <3>2 DEF SoundTables, CrossTableNames
  <2>3. SharedWebsites \subseteq imported
    BY <2>1 DEF SoundTables, SharedWebsites
  <2>4. OrphanAliases = {}
    BY <2>1 DEF SoundTables, OrphanAliases
  <2>5. Unrepresented = {}
    BY <2>1, OwnersLed DEF SoundFile, Unrepresented
  <2>. QED  BY <2>2, <2>3, <2>4, <2>5 DEF AuditIsClean
<1>. QED  BY <1>1, Invariant, PTL

\* Most steps write no table.
LEMMA WritesNoTable ==
  ASSUME NEW a, NEW state
  PROVE  /\ Begins(a, state) => Lasts
         /\ Goes(a, state) => Lasts
         /\ \A done, e, rows : Works(a, done, e, rows) => Lasts
  BY DEF Begins, Goes, Works, Lasts, Led, Leads

LEMMA NextLasts == CInv /\ [Next]_vars => Lasts
<1>. SUFFICES ASSUME CInv, [Next]_vars PROVE Lasts
  OBVIOUS
<1>1. CASE company' = company /\ alias' = alias /\ item' = item /\ fact' = fact
  BY <1>1 DEF Lasts, Led, Leads
<1>2. ASSUME NEW g \in Ingesters, RecordReview(g)
      PROVE  Lasts
  <2>1. /\ company' = company /\ alias' = alias /\ fact' = fact
        /\ \A c \in Found : item[c].status # "absent" => item'[c] = item[c]
    BY <1>2 DEF RecordReview, CInv, Shape
  <2>. QED  BY <2>1 DEF Lasts, Led, Leads
<1>3. ASSUME NEW a \in Actors, Commit(a)
      PROVE  Lasts
  BY <1>3, CommitKeeps
<1>4. ASSUME NEW n \in Imports, Import(n) \/ ImportPilot(n)
      PROVE  Lasts
  BY <1>4, ImportKeeps
<1>5. CASE \E r \in Reviewers : ReviewerStep(r)
  <2>. PICK r \in Reviewers : ReviewerStep(r)
    BY <1>5
  <2>1. StartReview(r) => Lasts
    BY WritesNoTable DEF StartReview
  <2>2. LockCompanies(r) => Lasts
    BY WritesNoTable DEF LockCompanies
  <2>3. ASSUME NEW c \in Found, Reject(r, c)
        PROVE  Lasts
    BY <2>3, WritesNoTable DEF Reject
  <2>4. ASSUME NEW c \in Found, CreateNew(r, c)
        PROVE  Lasts
    BY <2>4, WritesNoTable DEF CreateNew
  <2>5. ASSUME NEW c \in Found, LinkAsAlias(r, c)
        PROVE  Lasts
    BY <2>5, WritesNoTable DEF LinkAsAlias
  <2>6. ASSUME NEW c \in Found, RenameCanonical(r, c)
        PROVE  Lasts
    BY <2>6, WritesNoTable DEF RenameCanonical
  <2>. QED  BY <2>1, <2>2, <2>3, <2>4, <2>5, <2>6 DEF ReviewerStep
<1>6. CASE \E k \in Curators : CuratorStep(k)
  <2>. PICK k \in Curators : CuratorStep(k)
    BY <1>6
  <2>1. StartManual(k) => Lasts
    BY WritesNoTable DEF StartManual
  <2>2. StartAuto(k) => Lasts
    BY WritesNoTable DEF StartAuto
  <2>3. Refresh(k) => Lasts
    BY WritesNoTable DEF Refresh
  <2>4. ASSUME NEW f \in Facts, ReplayReview(k, f)
        PROVE  Lasts
    BY <2>4, WritesNoTable DEF ReplayReview
  <2>5. ASSUME NEW f \in Facts, RejectFact(k, f)
        PROVE  Lasts
    BY <2>5, WritesNoTable DEF RejectFact
  <2>6. ASSUME NEW f \in Facts, AcceptFact(k, f)
        PROVE  Lasts
    BY <2>6, WritesNoTable DEF AcceptFact
  <2>7. ASSUME NEW f \in Facts, KeepForReview(k, f)
        PROVE  Lasts
    BY <2>7, WritesNoTable DEF KeepForReview
  <2>8. ASSUME NEW f \in Facts, AcceptGroup(k, f)
        PROVE  Lasts
    BY <2>8, WritesNoTable DEF AcceptGroup
  <2>. QED  BY <2>1, <2>2, <2>3, <2>4, <2>5, <2>6, <2>7, <2>8 DEF CuratorStep
<1>7. CASE \E g \in Ingesters : IngesterStep(g)
  <2>. PICK g \in Ingesters : IngesterStep(g)
    BY <1>7
  <2>1. Resolve(g) => Lasts
    BY WritesNoTable DEF Resolve
  <2>2. ASSUME NEW c \in Found, UpsertCompany(g, c)
        PROVE  Lasts
    BY <2>2, WritesNoTable DEF UpsertCompany
  <2>3. ASSUME NEW c \in Found, UpsertFilings(g, c)
        PROVE  Lasts
    BY <2>3, WritesNoTable DEF UpsertFilings
  <2>. QED  BY <1>2, <2>1, <2>2, <2>3 DEF IngesterStep
<1>8. CASE \E a \in Actors : AcquireKey(a) \/ Commit(a) \/ Abort(a)
  BY <1>1, <1>3, <1>8 DEF AcquireKey, Abort, Goes
<1>9. CASE \E n \in Imports : Import(n) \/ ImportPilot(n)
  BY <1>4, <1>9
<1>10. CASE UNCHANGED vars
  BY <1>1, <1>10 DEF vars
<1>. QED  BY <1>5, <1>6, <1>7, <1>8, <1>9, <1>10 DEF Next

\* What was decided stays decided, and a name leads for ever to a company that
\* it has led to: DecisionsLast.
THEOREM DecisionsStay == Spec => DecisionsLast
<1>. DEFINE A ==
  /\ \A c \in Found : item[c].status \in {"accepted", "rejected"} => item'[c] = item[c]
  /\ \A f \in Facts : fact[f] # Undecided => fact'[f] = fact[f]
  /\ \A c \in Found : item'[c].status = "accepted" =>
       \A n \in NamesOf(c) : item'[c].company \in Owning(company', alias', {n})
  /\ \A n \in Names : Owners(n) \subseteq Owning(company', alias', {n})
<1>1. CInv /\ [Next]_vars => [A]_vars
  <2>. SUFFICES ASSUME CInv, [Next]_vars PROVE A
    OBVIOUS
  <2>1. Lasts /\ CInv'
    BY NextLasts, NextIsSound
  <2>2. \A n, i : Led(n, i)' <=> i \in Owning(company', alias', {n})
    BY DEF Led, Leads, Owning
  <2>3. \A n \in Names : Owners(n) \subseteq Owning(company', alias', {n})
    BY <2>1, <2>2, OwnersLed DEF Lasts
  <2>4. \A c \in Found : item'[c].status = "accepted" =>
          \A n \in NamesOf(c) : item'[c].company \in Owning(company', alias', {n})
    BY <2>1 DEF CInv, NamesInv, SoundFile, Led, Leads, Owning, NamesOf
  <2>. QED  BY <2>1, <2>3, <2>4 DEF Lasts
<1>. QED  BY <1>1, Invariant, PTL DEF Spec, DecisionsLast

-----------------------------------------------------------------------------
(***************************************************************************)
(* Circles of waiting.                                                     *)
(*                                                                         *)
(* Keys are taken in ascending order, before any row, so a chain of        *)
(* transactions that wait for keys climbs; who has all of its keys waits   *)
(* for rows of those that are past that point, of whom only a curator      *)
(* waits any more, for a reviewer, who does not.  What could close a       *)
(* circle is the index of the aliases, for which a renaming waits: but     *)
(* whoever inserts the old name of a company has its row, and so has the   *)
(* reviewer who renames it (RenamingsDoNotWait).  Two things break this    *)
(* and are hypotheses of the theorem: legal identifiers, whose keys an     *)
(* ingestion takes when it has a row, and imports, which give a name to    *)
(* one company while it is being given to another.                         *)
(***************************************************************************)

\* The companies of the aliases in a draft are locked or written.
AliasRows(d, R) == \A n \in DOMAIN d.alias : d.alias[n] \in R \cup DOMAIN d.company

\* What is to be done; only a reviewer renames.
Doing(a, x) ==
  /\ x = [action |-> x.action, target |-> x.target]
  /\ x.action = "rename" => a \in Reviewers

\* Keys first, and in order; then rows.
Climbs(a, t) ==
  /\ t.pc = "keys" => \A h \in t.held, k \in t.keys : h < k
  /\ t.pc # "keys" => t.keys = {}
  /\ t.pc \notin {"work", "filing"} => t.rows = {}
  /\ AliasRows(t.draft, t.rows)
  /\ \A c \in DOMAIN t.todo : Doing(a, t.todo[c])

AllClimb == \A a \in Actors : Climbs(a, txn[a])

\* No identity has a legal identifier.
WithoutLegals == \A c \in Identities : LegalsOf[c] = {}

\* No company is renamed of which an import knows the name.
RenamesNoImport ==
  \A a \in Actors : \A c \in DOMAIN txn[a].todo : Decides(a, c, "rename") =>
    RowsIn(txn[a].draft)[txn[a].todo[c].target].name \notin imported

\* A session that has no transaction climbs.
LEMMA IdleClimbs == \A a : Climbs(a, Idle)
  BY DEF Climbs, Idle, NoDraft, AliasRows

\* A step of one session.
LEMMA ClimbStep ==
  ASSUME CInv, AllClimb, NEW a \in Actors, NEW new, txn' = [txn EXCEPT ![a] = new], Climbs(a, new)
  PROVE  AllClimb'
<1>1. txn = [b \in Actors |-> txn[b]]
  BY DEF CInv, Shape
<1>2. \A b \in Actors : Climbs(b, txn'[b])
  BY <1>1 DEF AllClimb
<1>. QED  BY <1>2 DEF AllClimb, Climbs, AliasRows

\* A transaction begins with keys to take, in a draft without aliases.
LEMMA BeginClimbs ==
  ASSUME CInv, AllClimb, NEW a \in Actors, NEW new, Begins(a, new),
         new.held = {}, new.rows = {}, new.draft = NoDraft,
         new.pc # "keys" => new.keys = {},
         \A c \in DOMAIN new.todo : Doing(a, new.todo[c])
  PROVE  AllClimb'
<1>1. Climbs(a, new)
  BY DEF Climbs, AliasRows, NoDraft
<1>. QED  BY <1>1, ClimbStep DEF Begins

\* Work is done under rows that the new draft needs.
LEMMA WorkClimbs ==
  ASSUME CInv, AllClimb, NEW a \in Actors, NEW done, NEW e, NEW R, Works(a, done, e, R),
         txn[a].keys = {}, AliasRows(e, txn[a].rows \cup R)
  PROVE  AllClimb'
<1>. DEFINE t == txn[a]
            new == [t EXCEPT !.pc = "work", !.todo = Without(@, done), !.draft = e,
                             !.rows = @ \cup R]
<1>1. IsTxn(t) /\ Climbs(a, t)
  BY DEF CInv, Shape, AllClimb
<1>2. /\ new.pc = "work" /\ new.todo = Without(t.todo, done) /\ new.draft = e
      /\ new.rows = t.rows \cup R /\ new.keys = {}
  BY <1>1 DEF IsTxn
<1>3. txn' = [txn EXCEPT ![a] = new]
  BY DEF Works, Goes
<1>. HIDE DEF new
<1>4. Climbs(a, new)
  BY <1>1, <1>2 DEF Climbs, Without
<1>. QED  BY <1>3, <1>4, ClimbStep

\* The ways to write a draft.
LEMMA CompanyHasRows ==
  ASSUME NEW d, IsDraft(d), NEW R, AliasRows(d, R), NEW i, NEW name, NEW site
  PROVE  /\ IsDraft(WithCompany(d, i, name, site)) /\ AliasRows(WithCompany(d, i, name, site), R)
         /\ DOMAIN WithCompany(d, i, name, site).company = DOMAIN d.company \cup {i}
<1>. DEFINE e == WithCompany(d, i, name, site)
<1>1. CompanyIn(e, d, i, name, site)
  BY CompanyWritten
<1>. HIDE DEF e
<1>2. IsDraft(e) /\ AliasRows(e, R) /\ DOMAIN e.company = DOMAIN d.company \cup {i}
  BY <1>1 DEF CompanyIn, AliasRows
<1>. QED  BY <1>2 DEF e

LEMMA RecordHasRows ==
  ASSUME NEW d, IsDraft(d), NEW R, AliasRows(d, R), NEW i, NEW c, NEW status, NEW decision
  PROVE  AliasRows(WithRecord(d, c, status, i, decision), R)
  BY DEF WithRecord, IsDraft, AliasRows

LEMMA AliasesHaveRows ==
  ASSUME NEW d, IsDraft(d), NEW R, AliasRows(d, R), NEW i \in R \cup DOMAIN d.company, NEW S
  PROVE  IsDraft(WithAliases(d, i, S)) /\ AliasRows(WithAliases(d, i, S), R)
<1>. DEFINE new == S \ ({RowsIn(d)[i].name} \cup DOMAIN AliasesIn(d))
            e == WithAliases(d, i, S)
<1>1. IsDraft(e) /\ e.company = d.company /\ e.alias = Over([n \in new |-> i], d.alias)
  BY DEF IsDraft, WithAliases
<1>. HIDE DEF e
<1>2. \A n \in DOMAIN e.alias : e.alias[n] = i \/ (n \in DOMAIN d.alias /\ e.alias[n] = d.alias[n])
  BY <1>1 DEF Over
<1>3. AliasRows(e, R)
  BY <1>1, <1>2 DEF AliasRows
<1>. QED  BY <1>1, <1>3 DEF e

LEMMA RenamedHasRows ==
  ASSUME NEW d, IsDraft(d), NEW R, AliasRows(d, R), NEW i \in R, NEW name
  PROVE  IsDraft(Renamed(d, i, name)) /\ AliasRows(Renamed(d, i, name), R)
<1>. DEFINE k == KeepsOldName(d, i)
<1>1. /\ IsDraft(k) /\ k.company = d.company
      /\ \A n \in DOMAIN k.alias : k.alias[n] = i \/ (n \in DOMAIN d.alias /\ k.alias[n] = d.alias[n])
  BY DEF KeepsOldName, IsDraft, With
<1>2. Renamed(d, i, name) = d \/ Renamed(d, i, name) =
        [k EXCEPT !.alias = Without(@, {name}), !.dropped = @ \cup {name}]
  BY DEF Renamed
<1>. HIDE DEF k
<1>3. CASE Renamed(d, i, name) = d
  BY <1>3
<1>4. CASE Renamed(d, i, name) = [k EXCEPT !.alias = Without(@, {name}), !.dropped = @ \cup {name}]
  <2>. PICK e : e = Renamed(d, i, name)
    OBVIOUS
  <2>1. IsDraft(e) /\ e.company = d.company /\ e.alias = Without(k.alias, {name})
    BY <1>1, <1>4 DEF IsDraft
  <2>2. \A n \in DOMAIN e.alias : e.alias[n] = i \/ (n \in DOMAIN d.alias /\ e.alias[n] = d.alias[n])
    BY <1>1, <2>1 DEF Without
  <2>. QED  BY <2>1, <2>2 DEF AliasRows
<1>. QED  BY <1>2, <1>3, <1>4

\* What is known of the draft that a session works on.
LEMMA OwnDraft ==
  ASSUME CInv, AllClimb, NEW a \in Actors
  PROVE  /\ IsDraft(txn[a].draft) /\ AliasRows(txn[a].draft, txn[a].rows)
         /\ \A R : AliasRows(txn[a].draft, txn[a].rows \cup R)
         /\ txn[a].pc # "keys" => txn[a].keys = {}
  BY DEF CInv, Shape, IsTxn, AllClimb, Climbs, AliasRows

LEMMA ReviewerClimbs ==
  ASSUME CInv, AllClimb, NEW r \in Reviewers, ReviewerStep(r)
  PROVE  AllClimb'
<1>. r \in Actors
  BY DEF Actors
<1>. DEFINE d == txn[r].draft
            R == txn[r].rows
<1>1. IsDraft(d) /\ AliasRows(d, R) /\ (\A X : AliasRows(d, R \cup X)) /\ (txn[r].pc # "keys" => txn[r].keys = {})
  BY OwnDraft
<1>2. CASE StartReview(r)
  <2>1. PICK ds \in Batches(Found, Untargeted({"create", "reject"}) \cup Targeted({"link", "rename"})) :
          \E locked, keys : Begins(r, [Idle EXCEPT !.pc = "keys", !.todo = [c \in StillOpen(ds) |-> ds[c]],
                                                 !.locked = locked, !.keys = keys])
    BY <1>2 DEF StartReview
  <2>. PICK todo : todo = [c \in StillOpen(ds) |-> ds[c]]
    OBVIOUS
  <2>. PICK locked, keys :
         Begins(r, [Idle EXCEPT !.pc = "keys", !.todo = todo, !.locked = locked, !.keys = keys])
    BY <2>1
  <2>. PICK new : new = [Idle EXCEPT !.pc = "keys", !.todo = todo, !.locked = locked, !.keys = keys]
    OBVIOUS
  <2>2. new.pc = "keys" /\ new.held = {} /\ new.rows = {} /\ new.draft = NoDraft /\ new.todo = todo
    BY DEF Idle
  <2>3. \A c \in DOMAIN todo : Doing(r, todo[c])
    <3>1. DOMAIN todo \subseteq DOMAIN ds
      BY DEF StillOpen
    <3>2. \A c \in DOMAIN ds : ds[c] \in Untargeted({"create", "reject"}) \cup Targeted({"link", "rename"})
      BY DEF Batches
    <3>. QED  BY <3>1, <3>2 DEF Untargeted, Targeted, Doing
  <2>. QED  BY <2>2, <2>3, BeginClimbs
<1>3. CASE LockCompanies(r)
  BY <1>1, <1>3, WorkClimbs DEF LockCompanies, Serialized
<1>4. ASSUME NEW c \in Found, Reject(r, c)
      PROVE  AllClimb'
  <2>1. txn[r].keys = {} /\ Works(r, {c}, WithRecord(d, c, "rejected", NoCompany, txn[r].todo[c]), {})
    BY <1>1, <1>4 DEF Reject, Decides
  <2>2. AliasRows(WithRecord(d, c, "rejected", NoCompany, txn[r].todo[c]), R \cup {})
    BY <1>1, RecordHasRows
  <2>. QED  BY <2>1, <2>2, WorkClimbs
<1>5. ASSUME NEW c \in Found, CreateNew(r, c)
      PROVE  AllClimb'
  <2>. PICK created : created = WithCompany(d, c, NameOf[c], SiteOf[c])
    OBVIOUS
  <2>. PICK e : e = WithAliases(created, c, AliasesOf[c])
    OBVIOUS
  <2>1. txn[r].keys = {} /\ Works(r, {c}, WithRecord(e, c, "accepted", c, txn[r].todo[c]), {})
    BY <1>1, <1>5 DEF CreateNew, Decides
  <2>2. IsDraft(created) /\ AliasRows(created, R) /\ c \in DOMAIN created.company
    <3>1. \A name, site : /\ IsDraft(WithCompany(d, c, name, site)) /\ AliasRows(WithCompany(d, c, name, site), R)
                          /\ DOMAIN WithCompany(d, c, name, site).company = DOMAIN d.company \cup {c}
      BY <1>1, CompanyHasRows
    <3>. QED  BY <3>1
  <2>3. IsDraft(e) /\ AliasRows(e, R)
    BY <2>2, AliasesHaveRows
  <2>4. AliasRows(WithRecord(e, c, "accepted", c, txn[r].todo[c]), R)
    BY <2>3, RecordHasRows
  <2>5. R \cup {} = R
    OBVIOUS
  <2>. QED  BY <2>1, <2>4, <2>5, WorkClimbs
<1>6. ASSUME NEW c \in Found, LinkAsAlias(r, c)
      PROVE  AllClimb'
  <2>. PICK i : i = txn[r].todo[c].target
    OBVIOUS
  <2>. PICK e : e = WithAliases(d, i, NamesOf(c))
    OBVIOUS
  <2>1. txn[r].keys = {} /\ Works(r, {c}, WithRecord(e, c, "accepted", i, txn[r].todo[c]), {})
    BY <1>1, <1>6 DEF LinkAsAlias, Decides
  <2>2. i \in R
    BY <1>6, TargetLocked DEF LinkAsAlias
  <2>3. IsDraft(e) /\ AliasRows(e, R)
    BY <1>1, <2>2, AliasesHaveRows
  <2>4. AliasRows(WithRecord(e, c, "accepted", i, txn[r].todo[c]), R)
    BY <2>3, RecordHasRows
  <2>5. R \cup {} = R
    OBVIOUS
  <2>. QED  BY <2>1, <2>4, <2>5, WorkClimbs
<1>7. ASSUME NEW c \in Found, RenameCanonical(r, c)
      PROVE  AllClimb'
  <2>. PICK i : i = txn[r].todo[c].target
    OBVIOUS
  <2>. PICK k : k = Renamed(d, i, NameOf[c])
    OBVIOUS
  <2>. PICK renamed : renamed = WithCompany(k, i, NameOf[c], SiteOf[c])
    OBVIOUS
  <2>. PICK e : e = WithAliases(renamed, i, AliasesOf[c])
    OBVIOUS
  <2>1. txn[r].keys = {} /\ Works(r, {c}, WithRecord(e, c, "accepted", i, txn[r].todo[c]), {})
    BY <1>1, <1>7 DEF RenameCanonical, Decides
  <2>2. i \in R
    BY <1>7, TargetLocked DEF RenameCanonical
  <2>3. IsDraft(k) /\ AliasRows(k, R)
    BY <1>1, <2>2, RenamedHasRows
  <2>4. IsDraft(renamed) /\ AliasRows(renamed, R)
    BY <2>3, CompanyHasRows
  <2>5. IsDraft(e) /\ AliasRows(e, R)
    BY <2>2, <2>4, AliasesHaveRows
  <2>6. AliasRows(WithRecord(e, c, "accepted", i, txn[r].todo[c]), R)
    BY <2>5, RecordHasRows
  <2>7. R \cup {} = R
    OBVIOUS
  <2>. QED  BY <2>1, <2>6, <2>7, WorkClimbs
<1>. QED  BY <1>2, <1>3, <1>4, <1>5, <1>6, <1>7 DEF ReviewerStep

LEMMA CuratorClimbs ==
  ASSUME CInv, AllClimb, NEW k \in Curators, CuratorStep(k)
  PROVE  AllClimb'
<1>. k \in Actors
  BY DEF Actors
<1>. DEFINE d == txn[k].draft
            R == txn[k].rows
<1>1. IsDraft(d) /\ AliasRows(d, R) /\ (\A X : AliasRows(d, R \cup X)) /\ (txn[k].pc # "keys" => txn[k].keys = {})
  BY OwnDraft
<1>2. CASE StartManual(k)
  <2>1. PICK todo \in Batches(Facts, Untargeted({"accept", "reject"}) \cup Targeted({"accept"})) :
          Begins(k, [Idle EXCEPT !.pc = "keys", !.todo = todo, !.keys = IdentityKeys(DOMAIN todo)])
    BY <1>2 DEF StartManual
  <2>. PICK new : new = [Idle EXCEPT !.pc = "keys", !.todo = todo, !.keys = IdentityKeys(DOMAIN todo)]
    OBVIOUS
  <2>2. new.pc = "keys" /\ new.held = {} /\ new.rows = {} /\ new.draft = NoDraft /\ new.todo = todo
    BY DEF Idle
  <2>3. \A f \in DOMAIN todo : Doing(k, todo[f])
    <3>1. \A f \in DOMAIN todo : todo[f] \in Untargeted({"accept", "reject"}) \cup Targeted({"accept"})
      BY DEF Batches
    <3>. QED  BY <3>1 DEF Untargeted, Targeted, Doing
  <2>. QED  BY <2>1, <2>2, <2>3, BeginClimbs
<1>3. CASE StartAuto(k)
  <2>. PICK todo : todo = [f \in UnderReview |-> [action |-> "auto", target |-> NoCompany]]
    OBVIOUS
  <2>. PICK new : new = [Idle EXCEPT !.pc = "keys", !.todo = todo, !.keys = IdentityKeys(UnderReview)]
    OBVIOUS
  <2>1. Begins(k, new)
    BY <1>3 DEF StartAuto
  <2>2. new.pc = "keys" /\ new.held = {} /\ new.rows = {} /\ new.draft = NoDraft /\ new.todo = todo
    BY DEF Idle
  <2>3. \A f \in DOMAIN todo : Doing(k, todo[f])
    BY DEF Doing
  <2>. QED  BY <2>1, <2>2, <2>3, BeginClimbs
<1>4. CASE Refresh(k)
  BY <1>1, <1>4, WorkClimbs DEF Refresh, Serialized
<1>5. ASSUME NEW f \in Facts, ReplayReview(k, f)
      PROVE  AllClimb'
  BY <1>1, <1>5, WorkClimbs DEF ReplayReview, Reviews, Serialized
<1>6. ASSUME NEW f \in Facts, RejectFact(k, f)
      PROVE  AllClimb'
  <2>1. txn[k].keys = {} /\ Works(k, {f}, WithRecord(d, f, "rejected", NoCompany, txn[k].todo[f]), {})
    BY <1>1, <1>6 DEF RejectFact, Reviews, Serialized
  <2>2. AliasRows(WithRecord(d, f, "rejected", NoCompany, txn[k].todo[f]), R \cup {})
    BY <1>1, RecordHasRows
  <2>. QED  BY <2>1, <2>2, WorkClimbs
<1>7. ASSUME NEW f \in Facts, AcceptFact(k, f)
      PROVE  AllClimb'
  <2>. PICK target : target = txn[k].todo[f].target
    OBVIOUS
  <2>. PICK i : i = IF target = NoCompany THEN f ELSE target
    OBVIOUS
  <2>. PICK known : known = IF target = NoCompany THEN WithCompany(d, f, NameOf[f], SiteOf[f]) ELSE d
    OBVIOUS
  <2>. PICK e : e = WithAliases(known, i, NamesOf(f))
    OBVIOUS
  <2>1. txn[k].keys = {} /\ Works(k, {f}, WithRecord(e, f, "accepted", i, txn[k].todo[f]), {i})
    BY <1>1, <1>7 DEF AcceptFact, Reviews, Serialized
  <2>2. IsDraft(known) /\ AliasRows(known, R \cup {i})
    BY <1>1, CompanyHasRows
  <2>3. IsDraft(e) /\ AliasRows(e, R \cup {i})
    BY <2>2, AliasesHaveRows
  <2>4. AliasRows(WithRecord(e, f, "accepted", i, txn[k].todo[f]), R \cup {i})
    BY <2>3, RecordHasRows
  <2>. QED  BY <2>1, <2>4, WorkClimbs
<1>8. ASSUME NEW f \in Facts, KeepForReview(k, f)
      PROVE  AllClimb'
  BY <1>1, <1>8, WorkClimbs DEF KeepForReview, Resolves
<1>9. ASSUME NEW f \in Facts, AcceptGroup(k, f)
      PROVE  AllClimb'
  <2>. DEFINE group == Group(DOMAIN txn[k].todo, f)
              owners == UNION {NameOwners(d, g) : g \in group}
              names == UNION {NamesOf(g) : g \in group}
              known(i) == IF owners = {} THEN WithCompany(d, i, NameOf[f], SiteOf[f]) ELSE d
              files(i) == [g \in group |-> [status |-> "accepted", company |-> i, decision |-> NoDecision]]
  <2>1. PICK i \in Companies :
          Works(k, group, [WithAliases(known(i), i, names) EXCEPT !.record = Over(files(i), @)], {i})
    BY <1>9 DEF AcceptGroup
  <2>2. txn[k].keys = {}
    BY <1>1, <1>9 DEF AcceptGroup, Resolves
  <2>. PICK w : w = known(i)
    OBVIOUS
  <2>3. IsDraft(w) /\ AliasRows(w, R \cup {i})
    BY <1>1, CompanyHasRows
  <2>. PICK e : e = WithAliases(w, i, names)
    OBVIOUS
  <2>4. IsDraft(e) /\ AliasRows(e, R \cup {i})
    BY <2>3, AliasesHaveRows
  <2>. PICK u : u = [e EXCEPT !.record = Over(files(i), @)]
    OBVIOUS
  <2>5. AliasRows(u, R \cup {i})
    BY <2>4 DEF IsDraft, AliasRows
  <2>6. Works(k, group, u, {i})
    BY <2>1
  <2>. QED  BY <2>2, <2>5, <2>6, WorkClimbs
<1>. QED  BY <1>2, <1>3, <1>4, <1>5, <1>6, <1>7, <1>8, <1>9 DEF CuratorStep

LEMMA IngesterClimbs ==
  ASSUME CInv, AllClimb, WithoutLegals, NEW g \in Ingesters, IngesterStep(g)
  PROVE  AllClimb'
<1>. g \in Actors
  BY DEF Actors
<1>. DEFINE d == txn[g].draft
            R == txn[g].rows
<1>1. IsDraft(d) /\ AliasRows(d, R) /\ (\A X : AliasRows(d, R \cup X)) /\ (txn[g].pc # "keys" => txn[g].keys = {})
  BY OwnDraft
<1>2. CASE Resolve(g)
  <2>1. PICK c \in Found :
          \/ \E i : Begins(g, [Idle EXCEPT !.pc = "keys", !.todo = With(@, c, [action |-> "persist", target |-> i]),
                                           !.keys = IdentityKeys({c})])
          \/ Begins(g, [Idle EXCEPT !.pc = "record", !.todo = With(@, c, NoDecision)])
    BY <1>2 DEF Resolve
  <2>2. ASSUME NEW i, Begins(g, [Idle EXCEPT !.pc = "keys", !.todo = With(@, c, [action |-> "persist", target |-> i]),
                                             !.keys = IdentityKeys({c})])
        PROVE  AllClimb'
    <3>. PICK new : new = [Idle EXCEPT !.pc = "keys", !.todo = With(@, c, [action |-> "persist", target |-> i]),
                                       !.keys = IdentityKeys({c})]
      OBVIOUS
    <3>1. /\ new.pc = "keys" /\ new.held = {} /\ new.rows = {} /\ new.draft = NoDraft
          /\ new.todo = With(<<>>, c, [action |-> "persist", target |-> i])
      BY DEF Idle
    <3>2. \A x \in DOMAIN new.todo : Doing(g, new.todo[x])
      BY <3>1 DEF With, Doing
    <3>. QED  BY <2>2, <3>1, <3>2, BeginClimbs
  <2>3. ASSUME Begins(g, [Idle EXCEPT !.pc = "record", !.todo = With(@, c, NoDecision)])
        PROVE  AllClimb'
    <3>. PICK new : new = [Idle EXCEPT !.pc = "record", !.todo = With(@, c, NoDecision)]
      OBVIOUS
    <3>1. /\ new.pc = "record" /\ new.held = {} /\ new.rows = {} /\ new.draft = NoDraft /\ new.keys = {}
          /\ new.todo = With(<<>>, c, NoDecision)
      BY DEF Idle
    <3>2. \A x \in DOMAIN new.todo : Doing(g, new.todo[x])
      BY <3>1 DEF With, NoDecision, Doing
    <3>. QED  BY <2>3, <3>1, <3>2, BeginClimbs
  <2>. QED  BY <2>1, <2>2, <2>3
<1>3. CASE RecordReview(g)
  BY <1>3, IdleClimbs, ClimbStep DEF RecordReview
<1>4. ASSUME NEW c \in Found, UpsertCompany(g, c)
      PROVE  AllClimb'
  <2>. DEFINE t == txn[g]
  <2>1. PICK i, name, site :
          Goes(g, [t EXCEPT !.pc = "filing", !.todo[c].target = i, !.rows = @ \cup {i},
                            !.draft = WithAliases(WithCompany(d, i, name, site), i, NamesOf(c)),
                            !.keys = LegalsOf[c]])
    BY <1>4 DEF UpsertCompany
  <2>. PICK known : known = WithCompany(d, i, name, site)
    OBVIOUS
  <2>. PICK e : e = WithAliases(known, i, NamesOf(c))
    OBVIOUS
  <2>. PICK new : new = [t EXCEPT !.pc = "filing", !.todo[c].target = i, !.rows = @ \cup {i}, !.draft = e,
                                  !.keys = LegalsOf[c]]
    OBVIOUS
  <2>2. IsTxn(t) /\ Climbs(g, t) /\ SoundLocks(g, t) /\ c \in DOMAIN t.todo
    BY <1>4 DEF CInv, Shape, AllClimb, NamesInv, SoundTxn, UpsertCompany
  <2>3. IsDraft(e) /\ AliasRows(e, R \cup {i})
    <3>1. IsDraft(known) /\ AliasRows(known, R \cup {i})
      BY <1>1, CompanyHasRows
    <3>. QED  BY <3>1, AliasesHaveRows
  <2>4. /\ new.pc = "filing" /\ new.rows = R \cup {i} /\ new.draft = e /\ new.keys = LegalsOf[c]
        /\ new.todo = [t.todo EXCEPT ![c].target = i]
    BY <2>2 DEF IsTxn
  <2>5. \A x \in DOMAIN new.todo : Doing(g, new.todo[x])
    <3>1. \A x \in DOMAIN t.todo : Doing(g, t.todo[x])
      BY <2>2 DEF Climbs
    <3>2. \A x \in DOMAIN t.todo : x # c => new.todo[x] = t.todo[x]
      BY <2>4
    <3>3. new.todo[c] = [t.todo[c] EXCEPT !.target = i]
      BY <2>2, <2>4
    <3>4. Doing(g, [t.todo[c] EXCEPT !.target = i])
      <4>. PICK x : x = t.todo[c]
        OBVIOUS
      <4>1. x = [action |-> x.action, target |-> x.target] /\ (x.action = "rename" => g \in Reviewers)
        BY <2>2, <3>1 DEF Doing
      <4>2. [x EXCEPT !.target = i] = [action |-> x.action, target |-> i]
        BY <4>1
      <4>. QED  BY <4>1, <4>2 DEF Doing
    <3>. QED  BY <2>4, <3>1, <3>2, <3>3, <3>4
  <2>6. LegalsOf[c] = {}
    BY DEF WithoutLegals, Identities
  <2>7. Climbs(g, new)
    BY <2>2, <2>3, <2>4, <2>5, <2>6 DEF Climbs
  <2>. QED  BY <2>1, <2>7, ClimbStep DEF Goes
<1>5. ASSUME NEW c \in Found, UpsertFilings(g, c)
      PROVE  AllClimb'
  <2>. PICK e : e = [d EXCEPT !.filing = [l \in LegalsOf[c] |-> txn[g].todo[c].target]]
    OBVIOUS
  <2>1. AliasRows(e, R \cup {})
    BY <1>1 DEF IsDraft, AliasRows
  <2>. QED  BY <1>5, <2>1, WorkClimbs DEF UpsertFilings
<1>. QED  BY <1>2, <1>3, <1>4, <1>5 DEF IngesterStep

LEMMA ClimbNext ==
  ASSUME CInv, AllClimb, WithoutLegals, [Next]_vars
  PROVE  AllClimb'
<1>1. ASSUME NEW a \in Actors, AcquireKey(a)
      PROVE  AllClimb'
  <2>. DEFINE t == txn[a]
  <2>1. PICK k \in t.keys : NextKey(a, k) /\ Goes(a, [t EXCEPT !.keys = @ \ {k}, !.held = @ \cup {k}])
    BY <1>1 DEF AcquireKey
  <2>. PICK new : new = [t EXCEPT !.keys = @ \ {k}, !.held = @ \cup {k}]
    OBVIOUS
  <2>2. IsTxn(t) /\ Climbs(a, t) /\ t.keys \subseteq Nat
    BY DEF CInv, Shape, AllClimb, NamesInv, SoundTxn, SoundLocks
  <2>3. /\ new.pc = t.pc /\ new.todo = t.todo /\ new.rows = t.rows /\ new.draft = t.draft
        /\ new.keys = t.keys \ {k} /\ new.held = t.held \cup {k}
    BY <2>2 DEF IsTxn
  <2>4. \A j \in t.keys \ {k} : k < j
    BY <2>1, <2>2 DEF NextKey
  <2>5. Climbs(a, new)
    BY <2>2, <2>3, <2>4 DEF Climbs
  <2>. QED  BY <2>1, <2>5, ClimbStep DEF Goes
<1>2. ASSUME NEW a \in Actors, Commit(a) \/ Abort(a)
      PROVE  AllClimb'
  BY <1>2, IdleClimbs, ClimbStep DEF Commit, Abort, Goes
<1>3. CASE UNCHANGED vars \/ \E n \in Imports : Import(n) \/ ImportPilot(n)
  <2>1. txn' = txn
    BY <1>3 DEF vars, Import, ImportPilot
  <2>. QED  BY <2>1 DEF AllClimb, Climbs, AliasRows, Doing
<1>. QED  BY <1>1, <1>2, <1>3, ReviewerClimbs, CuratorClimbs, IngesterClimbs DEF Next

\* Nobody waits for the old name of a company that is being renamed.
LEMMA RenamingsDoNotWait ==
  ASSUME CInv, AllClimb, RenamesNoImport, NEW a \in Actors, NEW b \in Actors, a # b,
         NEW c \in DOMAIN txn[a].todo, Decides(a, c, "rename")
  PROVE  RowsIn(txn[a].draft)[txn[a].todo[c].target].name \notin DOMAIN txn[b].draft.alias
<1>. PICK t : t = txn[a]
  OBVIOUS
<1>. PICK u : u = txn[b]
  OBVIOUS
<1>. PICK d : d = t.draft
  OBVIOUS
<1>. PICK e : e = u.draft
  OBVIOUS
<1>. PICK i : i = t.todo[c].target
  OBVIOUS
<1>. PICK n : n = RowsIn(d)[i].name
  OBVIOUS
<1>1. SUFFICES ASSUME n \in DOMAIN e.alias PROVE FALSE
  OBVIOUS
<1>2. a \in Reviewers /\ t.pc = "work" /\ n \notin imported
  BY DEF AllClimb, Climbs, Doing, Decides, RenamesNoImport
<1>3. c \in Found
  BY <1>2, SessionsAssumption DEF CInv, NamesInv, SoundTxn, SoundWork
<1>4. i \in DOMAIN company /\ i \in t.rows
  BY <1>2, <1>3, TargetLocked
<1>5. /\ SoundDraft(d, t.held) /\ SoundDraft(e, u.held) /\ SoundWrites(b, u) /\ OneRowPerName(company)
      /\ t.held \cap u.held = {} /\ t.rows \cap u.rows = {} /\ AliasRows(e, u.rows)
  BY <1>2 DEF CInv, NamesInv, SoundTxn, SoundTables, Apart, Excludes, AllClimb, Climbs
<1>6. /\ i \in DOMAIN RowsIn(d) /\ Seen(d, n, i)
      /\ n = company[i].name \/ n \in t.held
  <2>1. /\ i \in DOMAIN RowsIn(d)
        /\ RowsIn(d)[i] = IF i \in DOMAIN d.company THEN d.company[i] ELSE company[i]
    <3>1. /\ DOMAIN RowsIn(d) = DOMAIN d.company \cup DOMAIN company
          /\ \A x \in DOMAIN RowsIn(d) :
               RowsIn(d)[x] = IF x \in DOMAIN d.company THEN d.company[x] ELSE company[x]
      BY Views
    <3>. QED  BY <1>4, <3>1
  <2>2. n = RowsIn(d)[i].name
    OBVIOUS
  <2>3. n = company[i].name \/ n \in t.held
    <3>1. CASE i \in DOMAIN d.company
      <4>1. d.company[i].name = company[i].name \/ d.company[i].name \in t.held
        BY <1>4, <1>5, <3>1 DEF SoundDraft, SoundRows
      <4>. QED  BY <2>1, <2>2, <3>1, <4>1
    <3>2. CASE i \notin DOMAIN d.company
      BY <2>1, <2>2, <3>2
    <3>. QED  BY <3>1, <3>2
  <2>. QED  BY <2>1, <2>2, <2>3 DEF Seen, Leads
<1>7. \A j \in DOMAIN e.company \cap DOMAIN company : j \in u.rows
  BY <1>5 DEF SoundWrites
\* The row that b gives the name has it already, and is another.
<1>8. ASSUME NEW j \in DOMAIN e.company \cap DOMAIN company, company[j].name = n
      PROVE  FALSE
  <2>1. j # i
    BY <1>4, <1>5, <1>7
  <2>2. CASE n = company[i].name
    BY <1>4, <1>5, <1>8, <2>1, <2>2 DEF OneRowPerName
  <2>3. CASE n \in t.held
    <3>1. Led(n, j)
      BY <1>8 DEF Led, Leads
    <3>2. Seen(d, n, j)
      BY <1>5, <2>3, <3>1 DEF SoundDraft, SoundView
    <3>3. \A x, y : Seen(d, n, x) /\ Seen(d, n, y) => x = y
      BY <1>2, <1>5, <2>3 DEF SoundDraft, SoundView
    <3>. QED  BY <1>6, <2>1, <3>2, <3>3
  <2>. QED  BY <1>6, <2>2, <2>3
\* The name is locked by b, and leads to the row of a.
<1>9. ASSUME n \in u.held
      PROVE  FALSE
  <2>1. n = company[i].name /\ Led(n, i)
    BY <1>4, <1>5, <1>6, <1>9 DEF Led, Leads
  <2>2. Seen(e, n, i)
    BY <1>5, <1>9, <2>1 DEF SoundDraft, SoundView
  <2>3. Seen(e, n, e.alias[n])
    BY <1>1, SeenByDraft, AliasByDraft
  <2>4. e.alias[n] = i
    <3>1. \A x, y : Seen(e, n, x) /\ Seen(e, n, y) => x = y
      BY <1>2, <1>5, <1>9 DEF SoundDraft, SoundView
    <3>. QED  BY <2>2, <2>3, <3>1
  <2>5. i \in u.rows \cup DOMAIN e.company
    BY <1>1, <1>5, <2>4 DEF AliasRows
  <2>. QED  BY <1>4, <1>5, <1>7, <2>5
<1>10. n \in u.held \/ \E j \in DOMAIN e.company \cap DOMAIN company : company[j].name = n
  BY <1>1, <1>5 DEF SoundDraft, SoundAliases
<1>. QED  BY <1>8, <1>9, <1>10

\* The least of a set of numbers.
LEMMA LeastOf ==
  ASSUME NEW S \in SUBSET Nat, S # {}
  PROVE  \E m \in S : \A n \in S : m <= n
<1>1. \E m \in S : \A n \in S : ~(<<n, m>> \in OpToRel(<, Nat))
  BY NatLessThanWellFounded, WFMin
<1>2. PICK m \in S : \A n \in S : ~(n < m)
  BY <1>1 DEF OpToRel
<1>3. \A n \in S : m <= n
  BY <1>2
<1>. QED  BY <1>3

\* b still wants keys, and all of them are above one that a wants.
Above(a, b) ==
  txn[b].keys # {} /\ \E k \in txn[a].keys : \A j \in txn[b].keys : k < j

\* Of finitely many sessions one is not below another.
LEMMA NobodyIsAbove ==
  ASSUME CInv, NEW S \in SUBSET Actors, S # {}, IsFiniteSet(S)
  PROVE  \E a \in S : \A b \in S : ~Above(a, b)
<1>. DEFINE T(a) == {b \in S : Above(a, b)}
            N == {Cardinality(T(a)) : a \in S}
<1>1. \A a \in S : txn[a].keys \subseteq Nat
  BY DEF CInv, NamesInv, SoundTxn, SoundLocks
<1>2. ASSUME NEW a \in S, NEW b \in S, Above(a, b)
      PROVE  T(b) \subseteq T(a) /\ b \in T(a) /\ b \notin T(b)
  <2>1. ~Above(b, b)
    BY <1>1 DEF Above
  <2>2. ASSUME NEW c \in S, Above(b, c) PROVE Above(a, c)
    <3>1. PICK k \in txn[a].keys : \A j \in txn[b].keys : k < j
      BY <1>2 DEF Above
    <3>2. PICK m \in txn[b].keys : \A j \in txn[c].keys : m < j
      BY <2>2 DEF Above
    <3>3. \A j \in txn[c].keys : k < j
      BY <1>1, <3>1, <3>2
    <3>. QED  BY <2>2, <3>3 DEF Above
  <2>. QED  BY <1>2, <2>1, <2>2
<1>3. \A a \in S : IsFiniteSet(T(a)) /\ Cardinality(T(a)) \in Nat
  <2>. SUFFICES ASSUME NEW a \in S PROVE IsFiniteSet(T(a)) /\ Cardinality(T(a)) \in Nat
    OBVIOUS
  <2>1. T(a) \subseteq S
    OBVIOUS
  <2>. HIDE DEF T
  <2>2. IsFiniteSet(T(a))
    BY <2>1, FS_Subset
  <2>. QED  BY <2>2, FS_CardinalityType
<1>4. PICK m \in N : \A n \in N : m <= n
  <2>1. N \in SUBSET Nat /\ N # {}
    BY <1>3
  <2>. HIDE DEF N
  <2>. QED  BY <2>1, LeastOf
<1>5. PICK a \in S : m = Cardinality(T(a))
  BY <1>4
<1>6. ASSUME NEW b \in S, Above(a, b)
      PROVE  FALSE
  <2>1. T(b) \subseteq T(a) /\ b \in T(a) /\ b \notin T(b)
    BY <1>2, <1>6
  <2>2. Cardinality(T(a)) <= Cardinality(T(b))
    BY <1>4, <1>5
  <2>. HIDE DEF T
  <2>3. Cardinality(T(b)) <= Cardinality(T(a)) /\ (Cardinality(T(a)) = Cardinality(T(b)) => T(b) = T(a))
    BY <1>3, <2>1, FS_Subset
  <2>. QED  BY <1>3, <2>1, <2>2, <2>3
<1>. QED  BY <1>6

\* Who waits for whom.
LEMMA WhoWaits ==
  ASSUME CInv, AllClimb, RenamesNoImport, NEW a \in Actors, NEW b \in Actors, a # b, WaitsFor(a, b)
  PROVE  \/ txn[a].keys # {} /\ (txn[b].keys # {} => Above(a, b))
         \/ Serialized(a) /\ txn[b].pc \in {"work", "filing"}
         \/ /\ a \in Curators /\ txn[a].pc = "work"
            /\ b \in Reviewers /\ txn[b].pc \in {"work", "filing"}
<1>1. /\ txn[a].pc # "keys" => txn[a].keys = {}
      /\ txn[b].pc # "keys" => txn[b].keys = {}
      /\ txn[b].pc = "keys" => \A h \in txn[b].held, k \in txn[b].keys : h < k
      /\ txn[b].rows # {} => txn[b].pc \in {"work", "filing"}
  BY DEF AllClimb, Climbs
<1>2. ASSUME NEW k \in txn[a].keys, k \in txn[b].held
      PROVE  txn[a].keys # {} /\ (txn[b].keys # {} => Above(a, b))
  BY <1>1, <1>2 DEF Above
<1>3. ASSUME NEW c \in DOMAIN txn[a].todo, Decides(a, c, "rename")
      PROVE  RowsIn(txn[a].draft)[txn[a].todo[c].target].name \notin DOMAIN txn[b].draft.alias
  BY <1>3, RenamingsDoNotWait
<1>4. CASE a \in Curators /\ b \in Reviewers /\ \E f \in DOMAIN txn[a].todo : Reviews(a, f) /\ txn[a].todo[f].target \in txn[b].rows
  BY <1>1, <1>4 DEF Reviews
<1>5. CASE a \in Reviewers /\ Serialized(a) /\ Targets(a) \cap txn[b].rows # {}
  BY <1>1, <1>5
<1>6. CASE a \in Ingesters /\ Serialized(a) /\ \E c \in DOMAIN txn[a].todo : Sought(a, c) \cap txn[b].rows # {}
  BY <1>1, <1>6
<1>. QED  BY <1>2, <1>3, <1>4, <1>5, <1>6 DEF WaitsFor

\* Transactions never wait for each other in a circle, however many there are and
\* in whatever order they take their keys, companies and aliases, as long as no
\* company has a legal identifier and none is renamed whose name an import
\* knows: NoWaitCycle.
THEOREM NobodyWaitsInACircle ==
  ASSUME WithoutLegals, IsFiniteSet(Actors)
  PROVE  Spec => [](RenamesNoImport => NoWaitCycle)
<1>1. Init => AllClimb
  BY IdleClimbs DEF Init, AllClimb
<1>2. CInv /\ AllClimb /\ [Next]_vars => AllClimb'
  BY ClimbNext
<1>3. CInv /\ AllClimb => (RenamesNoImport => NoWaitCycle)
  <2>. SUFFICES ASSUME CInv, AllClimb, RenamesNoImport, NEW S \in SUBSET Actors, S # {}
                PROVE  \E a \in S : \A b \in S : a # b => ~WaitsFor(a, b)
    BY DEF NoWaitCycle
  <2>1. CASE \E a \in S : txn[a].keys = {} /\ ~Serialized(a) /\ ~(a \in Curators /\ txn[a].pc = "work")
    BY <2>1, WhoWaits
  <2>2. CASE /\ \A a \in S : txn[a].keys # {} \/ Serialized(a) \/ (a \in Curators /\ txn[a].pc = "work")
             /\ \E a \in S : a \in Curators /\ txn[a].pc = "work"
    <3>1. PICK a \in S : a \in Curators /\ txn[a].pc = "work"
      BY <2>2
    <3>2. txn[a].keys = {} /\ ~Serialized(a)
      BY <3>1 DEF AllClimb, Climbs, Serialized
    <3>3. ASSUME NEW b \in S, b \in Reviewers, txn[b].pc \in {"work", "filing"}
          PROVE  FALSE
      <4>1. txn[b].keys = {} /\ ~Serialized(b) /\ b \notin Curators
        BY <3>3, SessionsAssumption DEF AllClimb, Climbs, Serialized
      <4>. QED  BY <2>2, <4>1
    <3>. QED  BY <3>2, <3>3, WhoWaits
  <2>3. CASE /\ \A a \in S : txn[a].keys # {} \/ Serialized(a)
             /\ \E a \in S : Serialized(a)
    <3>1. PICK a \in S : Serialized(a)
      BY <2>3
    <3>2. txn[a].keys = {} /\ txn[a].pc # "work"
      BY <3>1 DEF Serialized
    <3>3. ASSUME NEW b \in S, txn[b].pc \in {"work", "filing"}
          PROVE  FALSE
      <4>1. txn[b].keys = {} /\ ~Serialized(b)
        BY <3>3 DEF AllClimb, Climbs, Serialized
      <4>. QED  BY <2>3, <4>1
    <3>. QED  BY <3>2, <3>3, WhoWaits
  <2>4. CASE \A a \in S : txn[a].keys # {}
    <3>1. IsFiniteSet(S)
      BY FS_Subset
    <3>2. PICK a \in S : \A b \in S : ~Above(a, b)
      BY <3>1, NobodyIsAbove
    <3>3. ~Serialized(a) /\ txn[a].pc # "work"
      BY <2>4 DEF AllClimb, Climbs, Serialized
    <3>. QED  BY <2>4, <3>2, <3>3, WhoWaits
  <2>. QED  BY <2>1, <2>2, <2>3, <2>4
<1>. QED  BY <1>1, <1>2, <1>3, Invariant, PTL DEF Spec

================================================================================
