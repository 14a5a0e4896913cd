---------------------------- MODULE CompanyIdentity ----------------------------
(***************************************************************************)
(* Who owns a company name.  A company has one canonical name and any      *)
(* number of aliases, in two tables, each with a unique index of its own;  *)
(* that no name is the canonical name of one company and an alias of       *)
(* another is left to advisory locks.  Four kinds of transaction write     *)
(* names: an ingestion that persists a company it found, an operator who   *)
(* applies reviewed decisions, the manifest's resolution of candidate      *)
(* facts, and imports of company lists, which take no lock.                *)
(*                                                                         *)
(* PostgreSQL, READ COMMITTED: a transaction reads what is committed and   *)
(* what it wrote itself; its locks are released when it ends.  Advisory    *)
(* keys are taken one by one.  A transaction that a check refuses, that    *)
(* fails or that the database breaks off is rolled back, which is Abort;   *)
(* the other steps are the ones whose checks pass.                         *)
(***************************************************************************)
EXTENDS Naturals, FiniteSets

CONSTANTS
  Found,       \* identities that ingestions extract
  Facts,       \* candidate facts of the manifest
  Imports,     \* names in lists of companies
  PilotSiteOf, \* the website that the list of a ranking has for such a name
  NameOf, AliasesOf,  \* the normalized names of an identity, by their lock keys
  SiteOf,      \* its normalized website, by its lock key
  LegalsOf,    \* its legal identifiers, by their lock keys
  NoSite, NoCompany,
  FreshIds,    \* random identifiers; bounds the companies created under them
  Reviewers,   \* sessions of apply_identity_review_decisions
  Curators,    \* sessions of the manifest's identity resolution
  Ingesters,   \* sessions of ingestion workers
  MaxBatch,    \* bound on the decisions of one call
  MaxBegun     \* bound on the transactions begun

Identities == Found \cup Facts
Companies == Identities \cup FreshIds
Actors == Reviewers \cup Curators \cup Ingesters

ASSUME IdentitiesAssumption ==
  /\ NameOf \in [Identities -> Nat] /\ AliasesOf \in [Identities -> SUBSET Nat]
  /\ SiteOf \in [Identities -> Nat \cup {NoSite}] /\ NoSite \notin Nat
  /\ LegalsOf \in [Identities -> SUBSET Nat] /\ \A f \in Facts : LegalsOf[f] = {}
  /\ Imports \subseteq Nat /\ PilotSiteOf \in [Imports -> Nat \cup {NoSite}]
  /\ Found \cap Facts = {} /\ FreshIds \cap Identities = {} /\ NoCompany \notin Companies
  /\ MaxBegun \in Nat /\ MaxBatch \in Nat

\* The three kinds of session belong to different programs.
ASSUME SessionsAssumption ==
  Reviewers \cap Curators = {} /\ Reviewers \cap Ingesters = {} /\ Curators \cap Ingesters = {}

VARIABLES
  company,   \* companies: the canonical name and the website, by id
  alias,     \* company_aliases: the company, by name
  filing,    \* regulatory_filings: the company, by legal identifier
  item,      \* company_identity_review_items with their decisions
  fact,      \* candidate facts with their reviews
  txn,       \* the open transaction of each session
  imported,  \* names and websites that an import has given to a company
  begun      \* the number of transactions begun

vars == <<company, alias, filing, item, fact, txn, imported, begun>>

\* An item that has not been recorded is absent; an undecided one has no decision.
NoDecision == [action |-> "none", target |-> NoCompany]
Decision == [action : {"none", "create", "link", "rename", "reject", "accept", "auto", "persist"},
             target : Companies \cup {NoCompany}]
Record == [status : {"absent", "review", "accepted", "rejected"},
           company : Companies \cup {NoCompany}, decision : Decision]
Undecided == [status |-> "review", company |-> NoCompany, decision |-> NoDecision]

\* What a transaction has written: rows by their keys, and the aliases it deleted.
NoDraft == [company |-> <<>>, alias |-> <<>>, filing |-> <<>>, record |-> <<>>, dropped |-> {}]

\* keys are still to be taken and held are taken; rows are company rows.
Idle == [pc |-> "idle", todo |-> <<>>, locked |-> {}, keys |-> {}, held |-> {}, rows |-> {},
         draft |-> NoDraft]

Without(f, S) == [x \in DOMAIN f \ S |-> f[x]]
With(f, k, v) == [x \in DOMAIN f \cup {k} |-> IF x = k THEN v ELSE f[x]]
Over(new, f) == [x \in DOMAIN new \cup DOMAIN f |-> IF x \in DOMAIN new THEN new[x] ELSE f[x]]

-----------------------------------------------------------------------------
(* Reading: what a transaction with the draft d sees.  A name that starts  *)
(* with Faulty is a deliberate defect: no action uses it, and the mutation *)
(* runs put it in the place of the definition that follows.                *)

RowsIn(d) == Over(d.company, company)
AliasesIn(d) == Over(d.alias, Without(alias, d.dropped))
ItemsIn(d) == Over(d.record, item)

NamesOf(c) == {NameOf[c]} \cup AliasesOf[c]

Owning(rows, aliases, S) ==
  {i \in DOMAIN rows : rows[i].name \in S} \cup {aliases[n] : n \in S \cap DOMAIN aliases}

NameOwners(d, c) == Owning(RowsIn(d), AliasesIn(d), NamesOf(c))
SiteOwners(d, c) ==
  {i \in DOMAIN RowsIn(d) : SiteOf[c] # NoSite /\ RowsIn(d)[i].site = SiteOf[c]}

\* Whom the accepted items with the same website or a common legal identifier,
\* and the filings, name.  A recruitment identity is owned like a legal
\* identifier that has no filing.
HistoryOwners(d, c) ==
  {ItemsIn(d)[e].company : e \in {e \in Found :
       /\ ItemsIn(d)[e].status = "accepted"
       /\ (SiteOf[e] = SiteOf[c] /\ SiteOf[c] # NoSite) \/ LegalsOf[e] \cap LegalsOf[c] # {}}}
  \cup {filing[l] : l \in LegalsOf[c] \cap DOMAIN filing}

EvidenceOwners(d, c) == SiteOwners(d, c) \cup HistoryOwners(d, c)

-----------------------------------------------------------------------------
(* Locks.                                                                  *)

FaultyNameKeys(c) == {NameOf[c]}
NameKeys(c) == NamesOf(c)

FaultySiteKeys(c) == {}
SiteKeys(c) == {SiteOf[c]} \ {NoSite}

\* Names and websites are hashed to keys and sorted; the numbers of the model
\* are in the order of the hashes.
IdentityKeys(S) == UNION {NameKeys(c) \cup SiteKeys(c) : c \in S}

FaultyNextKey(a, k) == k \in txn[a].keys
NextKey(a, k) == k \in txn[a].keys /\ \A j \in txn[a].keys : k <= j

KeyFree(a, k) == \A b \in Actors \ {a} : k \notin txn[b].held

\* A reviewer selects companies for update and an ingestion updates its
\* company; the manifest only refers to it.
Excludes(a, b) == \/ a \in Reviewers \/ b \in Reviewers
                  \/ a \in Ingesters /\ b \in Ingesters

RowFree(a, i) == \A b \in Actors \ {a} : i \in txn[b].rows => ~Excludes(a, b)

\* The review items that a reviewer has selected for update.
FaultyItemFree(c) == TRUE
ItemFree(c) == \A a \in Actors : c \notin txn[a].locked

Free(i) == i \in FreshIds \ DOMAIN company /\ \A a \in Actors : i \notin DOMAIN txn[a].draft.company

Begins(a, state) ==
  /\ txn[a].pc = "idle" /\ begun < MaxBegun /\ begun' = begun + 1
  /\ txn' = [txn EXCEPT ![a] = state]
  /\ UNCHANGED <<company, alias, filing, item, fact, imported>>

Goes(a, state) ==
  /\ txn' = [txn EXCEPT ![a] = state]
  /\ UNCHANGED <<company, alias, filing, item, fact, imported, begun>>

AcquireKey(a) ==
  \E k \in txn[a].keys :
    /\ NextKey(a, k)
    /\ KeyFree(a, k)
    /\ Goes(a, [txn[a] EXCEPT !.keys = @ \ {k}, !.held = @ \cup {k}])

\* The keys of the identities are taken.
Serialized(a) == txn[a].pc = "keys" /\ txn[a].keys = {}

-----------------------------------------------------------------------------
(* Writing.                                                                *)

WithCompany(d, i, name, site) ==
  [d EXCEPT !.company = With(@, i, [name |-> name, site |-> site])]

\* Those of the names S that company i lacks become its aliases, unless one
\* of them is an alias of another company.
CanAlias(d, i, S) ==
  \A n \in (S \ {RowsIn(d)[i].name}) \cap DOMAIN AliasesIn(d) : AliasesIn(d)[n] = i
WithAliases(d, i, S) ==
  [d EXCEPT !.alias = Over([n \in S \ ({RowsIn(d)[i].name} \cup DOMAIN AliasesIn(d)) |-> i], @)]

\* uq_company_alias_normalized_alias: an insert waits for an open one of the name.
InsertsFree(a, d) ==
  \A b \in Actors \ {a} : DOMAIN d.alias \cap DOMAIN txn[b].draft.alias = {}

WithRecord(d, c, status, i, decision) ==
  [d EXCEPT !.record = With(@, c, [status |-> status, company |-> i, decision |-> decision])]

\* One more piece of work is done and has left the draft d; rows are now locked.
Works(a, done, d, rows) ==
  /\ InsertsFree(a, d)
  /\ Goes(a, [txn[a] EXCEPT !.pc = "work", !.todo = Without(@, done), !.draft = d,
                            !.rows = @ \cup rows])

Batches(S, decisions) ==
  UNION {[T -> decisions] : T \in {U \in SUBSET S : U # {} /\ Cardinality(U) <= MaxBatch}}

Untargeted(actions) == [action : actions, target : {NoCompany}]
Targeted(actions) == [action : actions, target : DOMAIN company]

-----------------------------------------------------------------------------
(* apply_identity_review_decisions: it locks the items and leaves out what *)
(* it finds applied, takes the keys, locks the companies, and applies one  *)
(* decision after the other.                                               *)

StillOpen(ds) == {c \in DOMAIN ds : item[c].status = "review"}
IsReplay(c, decision) == item[c].status \in {"accepted", "rejected"} /\ item[c].decision = decision

StartReview(r) ==
  \E ds \in Batches(Found, Untargeted({"create", "reject"}) \cup Targeted({"link", "rename"})) :
    LET open == StillOpen(ds) IN
    /\ open # {}
    /\ \A c \in DOMAIN ds : ItemFree(c) /\ (c \in open \/ IsReplay(c, ds[c]))
    /\ Begins(r, [Idle EXCEPT !.pc = "keys", !.todo = [c \in open |-> ds[c]],
                              !.locked = DOMAIN ds,
                              !.keys = IdentityKeys(open) \cup UNION {LegalsOf[c] : c \in open}])

Targets(r) == {txn[r].todo[c].target : c \in DOMAIN txn[r].todo} \ {NoCompany}

\* Other owners are locked as well; a transaction that finds one is refused.
LockCompanies(r) ==
  /\ Serialized(r)
  /\ \A i \in Targets(r) : RowFree(r, i)
  /\ Works(r, {}, txn[r].draft, Targets(r))

Decides(r, c, action) ==
  txn[r].pc = "work" /\ c \in DOMAIN txn[r].todo /\ txn[r].todo[c].action = action

OwnedBy(d, c, owners) == (NameOwners(d, c) \cup EvidenceOwners(d, c)) \subseteq owners

Reject(r, c) ==
  /\ Decides(r, c, "reject")
  /\ Works(r, {c}, WithRecord(txn[r].draft, c, "rejected", NoCompany, txn[r].todo[c]), {})

CreateNew(r, c) ==
  LET d == txn[r].draft
      created == WithCompany(d, c, NameOf[c], SiteOf[c]) IN
  /\ Decides(r, c, "create")
  /\ OwnedBy(d, c, {})
  /\ c \notin DOMAIN RowsIn(d)
  /\ CanAlias(created, c, AliasesOf[c])
  /\ Works(r, {c}, WithRecord(WithAliases(created, c, AliasesOf[c]), c, "accepted", c,
                              txn[r].todo[c]), {})

LinkAsAlias(r, c) ==
  LET d == txn[r].draft
      i == txn[r].todo[c].target IN
  /\ Decides(r, c, "link")
  /\ OwnedBy(d, c, {i})
  /\ CanAlias(d, i, NamesOf(c))
  /\ Works(r, {c}, WithRecord(WithAliases(d, i, NamesOf(c)), c, "accepted", i, txn[r].todo[c]), {})

FaultyKeepsOldName(d, i) == d
KeepsOldName(d, i) ==
  LET old == RowsIn(d)[i].name IN
  IF old \in DOMAIN AliasesIn(d) THEN d ELSE [d EXCEPT !.alias = With(@, old, i)]

\* The old name becomes an alias, and an alias that is the new name is deleted.
Renamed(d, i, name) ==
  IF RowsIn(d)[i].name = name THEN d
  ELSE [KeepsOldName(d, i) EXCEPT !.alias = Without(@, {name}), !.dropped = @ \cup {name}]

RenameCanonical(r, c) ==
  LET d == txn[r].draft
      i == txn[r].todo[c].target
      old == RowsIn(d)[i].name
      renamed == WithCompany(Renamed(d, i, NameOf[c]), i, NameOf[c], SiteOf[c]) IN
  /\ Decides(r, c, "rename")
  /\ OwnedBy(d, c, {i})
  /\ old \in DOMAIN AliasesIn(d) => AliasesIn(d)[old] = i
  /\ CanAlias(renamed, i, AliasesOf[c])
  /\ Works(r, {c}, WithRecord(WithAliases(renamed, i, AliasesOf[c]), c, "accepted", i,
                              txn[r].todo[c]), {})

-----------------------------------------------------------------------------
(* The manifest: reviews of single candidate facts, and the resolution of  *)
(* all that are under review.  Recruiting URLs of facts, similar names and *)
(* diverging categories are further reasons to refuse or to keep a fact    *)
(* under review.                                                           *)

StartManual(k) ==
  \E ds \in Batches(Facts, Untargeted({"accept", "reject"}) \cup Targeted({"accept"})) :
    Begins(k, [Idle EXCEPT !.pc = "keys", !.todo = ds, !.keys = IdentityKeys(DOMAIN ds)])

FactsIn(d) == Over(d.record, fact)

Reviews(k, f) ==
  /\ Serialized(k) \/ txn[k].pc = "work"
  /\ f \in DOMAIN txn[k].todo
  /\ txn[k].todo[f].action \in {"accept", "reject"}

ReplayReview(k, f) ==
  /\ Reviews(k, f)
  /\ FactsIn(txn[k].draft)[f].decision = txn[k].todo[f]
  /\ Works(k, {f}, txn[k].draft, {})

RejectFact(k, f) ==
  /\ Reviews(k, f) /\ txn[k].todo[f].action = "reject"
  /\ FactsIn(txn[k].draft)[f] = Undecided
  /\ Works(k, {f}, WithRecord(txn[k].draft, f, "rejected", NoCompany, txn[k].todo[f]), {})

\* The company of a decision without a target gets its id from the fact.
AcceptFact(k, f) ==
  LET d == txn[k].draft
      target == txn[k].todo[f].target
      i == IF target = NoCompany THEN f ELSE target
      known == IF target = NoCompany THEN WithCompany(d, f, NameOf[f], SiteOf[f]) ELSE d IN
  /\ Reviews(k, f) /\ txn[k].todo[f].action = "accept"
  /\ FactsIn(d)[f] = Undecided
  /\ (NameOwners(d, f) \cup SiteOwners(d, f)) \subseteq {target}
  /\ target # f /\ (target = NoCompany => f \notin DOMAIN RowsIn(d))
  /\ RowFree(k, i)
  /\ CanAlias(known, i, NamesOf(f))
  /\ Works(k, {f}, WithRecord(WithAliases(known, i, NamesOf(f)), f, "accepted", i, txn[k].todo[f]),
           {i})

UnderReview == {f \in Facts : fact[f].status = "review"}

StartAuto(k) ==
  /\ UnderReview # {}
  /\ Begins(k, [Idle EXCEPT !.pc = "keys",
                            !.todo = [f \in UnderReview |-> [action |-> "auto", target |-> NoCompany]],
                            !.keys = IdentityKeys(UnderReview)])

Pending(k) == DOMAIN txn[k].todo \cap UnderReview

\* The facts are read again under the locks.
Refresh(k) ==
  /\ Serialized(k)
  /\ \A f \in DOMAIN txn[k].todo : txn[k].todo[f].action = "auto"
  /\ Works(k, DOMAIN txn[k].todo \ Pending(k), txn[k].draft, {})

\* The facts of S that share a name with f, with one that does, and so on.
Group(S, f) ==
  {g \in S : \A T \in SUBSET S :
     f \in T /\ (\A x \in T : \A y \in S : NamesOf(x) \cap NamesOf(y) # {} => y \in T) => g \in T}

Resolves(k, f) ==
  txn[k].pc = "work" /\ f \in DOMAIN txn[k].todo /\ txn[k].todo[f].action = "auto"

KeepForReview(k, f) ==
  /\ Resolves(k, f)
  /\ Works(k, Group(DOMAIN txn[k].todo, f), txn[k].draft, {})

\* A group goes to the one company that has its names, or to a new one with the
\* least of the canonical names.
AcceptGroup(k, f) ==
  LET d == txn[k].draft
      group == Group(DOMAIN txn[k].todo, f)
      owners == UNION {NameOwners(d, g) : g \in group}
      names == UNION {NamesOf(g) : g \in group} IN
  /\ Resolves(k, f)
  /\ \A g \in group : NameOf[f] <= NameOf[g]
  /\ Cardinality(UNION {SiteKeys(g) : g \in group}) <= 1
  /\ \A i, j \in owners : i = j
  /\ \A g \in group : SiteOwners(d, g) \subseteq owners
  /\ \E i \in Companies :
       LET known == IF owners = {} THEN WithCompany(d, i, NameOf[f], SiteOf[f]) ELSE d IN
       /\ IF owners = {} THEN Free(i) ELSE i \in owners
       /\ RowFree(k, i)
       /\ CanAlias(known, i, names)
       /\ Works(k, group,
                [WithAliases(known, i, names) EXCEPT
                   !.record = Over([g \in group |-> [status |-> "accepted", company |-> i,
                                                     decision |-> NoDecision]], @)],
                {i})

-----------------------------------------------------------------------------
(* Ingestion: an identity is resolved without locks, then persisted or put *)
(* on the list of reviews.                                                 *)

\* No name is known, or one company has them all and no evidence speaks for
\* another; similar names are a further reason for a review.
Resolve(g) ==
  \E c \in Found :
    LET owners == NameOwners(NoDraft, c)
        evidence == EvidenceOwners(NoDraft, c)
        persists(i) == [Idle EXCEPT !.pc = "keys", !.todo = With(@, c, [action |-> "persist", target |-> i]),
                                    !.keys = IdentityKeys({c})]
        records == [Idle EXCEPT !.pc = "record", !.todo = With(@, c, NoDecision)] IN
    \/ /\ evidence \subseteq owners /\ Cardinality(owners) = 1
       /\ \E i \in owners : Begins(g, persists(i))
    \/ /\ evidence = {} /\ owners = {}
       /\ Begins(g, persists(NoCompany)) \/ Begins(g, records)
    \/ /\ Cardinality(owners) > 1 \/ ~(evidence \subseteq owners)
       /\ Begins(g, records)

\* record_identity_review: an item that exists, whatever became of it, is kept.
RecordReview(g) ==
  \E c \in DOMAIN txn[g].todo :
    /\ txn[g].pc = "record"
    /\ ItemFree(c)
    /\ item' = [item EXCEPT ![c] = IF @.status = "absent" THEN Undecided ELSE @]
    /\ txn' = [txn EXCEPT ![g] = Idle]
    /\ UNCHANGED <<company, alias, filing, fact, imported, begun>>

\* The company of an identity that persist looks for.
Sought(g, c) ==
  LET target == txn[g].todo[c].target IN
  IF target # NoCompany THEN {target} ELSE {i \in DOMAIN company : company[i].name = NameOf[c]}

NamesAreOwn(d, c, owners) == NameOwners(d, c) \subseteq owners

UpsertCompany(g, c) ==
  LET d == txn[g].draft
      sought == Sought(g, c) IN
  /\ Serialized(g)
  /\ c \in DOMAIN txn[g].todo
  /\ NamesAreOwn(d, c, sought) /\ SiteOwners(d, c) \subseteq sought
  /\ \E i \in Companies :
       LET site == IF sought # {} /\ SiteOf[c] = NoSite THEN company[i].site ELSE SiteOf[c]
           name == IF sought # {} THEN company[i].name ELSE NameOf[c]
           known == WithCompany(d, i, name, site)
           named == WithAliases(known, i, NamesOf(c)) IN
       /\ IF sought = {} THEN Free(i) ELSE i \in sought
       /\ RowFree(g, i)
       /\ CanAlias(known, i, NamesOf(c)) /\ InsertsFree(g, named)
       /\ Goes(g, [txn[g] EXCEPT !.pc = "filing", !.todo[c].target = i, !.rows = @ \cup {i},
                                 !.draft = named, !.keys = LegalsOf[c]])

UpsertFilings(g, c) ==
  LET i == txn[g].todo[c].target IN
  /\ txn[g].pc = "filing" /\ txn[g].keys = {}
  /\ c \in DOMAIN txn[g].todo
  /\ \A l \in LegalsOf[c] \cap DOMAIN filing : filing[l] = i
  /\ Works(g, {c}, [txn[g].draft EXCEPT !.filing = [l \in LegalsOf[c] |-> i]], {})

-----------------------------------------------------------------------------
Commit(a) ==
  LET d == txn[a].draft IN
  /\ txn[a].pc = "work" /\ txn[a].todo = <<>>
  /\ company' = RowsIn(d)
  /\ alias' = AliasesIn(d)
  /\ filing' = Over(d.filing, filing)
  /\ item' = [c \in Found |-> ItemsIn(d)[c]]
  /\ fact' = [f \in Facts |-> FactsIn(d)[f]]
  /\ txn' = [txn EXCEPT ![a] = Idle]
  /\ UNCHANGED <<imported, begun>>

Abort(a) ==
  /\ txn[a].pc # "idle"
  /\ Goes(a, Idle)

\* import_cohort: a company with the name is taken for it, whoever has the name
\* for an alias.  The insert waits for one of the same name.
Creates(n, site) ==
  /\ \A i \in DOMAIN company : company[i].name # n
  /\ \A a \in Actors : \A i \in DOMAIN txn[a].draft.company : txn[a].draft.company[i].name # n
  /\ \E i \in Companies : Free(i) /\ company' = With(company, i, [name |-> n, site |-> site])

Import(n) ==
  /\ Creates(n, NoSite)
  /\ imported' = imported \cup {n}
  /\ begun < MaxBegun /\ begun' = begun + 1
  /\ UNCHANGED <<alias, filing, item, fact, txn>>

\* import_ai_pilot: the company is also given the website of the list, whoever
\* else has it.
ImportPilot(n) ==
  LET site == PilotSiteOf[n] IN
  /\ \/ Creates(n, site)
     \/ \E i \in DOMAIN company :
          /\ company[i].name = n
          /\ \A a \in Actors : i \notin txn[a].rows
          /\ company' = With(company, i, [name |-> n, site |-> site])
  /\ imported' = imported \cup {n, site}
  /\ begun < MaxBegun /\ begun' = begun + 1
  /\ UNCHANGED <<alias, filing, item, fact, txn>>

-----------------------------------------------------------------------------
Init ==
  /\ company = <<>> /\ alias = <<>> /\ filing = <<>>
  /\ item = [c \in Found |-> [Undecided EXCEPT !.status = "absent"]]
  /\ fact = [f \in Facts |-> Undecided]
  /\ txn = [a \in Actors |-> Idle]
  /\ imported = {} /\ begun = 0

ReviewerStep(r) ==
  \/ StartReview(r) \/ LockCompanies(r)
  \/ \E c \in Found : Reject(r, c) \/ CreateNew(r, c) \/ LinkAsAlias(r, c) \/ RenameCanonical(r, c)

CuratorStep(k) ==
  \/ StartManual(k) \/ StartAuto(k) \/ Refresh(k)
  \/ \E f \in Facts : \/ ReplayReview(k, f) \/ RejectFact(k, f) \/ AcceptFact(k, f)
                      \/ KeepForReview(k, f) \/ AcceptGroup(k, f)

IngesterStep(g) ==
  \/ Resolve(g) \/ RecordReview(g)
  \/ \E c \in Found : UpsertCompany(g, c) \/ UpsertFilings(g, c)

Next ==
  \/ \E r \in Reviewers : ReviewerStep(r)
  \/ \E k \in Curators : CuratorStep(k)
  \/ \E g \in Ingesters : IngesterStep(g)
  \/ \E a \in Actors : AcquireKey(a) \/ Commit(a) \/ Abort(a)
  \/ \E n \in Imports : Import(n) \/ ImportPilot(n)

Spec == Init /\ [][Next]_vars

-----------------------------------------------------------------------------
(* The audit of the stored companies: what it would report.                *)

Owners(n) == Owning(company, alias, {n})
Names == DOMAIN alias \cup {company[i].name : i \in DOMAIN company}

CrossTableNames ==
  {n \in DOMAIN alias : \E i \in DOMAIN company : company[i].name = n /\ alias[n] # i}
SharedWebsites ==
  {company[i].site : i \in {i \in DOMAIN company :
     company[i].site # NoSite /\ \E j \in DOMAIN company \ {i} : company[j].site = company[i].site}}
OrphanAliases == {n \in DOMAIN alias : alias[n] \notin DOMAIN company}
Unrepresented ==
  {f \in Facts : fact[f].status = "accepted" /\ \E n \in NamesOf(f) : fact[f].company \notin Owners(n)}

-----------------------------------------------------------------------------
\* The tables are well typed; an open transaction has taken no key that it still
\* wants, and writes rows of companies only.
TypeOK ==
  /\ \A i \in DOMAIN company : i \in Companies /\ company[i].site \in Nat \cup {NoSite}
  /\ {alias[n] : n \in DOMAIN alias} \cup {filing[l] : l \in DOMAIN filing} \subseteq Companies
  /\ item \in [Found -> Record] /\ fact \in [Facts -> Record]
  /\ begun \in 0 .. MaxBegun
  /\ \A a \in Actors :
       /\ txn[a].pc \in {"idle", "keys", "record", "work", "filing"}
       /\ txn[a].keys \cap txn[a].held = {} /\ txn[a].rows \subseteq Companies
       /\ \A c \in DOMAIN txn[a].todo : txn[a].todo[c] \in Decision

\* No name belongs to two companies, as canonical name or as alias, whoever
\* creates, links, renames and resolves at the same time, unless an import,
\* which takes no lock and looks at no alias, has given the name to a company.
OneOwnerPerName == \A n \in Names \ imported : Cardinality(Owners(n)) = 1

\* After any interleaving the audit has nothing to report: no name in both
\* tables and no website of two companies that no import has given, no alias
\* without company, no accepted fact whose names lead elsewhere.
AuditIsClean ==
  /\ CrossTableNames \subseteq imported
  /\ SharedWebsites \subseteq imported
  /\ OrphanAliases = {} /\ Unrepresented = {}

\* What was decided stays decided and keeps what it decided about: no decision
\* about an item or a fact changes, whether two operators apply decisions at
\* once or a resolution meets a review; the names of an accepted item lead to
\* the company it was accepted for; and a company that a name has led to is led
\* to by that name for ever, through every rename that meets another one.
DecisionsLast ==
  [][ /\ \A c \in Found : item[c].status \in {"accepted", "rejected"} => item'[c] = item[c]
      /\ \A f \in Facts : fact[f] # Undecided => fact'[f] = fact[f]
      /\ \A c \in Found : item'[c].status = "accepted" =>
           \A n \in NamesOf(c) : item'[c].company \in Owning(company', alias', {n})
      /\ \A n \in Names : Owners(n) \subseteq Owning(company', alias', {n}) ]_vars

\* a waits for a key, a company or an alias that b has.
WaitsFor(a, b) ==
  \/ \E k \in txn[a].keys : NextKey(a, k) /\ k \in txn[b].held
  \/ /\ a \in Reviewers /\ Serialized(a) /\ Targets(a) \cap txn[b].rows # {}
  \/ /\ a \in Ingesters /\ Serialized(a) /\ Excludes(a, b)
     /\ \E c \in DOMAIN txn[a].todo : Sought(a, c) \cap txn[b].rows # {}
  \/ /\ a \in Curators /\ b \in Reviewers
     /\ \E f \in DOMAIN txn[a].todo : Reviews(a, f) /\ txn[a].todo[f].target \in txn[b].rows
  \/ \E c \in DOMAIN txn[a].todo :
       /\ Decides(a, c, "rename")
       /\ RowsIn(txn[a].draft)[txn[a].todo[c].target].name \in DOMAIN txn[b].draft.alias

\* Transactions never wait for each other in a circle.
NoWaitCycle ==
  \A S \in SUBSET Actors : S # {} =>
    \E a \in S : \A b \in S : a # b => ~WaitsFor(a, b)
================================================================================
