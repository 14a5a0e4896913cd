---------------------------- MODULE DiscoveryRounds ----------------------------
(***************************************************************************)
(* The recruiting entries of one frozen manifest: what `discover` and      *)
(* `evidence-regenerate` observe of its companies, and the audit of it.    *)
(*                                                                         *)
(* `discover` keeps one legacy observation for each company and rewrites   *)
(* it while it is retryable.  `evidence-regenerate` appends observations   *)
(* to a named round, each linked to the observation it supersedes; once    *)
(* every member of a round is observed, a sample of what it accepted is    *)
(* drawn, and a severe finding on a sample pauses automatic acceptance of  *)
(* the sample's stratum.  Operators run the commands; a command may be     *)
(* interrupted between any two transactions and run again, and commands    *)
(* may run at the same time on a PostgreSQL database.                      *)
(*                                                                         *)
(* A transaction begins with its locks and checks (Begin...) and ends with *)
(* Commit.  A command that a check refuses can only Stop: it ends and its  *)
(* transaction is rolled back, as it does when it reaches its limit, is    *)
(* interrupted or loses the database.                                      *)
(***************************************************************************)
EXTENDS Naturals, FiniteSets

CONSTANTS
  Companies,      \* the members of the manifest, by position
  Urls,           \* normalized URLs, by their audit rank
  Methods,        \* what a result without a URL is told apart by
  Results,        \* what `discover` may come to at each company: statuses with a URL or a method
  Verdicts,       \* what the policy may say of a candidate that is not paused
  Strata,
  StratumOf,      \* the source and platform of each URL
  Rounds,         \* the names of rounds
  NoRound,        \* the round of a legacy observation
  Files,          \* evidence inputs: functions from companies to URLs
  Discoverers,    \* operators that run `discover --resume`
  Regenerators,   \* operators that run `evidence-regenerate`
  MaxTime,        \* bound on the clock
  MaxCommands,    \* bound on the commands begun
  MaxSetBacks     \* bound on how often the clock is set back

ASSUME OperatorsAssumption == Discoverers \cap Regenerators = {}
ASSUME PositionsAssumption == Companies \subseteq Nat /\ Urls \subseteq Nat
ASSUME ResultsAssumption ==
  \A c \in Companies : \A result \in Results[c] :
    /\ result[1] \in {"accepted", "declined", "failed"}
    /\ result[2] \in Urls \cup Methods
    /\ result[1] = "accepted" => result[2] \in Urls
ASSUME VerdictsAssumption == Verdicts \subseteq {"accepted", "declined", "failed"}
ASSUME StrataAssumption == StratumOf \in [Urls -> Strata]
ASSUME NoRoundAssumption == NoRound \notin Rounds
ASSUME FilesAssumption ==
  \A f \in Files :
    /\ DOMAIN f \subseteq Companies
    /\ \A c, d \in DOMAIN f : f[c] \in Urls /\ (f[c] = f[d] => c = d)
ASSUME TimeAssumption == MaxTime \in Nat /\ MaxCommands \in Nat /\ MaxSetBacks \in Nat

VARIABLES
  now,
  rounds,        \* entry_discovery_rounds, by name
  observations,  \* entry_discovery_observations, by id
  owners,        \* job_entries: the companies that have an entry with a URL
  samples,       \* the observations with an audit sample
  findings,      \* whether the finding on a sample is severe; such a sample is quarantined
  command,       \* what each operator's command is doing
  begun,         \* the number of commands begun
  setBacks       \* how often the clock has been set back

vars == <<now, rounds, observations, owners, samples, findings, command, begun, setBacks>>

Operators == Discoverers \cup Regenerators

\* declined: not found, under review or blocked for good; failed: retryable.
Statuses == {"accepted", "declined", "failed"}

NoFile == <<>>  \* no --evidence-input
NoRow == <<>>

Round == [started : Nat, members : SUBSET Companies, predecessor : Rounds \cup {NoRound}]

\* An id is told apart by its company, its round, which is NoRound for a legacy
\* observation, and a number, which is 1 unless there are several.
Ids == Companies \X (Rounds \cup {NoRound}) \X Nat
CompanyOf(i) == i[1]
RoundOf(i) == i[2]

Observation == [status : Statuses, identity : Urls \cup Methods, at : Nat,
                prior : Ids \cup {NoRow}]

Idle == [pc |-> "idle", round |-> NoRound, file |-> NoFile, paused |-> {}, latest |-> NoRound,
         todo |-> {}, known |-> [c \in Companies |-> NoRow], seen |-> [c \in Companies |-> 0],
         id |-> NoRow, draft |-> <<>>]

Steps == {"idle", "create", "load", "record", "commit"}

Command == [pc : Steps, round : Rounds \cup {NoRound}, file : Files \cup {NoFile},
            paused : SUBSET Strata, latest : Rounds \cup {NoRound}, todo : SUBSET Companies,
            known : [Companies -> Ids \cup {NoRow}], seen : [Companies -> Nat],
            id : Ids \cup {NoRow}, draft : {<<>>} \cup Observation]

Goes(o, state) == command' = [command EXCEPT ![o] = state]

-----------------------------------------------------------------------------
(* What the queries return.  A name that starts with Faulty is a           *)
(* deliberate defect: no action uses it, and the mutation runs put it in   *)
(* the place of the definition that follows.                               *)

ObservationsOf(c) == {i \in DOMAIN observations : CompanyOf(i) = c}

FaultyLegacyOf(c) == ObservationsOf(c)
LegacyOf(c) == {i \in ObservationsOf(c) : RoundOf(i) = NoRound}

InRound(r) == {i \in DOMAIN observations : RoundOf(i) = r}

\* The observations that come first by descending observed_at; equal times
\* are ordered by random identifiers.
Latest(S) == {i \in S : \A j \in S : observations[j].at <= observations[i].at}
LatestOrNone(S) == IF S = {} THEN {NoRow} ELSE Latest(S)

LatestRounds ==
  {r \in DOMAIN rounds : \A s \in DOMAIN rounds : rounds[s].started <= rounds[r].started}

Stratum(i) == StratumOf[observations[i].identity]
PausedStrata == {Stratum(i) : i \in {s \in DOMAIN findings : findings[s]}}

-----------------------------------------------------------------------------
(* Locks.  A legacy transaction locks the manifest and the member, one in  *)
(* a round the round and the member; inserting a row that refers to the    *)
(* manifest waits for the manifest.                                        *)

Writing == {o \in Operators : command[o].pc = "commit"}

ManifestFree == \A o \in Writing : RoundOf(command[o].id) # NoRound
RoundFree(r) == \A o \in Writing : RoundOf(command[o].id) # r
MemberFree(c) == \A o \in Writing : CompanyOf(command[o].id) # c

\* The id that the next observation of a company in a round will have.
NewId(c, r) == <<c, r, 1 + Cardinality({i \in ObservationsOf(c) : RoundOf(i) = r})>>

\* The entry of an accepted URL may be written for a company when no other
\* company has one.
EntryIsOwn(c, url) == owners[url] \subseteq {c}

\* The operator's command has dealt with a company.
Done(o, c) == [command[o] EXCEPT !.pc = "record", !.todo = @ \ {c}, !.id = NoRow, !.draft = <<>>,
                                 !.known[c] = NoRow, !.seen[c] = 0]

\* The transaction has passed its checks and will insert or rewrite a row.
Begins(o, i, row) == Goes(o, [command[o] EXCEPT !.pc = "commit", !.id = i, !.draft = row])

-----------------------------------------------------------------------------
(* discover                                                                *)

FaultyRetries(last) == {}
Retries(last) == {c \in Companies : last[c] # NoRow /\ observations[last[c]].status = "failed"}

\* The state is rebuilt from all observations: the last one decides whether its
\* company is done.
StartDiscovery(d) ==
  /\ command[d].pc = "idle" /\ begun < MaxCommands /\ begun' = begun + 1
  /\ \E last \in [Companies -> DOMAIN observations \cup {NoRow}] :
       /\ \A c \in Companies : last[c] \in LatestOrNone(ObservationsOf(c))
       /\ Goes(d, [Idle EXCEPT
                     !.pc = "record",
                     !.todo = {c \in Companies : last[c] # NoRow => observations[last[c]].status = "failed"},
                     !.known = [c \in Companies |-> IF c \in Retries(last) THEN last[c] ELSE NoRow]])
  /\ UNCHANGED <<now, rounds, observations, owners, samples, findings, setBacks>>

LegacyRow(result) ==
  [status |-> result[1], identity |-> result[2], at |-> now, prior |-> NoRow]

\* record_discovery_result: a company's first result, or one with another identity.
\* The replay of a result needs two commands within one microsecond and is left
\* out.
MayRecord(d, c, row) ==
  /\ command[d].known[c] = NoRow
  /\ \A i \in LegacyOf(c) : observations[i].identity # row.identity

\* transition_retryable_discovery_result: the only legacy result is retried.
MayRewrite(d, c, row) ==
  /\ command[d].known[c] # NoRow
  /\ LegacyOf(c) = {command[d].known[c]}
  /\ observations[command[d].known[c]].status = "failed"
  /\ observations[command[d].known[c]].at < row.at

\* Companies are taken by position.
BeginLegacy(d) ==
  /\ command[d].pc = "record"
  /\ \E c \in command[d].todo : \E result \in Results[c] :
       LET row == LegacyRow(result) IN
       /\ \A other \in command[d].todo : c <= other
       /\ row.status = "accepted" => EntryIsOwn(c, row.identity)
       /\ ManifestFree /\ MemberFree(c)
       /\ \/ MayRecord(d, c, row) /\ Begins(d, NewId(c, NoRound), row)
          \/ MayRewrite(d, c, row) /\ Begins(d, command[d].known[c], row)
  /\ UNCHANGED <<now, rounds, observations, owners, samples, findings, begun, setBacks>>

-----------------------------------------------------------------------------
(* evidence-regenerate                                                     *)

\* The paused strata, the named round and the latest one are read first.
StartRegeneration(g) ==
  /\ command[g].pc = "idle" /\ begun < MaxCommands /\ begun' = begun + 1
  /\ \E r \in Rounds : \E file \in Files :
     \E latest \in IF DOMAIN rounds = {} THEN {NoRound} ELSE LatestRounds :
       /\ r \in DOMAIN rounds => file # NoFile /\ DOMAIN file = rounds[r].members
       /\ Goes(g, [Idle EXCEPT !.pc = IF r \in DOMAIN rounds THEN "load" ELSE "create",
                               !.round = r, !.file = file, !.paused = PausedStrata,
                               !.latest = IF r \in DOMAIN rounds THEN NoRound ELSE latest])
  /\ UNCHANGED <<now, rounds, observations, owners, samples, findings, setBacks>>

StartsAfter(predecessor) == predecessor # NoRound => rounds[predecessor].started < now

\* create_discovery_round: a new round, or the exact replay of a stored one.
CreateRound(g) ==
  LET r == command[g].round
      row == [started |-> now, members |-> DOMAIN command[g].file,
              predecessor |-> command[g].latest] IN
  /\ command[g].pc = "create"
  /\ ManifestFree
  /\ IF r \in DOMAIN rounds THEN rounds[r] = row
     ELSE RoundFree(row.predecessor) /\ StartsAfter(row.predecessor)
  /\ rounds' = [n \in DOMAIN rounds \cup {r} |-> IF n = r THEN row ELSE rounds[n]]
  /\ Goes(g, IF command[g].file = NoFile THEN Idle ELSE [command[g] EXCEPT !.pc = "load", !.latest = NoRound])
  /\ UNCHANGED <<now, observations, owners, samples, findings, begun, setBacks>>

Earlier(r, c) ==
  {i \in ObservationsOf(c) : RoundOf(i) # r /\ observations[i].at < rounds[r].started}

Pending(g) ==
  DOMAIN command[g].file \ {CompanyOf(i) : i \in InRound(command[g].round)}

\* The candidates that are not observed yet are judged, and what the round
\* supersedes is read.  One step stands for both queries: the second leaves
\* out the round itself, the only thing that the first one looks at.
Load(g) ==
  /\ command[g].pc = "load"
  /\ \E prior \in [Companies -> DOMAIN observations \cup {NoRow}] :
       /\ \A c \in Companies :
            prior[c] \in IF c \in Pending(g)
                         THEN LatestOrNone(Earlier(command[g].round, c)) ELSE {NoRow}
       /\ Goes(g, [command[g] EXCEPT
                     !.pc = "record", !.todo = Pending(g), !.known = prior,
                     !.seen = [c \in Companies |->
                                 IF prior[c] = NoRow THEN 0 ELSE observations[prior[c]].at]])
  /\ UNCHANGED <<now, rounds, observations, owners, samples, findings, begun, setBacks>>

\* A result is dated after the observation it supersedes, as that was read.
Dated(g, c) ==
  IF command[g].known[c] # NoRow /\ now <= command[g].seen[c] THEN command[g].seen[c] + 1 ELSE now

RoundRow(g, c, status) ==
  [status |-> status, identity |-> command[g].file[c], at |-> Dated(g, c),
   prior |-> command[g].known[c]]

FaultyPredecessorFits(r, row) == TRUE
PredecessorFits(r, row) ==
  row.prior # NoRow =>
    /\ RoundOf(row.prior) # NoRound => rounds[RoundOf(row.prior)].started < rounds[r].started
    /\ observations[row.prior].at < row.at

FaultyIsNew(r, c) == TRUE
IsNew(r, c) == \A i \in InRound(r) : CompanyOf(i) # c

\* A candidate of a paused stratum is put under review without a call of the
\* model; the model may fail on any other.
Judgements(g, c) ==
  IF StratumOf[command[g].file[c]] \in command[g].paused THEN {"declined"} ELSE Verdicts

\* record_discovery_result_in_round.  The order of the file is any.
BeginInRound(g) ==
  /\ command[g].pc = "record"
  /\ \E c \in command[g].todo : \E status \in Judgements(g, c) :
       LET r == command[g].round
           row == RoundRow(g, c, status) IN
       /\ RoundFree(r) /\ MemberFree(c)
       /\ IsNew(r, c)
       /\ PredecessorFits(r, row)
       /\ status = "accepted" => EntryIsOwn(c, row.identity)
       /\ Begins(g, NewId(c, r), row)
  /\ UNCHANGED <<now, rounds, observations, owners, samples, findings, begun, setBacks>>

\* Another command has stored the very same result.
ReplayInRound(g) ==
  /\ command[g].pc = "record"
  /\ \E c \in command[g].todo : \E status \in Judgements(g, c) :
       /\ RoundFree(command[g].round) /\ MemberFree(c)
       /\ \E i \in ObservationsOf(c) \cap InRound(command[g].round) :
            observations[i] = RoundRow(g, c, status)
       /\ Goes(g, Done(g, c))
  /\ UNCHANGED <<now, rounds, observations, owners, samples, findings, begun, setBacks>>

-----------------------------------------------------------------------------
(* The end of a transaction, of either command.                            *)

FaultyGainsEntry(row) == row.identity \in Urls
GainsEntry(row) == row.status = "accepted"

Commit(o) ==
  LET i == command[o].id
      row == command[o].draft IN
  /\ command[o].pc = "commit"
  /\ RoundOf(i) # NoRound => ManifestFree
  /\ observations' = [j \in DOMAIN observations \cup {i} |-> IF j = i THEN row ELSE observations[j]]
  /\ owners' = IF GainsEntry(row) THEN [owners EXCEPT ![row.identity] = @ \cup {CompanyOf(i)}]
               ELSE owners
  /\ Goes(o, Done(o, CompanyOf(i)))
  /\ UNCHANGED <<now, rounds, samples, findings, begun, setBacks>>

\* The command ends before its work does.
Stop(o) ==
  /\ command[o].pc # "idle"
  /\ Goes(o, Idle)
  /\ UNCHANGED <<now, rounds, observations, owners, samples, findings, begun, setBacks>>

-----------------------------------------------------------------------------
(* The audit                                                               *)

\* Five percent of each stratum, rounded up, by rank.
SampleSize(n) == (n * 5 + 99) \div 100

Accepted(r) == {i \in InRound(r) : observations[i].status = "accepted"}

FaultyDesired(r) ==  \* samples the round as one group
  {i \in Accepted(r) :
     Cardinality({j \in Accepted(r) : observations[j].identity < observations[i].identity})
       < SampleSize(Cardinality(Accepted(r)))}
Desired(r) ==
  {i \in Accepted(r) :
     LET group == {j \in Accepted(r) : Stratum(j) = Stratum(i)} IN
     Cardinality({j \in group : observations[j].identity < observations[i].identity})
       < SampleSize(Cardinality(group))}

Complete(r) == {CompanyOf(i) : i \in InRound(r)} = rounds[r].members

\* reconcile_evidence_audit_samples, after the last record of a regeneration.
\* All companies of the file have been observed by then.
Reconcile(g) ==
  LET r == command[g].round IN
  /\ g \in Regenerators
  /\ command[g].pc = "record" /\ command[g].todo = {}
  /\ RoundFree(r)
  /\ Complete(r)
  /\ samples \cap InRound(r) \subseteq Desired(r)
  /\ samples' = samples \cup Desired(r)
  /\ Goes(g, Idle)
  /\ UNCHANGED <<now, rounds, observations, owners, findings, begun, setBacks>>

FaultyAuditable == DOMAIN observations
Auditable == samples

\* evidence-audit: the finding and, when it is severe, the quarantine of the
\* observation.  A stored finding can only be replayed.
RecordFinding(s, severe) ==
  /\ s \in Auditable
  /\ s \notin DOMAIN findings
  /\ findings' = [i \in DOMAIN findings \cup {s} |-> IF i = s THEN severe ELSE findings[i]]
  /\ UNCHANGED <<now, rounds, observations, owners, samples, command, begun, setBacks>>

Tick ==
  /\ now < MaxTime
  /\ now' = now + 1
  /\ UNCHANGED <<rounds, observations, owners, samples, findings, command, begun, setBacks>>

ClockSetBack ==
  /\ now > 0 /\ setBacks < MaxSetBacks
  /\ now' = now - 1
  /\ setBacks' = setBacks + 1
  /\ UNCHANGED <<rounds, observations, owners, samples, findings, command, begun>>

-----------------------------------------------------------------------------
Init ==
  /\ now = 0
  /\ rounds = <<>>
  /\ observations = <<>>
  /\ owners = [u \in Urls |-> {}]
  /\ samples = {}
  /\ findings = <<>>
  /\ command = [o \in Operators |-> Idle]
  /\ begun = 0 /\ setBacks = 0

Next ==
  \/ \E d \in Discoverers : StartDiscovery(d) \/ BeginLegacy(d)
  \/ \E g \in Regenerators :
       \/ StartRegeneration(g) \/ CreateRound(g) \/ Load(g)
       \/ BeginInRound(g) \/ ReplayInRound(g) \/ Reconcile(g)
  \/ \E o \in Operators : Commit(o) \/ Stop(o)
  \/ \E s \in DOMAIN observations : \E severe \in BOOLEAN : RecordFinding(s, severe)
  \/ Tick \/ ClockSetBack

Spec == Init /\ [][Next]_vars

-----------------------------------------------------------------------------
\* Every variable has its type; audits are of samples and samples of rounds.
TypeOK ==
  /\ now \in 0 .. MaxTime /\ begun \in 0 .. MaxCommands /\ setBacks \in 0 .. MaxSetBacks
  /\ DOMAIN rounds \subseteq Rounds /\ \A r \in DOMAIN rounds : rounds[r] \in Round
  /\ DOMAIN observations \subseteq Ids
  /\ \A i \in DOMAIN observations : observations[i] \in Observation
  /\ owners \in [Urls -> SUBSET Companies]
  /\ samples \subseteq DOMAIN observations
  /\ DOMAIN findings \subseteq samples /\ \A s \in DOMAIN findings : findings[s] \in BOOLEAN
  /\ command \in [Operators -> Command]

\* Rounds, what was observed in them, samples and findings are never changed or
\* removed, while `discover` goes on rewriting its own observations: the
\* triggers of migration 0011 never have to refuse a step of the service.
EvidenceIsAppendOnly ==
  [][ /\ \A r \in DOMAIN rounds : r \in DOMAIN rounds' /\ rounds'[r] = rounds[r]
      /\ \A i \in DOMAIN observations :
           /\ i \in DOMAIN observations'
           /\ RoundOf(i) # NoRound => observations'[i] = observations[i]
      /\ samples \subseteq samples'
      /\ \A s \in DOMAIN findings : s \in DOMAIN findings' /\ findings'[s] = findings[s] ]_vars

\* An observation supersedes one of its own company that is older and, when
\* that one is of a round, of a round that started earlier, whatever the clock
\* did and whoever else was recording: the chains of predecessors end.
RoundChainsRunBack ==
  \A i \in DOMAIN observations :
    LET prior == observations[i].prior IN
    prior # NoRow =>
      /\ CompanyOf(prior) = CompanyOf(i)
      /\ RoundOf(prior) # NoRound =>
           /\ rounds[RoundOf(prior)].started < rounds[RoundOf(i)].started
           /\ observations[prior].at < observations[i].at

\* However many commands fill a round, and however often they are interrupted,
\* no company is observed twice in it and none that is not a member.
OncePerRound ==
  \A i \in DOMAIN observations :
    RoundOf(i) # NoRound =>
      /\ CompanyOf(i) \in rounds[RoundOf(i)].members
      /\ \A j \in InRound(RoundOf(i)) : CompanyOf(j) = CompanyOf(i) => j = i

\* A round is sampled only when it is complete; then every stratum that it
\* accepted something in has a sample, and only accepted entries are samples.
SamplesSpeakForRounds ==
  \A s \in samples :
    LET r == RoundOf(s) IN
    /\ r # NoRound /\ Complete(r)
    /\ observations[s].status = "accepted"
    /\ \A i \in InRound(r) :
         observations[i].status = "accepted" => \E t \in samples \cap InRound(r) : Stratum(t) = Stratum(i)

\* A company has an entry with a URL exactly when some observation accepted
\* that URL for it: no rewriting and no refused command leaves an entry
\* without its evidence.
EntriesFollowAcceptance ==
  \A c \in Companies : \A u \in Urls :
    c \in owners[u] <=> \E i \in ObservationsOf(c) :
                          observations[i].identity = u /\ observations[i].status = "accepted"

\* With one operator that runs `discover`, a company never has two legacy
\* observations, after which a retry is refused as ambiguous for ever.
OneLegacyPerCompany == \A c \in Companies : Cardinality(LegacyOf(c)) <= 1

\* tests/manifest/test_cli.py:1032: a resumed discovery reprocesses retryable
\* failures.  The observation it has loaded for a retry is a legacy one, which
\* is what transition_retryable_discovery_result rewrites.
ResumeCanRetry ==
  \A d \in Discoverers : \A c \in command[d].todo :
    command[d].known[c] # NoRow => RoundOf(command[d].known[c]) = NoRound

\* manifest/service.py:276: a URL belongs to one company.
EntriesHaveOneOwner == \A u \in Urls : Cardinality(owners[u]) <= 1

\* manifest/service.py:617: an observation in a round is newer than the one it
\* supersedes, a legacy one as well.
ChainsRunBack ==
  \A i \in DOMAIN observations :
    observations[i].prior # NoRow => observations[observations[i].prior].at < observations[i].at

\* Nothing is accepted automatically in a stratum while it is paused.
PausesTakeEffect ==
  [][ \A i \in DOMAIN observations' \ DOMAIN observations :
        RoundOf(i) # NoRound /\ observations'[i].status = "accepted" =>
          StratumOf[observations'[i].identity] \notin PausedStrata ]_vars
================================================================================
