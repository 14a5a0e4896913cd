------------------------- MODULE DiscoveryRoundsProofs -------------------------
(***************************************************************************)
(* Proofs about DiscoveryRounds, for any companies, rounds, evidence files *)
(* and operators, and whatever the clock does; then, from FirstRank on,    *)
(* about LiveDiscovery, for any manifest, sites, links and budgets.        *)
(*                                                                         *)
(* What is stored is right because of what a transaction knows between its *)
(* checks and its commit (SoundDraft): nobody else writes an observation   *)
(* of its company or of its round (Apart), so that what the checks found   *)
(* still holds when the row is written.                                    *)
(***************************************************************************)
EXTENDS DiscoveryRounds, LiveDiscovery, FiniteSetTheorems, WellFoundedInduction, TLAPS

\* The observations of a company in a round.
KeyOf(c, r) == {i \in ObservationsOf(c) : RoundOf(i) = r}

\* What an observation supersedes exists, and is of its company; one in a round
\* is older and of an earlier round.
PriorFits(i, row) ==
  row.prior # NoRow =>
    /\ row.prior \in DOMAIN observations
    /\ CompanyOf(row.prior) = CompanyOf(i)
    /\ RoundOf(i) \in DOMAIN rounds
    /\ RoundOf(row.prior) # NoRound =>
         /\ rounds[RoundOf(row.prior)].started < rounds[RoundOf(i)].started
         /\ observations[row.prior].at < row.at

\* The row that a transaction will write is a new one with the next number, or a
\* failed legacy one.
SoundDraft(o, k) ==
  /\ k.id \in Ids /\ k.draft \in Observation
  /\ k.draft.status = "accepted" => k.draft.identity \in Urls
  /\ \/ k.id \notin DOMAIN observations /\ k.id[3] = 1 + Cardinality(KeyOf(CompanyOf(k.id), RoundOf(k.id)))
     \/ /\ k.id \in DOMAIN observations /\ RoundOf(k.id) = NoRound
        /\ observations[k.id].status = "failed"
  /\ o \in Discoverers => RoundOf(k.id) = NoRound /\ k.draft.prior = NoRow
  /\ o \in Regenerators =>
       /\ RoundOf(k.id) = k.round
       /\ CompanyOf(k.id) \in rounds[k.round].members
       /\ \A j \in InRound(k.round) : CompanyOf(j) # CompanyOf(k.id)
       /\ PriorFits(k.id, k.draft)

\* A regeneration works on the members of a stored round, and what it read of
\* a company is of that company.
SoundRegeneration(k) ==
  /\ k.pc = "create" => k.round \in Rounds /\ k.todo = {}
  /\ k.pc \in {"load", "record", "commit"} =>
       /\ k.round \in DOMAIN rounds
       /\ DOMAIN k.file = rounds[k.round].members
       /\ k.todo \subseteq DOMAIN k.file
       /\ \A c \in k.todo : k.known[c] # NoRow => k.known[c] \in ObservationsOf(c)

Sound(o, k) ==
  /\ k \in Command
  /\ o \in Discoverers => k.pc \in {"idle", "record", "commit"}
  /\ o \in Regenerators => SoundRegeneration(k)
  /\ k.pc = "commit" => SoundDraft(o, k)

\* Two transactions write observations of different companies and rounds.
Apart(k, l) ==
  k.pc = "commit" /\ l.pc = "commit" =>
    RoundOf(k.id) # RoundOf(l.id) /\ CompanyOf(k.id) # CompanyOf(l.id)

\* What is stored, apart from the properties.
SoundTables ==
  /\ now \in 0 .. MaxTime /\ begun \in 0 .. MaxCommands /\ setBacks \in 0 .. MaxSetBacks
  /\ DOMAIN rounds \subseteq Rounds /\ \A r \in DOMAIN rounds : rounds[r] \in Round
  /\ DOMAIN observations \subseteq Ids /\ IsFiniteSet(DOMAIN observations)
  /\ \A i \in DOMAIN observations :
       /\ observations[i] \in Observation
       /\ observations[i].status = "accepted" => observations[i].identity \in Urls
       /\ RoundOf(i) # NoRound => RoundOf(i) \in DOMAIN rounds
       /\ i[3] <= Cardinality(KeyOf(CompanyOf(i), RoundOf(i)))
       /\ PriorFits(i, observations[i])
  /\ owners \in [Urls -> SUBSET Companies]
  /\ samples \subseteq DOMAIN observations
  /\ DOMAIN findings \subseteq samples /\ \A s \in DOMAIN findings : findings[s] \in BOOLEAN

IInv ==
  /\ SoundTables /\ OncePerRound /\ EntriesFollowAcceptance /\ SamplesSpeakForRounds
  /\ command \in [Operators -> Command]
  /\ \A o \in Operators : Sound(o, command[o])
  /\ \A o, p \in Operators : o # p => Apart(command[o], command[p])

-----------------------------------------------------------------------------
LEMMA IdleIsSound ==
  ASSUME NEW o \in Operators
  PROVE  Idle.pc = "idle" /\ Idle \in Command /\ Sound(o, Idle)
<1>1. Idle.pc = "idle"
  BY DEF Idle
<1>2. Idle \in Command
  BY DEF Idle, Command, Steps
<1>. QED  BY <1>1, <1>2 DEF Sound, SoundRegeneration

LEMMA InitEstablishesIInv == Init => IInv
<1>. SUFFICES ASSUME Init PROVE IInv
  OBVIOUS
<1>1. DOMAIN rounds = {} /\ DOMAIN observations = {} /\ DOMAIN findings = {} /\ samples = {}
  BY DEF Init
<1>2. SoundTables
  BY <1>1, FS_EmptySet, TimeAssumption DEF Init, SoundTables
<1>3. OncePerRound /\ EntriesFollowAcceptance /\ SamplesSpeakForRounds
  BY <1>1 DEF Init, OncePerRound, EntriesFollowAcceptance, SamplesSpeakForRounds, ObservationsOf
<1>4. \A o \in Operators : command[o] = Idle
  BY DEF Init
<1>5. command \in [Operators -> Command]
  BY IdleIsSound DEF Init
<1>. QED  BY <1>2, <1>3, <1>4, <1>5, IdleIsSound DEF IInv, Apart

\* Nothing but samples is stored: what the tables say of an operator stays.
LEMMA OneActs ==
  ASSUME IInv, NEW o \in Operators, NEW new,
         UNCHANGED <<rounds, observations, owners, findings>>,
         samples \subseteq samples', samples' \subseteq DOMAIN observations, SamplesSpeakForRounds',
         now' \in 0 .. MaxTime, begun' \in 0 .. MaxCommands, setBacks' \in 0 .. MaxSetBacks,
         command' = [command EXCEPT ![o] = new],
         Sound(o, new),
         \A p \in Operators \ {o} : Apart(new, command[p])
  PROVE  IInv'
<1>1. /\ command'[o] = new
      /\ \A p \in Operators \ {o} : command'[p] = command[p]
      /\ command' \in [Operators -> Command]
  BY DEF IInv, Sound
<1>2. \A r : InRound(r)' = InRound(r)
  BY DEF InRound
<1>3. \A c : ObservationsOf(c)' = ObservationsOf(c)
  BY DEF ObservationsOf
<1>4. \A c, r : KeyOf(c, r)' = KeyOf(c, r)
  BY <1>3 DEF KeyOf
<1>5. \A i, row : PriorFits(i, row)' <=> PriorFits(i, row)
  BY DEF PriorFits
<1>6. SoundTables'
  BY <1>4, <1>5 DEF IInv, SoundTables
<1>7. OncePerRound' /\ EntriesFollowAcceptance'
  BY <1>2, <1>3 DEF IInv, OncePerRound, EntriesFollowAcceptance
<1>8. ASSUME NEW p \in Operators PROVE Sound(p, command[p])'
  <2>1. Sound(p, command'[p])
    BY <1>1 DEF IInv
  <2>. DEFINE k == command'[p]
  <2>2. SoundDraft(p, k) => SoundDraft(p, command[p])'
    BY <1>2, <1>4, <1>5 DEF SoundDraft
  <2>3. SoundRegeneration(k) => SoundRegeneration(command[p])'
    BY <1>3 DEF SoundRegeneration
  <2>. QED  BY <2>1, <2>2, <2>3 DEF Sound
<1>9. ASSUME NEW p \in Operators, NEW q \in Operators, p # q PROVE Apart(command[p], command[q])'
  <2>1. Apart(command'[p], command'[q])
    BY <1>1, <1>9 DEF IInv, Apart
  <2>. QED  BY <2>1 DEF Apart
<1>. QED  BY <1>1, <1>6, <1>7, <1>8, <1>9 DEF IInv

\* Nothing is stored.
LEMMA OneMoves ==
  ASSUME IInv, NEW o \in Operators, NEW new,
         UNCHANGED <<rounds, observations, owners, samples, findings>>,
         now' \in 0 .. MaxTime, begun' \in 0 .. MaxCommands, setBacks' \in 0 .. MaxSetBacks,
         command' = [command EXCEPT ![o] = new],
         Sound(o, new),
         \A p \in Operators \ {o} : Apart(new, command[p])
  PROVE  IInv'
<1>1. \A r : InRound(r)' = InRound(r)
  BY DEF InRound
<1>2. SamplesSpeakForRounds'
  BY <1>1 DEF IInv, SamplesSpeakForRounds, Complete, Stratum
<1>3. samples' \subseteq DOMAIN observations
  BY DEF IInv, SoundTables
<1>. QED  BY <1>2, <1>3, OneActs

\* The next number of a company in a round is not in use.
LEMMA NewIdIsNew ==
  ASSUME IInv, NEW c \in Companies, NEW r \in Rounds \cup {NoRound}
  PROVE  /\ NewId(c, r) \in Ids /\ NewId(c, r) \notin DOMAIN observations
         /\ CompanyOf(NewId(c, r)) = c /\ RoundOf(NewId(c, r)) = r
         /\ NewId(c, r)[3] = 1 + Cardinality(KeyOf(c, r))
<1>1. IsFiniteSet(KeyOf(c, r)) /\ Cardinality(KeyOf(c, r)) \in Nat
  <2>1. KeyOf(c, r) \subseteq DOMAIN observations
    BY DEF KeyOf, ObservationsOf
  <2>. QED  BY <2>1, FS_Subset, FS_CardinalityType DEF IInv, SoundTables
<1>2. NewId(c, r) = <<c, r, 1 + Cardinality(KeyOf(c, r))>>
  BY DEF NewId, KeyOf
<1>3. \A i \in DOMAIN observations : CompanyOf(i) = c /\ RoundOf(i) = r => i[3] <= Cardinality(KeyOf(c, r))
  BY DEF IInv, SoundTables
<1>. QED  BY <1>1, <1>2, <1>3 DEF Ids, CompanyOf, RoundOf

\* An operator who is not about to commit gets in nobody's way.
LEMMA ReadersAreApart ==
  ASSUME NEW new, new.pc # "commit", NEW l
  PROVE  Apart(new, l)
  BY DEF Apart

\* The locks of a transaction keep it apart from the others.
LEMMA LocksKeepApart ==
  ASSUME IInv, NEW o \in Operators, NEW new, RoundFree(RoundOf(new.id)), MemberFree(CompanyOf(new.id))
  PROVE  \A p \in Operators \ {o} : Apart(new, command[p])
  BY DEF Apart, RoundFree, MemberFree, Writing

LEMMA StartDiscoveryKeepsIInv ==
  ASSUME IInv, NEW d \in Discoverers, StartDiscovery(d)
  PROVE  IInv'
<1>1. d \in Operators /\ d \notin Regenerators /\ command \in [Operators -> Command]
  BY OperatorsAssumption DEF Operators, IInv
<1>2. PICK last \in [Companies -> DOMAIN observations \cup {NoRow}] :
        Goes(d, [Idle EXCEPT
                   !.pc = "record",
                   !.todo = {c \in Companies : last[c] # NoRow => observations[last[c]].status = "failed"},
                   !.known = [c \in Companies |-> IF c \in Retries(last) THEN last[c] ELSE NoRow]])
  BY DEF StartDiscovery
<1>. DEFINE todo == {c \in Companies : last[c] # NoRow => observations[last[c]].status = "failed"}
            known == [c \in Companies |-> IF c \in Retries(last) THEN last[c] ELSE NoRow]
            new == [Idle EXCEPT !.pc = "record", !.todo = todo, !.known = known]
<1>3. command' = [command EXCEPT ![d] = new]
  BY <1>2 DEF Goes
<1>4. todo \subseteq Companies /\ known \in [Companies -> Ids \cup {NoRow}]
  BY DEF IInv, SoundTables
<1>. HIDE DEF todo, known
<1>5. new \in Command /\ new.pc = "record"
  BY <1>4, IdleIsSound DEF Idle, Command, Steps
<1>. HIDE DEF new
<1>6. Sound(d, new)
  BY <1>1, <1>5 DEF Sound
<1>7. /\ UNCHANGED <<rounds, observations, owners, samples, findings>>
      /\ now' \in 0 .. MaxTime /\ begun' \in 0 .. MaxCommands /\ setBacks' \in 0 .. MaxSetBacks
  BY TimeAssumption DEF StartDiscovery, IInv, SoundTables
<1>. QED  BY <1>1, <1>3, <1>5, <1>6, <1>7, ReadersAreApart, OneMoves

\* A command that begins to commit a row goes on with the rest of what it knows.
LEMMA BeginsTyped ==
  ASSUME NEW o \in Operators, command \in [Operators -> Command],
         NEW i \in Ids, NEW row \in Observation, Begins(o, i, row)
  PROVE  \E new \in Command :
           /\ command' = [command EXCEPT ![o] = new]
           /\ new.pc = "commit" /\ new.id = i /\ new.draft = row
           /\ new.round = command[o].round /\ new.file = command[o].file
           /\ new.todo = command[o].todo /\ new.known = command[o].known
<1>. DEFINE k == command[o]
            new == [k EXCEPT !.pc = "commit", !.id = i, !.draft = row]
<1>1. command' = [command EXCEPT ![o] = new]
  BY DEF Begins, Goes
<1>2. k \in Command
  OBVIOUS
<1>. HIDE DEF k
<1>3. new.pc = "commit" /\ new.id = i /\ new.draft = row
  BY <1>2 DEF Command
<1>4. new.round = k.round /\ new.file = k.file /\ new.todo = k.todo /\ new.known = k.known
  BY <1>2 DEF Command
<1>5. new \in Command
  BY <1>2 DEF Command, Steps
<1>. HIDE DEF new
<1>. QED  BY <1>1, <1>3, <1>4, <1>5 DEF k

LEMMA BeginLegacyKeepsIInv ==
  ASSUME IInv, NEW d \in Discoverers, BeginLegacy(d)
  PROVE  IInv'
<1>1. d \in Operators /\ d \notin Regenerators /\ command \in [Operators -> Command]
  BY OperatorsAssumption DEF Operators, IInv
<1>2. PICK c \in command[d].todo : \E found \in Results[c] :
        /\ ManifestFree /\ MemberFree(c)
        /\ \/ /\ MayRecord(d, c, LegacyRow(found))
              /\ Begins(d, NewId(c, NoRound), LegacyRow(found))
           \/ /\ MayRewrite(d, c, LegacyRow(found))
              /\ Begins(d, command[d].known[c], LegacyRow(found))
  BY DEF BeginLegacy
<1>3. c \in Companies
  BY <1>1 DEF Command
<1>11. PICK found \in Results[c] :
        /\ ManifestFree /\ MemberFree(c)
        /\ \/ /\ MayRecord(d, c, LegacyRow(found))
              /\ Begins(d, NewId(c, NoRound), LegacyRow(found))
           \/ /\ MayRewrite(d, c, LegacyRow(found))
              /\ Begins(d, command[d].known[c], LegacyRow(found))
  BY <1>2
<1>. DEFINE row == LegacyRow(found)
<1>4. /\ row \in Observation /\ row.prior = NoRow
      /\ row.status = "accepted" => row.identity \in Urls
  BY <1>3, ResultsAssumption, TimeAssumption DEF LegacyRow, Observation, Statuses, IInv, SoundTables
<1>5. PICK i : /\ Begins(d, i, row)
               /\ i \in Ids /\ CompanyOf(i) = c /\ RoundOf(i) = NoRound
               /\ \/ i \notin DOMAIN observations /\ i[3] = 1 + Cardinality(KeyOf(c, NoRound))
                  \/ i \in DOMAIN observations /\ observations[i].status = "failed"
  <2>1. CASE MayRecord(d, c, row) /\ Begins(d, NewId(c, NoRound), row)
    BY <1>3, <2>1, NewIdIsNew
  <2>2. CASE MayRewrite(d, c, row) /\ Begins(d, command[d].known[c], row)
    <3>1. command[d].known[c] \in LegacyOf(c) /\ observations[command[d].known[c]].status = "failed"
      BY <2>2 DEF MayRewrite
    <3>. QED  BY <2>2, <3>1 DEF LegacyOf, ObservationsOf, IInv, SoundTables
  <2>. QED  BY <1>11, <2>1, <2>2
<1>. HIDE DEF row
<1>7. PICK new \in Command :
        /\ command' = [command EXCEPT ![d] = new]
        /\ new.pc = "commit" /\ new.id = i /\ new.draft = row
  BY <1>1, <1>4, <1>5, BeginsTyped
<1>8. Sound(d, new)
  BY <1>1, <1>4, <1>5, <1>7 DEF Sound, SoundDraft
<1>9. \A p \in Operators \ {d} : Apart(new, command[p])
  BY <1>1, <1>11, <1>5, <1>7, LocksKeepApart DEF ManifestFree, RoundFree
<1>10. /\ UNCHANGED <<rounds, observations, owners, samples, findings>>
       /\ now' \in 0 .. MaxTime /\ begun' \in 0 .. MaxCommands /\ setBacks' \in 0 .. MaxSetBacks
  BY DEF BeginLegacy, IInv, SoundTables
<1>. QED  BY <1>1, <1>7, <1>8, <1>9, <1>10, OneMoves

LEMMA StopKeepsIInv ==
  ASSUME IInv, NEW o \in Operators, Stop(o)
  PROVE  IInv'
<1>1. command' = [command EXCEPT ![o] = Idle]
  BY DEF Stop, Goes
<1>2. /\ UNCHANGED <<rounds, observations, owners, samples, findings>>
      /\ now' \in 0 .. MaxTime /\ begun' \in 0 .. MaxCommands /\ setBacks' \in 0 .. MaxSetBacks
  BY DEF Stop, IInv, SoundTables
<1>3. \A p \in Operators \ {o} : Apart(Idle, command[p])
  BY IdleIsSound, ReadersAreApart
<1>. QED  BY <1>1, <1>2, <1>3, IdleIsSound, OneMoves

LEMMA StartRegenerationKeepsIInv ==
  ASSUME IInv, NEW g \in Regenerators, StartRegeneration(g)
  PROVE  IInv'
<1>1. g \in Operators /\ g \notin Discoverers
  BY OperatorsAssumption DEF Operators
<1>2. PICK r \in Rounds, file \in Files : \E latest \in IF DOMAIN rounds = {} THEN {NoRound} ELSE LatestRounds :
        /\ r \in DOMAIN rounds => file # NoFile /\ DOMAIN file = rounds[r].members
        /\ Goes(g, [Idle EXCEPT !.pc = IF r \in DOMAIN rounds THEN "load" ELSE "create",
                                !.round = r, !.file = file, !.paused = PausedStrata,
                                !.latest = IF r \in DOMAIN rounds THEN NoRound ELSE latest])
  BY DEF StartRegeneration
<1>3. PICK latest \in Rounds \cup {NoRound} :
        Goes(g, [Idle EXCEPT !.pc = IF r \in DOMAIN rounds THEN "load" ELSE "create",
                             !.round = r, !.file = file, !.paused = PausedStrata,
                             !.latest = IF r \in DOMAIN rounds THEN NoRound ELSE latest])
  BY <1>2 DEF LatestRounds, IInv, SoundTables
<1>. DEFINE step == IF r \in DOMAIN rounds THEN "load" ELSE "create"
            paused == PausedStrata
            last == IF r \in DOMAIN rounds THEN NoRound ELSE latest
            new == [Idle EXCEPT !.pc = step, !.round = r, !.file = file, !.paused = paused, !.latest = last]
<1>4. command' = [command EXCEPT ![g] = new]
  BY <1>3 DEF Goes
<1>5. paused \subseteq Strata
  <2>1. \A s \in DOMAIN findings : s \in DOMAIN observations /\ observations[s].identity \in Urls
    BY DEF IInv, SoundTables, SamplesSpeakForRounds
  <2>2. \A s \in DOMAIN findings : Stratum(s) \in Strata
    BY <2>1, StrataAssumption DEF Stratum
  <2>. QED  BY <2>2 DEF PausedStrata
<1>6. /\ last \in Rounds \cup {NoRound} /\ step \in {"create", "load"}
      /\ step = "load" => r \in DOMAIN rounds /\ DOMAIN file = rounds[r].members
  BY <1>2, <1>3
<1>. HIDE DEF step, paused, last
<1>7. new.pc = step /\ new.round = r /\ new.file = file /\ new.todo = {}
  BY IdleIsSound DEF Idle
<1>12. step \in Steps /\ paused \in SUBSET Strata /\ file \in Files \cup {NoFile}
  BY <1>5, <1>6 DEF Steps
<1>8. new \in Command
  BY <1>6, <1>12, IdleIsSound DEF Idle, Command, Steps
<1>. HIDE DEF new
<1>9. Sound(g, new)
  BY <1>1, <1>6, <1>7, <1>8 DEF Sound, SoundRegeneration
<1>10. \A p \in Operators \ {g} : Apart(new, command[p])
  BY <1>6, <1>7, ReadersAreApart
<1>11. /\ UNCHANGED <<rounds, observations, owners, samples, findings>>
       /\ now' \in 0 .. MaxTime /\ begun' \in 0 .. MaxCommands /\ setBacks' \in 0 .. MaxSetBacks
  BY TimeAssumption DEF StartRegeneration, IInv, SoundTables
<1>. QED  BY <1>1, <1>4, <1>9, <1>10, <1>11, OneMoves

LEMMA LoadKeepsIInv ==
  ASSUME IInv, NEW g \in Regenerators, Load(g)
  PROVE  IInv'
<1>1. g \in Operators /\ g \notin Discoverers
  BY OperatorsAssumption DEF Operators
<1>. DEFINE k == command[g]
<1>2. k \in Command /\ SoundRegeneration(k)
  BY <1>1 DEF IInv, Sound
<1>3. PICK prior \in [Companies -> DOMAIN observations \cup {NoRow}] :
        /\ \A c \in Companies :
             prior[c] \in IF c \in Pending(g) THEN LatestOrNone(Earlier(k.round, c)) ELSE {NoRow}
        /\ Goes(g, [k EXCEPT
                      !.pc = "record", !.todo = Pending(g), !.known = prior,
                      !.seen = [c \in Companies |->
                                  IF prior[c] = NoRow THEN 0 ELSE observations[prior[c]].at]])
  BY DEF Load
<1>. DEFINE todo == Pending(g)
            seen == [c \in Companies |-> IF prior[c] = NoRow THEN 0 ELSE observations[prior[c]].at]
            new == [k EXCEPT !.pc = "record", !.todo = todo, !.known = prior, !.seen = seen]
<1>4. command' = [command EXCEPT ![g] = new]
  BY <1>3 DEF Goes
<1>5. k.round \in DOMAIN rounds /\ DOMAIN k.file = rounds[k.round].members
  BY <1>2 DEF Load, SoundRegeneration
<1>6. todo \subseteq DOMAIN k.file /\ todo \subseteq Companies
  <2>1. todo \subseteq DOMAIN k.file
    BY DEF Pending
  <2>2. rounds[k.round].members \subseteq Companies
    BY <1>5 DEF IInv, SoundTables, Round
  <2>. QED  BY <1>5, <2>1, <2>2
<1>7. \A c \in todo : prior[c] # NoRow => prior[c] \in ObservationsOf(c)
  BY <1>3, <1>6 DEF LatestOrNone, Latest, Earlier
<1>8. prior \in [Companies -> Ids \cup {NoRow}] /\ seen \in [Companies -> Nat]
  <2>1. prior \in [Companies -> Ids \cup {NoRow}]
    BY DEF IInv, SoundTables
  <2>2. \A c \in Companies : prior[c] # NoRow => observations[prior[c]].at \in Nat
    BY DEF IInv, SoundTables, Observation
  <2>. QED  BY <2>1, <2>2
<1>. HIDE DEF k, todo, seen
<1>9. new.pc = "record" /\ new.round = k.round /\ new.file = k.file /\ new.todo = todo /\ new.known = prior
  BY <1>2 DEF Command
<1>10. new \in Command
  BY <1>2, <1>6, <1>8 DEF Command, Steps
<1>. HIDE DEF new
<1>11. Sound(g, new)
  BY <1>1, <1>5, <1>6, <1>7, <1>9, <1>10 DEF Sound, SoundRegeneration
<1>12. \A p \in Operators \ {g} : Apart(new, command[p])
  BY <1>9, ReadersAreApart
<1>13. /\ UNCHANGED <<rounds, observations, owners, samples, findings>>
       /\ now' \in 0 .. MaxTime /\ begun' \in 0 .. MaxCommands /\ setBacks' \in 0 .. MaxSetBacks
  BY DEF Load, IInv, SoundTables
<1>. QED  BY <1>1, <1>4, <1>11, <1>12, <1>13, OneMoves

LEMMA BeginInRoundKeepsIInv ==
  ASSUME IInv, NEW g \in Regenerators, BeginInRound(g)
  PROVE  IInv'
<1>1. g \in Operators /\ g \notin Discoverers /\ command \in [Operators -> Command]
  BY OperatorsAssumption DEF Operators, IInv
<1>. DEFINE k == command[g]
            r == k.round
<1>2. k \in Command /\ SoundRegeneration(k)
  BY <1>1 DEF IInv, Sound
<1>3. /\ k.pc = "record" /\ r \in DOMAIN rounds /\ r \in Rounds
      /\ DOMAIN k.file = rounds[r].members /\ k.todo \subseteq DOMAIN k.file
      /\ \A c \in k.todo : k.known[c] # NoRow => k.known[c] \in ObservationsOf(c)
  BY <1>2 DEF BeginInRound, SoundRegeneration, IInv, SoundTables
<1>4. PICK c \in k.todo : \E status \in Judgements(g, c) :
        /\ RoundFree(r) /\ MemberFree(c) /\ IsNew(r, c)
        /\ PredecessorFits(r, RoundRow(g, c, status))
        /\ Begins(g, NewId(c, r), RoundRow(g, c, status))
  BY DEF BeginInRound
<1>5. PICK status \in Judgements(g, c) :
        /\ RoundFree(r) /\ MemberFree(c) /\ IsNew(r, c)
        /\ PredecessorFits(r, RoundRow(g, c, status))
        /\ Begins(g, NewId(c, r), RoundRow(g, c, status))
  BY <1>4
<1>6. status \in Statuses
  BY VerdictsAssumption DEF Judgements, Statuses
<1>7. c \in Companies /\ k.file[c] \in Urls /\ c \in rounds[r].members
  <2>1. k.file \in Files
    BY <1>2, <1>3 DEF Command, NoFile
  <2>. QED  BY <1>3, <2>1, FilesAssumption
<1>. DEFINE row == RoundRow(g, c, status)
<1>8. row \in Observation /\ row.identity \in Urls /\ row.prior = k.known[c]
  <2>1. now \in Nat /\ k.seen[c] \in Nat /\ k.known[c] \in Ids \cup {NoRow}
    BY <1>2, <1>7, TimeAssumption DEF IInv, SoundTables, Command
  <2>2. Dated(g, c) \in Nat
    BY <2>1 DEF Dated
  <2>. QED  BY <1>6, <1>7, <2>1, <2>2 DEF RoundRow, Observation
<1>. DEFINE i == NewId(c, r)
<1>9. /\ i \in Ids /\ i \notin DOMAIN observations /\ CompanyOf(i) = c /\ RoundOf(i) = r
      /\ i[3] = 1 + Cardinality(KeyOf(c, r))
  BY <1>3, <1>7, NewIdIsNew
<1>10. PriorFits(i, row)
  BY <1>3, <1>5, <1>8, <1>9 DEF PriorFits, PredecessorFits, ObservationsOf
<1>11. Begins(g, i, row) /\ \A j \in InRound(r) : CompanyOf(j) # c
  BY <1>5 DEF IsNew
<1>. HIDE DEF row, i
<1>12. PICK new \in Command :
         /\ command' = [command EXCEPT ![g] = new]
         /\ new.pc = "commit" /\ new.id = i /\ new.draft = row
         /\ new.round = k.round /\ new.file = k.file /\ new.todo = k.todo /\ new.known = k.known
  BY <1>1, <1>8, <1>9, <1>11, BeginsTyped
<1>13. SoundRegeneration(new)
  BY <1>3, <1>12 DEF SoundRegeneration
<1>14. SoundDraft(g, new)
  BY <1>1, <1>7, <1>8, <1>9, <1>10, <1>11, <1>12 DEF SoundDraft
<1>15. Sound(g, new)
  BY <1>1, <1>12, <1>13, <1>14 DEF Sound
<1>16. \A p \in Operators \ {g} : Apart(new, command[p])
  BY <1>1, <1>5, <1>9, <1>12, LocksKeepApart
<1>17. /\ UNCHANGED <<rounds, observations, owners, samples, findings>>
       /\ now' \in 0 .. MaxTime /\ begun' \in 0 .. MaxCommands /\ setBacks' \in 0 .. MaxSetBacks
  BY DEF BeginInRound, IInv, SoundTables
<1>. QED  BY <1>1, <1>12, <1>15, <1>16, <1>17, OneMoves

\* A company that is dealt with is off the list; the rest of what the operator
\* works from stays.
LEMMA DoneTyped ==
  ASSUME NEW o \in Operators, command[o] \in Command, NEW c \in Companies
  PROVE  LET done == Done(o, c) IN
         /\ done \in Command /\ done.pc = "record"
         /\ done.round = command[o].round /\ done.file = command[o].file
         /\ done.todo = command[o].todo \ {c}
         /\ \A d \in Companies \ {c} : done.known[d] = command[o].known[d]
<1>. DEFINE k == command[o]
            todo == k.todo \ {c}
            known == [k.known EXCEPT ![c] = NoRow]
            seen == [k.seen EXCEPT ![c] = 0]
            done == [k EXCEPT !.pc = "record", !.todo = todo, !.id = NoRow, !.draft = <<>>,
                              !.known = known, !.seen = seen]
<1>1. Done(o, c) = done
  BY DEF Done, Command
<1>2. /\ todo \in SUBSET Companies /\ known \in [Companies -> Ids \cup {NoRow}]
      /\ seen \in [Companies -> Nat]
      /\ \A d \in Companies \ {c} : known[d] = k.known[d]
  BY DEF Command
<1>3. k \in Command
  OBVIOUS
<1>4. todo = k.todo \ {c}
  OBVIOUS
<1>. HIDE DEF k, todo, known, seen
<1>5. /\ done.pc = "record" /\ done.round = k.round /\ done.file = k.file
      /\ done.todo = todo /\ done.known = known
  BY <1>3 DEF Command
<1>6. done \in Command
  BY <1>2, <1>3 DEF Command, Steps
<1>. HIDE DEF done
<1>. QED  BY <1>1, <1>2, <1>4, <1>5, <1>6 DEF k

LEMMA ReplayInRoundKeepsIInv ==
  ASSUME IInv, NEW g \in Regenerators, ReplayInRound(g)
  PROVE  IInv'
<1>1. g \in Operators /\ g \notin Discoverers
  BY OperatorsAssumption DEF Operators
<1>2. command[g] \in Command /\ SoundRegeneration(command[g]) /\ command[g].pc = "record"
  BY <1>1 DEF IInv, Sound, ReplayInRound
<1>3. PICK c \in command[g].todo : Goes(g, Done(g, c))
  BY DEF ReplayInRound
<1>4. c \in Companies
  BY <1>2 DEF Command
<1>. DEFINE new == Done(g, c)
<1>5. command' = [command EXCEPT ![g] = new]
  BY <1>3 DEF Goes
<1>6. /\ new \in Command /\ new.pc = "record"
      /\ new.round = command[g].round /\ new.file = command[g].file
      /\ new.todo = command[g].todo \ {c}
      /\ \A d \in Companies \ {c} : new.known[d] = command[g].known[d]
  BY <1>1, <1>2, <1>4, DoneTyped
<1>. HIDE DEF new
<1>7. command[g].todo \subseteq Companies
  BY <1>2 DEF Command
<1>8. Sound(g, new)
  BY <1>1, <1>2, <1>6, <1>7 DEF Sound, SoundRegeneration
<1>9. \A p \in Operators \ {g} : Apart(new, command[p])
  BY <1>6, ReadersAreApart
<1>10. /\ UNCHANGED <<rounds, observations, owners, samples, findings>>
       /\ now' \in 0 .. MaxTime /\ begun' \in 0 .. MaxCommands /\ setBacks' \in 0 .. MaxSetBacks
  BY DEF ReplayInRound, IInv, SoundTables
<1>. QED  BY <1>1, <1>5, <1>8, <1>9, <1>10, OneMoves

\* What is said of the tables and the operators rests on neither the clock nor
\* the findings.
LEMMA EvidenceStaysSound ==
  ASSUME IInv, UNCHANGED <<rounds, observations, owners, samples, command>>,
         now' \in 0 .. MaxTime, begun' \in 0 .. MaxCommands, setBacks' \in 0 .. MaxSetBacks,
         DOMAIN findings' \subseteq samples, \A s \in DOMAIN findings' : findings'[s] \in BOOLEAN
  PROVE  IInv'
<1>1. \A r : InRound(r)' = InRound(r)
  BY DEF InRound
<1>2. \A c : ObservationsOf(c)' = ObservationsOf(c)
  BY DEF ObservationsOf
<1>3. \A c, r : KeyOf(c, r)' = KeyOf(c, r)
  BY <1>2 DEF KeyOf
<1>4. \A i, row : PriorFits(i, row)' <=> PriorFits(i, row)
  BY DEF PriorFits
<1>5. SoundTables'
  BY <1>3, <1>4 DEF IInv, SoundTables
<1>6. OncePerRound' /\ EntriesFollowAcceptance' /\ SamplesSpeakForRounds'
  BY <1>1, <1>2 DEF IInv, OncePerRound, EntriesFollowAcceptance, SamplesSpeakForRounds, Complete, Stratum
<1>7. ASSUME NEW p \in Operators PROVE Sound(p, command[p])'
  <2>. DEFINE k == command[p]
  <2>1. Sound(p, k)
    BY DEF IInv
  <2>2. SoundDraft(p, k) => SoundDraft(p, k)'
    BY <1>1, <1>3, <1>4 DEF SoundDraft
  <2>3. SoundRegeneration(k) => SoundRegeneration(k)'
    BY <1>2 DEF SoundRegeneration
  <2>. QED  BY <2>1, <2>2, <2>3 DEF Sound
<1>8. \A p, q \in Operators : p # q => Apart(command[p], command[q])'
  BY DEF IInv, Apart
<1>9. command' \in [Operators -> Command]
  BY DEF IInv
<1>. QED  BY <1>5, <1>6, <1>7, <1>8, <1>9 DEF IInv

LEMMA RecordFindingKeepsIInv ==
  ASSUME IInv, NEW s \in DOMAIN observations, NEW severe \in BOOLEAN, RecordFinding(s, severe)
  PROVE  IInv'
<1>1. DOMAIN findings' \subseteq samples /\ \A i \in DOMAIN findings' : findings'[i] \in BOOLEAN
  <2>1. s \in samples
    BY DEF RecordFinding, Auditable
  <2>2. DOMAIN findings' = DOMAIN findings \cup {s}
    BY DEF RecordFinding
  <2>3. \A i \in DOMAIN findings' : findings'[i] = IF i = s THEN severe ELSE findings[i]
    BY <2>2 DEF RecordFinding
  <2>. QED  BY <2>1, <2>2, <2>3 DEF IInv, SoundTables
<1>2. /\ UNCHANGED <<rounds, observations, owners, samples, command>>
      /\ now' \in 0 .. MaxTime /\ begun' \in 0 .. MaxCommands /\ setBacks' \in 0 .. MaxSetBacks
  BY DEF RecordFinding, IInv, SoundTables
<1>. QED  BY <1>1, <1>2, EvidenceStaysSound

LEMMA ClockKeepsIInv ==
  ASSUME IInv, Tick \/ ClockSetBack
  PROVE  IInv'
<1>1. UNCHANGED <<rounds, observations, owners, samples, findings, command, begun>>
  BY DEF Tick, ClockSetBack
<1>2. now' \in 0 .. MaxTime /\ begun' \in 0 .. MaxCommands /\ setBacks' \in 0 .. MaxSetBacks
  BY <1>1, TimeAssumption DEF Tick, ClockSetBack, IInv, SoundTables
<1>3. DOMAIN findings' \subseteq samples /\ \A s \in DOMAIN findings' : findings'[s] \in BOOLEAN
  BY <1>1 DEF IInv, SoundTables
<1>. QED  BY <1>1, <1>2, <1>3, EvidenceStaysSound

\* A round that is created is a new one, or it is stored as it would be created.
LEMMA CreateRoundAdds ==
  ASSUME IInv, NEW g \in Regenerators, CreateRound(g)
  PROVE  /\ command[g].round \in Rounds
         /\ DOMAIN rounds' = DOMAIN rounds \cup {command[g].round}
         /\ \A r \in DOMAIN rounds : rounds'[r] = rounds[r]
         /\ \A r \in DOMAIN rounds' : rounds'[r] \in Round
         /\ rounds'[command[g].round].members = DOMAIN command[g].file
<1>. DEFINE k == command[g]
            r == k.round
            row == [started |-> now, members |-> DOMAIN k.file, predecessor |-> k.latest]
<1>1. k \in Command /\ r \in Rounds
  BY DEF IInv, Sound, SoundRegeneration, CreateRound, Operators
<1>2. /\ DOMAIN rounds' = DOMAIN rounds \cup {r}
      /\ \A n \in DOMAIN rounds' : rounds'[n] = IF n = r THEN row ELSE rounds[n]
      /\ r \in DOMAIN rounds => rounds[r] = row
  BY DEF CreateRound
<1>3. row \in Round
  <2>1. k.file \in Files \/ k.file = NoFile
    BY <1>1 DEF Command
  <2>2. k.file \in Files => DOMAIN k.file \subseteq Companies
    BY FilesAssumption
  <2>3. k.file = NoFile => DOMAIN k.file \subseteq Companies
    BY DEF NoFile
  <2>4. k.latest \in Rounds \cup {NoRound} /\ now \in Nat
    BY <1>1, TimeAssumption DEF Command, IInv, SoundTables
  <2>. QED  BY <2>1, <2>2, <2>3, <2>4 DEF Round
<1>4. row.members = DOMAIN k.file
  OBVIOUS
<1>. HIDE DEF row
<1>. QED  BY <1>1, <1>2, <1>3, <1>4 DEF IInv, SoundTables

LEMMA CreateRoundKeepsIInv ==
  ASSUME IInv, NEW g \in Regenerators, CreateRound(g)
  PROVE  IInv'
<1>1. g \in Operators /\ g \notin Discoverers /\ command[g] \in Command /\ SoundRegeneration(command[g])
  BY OperatorsAssumption DEF Operators, IInv, Sound
<1>2. /\ command[g].round \in Rounds
      /\ DOMAIN rounds' = DOMAIN rounds \cup {command[g].round}
      /\ \A r \in DOMAIN rounds : rounds'[r] = rounds[r]
      /\ \A r \in DOMAIN rounds' : rounds'[r] \in Round
      /\ rounds'[command[g].round].members = DOMAIN command[g].file
  BY CreateRoundAdds
<1>3. UNCHANGED <<now, observations, owners, samples, findings, begun, setBacks>>
  BY DEF CreateRound
<1>4. PICK new \in Command :
        /\ command' = [command EXCEPT ![g] = new]
        /\ new.pc \in {"idle", "load"} /\ new.todo = {}
        /\ new.round = command[g].round \/ new.pc = "idle"
        /\ new.file = command[g].file \/ new.pc = "idle"
  <2>1. command[g].todo = {}
    BY <1>1 DEF SoundRegeneration, CreateRound
  <2>2. command \in [Operators -> Command]
    BY DEF IInv
  <2>3. CASE command' = [command EXCEPT ![g] = Idle]
    BY <1>1, <2>2, <2>3, IdleIsSound DEF Idle
  <2>4. CASE command' = [command EXCEPT ![g] = [command[g] EXCEPT !.pc = "load", !.latest = NoRound]]
    <3>. DEFINE k == command[g]
                load == [k EXCEPT !.pc = "load", !.latest = NoRound]
    <3>1. k \in Command
      BY <1>1
    <3>2. command' = [command EXCEPT ![g] = load]
      BY <2>4
    <3>3. k.todo = {}
      BY <2>1
    <3>. HIDE DEF k
    <3>4. load.pc = "load" /\ load.round = k.round /\ load.file = k.file /\ load.todo = k.todo
      BY <3>1 DEF Command
    <3>5. load \in Command
      BY <3>1 DEF Command, Steps
    <3>. HIDE DEF load
    <3>. QED  BY <3>2, <3>3, <3>4, <3>5 DEF k
  <2>. QED  BY <2>3, <2>4 DEF CreateRound, Goes
<1>5. \A r : InRound(r)' = InRound(r)
  BY <1>3 DEF InRound
<1>6. \A c : ObservationsOf(c)' = ObservationsOf(c)
  BY <1>3 DEF ObservationsOf
<1>7. \A c, r : KeyOf(c, r)' = KeyOf(c, r)
  BY <1>6 DEF KeyOf
<1>8. \A i, row : PriorFits(i, row) => PriorFits(i, row)'
  <2>1. \A j \in DOMAIN observations : RoundOf(j) # NoRound => RoundOf(j) \in DOMAIN rounds
    BY DEF IInv, SoundTables
  <2>. QED  BY <1>2, <1>3, <2>1 DEF PriorFits
<1>9. SoundTables'
  BY <1>2, <1>3, <1>7, <1>8 DEF IInv, SoundTables
<1>10. \A i \in DOMAIN observations : RoundOf(i) # NoRound => rounds'[RoundOf(i)] = rounds[RoundOf(i)]
  BY <1>2 DEF IInv, SoundTables
<1>11. OncePerRound' /\ EntriesFollowAcceptance'
  BY <1>3, <1>5, <1>6, <1>10 DEF IInv, OncePerRound, EntriesFollowAcceptance
<1>12. SamplesSpeakForRounds'
  <2>1. \A s \in samples : s \in DOMAIN observations
    BY DEF IInv, SoundTables
  <2>. QED  BY <1>3, <1>5, <1>10, <2>1 DEF IInv, SamplesSpeakForRounds, Complete, Stratum
<1>13. ASSUME NEW p \in Operators, NEW k, Sound(p, k) PROVE Sound(p, k)'
  <2>1. SoundRegeneration(k) => SoundRegeneration(k)'
    BY <1>2, <1>6 DEF SoundRegeneration
  <2>2. ASSUME p \in Regenerators => k.round \in DOMAIN rounds, SoundDraft(p, k) PROVE SoundDraft(p, k)'
    BY <1>2, <1>3, <1>5, <1>7, <1>8, <2>2 DEF SoundDraft
  <2>3. k.pc = "commit" /\ p \in Regenerators => k.round \in DOMAIN rounds
    BY <1>13 DEF Sound, SoundRegeneration
  <2>. QED  BY <1>13, <2>1, <2>2, <2>3 DEF Sound
<1>14. Sound(g, new)'
  BY <1>1, <1>2, <1>4 DEF Sound, SoundRegeneration
<1>15. ASSUME NEW p \in Operators PROVE Sound(p, command[p])'
  <2>1. PICK k : k = command'[p]
    OBVIOUS
  <2>2. Sound(p, k)'
    BY <1>4, <1>13, <1>14, <2>1 DEF IInv
  <2>. QED  BY <2>1, <2>2 DEF Sound, SoundRegeneration, SoundDraft, PriorFits
<1>16. ASSUME NEW p \in Operators, NEW q \in Operators, p # q PROVE Apart(command[p], command[q])'
  BY <1>1, <1>4, <1>16 DEF IInv, Apart
<1>17. command' \in [Operators -> Command]
  BY <1>1, <1>4 DEF IInv
<1>. QED  BY <1>9, <1>11, <1>12, <1>15, <1>16, <1>17 DEF IInv

-----------------------------------------------------------------------------
(* A commit.  The row it writes is the only one that changes, and it speaks *)
(* of a company and of a round that no other transaction writes.            *)

\* What a transaction that commits has checked.
LEMMA CommitChecked ==
  ASSUME IInv, NEW o \in Operators, Commit(o)
  PROVE  LET i == command[o].id
             row == command[o].draft IN
         /\ command[o] \in Command /\ SoundDraft(o, command[o])
         /\ i \in Ids /\ CompanyOf(i) \in Companies /\ row \in Observation
         /\ row.status = "accepted" => row.identity \in Urls
         /\ RoundOf(i) # NoRound =>
              /\ i \notin DOMAIN observations
              /\ RoundOf(i) \in DOMAIN rounds /\ CompanyOf(i) \in rounds[RoundOf(i)].members
              /\ \A j \in InRound(RoundOf(i)) : CompanyOf(j) # CompanyOf(i)
         /\ i \in DOMAIN observations => observations[i].status = "failed"
         /\ PriorFits(i, row)
<1>1. Sound(o, command[o]) /\ command[o].pc = "commit"
  BY DEF IInv, Commit
<1>2. SoundDraft(o, command[o]) /\ command[o] \in Command
  BY <1>1 DEF Sound
<1>3. o \in Discoverers \/ o \in Regenerators
  BY DEF Operators
<1>4. o \in Regenerators => command[o].round \in DOMAIN rounds
  BY <1>1 DEF Sound, SoundRegeneration
<1>5. command[o].id \in Ids => CompanyOf(command[o].id) \in Companies
  BY DEF Ids, CompanyOf
<1>6. o \in Discoverers => PriorFits(command[o].id, command[o].draft)
  BY <1>2 DEF SoundDraft, PriorFits
<1>. QED  BY <1>2, <1>3, <1>4, <1>5, <1>6 DEF SoundDraft

\* What a commit does to the observations.
LEMMA CommitWrites ==
  ASSUME IInv, NEW o \in Operators, Commit(o)
  PROVE  LET i == command[o].id
             row == command[o].draft IN
         /\ DOMAIN observations' = DOMAIN observations \cup {i}
         /\ observations'[i] = row
         /\ \A j \in DOMAIN observations : j # i => observations'[j] = observations[j]
         /\ \A c : ObservationsOf(c)' = IF c = CompanyOf(i) THEN ObservationsOf(c) \cup {i} ELSE ObservationsOf(c)
         /\ \A r : InRound(r)' = IF r = RoundOf(i) THEN InRound(r) \cup {i} ELSE InRound(r)
<1>. DEFINE i == command[o].id
            row == command[o].draft
<1>1. observations' = [j \in DOMAIN observations \cup {i} |-> IF j = i THEN row ELSE observations[j]]
  BY DEF Commit
<1>. HIDE DEF i, row
<1>2. DOMAIN observations' = DOMAIN observations \cup {i}
  BY <1>1
<1>3. observations'[i] = row /\ \A j \in DOMAIN observations : j # i => observations'[j] = observations[j]
  BY <1>1
<1>4. \A c : ObservationsOf(c)' = IF c = CompanyOf(i) THEN ObservationsOf(c) \cup {i} ELSE ObservationsOf(c)
  BY <1>2 DEF ObservationsOf
<1>5. \A r : InRound(r)' = IF r = RoundOf(i) THEN InRound(r) \cup {i} ELSE InRound(r)
  BY <1>2 DEF InRound
<1>. QED  BY <1>2, <1>3, <1>4, <1>5 DEF i, row

\* Numbers grow with what they count.
LEMMA CommitCounts ==
  ASSUME IInv, NEW o \in Operators, Commit(o)
  PROVE  LET i == command[o].id IN
         /\ \A c, r : c # CompanyOf(i) \/ r # RoundOf(i) => KeyOf(c, r)' = KeyOf(c, r)
         /\ \A c, r : Cardinality(KeyOf(c, r)) <= Cardinality(KeyOf(c, r))'
         /\ \A c, r : c = CompanyOf(i) /\ r = RoundOf(i) => i[3] <= Cardinality(KeyOf(c, r))'
<1>. PICK i, C, R : i = command[o].id /\ C = CompanyOf(i) /\ R = RoundOf(i)
  OBVIOUS
<1>1. \A c : ObservationsOf(c)' = IF c = C THEN ObservationsOf(c) \cup {i} ELSE ObservationsOf(c)
  BY CommitWrites
<1>2. \A c, r : c # C \/ r # R => KeyOf(c, r)' = KeyOf(c, r)
  BY <1>1 DEF KeyOf
<1>3. KeyOf(C, R)' = KeyOf(C, R) \cup {i}
  BY <1>1 DEF KeyOf
<1>4. \A c, r : IsFiniteSet(KeyOf(c, r)) /\ Cardinality(KeyOf(c, r)) \in Nat
  <2>1. \A c, r : KeyOf(c, r) \subseteq DOMAIN observations
    BY DEF KeyOf, ObservationsOf
  <2>. QED  BY <2>1, FS_Subset, FS_CardinalityType DEF IInv, SoundTables
<1>5. i[3] <= Cardinality(KeyOf(C, R)') /\ Cardinality(KeyOf(C, R)) <= Cardinality(KeyOf(C, R)')
  <2>1. CASE i \in DOMAIN observations
    <3>1. KeyOf(C, R)' = KeyOf(C, R)
      BY <1>3, <2>1 DEF KeyOf, ObservationsOf
    <3>2. i[3] <= Cardinality(KeyOf(C, R))
      BY <2>1 DEF IInv, SoundTables
    <3>. QED  BY <1>4, <3>1, <3>2
  <2>2. CASE i \notin DOMAIN observations
    <3>1. i[3] = 1 + Cardinality(KeyOf(C, R))
      BY <2>2, CommitChecked DEF SoundDraft
    <3>2. i \notin KeyOf(C, R)
      BY <2>2 DEF KeyOf, ObservationsOf
    <3>3. Cardinality(KeyOf(C, R) \cup {i}) = Cardinality(KeyOf(C, R)) + 1
      BY <1>4, <3>2, FS_AddElement
    <3>. QED  BY <1>3, <1>4, <3>1, <3>3
  <2>. QED  BY <2>1, <2>2
<1>6. \A c, r : Cardinality(KeyOf(c, r)) <= Cardinality(KeyOf(c, r)')
  <2>1. ASSUME NEW c, NEW r PROVE Cardinality(KeyOf(c, r)) <= Cardinality(KeyOf(c, r)')
    <3>1. CASE c = C /\ r = R
      BY <1>5, <3>1
    <3>2. CASE c # C \/ r # R
      BY <1>2, <1>4, <3>2
    <3>. QED  BY <3>1, <3>2
  <2>. QED  BY <2>1
<1>. QED  BY <1>2, <1>5, <1>6

\* What an observation supersedes is not written again: it is of a round, or
\* nothing is asked of it but to exist.
LEMMA CommitKeepsPriors ==
  ASSUME IInv, NEW o \in Operators, Commit(o)
  PROVE  \A j, rw : PriorFits(j, rw) => PriorFits(j, rw)'
<1>. PICK i : i = command[o].id
  OBVIOUS
<1>1. /\ DOMAIN observations' = DOMAIN observations \cup {i}
      /\ \A j \in DOMAIN observations : j # i => observations'[j] = observations[j]
  BY CommitWrites
<1>2. \A j \in DOMAIN observations : RoundOf(j) # NoRound => j # i
  BY CommitChecked
<1>3. rounds' = rounds
  BY DEF Commit
<1>. QED  BY <1>1, <1>2, <1>3 DEF PriorFits

LEMMA CommitKeepsTables ==
  ASSUME IInv, NEW o \in Operators, Commit(o)
  PROVE  SoundTables'
<1>. PICK i, row : i = command[o].id /\ row = command[o].draft
  OBVIOUS
<1>1. /\ i \in Ids /\ CompanyOf(i) \in Companies /\ row \in Observation
      /\ row.status = "accepted" => row.identity \in Urls
      /\ RoundOf(i) # NoRound => RoundOf(i) \in DOMAIN rounds
      /\ PriorFits(i, row)
  BY CommitChecked
<1>2. /\ DOMAIN observations' = DOMAIN observations \cup {i}
      /\ observations'[i] = row
      /\ \A j \in DOMAIN observations : j # i => observations'[j] = observations[j]
  BY CommitWrites
<1>3. /\ UNCHANGED <<now, rounds, samples, findings, begun, setBacks>>
      /\ owners' = IF GainsEntry(row) THEN [owners EXCEPT ![row.identity] = @ \cup {CompanyOf(i)}] ELSE owners
  BY DEF Commit
<1>4. owners' \in [Urls -> SUBSET Companies]
  BY <1>1, <1>3 DEF GainsEntry, IInv, SoundTables
<1>5. DOMAIN observations' \subseteq Ids /\ IsFiniteSet(DOMAIN observations')
  BY <1>1, <1>2, FS_AddElement DEF IInv, SoundTables
<1>6. ASSUME NEW j \in DOMAIN observations'
      PROVE  /\ observations'[j] \in Observation
             /\ observations'[j].status = "accepted" => observations'[j].identity \in Urls
             /\ RoundOf(j) # NoRound => RoundOf(j) \in DOMAIN rounds
             /\ PriorFits(j, observations'[j])
  BY <1>1, <1>2 DEF IInv, SoundTables
<1>7. ASSUME NEW j \in DOMAIN observations' PROVE PriorFits(j, observations[j])'
  <2>1. PICK rw : rw = observations'[j]
    OBVIOUS
  <2>2. PriorFits(j, rw)'
    BY <1>6, <2>1, CommitKeepsPriors
  <2>. QED  BY <2>1, <2>2 DEF PriorFits
<1>8. ASSUME NEW j \in DOMAIN observations' PROVE j[3] <= Cardinality(KeyOf(CompanyOf(j), RoundOf(j)))'
  <2>1. PICK c, r : c = CompanyOf(j) /\ r = RoundOf(j)
    OBVIOUS
  <2>2. j[3] <= Cardinality(KeyOf(c, r)')
    <3>1. CASE j = i
      BY <2>1, <3>1, CommitCounts
    <3>2. CASE j # i
      <4>1. j \in DOMAIN observations
        BY <1>2, <3>2
      <4>2. j \in Ids /\ j[3] <= Cardinality(KeyOf(c, r))
        BY <2>1, <4>1 DEF IInv, SoundTables
      <4>3. Cardinality(KeyOf(c, r)) <= Cardinality(KeyOf(c, r)')
        BY CommitCounts
      <4>4. j[3] \in Nat
        BY <4>2 DEF Ids
      <4>5. Cardinality(KeyOf(c, r)) \in Nat /\ Cardinality(KeyOf(c, r)') \in Nat
        <5>1. KeyOf(c, r) \subseteq DOMAIN observations /\ KeyOf(c, r)' \subseteq DOMAIN observations'
          BY DEF KeyOf, ObservationsOf
        <5>. QED  BY <1>5, <5>1, FS_Subset, FS_CardinalityType DEF IInv, SoundTables
      <4>. QED  BY <4>2, <4>3, <4>4, <4>5
    <3>. QED  BY <3>1, <3>2
  <2>. QED  BY <2>1, <2>2
<1>. QED  BY <1>2, <1>3, <1>4, <1>5, <1>6, <1>7, <1>8 DEF IInv, SoundTables

LEMMA CommitKeepsProperties ==
  ASSUME IInv, NEW o \in Operators, Commit(o)
  PROVE  OncePerRound' /\ EntriesFollowAcceptance' /\ SamplesSpeakForRounds'
<1>. PICK i, row, C, R : i = command[o].id /\ row = command[o].draft /\ C = CompanyOf(i) /\ R = RoundOf(i)
  OBVIOUS
<1>1. /\ C \in Companies /\ row.status = "accepted" => row.identity \in Urls
      /\ R # NoRound => /\ i \notin DOMAIN observations
                        /\ R \in DOMAIN rounds /\ C \in rounds[R].members
                        /\ \A j \in InRound(R) : CompanyOf(j) # C
      /\ i \in DOMAIN observations => observations[i].status = "failed"
  BY CommitChecked
<1>2. /\ DOMAIN observations' = DOMAIN observations \cup {i}
      /\ observations'[i] = row
      /\ \A j \in DOMAIN observations : j # i => observations'[j] = observations[j]
      /\ \A c : ObservationsOf(c)' = IF c = C THEN ObservationsOf(c) \cup {i} ELSE ObservationsOf(c)
      /\ \A r : InRound(r)' = IF r = R THEN InRound(r) \cup {i} ELSE InRound(r)
  BY CommitWrites
<1>3. /\ UNCHANGED <<rounds, samples>>
      /\ owners' = IF GainsEntry(row) THEN [owners EXCEPT ![row.identity] = @ \cup {C}] ELSE owners
  BY DEF Commit
<1>4. OncePerRound'
  <2>1. ASSUME NEW j \in DOMAIN observations', NEW r, r = RoundOf(j), r # NoRound
        PROVE  /\ CompanyOf(j) \in rounds[r].members
               /\ \A l \in InRound(r)' : CompanyOf(l) = CompanyOf(j) => l = j
    <3>1. CASE j = i
      BY <1>1, <1>2, <2>1, <3>1
    <3>2. CASE j # i
      <4>1. j \in DOMAIN observations /\ j \in InRound(r)
        BY <1>2, <2>1, <3>2 DEF InRound
      <4>2. /\ CompanyOf(j) \in rounds[r].members
            /\ \A l \in InRound(r) : CompanyOf(l) = CompanyOf(j) => l = j
        BY <2>1, <4>1 DEF IInv, OncePerRound
      <4>. QED  BY <1>1, <1>2, <2>1, <4>1, <4>2
    <3>. QED  BY <3>1, <3>2
  <2>. QED  BY <1>3, <2>1 DEF OncePerRound
<1>5. EntriesFollowAcceptance'
  <2>1. ASSUME NEW c \in Companies, NEW u \in Urls
        PROVE  c \in owners'[u] <=> \E j \in ObservationsOf(c)' :
                                      observations'[j].identity = u /\ observations'[j].status = "accepted"
    <3>. DEFINE Accepts(j) == observations[j].identity = u /\ observations[j].status = "accepted"
                Gains == c = C /\ row.identity = u /\ row.status = "accepted"
    <3>1. c \in owners[u] <=> \E j \in ObservationsOf(c) : Accepts(j)
      BY DEF IInv, EntriesFollowAcceptance
    <3>2. c \in owners'[u] <=> c \in owners[u] \/ Gains
      BY <1>1, <1>3 DEF GainsEntry, IInv, SoundTables
    <3>3. ASSUME NEW j \in ObservationsOf(c), Accepts(j)
          PROVE  /\ j \in ObservationsOf(c)'
                 /\ observations'[j].identity = u /\ observations'[j].status = "accepted"
      <4>1. j \in DOMAIN observations /\ j # i
        BY <1>1, <3>3 DEF ObservationsOf
      <4>. QED  BY <1>2, <3>3, <4>1
    <3>4. Gains => \E j \in ObservationsOf(c)' :
                     observations'[j].identity = u /\ observations'[j].status = "accepted"
      BY <1>2
    <3>5. ASSUME NEW j \in ObservationsOf(c)', observations'[j].identity = u, observations'[j].status = "accepted"
          PROVE  Gains \/ \E l \in ObservationsOf(c) : Accepts(l)
      <4>1. CASE j = i
        <5>1. CompanyOf(i) = c
          BY <3>5, <4>1 DEF ObservationsOf
        <5>. QED  BY <1>2, <3>5, <4>1, <5>1
      <4>2. CASE j # i
        <5>1. j \in ObservationsOf(c) /\ j \in DOMAIN observations
          BY <1>2, <4>2 DEF ObservationsOf
        <5>. QED  BY <1>2, <3>5, <4>2, <5>1
      <4>. QED  BY <4>1, <4>2
    <3>. QED  BY <3>1, <3>2, <3>3, <3>4, <3>5
  <2>. QED  BY <2>1 DEF EntriesFollowAcceptance
<1>6. SamplesSpeakForRounds'
  <2>1. ASSUME NEW s \in samples, NEW r, r = RoundOf(s)
        PROVE  /\ r # NoRound /\ Complete(r) /\ r # R
               /\ s \in DOMAIN observations /\ observations[s].status = "accepted"
               /\ \A j \in InRound(r) :
                    observations[j].status = "accepted" => \E t \in samples \cap InRound(r) : Stratum(t) = Stratum(j)
    <3>1. /\ r # NoRound /\ Complete(r) /\ observations[s].status = "accepted"
          /\ \A j \in InRound(r) :
               observations[j].status = "accepted" => \E t \in samples \cap InRound(r) : Stratum(t) = Stratum(j)
      BY <2>1 DEF IInv, SamplesSpeakForRounds
    <3>2. s \in DOMAIN observations
      BY DEF IInv, SoundTables
    <3>3. r # R
      BY <1>1, <3>1 DEF Complete
    <3>. QED  BY <3>1, <3>2, <3>3
  <2>2. \A r : r # R => InRound(r)' = InRound(r) /\ \A j \in InRound(r) : observations'[j] = observations[j]
    BY <1>2 DEF InRound
  <2>3. ASSUME NEW s \in samples, NEW r, r = RoundOf(s)
        PROVE  /\ r # NoRound /\ Complete(r)' /\ observations'[s].status = "accepted"
               /\ \A j \in InRound(r)' :
                    observations'[j].status = "accepted" =>
                      \E t \in samples \cap InRound(r)' : Stratum(t)' = Stratum(j)'
    <3>1. InRound(r)' = InRound(r) /\ \A j \in InRound(r) : observations'[j] = observations[j]
      BY <2>1, <2>2, <2>3
    <3>2. s \in InRound(r)
      BY <2>1, <2>3 DEF InRound
    <3>3. \A j \in InRound(r) : Stratum(j)' = Stratum(j)
      BY <3>1 DEF Stratum
    <3>4. Complete(r)'
      BY <1>3, <2>1, <2>3, <3>1 DEF Complete
    <3>. QED  BY <2>1, <2>3, <3>1, <3>2, <3>3, <3>4
  <2>. QED  BY <1>3, <2>3 DEF SamplesSpeakForRounds
<1>. QED  BY <1>4, <1>5, <1>6

LEMMA CommitKeepsIInv ==
  ASSUME IInv, NEW o \in Operators, Commit(o)
  PROVE  IInv'
<1>. PICK i, C, R : i = command[o].id /\ C = CompanyOf(i) /\ R = RoundOf(i)
  OBVIOUS
<1>1. command[o].pc = "commit" /\ command[o] \in Command /\ C \in Companies
  BY CommitChecked DEF Commit
<1>2. /\ DOMAIN observations' = DOMAIN observations \cup {i}
      /\ \A j \in DOMAIN observations : j # i => observations'[j] = observations[j]
      /\ \A c : ObservationsOf(c)' = IF c = C THEN ObservationsOf(c) \cup {i} ELSE ObservationsOf(c)
      /\ \A r : InRound(r)' = IF r = R THEN InRound(r) \cup {i} ELSE InRound(r)
  BY CommitWrites
<1>3. rounds' = rounds
  BY DEF Commit
<1>. DEFINE done == Done(o, C)
<1>4. command' = [command EXCEPT ![o] = done]
  BY DEF Commit, Goes
<1>5. /\ done \in Command /\ done.pc = "record"
      /\ done.round = command[o].round /\ done.file = command[o].file
      /\ done.todo = command[o].todo \ {C}
      /\ \A d \in Companies \ {C} : done.known[d] = command[o].known[d]
  BY <1>1, DoneTyped
<1>. HIDE DEF done
<1>6. PICK new \in Command : command' = [command EXCEPT ![o] = new] /\ new = done
  BY <1>4, <1>5
<1>7. ASSUME NEW k, SoundRegeneration(k) PROVE SoundRegeneration(k)'
  BY <1>2, <1>3, <1>7 DEF SoundRegeneration
<1>8. ASSUME NEW p \in Operators \ {o}, NEW k, k = command[p] PROVE Sound(p, k)'
  <2>1. Sound(p, k) /\ Apart(command[o], k)
    BY <1>8 DEF IInv
  <2>2. ASSUME k.pc = "commit" PROVE SoundDraft(p, k)'
    <3>1. SoundDraft(p, k) /\ RoundOf(k.id) # R /\ CompanyOf(k.id) # C /\ k.id # i
      BY <1>1, <2>1, <2>2 DEF Sound, Apart
    <3>2. PICK j, d, r : j = k.id /\ d = CompanyOf(k.id) /\ r = RoundOf(k.id)
      OBVIOUS
    <3>3. (j \in DOMAIN observations' <=> j \in DOMAIN observations)
          /\ (j \in DOMAIN observations => observations'[j] = observations[j])
      BY <1>2, <3>1, <3>2
    <3>4. KeyOf(d, r)' = KeyOf(d, r) /\ InRound(r)' = InRound(r)
      BY <1>2, <3>1, <3>2, CommitCounts
    <3>. QED  BY <1>3, <3>1, <3>2, <3>3, <3>4, CommitKeepsPriors DEF SoundDraft
  <2>. QED  BY <1>7, <2>1, <2>2 DEF Sound
<1>9. Sound(o, new)'
  <2>1. o \in Regenerators => SoundRegeneration(command[o]) /\ command[o].todo \subseteq Companies
    BY <1>1 DEF IInv, Sound, Command
  <2>2. o \in Regenerators => SoundRegeneration(new)
    BY <1>1, <1>5, <1>6, <2>1 DEF SoundRegeneration
  <2>. QED  BY <1>5, <1>6, <1>7, <2>2 DEF Sound
<1>10. ASSUME NEW p \in Operators PROVE Sound(p, command[p])'
  <2>1. PICK k : k = command'[p]
    OBVIOUS
  <2>2. command \in [Operators -> Command]
    BY DEF IInv
  <2>3. Sound(p, k)'
    BY <1>6, <1>8, <1>9, <2>1, <2>2
  <2>. QED  BY <2>1, <2>3 DEF Sound, SoundRegeneration, SoundDraft, PriorFits
<1>11. ASSUME NEW p \in Operators, NEW q \in Operators, p # q PROVE Apart(command[p], command[q])'
  BY <1>5, <1>6, <1>11 DEF IInv, Apart
<1>12. command' \in [Operators -> Command]
  BY <1>6 DEF IInv
<1>. QED  BY <1>10, <1>11, <1>12, CommitKeepsTables, CommitKeepsProperties DEF IInv

-----------------------------------------------------------------------------
(* The audit.  The accepted entry of the first rank of a stratum is always *)
(* in the sample, which is why no stratum goes without one.                *)

LEMMA FirstRank ==
  ASSUME NEW S \in SUBSET Nat, S # {}
  PROVE  \E m \in S : \A n \in S : ~(n < m)
<1>1. \E m \in S : \A n \in S : ~(<<n, m>> \in OpToRel(<, Nat))
  BY NatLessThanWellFounded, WFMin
<1>. QED  BY <1>1 DEF OpToRel

LEMMA EveryStratumIsDesired ==
  ASSUME IInv, NEW r \in Rounds, NEW i \in Accepted(r)
  PROVE  \E t \in Desired(r) : Stratum(t) = Stratum(i)
<1>. DEFINE G == {j \in Accepted(r) : Stratum(j) = Stratum(i)}
            S == {observations[j].identity : j \in G}
<1>1. \A j \in Accepted(r) : j \in DOMAIN observations /\ observations[j].identity \in Urls
  BY DEF Accepted, InRound, IInv, SoundTables
<1>2. S \in SUBSET Nat /\ S # {}
  BY <1>1, PositionsAssumption
<1>3. PICK m \in S : \A n \in S : ~(n < m)
  BY <1>2, FirstRank
<1>4. PICK t \in G : observations[t].identity = m
  BY <1>3
<1>5. t \in Accepted(r) /\ Stratum(t) = Stratum(i) /\ G = {j \in Accepted(r) : Stratum(j) = Stratum(t)}
  OBVIOUS
<1>6. {j \in G : observations[j].identity < observations[t].identity} = {}
  BY <1>3, <1>4
<1>7. Cardinality({j \in G : observations[j].identity < observations[t].identity}) = 0
  BY <1>6, FS_EmptySet
<1>8. Cardinality(G) \in Nat /\ Cardinality(G) > 0
  <2>1. IsFiniteSet(G)
    <3>1. G \subseteq DOMAIN observations
      BY <1>1
    <3>. QED  BY <3>1, FS_Subset DEF IInv, SoundTables
  <2>2. Cardinality(G) # 0
    BY <2>1, <1>4, FS_EmptySet
  <2>. QED  BY <2>1, <2>2, FS_CardinalityType
<1>9. 0 < SampleSize(Cardinality(G))
  BY <1>8 DEF SampleSize
<1>. HIDE DEF G
<1>10. t \in Desired(r)
  BY <1>5, <1>7, <1>9 DEF Desired
<1>. QED  BY <1>5, <1>10

LEMMA ReconcileKeepsIInv ==
  ASSUME IInv, NEW g \in Regenerators, Reconcile(g)
  PROVE  IInv'
<1>1. g \in Operators /\ command[g].pc = "record"
  BY DEF Operators, Reconcile
<1>. DEFINE r == command[g].round
<1>2. r \in DOMAIN rounds /\ r \in Rounds /\ r # NoRound
  BY <1>1, NoRoundAssumption DEF IInv, Sound, SoundRegeneration, SoundTables
<1>3. /\ Complete(r) /\ samples' = samples \cup Desired(r)
      /\ command' = [command EXCEPT ![g] = Idle]
      /\ UNCHANGED <<now, rounds, observations, owners, findings, begun, setBacks>>
  BY DEF Reconcile, Goes
<1>. HIDE DEF r
<1>4. \A q : InRound(q)' = InRound(q)
  BY <1>3 DEF InRound
<1>5. Desired(r) \subseteq Accepted(r) /\ Accepted(r) \subseteq InRound(r) /\ InRound(r) \subseteq DOMAIN observations
  BY DEF Desired, Accepted, InRound
<1>6. ASSUME NEW s \in samples', NEW q, q = RoundOf(s)
      PROVE  /\ q # NoRound /\ Complete(q) /\ observations[s].status = "accepted"
             /\ \A i \in InRound(q) :
                  observations[i].status = "accepted" => \E t \in samples' \cap InRound(q) : Stratum(t) = Stratum(i)
  <2>1. CASE s \in samples
    <3>1. /\ q # NoRound /\ Complete(q) /\ observations[s].status = "accepted"
          /\ \A i \in InRound(q) :
               observations[i].status = "accepted" => \E t \in samples \cap InRound(q) : Stratum(t) = Stratum(i)
      BY <1>6, <2>1 DEF IInv, SamplesSpeakForRounds
    <3>. QED  BY <1>3, <3>1
  <2>2. CASE s \in Desired(r)
    <3>1. q = r /\ observations[s].status = "accepted"
      BY <1>5, <1>6, <2>2 DEF Accepted, InRound
    <3>2. ASSUME NEW i \in InRound(r), observations[i].status = "accepted"
          PROVE  \E t \in samples' \cap InRound(r) : Stratum(t) = Stratum(i)
      <4>1. PICK t \in Desired(r) : Stratum(t) = Stratum(i)
        BY <1>2, <3>2, EveryStratumIsDesired DEF Accepted
      <4>. QED  BY <1>3, <1>5, <4>1
    <3>. QED  BY <1>2, <1>3, <3>1, <3>2
  <2>. QED  BY <1>3, <2>1, <2>2
<1>7. SamplesSpeakForRounds'
  <2>1. \A q : Complete(q)' = Complete(q)
    BY <1>3, <1>4 DEF Complete
  <2>. QED  BY <1>3, <1>4, <1>6, <2>1 DEF SamplesSpeakForRounds, Stratum
<1>8. samples \subseteq samples' /\ samples' \subseteq DOMAIN observations
  BY <1>3, <1>5 DEF IInv, SoundTables
<1>9. \A p \in Operators \ {g} : Apart(Idle, command[p])
  BY IdleIsSound, ReadersAreApart
<1>10. now' \in 0 .. MaxTime /\ begun' \in 0 .. MaxCommands /\ setBacks' \in 0 .. MaxSetBacks
  BY <1>3 DEF IInv, SoundTables
<1>. QED  BY <1>1, <1>3, <1>7, <1>8, <1>9, <1>10, IdleIsSound, OneActs

-----------------------------------------------------------------------------
\* The invariant holds in every state.
THEOREM Invariance == Spec => []IInv
<1>1. Init => IInv
  BY InitEstablishesIInv
<1>2. ASSUME IInv, [Next]_vars PROVE IInv'
  <2>1. ASSUME NEW d \in Discoverers, StartDiscovery(d) \/ BeginLegacy(d) PROVE IInv'
    BY <2>1, <1>2, StartDiscoveryKeepsIInv, BeginLegacyKeepsIInv
  <2>2. ASSUME NEW g \in Regenerators, StartRegeneration(g) \/ CreateRound(g) \/ Load(g) PROVE IInv'
    BY <2>2, <1>2, StartRegenerationKeepsIInv, CreateRoundKeepsIInv, LoadKeepsIInv
  <2>3. ASSUME NEW g \in Regenerators, BeginInRound(g) \/ ReplayInRound(g) \/ Reconcile(g) PROVE IInv'
    BY <2>3, <1>2, BeginInRoundKeepsIInv, ReplayInRoundKeepsIInv, ReconcileKeepsIInv
  <2>4. ASSUME NEW o \in Operators, Commit(o) \/ Stop(o) PROVE IInv'
    BY <2>4, <1>2, CommitKeepsIInv, StopKeepsIInv
  <2>5. ASSUME NEW s \in DOMAIN observations, NEW severe \in BOOLEAN, RecordFinding(s, severe) PROVE IInv'
    BY <2>5, <1>2, RecordFindingKeepsIInv
  <2>6. ASSUME Tick \/ ClockSetBack PROVE IInv'
    BY <2>6, <1>2, ClockKeepsIInv
  <2>7. CASE UNCHANGED vars
    <3>1. UNCHANGED <<rounds, observations, owners, samples, command, now, begun, setBacks, findings>>
      BY <2>7 DEF vars
    <3>2. /\ now' \in 0 .. MaxTime /\ begun' \in 0 .. MaxCommands /\ setBacks' \in 0 .. MaxSetBacks
          /\ DOMAIN findings' \subseteq samples /\ \A s \in DOMAIN findings' : findings'[s] \in BOOLEAN
      BY <1>2, <3>1 DEF IInv, SoundTables
    <3>. QED  BY <1>2, <3>1, <3>2, EvidenceStaysSound
  <2>. QED  BY <1>2, <2>1, <2>2, <2>3, <2>4, <2>5, <2>6, <2>7 DEF Next
<1>. QED  BY <1>1, <1>2, PTL DEF Spec

\* The types of the tables and of the commands.
THEOREM TypeCorrect == Spec => []TypeOK
<1>1. IInv => TypeOK
  BY DEF IInv, SoundTables, TypeOK
<1>. QED  BY <1>1, Invariance, PTL

\* However many commands fill a round, no company is observed twice in it, and
\* none that is not a member.
THEOREM ObservedOnce == Spec => []OncePerRound
<1>1. IInv => OncePerRound
  BY DEF IInv
<1>. QED  BY <1>1, Invariance, PTL

\* No rewriting and no refused command leaves an entry without its evidence, or
\* acceptance without its entry.
THEOREM EntriesHaveEvidence == Spec => []EntriesFollowAcceptance
<1>1. IInv => EntriesFollowAcceptance
  BY DEF IInv
<1>. QED  BY <1>1, Invariance, PTL

\* Whatever the clock did, an observation supersedes one of an earlier round.
THEOREM ChainsEnd == Spec => []RoundChainsRunBack
<1>1. IInv => RoundChainsRunBack
  <2>1. ASSUME IInv, NEW i \in DOMAIN observations PROVE PriorFits(i, observations[i])
    BY <2>1 DEF IInv, SoundTables
  <2>. QED  BY <2>1 DEF RoundChainsRunBack, PriorFits
<1>. QED  BY <1>1, Invariance, PTL

\* Only complete rounds are sampled, and every stratum they accepted something
\* in has a sample.
THEOREM SampledInFull == Spec => []SamplesSpeakForRounds
<1>1. IInv => SamplesSpeakForRounds
  BY DEF IInv
<1>. QED  BY <1>1, Invariance, PTL

\* The triggers of migration 0011, which refuse to change or remove what a round
\* holds, never refuse a step of the service.
THEOREM EvidenceStays == Spec => EvidenceIsAppendOnly
<1>. DEFINE RoundsStay == \A r \in DOMAIN rounds : r \in DOMAIN rounds' /\ rounds'[r] = rounds[r]
            ObservationsStay == \A i \in DOMAIN observations :
                                  /\ i \in DOMAIN observations'
                                  /\ RoundOf(i) # NoRound => observations'[i] = observations[i]
            SamplesStay == samples \subseteq samples'
            FindingsStay == \A s \in DOMAIN findings : s \in DOMAIN findings' /\ findings'[s] = findings[s]
<1>1. ASSUME IInv, Next PROVE RoundsStay
  <2>1. ASSUME NEW g \in Regenerators, CreateRound(g) PROVE RoundsStay
    BY <1>1, <2>1, CreateRoundAdds
  <2>2. ASSUME UNCHANGED rounds PROVE RoundsStay
    BY <2>2
  <2>. QED
    BY <1>1, <2>1, <2>2 DEF Next, StartDiscovery, BeginLegacy, StartRegeneration, Load, BeginInRound,
         ReplayInRound, Reconcile, Commit, Stop, RecordFinding, Tick, ClockSetBack
<1>2. ASSUME IInv, Next PROVE ObservationsStay
  <2>1. ASSUME NEW o \in Operators, Commit(o) PROVE ObservationsStay
    <3>. PICK i : i = command[o].id
      OBVIOUS
    <3>1. /\ DOMAIN observations' = DOMAIN observations \cup {i}
          /\ \A j \in DOMAIN observations : j # i => observations'[j] = observations[j]
      BY <1>2, <2>1, CommitWrites
    <3>2. i \in DOMAIN observations => RoundOf(i) = NoRound
      BY <1>2, <2>1, CommitChecked
    <3>. QED  BY <3>1, <3>2
  <2>2. ASSUME UNCHANGED observations PROVE ObservationsStay
    BY <2>2
  <2>. QED
    BY <1>2, <2>1, <2>2 DEF Next, StartDiscovery, BeginLegacy, StartRegeneration, CreateRound, Load,
         BeginInRound, ReplayInRound, Reconcile, Stop, RecordFinding, Tick, ClockSetBack
<1>3. ASSUME Next PROVE SamplesStay
  BY <1>3 DEF Next, StartDiscovery, BeginLegacy, StartRegeneration, CreateRound, Load, BeginInRound,
       ReplayInRound, Reconcile, Commit, Stop, RecordFinding, Tick, ClockSetBack
<1>4. ASSUME Next PROVE FindingsStay
  <2>1. ASSUME NEW s, NEW severe, RecordFinding(s, severe) PROVE FindingsStay
    BY <2>1 DEF RecordFinding
  <2>2. ASSUME UNCHANGED findings PROVE FindingsStay
    BY <2>2
  <2>. QED
    BY <1>4, <2>1, <2>2 DEF Next, StartDiscovery, BeginLegacy, StartRegeneration, CreateRound, Load,
         BeginInRound, ReplayInRound, Reconcile, Commit, Stop, Tick, ClockSetBack
<1>5. IInv /\ [Next]_vars => [RoundsStay /\ ObservationsStay /\ SamplesStay /\ FindingsStay]_vars
  BY <1>1, <1>2, <1>3, <1>4
<1>. QED  BY <1>5, Invariance, PTL DEF Spec, EvidenceIsAppendOnly

(***************************************************************************)
(* LiveDiscovery.                                                          *)
(*                                                                         *)
(* Resume keeps its promises because the memory of a process is, for each  *)
(* host whose members were observed once, what the observations kept so    *)
(* far teach in the order they were made (Agrees): a crash then loses      *)
(* nothing that Rebuilt does not find again, and a recorded stop is in     *)
(* every later memory (Remembers).                                         *)
(***************************************************************************)
\* What is made at time t changes of a memory.
Learns(o, s, t) ==
  IF \E c \in Members : o[c] # None /\ o[c].at = t
  THEN WithResult(s, MadeAt(o, t), o[MadeAt(o, t)]) ELSE s

\* f is a replay of the observations o until time n.
Replays(f, o, n) == f = [t \in 0..n |-> IF t = 0 THEN Fresh ELSE Learns(o, f[t - 1], t)]

LEMMA ReplaysAgree ==
  ASSUME NEW o, NEW n \in Nat, NEW m \in Nat, NEW f, NEW g, Replays(f, o, n), Replays(g, o, m)
  PROVE  \A t \in Nat : t <= n /\ t <= m => f[t] = g[t]
<1>. DEFINE S == {t \in Nat : t <= n /\ t <= m /\ f[t] # g[t]}
<1>1. SUFFICES ASSUME S # {} PROVE FALSE
  OBVIOUS
<1>2. PICK t \in S : \A u \in S : ~(u < t)
  BY <1>1, FirstRank
<1>3. t \in 0..n /\ t \in 0..m
  BY <1>2
<1>4. /\ f[t] = IF t = 0 THEN Fresh ELSE Learns(o, f[t - 1], t)
      /\ g[t] = IF t = 0 THEN Fresh ELSE Learns(o, g[t - 1], t)
  BY <1>3 DEF Replays
<1>5. t # 0 /\ t - 1 \in Nat /\ t - 1 < t
  BY <1>2, <1>4
<1>6. f[t - 1] = g[t - 1]
  BY <1>2, <1>5
<1>. QED  BY <1>2, <1>4, <1>5, <1>6

LEMMA ReplayExists ==
  ASSUME NEW o, NEW n \in Nat
  PROVE  \E f : Replays(f, o, n)
<1>. DEFINE S == {m \in Nat : \A f : ~Replays(f, o, m)}
<1>1. SUFFICES ASSUME S # {} PROVE FALSE
  OBVIOUS
<1>2. PICK m \in S : \A u \in S : ~(u < m)
  BY <1>1, FirstRank
<1>3. CASE m = 0
  <2>. DEFINE f == [t \in 0..0 |-> Fresh]
  <2>1. f = [t \in 0..0 |-> IF t = 0 THEN Fresh ELSE Learns(o, f[t - 1], t)]
    OBVIOUS
  <2>2. Replays(f, o, m)
    BY <1>3, <2>1 DEF Replays
  <2>. QED  BY <1>2, <2>2
<1>4. CASE m # 0
  <2>1. m - 1 \in Nat /\ m - 1 < m
    BY <1>4
  <2>2. PICK g : Replays(g, o, m - 1)
    BY <1>2, <2>1
  <2>. DEFINE f == [t \in 0..m |-> IF t = m THEN Learns(o, g[m - 1], m) ELSE g[t]]
  <2>3. ASSUME NEW t \in 0..m PROVE f[t] = IF t = 0 THEN Fresh ELSE Learns(o, f[t - 1], t)
    <3>1. CASE t = m
      <4>1. f[m - 1] = g[m - 1] /\ f[m] = Learns(o, g[m - 1], m)
        BY <2>1
      <4>. QED  BY <1>4, <3>1, <4>1
    <3>2. CASE t # m
      <4>1. t \in 0..(m - 1) /\ f[t] = g[t]
        BY <3>2
      <4>2. g[t] = IF t = 0 THEN Fresh ELSE Learns(o, g[t - 1], t)
        BY <2>2, <4>1 DEF Replays
      <4>3. t # 0 => f[t - 1] = g[t - 1]
        BY <4>1, <2>1
      <4>. QED  BY <4>1, <4>2, <4>3
    <3>. QED  BY <3>1, <3>2
  <2>4. f = [t \in 0..m |-> f[t]]
    OBVIOUS
  <2>. HIDE DEF f
  <2>5. Replays(f, o, m)
    BY <2>3, <2>4 DEF Replays
  <2>. QED  BY <1>2, <2>5
<1>. QED  BY <1>3, <1>4

LEMMA ReplayIsOne ==
  ASSUME NEW o, NEW n \in Nat
  PROVE  \E f : Replays(f, o, n) /\ Replay(o, n) = f[n]
<1>1. Replay(o, n) = (CHOOSE f : Replays(f, o, n))[n]
  BY DEF Replay, Replays, Learns
<1>2. Replays(CHOOSE f : Replays(f, o, n), o, n)
  BY ReplayExists
<1>. QED  BY <1>1, <1>2

LEMMA ReplayStep ==
  ASSUME NEW o, NEW n \in Nat
  PROVE  /\ Replay(o, 0) = Fresh
         /\ Replay(o, n + 1) = Learns(o, Replay(o, n), n + 1)
<1>1. PICK f : Replays(f, o, n) /\ Replay(o, n) = f[n]
  BY ReplayIsOne
<1>2. PICK g : Replays(g, o, n + 1) /\ Replay(o, n + 1) = g[n + 1]
  BY ReplayIsOne
<1>3. f[n] = g[n]
  BY <1>1, <1>2, ReplaysAgree
<1>4. g[n + 1] = Learns(o, g[n], n + 1)
  BY <1>2 DEF Replays
<1>5. PICK h : Replays(h, o, 0) /\ Replay(o, 0) = h[0]
  BY ReplayIsOne
<1>6. h[0] = Fresh
  BY <1>5 DEF Replays
<1>. QED  BY <1>1, <1>2, <1>3, <1>4, <1>5, <1>6

-----------------------------------------------------------------------------
(* What the steps of a replay do to the hosts.                              *)

Memories == [stopped : SUBSET Hosts, limits : [Hosts -> Nat], halted : BOOLEAN]

\* Two memories say the same of a host.
SameAt(s, r, h) == s.limits[h] = r.limits[h] /\ (h \in s.stopped <=> h \in r.stopped)

\* A result that says its host must be left alone.
Stopping(c, o) ==
  /\ c \in Sited /\ o.method = "official_navigation"
  /\ o.code \in {"provider_access_denied", "source_access_stopped", "source_rate_limited"}

LEMMA HostOfSited ==
  ASSUME NEW c \in Sited
  PROVE  Host(c) \in Hosts
BY AddressesAreGiven DEF Host, Sited, Hosts

\* A result teaches something about the host of its member only.
LEMMA Teaching ==
  ASSUME NEW s \in Memories, NEW c, NEW o
  PROVE  /\ WithResult(s, c, o) \in Memories
         /\ s.stopped \subseteq WithResult(s, c, o).stopped
         /\ WithResult(s, c, o).halted = s.halted
         /\ \A h \in Hosts : h # Host(c) => SameAt(WithResult(s, c, o), s, h)
         /\ Stopping(c, o) => Host(c) \in WithResult(s, c, o).stopped
<1>1. CASE c \notin Sited \/ o.method # "official_navigation"
  BY <1>1 DEF WithResult, SameAt, Stopping
<1>2. CASE ~(c \notin Sited \/ o.method # "official_navigation")
  <2>1. Host(c) \in Hosts
    BY <1>2, HostOfSited
  <2>. DEFINE h == Host(c)
  <2>2. CASE o.code \in {"provider_access_denied", "source_access_stopped"}
    <3>1. WithResult(s, c, o) = [s EXCEPT !.stopped = @ \cup {h}]
      BY <1>2, <2>2 DEF WithResult
    <3>. QED  BY <2>1, <3>1 DEF Memories, SameAt
  <2>3. CASE o.code = "source_rate_limited"
    <3>1. WithResult(s, c, o) = [s EXCEPT !.limits[h] = 3, !.stopped = @ \cup {h}]
      BY <1>2, <2>3 DEF WithResult
    <3>2. WithResult(s, c, o) = [stopped |-> s.stopped \cup {h}, limits |-> [s.limits EXCEPT ![h] = 3], halted |-> s.halted]
      BY <3>1 DEF Memories
    <3>. QED  BY <2>1, <3>2 DEF Memories, SameAt
  <2>4. CASE o.code = "provider_rate_limited"
    <3>1. WithResult(s, c, o) = [s EXCEPT !.limits[h] = @ + 1,
                     !.stopped = IF s.limits[h] + 1 >= 3 THEN @ \cup {h} ELSE @]
      BY <1>2, <2>4 DEF WithResult
    <3>2. WithResult(s, c, o) = [stopped |-> IF s.limits[h] + 1 >= 3 THEN s.stopped \cup {h} ELSE s.stopped,
                                 limits |-> [s.limits EXCEPT ![h] = @ + 1], halted |-> s.halted]
      BY <3>1 DEF Memories
    <3>3. s.limits[h] + 1 \in Nat
      BY <2>1 DEF Memories
    <3>. QED  BY <2>1, <2>4, <3>2, <3>3 DEF Memories, SameAt, Stopping
  <2>5. CASE o.code \notin {"provider_access_denied", "source_access_stopped", "source_rate_limited", "provider_rate_limited"}
    <3>1. WithResult(s, c, o) = [s EXCEPT !.limits[h] = 0]
      BY <1>2, <2>5 DEF WithResult
    <3>. QED  BY <2>1, <2>5, <3>1 DEF Memories, SameAt, Stopping
  <2>. QED  BY <2>2, <2>3, <2>4, <2>5
<1>. QED  BY <1>1, <1>2

\* Of memories that say the same of a host, a result makes memories that do.
LEMMA TeachingAlike ==
  ASSUME NEW s \in Memories, NEW r \in Memories, NEW c, NEW o, NEW h \in Hosts, SameAt(s, r, h)
  PROVE  SameAt(WithResult(s, c, o), WithResult(r, c, o), h)
<1>1. CASE h # Host(c)
  BY <1>1, Teaching DEF SameAt
<1>2. CASE h = Host(c)
  BY <1>2 DEF SameAt, WithResult, Memories
<1>. QED  BY <1>1, <1>2

LEMMA LearningTypes ==
  ASSUME NEW s \in Memories, NEW o, NEW t
  PROVE  /\ Learns(o, s, t) \in Memories
         /\ s.stopped \subseteq Learns(o, s, t).stopped
BY Teaching DEF Learns

LEMMA ReplayType ==
  ASSUME NEW o, NEW n \in Nat
  PROVE  Replay(o, n) \in Memories
<1>. DEFINE S == {m \in Nat : Replay(o, m) \notin Memories}
<1>1. SUFFICES ASSUME S # {} PROVE FALSE
  OBVIOUS
<1>2. PICK m \in S : \A u \in S : ~(u < m)
  BY <1>1, FirstRank
<1>3. m # 0
  <2>1. Replay(o, 0) = Fresh /\ 0 \in Nat
    BY ReplayStep
  <2>2. Fresh \in Memories
    BY DEF Fresh, Memories
  <2>. QED  BY <1>2, <2>1, <2>2
<1>4. m - 1 \in Nat /\ m - 1 < m /\ (m - 1) + 1 = m
  BY <1>3
<1>5. Replay(o, m - 1) \in Memories
  BY <1>2, <1>4
<1>6. Replay(o, m) = Learns(o, Replay(o, m - 1), m)
  BY <1>4, ReplayStep
<1>. QED  BY <1>2, <1>5, <1>6, LearningTypes

\* No two observations are made at one time.
Distinct(o) == \A c, d \in Members : o[c] # None /\ o[d] # None /\ o[c].at = o[d].at => c = d

\* c was not observed until n.
Unseen(o, c, n) == o[c] # None => o[c].at > n

LEMMA TheOneMade ==
  ASSUME NEW o, Distinct(o), NEW c \in Members, o[c] # None
  PROVE  MadeAt(o, o[c].at) = c
BY DEF MadeAt, Distinct

LEMMA LearningFrom ==
  ASSUME NEW o, Distinct(o), NEW s, NEW t
  PROVE  \/ \E c \in Members : o[c] # None /\ o[c].at = t /\ Learns(o, s, t) = WithResult(s, c, o[c])
         \/ (\A c \in Members : ~(o[c] # None /\ o[c].at = t)) /\ Learns(o, s, t) = s
BY TheOneMade DEF Learns

\* What is remembered of a host depends on the observations of its members only.
LEMMA ReplayOfHost ==
  ASSUME NEW o, NEW q, Distinct(o), Distinct(q), NEW h \in Hosts, NEW n \in Nat,
         \A c \in Members : Host(c) = h => o[c] = q[c] \/ (Unseen(o, c, n) /\ Unseen(q, c, n))
  PROVE  SameAt(Replay(o, n), Replay(q, n), h)
<1>. DEFINE S == {m \in Nat : m <= n /\ ~SameAt(Replay(o, m), Replay(q, m), h)}
<1>1. SUFFICES ASSUME S # {} PROVE FALSE
  OBVIOUS
<1>2. PICK m \in S : \A u \in S : ~(u < m)
  BY <1>1, FirstRank
<1>3. m # 0
  BY <1>2, ReplayStep DEF SameAt
<1>4. m - 1 \in Nat /\ m - 1 < m /\ (m - 1) + 1 = m
  BY <1>3
<1>. DEFINE s == Replay(o, m - 1)
            r == Replay(q, m - 1)
<1>5. SameAt(s, r, h)
  BY <1>2, <1>4
<1>6. Replay(o, m) = Learns(o, s, m) /\ Replay(q, m) = Learns(q, r, m)
  BY <1>4, ReplayStep
<1>7. s \in Memories /\ r \in Memories
  BY <1>4, ReplayType
<1>. HIDE DEF s, r
<1>8. CASE \E c \in Members : Host(c) = h /\ o[c] # None /\ o[c].at = m
  <2>1. PICK c \in Members : Host(c) = h /\ o[c] # None /\ o[c].at = m
    BY <1>8
  <2>2. o[c] = q[c]
    BY <1>2, <2>1 DEF Unseen
  <2>3. MadeAt(o, m) = c /\ MadeAt(q, m) = c
    BY <2>1, <2>2, TheOneMade
  <2>4. Learns(o, s, m) = WithResult(s, c, o[c]) /\ Learns(q, r, m) = WithResult(r, c, o[c])
    BY <2>1, <2>2, <2>3 DEF Learns
  <2>. QED  BY <1>2, <1>5, <1>6, <1>7, <2>4, TeachingAlike
<1>9. CASE ~\E c \in Members : Host(c) = h /\ o[c] # None /\ o[c].at = m
  <2>1. ~\E c \in Members : Host(c) = h /\ q[c] # None /\ q[c].at = m
    BY <1>2, <1>9 DEF Unseen
  <2>2. SameAt(Learns(o, s, m), s, h)
    BY <1>7, <1>9, LearningFrom, Teaching DEF SameAt
  <2>3. SameAt(Learns(q, r, m), r, h)
    BY <1>7, <2>1, LearningFrom, Teaching DEF SameAt
  <2>. QED  BY <1>2, <1>5, <1>6, <2>2, <2>3 DEF SameAt
<1>. QED  BY <1>8, <1>9

\* A recorded stop is remembered.
LEMMA ReplayedStop ==
  ASSUME NEW o, Distinct(o), NEW c \in Members, o[c] # None, o[c].at \in Nat, o[c].at # 0,
         Stopping(c, o[c]), NEW n \in Nat, o[c].at <= n
  PROVE  Host(c) \in Replay(o, n).stopped
<1>. DEFINE S == {m \in Nat : o[c].at <= m /\ Host(c) \notin Replay(o, m).stopped}
<1>1. SUFFICES ASSUME S # {} PROVE FALSE
  OBVIOUS
<1>2. PICK m \in S : \A u \in S : ~(u < m)
  BY <1>1, FirstRank
<1>3. m - 1 \in Nat /\ m - 1 < m /\ (m - 1) + 1 = m
  BY <1>2
<1>4. Replay(o, m) = Learns(o, Replay(o, m - 1), m) /\ Replay(o, m - 1) \in Memories
  BY <1>3, ReplayStep, ReplayType
<1>5. CASE o[c].at = m
  <2>1. Learns(o, Replay(o, m - 1), m) = WithResult(Replay(o, m - 1), c, o[c])
    BY <1>5, TheOneMade DEF Learns
  <2>. QED  BY <1>2, <1>4, <2>1, Teaching
<1>6. CASE o[c].at # m
  <2>1. o[c].at <= m - 1
    BY <1>2, <1>3, <1>6
  <2>2. Host(c) \in Replay(o, m - 1).stopped
    BY <1>2, <1>3, <2>1
  <2>. QED  BY <1>2, <1>4, <2>2, LearningTypes
<1>. QED  BY <1>5, <1>6

-----------------------------------------------------------------------------
(* The invariant.                                                           *)

Places == {"down", "loop", "ask", "page", "links", "fallback", "record"}
Requesting == {"ask", "page", "links"}
Working == Requesting \cup {"fallback"}

LiveResults == [status : Outcomes, method : ResultMethods, code : Codes]
Asked == [url : Addresses, why : Reasons]

Shape ==
  /\ obs \in [Members -> {None} \cup SiteObservation] /\ clock \in Nat
  /\ Distinct(obs) /\ \A c \in Observed : obs[c].at \in 1..clock
  /\ state \in Memories /\ pc \in Places
  /\ at \in Nat /\ (pc # "down" => at # 0)
  /\ pc \in Working \cup {"record"} => at \in Members
  /\ pc = "record" => result \in LiveResults
  /\ failed \in {None} \cup Codes

\* What is asked for, read or followed is at the host of the member whose turn it
\* is, a page that is read is permitted, and a request is one of its place.
Reading ==
  /\ pc \in Requesting => at \in Sited
  /\ pc = "page" => page \in Page /\ Permitted(page.url)
  /\ pc = "ask" => /\ ask \in Asked /\ HostOf[ask.url.origin] = Host(at)
                   /\ ask.why = "redirect" => page \in Page
  /\ links.todo \subseteq {url \in Entries : HostOf[url.origin] = Host(at)}
  /\ pc \notin Requesting => links.todo = {}
  /\ wire # None => \/ wire.kind = "robots" /\ pc = "ask"
                    \/ wire.kind = "page" /\ pc = "page" /\ wire.url = page.url
                    \/ wire.kind = "search" /\ Searches

\* A living command remembers every recorded stop, and works on no stopped host.
Remembers ==
  /\ pc # "down" =>
       /\ RecordedStops \subseteq state.stopped
       /\ (\E c \in Observed : StopsFallback(obs[c])) => state.halted
  /\ pc \in Working => Host(at) \notin state.stopped
  /\ pc = "record" =>
       /\ Stopping(at, result) => Host(at) \in state.stopped
       /\ StopsFallback(result) => state.halted

\* None of the observations of the members of a host was rewritten.
FirstOnly(h) == \A c \in Observed : Host(c) = h => obs[c].first

\* Three rate limits stop a host.
CountsFit(s, h) == s.limits[h] <= 3 /\ (s.limits[h] = 3 => h \in s.stopped)

AgreesAt(h) ==
  /\ CountsFit(Replay(obs, clock), h)
  /\ pc # "down" => CountsFit(state, h)
  /\ pc \notin {"down", "record"} => SameAt(state, Replay(obs, clock), h)
  /\ pc = "record" => SameAt(state, WithResult(Replay(obs, clock), at, result), h)

Agrees == \A h \in Hosts : FirstOnly(h) => AgreesAt(h)

LiveIInv == Shape /\ Reading /\ Remembers /\ Agrees

-----------------------------------------------------------------------------
(* The kinds of steps of a living command.                                  *)

\* It goes on, and nothing is recorded or learned.
Proceeds ==
  /\ pc \notin {"down", "record"} /\ pc' \in Places \ {"down", "record"}
  /\ UNCHANGED <<obs, clock, state>>
  /\ at' \in Nat /\ at' # 0
  /\ pc' \in Working => at' = at /\ at \in Members /\ Host(at) \notin state.stopped
  /\ pc' \in Requesting => at \in Sited
  /\ failed' \in {None} \cup Codes

\* The discovery of a member comes to o.
Concludes(o) ==
  /\ pc \notin {"down", "record"} /\ pc' = "record"
  /\ result' = o /\ state' = WithResult(state, at, o)
  /\ UNCHANGED <<obs, clock, at>> /\ at \in Members /\ Host(at) \notin state.stopped
  /\ o \in LiveResults /\ (StopsFallback(o) => state.halted)
  /\ failed' = None

LEMMA OfficialProceeds ==
  ASSUME Shape, Reading, Remembers, NEW o \in LiveResults, o.method = "official_navigation",
         pc \in Requesting \/ (pc = "loop" /\ at \in Members /\ Host(at) \notin state.stopped),
         Official(o)
  PROVE  Proceeds \/ Concludes(o)
<1>1. at \in Members /\ Host(at) \notin state.stopped /\ at # 0 /\ at \in Nat
  BY DEF Shape, Remembers, Working, Requesting, Members
<1>2. ~StopsFallback(o)
  BY DEF StopsFallback, Zhihu
<1>3. CASE o.status # "not_found"
  BY <1>1, <1>2, <1>3 DEF Official, Conclude, Concludes, Requesting
<1>4. CASE o.status = "not_found"
  BY <1>1, <1>4 DEF Official, Proceeds, Requesting, Working, Places
<1>. QED  BY <1>3, <1>4

LEMMA FailureIsResult ==
  ASSUME NEW code \in Codes
  PROVE  Failure(code) \in LiveResults /\ Failure(code).method = "official_navigation"
BY DEF Failure, Found, LiveResults, Outcomes, ResultMethods, Codes

LEMMA PageFailedProceeds ==
  ASSUME Shape, Reading, Remembers, pc \in Requesting, NEW code \in Codes, PageFailed(code)
  PROVE  Proceeds \/ \E o : Concludes(o)
<1>1. CASE Official(Failure(code))
  BY <1>1, FailureIsResult, OfficialProceeds
<1>2. CASE ~Official(Failure(code))
  BY <1>2 DEF PageFailed, Proceeds, Requesting, Working, Places, Shape, Reading, Remembers
<1>. QED  BY <1>1, <1>2

LEMMA VisitKinds ==
  ASSUME Shape, Reading, Remembers, pc # "down",
         \/ Skip \/ TakeEvidenced \/ WithoutSite \/ VisitSite \/ AskRobots \/ LearnRobots
         \/ RobotsRefused \/ Permit \/ Forbid
  PROVE  Proceeds \/ \E o : Concludes(o)
<1>. USE DEF Shape, Reading, Remembers
<1>1. ASSUME Turn, ~HostIsStopped PROVE at \in Members /\ Host(at) \notin state.stopped /\ pc = "loop"
  BY <1>1, PositiveBounds DEF Turn, Ends, HostIsStopped, Members
<1>2. CASE Skip
  BY <1>2 DEF Skip, Proceeds, Places, Working, Requesting
<1>3. CASE TakeEvidenced
  <2>1. PICK status \in {"accepted", "review_required", "failed"} :
           Conclude(Found(status, "evidenced_recruitment_url", "evidenced"))
    BY <1>3 DEF TakeEvidenced
  <2>. DEFINE o == Found(status, "evidenced_recruitment_url", "evidenced")
  <2>2. o \in LiveResults /\ ~StopsFallback(o)
    BY DEF Found, LiveResults, Outcomes, ResultMethods, Codes, StopsFallback, Zhihu
  <2>3. Concludes(o)
    BY <1>1, <1>3, <2>1, <2>2 DEF TakeEvidenced, Conclude, Concludes
  <2>. QED  BY <2>3
<1>4. CASE WithoutSite
  <2>. DEFINE o == Found("not_found", "official_navigation", "official_website_missing")
  <2>1. o \in LiveResults /\ o.method = "official_navigation"
    BY DEF Found, LiveResults, Outcomes, ResultMethods, Codes
  <2>2. Official(o) /\ pc = "loop" /\ at \in Members /\ Host(at) \notin state.stopped
    BY <1>1, <1>4 DEF WithoutSite
  <2>. HIDE DEF o
  <2>. QED  BY <2>1, <2>2, OfficialProceeds
<1>5. CASE VisitSite
  BY <1>1, <1>5 DEF VisitSite, Wants, Proceeds, Places, Working, Requesting, Members
<1>6. CASE AskRobots
  BY <1>6 DEF AskRobots, memory, Proceeds, Places, Working, Requesting
<1>7. CASE LearnRobots
  BY <1>7 DEF LearnRobots, Proceeds, Places, Working, Requesting
<1>8. CASE RobotsRefused
  <2>1. pc \in Requesting
    BY <1>8 DEF RobotsRefused, Requesting
  <2>2. \E code \in Codes : PageFailed(code) \/ Official(Failure(code))
    BY <1>8 DEF RobotsRefused, Codes
  <2>. QED  BY <2>1, <2>2, PageFailedProceeds, FailureIsResult, OfficialProceeds
<1>9. CASE Permit
  <2>1. pc \in Requesting
    BY <1>9 DEF Permit, Requesting
  <2>2. CASE PageFailed("too_many_redirects")
    BY <2>1, <2>2, PageFailedProceeds DEF Codes
  <2>3. CASE ~PageFailed("too_many_redirects")
    BY <1>9, <2>3 DEF Permit, Proceeds, Places, Working, Requesting
  <2>. QED  BY <2>2, <2>3
<1>10. CASE Forbid
  <2>1. pc \in Requesting
    BY <1>10 DEF Forbid, Requesting
  <2>2. CASE PageFailed("unsafe_redirect") \/ Official(Failure("robots_disallowed"))
    BY <2>1, <2>2, PageFailedProceeds, FailureIsResult, OfficialProceeds DEF Codes
  <2>3. CASE ~(PageFailed("unsafe_redirect") \/ Official(Failure("robots_disallowed")))
    BY <1>10, <2>3 DEF Forbid, Codes, Proceeds, Places, Working, Requesting
  <2>. QED  BY <2>2, <2>3
<1>. QED  BY <1>2, <1>3, <1>4, <1>5, <1>6, <1>7, <1>8, <1>9, <1>10

LEMMA PageKinds ==
  ASSUME Shape, Reading, Remembers,
         \/ AskPage \/ Redirected \/ PageError \/ Challenged \/ ExternalEntry \/ ReadSite
         \/ AcceptPage \/ TryLink \/ NoLinkLeft
  PROVE  Proceeds \/ \E o : Concludes(o)
<1>1. pc \in Requesting
  BY DEF AskPage, Redirected, PageError, Challenged, ExternalEntry, ReadSite, AcceptPage, TryLink, NoLinkLeft, Requesting
<1>2. CASE AskPage \/ Redirected \/ ReadSite \/ TryLink
  BY <1>1, <1>2 DEF AskPage, Redirected, ReadSite, TryLink, Follows, Wants, memory, Proceeds, Places, Working, Requesting,
                    Shape, Reading, Remembers
<1>3. CASE PageError
  <2>1. \E code \in Codes : PageFailed(code)
    BY <1>3 DEF PageError, Codes
  <2>. QED  BY <1>1, <2>1, PageFailedProceeds
<1>4. CASE Challenged \/ ExternalEntry \/ AcceptPage \/ NoLinkLeft
  <2>1. \E o \in LiveResults : o.method = "official_navigation" /\ Official(o)
    <3>1. CASE Challenged
      BY <3>1, FailureIsResult DEF Challenged, Codes
    <3>2. CASE ExternalEntry
      BY <3>2 DEF ExternalEntry, Found, LiveResults, Outcomes, ResultMethods, Codes
    <3>3. CASE AcceptPage
      BY <3>3 DEF AcceptPage, Found, LiveResults, Outcomes, ResultMethods, Codes
    <3>4. CASE NoLinkLeft
      <4>1. CASE failed # None
        BY <3>4, <4>1, FailureIsResult DEF NoLinkLeft, Shape
      <4>2. CASE failed = None
        BY <3>4, <4>2 DEF NoLinkLeft, Found, LiveResults, Outcomes, ResultMethods, Codes
      <4>. QED  BY <4>1, <4>2
    <3>. QED  BY <1>4, <3>1, <3>2, <3>3, <3>4
  <2>. QED  BY <1>1, <2>1, OfficialProceeds
<1>. QED  BY <1>2, <1>3, <1>4

\* The fallback is stopped for good.
Halts ==
  /\ pc = "fallback" /\ pc' = "record"
  /\ result' \in LiveResults /\ result'.method = Zhihu
  /\ state' = [state EXCEPT !.halted = TRUE]
  /\ UNCHANGED <<obs, clock, at, failed>>

LEMMA FallbackKinds ==
  ASSUME Shape, Reading, Remembers,
         \/ FallbackStopped \/ NothingToSearch \/ Search \/ OverBudget \/ SearchRefused
         \/ SearchRetries \/ SearchFailed \/ SearchAnswered
  PROVE  Proceeds \/ (\E o : Concludes(o)) \/ Halts
<1>1. pc = "fallback"
  BY DEF FallbackStopped, NothingToSearch, Search, OverBudget, SearchRefused, SearchRetries, SearchFailed, SearchAnswered, Searches
<1>2. at \in Members /\ Host(at) \notin state.stopped
  BY <1>1 DEF Shape, Remembers, Working
<1>3. CASE FallbackStopped \/ NothingToSearch \/ SearchFailed \/ SearchAnswered
  <2>1. \E o \in LiveResults : Conclude(o) /\ (StopsFallback(o) => state.halted)
    BY <1>3 DEF FallbackStopped, NothingToSearch, SearchFailed, SearchAnswered, Found, LiveResults, Outcomes, ResultMethods, Codes, StopsFallback,
                FallbackStops, Zhihu
  <2>. QED  BY <1>1, <1>2, <2>1 DEF Conclude, Concludes
<1>4. CASE Search \/ SearchRetries
  BY <1>1, <1>2, <1>4 DEF Search, SearchRetries, memory, Proceeds, Places, Working, Requesting, Shape
<1>5. CASE OverBudget \/ SearchRefused
  <2>1. \E code \in Codes : Halt(code)
    BY <1>5 DEF OverBudget, SearchRefused, Codes
  <2>. QED  BY <1>1, <2>1 DEF Halt, Halts, Found, LiveResults, Outcomes, ResultMethods, Codes, Zhihu
<1>. QED  BY <1>3, <1>4, <1>5

-----------------------------------------------------------------------------
(* What each kind of step does to what is recorded and remembered.          *)

Memory == Shape /\ Remembers /\ Agrees

LEMMA StopsRecorded ==
  ASSUME NEW S
  PROVE  RecordedStops \subseteq S <=> \A c \in Observed : Stopping(c, obs[c]) => Host(c) \in S
BY DEF RecordedStops, Stopping

LEMMA CountsLearned ==
  ASSUME NEW s \in Memories, NEW c, NEW o, NEW h \in Hosts, CountsFit(s, h), h \notin s.stopped
  PROVE  CountsFit(WithResult(s, c, o), h)
<1>1. CASE h # Host(c)
  BY <1>1, Teaching DEF SameAt, CountsFit
<1>2. CASE h = Host(c) /\ c \in Sited /\ o.method = "official_navigation"
  <2>1. s.limits[h] \in Nat /\ s.limits[h] + 1 <= 3
    BY DEF CountsFit, Memories
  <2>2. CASE o.code = "provider_rate_limited"
    <3>1. WithResult(s, c, o) = [s EXCEPT !.limits[h] = @ + 1,
                     !.stopped = IF s.limits[h] + 1 >= 3 THEN @ \cup {h} ELSE @]
      BY <1>2, <2>2 DEF WithResult
    <3>2. WithResult(s, c, o) = [stopped |-> IF s.limits[h] + 1 >= 3 THEN s.stopped \cup {h} ELSE s.stopped,
                                 limits |-> [s.limits EXCEPT ![h] = @ + 1], halted |-> s.halted]
      BY <3>1 DEF Memories
    <3>3. WithResult(s, c, o).limits[h] = s.limits[h] + 1
      BY <3>2 DEF Memories
    <3>. QED  BY <2>1, <3>2, <3>3 DEF CountsFit
  <2>3. CASE o.code = "source_rate_limited"
    <3>1. WithResult(s, c, o) = [s EXCEPT !.limits[h] = 3, !.stopped = @ \cup {h}]
      BY <1>2, <2>3 DEF WithResult
    <3>2. WithResult(s, c, o) = [stopped |-> s.stopped \cup {h}, limits |-> [s.limits EXCEPT ![h] = 3], halted |-> s.halted]
      BY <3>1 DEF Memories
    <3>. QED  BY <3>2 DEF CountsFit, Memories
  <2>4. CASE o.code \in {"provider_access_denied", "source_access_stopped"}
    BY <1>2, <2>1, <2>4 DEF WithResult, CountsFit, Memories
  <2>5. CASE o.code \notin {"provider_access_denied", "source_access_stopped", "source_rate_limited", "provider_rate_limited"}
    BY <1>2, <2>1, <2>5 DEF WithResult, CountsFit, Memories
  <2>. QED  BY <2>2, <2>3, <2>4, <2>5
<1>3. CASE c \notin Sited \/ o.method # "official_navigation"
  BY <1>3 DEF WithResult
<1>. QED  BY <1>1, <1>2, <1>3

LEMMA ProceedsKeeps ==
  ASSUME Memory, Proceeds
  PROVE  Memory'
<1>1. Shape'
  BY DEF Memory, Shape, Proceeds, Observed, Distinct, Working, Requesting, Places
<1>2. Remembers'
  BY DEF Memory, Remembers, Proceeds, Observed, Working, Requesting, RecordedStops, Host, Places
<1>3. pc \notin {"down", "record"} /\ pc' \notin {"down", "record"} /\ Replay(obs, clock)' = Replay(obs, clock)
  BY DEF Proceeds
<1>4. state' = state /\ \A h : FirstOnly(h)' = FirstOnly(h)
  BY DEF Proceeds, FirstOnly, Observed
<1>5. Agrees'
  BY <1>3, <1>4 DEF Memory, Agrees, AgreesAt, CountsFit, SameAt
<1>. QED  BY <1>1, <1>2, <1>5 DEF Memory

LEMMA ConcludesKeeps ==
  ASSUME Memory, NEW o, Concludes(o)
  PROVE  Memory'
<1>. DEFINE R == Replay(obs, clock)
<1>1. state \in Memories /\ R \in Memories
  BY ReplayType DEF Memory, Shape
<1>2. state' = WithResult(state, at, o) /\ state' \in Memories /\ state.stopped \subseteq state'.stopped
      /\ state'.halted = state.halted
  BY <1>1, Teaching DEF Concludes
<1>3. Shape'
  BY <1>2 DEF Memory, Shape, Concludes, Observed, Distinct, Working, Requesting, Places
<1>4. Remembers'
  BY <1>1, <1>2, Teaching DEF Memory, Remembers, Concludes, Observed, Working, Requesting, RecordedStops, Host
<1>5. R' = R /\ \A h : FirstOnly(h)' = FirstOnly(h)
  BY DEF Concludes, FirstOnly, Observed
<1>6. ASSUME NEW h \in Hosts, FirstOnly(h) PROVE AgreesAt(h)'
  <2>1. CountsFit(R, h) /\ CountsFit(state, h) /\ SameAt(state, R, h)
    BY <1>6 DEF Memory, Agrees, AgreesAt, Concludes
  <2>2. SameAt(state', WithResult(R, at, o), h)
    BY <1>1, <1>2, <2>1, TeachingAlike
  <2>3. CountsFit(state', h)
    <3>1. CASE h = Host(at)
      BY <1>1, <1>2, <2>1, <3>1, CountsLearned DEF Concludes
    <3>2. CASE h # Host(at)
      BY <1>1, <1>2, <2>1, <3>2, Teaching DEF SameAt, CountsFit
    <3>. QED  BY <3>1, <3>2
  <2>. HIDE DEF R
  <2>. QED  BY <1>5, <2>1, <2>2, <2>3 DEF AgreesAt, Concludes, CountsFit, R
<1>7. Agrees'
  BY <1>5, <1>6 DEF Agrees
<1>. QED  BY <1>3, <1>4, <1>7 DEF Memory

LEMMA HaltsKeeps ==
  ASSUME Memory, Halts
  PROVE  Memory'
<1>1. state' \in Memories /\ state'.stopped = state.stopped /\ state'.limits = state.limits /\ state'.halted
  BY DEF Memory, Shape, Halts, Memories
<1>2. result'.method # "official_navigation"
  BY DEF Halts, Zhihu
<1>3. Shape'
  BY <1>1 DEF Memory, Shape, Halts, Observed, Distinct, Working, Requesting, Places
<1>4. Remembers'
  BY <1>1, <1>2 DEF Memory, Remembers, Halts, Observed, Working, Requesting, RecordedStops, Stopping
<1>5. Replay(obs, clock)' = Replay(obs, clock) /\ \A h : FirstOnly(h)' = FirstOnly(h)
  BY DEF Halts, FirstOnly, Observed
<1>6. WithResult(Replay(obs, clock), at, result)' = Replay(obs, clock)
  BY <1>2, <1>5 DEF WithResult
<1>7. Agrees'
  BY <1>1, <1>5, <1>6 DEF Memory, Agrees, AgreesAt, CountsFit, SameAt, Halts
<1>. QED  BY <1>3, <1>4, <1>7 DEF Memory

\* A member of a stopped host is told apart by how the host was stopped, and a
\* resume learns the same from that.
LEMMA LeaveAloneKeeps ==
  ASSUME Memory, LeaveAlone
  PROVE  Memory'
<1>. DEFINE code == IF state.limits[Host(at)] >= 3 THEN "source_rate_limited" ELSE "source_access_stopped"
            r == Found("blocked", "official_navigation", code)
            R == Replay(obs, clock)
<1>1. /\ pc = "loop" /\ at \in Members /\ Host(at) \in state.stopped
      /\ pc' = "record" /\ result' = r /\ UNCHANGED <<obs, clock, state, at, failed>>
  BY PositiveBounds DEF LeaveAlone, Turn, Ends, HostIsStopped, Memory, Shape, Members
<1>2. r \in LiveResults /\ r.method = "official_navigation" /\ r.code = code
  BY DEF Found, LiveResults, Outcomes, ResultMethods, Codes
<1>3. Shape'
  BY <1>1, <1>2 DEF Memory, Shape, Observed, Distinct, Working, Requesting, Places
<1>4. Remembers'
  <2>1. ~StopsFallback(r)
    BY <1>2 DEF StopsFallback, Zhihu
  <2>. QED  BY <1>1, <2>1 DEF Memory, Remembers, Observed, Working, Requesting, RecordedStops, Host
<1>5. state \in Memories /\ R \in Memories
  BY ReplayType DEF Memory, Shape
<1>6. R' = R /\ \A h : FirstOnly(h)' = FirstOnly(h)
  BY <1>1 DEF FirstOnly, Observed
<1>7. ASSUME NEW h \in Hosts, FirstOnly(h) PROVE AgreesAt(h)'
  <2>1. CountsFit(R, h) /\ CountsFit(state, h) /\ SameAt(state, R, h)
    BY <1>1, <1>7 DEF Memory, Agrees, AgreesAt
  <2>2. SameAt(state, WithResult(R, at, r), h)
    <3>1. CASE h # Host(at) \/ at \notin Sited
      <4>1. WithResult(R, at, r) = R \/ SameAt(WithResult(R, at, r), R, h)
        BY <1>5, <3>1, Teaching DEF WithResult
      <4>. HIDE DEF R, r
      <4>. QED  BY <2>1, <4>1 DEF SameAt
    <3>2. CASE h = Host(at) /\ at \in Sited /\ state.limits[h] >= 3
      <4>1. state.limits[h] = 3
        BY <1>5, <2>1, <3>2 DEF CountsFit, Memories
      <4>2. WithResult(R, at, r) = [R EXCEPT !.limits[h] = 3, !.stopped = @ \cup {h}]
        BY <1>2, <3>2 DEF WithResult
      <4>3. WithResult(R, at, r) = [stopped |-> R.stopped \cup {h}, limits |-> [R.limits EXCEPT ![h] = 3], halted |-> R.halted]
        BY <1>5, <4>2 DEF Memories
      <4>. HIDE DEF R, r
      <4>. QED  BY <1>1, <1>5, <3>2, <4>1, <4>3 DEF SameAt, Memories
    <3>3. CASE h = Host(at) /\ at \in Sited /\ ~(state.limits[h] >= 3)
      <4>1. WithResult(R, at, r) = [R EXCEPT !.stopped = @ \cup {h}]
        BY <1>2, <3>3 DEF WithResult
      <4>. HIDE DEF R, r
      <4>. QED  BY <1>1, <1>5, <2>1, <3>3, <4>1 DEF SameAt, Memories
    <3>. QED  BY <3>1, <3>2, <3>3
  <2>. HIDE DEF R, r
  <2>. QED  BY <1>1, <1>6, <2>1, <2>2 DEF AgreesAt, CountsFit, R
<1>. HIDE DEF R, r
<1>8. Agrees'
  BY <1>6, <1>7 DEF Agrees
<1>. QED  BY <1>3, <1>4, <1>8 DEF Memory

LEMMA RecordKeeps ==
  ASSUME Memory, Record
  PROVE  Memory'
<1>. DEFINE new == [status |-> result.status, method |-> result.method, code |-> result.code,
                    at |-> clock + 1, first |-> obs[at] = None]
            R == Replay(obs, clock)
            Q == Replay(obs', clock)
<1>1. /\ pc = "record" /\ pc' = "loop" /\ at \in Members /\ at' = at + 1 /\ clock' = clock + 1
      /\ obs' = [obs EXCEPT ![at] = new] /\ UNCHANGED <<state, failed>>
      /\ result \in LiveResults /\ clock \in Nat /\ state \in Memories
  BY DEF Record, Memory, Shape
<1>2. new \in SiteObservation /\ new # None /\ new.method = result.method /\ new.code = result.code
      /\ new.at = clock + 1 /\ (new.first => obs[at] = None)
  <2>1. (obs[at] = None) \in BOOLEAN
    OBVIOUS
  <2>2. new \in SiteObservation
    BY <1>1, <2>1 DEF LiveResults, SiteObservation
  <2>. QED  BY <2>2, NoneIsNothing
<1>. HIDE DEF new
<1>3. obs' \in [Members -> {None} \cup SiteObservation] /\ obs'[at] = new /\ \A c \in Members : c # at => obs'[c] = obs[c]
  BY <1>1, <1>2 DEF Memory, Shape
<1>4. \A c \in Members : obs[c] # None => obs[c].at \in 1..clock
  BY DEF Memory, Shape, Observed
<1>5. Distinct(obs) /\ Distinct(obs')
  BY <1>1, <1>2, <1>3, <1>4 DEF Memory, Shape, Distinct
<1>6. Shape'
  <2>1. \A c \in Members : obs'[c] # None => obs'[c].at \in 1..(clock + 1)
    BY <1>1, <1>2, <1>3, <1>4
  <2>2. at' \in Nat /\ at' # 0 /\ clock' \in Nat
    BY <1>1 DEF Members
  <2>. QED  BY <1>1, <1>3, <1>5, <2>1, <2>2 DEF Memory, Shape, Distinct, Observed, Working, Requesting, Places
<1>7. Remembers'
  <2>1. ASSUME NEW c \in Observed', Stopping(c, obs'[c]) PROVE Host(c) \in state.stopped
    <3>1. CASE c = at
      BY <1>1, <1>2, <1>3, <2>1, <3>1 DEF Stopping, Memory, Remembers
    <3>2. CASE c # at
      BY <1>1, <1>3, <2>1, <3>2, StopsRecorded DEF Memory, Remembers, Observed
    <3>. QED  BY <3>1, <3>2
  <2>2. RecordedStops' \subseteq state'.stopped
    BY <1>1, <2>1 DEF RecordedStops, Stopping
  <2>3. (\E c \in Observed' : StopsFallback(obs'[c])) => state'.halted
    BY <1>1, <1>2, <1>3 DEF Memory, Remembers, Observed, StopsFallback
  <2>. QED  BY <1>1, <2>2, <2>3 DEF Remembers, Working, Requesting
<1>8. R \in Memories /\ Q \in Memories
  BY <1>1, ReplayType
<1>9. Replay(obs', clock + 1) = WithResult(Q, at, result)
  <2>1. Replay(obs', clock + 1) = Learns(obs', Q, clock + 1)
    BY <1>1, ReplayStep
  <2>2. MadeAt(obs', clock + 1) = at
    BY <1>1, <1>2, <1>3, <1>5, TheOneMade
  <2>3. Learns(obs', Q, clock + 1) = WithResult(Q, at, new)
    BY <1>1, <1>2, <1>3, <2>2 DEF Learns
  <2>4. WithResult(Q, at, new) = WithResult(Q, at, result)
    BY <1>2 DEF WithResult
  <2>. QED  BY <2>1, <2>3, <2>4
<1>10. ASSUME NEW h \in Hosts, FirstOnly(h)' PROVE AgreesAt(h)'
  <2>1. \A c \in Members : obs'[c] # None /\ Host(c) = h => obs'[c].first
    BY <1>10 DEF FirstOnly, Observed, Host
  <2>2. Host(at) = h => obs[at] = None
    BY <1>1, <1>2, <1>3, <2>1
  <2>3. FirstOnly(h)
    BY <1>1, <1>3, <2>1, <2>2 DEF FirstOnly, Observed
  <2>4. SameAt(state, WithResult(R, at, result), h) /\ CountsFit(state, h)
    BY <1>1, <2>3 DEF Memory, Agrees, AgreesAt
  <2>5. \A c \in Members : Host(c) = h =>
           obs'[c] = obs[c] \/ (Unseen(obs', c, clock) /\ Unseen(obs, c, clock))
    BY <1>1, <1>2, <1>3, <2>2 DEF Unseen
  <2>6. SameAt(Q, R, h)
    BY <1>1, <1>5, <2>5, ReplayOfHost
  <2>7. SameAt(WithResult(Q, at, result), WithResult(R, at, result), h)
    BY <1>8, <2>6, TeachingAlike
  <2>8. SameAt(state, Replay(obs', clock + 1), h)
    BY <1>9, <2>4, <2>7 DEF SameAt
  <2>. HIDE DEF R, Q
  <2>9. CountsFit(Replay(obs', clock + 1), h)
    BY <2>4, <2>8 DEF SameAt, CountsFit
  <2>. QED  BY <1>1, <2>4, <2>8, <2>9 DEF AgreesAt, CountsFit
<1>11. Agrees'
  BY <1>10 DEF Agrees
<1>. QED  BY <1>6, <1>7, <1>11 DEF Memory

LEMMA ForgetKeeps ==
  ASSUME Memory, Forget, pc' = "down", UNCHANGED <<obs, clock>>
  PROVE  Memory'
<1>1. Shape'
  BY DEF Memory, Shape, Forget, Fresh, Memories, Distinct, Observed, Working, Requesting, Places
<1>2. Remembers'
  BY DEF Remembers, Working, Requesting
<1>3. Replay(obs, clock)' = Replay(obs, clock) /\ \A h : FirstOnly(h)' = FirstOnly(h)
  BY DEF FirstOnly, Observed
<1>4. Agrees'
  BY <1>3 DEF Memory, Agrees, AgreesAt, CountsFit
<1>. QED  BY <1>1, <1>2, <1>4 DEF Memory

LEMMA StartKeeps ==
  ASSUME Memory, Start
  PROVE  Memory'
<1>. DEFINE R == Replay(obs, clock)
<1>1. R \in Memories
  BY ReplayType DEF Memory, Shape
<1>2. /\ state' \in Memories /\ state'.stopped = R.stopped /\ state'.limits = R.limits
      /\ state'.halted = \E c \in Observed : StopsFallback(obs[c])
  <2>1. state' = [R EXCEPT !.halted = \E c \in Observed : StopsFallback(obs[c])]
    BY DEF Start, Rebuilt
  <2>. HIDE DEF R
  <2>. QED  BY <1>1, <2>1 DEF Memories
<1>3. Shape'
  BY <1>2 DEF Memory, Shape, Start, Distinct, Observed, Working, Requesting, Places
<1>4. Remembers'
  <2>1. ASSUME NEW c \in Observed, Stopping(c, obs[c]) PROVE Host(c) \in R.stopped
    BY <2>1, ReplayedStop DEF Memory, Shape, Observed
  <2>2. RecordedStops \subseteq R.stopped
    BY <2>1, StopsRecorded
  <2>. HIDE DEF R
  <2>. QED  BY <1>2, <2>2 DEF Remembers, Start, Working, Requesting, RecordedStops, Observed
<1>5. R' = R /\ \A h : FirstOnly(h)' = FirstOnly(h)
  BY DEF Start, FirstOnly, Observed
<1>6. ASSUME NEW h \in Hosts, FirstOnly(h) PROVE AgreesAt(h)'
  <2>1. CountsFit(R, h)
    BY <1>6 DEF Memory, Agrees, AgreesAt
  <2>. HIDE DEF R
  <2>. QED  BY <1>2, <1>5, <2>1 DEF AgreesAt, CountsFit, SameAt, Start, R
<1>7. Agrees'
  BY <1>5, <1>6 DEF Agrees
<1>. QED  BY <1>3, <1>4, <1>7 DEF Memory

-----------------------------------------------------------------------------
(* What every step does to the requests.                                    *)

LEMMA OfficialReads ==
  ASSUME NEW o, Official(o), wire' = None
  PROVE  Reading'
BY DEF Official, Conclude, Reading, Requesting, NoLinks

LEMMA PageFailedReads ==
  ASSUME Shape, Reading, pc \in Requesting, NEW code, PageFailed(code), wire' = None
  PROVE  Reading'
<1>1. CASE Official(Failure(code))
  BY <1>1, OfficialReads
<1>2. CASE ~Official(Failure(code))
  BY <1>2 DEF PageFailed, Reading, Requesting, Host
<1>. QED  BY <1>1, <1>2

LEMMA ConcludeReads ==
  ASSUME NEW o, Conclude(o), wire' = None
  PROVE  Reading'
BY DEF Conclude, Reading, Requesting, NoLinks

LEMMA QuietReads ==
  ASSUME Reading, pc \notin Requesting, pc' \notin Requesting, UNCHANGED links, wire' = None
  PROVE  Reading'
BY DEF Reading, Requesting

LEMMA VisitReads ==
  ASSUME Shape, Reading, pc # "down",
         \/ Skip \/ LeaveAlone \/ TakeEvidenced \/ WithoutSite \/ VisitSite \/ AskRobots
         \/ LearnRobots \/ RobotsRefused
  PROVE  Reading'
<1>1. CASE Skip \/ LeaveAlone
  <2>1. pc = "loop" /\ wire' = wire /\ wire = None /\ pc' \in {"loop", "record"} /\ links' = links
    BY <1>1 DEF Skip, LeaveAlone, Turn, Reading, Searches
  <2>. QED  BY <2>1, QuietReads DEF Requesting
<1>2. CASE TakeEvidenced \/ WithoutSite
  <2>1. wire' = None
    BY <1>2 DEF TakeEvidenced, WithoutSite, Turn, Reading, Searches
  <2>2. (\E o : Official(o)) \/ (\E o : Conclude(o))
    BY <1>2 DEF TakeEvidenced, WithoutSite
  <2>. QED  BY <2>1, <2>2, OfficialReads, ConcludeReads
<1>3. CASE VisitSite
  <2>1. pc = "loop" /\ at \in Sited /\ wire' = None /\ UNCHANGED <<at, links>> /\ pc' = "ask"
    BY <1>3 DEF VisitSite, Wants, Turn, Reading, Searches
  <2>2. ask' = [url |-> [origin |-> SiteOf[at], path |-> Root], why |-> "site"]
    BY <1>3 DEF VisitSite, Wants
  <2>3. ask' \in Asked /\ HostOf[ask'.url.origin] = Host(at) /\ ask'.why # "redirect"
    BY <2>1, <2>2, AddressesAreGiven DEF Asked, Addresses, Reasons, Host, Sited
  <2>. QED  BY <2>1, <2>3 DEF Reading, Requesting, Host
<1>4. CASE AskRobots
  <2>1. pc = "ask" /\ UNCHANGED <<pc, memory>> /\ wire'.kind = "robots"
    BY <1>4 DEF AskRobots, Send
  <2>. QED  BY <2>1 DEF memory, Reading, Requesting, Host
<1>5. CASE LearnRobots
  <2>1. pc = "ask" /\ wire' = None /\ UNCHANGED <<pc, at, ask, page, links>>
    BY <1>5 DEF LearnRobots
  <2>. QED  BY <2>1 DEF Reading, Requesting, Host
<1>6. CASE RobotsRefused
  <2>1. pc \in Requesting /\ wire' = None /\ \E code : PageFailed(code) \/ Official(Failure(code))
    BY <1>6 DEF RobotsRefused, Requesting
  <2>. QED  BY <2>1, PageFailedReads, OfficialReads
<1>. QED  BY <1>1, <1>2, <1>3, <1>4, <1>5, <1>6

LEMMA PermitReads ==
  ASSUME Shape, Reading, Permit
  PROVE  Reading'
<1>1. /\ pc = "ask" /\ wire' = None /\ Permitted(ask.url) /\ ask \in Asked
      /\ ask.why = "redirect" => page \in Page
  BY DEF Permit, Reading
<1>2. CASE PageFailed("too_many_redirects")
  BY <1>1, <1>2, PageFailedReads DEF Requesting
<1>3. CASE ~PageFailed("too_many_redirects")
  <2>1. /\ pc' = "page" /\ UNCHANGED <<at, links, robots>>
        /\ page' = IF ask.why = "redirect" THEN Hop(page, ask.url) ELSE [url |-> ask.url, why |-> ask.why, hops |-> 0]
    BY <1>3 DEF Permit
  <2>2. page' \in Page /\ page'.url = ask.url
    <3>1. CASE ask.why = "redirect"
      <4>1. page' = [page EXCEPT !.url = ask.url, !.hops = @ + 1] /\ page \in Page
        BY <1>1, <2>1, <3>1 DEF Hop
      <4>2. page' = [url |-> ask.url, why |-> page.why, hops |-> page.hops + 1]
        BY <4>1 DEF Page
      <4>. QED  BY <1>1, <4>1, <4>2 DEF Page, Asked
    <3>2. CASE ask.why # "redirect"
      BY <1>1, <2>1, <3>2 DEF Page, Asked
    <3>. QED  BY <3>1, <3>2
  <2>3. Permitted(page.url)'
    BY <1>1, <2>1, <2>2 DEF Permitted
  <2>. QED  BY <1>1, <2>1, <2>2, <2>3 DEF Reading, Requesting, Host
<1>. QED  BY <1>2, <1>3

LEMMA ForbidReads ==
  ASSUME Shape, Reading, Forbid
  PROVE  Reading'
<1>1. pc \in Requesting /\ wire' = None
  BY DEF Forbid, Requesting
<1>2. CASE \E code : PageFailed(code) \/ Official(Failure(code))
  BY <1>1, <1>2, PageFailedReads, OfficialReads
<1>3. CASE ~\E code : PageFailed(code) \/ Official(Failure(code))
  <2>1. pc' = "links" /\ UNCHANGED <<at, links>>
    BY <1>3 DEF Forbid
  <2>. QED  BY <1>1, <2>1 DEF Reading, Requesting, Host
<1>. QED  BY <1>2, <1>3

LEMMA PageReads ==
  ASSUME Shape, Reading,
         \/ AskPage \/ Redirected \/ PageError \/ Challenged \/ ExternalEntry \/ ReadSite
         \/ AcceptPage \/ TryLink \/ NoLinkLeft
  PROVE  Reading'
<1>1. pc \in Requesting /\ at \in Sited
  BY DEF AskPage, Redirected, PageError, Challenged, ExternalEntry, ReadSite, AcceptPage, TryLink, NoLinkLeft, Requesting, Reading
<1>2. CASE AskPage
  <2>1. pc = "page" /\ UNCHANGED <<pc, memory>> /\ wire'.kind = "page" /\ wire'.url = page.url
    BY <1>2 DEF AskPage, Send
  <2>2. Permitted(page.url)' = Permitted(page.url)
    BY <2>1 DEF memory, Permitted
  <2>. QED  BY <2>1, <2>2 DEF memory, Reading, Requesting, Host
<1>3. CASE Redirected
  <2>1. PICK url \in Addresses : HostOf[url.origin] = Host(at) /\ Follows(url)
    BY <1>3 DEF Redirected
  <2>2. /\ pc = "page" /\ pc' = "ask" /\ wire' = None /\ UNCHANGED <<at, links, page>>
        /\ ask' = [url |-> url, why |-> "redirect"]
    BY <1>3, <2>1 DEF Redirected, Follows, Wants
  <2>. QED  BY <2>1, <2>2 DEF Reading, Requesting, Host, Asked, Reasons
<1>4. CASE ReadSite
  <2>1. /\ pc' = "links" /\ wire' = None /\ at' = at
        /\ links'.todo \subseteq {url \in Entries : HostOf[url.origin] = Host(at)}
    BY <1>4 DEF ReadSite
  <2>. QED  BY <1>1, <2>1 DEF Reading, Requesting, Host
<1>5. CASE TryLink
  <2>1. PICK url \in links.todo : links'.todo = links.todo \ {url} /\ Wants(url, "link")
    BY <1>5 DEF TryLink
  <2>2. pc = "links" /\ pc' = "ask" /\ at' = at /\ wire' = None /\ ask' = [url |-> url, why |-> "link"]
    BY <1>5, <2>1 DEF TryLink, Wants, Reading, Searches
  <2>3. url \in Addresses /\ HostOf[url.origin] = Host(at)
    BY <2>1, AddressesAreGiven DEF Reading
  <2>. QED  BY <1>1, <2>1, <2>2, <2>3 DEF Reading, Requesting, Host, Asked, Reasons
<1>6. CASE PageError \/ Challenged \/ ExternalEntry \/ AcceptPage \/ NoLinkLeft
  <2>1. (\E code : PageFailed(code)) \/ (\E o : Official(o))
    BY <1>6 DEF PageError, Challenged, ExternalEntry, AcceptPage, NoLinkLeft
  <2>2. wire' = None
    BY <1>6 DEF PageError, Challenged, ExternalEntry, AcceptPage, NoLinkLeft, Reading, Searches
  <2>. QED  BY <1>1, <2>1, <2>2, PageFailedReads, OfficialReads
<1>. QED  BY <1>2, <1>3, <1>4, <1>5, <1>6

LEMMA FallbackReads ==
  ASSUME Shape, Reading,
         \/ FallbackStopped \/ NothingToSearch \/ Search \/ OverBudget \/ SearchRefused
         \/ SearchRetries \/ SearchFailed \/ SearchAnswered \/ Record
  PROVE  Reading'
<1>1. CASE FallbackStopped \/ NothingToSearch \/ SearchFailed \/ SearchAnswered
  <2>1. wire' = None
    BY <1>1 DEF FallbackStopped, NothingToSearch, SearchFailed, SearchAnswered, Reading, Searches
  <2>2. \E o : Conclude(o)
    BY <1>1 DEF FallbackStopped, NothingToSearch, SearchFailed, SearchAnswered
  <2>. QED  BY <2>1, <2>2, ConcludeReads
<1>2. CASE OverBudget \/ SearchRefused
  <2>1. pc = "fallback" /\ wire' = None /\ \E code : Halt(code)
    BY <1>2 DEF OverBudget, SearchRefused, Searches
  <2>. QED  BY <2>1, QuietReads DEF Halt, Requesting
<1>3. CASE SearchRetries
  <2>1. pc = "fallback" /\ wire' = None /\ pc' = pc /\ links' = links
    BY <1>3 DEF SearchRetries, Searches, memory
  <2>. QED  BY <2>1, QuietReads DEF Requesting
<1>4. CASE Search
  <2>1. Searches /\ wire'.kind = "search" /\ UNCHANGED <<pc, state, at, links>>
    BY <1>4 DEF Search, Send
  <2>. QED  BY <2>1 DEF Searches, Reading, Requesting
<1>5. CASE Record
  <2>1. pc = "record" /\ pc' = "loop" /\ wire' = None /\ links' = links
    BY <1>5 DEF Record, Reading, Searches
  <2>. QED  BY <2>1, QuietReads DEF Requesting
<1>. QED  BY <1>1, <1>2, <1>3, <1>4, <1>5

LEMMA DownReads ==
  ASSUME Reading, Start \/ Crash \/ Finish
  PROVE  Reading'
<1>1. CASE Start
  <2>1. pc = "down" /\ pc' = "loop" /\ wire' = wire /\ wire = None /\ links' = links
    BY <1>1 DEF Start, Reading, Searches
  <2>. QED  BY <2>1, QuietReads DEF Requesting
<1>2. CASE Crash \/ Finish
  BY <1>2 DEF Crash, Finish, Forget, Reading, Requesting, NoLinks
<1>. QED  BY <1>1, <1>2

LEMMA LiveInitially == LiveInit => LiveIInv
<1>. SUFFICES ASSUME LiveInit PROVE LiveIInv
  OBVIOUS
<1>1. Shape
  BY DEF LiveInit, Shape, Fresh, Memories, Distinct, Observed, Working, Requesting, Places
<1>2. Reading
  BY DEF LiveInit, Reading, Requesting, NoLinks
<1>3. Remembers
  BY DEF LiveInit, Remembers, Working, Requesting
<1>4. Replay(obs, clock) = Fresh
  BY ReplayStep DEF LiveInit
<1>5. Agrees
  BY <1>4 DEF LiveInit, Agrees, AgreesAt, CountsFit, Fresh
<1>. QED  BY <1>1, <1>2, <1>3, <1>5 DEF LiveIInv

LEMMA LiveStep == LiveIInv /\ [LiveNext]_liveVars => LiveIInv'
<1>. SUFFICES ASSUME LiveIInv, [LiveNext]_liveVars PROVE LiveIInv'
  OBVIOUS
<1>. USE DEF Memory
<1>1. Shape /\ Reading /\ Remembers /\ Memory
  BY DEF LiveIInv
<1>2. CASE Start
  BY <1>1, <1>2, StartKeeps, DownReads DEF LiveIInv
<1>3. CASE Crash \/ Finish
  BY <1>1, <1>3, ForgetKeeps, DownReads DEF LiveIInv, Crash, Finish
<1>4. CASE LeaveAlone
  <2>1. pc # "down"
    BY <1>4 DEF LeaveAlone, Turn
  <2>. QED  BY <1>1, <1>4, <2>1, LeaveAloneKeeps, VisitReads DEF LiveIInv
<1>5. CASE Record
  BY <1>1, <1>5, RecordKeeps, FallbackReads DEF LiveIInv
<1>6. CASE \/ Skip \/ TakeEvidenced \/ WithoutSite \/ VisitSite \/ AskRobots \/ LearnRobots
           \/ RobotsRefused \/ Permit \/ Forbid
  <2>1. pc # "down"
    BY <1>6 DEF Skip, TakeEvidenced, WithoutSite, VisitSite, AskRobots, LearnRobots, RobotsRefused, Permit, Forbid, Turn
  <2>2. Reading'
    BY <1>1, <1>6, <2>1, VisitReads, PermitReads, ForbidReads
  <2>3. Proceeds \/ \E o : Concludes(o)
    BY <1>1, <1>6, <2>1, VisitKinds
  <2>. QED  BY <1>1, <2>2, <2>3, ProceedsKeeps, ConcludesKeeps DEF LiveIInv
<1>7. CASE \/ AskPage \/ Redirected \/ PageError \/ Challenged \/ ExternalEntry \/ ReadSite
           \/ AcceptPage \/ TryLink \/ NoLinkLeft
  <2>1. Reading'
    BY <1>1, <1>7, PageReads
  <2>2. Proceeds \/ \E o : Concludes(o)
    BY <1>1, <1>7, PageKinds
  <2>. QED  BY <1>1, <2>1, <2>2, ProceedsKeeps, ConcludesKeeps DEF LiveIInv
<1>8. CASE \/ FallbackStopped \/ NothingToSearch \/ Search \/ OverBudget \/ SearchRefused
           \/ SearchRetries \/ SearchFailed \/ SearchAnswered
  <2>1. Reading'
    BY <1>1, <1>8, FallbackReads
  <2>2. Proceeds \/ (\E o : Concludes(o)) \/ Halts
    BY <1>1, <1>8, FallbackKinds
  <2>. QED  BY <1>1, <2>1, <2>2, ProceedsKeeps, ConcludesKeeps, HaltsKeeps DEF LiveIInv
<1>9. CASE UNCHANGED liveVars
  <2>1. UNCHANGED <<obs, clock, pc, state, at, robots, ask, page, links, failed, result, wire>>
    BY <1>9 DEF liveVars, memory
  <2>2. Shape' /\ Reading' /\ Remembers'
    BY <1>1, <2>1 DEF Shape, Distinct, Observed, Reading, Permitted, Searches, Host, Remembers, RecordedStops, Stopping
  <2>3. Agrees'
    BY <1>1, <2>1 DEF Agrees, AgreesAt, FirstOnly, Observed, WithResult, Host
  <2>. QED  BY <2>2, <2>3 DEF LiveIInv
<1>. QED  BY <1>2, <1>3, <1>4, <1>5, <1>6, <1>7, <1>8, <1>9 DEF LiveNext, Step

LEMMA LiveInvariant == LiveSpec => []LiveIInv
BY LiveInitially, LiveStep, PTL DEF LiveSpec

\* A page is read only against rules that permit it, redirects included.
THEOREM PagesArePermitted == LiveSpec => []RobotsRespected
<1>1. LiveIInv => RobotsRespected
  BY DEF LiveIInv, Reading, RobotsRespected, Searches
<1>. QED  BY <1>1, LiveInvariant, PTL

\* A crash between two members forgets neither a stop nor a count of a host none of
\* whose observations was rewritten.
THEOREM ResumeRebuildsMemory == LiveSpec => []RebuildAgrees
<1>1. LiveIInv => RebuildAgrees
  <2>. SUFFICES ASSUME LiveIInv, pc = "loop", NEW h \in Hosts, FirstOnly(h)
                PROVE  state.limits[h] = Rebuilt.limits[h] /\ (h \in state.stopped <=> h \in Rebuilt.stopped)
    BY DEF RebuildAgrees, FirstOnly
  <2>1. SameAt(state, Replay(obs, clock), h)
    BY DEF LiveIInv, Agrees, AgreesAt
  <2>2. Replay(obs, clock) \in Memories
    BY ReplayType DEF LiveIInv, Shape
  <2>3. Rebuilt.limits = Replay(obs, clock).limits /\ Rebuilt.stopped = Replay(obs, clock).stopped
    BY <2>2 DEF Rebuilt, Memories
  <2>. QED  BY <2>1, <2>3 DEF SameAt
<1>. QED  BY <1>1, LiveInvariant, PTL

\* Only three actions send a request.
LEMMA Senders ==
  ASSUME LiveIInv, LiveNext, wire' # None, wire' # wire
  PROVE  AskRobots \/ AskPage \/ Search
BY DEF LiveNext, Step, Start, Crash, Finish, Skip, LeaveAlone, TakeEvidenced, WithoutSite, VisitSite,
       LearnRobots, RobotsRefused, Permit, Forbid, Redirected, PageError, Challenged, ExternalEntry,
       ReadSite, AcceptPage, TryLink, NoLinkLeft, FallbackStopped, NothingToSearch, OverBudget,
       SearchRefused, SearchRetries, SearchFailed, SearchAnswered, Record

\* A recorded stop binds every request of this process and of every later one.
THEOREM RecordedStopsBind == LiveSpec => StopsOutliveTheProcess
<1>1. LiveIInv /\ [LiveNext]_liveVars =>
        (wire' # None /\ wire' # wire =>
           wire'.to \notin RecordedStops /\ (wire'.to = Zhihu => ~FinalStopOfSearch))
  <2>. SUFFICES ASSUME LiveIInv, [LiveNext]_liveVars, wire' # None, wire' # wire
                PROVE  wire'.to \notin RecordedStops /\ (wire'.to = Zhihu => ~FinalStopOfSearch)
    OBVIOUS
  <2>1. AskRobots \/ AskPage \/ Search
    <3>1. LiveNext
      BY DEF liveVars
    <3>. QED  BY <3>1, Senders
  <2>2. CASE AskRobots \/ AskPage
    <3>1. pc \in Requesting /\ at \in Sited /\ wire'.to = Host(at)
      BY <2>2 DEF AskRobots, AskPage, Send, LiveIInv, Reading, Requesting
    <3>2. Host(at) \notin RecordedStops
      BY <3>1 DEF LiveIInv, Remembers, Working, Requesting
    <3>3. Host(at) # Zhihu
      BY <3>1, HostOfSited, SearchIsNoSite
    <3>. QED  BY <3>1, <3>2, <3>3
  <2>3. CASE Search
    <3>1. pc = "fallback" /\ ~state.halted /\ wire'.to = Zhihu
      BY <2>3 DEF Search, Searches, Send
    <3>2. ~FinalStopOfSearch
      BY <3>1 DEF LiveIInv, Remembers, FinalStopOfSearch
    <3>3. RecordedStops \subseteq Hosts
      BY <3>1 DEF LiveIInv, Remembers, Shape, Memories
    <3>. QED  BY <3>1, <3>2, <3>3, SearchIsNoSite
  <2>. QED  BY <2>1, <2>2, <2>3
<1>. QED  BY <1>1, LiveInvariant, PTL DEF LiveSpec, StopsOutliveTheProcess

-----------------------------------------------------------------------------
(* The bounds of the code.                                                  *)

Bounds ==
  /\ at \in 0..N + 1 /\ left \in 0..N /\ (pc \in Working \cup {"record"} => left # 0)
  /\ spent \in 0..Budget /\ tries \in 0..Attempts /\ (pc # "fallback" => tries = 0)
  /\ Searches /\ wire = None => tries < Attempts
  /\ \A o \in Origins : robots[o] \in {None} \cup SUBSET Paths
  /\ DOMAIN robots = Origins
  /\ links.tried \in 0..MaxPages /\ (page # None => page.hops \in 0..MaxRedirects)

LEMMA OfficialBounded ==
  ASSUME Bounds, pc # "fallback", left # 0, NEW o, Official(o) \/ Conclude(o)
  PROVE  Bounds'
<1>1. CASE Conclude(o)
  BY <1>1, PositiveBounds DEF Conclude, Bounds, NoLinks, Searches
<1>2. CASE ~Conclude(o)
  BY <1>2, PositiveBounds DEF Official, Bounds, NoLinks, Searches
<1>. QED  BY <1>1, <1>2

LEMMA PageFailedBounded ==
  ASSUME Bounds, pc # "fallback", left # 0, NEW code, PageFailed(code)
  PROVE  Bounds'
<1>1. CASE Official(Failure(code))
  BY <1>1, OfficialBounded
<1>2. CASE ~Official(Failure(code))
  BY <1>2 DEF PageFailed, Bounds, Searches
<1>. QED  BY <1>1, <1>2

LEMMA BoundsStep ==
  ASSUME LiveIInv, Bounds, [LiveNext]_liveVars
  PROVE  Bounds'
<1>. USE PositiveBounds, BudgetIsNat
<1>1. pc \in Requesting => left # 0 /\ pc # "fallback"
  BY DEF Bounds, Working, Requesting
<1>2. CASE Start
  BY <1>2, AddressesAreGiven DEF Start, Bounds, Searches, Working, Requesting
<1>3. CASE Crash \/ Finish
  BY <1>3 DEF Crash, Finish, Forget, Bounds, Searches, Working, Requesting, NoLinks
<1>4. CASE LeaveAlone \/ Skip \/ VisitSite
  BY <1>4 DEF LeaveAlone, Skip, VisitSite, Wants, Turn, Ends, Bounds, Searches, Working, Requesting
<1>5. CASE TakeEvidenced \/ WithoutSite
  <2>1. pc # "fallback" /\ left # 0 /\ \E o : Official(o) \/ Conclude(o)
    BY <1>5 DEF TakeEvidenced, WithoutSite, Turn, Ends
  <2>. QED  BY <2>1, OfficialBounded
<1>6. CASE AskRobots \/ AskPage \/ Redirected \/ ReadSite \/ TryLink
  BY <1>1, <1>6 DEF AskRobots, AskPage, Redirected, ReadSite, TryLink, Follows, Wants, memory, Bounds, Searches, Working, Requesting
<1>7. CASE LearnRobots
  <2>1. PICK rules \in RuleSets \cup {{}} : robots' = [robots EXCEPT ![ask.url.origin] = rules]
    BY <1>7 DEF LearnRobots
  <2>2. rules \in SUBSET Paths
    BY AddressesAreGiven
  <2>. QED  BY <1>1, <1>7, <2>1, <2>2 DEF LearnRobots, Bounds, Searches, Working, Requesting
<1>8. CASE RobotsRefused \/ PageError \/ Challenged \/ ExternalEntry \/ AcceptPage \/ NoLinkLeft
  <2>1. pc \in Requesting /\ ((\E code : PageFailed(code)) \/ (\E o : Official(o)))
    BY <1>8 DEF RobotsRefused, PageError, Challenged, ExternalEntry, AcceptPage, NoLinkLeft, Requesting
  <2>. QED  BY <1>1, <2>1, PageFailedBounded, OfficialBounded
<1>9. CASE Permit
  <2>1. CASE PageFailed("too_many_redirects")
    BY <1>1, <1>9, <2>1, PageFailedBounded DEF Permit, Requesting
  <2>2. CASE ~PageFailed("too_many_redirects")
    <3>1. /\ pc = "ask" /\ pc' = "page" /\ UNCHANGED <<at, left, spent, tries, robots, links>>
          /\ IF ask.why = "redirect" THEN page.hops # MaxRedirects /\ page' = Hop(page, ask.url)
             ELSE page' = [url |-> ask.url, why |-> ask.why, hops |-> 0]
      BY <1>9, <2>2 DEF Permit
    <3>2. page'.hops \in 0..MaxRedirects
      <4>1. CASE ask.why = "redirect"
        <5>1. page \in Page
          BY <3>1, <4>1 DEF LiveIInv, Reading
        <5>2. page' = [page EXCEPT !.url = ask.url, !.hops = @ + 1]
          BY <3>1, <4>1 DEF Hop
        <5>3. page'.hops = page.hops + 1 /\ page.hops \in Nat
          BY <5>1, <5>2 DEF Page
        <5>4. page.hops \in 0..MaxRedirects
          BY <5>1, NoneIsNothing DEF Bounds
        <5>. QED  BY <3>1, <4>1, <5>3, <5>4
      <4>2. CASE ask.why # "redirect"
        BY <3>1, <4>2
      <4>. QED  BY <4>1, <4>2
    <3>. QED  BY <1>1, <3>1, <3>2 DEF Bounds, Searches, Working, Requesting
  <2>. QED  BY <2>1, <2>2
<1>10. CASE Forbid
  <2>1. CASE \E code : PageFailed(code) \/ Official(Failure(code))
    BY <1>1, <1>10, <2>1, PageFailedBounded, OfficialBounded DEF Forbid, Requesting
  <2>2. CASE ~\E code : PageFailed(code) \/ Official(Failure(code))
    BY <1>1, <1>10, <2>2 DEF Forbid, Bounds, Searches, Working, Requesting
  <2>. QED  BY <2>1, <2>2
<1>11. CASE FallbackStopped \/ NothingToSearch \/ SearchFailed \/ SearchAnswered
  BY <1>11 DEF FallbackStopped, NothingToSearch, SearchFailed, SearchAnswered, Conclude, Bounds, Searches, Working, Requesting, NoLinks
<1>12. CASE OverBudget \/ SearchRefused
  BY <1>12 DEF OverBudget, SearchRefused, Halt, Bounds, Searches, Working, Requesting
<1>13. CASE Search
  <2>1. wire' # None
    <3>1. wire' = [to |-> Zhihu, kind |-> "search", url |-> None]
      BY <1>13 DEF Search, Send
    <3>. QED  BY <3>1, NoneIsNothing DEF Request
  <2>. QED  BY <1>13, <2>1 DEF Search, WithinBudget, Bounds, Searches, Working, Requesting
<1>14. CASE SearchRetries
  BY <1>14 DEF SearchRetries, memory, Bounds, Searches, Working, Requesting
<1>15. CASE Record
  BY <1>15 DEF Record, Bounds, Searches, Working, Requesting, LiveIInv, Shape, Members
<1>16. CASE UNCHANGED liveVars
  BY <1>16 DEF liveVars, memory, Bounds, Searches
<1>. QED  BY <1>2, <1>3, <1>4, <1>5, <1>6, <1>7, <1>8, <1>9, <1>10, <1>11, <1>12, <1>13, <1>14, <1>15, <1>16 DEF LiveNext, Step

\* The requests of one process to the search, the redirects of a page and the pages of
\* a visit stay within their bounds.
THEOREM LiveTypesAndBounds == LiveSpec => []LiveTypeOK
<1>1. LiveInit => Bounds
  BY PositiveBounds, BudgetIsNat DEF LiveInit, Bounds, Searches, Working, Requesting, NoLinks
<1>2. LiveIInv /\ Bounds /\ [LiveNext]_liveVars => Bounds'
  BY BoundsStep
<1>3. LiveIInv /\ Bounds => LiveTypeOK
  BY DEF LiveIInv, Shape, Bounds, LiveTypeOK, Observed, SiteObservation, Memories
<1>. QED  BY <1>1, <1>2, <1>3, LiveInvariant, PTL DEF LiveSpec

=============================================================================
