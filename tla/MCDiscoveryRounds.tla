-------------------------- MODULE MCDiscoveryRounds --------------------------
(* Model values for DiscoveryRounds.                                         *)
EXTENDS DiscoveryRounds, TLC

CONSTANTS g1, g2, d1, d2, r1, r2, m1

Symmetry == Permutations(Regenerators) \cup Permutations(Discoverers) \cup Permutations(Rounds)

MCStratumOf == 1 :> "careers" @@ 3 :> "boards"

\* discover takes one company (--limit 1), and fails or finds its entry.
MCFirstResults == [c \in Companies |-> IF c = 1 THEN {<<"accepted", 1>>, <<"failed", m1>>} ELSE {}]

MCNoResults == [c \in Companies |-> {}]

\* A round may be created without evidence; it has no members then.
MCBothOrNone == {1 :> 1 @@ 2 :> 3, NoFile}
\* Two files that name one URL for two companies.
MCClash == {1 :> 1, 2 :> 1}
==============================================================================
