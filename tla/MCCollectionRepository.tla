------------------------ MODULE MCCollectionRepository ------------------------
(* Model values and symmetry for CollectionRepository.                       *)
EXTENDS CollectionRepository, TLC

CONSTANTS r1, r2, q1, q2

MCRuns    == {r1, r2}
MCQueries == {q1, q2}
Symmetry  == Permutations(MCRuns) \cup Permutations(MCQueries)
=============================================================================
