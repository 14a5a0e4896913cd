------------------------- MODULE MCEntryVerification -------------------------
(* Model values and symmetry for EntryVerification.                          *)
EXTENDS EntryVerification, TLC

CONSTANTS r1, r2, q1, q2, c1, c2, s1, b1, b2, w1, w2

MCRuns      == {r1, r2}
MCQueries   == {q1, q2}

\* Failures of every kind, or only those after which a message still leads to
\* every queued run.
MCBothFaults == {Stranding, FaultKinds \ Stranding}
MCSlowOrLost == {{"slow_worker"}, {"message_lost"}}
MCDies       == {{"worker_dies"}}

Symmetry == Permutations(MCRuns) \cup Permutations({w1, w2}) \cup Permutations({c1, c2})
=============================================================================
