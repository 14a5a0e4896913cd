----------------------------- MODULE MCJobWriters -----------------------------
(* Model-checking instance of JobWriters: s1 and s2 are listed by the site  *)
(* of the company and advertise p1 and p2; a1 is on an ATS page, at p1 or   *)
(* p2, whichever title the page gives it.                                   *)
EXTENDS JobWriters, TLC

CONSTANTS s1, s2, a1, p1, p2, e1, e2, r1, r2, r3, w1, w2

MCHome ==
  [s \in Sources |-> [posting |-> IF s = s2 THEN p2 ELSE p1, entry |-> NoEntry]]

\* The commands the two writers send.
MCCommands ==
  {c \in Command : /\ c.complete => c.status = "succeeded"
                   /\ c.status # "failed"
                   /\ c.seen \subseteq Enumerated \/ c.seen \subseteq AtsSources}

Symmetry == Permutations(Runs) \cup Permutations(Workers)
=============================================================================
