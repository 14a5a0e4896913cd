---------------------------- MODULE MCJobLifecycle ----------------------------
(* Model-checking instance of JobLifecycle: four sources of two postings.   *)
(* s1 and s2 are on the list of e1, s3 on that of e2, s4 on no list; s1, s3 *)
(* and s4 advertise p1, s2 advertises p2.                                   *)
EXTENDS JobLifecycle, TLC

CONSTANTS s1, s2, s3, s4, p1, p2, e1, e2, r1, r2, r3

MCHome ==
  [s \in {s1, s2, s3, s4} |->
     [posting |-> IF s = s2 THEN p2 ELSE p1,
      entry   |-> IF s \in {s1, s2} THEN e1 ELSE IF s = s3 THEN e2 ELSE NoEntry]]

\* An incomplete list is sent with nothing in it: what it shows is not used.
MCCommands ==
  {c \in Command : c.status # "succeeded" => c.seen = {}}

Symmetry == Permutations({r1, r2, r3})
=============================================================================
