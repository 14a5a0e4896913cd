------------------------- MODULE MCActivityTransactions -------------------------
(* Model-checking instance of ActivityTransactions: two postings, each with *)
(* a source on the lists of two entries; nothing is overdue, or three of    *)
(* the four sources are.                                                    *)
EXTENDS ActivityTransactions

CONSTANTS s1, s2, s3, s4, l1, l2, x

MCPostingOf == [s \in Sources |-> IF s \in {s1, s3} THEN 1 ELSE 2]
MCOverdue == {{}, {s2, s3, s4}}
MCListSources == [t \in Lists |-> IF t = l1 THEN {s1, s2} ELSE {s3, s4} \cap Sources]
=============================================================================
