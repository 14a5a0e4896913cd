--------------------------- MODULE MCIngestionTask ---------------------------
(* Model values for IngestionTask.                                           *)
EXTENDS IngestionTask, TLC

CONSTANTS r1, r2, w1, w2, p1, p2

Symmetry == Permutations({w1, w2}) \cup Permutations({p1, p2})

Scenario(runs, kinds, most) == [runs |-> runs, kinds |-> kinds, most |-> most]

\* One run under any failures, and two runs whose deliveries die, so that a
\* redispatch task has a second row to read.
MCScenarios == {Scenario({r1}, FaultKinds, 3), Scenario({r1, r2}, {"worker_dies"}, 2)}

\* One run, where a delivery fails late or the operator resets it, and two runs
\* for overlapping redispatch tasks.
MCFewFaults == {Scenario({r1}, {"finish_raises", "operator_reset", "slow_worker"}, 1),
                Scenario({r1, r2}, {"worker_dies"}, 2)}
==============================================================================
