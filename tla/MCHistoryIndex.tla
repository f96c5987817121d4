--------------------------- MODULE MCHistoryIndex ---------------------------
(* A repository of three commits in a row.                                   *)
EXTENDS HistoryIndex, TLC

MCCommits == 1 .. 3
MCChain == <<{1}, {1, 2}, {1, 2, 3}>>

MCAfter == [v \in Verified |-> 2]
MCBinary == [p \in Procs |-> 2]

\* Bound: no verified delivery is imported on the branch that does not move.
ImportsOnMain == \A b \in Branches \ {MainBranch} : VerifiedRows(db, b) = {}

\* Processes run the same program.
Symmetry == Permutations(Procs)
=============================================================================
