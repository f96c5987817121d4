---------------------------- MODULE MCCodeIndex ----------------------------
(* Instances of CodeIndex for TLC.                                           *)
EXTENDS CodeIndex, TLC

\* The first generation's name may be taken.
MCForeignFiles == {<<1, 1>>}

\* Processes are interchangeable.
MCSymmetry == Permutations(Procs)
=============================================================================
