-------------------------- MODULE MCSnapshotCache --------------------------
(* Small instances of SnapshotCache.                                        *)
EXTENDS SnapshotCache

CONSTANTS old, new, cleaner

\* A binary was upgraded while the older one still runs.
MCVersion == [w \in Workers |-> IF w = new THEN 2 ELSE 1]

\* What follows once a path has led a call astray is not looked at.
Unspoiled == ~spoiled

=============================================================================
