---------------------------- MODULE MCIndexStore ----------------------------
(* Two handles of one or of two schema versions, and one cleaner. *)
EXTENDS IndexStore

CONSTANTS h1, h2, c1

MCHandles == {h1, h2}
MCCleaners == {c1}
MCVersions == {[p \in MCHandles |-> 1], [p \in MCHandles |-> IF p = h1 THEN 1 ELSE 2]}
MCInodes == 1 .. 10
=============================================================================
