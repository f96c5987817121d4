---------------------------- MODULE MCGraphSync ----------------------------
(* Small instances of GraphSync.                                            *)
EXTENDS GraphSync, TLC

CONSTANTS f1, f2, def, use, big, x

\* def declares x, use refers to it; both have one length.  big is over the cap.
McByteLen == def :> 1 @@ use :> 1 @@ big :> 3
McDefines == def :> {x} @@ use :> {} @@ big :> {}
McUses == def :> {} @@ use :> {x} @@ big :> {}
McAliases == [c \in Contents |-> {}]

NoFiles == {}

\* No table tells one file from another.
Symmetry == Permutations(Files)
=============================================================================
