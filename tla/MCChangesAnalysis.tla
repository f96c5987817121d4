------------------------- MODULE MCChangesAnalysis -------------------------
EXTENDS ChangesAnalysis

Row(parent, name, kind, sig, body) ==
    [parent |-> parent, name |-> name, kind |-> kind, sig |-> sig, body |-> body,
     dup |-> FALSE, read |-> "whole"]

(* Two names, one of them also as a member; two bodies; one changed first  *)
(* line; one source that is cut, one that cannot be read, one shared.      *)
Plain == {Row(0, 1, 1, 1, 1), Row(0, 1, 1, 1, 2), Row(0, 2, 1, 1, 1), Row(0, 1, 2, 1, 1),
          Row(1, 1, 1, 1, 1)}
Odd == {Row(0, 1, 1, 2, 1),
        [Row(0, 1, 1, 1, 1) EXCEPT !.read = "cut"],
        [Row(0, 1, 1, 1, 1) EXCEPT !.read = "none"],
        [Row(0, 1, 1, 1, 1) EXCEPT !.dup = TRUE]}

Distinct(S) == \A r, q \in S : <<r.parent, r.name, r.kind>> = <<q.parent, q.name, q.kind>> => r = q
Files == {{}} \cup {{r} : r \in Plain \cup Odd} \cup {S \in kSubset(2, Plain) : Distinct(S)}
SmallFiles == {{}} \cup {{r} : r \in Plain \ {Row(1, 1, 1, 1, 1)}}
Tree(a, b) == [p \in {1, 2} |-> IF p = 1 THEN a ELSE b]

(* One file changed in place, moved, or changed and copied. *)
MCWorlds ==
    {[base |-> Tree(a, Absent), head |-> t, disk |-> t] :
       a \in Files, t \in {Tree(b, Absent) : b \in Files} \cup {Tree(Absent, b) : b \in Files}
                          \cup {Tree(b, c) : b \in SmallFiles, c \in SmallFiles}}

All == [language |-> {1, 2}, scope |-> {1, 2},
        statuses |-> {"added", "removed", "modified", "signature_changed", "moved",
                      "renamed", "uncertain"}]
Ask(mode, selection, maxSymbols, maxBytes, budget) ==
    [mode |-> mode, selection |-> selection, maxSymbols |-> maxSymbols,
     maxBytes |-> maxBytes, budget |-> budget, filters |-> All]
Name(p, n) == [path |-> p, parent |-> 0, name |-> n, kind |-> 1]

MCRequests ==
    {Ask("revisions", {}, 1, 2, TRUE), Ask("worktree", {}, 5, 0, FALSE),
     Ask("revisions", {Name(2, 1)}, 5, 9, FALSE)}
=============================================================================
