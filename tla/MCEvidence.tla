----------------------------- MODULE MCEvidence -----------------------------
(***************************************************************************)
(* Two source files and a test file.  f and its namesake in file 3, g      *)
(* which may call f and be called by it, a test and a helper that may      *)
(* start the program.                                                      *)
(***************************************************************************)
EXTENDS Evidence

CONSTANT MCRefSets

Sym(file, qual, name, start, end, test, names) ==
    [file |-> file, qual |-> qual, name |-> name, start |-> start, end |-> end,
     test |-> test, names |-> names]

MCSymbols == <<Sym(1, 11, 1, 10, 40, FALSE, None),   \* f
               Sym(1, 12, 2, 50, 90, FALSE, None),   \* g
               Sym(2, 13, 3, 10, 40, TRUE, 1),       \* the test
               Sym(2, 14, 4, 50, 90, FALSE, None),   \* the helper
               Sym(3, 11, 1, 10, 40, FALSE, None)>>  \* f once more

Row(file, start, tname, tqual, hint, kind, conf) ==
    [file |-> file, start |-> start, end |-> start + 2, tname |-> tname, tqual |-> tqual,
     hint |-> hint, kind |-> kind, conf |-> conf, ships |-> kind = "runtime"]

MCRefs == <<Row(1, 20, 2, 12, None, "call", 1),      \* f calls g
            Row(1, 60, 1, 11, 1, "call", 3),         \* g calls f
            Row(2, 21, 2, 12, 2, "call", 2),         \* the test calls g
            Row(2, 30, 1, None, None, "call", 4),    \* and something named f
            Row(2, 35, 4, 14, None, "call", 1),      \* and the helper
            Row(2, 60, 1, 11, None, "use", 2),       \* the helper names f
            Row(2, 70, None, None, None, "runtime", 4),
            Row(2, 95, 1, 11, 5, "call", 1)>>        \* outside every symbol

Relation(from, to, file) == [from |-> from, to |-> to, kind |-> "implements", conf |-> 1,
                             file |-> file, start |-> 50]

Chosen(s, keep) == LET pick == SelectSeq([i \in DOMAIN s |-> i], LAMBDA i : i \in keep)
                   IN  [k \in DOMAIN pick |-> s[pick[k]]]

MCAllRefs == {S \in SUBSET (1 .. 8) : Cardinality(S) \in {2, 4, 5, 6}}

MCIndexes ==
    {[symbols |-> MCSymbols, refs |-> Chosen(MCRefs, keep), relations |-> Chosen(<<Relation(12, 11, 1), Relation(14, 12, 2)>>, rel),
      imports |-> IF 6 \in keep THEN {[file |-> 2, match |-> "identified"]}
                  ELSE {[file |-> 2, match |-> "basename"]},
      entry |-> {1, 2, 3}] : keep \in MCRefSets, rel \in {{}, {1, 2}}}

Query(op, target, direction, floor, depth, cap) ==
    [op |-> op, target |-> target, direction |-> direction, floor |-> floor, depth |-> depth,
     cap |-> cap, budget |-> FALSE, scope |-> 1 .. 3, most |-> 2]

MCQueries ==
    {Query("impact", 1, d, f, 3, c) : d \in {"inbound", "outbound", "both"}, f \in {1, 4}, c \in {2, 9}} \cup
    {Query("impact", 2, "both", 3, 1, 9)} \cup
    {Query("trace", 3, "outbound", f, 3, c) : f \in {2, 4}, c \in {3, 9}} \cup
    {Query("evidence", 1, d, f, k, 9) : d \in {"inbound", "outbound"}, f \in {1, 3}, k \in {1, 3}} \cup
    {Query("evidence", 1, "inbound", 4, 3, 2), Query("evidence", 4, "inbound", 3, 2, 9),
     [Query("evidence", 2, "inbound", 3, 3, 9) EXCEPT !.budget = TRUE],
     [Query("evidence", 1, "inbound", 2, 3, 9) EXCEPT !.scope = {2}]}

MCTestFiles == {2}
=============================================================================
