--------------------------- MODULE ChangedSymbols ---------------------------
(***************************************************************************)
(* Which symbols changed between the two sides of a comparison, and which  *)
(* symbol of one side is the same as which of the other                    *)
(* (crates/orbit-graph-changes/src/changes.rs, selection.rs, filters.rs).  *)
(*                                                                         *)
(* A side is the function from its canonical selectors to their sources.   *)
(* A selector is a path, the parent and the name that make up the          *)
(* qualified name, and a kind; all four are numbers, so that selectors     *)
(* have the order the code's sorted maps give them.  The text of a symbol  *)
(* is its name (in its first line), the rest of that line and its body:    *)
(* replacing the identifier leaves `sig' and `body'.                       *)
(***************************************************************************)
EXTENDS Naturals, Sequences, FiniteSets, FiniteSetsExt, SequencesExt

None == 0

(* A source is [sig, body, dup, read]: dup says that two indexed rows      *)
(* produce the selector, read is "none" when `show' cannot resolve it and  *)
(* "cut" when it is longer than the bytes `show' returns, so that only a   *)
(* prefix is compared.                                                     *)

Bytes(sel, src) == <<sel.name, src.sig, src.body>>
SignatureLine(sel, src) == <<sel.name, src.sig>>

----------------------------------------------------------------------------
(* The changed files: a sequence of deltas [kind, basePath, headPath].     *)

(* The delta a path is looked up under: the last one pushed with it.       *)
ForBase(deltas, path) ==
    LET at == {i \in DOMAIN deltas : deltas[i].basePath = path}
    IN  deltas[Max(at)]
ForHead(deltas, path) ==
    LET at == {i \in DOMAIN deltas : deltas[i].headPath = path}
    IN  deltas[Max(at)]

BasePaths(deltas) == {deltas[i].basePath : i \in DOMAIN deltas} \ {None}
HeadPaths(deltas) == {deltas[i].headPath : i \in DOMAIN deltas} \ {None}

CandidateSelectors(side, paths) == {s \in DOMAIN side : s.path \in paths}

(* The changed paths the snapshots hold no symbols of, with their side.    *)
OutOfScope(c) ==
    {<<p, "base">> : p \in BasePaths(c.deltas) \ c.indexed["base"]} \cup
    {<<p, "head">> : p \in HeadPaths(c.deltas) \ c.indexed["head"]}

----------------------------------------------------------------------------
(* The entries of the result.                                              *)

TwoSided(status, evidence, b, h, fileChange, basePath, headPath) ==
    [status |-> status, evidence |-> evidence, base |-> {b}, head |-> {h},
     fileChange |-> fileChange, basePath |-> basePath, headPath |-> headPath,
     candidates |-> {}]

UncertainPair(deltas, s, evidence) ==
    LET d == ForBase(deltas, s.path)
    IN  [TwoSided("uncertain", evidence, s, s, d.kind, d.basePath, d.headPath)
            EXCEPT !.candidates = {<<"base", s>>, <<"head", s>>}]

UncertainGroup(bs, hs, fileChange) ==
    [status |-> "uncertain", evidence |-> "none", base |-> {}, head |-> {},
     fileChange |-> fileChange,
     basePath |-> Min({s.path : s \in bs}), headPath |-> Min({s.path : s \in hs}),
     candidates |-> ({"base"} \X bs) \cup ({"head"} \X hs)]

EmitMoved(deltas, b, h, kind, evidence) ==
    LET d == ForBase(deltas, b.path)
    IN  TwoSided("moved", evidence, b, h, kind, d.basePath, d.headPath)

EmitRenamed(deltas, b, h, kind, evidence) ==
    LET d == ForBase(deltas, b.path)
    IN  TwoSided("renamed", evidence, b, h, kind, d.basePath, d.headPath)

OneSided(status, s, d) ==
    [status |-> status, evidence |-> "selector",
     base |-> IF status = "removed" THEN {s} ELSE {},
     head |-> IF status = "added" THEN {s} ELSE {},
     fileChange |-> d.kind, basePath |-> d.basePath, headPath |-> d.headPath,
     candidates |-> {}]

----------------------------------------------------------------------------
(* The ladder.  st holds what is unpaired on each side and the entries.    *)

Start(c) == [ub |-> CandidateSelectors(c.base, BasePaths(c.deltas)),
             uh |-> CandidateSelectors(c.head, HeadPaths(c.deltas)),
             out |-> {}]

(* A rung applied to the state the rung before it left.                    *)
Then(st, Apply(_)) == CHOOSE next \in {Apply(s) : s \in {st}} : TRUE

(* Rungs 1 and 2 for one selector both sides hold: no entry when both      *)
(* sources were read whole and agree.                                      *)
SameSelector(c, s) ==
    LET b == c.base[s]
        h == c.head[s]
        d == ForBase(c.deltas, s.path)
        Changed(status, evidence) ==
            {TwoSided(status, evidence, s, s, d.kind, d.basePath, d.headPath)}
    IN  IF b.dup \/ h.dup THEN {UncertainPair(c.deltas, s, "none")}
        ELSE IF "none" \in {b.read, h.read} THEN {UncertainPair(c.deltas, s, "selector")}
        ELSE IF SignatureLine(s, b) # SignatureLine(s, h)
             THEN Changed("signature_changed", "signature")
        ELSE IF Bytes(s, b) # Bytes(s, h) THEN Changed("modified", "selector")
        ELSE IF "cut" \in {b.read, h.read} THEN {UncertainPair(c.deltas, s, "selector")}
        ELSE {}

PairSameSelector(c, st) ==
    LET shared == st.ub \cap st.uh
    IN  [ub |-> st.ub \ shared, uh |-> st.uh \ shared,
         out |-> st.out \cup UNION {SameSelector(c, s) : s \in shared}]

(* One rung over the symbols B and H, grouped by an identity: a group with *)
(* one symbol on each side is a pair, any other that both sides have is    *)
(* uncertain.                                                              *)
Rung(st, B, H, KeyB(_), KeyH(_), Pair(_, _), fileChange) ==
    LET keys == {KeyB(b) : b \in B} \cap {KeyH(h) : h \in H}
        Bs(k) == {b \in B : KeyB(b) = k}
        Hs(k) == {h \in H : KeyH(h) = k}
        Entry(k) ==
            IF Cardinality(Bs(k)) = 1 /\ Cardinality(Hs(k)) = 1
            THEN Pair(CHOOSE b \in Bs(k) : TRUE, CHOOSE h \in Hs(k) : TRUE)
            ELSE UncertainGroup(Bs(k), Hs(k), fileChange)
    IN  [ub |-> st.ub \ UNION {Bs(k) : k \in keys},
         uh |-> st.uh \ UNION {Hs(k) : k \in keys},
         out |-> st.out \cup {Entry(k) : k \in keys}]

UnpairedIn(unpaired, path) == {s \in unpaired : s.path = path}

NameAndKind(s) == <<s.name, s.kind>>

(* Seeded bug: identities are the bare names, whatever the kind. *)
PairMovedByName(c, st, d, evidence) ==
    Rung(st, UnpairedIn(st.ub, d.basePath), UnpairedIn(st.uh, d.headPath),
         LAMBDA s : s.name, LAMBDA s : s.name,
         LAMBDA b, h : EmitMoved(c.deltas, b, h, d.kind, evidence), d.kind)

PairMovedInFile(c, st, d, evidence) ==
    Rung(st, UnpairedIn(st.ub, d.basePath), UnpairedIn(st.uh, d.headPath),
         NameAndKind, NameAndKind,
         LAMBDA b, h : EmitMoved(c.deltas, b, h, d.kind, evidence), d.kind)

PairRenamedInFile(c, st, d, evidence) ==
    Rung(st, UnpairedIn(st.ub, d.basePath), UnpairedIn(st.uh, d.headPath),
         LAMBDA s : s.kind, LAMBDA s : s.kind,
         LAMBDA b, h : EmitRenamed(c.deltas, b, h, d.kind, evidence), d.kind)

(* Rungs 3 and 4, for every file Git resolved as renamed or copied.        *)
PairAcrossRenamedFiles(c, st) ==
    LET In(s, d) ==
            LET evidence == IF d.kind = "copied" THEN "git_copy" ELSE "git_rename"
            IN  Then(PairMovedInFile(c, s, d, evidence),
                     LAMBDA t : PairRenamedInFile(c, t, d, evidence))
        One(s, d) == IF d.kind \in {"renamed", "copied"} THEN Then(s, LAMBDA t : In(t, d)) ELSE s
    IN  FoldLeft(One, st, c.deltas)

(* What the body hash sees: only sources that were read whole.             *)
NormalizedBody(s, src) == <<s.kind, s.parent, src.sig, src.body>>
Hashed(side, S) == {s \in S : side[s].read = "whole"}

(* Rung 5, for every file that kept its path.                              *)
PairRenamedByBodyHash(c, st) ==
    LET In(s, d) ==
            Rung(s, Hashed(c.base, UnpairedIn(s.ub, d.basePath)),
                 Hashed(c.head, UnpairedIn(s.uh, d.basePath)),
                 LAMBDA x : NormalizedBody(x, c.base[x]),
                 LAMBDA x : NormalizedBody(x, c.head[x]),
                 LAMBDA b, h : EmitRenamed(c.deltas, b, h, d.kind, "body_hash"),
                 d.kind)
        One(s, d) == IF d.basePath # None /\ d.basePath = d.headPath
                     THEN Then(s, LAMBDA t : In(t, d)) ELSE s
    IN  FoldLeft(One, st, c.deltas)

(* Rung 6: the same name and kind elsewhere; every candidate is listed.    *)
PairUncertainCrossPath(st) ==
    LET keys == {NameAndKind(b) : b \in st.ub} \cap {NameAndKind(h) : h \in st.uh}
        Of(S, k) == {s \in S : NameAndKind(s) = k}
    IN  [ub |-> {s \in st.ub : NameAndKind(s) \notin keys},
         uh |-> {s \in st.uh : NameAndKind(s) \notin keys},
         out |-> st.out \cup
                 {UncertainGroup(Of(st.ub, k), Of(st.uh, k), "other") : k \in keys}]

EmitUnpaired(c, st) ==
    st.out \cup {OneSided("removed", s, ForBase(c.deltas, s.path)) : s \in st.ub}
           \cup {OneSided("added", s, ForHead(c.deltas, s.path)) : s \in st.uh}

Compute(c) ==
    Then(Start(c), LAMBDA s1 :
      Then(PairSameSelector(c, s1), LAMBDA s2 :
        Then(PairAcrossRenamedFiles(c, s2), LAMBDA s3 :
          Then(PairRenamedByBodyHash(c, s3), LAMBDA s4 :
            Then(PairUncertainCrossPath(s4), LAMBDA s5 : EmitUnpaired(c, s5))))))

----------------------------------------------------------------------------
(* Order, filters and selection of the entries.                            *)

Rank(s) == ((s.path * 8 + s.parent) * 8 + s.name) * 8 + s.kind

(* The head selector of an entry, else its base selector, else nothing.    *)
PrimarySelector(e) == IF e.head # {} THEN e.head ELSE e.base

StatusOrder == <<"added", "removed", "modified", "signature_changed", "moved",
                 "renamed", "uncertain">>

(* Entries with the same primary selector and status keep the order they   *)
(* were pushed in; those are groups, pushed by their identity.             *)
EntryBefore(e, f) ==
    LET Primary(x) == SumSet({Rank(s) : s \in PrimarySelector(x)})
        Status(x) == CHOOSE i \in DOMAIN StatusOrder : StatusOrder[i] = x.status
        First(x) == Min({Rank(cand[2]) : cand \in x.candidates})
    IN  \/ Primary(e) < Primary(f)
        \/ Primary(e) = Primary(f) /\ Status(e) < Status(f)
        \/ Primary(e) = Primary(f) /\ Status(e) = Status(f) /\ First(e) <= First(f)

Sorted(entries) == SetToSortSeq(entries, EntryBefore)

(* The filters: the paths a language and a scope admit, and the statuses.  *)
(* Either path of an entry may satisfy either of the first two.            *)
Filtered(entries, f) ==
    {e \in entries : /\ {e.basePath, e.headPath} \cap f.language # {}
                     /\ {e.basePath, e.headPath} \cap f.scope # {}
                     /\ e.status \in f.statuses}

(* A requested name resolves on each side on its own: a qualified match    *)
(* first, else the first symbol with the short name.                       *)
Canonical(side, req) ==
    LET qualified == {s \in DOMAIN side : s = req}
        short == {s \in DOMAIN side : /\ s.path = req.path /\ s.kind = req.kind
                                      /\ req.parent = None /\ s.name = req.name}
        found == IF qualified # {} THEN qualified ELSE short
    IN  {s \in found : \A t \in found : Rank(s) <= Rank(t)}

Resolve(c, requested) ==
    [entries |-> {[base |-> Canonical(c.base, r), head |-> Canonical(c.head, r),
                   requested |-> r] : r \in requested},
     base |-> UNION {Canonical(c.base, r) : r \in requested},
     head |-> UNION {Canonical(c.head, r) : r \in requested}]

Selects(sel, e) ==
    \/ sel.entries = {}
    \/ e.base \cap sel.base # {}
    \/ e.head \cap sel.head # {}
=============================================================================
