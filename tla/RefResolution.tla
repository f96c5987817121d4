--------------------------- MODULE RefResolution ---------------------------
(* How pass 2 resolves one stored ref of an unchanged Rust file before and   *)
(* after another file changes, and whether the sync looks at it again.       *)
(*                                                                           *)
(*   ladder         src/crates/orbit-graph/src/sync/pass2.rs                 *)
(*   type members   src/crates/orbit-graph/src/sync/pass2/type_member.rs     *)
(*                                                                           *)
(* A path is the sequence of its segments; a file is its path without the    *)
(* extension.  The qualified name of a symbol, and the target a ref spells,  *)
(* is a record: "item" stands for path::name, "declared" for                 *)
(* path::Trait::name, "inherent" for <path::T>::name, "implemented" for      *)
(* <path::T as Trait>::name; object says that the type is written dyn T.     *)
(* A segment of a module prefix is the sequence of its words, since the      *)
(* prefix of <T as Trait>::m is the text "<T as Trait".  Every file is Rust.  *)
EXTENDS Procedure, Integers, Sequences, SequencesExt, FiniteSets

CONSTANTS
    RefCalls,       \* [file, old, new, rest]: the changed file, what it defined
                    \* and defines, the rest of the index and a stored ref in it
    Packages,       \* [dir, aliases]: the package manifests
    MaxVisited      \* paths resolve_reexport visits before it gives up

NoName == "none"

Found(s, c) == [to |-> {s}, confidence |-> c]
Fuzzy == [to |-> {}, confidence |-> "fuzzy_name"]
Onward == [to |-> {}, confidence |-> "next_rung"]

Last1(S) == CHOOSE s \in S : TRUE
UniqueOr(S, c, else) == IF Cardinality(S) = 1 THEN Found(Last1(S), c) ELSE else

---------------------------------------------------------------------------
(* Paths                                                                     *)

Words(path) == [i \in DOMAIN path |-> <<path[i]>>]

file_module_parts(f) ==
    LET parts == SelectSeq(f, LAMBDA part : part # "src")
    IN  IF parts # <<>> /\ Last(parts) \in {"lib", "main", "mod"} THEN Front(parts) ELSE parts

Supers(path) == CHOOSE n \in 0..Len(path) :
                    /\ \A i \in 1..n : path[i] = "super"
                    /\ n < Len(path) => path[n + 1] # "super"
Without(path, n) == SubSeq(path, 1, Len(path) - n)
DropBase(base, n) == IF n > Len(base) THEN <<>> ELSE Without(base, n)

\* A path relative to base, as an absolute module path.
Absolute(base, path) ==
    LET n == Supers(path)
        rest == SubSeq(path, n + 1, Len(path))
    IN  IF path = <<>> THEN <<>>
        ELSE IF Head(path) = "crate" THEN Tail(path)
        ELSE IF n = 0 /\ Head(path) # "self" THEN path
        ELSE DropBase(base, n) \o (IF rest # <<>> /\ Head(rest) = "self" THEN Tail(rest) ELSE rest)

resolve_import_path(f, path) == Absolute(file_module_parts(f), path)
resolve_reexport_path(f, module, path) == Absolute(file_module_parts(f) \o module, path)

\* One of the prefixes the qualifier names, or a module inside it.
prefix_within_module(prefix, qualifier) ==
    LET q == Words(qualifier)
    IN  \E i \in 1..(Len(prefix) - Len(q) + 1) : SubSeq(prefix, i, i + Len(q) - 1) = q

---------------------------------------------------------------------------
(* Symbols                                                                   *)

IsMember(q) == q.form # "item"
Bracketed(q) == q.form \in {"inherent", "implemented"}
Written(q) == q.path \o (IF q.form = "declared" THEN <<q.type>> ELSE <<>>) \o <<q.name>>

\* qualified_prefix_before_name: the text before the name, its trailing
\* punctuation removed.
own_prefix(s) ==
    LET type == Words(s.q.path \o <<s.q.type>>)
        last == IF s.q.object THEN <<"dyn">> \o type[Len(type)] ELSE type[Len(type)]
        closed == [type EXCEPT ![Len(type)] =
                      IF s.q.form = "implemented" THEN last \o <<"as", s.q.trait>> ELSE last]
    IN  CASE s.q.form = "item" -> Words(s.q.path)
          [] s.q.form = "declared" -> type
          [] OTHER -> [closed EXCEPT ![1] = <<"<">> \o closed[1]]

\* A candidate of a ref; an impl block is none, and has no prefix.
Named(ix) == {s \in ix.symbols : s.kind # "impl"}
symbols_by_name(ix, n) == {s \in Named(ix) : s.q.name = n}

module_prefixes(ix, f) ==
    {own_prefix(s) : s \in {s \in Named(ix) : s.file = f}}
    \cup LET parts == Words(file_module_parts(f))
         IN  {SubSeq(parts, i, Len(parts)) : i \in DOMAIN parts}

ModulesOf(ix, s) ==
    module_prefixes(ix, s.file) \cup (IF s.kind = "impl" THEN {} ELSE {own_prefix(s)})

candidate_shares_module(ix, s, prefixes) == ModulesOf(ix, s) \cap prefixes # {}
candidate_within_module(ix, s, qualifier) ==
    \E p \in ModulesOf(ix, s) : prefix_within_module(p, qualifier)
candidate_matches_module(ix, s, module) ==
    \E p \in ModulesOf(ix, s) : p = Words(module) \/ (module # <<>> /\ IsSuffix(Words(module), p))
\* target names the candidate, directly or under one of its prefixes.
candidate_matches_qualified(ix, s, target) ==
    /\ ~Bracketed(s.q)
    /\ \/ target = Written(s.q)
       \/ \E p \in ModulesOf(ix, s) : Words(target) = p \o Words(Written(s.q))

---------------------------------------------------------------------------
(* Packages: read from the files on disk, not from the index                 *)

LibraryRoot(p) == p.dir \o <<"src", "lib">>

package_for_file(ix, f) ==
    LET owners == {p \in Packages : IsPrefix(p.dir, f)}
        nearest == {p \in owners : \A o \in owners : Len(o.dir) <= Len(p.dir)}
    IN  {p \in nearest : LibraryRoot(p) \in ix.files}

contains_library_file(p, f) ==
    LET relative == SubSeq(f, Len(p.dir) + 1, Len(f))
    IN  /\ IsPrefix(p.dir, f)
        /\ relative # <<"src", "main">>
        /\ ~IsPrefix(<<"src", "bin">>, relative)
        /\ relative[1] = "src"

---------------------------------------------------------------------------
(* Members of a type                                                         *)

names_free_item(r) ==
    /\ r.kind # "use" /\ ~r.receiver
    /\ r.target # {} /\ \A q \in r.target : ~IsMember(q)

\* The member a ref targets: of_ref.
MemberTargets(r) == IF r.kind = "use" THEN {} ELSE {q \in r.target : IsMember(q)}

Tier(q) == CASE q.form = "inherent" -> 1 [] q.form = "implemented" -> 2 [] OTHER -> 3

\* tier_of is not None.
IsMemberOf(t, q) ==
    /\ IsMember(q) /\ q.name = t.name /\ q.type = t.type
    /\ t.object => q.form = "declared" \/ q.object
    /\ t.form = "implemented" =>
           /\ q.form # "inherent"
           /\ q.form = "implemented" => q.trait = t.trait

best_tier(S) == {s \in S : \A o \in S : Tier(s.q) <= Tier(o.q)}

Imports(ix, f) == {i \in ix.imports : i.file = f}

Scoped(ix, f, path) ==
    LET here == {p \in package_for_file(ix, f) : Head(path) \in p.aliases}
        module == resolve_import_path(f, path)
    IN  IF here # {} THEN {[module |-> Tail(path), packages |-> here]}
        ELSE IF module = <<>> THEN {} ELSE {[module |-> module, packages |-> {}]}

\* The modules that can hold the type: its written path, or the imports that
\* bring its name into the file.
type_scope(ix, f, t) ==
    UNION {Scoped(ix, f, path) :
        path \in IF t.path # <<>> THEN {t.path}
                 ELSE {i.path : i \in {i \in Imports(ix, f) : i.symbol = t.type}}}

member_within_scope(ix, s, scope) ==
    \E item \in scope :
        /\ item.packages # {} =>
               /\ package_for_file(ix, s.file) = item.packages
               /\ \A p \in item.packages : contains_library_file(p, s.file)
        /\ \/ item.packages # {} /\ item.module = <<>>
           \/ /\ s.kind # "impl" /\ s.q.path # <<>>
              /\ prefix_within_module(Words(s.q.path), item.module)
           \/ candidate_within_module(ix, s, item.module)

\* Several of one tier: the calling file's own, then its module's.
pick_nearest(ix, f, pool) ==
    UniqueOr({s \in pool : s.file = f}, "exact",
        UniqueOr({s \in pool : candidate_shares_module(ix, s, module_prefixes(ix, f))}, "same_module", Onward))

pick_scoped(ix, f, members, inScope) ==
    UniqueOr(best_tier(inScope), IF Cardinality(members) = 1 THEN "exact" ELSE "import_resolved",
        pick_nearest(ix, f, best_tier(inScope)))

pick_unscoped(ix, f, members) ==
    LET own == {s \in members : s.file = f}
        nearby == {s \in members : candidate_shares_module(ix, s, module_prefixes(ix, f))}
    IN  CASE Cardinality(members) = 1 -> Found(Last1(members), "exact")
          [] own # {} -> UniqueOr(best_tier(own), "exact", Onward)
          [] nearby # {} -> UniqueOr(best_tier(nearby), "same_module", Onward)
          [] OTHER -> IF \E f1 \in {s.file : s \in members} : \A s \in members : s.file = f1
                      THEN UniqueOr(best_tier(members), "exact", Onward) ELSE Onward

trait_impls_of(ix, type) == {s \in ix.symbols : s.kind = "impl" /\ s.q.form = "implemented" /\ s.q.type = type}

\* The impl blocks through which the type can get a default member.
DefaultImpls(ix, t, scope) ==
    {s \in trait_impls_of(ix, t.type) :
        /\ t.form = "implemented" => s.q.trait = t.trait
        /\ scope # {} => member_within_scope(ix, s, scope)}

resolve_trait_default(ix, t, scope) ==
    LET impls == DefaultImpls(ix, t, scope)
        declared == {s \in symbols_by_name(ix, t.name) :
                        s.q.form = "declared" /\ \E i \in impls : i.q.trait = s.q.type}
    IN  IF t.object \/ (scope = {} /\ Cardinality({i.file : i \in impls}) # 1) THEN Onward
        ELSE UniqueOr(declared, "exact", Onward)

\* The rung stops the ladder unless nothing is known of the type.
resolve_type_member(ix, f, t) ==
    LET members == {s \in symbols_by_name(ix, t.name) : IsMemberOf(t, s.q)}
        scope == type_scope(ix, f, t)
        picked == IF scope = {} THEN pick_unscoped(ix, f, members)
                  ELSE pick_scoped(ix, f, members, {s \in members : member_within_scope(ix, s, scope)})
        default == resolve_trait_default(ix, t, scope)
    IN  IF picked # Onward THEN picked
        ELSE IF default # Onward THEN default
        ELSE IF members = {} /\ scope = {} /\ Bracketed(t) THEN Onward ELSE Fuzzy

---------------------------------------------------------------------------
(* The other rungs                                                           *)

Free(r, S) == IF names_free_item(r) THEN {s \in S : ~IsMember(s.q)} ELSE S

\* The module a module-path call spells, unless it is rooted in this crate.
call_module_qualifier(r) ==
    {q.path : q \in {q \in r.target : /\ r.spelled /\ names_free_item(r) /\ q.path # <<>>
                                      /\ Head(q.path) \notin {"crate", "self", "super"}}}

resolve_exact(ix, r) ==
    LET here == Free(r, {s \in symbols_by_name(ix, r.name) : s.file = r.file})
        exact == {s \in here : s.q \in r.target}
    IN  IF Cardinality(exact) = 1 THEN Found(Last1(exact), "exact")
        ELSE IF call_module_qualifier(r) # {} \/ r.receiver THEN Onward
        ELSE UniqueOr(here, "exact", Onward)

\* The module an import makes the ref name, if it brings the name or the last
\* segment before it into the file.
import_module_for_ref(i, r) ==
    LET module == resolve_import_path(r.file, i.path)
        local == IF i.symbol # NoName THEN i.symbol ELSE Last(i.path)
    IN  IF i.symbol = r.name THEN {module}
        ELSE IF \E q \in r.target : /\ ~Bracketed(q) /\ Len(Written(q)) > 1
                                    /\ Written(q)[Len(Written(q)) - 1] = local
        THEN {IF i.symbol # NoName THEN Append(module, local) ELSE module}
        ELSE {}

ImportMatches(ix, r, explicit) ==
    LET modules == UNION {import_module_for_ref(i, r) :
                       i \in {i \in Imports(ix, r.file) : (i.symbol = r.name) = explicit}}
    IN  {s \in Free(r, symbols_by_name(ix, r.name)) :
            \E module \in modules : candidate_matches_module(ix, s, module)}

resolve_import(ix, r) ==
    LET explicit == ImportMatches(ix, r, TRUE)
        matches == IF explicit # {} THEN explicit ELSE ImportMatches(ix, r, FALSE)
    IN  IF matches = {} THEN Onward ELSE UniqueOr(matches, "import_resolved", Fuzzy)

unique_qualified_match(ix, name, target) ==
    LET matches == {s \in symbols_by_name(ix, name) : candidate_matches_qualified(ix, s, target)}
    IN  IF Cardinality(matches) = 1 THEN matches ELSE {}

resolve_qualified(ix, r) ==
    LET matches == UNION {IF Bracketed(q) THEN {s \in symbols_by_name(ix, r.name) : s.q = q}
                          ELSE unique_qualified_match(ix, r.name, Written(q)) :
                              q \in {q \in r.target : Bracketed(q) \/ Len(Written(q)) > 1}}
    IN  IF r.kind = "use" THEN Onward ELSE UniqueOr(matches, "exact", Onward)

\* Public re-exports by the module that exposes them.
reexports(ix, module) ==
    {i \in ix.imports : i.module # {} /\ \A m \in i.module : file_module_parts(i.file) \o m = module}

\* Where the re-exports of a module that the path runs through lead: the
\* segment after the module is an exposed name, or falls under a glob.
Hops(ix, path) ==
    UNION {LET module == SubSeq(path, 1, n)
               exposed == path[n + 1]
               rest == SubSeq(path, n + 2, Len(path))
               rows == reexports(ix, module)
               explicit == {i \in rows : i.symbol = exposed}
               Target(i) == resolve_reexport_path(i.file, Last1(i.module), i.path)
           IN  {Target(i) \o i.source \o rest : i \in explicit}
               \cup (IF explicit # {} THEN {}
                     ELSE {Target(i) \o SubSeq(path, n + 1, Len(path)) :
                              i \in {i \in rows : n > 0 /\ i.symbol = NoName}})
           : n \in 0..(Len(path) - 1)}

Visited(ix, path) ==
    LET after[k \in 0..MaxVisited] ==
            IF k = 0 THEN {path} ELSE after[k - 1] \cup UNION {Hops(ix, p) : p \in after[k - 1]}
    IN  after[MaxVisited]

resolve_reexport(ix, r) ==
    LET initial == resolve_import_path(r.file, Written(Last1(r.target)))
        visited == Visited(ix, initial)
        matches == UNION {unique_qualified_match(ix, Last(p), p) : p \in visited \ {initial}}
    IN  IF ~r.spelled \/ r.target = {} \/ Len(initial) < 2 THEN Onward
        ELSE IF Cardinality(visited) > MaxVisited THEN Fuzzy
        ELSE IF matches = {} THEN Onward ELSE UniqueOr(matches, "import_resolved", Fuzzy)

resolve_same_module(ix, r) ==
    IF r.receiver THEN Onward
    ELSE UniqueOr({s \in Free(r, symbols_by_name(ix, r.name)) :
                      /\ s.file # r.file
                      /\ \A q \in call_module_qualifier(r) : candidate_within_module(ix, s, q)
                      /\ candidate_shares_module(ix, s, module_prefixes(ix, r.file))}, "same_module", Onward)

Relative(r) == r.spelled /\ \E q \in r.target : q.path # <<>> /\ Head(q.path) \in {"self", "super"}

Rungs == <<"member", "exact", "import", "qualified", "relative", "reexport", "same_module">>

Rung(n, ix, r) ==
    CASE Rungs[n] = "member" ->
             IF r.kind = "runtime_invocation" THEN Fuzzy
             ELSE IF MemberTargets(r) = {} THEN Onward
             ELSE resolve_type_member(ix, r.file, Last1(MemberTargets(r)))
      [] Rungs[n] = "exact" -> resolve_exact(ix, r)
      [] Rungs[n] = "import" -> resolve_import(ix, r)
      [] Rungs[n] = "qualified" -> resolve_qualified(ix, r)
      [] Rungs[n] = "relative" -> IF Relative(r) THEN resolve_same_module(ix, r) ELSE Onward
      [] Rungs[n] = "reexport" -> resolve_reexport(ix, r)
      [] OTHER -> resolve_same_module(ix, r)

---------------------------------------------------------------------------
(* Which refs an incremental sync resolves again                             *)

Defined(ix, f) == {s \in ix.symbols : s.file = f}
has_reexports(ix, f) == \E i \in ix.imports : i.file = f /\ i.module # {}

\* add_file: the names whose definitions changed, all of them when the file's
\* module prefixes did.
ChangedNames(old, new, f) ==
    LET names == {s.name : s \in Defined(old, f) \cup Defined(new, f)}
    IN  {n \in names :
            \/ module_prefixes(old, f) # module_prefixes(new, f)
            \/ {s \in Defined(old, f) : s.name = n} # {s \in Defined(new, f) : s.name = n}}

trait_member_names(ix, trait) == {s.q.name : s \in {s \in Named(ix) : s.q.form = "declared" /\ s.q.type = trait}}

ChangedTraits(old, new, f) ==
    {s.q.trait : s \in {s \in Defined(old, f) \cup Defined(new, f) :
                           /\ s.kind = "impl" /\ s.q.form = "implemented"
                           /\ s.name \in ChangedNames(old, new, f)}}

\* Seeded bug: a changed impl block changes the name of its type only.
DependsByName(r, old, new, f) == r.name \in ChangedNames(old, new, f)

\* run: every ref when a changed file re-exports, else the dependents.
Depends(r, old, new, f) ==
    \/ has_reexports(old, f) \/ has_reexports(new, f)
    \/ r.name \in ChangedNames(old, new, f)
                  \cup UNION {trait_member_names(new, t) : t \in ChangedTraits(old, new, f)}

---------------------------------------------------------------------------
(* One ref: resolved in the old index, then in the new one, then stored      *)

Index(defined) == [symbols |-> call.rest.symbols \cup defined, imports |-> call.rest.imports, files |-> call.rest.files]
OldIndex == Index(call.old)
NewIndex == Index(call.new)

RefInit ==
    /\ call \in RefCalls
    /\ at = "ref.old"
    /\ acc = [rung |-> 1, stored |-> Onward, full |-> Onward, kept |-> Onward]

\* resolve_ref: one rung of the ladder over an index.
Climb(here, there, ix, field) ==
    /\ at = here
    /\ \E found \in {Rung(acc.rung, ix, call.rest.ref)} :
           IF found = Onward /\ acc.rung < Len(Rungs)
           THEN acc' = [acc EXCEPT !.rung = @ + 1] /\ UNCHANGED at
           ELSE acc' = [acc EXCEPT !.rung = 1, ![field] = IF found = Onward THEN Fuzzy ELSE found] /\ at' = there
    /\ UNCHANGED call

ResolveOld == Climb("ref.old", "ref.new", OldIndex, "stored")
ResolveNew == Climb("ref.new", "ref.refresh", NewIndex, "full")

\* refresh_dependent_refs: what the row holds once the sync is done.
Refresh ==
    /\ at = "ref.refresh"
    /\ acc' = [acc EXCEPT !.kept = IF Depends(call.rest.ref, OldIndex, NewIndex, call.file)
                                   THEN acc.full ELSE acc.stored]
    /\ at' = "ref.done"
    /\ UNCHANGED call

RefNext == ResolveOld \/ ResolveNew \/ Refresh

---------------------------------------------------------------------------
(* Properties                                                                *)

\* No alias in the re-exports renames what it exposes.
PlainAliases == \A i \in call.rest.imports : i.module # {} => i.source \in {<<>>, <<i.symbol>>}

\* A ref of an unchanged file that the sync did not look at again is stored
\* exactly as a full rebuild would store it: the names, prefixes and impl
\* blocks that Dependents compares are all that its resolution rests on.
IncrementalMatchesFull == at = "ref.done" /\ PlainAliases => acc.kept = acc.full

\* A member call whose type the file names by a path or an import resolves to
\* that type's member under one of those modules, or to the default of a trait
\* implemented for it there; a path that starts at the package's own name only
\* to the package's library, never to a test's type of the same name.
WrittenScopeIsKept ==
    at \in {"ref.refresh", "ref.done"} =>
        \A t \in MemberTargets(call.rest.ref), s \in acc.full.to :
            LET scope == type_scope(NewIndex, call.rest.ref.file, t)
                owner == IF s.q.type = t.type THEN {s} ELSE DefaultImpls(NewIndex, t, scope)
            IN  scope # {} =>
                    \E o \in owner : \E item \in scope :
                        IF item.packages # {} THEN \A p \in item.packages : contains_library_file(p, o.file)
                        ELSE \E p \in ModulesOf(NewIndex, o) \cup {Words(o.q.path)} :
                                 prefix_within_module(p, item.module)

\* A plain or module-path call is never taken for a method of the same name,
\* whichever rung resolves it.
FreeItemsAreNotMembers ==
    at \in {"ref.refresh", "ref.done"} /\ names_free_item(call.rest.ref) =>
        \A s \in acc.full.to : ~IsMember(s.q)

\* Refs are resolved by what their file writes, and an incremental sync leaves
\* each as a full rebuild would.
RefsAreScoped == IncrementalMatchesFull /\ WrittenScopeIsKept /\ FreeItemsAreNotMembers
=============================================================================
