------------------------- MODULE HistoryIndexProofs -------------------------
(* Proofs about HistoryIndex for every history, number of processes and      *)
(* limit of a sync.                                                          *)
EXTENDS HistoryIndex, FiniteSetTheorems, TLAPS

-----------------------------------------------------------------------------
(* Chains *)

\* What a history is, one chain at a time.
LEMMA OneLine ==
    ASSUME NEW c \in Commits
    PROVE  /\ Chain[c] \subseteq Commits /\ IsFiniteSet(Chain[c]) /\ c \in Chain[c]
           /\ \A x \in Chain[c] : Chain[x] \subseteq Chain[c]
           /\ \A x, y \in Chain[c] : x \in Chain[y] \/ y \in Chain[x]
           /\ \A x, y \in Chain[c] : x \in Chain[y] /\ y \in Chain[x] => x = y
  BY HistoryAssumption DEF IsHistory

\* Every part of a chain has a newest commit: the one with the fewest of the
\* chain's commits after it.
LEMMA NewestIsNewest ==
    ASSUME NEW start \in Commits, NEW part \in SUBSET Chain[start], part # {}
    PROVE  Newest(part) \in part /\ part \subseteq Chain[Newest(part)]
  <1> DEFINE After1(x) == Chain[start] \ Chain[x]
             All == {After1(x) : x \in part}
             R == StrictSubsetOrdering(Chain[start])
  <1>1. All \subseteq FiniteSubsetsOf(Chain[start]) /\ All # {}
    <2>1. ASSUME NEW x \in part PROVE IsFiniteSet(After1(x))
      BY OneLine, FS_Subset
    <2> QED  BY <2>1 DEF FiniteSubsetsOf
  <1>2. PICK m \in All : \A y \in All : ~(<<y, m>> \in R)
    <2> HIDE DEF All, R
    <2>1. IsWellFoundedOn(R, FiniteSubsetsOf(Chain[start]))
      BY FS_StrictSubsetOrderingWellFounded DEF R
    <2> QED  BY <1>1, <2>1, WFMin
  <1>3. PICK x \in part : m = After1(x)
    OBVIOUS
  <1>4. ASSUME NEW y \in part PROVE y \in Chain[x]
    <2> SUFFICES ASSUME y \notin Chain[x] PROVE FALSE
      OBVIOUS
    <2>1. x \in Commits /\ y \in Commits /\ x \in Chain[y]
      BY OneLine
    <2>2. Chain[x] \subseteq Chain[y] /\ y \in Chain[y] /\ y \in Chain[start]
      BY <2>1, OneLine
    <2>3. After1(y) \subseteq After1(x) /\ After1(y) # After1(x)
      BY <2>2
    <2>4. <<After1(y), After1(x)>> \in R
      BY <2>3 DEF StrictSubsetOrdering
    <2> QED  BY <1>2, <1>3, <2>4
  <1> QED  BY <1>4 DEF Newest

\* Every chain has a root.
LEMMA RootExists ==
    ASSUME NEW start \in Commits
    PROVE  \E x \in Chain[start] : Chain[x] = {x}
  <1> DEFINE All == {Chain[x] : x \in Chain[start]}
             R == StrictSubsetOrdering(Chain[start])
  <1>1. All \subseteq FiniteSubsetsOf(Chain[start]) /\ All # {}
    <2>1. ASSUME NEW x \in Chain[start]
          PROVE  Chain[x] \subseteq Chain[start] /\ IsFiniteSet(Chain[x])
      BY OneLine
    <2>2. start \in Chain[start]
      BY OneLine
    <2> QED  BY <2>1, <2>2 DEF FiniteSubsetsOf
  <1>2. PICK m \in All : \A y \in All : ~(<<y, m>> \in R)
    <2> HIDE DEF All, R
    <2>1. IsWellFoundedOn(R, FiniteSubsetsOf(Chain[start]))
      BY FS_StrictSubsetOrderingWellFounded DEF R
    <2> QED  BY <1>1, <2>1, WFMin
  <1>3. PICK x \in Chain[start] : m = Chain[x]
    OBVIOUS
  <1>4. x \in Commits
    BY OneLine
  <1>5. ASSUME NEW z \in Chain[x] PROVE z = x
    <2>1. z \in Chain[start] /\ Chain[z] \subseteq Chain[x] /\ Chain[x] \subseteq Chain[start]
      BY OneLine, <1>4
    <2>2. Chain[z] = Chain[x]
      BY <1>2, <1>3, <2>1 DEF StrictSubsetOrdering
    <2> QED  BY OneLine, <1>4, <2>1, <2>2
  <1> QED  BY OneLine, <1>4, <1>5

\* Fewer steps lead to a commit than to its ancestors.
LEMMA StepsShrink ==
    ASSUME NEW start \in Commits, NEW x \in Chain[start], NEW part \in SUBSET Chain[start],
           Chain[start] \ Chain[x] \subseteq part
    PROVE  /\ Steps(start, x) \in Nat /\ Cardinality(part) \in Nat
           /\ Steps(start, x) <= Cardinality(part)
  <1>1. IsFiniteSet(part) /\ IsFiniteSet(Chain[start] \ Chain[x])
    BY OneLine, FS_Subset
  <1> QED  BY <1>1, FS_Subset, FS_CardinalityType DEF Steps

-----------------------------------------------------------------------------
(* pending_batch *)

\* The commits a batch passes are deliveries, all there are when it is complete;
\* an incomplete batch resumes at the newest commit it did not pass.
LEMMA BatchFacts ==
    ASSUME NEW start \in Commits, NEW cursor \in Commits \cup {None}
    PROVE  LET batch == PendingBatch(cursor, start)
           IN /\ batch.commits \subseteq Deliverable(start)
              /\ batch.complete /\ batch.ok =>
                    Deliverable(start) = batch.commits \cup
                                         (Deliverable(start) \cap ChainOf(cursor))
              /\ batch.complete /\ batch.ok /\ cursor # None => cursor \in Chain[start]
              /\ ~batch.complete => /\ batch.resume \in Chain[start]
                                    /\ Chain[batch.resume] = Chain[start] \ batch.commits
  <1> DEFINE on == cursor \in Chain[start]
             ahead == IF on THEN Chain[start] \ Chain[cursor] ELSE Deliverable(start)
             passed == {x \in ahead : Steps(start, x) < SyncLimit}
             complete == Cardinality(ahead) < SyncLimit
             batch == PendingBatch(cursor, start)
  <1>0. None \notin Commits /\ SyncLimit \in Nat
    BY HistoryAssumption
  <1>1. /\ batch.commits = passed /\ batch.complete = complete
        /\ batch.ok = ~(cursor # None /\ ~on /\ complete)
        /\ ~complete => batch.resume = Newest(Chain[start] \ passed)
    BY DEF PendingBatch
  <1>2. Deliverable(start) = {x \in Chain[start] : Chain[x] # {x}}
    BY <1>0 DEF Deliverable, ChainOf
  <1>3. ahead \subseteq Deliverable(start) /\ ahead \in SUBSET Chain[start]
    <2>1. CASE on
      <3>1. ASSUME NEW x \in ahead PROVE Chain[x] # {x}
        BY <2>1, OneLine
      <3> QED  BY <1>2, <2>1, <3>1
    <2>2. CASE ~on
      BY <1>2, <2>2
    <2> QED  BY <2>1, <2>2
  \* What is newer than a commit of ahead is ahead too.
  <1>4. ASSUME NEW x \in ahead, NEW y \in Chain[start], x \in Chain[y], x # y
        PROVE  y \in ahead
    <2>1. CASE on
      BY <1>4, <2>1, OneLine
    <2>2. CASE ~on
      BY <1>2, <1>4, <2>2
    <2> QED  BY <2>1, <2>2
  <1>5. ASSUME NEW x \in ahead PROVE Chain[start] \ Chain[x] \subseteq ahead
    BY <1>3, <1>4, OneLine
  <1>6. complete => passed = ahead
    BY <1>0, <1>3, <1>5, StepsShrink
  <1>7. ASSUME ~complete
        PROVE  /\ Newest(Chain[start] \ passed) \in Chain[start]
               /\ Chain[Newest(Chain[start] \ passed)] = Chain[start] \ passed
    <2> DEFINE rest == Chain[start] \ passed
               r == Newest(rest)
    <2>1. rest # {}
      <3>1. CASE on
        BY <3>1, OneLine
      <3>2. CASE ~on
        <4>1. PICK x \in Chain[start] : Chain[x] = {x}
          BY RootExists
        <4> QED  BY <1>2, <3>2, <4>1
      <3> QED  BY <3>1, <3>2
    <2>2. r \in rest /\ rest \subseteq Chain[r]
      BY <2>1, NewestIsNewest
    <2>3. r \in Commits /\ Chain[r] \subseteq Chain[start]
      <3>1. r \in Chain[start]
        BY <2>2
      <3> HIDE DEF r
      <3> QED  BY <3>1, OneLine
    <2>4. ASSUME NEW x \in passed, x \in Chain[r] PROVE FALSE
      <3>1. r \in ahead
        BY <1>4, <2>2, <2>4, OneLine
      <3>2. Chain[x] \subseteq Chain[r] /\ Chain[start] \ Chain[x] \in SUBSET Chain[start]
        BY <2>3, <2>4, OneLine
      <3>3. Steps(start, r) \in Nat /\ Steps(start, r) <= Steps(start, x)
        BY <2>2, <3>2, StepsShrink DEF Steps
      <3>4. x \in Chain[start] /\ Steps(start, x) \in Nat
        BY <1>3, <3>2, StepsShrink
      <3> QED  BY <1>0, <2>2, <3>1, <3>3, <3>4
    <2> QED  BY <2>2, <2>3, <2>4
  <1>8. complete /\ (cursor = None \/ on) =>
          Deliverable(start) = passed \cup (Deliverable(start) \cap ChainOf(cursor))
    <2>1. CASE on
      BY <1>0, <1>2, <1>3, <1>6, <2>1, OneLine DEF ChainOf
    <2>2. CASE ~on /\ cursor = None
      BY <1>6, <2>2
    <2> QED  BY <2>1, <2>2
  <1> HIDE DEF passed, complete, on, batch
  <1>9. passed \subseteq Deliverable(start)
    BY <1>3 DEF passed
  <1> QED  BY <1>1, <1>7, <1>8, <1>9 DEF batch, on

\* The deliveries of an ancestor are those of the chain that it holds.
LEMMA DeliverableOfAncestor ==
    ASSUME NEW c \in Commits, NEW x \in Chain[c]
    PROVE  Deliverable(x) = Deliverable(c) \cap Chain[x]
  BY OneLine, HistoryAssumption DEF Deliverable, ChainOf

\* The scope that sync_impl writes after a batch: what it vouches for is what the
\* scope before it did, and the batch.
LEMMA NextScopeCovers ==
    ASSUME NEW s \in Scopes, Formed(s), NEW now \in Commits,
           NEW frozen, frozen = IF s.tip # None THEN s.tip ELSE now,
           NEW start, start = IF s.frontier # None THEN s.frontier ELSE frozen,
           NEW batch, batch = PendingBatch(s.cursor, start), batch.ok,
           NEW next, next = IF batch.complete THEN [NoScope EXCEPT !.cursor = frozen]
                            ELSE [cursor |-> s.cursor, tip |-> frozen, frontier |-> batch.resume]
    PROVE  /\ next \in Scopes /\ next # NoScope /\ Formed(next)
           /\ batch.commits \subseteq Commits
           /\ Covered(next) = Covered(s) \cup batch.commits
  <1>0. None \notin Commits
    BY HistoryAssumption
  <1>1. /\ s.cursor \in Commits \cup {None} /\ s.tip \in Commits \cup {None}
        /\ s.frontier \in Commits \cup {None}
    BY DEF Scopes
  <1>2. frozen \in Commits
    BY <1>1
  <1>3. start \in Chain[frozen] /\ start \in Commits
    BY <1>1, <1>2, OneLine DEF Formed
  <1>4. /\ batch.commits \subseteq Deliverable(start)
        /\ batch.complete => Deliverable(start) = batch.commits \cup
                                 (Deliverable(start) \cap ChainOf(s.cursor))
        /\ batch.complete /\ s.cursor # None => s.cursor \in Chain[start]
        /\ ~batch.complete => /\ batch.resume \in Chain[start]
                              /\ Chain[batch.resume] = Chain[start] \ batch.commits
    BY <1>1, <1>3, BatchFacts
  <1>5. Deliverable(start) \subseteq Chain[start] /\ Deliverable(None) = {} /\ ChainOf(None) = {}
    BY <1>0, <1>3 DEF Deliverable, ChainOf
  <1>6. batch.commits \subseteq Commits
    BY <1>3, <1>4, <1>5, OneLine
  <1>7. Deliverable(start) = Deliverable(frozen) \cap Chain[start]
    BY <1>2, <1>3, DeliverableOfAncestor
  <1>8. CASE batch.complete
    <2>1. next = [cursor |-> frozen, tip |-> None, frontier |-> None]
      BY <1>8 DEF NoScope
    <2>2. next \in Scopes /\ next # NoScope /\ Formed(next)
      BY <1>0, <1>2, <2>1 DEF Scopes, NoScope, Formed
    <2>3. Covered(next) = Deliverable(frozen)
      BY <1>5, <2>1 DEF Covered
    <2>4. Deliverable(start) \cap ChainOf(s.cursor) = Deliverable(s.cursor)
      <3>1. CASE s.cursor = None
        BY <1>5, <3>1
      <3>2. CASE s.cursor # None
        BY <1>3, <1>4, <1>8, <3>2, DeliverableOfAncestor DEF ChainOf
      <3> QED  BY <3>1, <3>2
    <2>5. Covered(s) \cup batch.commits = Deliverable(frozen)
      <3>1. CASE s.tip = None
        <4>1. start = frozen
          BY <3>1 DEF Formed
        <4> QED  BY <1>4, <1>5, <1>8, <2>4, <3>1, <4>1 DEF Covered
      <3>2. CASE s.tip # None
        <4>1. frozen = s.tip /\ start = s.frontier /\ s.frontier # None
          BY <3>2 DEF Formed
        <4>2. ChainOf(s.frontier) = Chain[start]
          BY <4>1 DEF ChainOf
        <4> QED  BY <1>4, <1>7, <1>8, <2>4, <4>1, <4>2 DEF Covered
      <3> QED  BY <3>1, <3>2
    <2> QED  BY <1>6, <2>2, <2>3, <2>5
  <1>9. CASE ~batch.complete
    <2>1. next = [cursor |-> s.cursor, tip |-> frozen, frontier |-> batch.resume]
      BY <1>9
    <2>2. batch.resume \in Commits /\ batch.resume \in Chain[frozen]
      BY <1>2, <1>3, <1>4, <1>9, OneLine
    <2>3. next \in Scopes /\ next # NoScope /\ Formed(next)
      BY <1>0, <1>1, <1>2, <2>1, <2>2 DEF Scopes, NoScope, Formed
    <2>4. Covered(next) = Deliverable(s.cursor) \cup
                          (Deliverable(frozen) \ (Chain[start] \ batch.commits))
      BY <1>0, <1>4, <1>9, <2>1, <2>2 DEF Covered, ChainOf
    <2>5. Covered(s) = Deliverable(s.cursor) \cup (Deliverable(frozen) \ Chain[start])
      <3>1. CASE s.tip = None
        <4>1. start = frozen /\ s.frontier = None
          BY <3>1 DEF Formed
        <4> QED  BY <1>5, <3>1, <4>1 DEF Covered
      <3>2. CASE s.tip # None
        <4>1. frozen = s.tip /\ start = s.frontier /\ s.frontier # None
          BY <3>2 DEF Formed
        <4> QED  BY <4>1 DEF Covered, ChainOf
      <3> QED  BY <3>1, <3>2
    <2> QED  BY <1>4, <1>6, <1>7, <2>3, <2>4, <2>5
  <1> QED  BY <1>8, <1>9

-----------------------------------------------------------------------------
(* The cursor and the rows *)

LEMMA NoScopeIsScope == NoScope \in Scopes /\ Formed(NoScope) /\ Covered(NoScope) = {}
  BY HistoryAssumption DEF NoScope, Scopes, Formed, Covered, Deliverable, ChainOf

\* A scope with a cursor and no bootstrap vouches for the cursor's deliveries.
LEMMA CursorScope ==
    ASSUME NEW c \in Commits
    PROVE  LET s == [NoScope EXCEPT !.cursor = c]
           IN /\ s \in Scopes /\ s # NoScope /\ Formed(s) /\ Covered(s) = Deliverable(c)
              /\ Deliverable(c) \subseteq Commits
  BY HistoryAssumption, OneLine DEF NoScope, Scopes, Formed, Covered, Deliverable, ChainOf

LEMMA NothingAgrees == Agrees({}, NoScope)
  BY NoScopeIsScope DEF Agrees

\* Git-only rows of a set of commits are rows, and have its ids.
LEMMA GitRowsFacts ==
    ASSUME NEW commits \in SUBSET Commits, NEW v \in Nat
    PROVE  /\ GitRows(commits, v) \subseteq Rows
           /\ {r.id : r \in GitRows(commits, v)} = commits
           /\ \A r \in GitRows(commits, v) : r.contract = v
  <1>1. \A c \in commits : /\ Row(c, v, NoText) \in Rows /\ Row(c, v, NoText).id = c
                           /\ Row(c, v, NoText).contract = v
    BY DEF Row, Rows
  <1> QED  BY <1>1 DEF GitRows

\* The tables an index may hold when it is first met.
IsHeld(h, contract) ==
    /\ h = [exists |-> TRUE, contract |-> contract, scoped |-> Blank.scoped,
            rows |-> h.rows, scope |-> h.scope, copied |-> TRUE, purge |-> FALSE]
    /\ h.rows \in [Keys -> SUBSET Rows] /\ h.scope \in [Keys -> Scopes]
    /\ \A k \in Keys : Agrees(h.rows[k], h.scope[k]) /\ RowsUnder(h.rows[k], contract)

LEMMA HeldFacts ==
    ASSUME NEW contract \in Nat, NEW keys \in SUBSET Keys, NEW old \in Verified
    PROVE  IsHeld(Held(contract, keys, old), contract)
  <1> DEFINE h == Held(contract, keys, old)
             git == GitRows(Deliverable(After[old]), contract)
             s == [NoScope EXCEPT !.cursor = After[old]]
             rows == [k \in Keys |-> IF k \notin keys THEN {}
                        ELSE git \cup (IF k = "other" THEN {} ELSE {Row(old, contract, NoText)})]
             scope == [k \in Keys |-> IF k \in keys THEN s ELSE NoScope]
  <1>1. h = [exists |-> TRUE, contract |-> contract, scoped |-> [k \in Keys |-> None],
             rows |-> rows, scope |-> scope, copied |-> TRUE, purge |-> FALSE]
    <2>1. h = [Blank EXCEPT !.exists = TRUE, !.contract = contract, !.copied = TRUE,
                            !.rows = rows, !.scope = scope]
      BY DEF Held
    <2> HIDE DEF h, rows, scope
    <2> QED  BY <2>1 DEF Blank
  <1>2. /\ h.rows = [k \in Keys |-> IF k \notin keys THEN {}
                        ELSE git \cup (IF k = "other" THEN {} ELSE {Row(old, contract, NoText)})]
        /\ h.scope = [k \in Keys |-> IF k \in keys THEN s ELSE NoScope]
    BY <1>1
  <1> HIDE DEF h, git, s, rows, scope
  <1>3. After[old] \in Commits /\ old \notin Commits
    BY HistoryAssumption
  <1>4. /\ s \in Scopes /\ Formed(s) /\ Covered(s) = Deliverable(After[old])
        /\ Deliverable(After[old]) \in SUBSET Commits
    BY <1>3, CursorScope DEF s
  <1>5. /\ git \subseteq Rows /\ {r.id : r \in git} = Deliverable(After[old])
        /\ \A r \in git : r.contract = contract
    BY <1>4, GitRowsFacts DEF git
  <1>6. Row(old, contract, NoText) \in Rows /\ Row(old, contract, NoText).id = old
        /\ Row(old, contract, NoText).contract = contract
    BY DEF Row, Rows
  <1>7. h.rows \in [Keys -> SUBSET Rows] /\ h.scope \in [Keys -> Scopes]
    BY <1>2, <1>4, <1>5, <1>6, NoScopeIsScope
  <1>8. ASSUME NEW k \in Keys
        PROVE  Agrees(h.rows[k], h.scope[k]) /\ RowsUnder(h.rows[k], contract)
    <2>1. CASE k \notin keys
      BY <1>2, <2>1, NothingAgrees DEF RowsUnder
    <2>2. CASE k \in keys
      <3>1. /\ h.scope[k] = s
            /\ h.rows[k] = git \/ h.rows[k] = git \cup {Row(old, contract, NoText)}
        BY <1>2, <2>2
      <3>2. {r.id : r \in h.rows[k]} \cap Commits = Deliverable(After[old])
        BY <1>3, <1>4, <1>5, <1>6, <3>1
      <3> QED  BY <1>4, <1>5, <1>6, <3>1, <3>2 DEF Agrees, RowsUnder
    <2> QED  BY <2>1, <2>2
  <1>9. h = [exists |-> TRUE, contract |-> contract, scoped |-> Blank.scoped,
             rows |-> h.rows, scope |-> h.scope, copied |-> TRUE, purge |-> FALSE]
    BY <1>1 DEF Blank
  <1> QED  BY <1>7, <1>8, <1>9 DEF h, IsHeld

LEMMA IdleFacts ==
    /\ Idle \in Works
    /\ Idle.pc = "idle"
  BY HistoryAssumption, NoScopeIsScope DEF Idle, Works, Opening

\* The first state of the tables, whichever it is.
InitTables ==
    /\ db \in Tables
    /\ prev \in OldTables
    /\ NotMade
    /\ \A k \in Keys : Agrees(db.rows[k], db.scope[k]) /\ Agrees(prev.rows[k], prev.scope[k])

LEMMA CoverInvInit == Init => CoverInv
  <1> SUFFICES ASSUME Init PROVE CoverInv
    OBVIOUS
  <1>1. PICK new \in Contracts, old \in Verified :
          /\ tip = [b \in Branches |-> After[old]]
          /\ \/ db = Blank /\ prev = NoPrev
             \/ /\ db = Blank
                /\ prev = [contract |-> new, rows |-> Held(new, {"cred"}, old).rows,
                           scope |-> Held(new, {"cred"}, old).scope]
             \/ db = Held(new - 1, Branches, old) /\ prev = NoPrev
             \/ /\ \E scoped \in {None, new} :
                      db = [Held(new - 1, {"cred"}, old) EXCEPT
                               !.rows["cred"] = {Row(r.id, IF scoped = None THEN new - 1 ELSE new,
                                                     NoText) : r \in @},
                               !.scoped["cred"] = scoped]
                /\ prev = NoPrev
          /\ lock = None
          /\ proc = [p \in Procs |-> Idle]
    BY DEF Init
  <1>2. new \in Nat /\ new - 1 \in Nat /\ "cred" \in Keys /\ Branches \in SUBSET Keys
    BY HistoryAssumption DEF Contracts, Keys
  <1>3. /\ Blank \in Tables
        /\ ~Blank.exists /\ \A k \in Keys : Agrees(Blank.rows[k], Blank.scope[k])
    BY NoScopeIsScope, NothingAgrees DEF Blank, None, Tables
  <1>4. /\ NoPrev \in OldTables
        /\ \A k \in Keys : Agrees(NoPrev.rows[k], NoPrev.scope[k])
    BY NoScopeIsScope, NothingAgrees DEF NoPrev, None, OldTables
  <1>9. Blank.scoped \in [Keys -> Nat]
    BY DEF Blank, None
  <1>5. InitTables
    <2>1. CASE db = Blank /\ prev = NoPrev
      BY <1>3, <1>4, <2>1 DEF InitTables, NotMade
    <2>2. CASE /\ db = Blank
               /\ prev = [contract |-> new, rows |-> Held(new, {"cred"}, old).rows,
                          scope |-> Held(new, {"cred"}, old).scope]
      <3> DEFINE h == Held(new, {"cred"}, old)
      <3>1. IsHeld(h, new)
        BY <1>2, HeldFacts
      <3> HIDE DEF h
      <3>2. prev = [contract |-> new, rows |-> h.rows, scope |-> h.scope]
        BY <2>2 DEF h
      <3> QED  BY <1>2, <1>3, <2>2, <3>1, <3>2 DEF IsHeld, InitTables, NotMade, OldTables
    <2>3. CASE db = Held(new - 1, Branches, old) /\ prev = NoPrev
      <3>1. IsHeld(db, new - 1)
        BY <1>2, <2>3, HeldFacts
      <3>2. db \in Tables
        <4> DEFINE R == db.rows
                   S == db.scope
        <4>1. /\ db = [exists |-> TRUE, contract |-> new - 1, scoped |-> Blank.scoped,
                       rows |-> R, scope |-> S, copied |-> TRUE, purge |-> FALSE]
              /\ R \in [Keys -> SUBSET Rows] /\ S \in [Keys -> Scopes]
          BY <3>1 DEF IsHeld
        <4> HIDE DEF R, S
        <4> QED  BY <1>2, <1>9, <4>1 DEF Tables
      <3>3. db.exists = TRUE
        BY <3>1 DEF IsHeld
      <3> QED  BY <1>4, <2>3, <3>1, <3>2, <3>3 DEF IsHeld, InitTables, NotMade
    <2>4. ASSUME NEW scoped \in {None, new}, prev = NoPrev,
                 db = [Held(new - 1, {"cred"}, old) EXCEPT
                          !.rows["cred"] = {Row(r.id, IF scoped = None THEN new - 1 ELSE new,
                                                NoText) : r \in @},
                          !.scoped["cred"] = scoped]
          PROVE  InitTables
      <3> DEFINE h == Held(new - 1, {"cred"}, old)
                 c == IF scoped = None THEN new - 1 ELSE new
                 mapped == {Row(r.id, c, NoText) : r \in h.rows["cred"]}
      <3>1. IsHeld(h, new - 1)
        BY <1>2, HeldFacts
      <3> HIDE DEF h
      <3>2. c \in Nat /\ scoped \in Nat
        BY <1>2 DEF None
      <3>3. mapped \subseteq Rows /\ {r.id : r \in mapped} = {r.id : r \in h.rows["cred"]}
        <4>1. h.rows["cred"] \subseteq Rows
          BY <1>2, <3>1 DEF IsHeld
        <4>2. ASSUME NEW r \in h.rows["cred"]
              PROVE  Row(r.id, c, NoText) \in Rows /\ Row(r.id, c, NoText).id = r.id
          BY <3>2, <4>1 DEF Row, Rows
        <4> QED  BY <4>2
      <3>4. db = [exists |-> TRUE, contract |-> new - 1,
                    scoped |-> [Blank.scoped EXCEPT !["cred"] = scoped],
                    rows |-> [h.rows EXCEPT !["cred"] = mapped], scope |-> h.scope,
                    copied |-> TRUE, purge |-> FALSE]
        <4> DEFINE R == h.rows
                   S == h.scope
        <4>1. h = [exists |-> TRUE, contract |-> new - 1, scoped |-> Blank.scoped,
                   rows |-> R, scope |-> S, copied |-> TRUE, purge |-> FALSE]
          BY <3>1 DEF IsHeld
        <4>2. db = [h EXCEPT !.rows["cred"] = mapped, !.scoped["cred"] = scoped]
          BY <2>4 DEF h
        <4> HIDE DEF mapped, R, S
        <4>3. [h EXCEPT !.rows["cred"] = mapped, !.scoped["cred"] = scoped] =
              [h EXCEPT !.rows = [h.rows EXCEPT !["cred"] = mapped],
                        !.scoped = [h.scoped EXCEPT !["cred"] = scoped]]
          OBVIOUS
        <4>4. h.scoped = Blank.scoped /\ h.rows = R /\ h.scope = S
          BY <4>1
        <4> QED  BY <4>1, <4>2, <4>3, <4>4
      <3> HIDE DEF mapped, c
      <3>5. \A k \in Keys : Agrees(db.rows[k], db.scope[k])
        BY <1>2, <3>1, <3>3, <3>4 DEF Agrees, IsHeld
      <3>6. db.rows \in [Keys -> SUBSET Rows] /\ db.scope \in [Keys -> Scopes]
        BY <1>2, <3>1, <3>3, <3>4 DEF IsHeld
      <3>7. db \in Tables
        BY <1>2, <1>9, <3>2, <3>4, <3>6 DEF Tables
      <3>8. db.exists = TRUE
        BY <3>4
      <3> QED  BY <1>4, <2>4, <3>5, <3>7, <3>8 DEF InitTables, NotMade
    <2> QED  BY <1>1, <2>1, <2>2, <2>3, <2>4
  <1>6. tip \in [Branches -> Commits]
    BY <1>1, HistoryAssumption
  <1>7. proc \in [Procs -> Works]
    BY <1>1, IdleFacts
  <1>8. LockHeld /\ \A p \in Procs : BatchFits(proc[p])
    BY <1>1, IdleFacts, HistoryAssumption DEF LockHeld, BatchFits, Opening
  <1> QED  BY <1>1, <1>5, <1>6, <1>7, <1>8 DEF CoverInv, TypeOK, InitTables

-----------------------------------------------------------------------------
(* What the operations do to the tables *)

\* insert_delivery: rows are added.
LEMMA InsertFacts ==
    ASSUME NEW d \in Tables, NEW k \in Keys, NEW rs \in SUBSET Rows
    PROVE  LET e == Insert(d, k, rs)
           IN /\ e \in Tables /\ e.exists = d.exists /\ e.contract = d.contract
              /\ e.scoped = d.scoped /\ e.scope = d.scope /\ e.rows[k] = d.rows[k] \cup rs
              /\ \A j \in Keys \ {k} : e.rows[j] = d.rows[j]
  BY DEF Tables, Insert

\* stamp_rebuilt_scope touches contracts only: the scope's own, or all of them
\* when every stored scope has that contract.
LEMMA StampFacts ==
    ASSUME NEW d \in Tables, NEW k \in Keys, NEW v \in Nat
    PROVE  LET e == StampRebuiltScope(d, k, v)
           IN /\ e \in Tables /\ e.exists = d.exists /\ e.rows = d.rows /\ e.scope = d.scope
              /\ \/ /\ e.contract = v /\ e.scoped = [j \in Keys |-> None]
                    /\ \A j \in Keys \ {k} : Stored(d, j) => ContractOf(d, j) = v
                 \/ e.contract = d.contract /\ e.scoped = [d.scoped EXCEPT ![k] = v]
  <1> DEFINE f == [d EXCEPT !.scoped[k] = v]
             e == StampRebuiltScope(d, k, v)
             all == \A j \in Keys : Stored(f, j) => ContractOf(f, j) = v
  <1>1. /\ f \in Tables /\ f.exists = d.exists /\ f.rows = d.rows /\ f.scope = d.scope
        /\ f.contract = d.contract /\ f.scoped = [d.scoped EXCEPT ![k] = v]
    BY DEF Tables
  <1>2. e = IF all THEN [f EXCEPT !.contract = v, !.scoped = [j \in Keys |-> None]] ELSE f
    BY DEF StampRebuiltScope
  <1> HIDE DEF f, e
  <1>3. CASE all
    <2>1. [j \in Keys |-> None] \in [Keys -> Nat]
      BY DEF None
    <2>2. /\ e \in Tables /\ e.exists = d.exists /\ e.rows = d.rows /\ e.scope = d.scope
          /\ e.contract = v /\ e.scoped = [j \in Keys |-> None]
      <3> DEFINE nones == [j \in Keys |-> None]
      <3>1. e = [f EXCEPT !.contract = v, !.scoped = nones]
        BY <1>2, <1>3
      <3> HIDE DEF nones, all
      <3> QED  BY <1>1, <2>1, <3>1 DEF Tables, nones
    <2>3. ASSUME NEW j \in Keys \ {k}, Stored(d, j) PROVE ContractOf(d, j) = v
      <3>1. f.scoped[j] = d.scoped[j]
        BY <1>1 DEF Tables
      <3> QED  BY <1>1, <1>3, <2>3, <3>1 DEF Stored, ContractOf
    <2> QED  BY <2>2, <2>3 DEF e
  <1>4. CASE ~all
    BY <1>1, <1>2, <1>4 DEF e
  <1> QED  BY <1>3, <1>4

\* migrate_credentialed_scopes moves one scope.
LEMMA MoveFacts ==
    ASSUME NEW d \in Tables
    PROVE  LET e == MoveIdentity(d)
           IN /\ e \in Tables /\ e.exists = d.exists /\ e.contract = d.contract
              /\ e.rows["cred"] = {} /\ e.scope["cred"] = NoScope /\ e.scoped["cred"] = None
              /\ e.rows[MainBranch] = d.rows["cred"] /\ e.scope[MainBranch] = d.scope["cred"]
              /\ e.scoped[MainBranch] = IF d.scoped["cred"] # None THEN d.scoped["cred"]
                                        ELSE d.scoped[MainBranch]
              /\ \A j \in Keys \ {"cred", MainBranch} :
                    /\ e.rows[j] = d.rows[j] /\ e.scope[j] = d.scope[j]
                    /\ e.scoped[j] = d.scoped[j]
  <1>1. "cred" \in Keys /\ MainBranch \in Keys /\ "cred" # MainBranch /\ None \in Nat
    BY HistoryAssumption DEF Keys, None
  <1> QED  BY ZenonT(40), <1>1, NoScopeIsScope DEF Tables, MoveIdentity

\* insert_delivery for a verified delivery: ids and contracts of what is there stay,
\* and so does a text that is there.
LEMMA AttachFacts ==
    ASSUME NEW d \in Tables, NEW k \in Keys, NEW v \in Verified, NEW c \in Nat,
           NEW text \in Texts \cup {NoText}
    PROVE  LET e == Attach(d, k, v, c, text)
           IN /\ e \in Tables /\ e.exists = d.exists /\ e.contract = d.contract
              /\ e.scoped = d.scoped /\ e.scope = d.scope
              /\ \A j \in Keys \ {k} : e.rows[j] = d.rows[j]
              /\ \A r \in d.rows[k] : \E q \in e.rows[k] :
                    /\ q.id = r.id /\ q.contract = r.contract
                    /\ r.text # NoText => q.text = r.text
              /\ \A q \in e.rows[k] : \/ q.id = v /\ q.contract = c
                                      \/ \E r \in d.rows[k] : q.id = r.id /\ q.contract = r.contract
  <1> DEFINE e == Attach(d, k, v, c, text)
  <1>1. Row(v, c, text) \in Rows /\ Row(v, c, text).id = v /\ Row(v, c, text).contract = c
    BY DEF Row, Rows
  <1>2. CASE v \notin Ids(d, k)
    <2>1. e = Insert(d, k, {Row(v, c, text)})
      BY <1>2 DEF Attach
    <2> HIDE DEF e
    <2> QED  BY <1>1, <2>1, InsertFacts DEF e
  <1>3. CASE v \in Ids(d, k)
    <2> DEFINE Texted(r) == IF r.id = v /\ r.text = NoText THEN [r EXCEPT !.text = text] ELSE r
               rs == {Texted(r) : r \in d.rows[k]}
    <2>1. d.rows[k] \subseteq Rows
      BY DEF Tables
    <2>2. ASSUME NEW r \in d.rows[k]
          PROVE  /\ Texted(r) \in Rows /\ Texted(r).id = r.id /\ Texted(r).contract = r.contract
                 /\ r.text # NoText => Texted(r).text = r.text
      BY <2>1 DEF Rows
    <2>3. rs \in SUBSET Rows
      BY <2>2
    <2>4. e = [d EXCEPT !.rows[k] = rs]
      BY <1>3 DEF Attach
    <2> HIDE DEF rs, e
    <2>5. /\ e \in Tables /\ e.exists = d.exists /\ e.contract = d.contract
          /\ e.scoped = d.scoped /\ e.scope = d.scope /\ e.rows[k] = rs
          /\ \A j \in Keys \ {k} : e.rows[j] = d.rows[j]
      BY <2>3, <2>4 DEF Tables
    <2> HIDE DEF Texted
    <2>6. \A r \in d.rows[k] : \E q \in e.rows[k] :
             /\ q.id = r.id /\ q.contract = r.contract
             /\ r.text # NoText => q.text = r.text
      BY <2>2, <2>5 DEF rs
    <2>7. \A q \in e.rows[k] : \E r \in d.rows[k] : q.id = r.id /\ q.contract = r.contract
      BY <2>2, <2>5 DEF rs
    <2> QED  BY <2>5, <2>6, <2>7 DEF e
  <1> QED  BY <1>2, <1>3

-----------------------------------------------------------------------------
(* A step of one process *)

\* The lock is left alone, taken, or let go by the process that holds it.
LockStep(p, w) ==
    \/ lock' = lock /\ (w.pc \in Opening <=> proc[p].pc \in Opening)
    \/ lock = None /\ lock' = p /\ w.pc \in Opening
    \/ lock = p /\ lock' = None /\ w.pc \notin Opening

\* The tables a step leaves: they exist if they did, and agree with their scopes.
TablesStep ==
    /\ db' \in Tables
    /\ db.exists => db'.exists
    /\ ~db'.exists => db' = Blank
    /\ \A k \in Keys : Agrees(db'.rows[k], db'.scope[k])

\* What a step of process p to record w has to show.
LEMMA ProcessStep ==
    ASSUME CoverInv, NEW p \in Procs, NEW w \in Works, proc' = [proc EXCEPT ![p] = w],
           BatchFits(w), LockStep(p, w), TablesStep, w.pc # "idle" => db'.exists,
           tip' = tip, prev' = prev
    PROVE  CoverInv'
  <1>1. proc \in [Procs -> Works] /\ lock \in Procs \cup {None} /\ None \notin Procs
    BY HistoryAssumption DEF CoverInv, TypeOK
  <1>2. proc' \in [Procs -> Works] /\ proc'[p] = w /\ \A q \in Procs \ {p} : proc'[q] = proc[q]
    BY <1>1
  <1>3. TypeOK'
    BY <1>1, <1>2 DEF CoverInv, TypeOK, TablesStep, LockStep
  <1>4. ASSUME NEW q \in Procs
        PROVE  /\ lock' = q <=> proc'[q].pc \in Opening
               /\ proc'[q].pc # "idle" => db'.exists
               /\ BatchFits(proc'[q])
    <2>1. /\ lock = q <=> proc[q].pc \in Opening
          /\ lock = p <=> proc[p].pc \in Opening
          /\ proc[q].pc # "idle" => db.exists
          /\ BatchFits(proc[q])
      BY DEF CoverInv, LockHeld
    <2>2. CASE q = p
      BY <1>1, <1>2, <2>1, <2>2 DEF LockStep
    <2>3. CASE q # p
      BY <1>1, <1>2, <2>1, <2>3 DEF LockStep, TablesStep
    <2> QED  BY <2>2, <2>3
  <1>5. (\A q \in Procs : BatchFits(proc[q]))'
    BY <1>4 DEF BatchFits, Formed, Covered
  <1>6. LockHeld'
    BY <1>4 DEF LockHeld
  <1>7. NotMade'
    BY DEF TablesStep, NotMade
  <1>8. (\A k \in Keys : Agrees(db.rows[k], db.scope[k]) /\ Agrees(prev.rows[k], prev.scope[k]))'
    BY DEF CoverInv, TablesStep, Agrees, Formed, Covered
  <1> QED  BY <1>3, <1>5, <1>6, <1>7, <1>8 DEF CoverInv

\* Tables left alone, or with other flags only.
LEMMA TablesSame ==
    ASSUME CoverInv, db' \in Tables, db'.exists = db.exists, db.exists \/ db' = db,
           \A k \in Keys : db'.rows[k] = db.rows[k] /\ db'.scope[k] = db.scope[k]
    PROVE  TablesStep
  BY DEF CoverInv, NotMade, TablesStep

\* A call that ends: the record of an open handle.
LEMMA ReturnMoves ==
    ASSUME TypeOK, NEW p \in Procs, Return(p)
    PROVE  \E w \in Works : w.pc = "opened" /\ proc' = [proc EXCEPT ![p] = w]
  <1> DEFINE w == [Idle EXCEPT !.pc = "opened", !.key = proc[p].key, !.mode = proc[p].mode]
  <1>1. proc[p] \in Works
    BY DEF TypeOK
  <1>2. w \in Works /\ w.pc = "opened"
    BY <1>1, IdleFacts DEF Works
  <1>3. proc' = [proc EXCEPT ![p] = w]
    BY DEF Return
  <1> QED  BY <1>2, <1>3

\* Records that have neither a scope nor a batch to answer for.
LEMMA NothingToFit ==
    ASSUME NEW w, w.pc \notin {"walk", "sync", "rebuild", "import"}
    PROVE  BatchFits(w)
  BY DEF BatchFits

-----------------------------------------------------------------------------
(* Every step keeps the invariant *)

LEMMA BranchCovers ==
    ASSUME CoverInv, NEW c \in Commits, MoveBranch(c)
    PROVE  CoverInv'
  <1>1. /\ tip' \in [Branches -> Commits]
        /\ db' = db /\ prev' = prev /\ lock' = lock /\ proc' = proc
    BY HistoryAssumption DEF CoverInv, TypeOK, MoveBranch
  <1> QED  BY <1>1 DEF CoverInv, TypeOK, LockHeld, NotMade, Agrees, BatchFits, Formed, Covered

LEMMA AbandonCovers ==
    ASSUME CoverInv, NEW p \in Procs, Abandon(p)
    PROVE  CoverInv'
  <1>1. /\ proc' = [proc EXCEPT ![p] = Idle] /\ db' = db /\ prev' = prev /\ tip' = tip
        /\ lock' = IF lock = p THEN None ELSE lock
    BY DEF Abandon
  <1>2. Idle \in Works /\ Idle.pc = "idle" /\ "idle" \notin Opening
    BY IdleFacts DEF Opening
  <1>3. LockStep(p, Idle)
    BY <1>1, <1>2 DEF CoverInv, LockHeld, LockStep
  <1>4. TablesStep
    BY <1>1, TablesSame DEF CoverInv, TypeOK
  <1>5. BatchFits(Idle)
    BY <1>2, NothingToFit
  <1> QED  BY <1>1, <1>2, <1>3, <1>4, <1>5, ProcessStep

\* A process at a place of its own, with the lock where it was.
LEMMA StaysOpening ==
    ASSUME CoverInv, NEW p \in Procs, NEW pc \in {"copy", "migrate", "purge"},
           proc[p].pc \in Opening, Goto(p, pc), lock' = lock, tip' = tip, prev' = prev,
           TablesStep
    PROVE  CoverInv'
  <1> DEFINE w == [proc[p] EXCEPT !.pc = pc]
  <1>1. proc[p] \in Works /\ proc \in [Procs -> Works]
    BY DEF CoverInv, TypeOK
  <1>2. w \in Works /\ w.pc = pc /\ pc \in Opening /\ pc # "idle"
    BY <1>1 DEF Works, Opening
  <1>3. proc' = [proc EXCEPT ![p] = w]
    BY <1>1 DEF Goto, Works
  <1> HIDE DEF w
  <1>4. LockStep(p, w)
    BY <1>2 DEF LockStep
  <1>5. BatchFits(w)
    BY <1>2, NothingToFit
  <1>6. db'.exists
    BY DEF CoverInv, LockHeld, TablesStep, Opening
  <1> QED  BY <1>2, <1>3, <1>4, <1>5, <1>6, ProcessStep

\* An open that ends, with a handle or an error.
LEMMA EndOpenCovers ==
    ASSUME CoverInv, NEW p \in Procs, NEW ok \in BOOLEAN, proc[p].pc \in Opening,
           EndOpen(p, ok), tip' = tip, prev' = prev, TablesStep
    PROVE  CoverInv'
  <1> DEFINE w == IF ok THEN [proc[p] EXCEPT !.pc = "opened"] ELSE Idle
  <1>1. proc[p] \in Works /\ proc \in [Procs -> Works]
    BY DEF CoverInv, TypeOK
  <1>2. w \in Works /\ w.pc \in {"opened", "idle"}
    BY <1>1, IdleFacts DEF Works
  <1>3. proc' = [proc EXCEPT ![p] = w] /\ lock' = None
    BY <1>1 DEF EndOpen
  <1> HIDE DEF w
  <1>4. LockStep(p, w)
    BY <1>2, <1>3 DEF LockStep, CoverInv, LockHeld, Opening
  <1>5. BatchFits(w)
    BY <1>2, NothingToFit
  <1>6. db'.exists
    BY DEF CoverInv, LockHeld, TablesStep, Opening
  <1> QED  BY <1>2, <1>3, <1>4, <1>5, <1>6, ProcessStep

LEMMA OpenCovers ==
    ASSUME CoverInv, NEW p \in Procs, NEW b \in Branches, NEW mode \in {"write", "rebuild"},
           OpenIndex(p, b, mode)
    PROVE  CoverInv'
  <1> DEFINE w == [Idle EXCEPT !.pc = "validate", !.key = b, !.mode = mode]
             new == [Blank EXCEPT !.exists = TRUE, !.contract = Binary[p]]
  <1>1. /\ lock = None /\ lock' = p /\ tip' = tip /\ prev' = prev
        /\ db' = IF db.exists THEN db ELSE new
        /\ proc' = [proc EXCEPT ![p] = w]
    BY DEF OpenIndex
  <1>2. w \in Works /\ w.pc = "validate" /\ "validate" \in Opening
    BY IdleFacts DEF Works, Opening
  <1>3. Binary[p] \in Nat
    BY HistoryAssumption
  <1>4. /\ new \in Tables /\ new.exists
        /\ \A k \in Keys : new.rows[k] = {} /\ new.scope[k] = NoScope
    BY <1>3, NoScopeIsScope DEF Blank, Tables, None
  <1> HIDE DEF w, new
  <1>5. TablesStep /\ db'.exists
    <2>1. CASE db.exists
      BY <1>1, <2>1, TablesSame DEF CoverInv, TypeOK
    <2>2. CASE ~db.exists
      BY <1>1, <1>4, <2>2, NothingAgrees DEF TablesStep
    <2> QED  BY <2>1, <2>2
  <1>6. LockStep(p, w)
    BY <1>1, <1>2 DEF LockStep
  <1>7. BatchFits(w)
    BY <1>2, NothingToFit
  <1> QED  BY <1>1, <1>2, <1>5, <1>6, <1>7, ProcessStep

LEMMA ValidateCovers ==
    ASSUME CoverInv, NEW p \in Procs, ValidateVersions(p)
    PROVE  CoverInv'
  <1>1. db \in Tables /\ db.exists /\ proc[p].pc = "validate" /\ "validate" \in Opening
    BY DEF ValidateVersions, CoverInv, TypeOK, LockHeld, Opening
  <1>2. TablesStep
    <2>1. db' = db \/ db' = [db EXCEPT !.purge = FALSE]
      BY DEF ValidateVersions
    <2>2. db' \in Tables /\ db'.exists = db.exists /\ db'.rows = db.rows /\ db'.scope = db.scope
      BY <1>1, <2>1 DEF Tables
    <2> QED  BY <1>1, <2>2, TablesSame
  <1>3. tip' = tip /\ prev' = prev
    BY DEF ValidateVersions
  <1>4. \/ EndOpen(p, FALSE)
        \/ \E pc \in {"copy", "migrate"} : Goto(p, pc) /\ lock' = lock
    BY DEF ValidateVersions
  <1> QED  BY <1>1, <1>2, <1>3, <1>4, StaysOpening, EndOpenCovers

LEMMA CopyCovers ==
    ASSUME CoverInv, NEW p \in Procs, CopyPreviousSchemaOnce(p)
    PROVE  CoverInv'
  <1>1. db \in Tables /\ db.exists /\ proc[p].pc = "copy" /\ "copy" \in Opening
    BY DEF CopyPreviousSchemaOnce, CoverInv, TypeOK, LockHeld, Opening
  <1>2. prev \in OldTables
    BY DEF CoverInv, TypeOK
  <1>3. TablesStep
    <2>1. CASE db' = db
      BY <1>1, <2>1, TablesSame
    <2>2. CASE db' = [db EXCEPT !.copied = TRUE]
      <3>1. db' \in Tables /\ db'.exists = db.exists /\ db'.rows = db.rows /\ db'.scope = db.scope
        BY <1>1, <2>2 DEF Tables
      <3> QED  BY <1>1, <3>1, TablesSame
    <2>3. CASE db' = [db EXCEPT !.copied = TRUE, !.rows = prev.rows, !.scope = prev.scope]
      <3>1. db' \in Tables /\ db'.exists = db.exists /\ db'.rows = prev.rows
            /\ db'.scope = prev.scope
        BY <1>1, <1>2, <2>3 DEF Tables, OldTables
      <3> QED  BY <1>1, <3>1 DEF TablesStep, CoverInv
    <2> QED  BY <2>1, <2>2, <2>3 DEF CopyPreviousSchemaOnce
  <1>4. Goto(p, "migrate") /\ tip' = tip /\ prev' = prev /\ lock' = lock
    BY DEF CopyPreviousSchemaOnce
  <1> QED  BY <1>1, <1>3, <1>4, StaysOpening

LEMMA MigrateCovers ==
    ASSUME CoverInv, NEW p \in Procs, MigrateCredentialedScopes(p)
    PROVE  CoverInv'
  <1>1. db \in Tables /\ db.exists /\ proc[p].pc = "migrate" /\ "migrate" \in Opening
    BY DEF MigrateCredentialedScopes, CoverInv, TypeOK, LockHeld, Opening
  <1>2. TablesStep
    <2>1. CASE db' = db
      BY <1>1, <2>1, TablesSame
    <2>2. CASE db' = MoveIdentity(db)
      <3>1. "cred" \in Keys /\ MainBranch \in Keys
        BY HistoryAssumption DEF Keys
      <3>2. ASSUME NEW k \in Keys PROVE Agrees(db'.rows[k], db'.scope[k])
        <4>1. CASE k = "cred"
          BY <1>1, <2>2, <4>1, MoveFacts, NothingAgrees
        <4>2. CASE k = MainBranch
          BY <1>1, <2>2, <3>1, <4>2, MoveFacts DEF CoverInv
        <4>3. CASE k \in Keys \ {"cred", MainBranch}
          BY <1>1, <2>2, <4>3, MoveFacts DEF CoverInv
        <4> QED  BY <4>1, <4>2, <4>3
      <3> QED  BY <1>1, <2>2, <3>2, MoveFacts DEF TablesStep
    <2> QED  BY <2>1, <2>2 DEF MigrateCredentialedScopes
  <1>3. Goto(p, "purge") /\ tip' = tip /\ prev' = prev /\ lock' = lock
    BY DEF MigrateCredentialedScopes
  <1> QED  BY <1>1, <1>2, <1>3, StaysOpening

LEMMA FinishCovers ==
    ASSUME CoverInv, NEW p \in Procs, FinishOpen(p)
    PROVE  CoverInv'
  <1>1. db \in Tables /\ db.exists /\ proc[p].pc = "purge" /\ "purge" \in Opening
    BY DEF FinishOpen, CoverInv, TypeOK, LockHeld, Opening
  <1>2. TablesStep
    <2>1. db' = [db EXCEPT !.purge = FALSE]
      BY DEF FinishOpen
    <2>2. db' \in Tables /\ db'.exists = db.exists /\ db'.rows = db.rows /\ db'.scope = db.scope
      BY <1>1, <2>1 DEF Tables
    <2> QED  BY <1>1, <2>2, TablesSame
  <1>3. tip' = tip /\ prev' = prev
        /\ EndOpen(p, proc[p].mode = "write" => ContractOf(db, proc[p].key) = Binary[p])
    BY DEF FinishOpen
  <1> QED  BY <1>1, <1>2, <1>3, EndOpenCovers

\* A step that only changes its process's record, from one open handle to another.
LEMMA HandleStep ==
    ASSUME CoverInv, NEW p \in Procs, NEW w \in Works, proc' = [proc EXCEPT ![p] = w],
           BatchFits(w), proc[p].pc \notin Opening \cup {"idle"}, w.pc \notin Opening,
           lock' = lock, tip' = tip, prev' = prev, TablesStep
    PROVE  CoverInv'
  <1>1. LockStep(p, w)
    BY DEF LockStep
  <1>2. db'.exists
    BY DEF CoverInv, LockHeld, TablesStep
  <1> QED  BY <1>1, <1>2, ProcessStep

LEMMA ReadCovers ==
    ASSUME CoverInv, NEW p \in Procs, ReadScope(p)
    PROVE  CoverInv'
  <1> DEFINE w == [proc[p] EXCEPT !.pc = "walk", !.scope = db.scope[proc[p].key]]
  <1>1. proc \in [Procs -> Works] /\ proc[p] \in Works /\ db \in Tables
    BY DEF CoverInv, TypeOK
  <1>2. proc[p].key \in Keys
    BY <1>1 DEF Works, Keys
  <1>3. db.scope[proc[p].key] \in Scopes /\ Formed(db.scope[proc[p].key])
    BY <1>1, <1>2 DEF Tables, CoverInv, Agrees
  <1>4. w \in Works /\ w.pc = "walk" /\ w.scope = db.scope[proc[p].key]
    BY <1>1, <1>3 DEF Works
  <1>5. /\ proc[p].pc = "opened" /\ proc' = [proc EXCEPT ![p] = w]
        /\ db' = db /\ lock' = lock /\ tip' = tip /\ prev' = prev
    BY <1>1 DEF ReadScope, Works
  <1> HIDE DEF w
  <1>6. BatchFits(w)
    BY <1>3, <1>4 DEF BatchFits
  <1>7. TablesStep
    BY <1>1, <1>5, TablesSame
  <1> QED  BY <1>4, <1>5, <1>6, <1>7, HandleStep DEF Opening

LEMMA WalkBatchCovers ==
    ASSUME CoverInv, NEW p \in Procs, WalkBatch(p)
    PROVE  CoverInv'
  <1> DEFINE s == proc[p].scope
             now == tip[proc[p].key]
             frozen == IF s.tip # None THEN s.tip ELSE now
             start == IF s.frontier # None THEN s.frontier ELSE frozen
             batch == PendingBatch(s.cursor, start)
             next == IF batch.complete THEN [NoScope EXCEPT !.cursor = frozen]
                     ELSE [cursor |-> s.cursor, tip |-> frozen, frontier |-> batch.resume]
             w == [proc[p] EXCEPT !.pc = "sync", !.batch = batch.commits, !.next = next]
  <1>1. proc \in [Procs -> Works] /\ proc[p] \in Works /\ db \in Tables
    BY DEF CoverInv, TypeOK
  <1>2. proc[p].key \in Branches /\ s \in Scopes
    BY <1>1 DEF Works
  <1>3. now \in Commits
    BY <1>2 DEF CoverInv, TypeOK
  <1>4. proc[p].pc = "walk" /\ batch.ok /\ Formed(s)
    BY DEF WalkBatch, CoverInv, BatchFits
  <1>5. /\ proc' = [proc EXCEPT ![p].pc = "sync", ![p].batch = batch.commits, ![p].next = next]
        /\ db' = db /\ lock' = lock /\ tip' = tip /\ prev' = prev
    BY DEF WalkBatch
  <1> HIDE DEF next, batch, start, frozen, now
  <1>6. proc' = [proc EXCEPT ![p] = w]
    BY <1>1, <1>5 DEF Works
  <1>7. /\ next \in Scopes /\ next # NoScope /\ Formed(next)
        /\ batch.commits \subseteq Commits
        /\ Covered(next) = Covered(s) \cup batch.commits
    <2>1. /\ frozen = IF s.tip # None THEN s.tip ELSE now
          /\ start = IF s.frontier # None THEN s.frontier ELSE frozen
      BY DEF start, frozen
    <2>2. batch = PendingBatch(s.cursor, start)
      BY DEF batch
    <2>3. next = IF batch.complete THEN [NoScope EXCEPT !.cursor = frozen]
                 ELSE [cursor |-> s.cursor, tip |-> frozen, frontier |-> batch.resume]
      BY DEF next
    <2> HIDE DEF s
    <2> QED  BY <1>2, <1>3, <1>4, <2>1, <2>2, <2>3, NextScopeCovers
  <1>8. /\ w \in Works /\ w.pc = "sync" /\ w.scope = s /\ w.next = next
        /\ w.batch = batch.commits
    BY <1>1, <1>7 DEF Works
  <1> HIDE DEF w, s
  <1>9. BatchFits(w)
    BY <1>4, <1>7, <1>8 DEF BatchFits
  <1>10. TablesStep
    BY <1>1, <1>5, TablesSame
  <1> QED  BY <1>4, <1>5, <1>6, <1>8, <1>9, <1>10, HandleStep DEF Opening

LEMMA WalkAllCovers ==
    ASSUME CoverInv, NEW p \in Procs, WalkAll(p)
    PROVE  CoverInv'
  <1> DEFINE now == tip[proc[p].key]
             next == [NoScope EXCEPT !.cursor = now]
             w == [proc[p] EXCEPT !.pc = "rebuild", !.batch = Deliverable(now), !.next = next]
  <1>1. proc \in [Procs -> Works] /\ proc[p] \in Works /\ db \in Tables
    BY DEF CoverInv, TypeOK
  <1>2. now \in Commits
    BY <1>1 DEF CoverInv, TypeOK, Works
  <1>3. /\ proc[p].pc = "opened"
        /\ proc' = [proc EXCEPT ![p].pc = "rebuild", ![p].batch = Deliverable(now),
                                ![p].next = next]
        /\ db' = db /\ lock' = lock /\ tip' = tip /\ prev' = prev
    BY DEF WalkAll
  <1> HIDE DEF now
  <1>4. /\ next \in Scopes /\ next # NoScope /\ Formed(next) /\ Covered(next) = Deliverable(now)
        /\ Deliverable(now) \subseteq Commits
    BY <1>2, CursorScope
  <1> HIDE DEF next
  <1>5. proc' = [proc EXCEPT ![p] = w]
    BY <1>1, <1>3 DEF Works
  <1>6. w \in Works /\ w.pc = "rebuild" /\ w.next = next /\ w.batch = Deliverable(now)
    BY <1>1, <1>4 DEF Works
  <1> HIDE DEF w
  <1>7. BatchFits(w)
    BY <1>4, <1>6 DEF BatchFits
  <1>8. TablesStep
    BY <1>1, <1>3, TablesSame
  <1> QED  BY <1>3, <1>5, <1>6, <1>7, <1>8, HandleStep DEF Opening

LEMMA ExtractCovers ==
    ASSUME CoverInv, NEW p \in Procs, NEW v \in Verified, ExtractImport(p, v)
    PROVE  CoverInv'
  <1> DEFINE w == [proc[p] EXCEPT !.pc = "import", !.batch = {v}]
  <1>1. proc \in [Procs -> Works] /\ proc[p] \in Works /\ db \in Tables
    BY DEF CoverInv, TypeOK
  <1>2. /\ proc[p].pc = "opened" /\ proc' = [proc EXCEPT ![p] = w]
        /\ db' = db /\ lock' = lock /\ tip' = tip /\ prev' = prev
    BY <1>1 DEF ExtractImport, Works
  <1>3. w \in Works /\ w.pc = "import" /\ w.batch = {v}
    BY <1>1 DEF Works
  <1> HIDE DEF w
  <1>4. BatchFits(w)
    BY <1>3 DEF BatchFits
  <1>5. TablesStep
    BY <1>1, <1>2, TablesSame
  <1> QED  BY <1>2, <1>3, <1>4, <1>5, HandleStep DEF Opening

\* A transaction that ends its call.
LEMMA CommitStep ==
    ASSUME CoverInv, NEW p \in Procs, proc[p].pc \in {"sync", "rebuild", "import"},
           Return(p), lock' = lock, tip' = tip, prev' = prev, TablesStep
    PROVE  CoverInv'
  <1>1. PICK w \in Works : w.pc = "opened" /\ proc' = [proc EXCEPT ![p] = w]
    BY ReturnMoves DEF CoverInv
  <1>2. BatchFits(w)
    BY <1>1, NothingToFit
  <1> QED  BY <1>1, <1>2, HandleStep DEF Opening

\* The tables after rows and a scope that agree are put under one key.
LEMMA PutCovers ==
    ASSUME CoverInv, db.exists, NEW k \in Keys, NEW rs, NEW s, Agrees(rs, s),
           db' \in Tables, db'.exists = db.exists, db'.rows[k] = rs, db'.scope[k] = s,
           \A j \in Keys \ {k} : db'.rows[j] = db.rows[j] /\ db'.scope[j] = db.scope[j]
    PROVE  TablesStep
  BY DEF CoverInv, TablesStep

LEMMA SyncCovers ==
    ASSUME CoverInv, NEW p \in Procs, CommitSync(p)
    PROVE  CoverInv'
  <1> DEFINE k == proc[p].key
             new == GitRows(proc[p].batch \ GitIds(db, k), Binary[p])
             mid == Insert(db, k, new)
             rs == db.rows[k] \cup new
             next == proc[p].next
  <1>1. proc[p] \in Works /\ db \in Tables /\ Binary[p] \in Nat
    BY HistoryAssumption DEF CoverInv, TypeOK
  <1>2. /\ proc[p].pc = "sync" /\ db.scope[k] = proc[p].scope
        /\ db' = [mid EXCEPT !.scope[k] = next]
        /\ Return(p) /\ lock' = lock /\ tip' = tip /\ prev' = prev
    BY DEF CommitSync
  <1>3. k \in Keys /\ next \in Scopes
    BY <1>1 DEF Works, Keys
  <1>4. /\ Formed(next) /\ proc[p].batch \in SUBSET Commits
        /\ Covered(next) = Covered(proc[p].scope) \cup proc[p].batch
    BY <1>2 DEF CoverInv, BatchFits
  <1>5. db.exists
    BY <1>2 DEF CoverInv, LockHeld
  <1>6. /\ new \in SUBSET Rows
        /\ {r.id : r \in new} = proc[p].batch \ GitIds(db, k)
    BY <1>1, <1>4, GitRowsFacts
  <1> HIDE DEF k, new, next
  <1>7. /\ mid \in Tables /\ mid.exists = db.exists /\ mid.scope = db.scope
        /\ mid.rows[k] = rs /\ \A j \in Keys \ {k} : mid.rows[j] = db.rows[j]
    BY <1>1, <1>3, <1>6, InsertFacts
  <1> HIDE DEF mid
  <1>8. /\ db' \in Tables /\ db'.exists = db.exists /\ db'.rows[k] = rs /\ db'.scope[k] = next
        /\ \A j \in Keys \ {k} : db'.rows[j] = db.rows[j] /\ db'.scope[j] = db.scope[j]
    BY <1>2, <1>3, <1>7 DEF Tables
  <1>9. Agrees(rs, next)
    <2>1. GitIds(db, k) = Covered(proc[p].scope)
      BY <1>2, <1>3 DEF CoverInv, Agrees, GitIds, Ids
    <2>2. {r.id : r \in rs} = Ids(db, k) \cup {r.id : r \in new}
      BY DEF Ids
    <2>3. {r.id : r \in rs} \cap Commits = GitIds(db, k) \cup proc[p].batch
      BY <1>4, <1>6, <2>2 DEF GitIds
    <2> QED  BY <1>4, <2>1, <2>3 DEF Agrees
  <1> HIDE DEF rs
  <1>10. TablesStep
    BY <1>3, <1>5, <1>8, <1>9, PutCovers
  <1> QED  BY <1>2, <1>10, CommitStep

\* What a rebuild keeps are verified deliveries, under its own contract.
LEMMA PreservedFacts ==
    ASSUME NEW d \in Tables, NEW k \in Keys, NEW v \in Nat
    PROVE  /\ Preserved(d, k, v) \in SUBSET Rows
           /\ \A q \in Preserved(d, k, v) : q.id \in Verified /\ q.contract = v
           /\ \A r \in VerifiedRows(d, k) :
                 \E q \in Preserved(d, k, v) : q.id = r.id /\ q.text = r.text
  <1>1. d.rows[k] \subseteq Rows
    BY DEF Tables
  <1>2. ASSUME NEW r \in VerifiedRows(d, k)
        PROVE  /\ Row(r.id, v, r.text) \in Rows /\ Row(r.id, v, r.text).id = r.id
               /\ Row(r.id, v, r.text).contract = v /\ Row(r.id, v, r.text).text = r.text
               /\ r.id \in Verified
    BY <1>1 DEF Row, Rows, VerifiedRows
  <1> QED  BY <1>2 DEF Preserved

\* The tables before and after a rebuild's transaction.
Rebuilt(p, k, kept, e) ==
    /\ kept \in {{}, Preserved(db, k, Binary[p])}
    /\ e \in Tables /\ e.exists = db.exists /\ e.contract = db.contract
    /\ e.scoped = db.scoped
    /\ e.rows[k] = kept \cup GitRows(proc[p].batch, Binary[p]) /\ e.scope[k] = proc[p].next
    /\ \A j \in Keys \ {k} : e.rows[j] = db.rows[j] /\ e.scope[j] = db.scope[j]
    /\ db' = StampRebuiltScope(e, k, Binary[p])

LEMMA RebuildTables ==
    ASSUME CoverInv, NEW p \in Procs, NEW discard \in BOOLEAN, CommitRebuild(p, discard)
    PROVE  /\ proc[p].key \in Keys /\ proc[p].pc = "rebuild" /\ lock = None
           /\ proc[p].batch \in SUBSET Commits /\ Binary[p] \in Nat \ {0} /\ db \in Tables
           /\ \E kept, e : /\ Rebuilt(p, proc[p].key, kept, e)
                           /\ ~discard => kept = Preserved(db, proc[p].key, Binary[p])
  <1> DEFINE k == proc[p].key
             kept == IF discard THEN {} ELSE Preserved(db, k, Binary[p])
             rs == kept \cup GitRows(proc[p].batch, Binary[p])
             next == proc[p].next
             e == [db EXCEPT !.rows[k] = rs, !.scope[k] = next]
  <1>1. proc[p] \in Works /\ db \in Tables /\ Binary[p] \in Nat \ {0}
    BY HistoryAssumption DEF CoverInv, TypeOK
  <1>2. proc[p].pc = "rebuild" /\ lock = None /\ db' = StampRebuiltScope(e, k, Binary[p])
    BY DEF CommitRebuild
  <1>3. k \in Keys /\ next \in Scopes
    BY <1>1 DEF Works, Keys
  <1>4. proc[p].batch \in SUBSET Commits
    <2>1. Formed(next) /\ proc[p].batch = Covered(next)
      BY <1>2 DEF CoverInv, BatchFits
    <2>2. \A c \in Commits \cup {None} : Deliverable(c) \subseteq Commits
      BY OneLine DEF Deliverable, ChainOf
    <2> QED  BY <1>3, <2>1, <2>2 DEF Covered, Scopes
  <1>5. kept \in SUBSET Rows /\ GitRows(proc[p].batch, Binary[p]) \in SUBSET Rows
    BY <1>1, <1>3, <1>4, GitRowsFacts, PreservedFacts
  <1>6. rs \in SUBSET Rows
    BY <1>5
  <1>7. kept \in {{}, Preserved(db, k, Binary[p])}
    OBVIOUS
  <1> HIDE DEF rs, next, k
  <1>8. /\ e \in Tables /\ e.exists = db.exists /\ e.contract = db.contract
        /\ e.scoped = db.scoped /\ e.rows[k] = rs /\ e.scope[k] = next
        /\ \A j \in Keys \ {k} : e.rows[j] = db.rows[j] /\ e.scope[j] = db.scope[j]
    BY <1>1, <1>3, <1>6 DEF Tables
  <1> HIDE DEF e
  <1>9. Rebuilt(p, k, kept, e)
    BY <1>2, <1>7, <1>8 DEF Rebuilt, rs, next
  <1> QED  BY <1>1, <1>2, <1>3, <1>4, <1>9 DEF k

LEMMA RebuildCovers ==
    ASSUME CoverInv, NEW p \in Procs, NEW discard \in BOOLEAN, CommitRebuild(p, discard)
    PROVE  CoverInv'
  <1> DEFINE k == proc[p].key
             git == GitRows(proc[p].batch, Binary[p])
  <1>1. /\ k \in Keys /\ proc[p].pc = "rebuild" /\ proc[p].batch \in SUBSET Commits
        /\ Binary[p] \in Nat /\ db \in Tables
    BY RebuildTables
  <1>2. PICK kept, e : Rebuilt(p, k, kept, e)
    BY RebuildTables
  <1>3. Return(p) /\ lock' = lock /\ tip' = tip /\ prev' = prev
    BY DEF CommitRebuild
  <1>4. db.exists /\ Formed(proc[p].next) /\ proc[p].batch = Covered(proc[p].next)
    BY <1>1 DEF CoverInv, LockHeld, BatchFits
  <1>5. /\ db' \in Tables /\ db'.exists = e.exists /\ db'.rows = e.rows /\ db'.scope = e.scope
    BY ZenonT(40), <1>1, <1>2, StampFacts DEF Rebuilt
  <1>6. Agrees(kept \cup git, proc[p].next)
    <2>1. {r.id : r \in git} = proc[p].batch
      BY <1>1, GitRowsFacts
    <2>2. \A r \in kept : r.id \in Verified
      BY <1>1, <1>2, PreservedFacts DEF Rebuilt
    <2> HIDE DEF git
    <2>3. {r.id : r \in kept \cup git} \cap Commits = proc[p].batch
      BY <1>1, <2>1, <2>2, HistoryAssumption
    <2> QED  BY <1>4, <2>3 DEF Agrees
  <1>7. TablesStep
    <2>1. /\ db'.exists = db.exists /\ db'.rows[k] = kept \cup git /\ db'.scope[k] = proc[p].next
          /\ \A j \in Keys \ {k} : db'.rows[j] = db.rows[j] /\ db'.scope[j] = db.scope[j]
      BY <1>2, <1>5 DEF Rebuilt
    <2> HIDE DEF k, git
    <2> QED  BY <1>1, <1>4, <1>5, <1>6, <2>1, PutCovers
  <1> QED  BY <1>1, <1>3, <1>7, CommitStep

\* An attached delivery changes no Git-only row.
LEMMA AttachCovers ==
    ASSUME CoverInv, db.exists, NEW k \in Keys, NEW v \in Verified, NEW c \in Nat,
           NEW text \in Texts \cup {NoText}, db' = Attach(db, k, v, c, text)
    PROVE  TablesStep
  <1>1. db \in Tables /\ v \notin Commits
    BY HistoryAssumption DEF CoverInv, TypeOK
  <1>2. /\ db' \in Tables /\ db'.exists = db.exists /\ db'.scope = db.scope
        /\ \A j \in Keys \ {k} : db'.rows[j] = db.rows[j]
    <2>1. db' \in Tables
      BY <1>1, AttachFacts
    <2> DEFINE e == Attach(db, k, v, c, text)
    <2>2. db'.exists = db.exists /\ db'.scope = db.scope
      <3>1. e.exists = db.exists
        BY <1>1, AttachFacts
      <3>3. e.scope = db.scope
        BY <1>1, AttachFacts
      <3>2. db' = e
        OBVIOUS
      <3> HIDE DEF e
      <3> QED  BY <3>1, <3>2, <3>3
    <2>3. \A j \in Keys \ {k} : db'.rows[j] = db.rows[j]
      BY <1>1, AttachFacts
    <2> QED  BY <2>1, <2>2, <2>3
  <1>3. /\ \A r \in db.rows[k] : \E q \in db'.rows[k] : q.id = r.id
        /\ \A q \in db'.rows[k] : q.id = v \/ \E r \in db.rows[k] : q.id = r.id
    BY <1>1, AttachFacts
  <1>4. {r.id : r \in db'.rows[k]} \cap Commits = {r.id : r \in db.rows[k]} \cap Commits
    BY <1>1, <1>3
  <1>5. Agrees(db'.rows[k], db.scope[k])
    BY <1>4 DEF CoverInv, Agrees
  <1> QED  BY <1>2, <1>5, PutCovers

LEMMA ImportCovers ==
    ASSUME CoverInv, NEW p \in Procs, NEW text \in Texts \cup {NoText}, CommitImport(p, text)
    PROVE  CoverInv'
  <1> DEFINE k == proc[p].key
             v == CHOOSE x \in proc[p].batch : TRUE
  <1>1. /\ proc[p].pc = "import" /\ db' = Attach(db, k, v, Binary[p], text)
        /\ Return(p) /\ lock' = lock /\ tip' = tip /\ prev' = prev
    BY DEF CommitImport
  <1>2. k \in Keys /\ Binary[p] \in Nat /\ db.exists
    BY <1>1, HistoryAssumption DEF CoverInv, TypeOK, Works, Keys, LockHeld
  <1>3. v \in Verified
    <2>1. PICK u \in Verified : proc[p].batch = {u}
      BY <1>1 DEF CoverInv, BatchFits
    <2> QED  BY <2>1
  <1> HIDE DEF v, k
  <1>4. TablesStep
    BY <1>1, <1>2, <1>3, AttachCovers
  <1> QED  BY <1>1, <1>4, CommitStep

LEMMA SnapshotCovers ==
    ASSUME CoverInv, NEW p \in Procs, NEW v \in Verified, NEW text \in Texts,
           AddSuppliedSnapshot(p, v, text)
    PROVE  CoverInv'
  <1> DEFINE k == proc[p].key
  <1>1. /\ proc[p].pc = "opened" /\ db' = Attach(db, k, v, Binary[p], text)
        /\ proc' = proc /\ lock' = lock /\ tip' = tip /\ prev' = prev
    BY DEF AddSuppliedSnapshot
  <1>2. k \in Keys /\ Binary[p] \in Nat /\ db.exists /\ proc[p] \in Works
    BY <1>1, HistoryAssumption DEF CoverInv, TypeOK, Works, Keys, LockHeld
  <1>3. TablesStep
    BY <1>1, <1>2, AttachCovers
  <1>4. proc' = [proc EXCEPT ![p] = proc[p]] /\ BatchFits(proc[p])
    BY <1>1 DEF CoverInv, TypeOK
  <1> QED  BY <1>1, <1>2, <1>3, <1>4, HandleStep DEF Opening

LEMMA CoverInvStep == CoverInv /\ [Next]_vars => CoverInv'
  <1> SUFFICES ASSUME CoverInv, [Next]_vars PROVE CoverInv'
    OBVIOUS
  <1>1. CASE UNCHANGED vars
    BY <1>1 DEF vars, CoverInv, TypeOK, LockHeld, NotMade, Agrees, BatchFits, Formed, Covered
  <1>2. CASE \E c \in Commits : MoveBranch(c)
    BY <1>2, BranchCovers
  <1>3. ASSUME NEW p \in Procs,
               \/ Abandon(p)
               \/ \E b \in Branches, mode \in {"write", "rebuild"} : OpenIndex(p, b, mode)
               \/ ValidateVersions(p)
               \/ CopyPreviousSchemaOnce(p)
               \/ MigrateCredentialedScopes(p)
               \/ FinishOpen(p)
        PROVE  CoverInv'
    BY <1>3, AbandonCovers, OpenCovers, ValidateCovers, CopyCovers, MigrateCovers, FinishCovers
  <1>4. ASSUME NEW p \in Procs,
               \/ ReadScope(p)
               \/ WalkBatch(p)
               \/ CommitSync(p)
               \/ WalkAll(p)
               \/ \E discard \in BOOLEAN : CommitRebuild(p, discard)
        PROVE  CoverInv'
    BY <1>4, ReadCovers, WalkBatchCovers, SyncCovers, WalkAllCovers, RebuildCovers
  <1>5. ASSUME NEW p \in Procs,
               \/ \E v \in Verified : ExtractImport(p, v)
               \/ \E text \in Texts \cup {NoText} : CommitImport(p, text)
               \/ \E v \in Verified, text \in Texts : AddSuppliedSnapshot(p, v, text)
        PROVE  CoverInv'
    BY <1>5, ExtractCovers, ImportCovers, SnapshotCovers
  <1> QED  BY <1>1, <1>2, <1>3, <1>4, <1>5 DEF Next

\* The cursor tells the truth in every history, for every limit of a sync and of a
\* rebuild and for any number of processes and of programs (sync_impl, pending_batch,
\* rebuild_with_options): a scope's Git-only rows are exactly the commits that its
\* cursor and its bounded bootstrap say have been indexed.
THEOREM CursorTellsTheTruth == Spec => []CursorCoversRows
  <1>1. CoverInv => CursorCoversRows
    BY DEF CoverInv, Agrees, CursorCoversRows, GitIds, Ids
  <1> QED  BY CoverInvInit, CoverInvStep, <1>1, PTL DEF Spec

-----------------------------------------------------------------------------
(* Verified deliveries stay *)

\* Rows that are all still there are kept.
LEMMA SameRowsKept ==
    ASSUME NEW k \in Keys, NEW j \in Keys, db.rows[k] \subseteq db'.rows[j]
    PROVE  Kept(k, j)
  BY DEF Kept, VerifiedRows

LEMMA AttachKeeps ==
    ASSUME CoverInv, NEW k \in Keys, NEW v \in Verified, NEW c \in Nat,
           NEW text \in Texts \cup {NoText}, db' = Attach(db, k, v, c, text)
    PROVE  \A j \in Keys : Kept(j, j)
  <1>1. db \in Tables
    BY DEF CoverInv, TypeOK
  <1>2. \A j \in Keys \ {k} : db'.rows[j] = db.rows[j]
    BY <1>1, AttachFacts
  <1>3. \A r \in db.rows[k] : \E q \in db'.rows[k] :
           /\ q.id = r.id
           /\ r.text # NoText => q.text = r.text
    BY <1>1, AttachFacts
  <1>4. Kept(k, k)
    BY <1>3 DEF Kept, VerifiedRows
  <1> QED  BY <1>2, <1>4, SameRowsKept

\* What a step leaves of the verified deliveries of a key.
StaysAt(k) == Kept(k, k) \/ (k = "cred" /\ Kept(k, MainBranch))

LEMMA OpeningKeeps ==
    ASSUME CoverInv, NEW p \in Procs,
           \/ \E b \in Branches, mode \in {"write", "rebuild"} : OpenIndex(p, b, mode)
           \/ ValidateVersions(p)
           \/ CopyPreviousSchemaOnce(p)
           \/ MigrateCredentialedScopes(p)
           \/ FinishOpen(p)
    PROVE  \A k \in Keys : StaysAt(k)
  <1>1. db \in Tables
    BY DEF CoverInv, TypeOK
  <1>2. CASE db'.rows = db.rows
    BY <1>2, SameRowsKept DEF StaysAt
  <1>3. CASE \E b \in Branches, mode \in {"write", "rebuild"} : OpenIndex(p, b, mode)
    <2>1. CASE db.exists
      BY <1>2, <1>3, <2>1 DEF OpenIndex
    <2>2. CASE ~db.exists
      <3>1. \A k \in Keys : db.rows[k] = {}
        BY <2>2 DEF CoverInv, NotMade, Blank
      <3> QED  BY <3>1, SameRowsKept DEF StaysAt
    <2> QED  BY <2>1, <2>2
  <1>4. CASE ValidateVersions(p) \/ FinishOpen(p)
    <2>1. db'.rows = db.rows
      BY <1>1, <1>4 DEF ValidateVersions, FinishOpen, Tables
    <2> QED  BY <1>2, <2>1
  <1>5. CASE CopyPreviousSchemaOnce(p)
    <2>1. CASE \A k \in Keys : ~Stored(db, k)
      <3>1. \A k \in Keys : db.rows[k] = {}
        BY <2>1 DEF Stored
      <3> QED  BY <3>1, SameRowsKept DEF StaysAt
    <2>2. CASE ~ \A k \in Keys : ~Stored(db, k)
      <3>1. db' = db \/ db' = [db EXCEPT !.copied = TRUE]
        BY <1>5, <2>2 DEF CopyPreviousSchemaOnce
      <3>2. db'.rows = db.rows
        BY <1>1, <3>1 DEF Tables
      <3> QED  BY <1>2, <3>2
    <2> QED  BY <2>1, <2>2
  <1>6. CASE MigrateCredentialedScopes(p)
    <2>1. CASE db' = db
      BY <1>2, <2>1
    <2>2. CASE ~Stored(db, MainBranch) /\ db' = MoveIdentity(db)
      <3>1. "cred" \in Keys /\ MainBranch \in Keys
        BY HistoryAssumption DEF Keys
      <3>2. Kept("cred", MainBranch)
        BY <1>1, <2>2, <3>1, MoveFacts, SameRowsKept
      <3>3. Kept(MainBranch, MainBranch)
        BY <2>2, <3>1, SameRowsKept DEF Stored
      <3>4. \A j \in Keys \ {"cred", MainBranch} : db'.rows[j] = db.rows[j]
        BY <1>1, <2>2, MoveFacts
      <3>5. \A j \in Keys \ {"cred", MainBranch} : Kept(j, j)
        BY <3>4, SameRowsKept
      <3> QED  BY <3>2, <3>3, <3>5 DEF StaysAt
    <2> QED  BY <1>6, <2>1, <2>2 DEF MigrateCredentialedScopes
  <1> QED  BY <1>3, <1>4, <1>5, <1>6

LEMMA WritingKeeps ==
    ASSUME CoverInv, NEW p \in Procs,
           \/ CommitSync(p)
           \/ CommitRebuild(p, FALSE)
           \/ \E text \in Texts \cup {NoText} : CommitImport(p, text)
           \/ \E v \in Verified, text \in Texts : AddSuppliedSnapshot(p, v, text)
    PROVE  \A k \in Keys : StaysAt(k)
  <1>1. db \in Tables /\ proc[p] \in Works /\ Binary[p] \in Nat
    BY HistoryAssumption DEF CoverInv, TypeOK
  <1>2. proc[p].key \in Keys
    BY <1>1 DEF Works, Keys
  <1>3. CASE CommitSync(p)
    <2> DEFINE k == proc[p].key
               new == GitRows(proc[p].batch \ GitIds(db, k), Binary[p])
               next == proc[p].next
    <2>1. db' = [Insert(db, k, new) EXCEPT !.scope[k] = next]
      BY <1>3 DEF CommitSync
    <2>2. proc[p].batch \in SUBSET Commits
      BY <1>3 DEF CommitSync, CoverInv, BatchFits
    <2>3. new \in SUBSET Rows
      BY <1>1, <2>2, GitRowsFacts
    <2> HIDE DEF new, k, next
    <2>4. db'.rows[k] = db.rows[k] \cup new /\ \A j \in Keys \ {k} : db'.rows[j] = db.rows[j]
      BY <1>1, <1>2, <2>1, <2>3 DEF Insert, Tables, k
    <2> QED  BY <2>4, SameRowsKept DEF StaysAt
  <1>4. CASE CommitRebuild(p, FALSE)
    <2> DEFINE k == proc[p].key
    <2>1. PICK kept, e : Rebuilt(p, k, kept, e) /\ kept = Preserved(db, k, Binary[p])
      BY <1>4, RebuildTables
    <2>2. db'.rows = e.rows
      BY <1>1, <1>2, <2>1, StampFacts DEF Rebuilt
    <2>3. kept \subseteq db'.rows[k] /\ \A j \in Keys \ {k} : db'.rows[j] = db.rows[j]
      BY <2>1, <2>2 DEF Rebuilt
    <2>4. \A q \in kept : q.id \in Verified
      BY <1>1, <1>2, <2>1, PreservedFacts
    <2>5. \A r \in VerifiedRows(db, k) : \E q \in kept : q.id = r.id /\ q.text = r.text
      BY <1>1, <1>2, <2>1, PreservedFacts
    <2>6. Kept(k, k)
      BY <2>3, <2>4, <2>5 DEF Kept, VerifiedRows
    <2> QED  BY <2>3, <2>6, SameRowsKept DEF StaysAt
  <1>5. ASSUME NEW text \in Texts \cup {NoText}, CommitImport(p, text)
        PROVE  \A k \in Keys : StaysAt(k)
    <2> DEFINE v == CHOOSE x \in proc[p].batch : TRUE
    <2>1. v \in Verified
      <3>1. PICK u \in Verified : proc[p].batch = {u}
        BY <1>5 DEF CommitImport, CoverInv, BatchFits
      <3> QED  BY <3>1
    <2>2. db' = Attach(db, proc[p].key, v, Binary[p], text)
      BY <1>5 DEF CommitImport
    <2> HIDE DEF v
    <2> QED  BY <1>1, <1>2, <2>1, <2>2, AttachKeeps DEF StaysAt
  <1>6. ASSUME NEW v \in Verified, NEW text \in Texts, AddSuppliedSnapshot(p, v, text)
        PROVE  \A k \in Keys : StaysAt(k)
    <2>1. db' = Attach(db, proc[p].key, v, Binary[p], text)
      BY <1>6 DEF AddSuppliedSnapshot
    <2> QED  BY <1>1, <1>2, <2>1, AttachKeeps DEF StaysAt
  <1> QED  BY <1>3, <1>4, <1>5, <1>6

\* No verified delivery, and no text supplied for one, is lost to anything but a
\* rebuild that was told to discard it, whichever processes open, migrate, copy,
\* sync, rebuild and import (rebuild_with_options, copy_previous_schema_once,
\* migrate_credentialed_scopes, insert_delivery).
THEOREM VerifiedDeliveriesStay == Spec => VerifiedStay
  <1>1. ASSUME CoverInv, [Next]_vars
        PROVE  [ \/ \A k \in Keys : Kept(k, k) \/ (k = "cred" /\ Kept(k, MainBranch))
                 \/ \E p \in Procs : CommitRebuild(p, TRUE) ]_vars
    <2>1. CASE db' = db
      BY <2>1, SameRowsKept
    <2>2. CASE UNCHANGED vars
      BY <2>2
    <2>3. CASE \E c \in Commits : MoveBranch(c)
      BY <2>1, <2>3 DEF MoveBranch
    <2>4. ASSUME NEW p \in Procs,
                 \/ Abandon(p)
                 \/ ReadScope(p)
                 \/ WalkBatch(p)
                 \/ WalkAll(p)
                 \/ \E v \in Verified : ExtractImport(p, v)
          PROVE  db' = db
      BY <2>4 DEF Abandon, ReadScope, WalkBatch, WalkAll, ExtractImport
    <2>5. ASSUME NEW p \in Procs,
                 \/ \E b \in Branches, mode \in {"write", "rebuild"} : OpenIndex(p, b, mode)
                 \/ ValidateVersions(p)
                 \/ CopyPreviousSchemaOnce(p)
                 \/ MigrateCredentialedScopes(p)
                 \/ FinishOpen(p)
          PROVE  \A k \in Keys : StaysAt(k)
      BY <1>1, <2>5, OpeningKeeps
    <2>6. ASSUME NEW p \in Procs,
                 \/ CommitSync(p)
                 \/ \E discard \in BOOLEAN : CommitRebuild(p, discard)
                 \/ \E text \in Texts \cup {NoText} : CommitImport(p, text)
                 \/ \E v \in Verified, text \in Texts : AddSuppliedSnapshot(p, v, text)
          PROVE  (\A k \in Keys : StaysAt(k)) \/ CommitRebuild(p, TRUE)
      BY <1>1, <2>6, WritingKeeps
    <2> QED  BY <1>1, <2>1, <2>2, <2>3, <2>4, <2>5, <2>6 DEF Next, StaysAt
  <1> QED  BY CoverInvInit, CoverInvStep, <1>1, PTL DEF Spec, VerifiedStay

-----------------------------------------------------------------------------
(* What may be read is current *)

\* Every process runs a program of contract v.
OneProgram(v) == v \in Nat \ {0} /\ \A p \in Procs : Binary[p] = v

LEMMA ContractInit ==
    ASSUME NEW v, OneProgram(v), Init
    PROVE  ContractInv(v)
  <1>1. PICK new \in Contracts, old \in Verified :
          /\ \/ db = Blank /\ prev = NoPrev
             \/ /\ db = Blank
                /\ prev = [contract |-> new, rows |-> Held(new, {"cred"}, old).rows,
                           scope |-> Held(new, {"cred"}, old).scope]
             \/ db = Held(new - 1, Branches, old) /\ prev = NoPrev
             \/ /\ \E scoped \in {None, new} :
                      db = [Held(new - 1, {"cred"}, old) EXCEPT
                               !.rows["cred"] = {Row(r.id, IF scoped = None THEN new - 1 ELSE new,
                                                     NoText) : r \in @},
                               !.scoped["cred"] = scoped]
                /\ prev = NoPrev
          /\ proc = [p \in Procs |-> Idle]
    BY DEF Init
  <1>2. new = v /\ v \in Nat /\ v - 1 \in Nat /\ v - 1 # v /\ v # None
        /\ "cred" \in Keys /\ Branches \in SUBSET Keys
    BY HistoryAssumption DEF Contracts, OneProgram, Keys, None
  <1>3. \A p \in Procs : proc[p].pc # "copy"
    BY <1>1, IdleFacts
  <1>4. \A k \in Keys : /\ Blank.scoped[k] = None /\ Blank.rows[k] = {} /\ NoPrev.rows[k] = {}
    BY DEF Blank, NoPrev
  <1>5. CASE db = Blank /\ prev = NoPrev
    BY <1>3, <1>4, <1>5 DEF ContractInv, RowsUnder
  <1>6. CASE /\ db = Blank
             /\ prev = [contract |-> new, rows |-> Held(new, {"cred"}, old).rows,
                        scope |-> Held(new, {"cred"}, old).scope]
    <2>1. \A k \in Keys : RowsUnder(prev.rows[k], v)
      BY <1>2, <1>6, HeldFacts DEF IsHeld
    <2> QED  BY <1>3, <1>4, <1>6, <2>1 DEF ContractInv, RowsUnder
  <1>7. CASE db = Held(new - 1, Branches, old) /\ prev = NoPrev
    <2>1. IsHeld(db, v - 1)
      BY <1>2, <1>7, HeldFacts
    <2>2. db.scoped = Blank.scoped /\ db.contract = v - 1
      BY <2>1 DEF IsHeld
    <2> QED  BY <1>2, <1>3, <1>4, <1>7, <2>2 DEF ContractInv, RowsUnder, ContractOf
  <1>8. ASSUME NEW scoped \in {None, new}, prev = NoPrev,
               db = [Held(new - 1, {"cred"}, old) EXCEPT
                        !.rows["cred"] = {Row(r.id, IF scoped = None THEN new - 1 ELSE new,
                                              NoText) : r \in @},
                        !.scoped["cred"] = scoped]
        PROVE  ContractInv(v)
    <2> DEFINE h == Held(new - 1, {"cred"}, old)
               rs == {Row(r.id, IF scoped = None THEN new - 1 ELSE new, NoText) :
                         r \in h.rows["cred"]}
    <2>1. h.scope["cred"] # NoScope
      <3>1. h.scope["cred"] = [NoScope EXCEPT !.cursor = After[old]]
        BY <1>2 DEF Held, Blank
      <3> QED  BY <3>1, CursorScope, HistoryAssumption
    <2>2. h.scoped = Blank.scoped /\ h.contract = v - 1 /\ h.rows \in [Keys -> SUBSET Rows]
          /\ h = [exists |-> TRUE, contract |-> new - 1, scoped |-> Blank.scoped,
                  rows |-> h.rows, scope |-> h.scope, copied |-> TRUE, purge |-> FALSE]
      <3>1. IsHeld(h, v - 1)
        BY <1>2, HeldFacts
      <3> HIDE DEF h
      <3>2. h = [exists |-> TRUE, contract |-> v - 1, scoped |-> Blank.scoped,
                 rows |-> h.rows, scope |-> h.scope, copied |-> TRUE, purge |-> FALSE]
        BY <3>1 DEF IsHeld
      <3>3. h.rows \in [Keys -> SUBSET Rows]
        BY <3>1 DEF IsHeld
      <3> QED  BY <1>2, <3>2, <3>3
    <2>3. db = [h EXCEPT !.rows["cred"] = rs, !.scoped["cred"] = scoped]
      BY <1>8
    <2>4. scoped = v => RowsUnder(rs, v)
      BY <1>2 DEF RowsUnder, Row
    <2> HIDE DEF rs, h
    <2>5. /\ db.contract = v - 1 /\ db.rows["cred"] = rs /\ db.scope["cred"] # NoScope
          /\ db.scoped["cred"] = scoped
          /\ \A k \in Keys \ {"cred"} : db.scoped[k] = None
      <3> DEFINE R == h.rows
                 S == h.scope
                 C == Blank.scoped
      <3>1. C \in [Keys -> {None}]
        BY DEF Blank
      <3>2. /\ h = [exists |-> TRUE, contract |-> new - 1, scoped |-> C,
                    rows |-> R, scope |-> S, copied |-> TRUE, purge |-> FALSE]
            /\ R \in [Keys -> SUBSET Rows] /\ S["cred"] # NoScope
        BY <2>1, <2>2
      <3> HIDE DEF R, S, C
      <3> QED  BY <1>2, <2>3, <3>1, <3>2
    <2> QED  BY <1>2, <1>3, <1>4, <1>8, <2>4, <2>5 DEF ContractInv, ContractOf, Stored, RowsUnder
  <1> QED  BY <1>1, <1>5, <1>6, <1>7, <1>8

\* The part of ContractInv about the tables, and the part about a process that copies.
CurrentTables(v) ==
    \A k \in Keys : /\ ContractOf(db, k) = v => RowsUnder(db.rows[k], v)
                    /\ prev.contract = v => RowsUnder(prev.rows[k], v)
                    /\ db.scoped[k] # None => Stored(db, k)
CopiesUnder(v) ==
    \A p \in Procs : proc[p].pc = "copy" /\ (\A k \in Keys : ~Stored(db, k)) => db.contract = v

\* One key's rows and contract change, the others' stay.
LEMMA KeyStaysCurrent ==
    ASSUME NEW v, CurrentTables(v), NEW k \in Keys, prev' = prev, db'.contract = db.contract,
           \A j \in Keys \ {k} : /\ db'.rows[j] = db.rows[j] /\ db'.scope[j] = db.scope[j]
                                 /\ db'.scoped[j] = db.scoped[j],
           ContractOf(db', k) = v => RowsUnder(db'.rows[k], v),
           db'.scoped[k] # None => Stored(db', k)
    PROVE  CurrentTables(v)'
  <1>1. ASSUME NEW j \in Keys
        PROVE  /\ ContractOf(db', j) = v => RowsUnder(db'.rows[j], v)
               /\ prev'.contract = v => RowsUnder(prev'.rows[j], v)
               /\ db'.scoped[j] # None => Stored(db', j)
    <2>1. CASE j = k
      BY <2>1 DEF CurrentTables
    <2>2. CASE j # k
      BY <2>2 DEF CurrentTables, ContractOf, Stored
    <2> QED  BY <2>1, <2>2
  <1> QED  BY <1>1 DEF CurrentTables, ContractOf, Stored, RowsUnder

\* A process copies under the lock.
LEMMA NobodyCopies ==
    ASSUME NEW v, LockHeld', \A p \in Procs : lock' = p => proc'[p].pc # "copy"
    PROVE  CopiesUnder(v)'
  BY DEF LockHeld, CopiesUnder, Opening

LEMMA OpeningStaysCurrent ==
    ASSUME NEW v, OneProgram(v), CoverInv, CoverInv', CurrentTables(v), CopiesUnder(v),
           NEW p \in Procs,
           \/ \E b \in Branches, mode \in {"write", "rebuild"} : OpenIndex(p, b, mode)
           \/ ValidateVersions(p)
           \/ CopyPreviousSchemaOnce(p)
           \/ MigrateCredentialedScopes(p)
           \/ FinishOpen(p)
    PROVE  CurrentTables(v)' /\ CopiesUnder(v)'
  <1>1. db \in Tables /\ prev \in OldTables /\ proc \in [Procs -> Works] /\ LockHeld'
        /\ proc[p] \in Works /\ None \notin Procs /\ Binary[p] = v /\ v # None
    BY HistoryAssumption DEF CoverInv, TypeOK, OneProgram, None
  <1>2. ASSUME db'.rows = db.rows, db'.scope = db.scope, db'.scoped = db.scoped,
               db'.contract = db.contract, prev' = prev
        PROVE  CurrentTables(v)'
    BY <1>2 DEF CurrentTables, ContractOf, Stored, RowsUnder
  <1>3. CASE \E b \in Branches, mode \in {"write", "rebuild"} : OpenIndex(p, b, mode)
    <2>1. lock' = p /\ prev' = prev /\ proc'[p].pc = "validate"
      BY ZenonT(40), <1>1, <1>3, IdleFacts DEF OpenIndex, Works
    <2>2. CopiesUnder(v)'
      BY <1>1, <2>1, NobodyCopies
    <2>3. CASE db.exists
      BY <1>2, <1>3, <2>1, <2>2, <2>3 DEF OpenIndex
    <2>4. CASE ~db.exists
      <3>1. db' = [Blank EXCEPT !.exists = TRUE, !.contract = v]
        BY <1>1, <1>3, <2>4 DEF OpenIndex
      <3>2. \A k \in Keys : db'.rows[k] = {} /\ db'.scoped[k] = None
        BY <3>1 DEF Blank
      <3> QED  BY <2>1, <2>2, <3>2 DEF CurrentTables, RowsUnder
    <2> QED  BY <2>3, <2>4
  <1>4. CASE ValidateVersions(p)
    <2>1. /\ db'.rows = db.rows /\ db'.scope = db.scope /\ db'.scoped = db.scoped
          /\ db'.contract = db.contract /\ prev' = prev
      BY <1>1, <1>4 DEF ValidateVersions, Tables
    <2>2. CurrentTables(v)'
      BY <1>2, <2>1
    <2>3. CASE EndOpen(p, FALSE)
      <3>1. lock' = None
        BY <2>3 DEF EndOpen
      <3> QED  BY <1>1, <2>2, <3>1, NobodyCopies
    <2>4. CASE Goto(p, "migrate") /\ lock' = lock
      <3>1. lock = p /\ proc'[p].pc = "migrate"
        BY <1>1, <1>4, <2>4 DEF ValidateVersions, Goto, CoverInv, LockHeld, Opening, Works
      <3> QED  BY <1>1, <2>2, <2>4, <3>1, NobodyCopies
    <2>5. CASE /\ Goto(p, "copy") /\ lock' = lock /\ proc[p].mode = "write"
               /\ IF Stored(db, "cred") THEN TRUE ELSE ContractOf(db, proc[p].key) = v
      <3>1. "cred" \in Keys /\ proc[p].key \in Keys
        BY <1>1 DEF Keys, Works
      <3>2. ASSUME \A k \in Keys : ~Stored(db, k) PROVE db.contract = v
        <4>1. ContractOf(db, proc[p].key) = v /\ db.scoped[proc[p].key] = None
          BY <2>5, <3>1, <3>2 DEF CurrentTables
        <4> QED  BY <4>1 DEF ContractOf
      <3>3. ASSUME \A k \in Keys : ~Stored(db', k) PROVE db'.contract = v
        <4>1. \A k \in Keys : ~Stored(db, k)
          BY <2>1, <3>3 DEF Stored
        <4> QED  BY <2>1, <3>2, <4>1
      <3>4. CopiesUnder(v)'
        BY <3>3 DEF CopiesUnder, Stored
      <3> QED  BY <2>2, <3>4
    <2>6. \/ EndOpen(p, FALSE)
          \/ Goto(p, "migrate") /\ lock' = lock
          \/ /\ Goto(p, "copy") /\ lock' = lock /\ proc[p].mode = "write"
             /\ IF Stored(db, "cred") THEN TRUE ELSE ContractOf(db, proc[p].key) = v
      BY <1>1, <1>4 DEF ValidateVersions
    <2> QED  BY <2>3, <2>4, <2>5, <2>6
  <1>5. CASE CopyPreviousSchemaOnce(p)
    <2>1. /\ lock = p /\ lock' = lock /\ prev' = prev /\ proc[p].pc = "copy"
          /\ proc'[p].pc = "migrate"
      BY <1>1, <1>5 DEF CopyPreviousSchemaOnce, Goto, CoverInv, LockHeld, Opening, Works
    <2>2. CopiesUnder(v)'
      BY <1>1, <2>1, NobodyCopies
    <2>3. CASE db' = db \/ db' = [db EXCEPT !.copied = TRUE]
      <3>1. /\ db'.rows = db.rows /\ db'.scope = db.scope /\ db'.scoped = db.scoped
            /\ db'.contract = db.contract
        BY <1>1, <2>3 DEF Tables
      <3> QED  BY <1>2, <2>1, <2>2, <3>1
    <2>4. CASE /\ prev.contract = v /\ \A k \in Keys : ~Stored(db, k)
               /\ db' = [db EXCEPT !.copied = TRUE, !.rows = prev.rows, !.scope = prev.scope]
      <3>1. db'.rows = prev.rows /\ db'.scoped = db.scoped
        BY <1>1, <2>4 DEF Tables
      <3>2. \A k \in Keys : db.scoped[k] = None /\ RowsUnder(prev.rows[k], v)
        BY <2>4 DEF CurrentTables
      <3> QED  BY <2>1, <2>2, <3>1, <3>2 DEF CurrentTables, RowsUnder
    <2> QED  BY <1>1, <1>5, <2>3, <2>4 DEF CopyPreviousSchemaOnce
  <1>6. CASE MigrateCredentialedScopes(p)
    <2>1. /\ lock = p /\ lock' = lock /\ prev' = prev /\ proc'[p].pc = "purge"
      BY <1>1, <1>6 DEF MigrateCredentialedScopes, Goto, CoverInv, LockHeld, Opening, Works
    <2>2. CopiesUnder(v)'
      BY <1>1, <2>1, NobodyCopies
    <2>3. CASE db' = db
      BY <1>2, <2>1, <2>2, <2>3
    <2>4. CASE Stored(db, "cred") /\ ~Stored(db, MainBranch) /\ db' = MoveIdentity(db)
      <3>1. "cred" \in Keys /\ MainBranch \in Keys /\ "cred" # MainBranch
        BY HistoryAssumption DEF Keys
      <3>2. db'.contract = db.contract /\ db.scoped[MainBranch] = None
        BY <1>1, <2>4, <3>1, MoveFacts DEF CurrentTables
      <3>3. ASSUME NEW k \in Keys
            PROVE  /\ ContractOf(db', k) = v => RowsUnder(db'.rows[k], v)
                   /\ db'.scoped[k] # None => Stored(db', k)
        <4>1. CASE k = "cred"
          <5>1. db'.rows[k] = {} /\ db'.scoped[k] = None
            BY <1>1, <2>4, <4>1, MoveFacts
          <5> QED  BY <5>1 DEF RowsUnder
        <4>2. CASE k = MainBranch
          <5>1. /\ db'.rows[k] = db.rows["cred"] /\ db'.scope[k] = db.scope["cred"]
                /\ db'.scoped[k] = db.scoped["cred"]
            BY <1>1, <2>4, <3>2, <4>2, MoveFacts
          <5> QED  BY <2>4, <3>1, <3>2, <5>1 DEF CurrentTables, ContractOf, Stored
        <4>3. CASE k \in Keys \ {"cred", MainBranch}
          <5>1. /\ db'.rows[k] = db.rows[k] /\ db'.scope[k] = db.scope[k]
                /\ db'.scoped[k] = db.scoped[k]
            BY <1>1, <2>4, <4>3, MoveFacts
          <5> QED  BY <3>2, <5>1 DEF CurrentTables, ContractOf, Stored
        <4> QED  BY <4>1, <4>2, <4>3
      <3> QED  BY <2>1, <2>2, <3>3 DEF CurrentTables, ContractOf, Stored, RowsUnder
    <2> QED  BY <1>6, <2>3, <2>4 DEF MigrateCredentialedScopes
  <1>7. CASE FinishOpen(p)
    <2>1. /\ db'.rows = db.rows /\ db'.scope = db.scope /\ db'.scoped = db.scoped
          /\ db'.contract = db.contract /\ prev' = prev /\ lock' = None
      BY <1>1, <1>7 DEF FinishOpen, EndOpen, Tables
    <2> QED  BY <1>1, <1>2, <2>1, NobodyCopies
  <1> QED  BY <1>3, <1>4, <1>5, <1>6, <1>7

LEMMA WritingStaysCurrent ==
    ASSUME NEW v, OneProgram(v), CoverInv, CoverInv', CurrentTables(v), CopiesUnder(v),
           NEW p \in Procs,
           \/ CommitSync(p)
           \/ \E discard \in BOOLEAN : CommitRebuild(p, discard)
           \/ \E text \in Texts \cup {NoText} : CommitImport(p, text)
           \/ \E u \in Verified, text \in Texts : AddSuppliedSnapshot(p, u, text)
    PROVE  CurrentTables(v)' /\ CopiesUnder(v)'
  <1> DEFINE k == proc[p].key
  <1>1. /\ db \in Tables /\ LockHeld' /\ proc[p] \in Works /\ None \notin Procs
        /\ Binary[p] = v /\ v \in Nat /\ v # None
    BY HistoryAssumption DEF CoverInv, TypeOK, OneProgram, None
  <1>2. k \in Keys
    BY <1>1 DEF Works, Keys
  <1>3. lock' = None /\ prev' = prev
    BY DEF CommitSync, CommitRebuild, CommitImport, AddSuppliedSnapshot
  <1>4. CopiesUnder(v)'
    BY <1>1, <1>3, NobodyCopies
  <1>5. CASE CommitSync(p)
    <2> DEFINE new == GitRows(proc[p].batch \ GitIds(db, k), Binary[p])
               next == proc[p].next
    <2>1. db' = [Insert(db, k, new) EXCEPT !.scope[k] = next]
      BY <1>5 DEF CommitSync
    <2>2. proc[p].batch \in SUBSET Commits /\ next # NoScope
      BY <1>5 DEF CommitSync, CoverInv, BatchFits
    <2>3. new \in SUBSET Rows /\ \A r \in new : r.contract = v
      BY <1>1, <2>2, GitRowsFacts
    <2> HIDE DEF new, k, next
    <2>4. /\ db'.rows[k] = db.rows[k] \cup new /\ db'.scope[k] = next
          /\ \A j \in Keys \ {k} : db'.rows[j] = db.rows[j] /\ db'.scope[j] = db.scope[j]
          /\ db'.scoped = db.scoped /\ db'.contract = db.contract
      BY <1>1, <1>2, <2>1, <2>3 DEF Insert, Tables
    <2>5. ContractOf(db', k) = v => RowsUnder(db'.rows[k], v)
      BY <1>2, <2>3, <2>4 DEF CurrentTables, ContractOf, RowsUnder
    <2>6. Stored(db', k)
      BY <2>2, <2>4 DEF Stored
    <2>7. CurrentTables(v)'
      BY <1>2, <1>3, <2>4, <2>5, <2>6, KeyStaysCurrent
    <2> QED  BY <1>4, <2>7
  <1>6. ASSUME NEW discard \in BOOLEAN, CommitRebuild(p, discard)
        PROVE  CurrentTables(v)'
    <2> DEFINE git == GitRows(proc[p].batch, Binary[p])
    <2>1. PICK kept, e : Rebuilt(p, k, kept, e)
      BY <1>6, RebuildTables
    <2>2. proc[p].batch \in SUBSET Commits /\ proc[p].next # NoScope
      <3>1. proc[p].pc = "rebuild" /\ proc[p].batch \in SUBSET Commits
        BY <1>6, RebuildTables
      <3> QED  BY <3>1 DEF CoverInv, BatchFits
    <2>3. RowsUnder(kept \cup git, v)
      <3>1. \A r \in kept : r.contract = v
        BY <1>1, <1>2, <2>1, PreservedFacts DEF Rebuilt
      <3>2. \A r \in git : r.contract = v
        BY <1>1, <2>2, GitRowsFacts
      <3> QED  BY <3>1, <3>2 DEF RowsUnder
    <2>4. /\ db'.rows = e.rows /\ db'.scope = e.scope
          /\ \/ /\ db'.contract = v /\ db'.scoped = [j \in Keys |-> None]
                /\ \A j \in Keys \ {k} : Stored(e, j) => ContractOf(e, j) = v
             \/ db'.contract = e.contract /\ db'.scoped = [e.scoped EXCEPT ![k] = v]
      BY <1>1, <1>2, <2>1, StampFacts DEF Rebuilt
    <2>5. /\ RowsUnder(db'.rows[k], v) /\ Stored(db', k)
          /\ \A j \in Keys \ {k} : db'.rows[j] = db.rows[j] /\ db'.scope[j] = db.scope[j]
      BY <2>1, <2>2, <2>3, <2>4 DEF Rebuilt, Stored
    <2>6. CASE /\ db'.contract = v /\ db'.scoped = [j \in Keys |-> None]
               /\ \A j \in Keys \ {k} : Stored(e, j) => ContractOf(e, j) = v
      <3>1. ASSUME NEW j \in Keys \ {k} PROVE RowsUnder(db'.rows[j], v)
        <4>1. Stored(db, j) => ContractOf(db, j) = v
          BY <2>1, <2>6 DEF Rebuilt, Stored, ContractOf
        <4>2. ~Stored(db, j) => db.rows[j] = {}
          BY DEF Stored
        <4> QED  BY <2>5, <4>1, <4>2 DEF CurrentTables, RowsUnder
      <3>2. \A j \in Keys : RowsUnder(db'.rows[j], v) /\ db'.scoped[j] = None
        BY <2>5, <2>6, <3>1
      <3> QED  BY <1>3, <3>2 DEF CurrentTables, RowsUnder
    <2>7. CASE db'.contract = e.contract /\ db'.scoped = [e.scoped EXCEPT ![k] = v]
      <3>1. /\ db'.contract = db.contract
            /\ \A j \in Keys \ {k} : db'.scoped[j] = db.scoped[j]
        BY <1>1, <2>1, <2>7 DEF Rebuilt, Tables
      <3> HIDE DEF k
      <3> QED  BY <1>2, <1>3, <2>5, <3>1, KeyStaysCurrent
    <2> QED  BY <2>4, <2>6, <2>7
  <1>7. ASSUME NEW u \in Verified, NEW text \in Texts \cup {NoText},
               db' = Attach(db, k, u, Binary[p], text)
        PROVE  CurrentTables(v)'
    <2> DEFINE e == Attach(db, k, u, v, text)
    <2>0. db' = e
      BY <1>1, <1>7
    <2> HIDE DEF k
    <2>1. e.contract = db.contract
      BY <1>1, <1>2, AttachFacts
    <2>2. e.scoped = db.scoped
      BY <1>1, <1>2, AttachFacts
    <2>3. e.scope = db.scope
      BY <1>1, <1>2, AttachFacts
    <2>4. \A j \in Keys \ {k} : e.rows[j] = db.rows[j]
      BY <1>1, <1>2, AttachFacts
    <2>5. \A r \in db.rows[k] : \E q \in e.rows[k] : q.id = r.id
      BY <1>1, <1>2, AttachFacts
    <2>6. \A q \in e.rows[k] : q.contract = v \/ \E r \in db.rows[k] : q.contract = r.contract
      BY <1>1, <1>2, AttachFacts
    <2> HIDE DEF e
    <2>7. ContractOf(db', k) = v => RowsUnder(db'.rows[k], v)
      BY <1>2, <2>0, <2>1, <2>2, <2>6 DEF CurrentTables, ContractOf, RowsUnder
    <2>8. db'.scoped[k] # None => Stored(db', k)
      <3>1. Stored(db, k) => Stored(db', k)
        BY <2>0, <2>3, <2>5 DEF Stored
      <3> QED  BY <1>2, <2>0, <2>2, <3>1 DEF CurrentTables
    <2> QED  BY <1>2, <1>3, <2>0, <2>1, <2>2, <2>3, <2>4, <2>7, <2>8, KeyStaysCurrent
  <1>8. ASSUME NEW text \in Texts \cup {NoText}, CommitImport(p, text)
        PROVE  CurrentTables(v)'
    <2> DEFINE u == CHOOSE x \in proc[p].batch : TRUE
    <2>1. u \in Verified
      <3>1. PICK w \in Verified : proc[p].batch = {w}
        BY <1>8 DEF CommitImport, CoverInv, BatchFits
      <3> QED  BY <3>1
    <2>2. db' = Attach(db, k, u, Binary[p], text)
      BY <1>8 DEF CommitImport
    <2> HIDE DEF u, k
    <2> QED  BY <1>7, <2>1, <2>2
  <1>9. ASSUME NEW u \in Verified, NEW text \in Texts, AddSuppliedSnapshot(p, u, text)
        PROVE  CurrentTables(v)'
    <2>1. db' = Attach(db, k, u, Binary[p], text)
      BY <1>9 DEF AddSuppliedSnapshot
    <2> QED  BY <1>7, <2>1
  <1> QED  BY <1>4, <1>5, <1>6, <1>8, <1>9

LEMMA ContractStep ==
    ASSUME NEW v, OneProgram(v), CoverInv, CoverInv', ContractInv(v), [Next]_vars
    PROVE  ContractInv(v)'
  <1>1. CurrentTables(v) /\ CopiesUnder(v)
    BY DEF ContractInv, CurrentTables, CopiesUnder
  <1>2. SUFFICES CurrentTables(v)' /\ CopiesUnder(v)'
    BY DEF ContractInv, CurrentTables, CopiesUnder
  <1>3. ASSUME db' = db, prev' = prev, \A p \in Procs : proc'[p].pc = "copy" => proc[p].pc = "copy"
        PROVE  CurrentTables(v)' /\ CopiesUnder(v)'
    BY <1>1, <1>3 DEF CurrentTables, CopiesUnder, ContractOf, Stored, RowsUnder
  <1>4. CASE UNCHANGED vars
    BY <1>3, <1>4 DEF vars
  <1>5. CASE \E c \in Commits : MoveBranch(c)
    BY <1>3, <1>5 DEF MoveBranch
  <1>6. ASSUME NEW p \in Procs,
               \/ Abandon(p)
               \/ ReadScope(p)
               \/ WalkBatch(p)
               \/ WalkAll(p)
               \/ \E u \in Verified : ExtractImport(p, u)
        PROVE  CurrentTables(v)' /\ CopiesUnder(v)'
    <2>1. proc \in [Procs -> Works]
      BY DEF CoverInv, TypeOK
    <2>2. db' = db /\ prev' = prev
      BY <1>6 DEF Abandon, ReadScope, WalkBatch, WalkAll, ExtractImport
    <2>3. \A q \in Procs \ {p} : proc'[q] = proc[q]
      BY <1>6, <2>1 DEF Abandon, ReadScope, WalkBatch, WalkAll, ExtractImport
    <2>4. proc'[p].pc # "copy"
      <3>1. CASE Abandon(p)
        BY <2>1, <3>1, IdleFacts DEF Abandon, Works
      <3>2. CASE ReadScope(p)
        BY <2>1, <3>2 DEF ReadScope, Works
      <3>3. CASE WalkBatch(p)
        BY <2>1, <3>3 DEF WalkBatch, Works
      <3>4. CASE WalkAll(p)
        BY <2>1, <3>4 DEF WalkAll, Works
      <3>5. CASE \E u \in Verified : ExtractImport(p, u)
        BY <2>1, <3>5 DEF ExtractImport, Works
      <3> QED  BY <1>6, <3>1, <3>2, <3>3, <3>4, <3>5
    <2> QED  BY <1>3, <2>2, <2>3, <2>4
  <1>7. ASSUME NEW p \in Procs,
               \/ \E b \in Branches, mode \in {"write", "rebuild"} : OpenIndex(p, b, mode)
               \/ ValidateVersions(p)
               \/ CopyPreviousSchemaOnce(p)
               \/ MigrateCredentialedScopes(p)
               \/ FinishOpen(p)
        PROVE  CurrentTables(v)' /\ CopiesUnder(v)'
    BY <1>1, <1>7, OpeningStaysCurrent
  <1>8. ASSUME NEW p \in Procs,
               \/ CommitSync(p)
               \/ \E discard \in BOOLEAN : CommitRebuild(p, discard)
               \/ \E text \in Texts \cup {NoText} : CommitImport(p, text)
               \/ \E u \in Verified, text \in Texts : AddSuppliedSnapshot(p, u, text)
        PROVE  CurrentTables(v)' /\ CopiesUnder(v)'
    BY <1>1, <1>8, WritingStaysCurrent
  <1> QED  BY <1>4, <1>5, <1>6, <1>7, <1>8 DEF Next

\* Processes of one program read a branch only when all its deliveries were extracted
\* under that program's contract, whichever scopes are rebuilt, migrated or copied and
\* in whichever order (open_read_only, stamp_rebuilt_scope, copy_previous_schema_once,
\* migrate_credentialed_scopes), for any number of branches and processes.
THEOREM ReadersSeeTheirContract ==
    ASSUME NEW CONSTANT v, OneProgram(v)
    PROVE  Spec => []ReadableIsCurrent
  <1> DEFINE Both == CoverInv /\ ContractInv(v)
  <1>1. Init => Both
    BY CoverInvInit, ContractInit
  <1>2. Both /\ [Next]_vars => Both'
    BY CoverInvStep, ContractStep
  <1>3. Both => ReadableIsCurrent
    BY DEF ContractInv, ReadableIsCurrent, MayRead, RowsUnder, OneProgram, Keys
  <1> HIDE DEF Both
  <1> QED  BY <1>1, <1>2, <1>3, PTL DEF Spec
=============================================================================
