-------------------------- MODULE GraphSyncProofs --------------------------
(* Proofs about GraphSync for every set of files, contents and names.       *)
EXTENDS GraphSync, TLAPS

\* The part of the invariant that says how rows and the run's working state
\* are formed.
Shape == TypeOK /\ RowShape /\ RunShape /\ ExtractionShape

LEMMA ResolveFileNames ==
    ASSUME NEW c \in Contents, NEW b
    PROVE  {r[1] : r \in ResolveFile(c, b)} = Uses[c]
  <1>1. \A n \in Uses[c] : <<n, Candidates(n, b)>> \in ResolveFile(c, b)
    BY DEF ResolveFile
  <1>2. \A r \in ResolveFile(c, b) : r[1] \in Uses[c]
    BY DEF ResolveFile
  <1>3. ASSUME NEW n \in Uses[c]
        PROVE  n \in {r[1] : r \in ResolveFile(c, b)}
    <2>1. <<n, Candidates(n, b)>>[1] = n
      OBVIOUS
    <2> QED  BY <1>1, <2>1
  <1> QED  BY <1>2, <1>3

LEMMA ReresolveStoredNames ==
    ASSUME NEW rs \in SUBSET (Names \X SUBSET Files), NEW ns, NEW b
    PROVE  {r[1] : r \in ReresolveStored(rs, ns, b)} = {r[1] : r \in rs}
  <1> DEFINE New(r) == <<r[1], IF r[1] \in ns THEN Candidates(r[1], b) ELSE r[2]>>
  <1>1. ReresolveStored(rs, ns, b) = {New(r) : r \in rs}
    BY DEF ReresolveStored
  <1>2. \A r \in rs : New(r)[1] = r[1]
    OBVIOUS
  <1> HIDE DEF New
  <1> QED  BY <1>1, <1>2
LEMMA CandidatesType ==
    ASSUME NEW n, NEW b
    PROVE  Candidates(n, b) \in SUBSET Files
  BY DEF Candidates, Direct

LEMMA ResolveFileType ==
    ASSUME NEW c \in Contents, NEW b
    PROVE  ResolveFile(c, b) \in SUBSET (Names \X SUBSET Files)
  BY CandidatesType, TablesAssumption DEF ResolveFile

LEMMA ReresolveStoredType ==
    ASSUME NEW rs \in SUBSET (Names \X SUBSET Files), NEW ns, NEW b
    PROVE  ReresolveStored(rs, ns, b) \in SUBSET (Names \X SUBSET Files)
  BY CandidatesType, SMT DEF ReresolveStored

LEMMA ShapeInit == Init => Shape
  <1> SUFFICES ASSUME Init PROVE Shape
    OBVIOUS
  <1> USE NamesAssumption, TablesAssumption
       DEF Init, Content, PendingMtime, NoLen, NoMtime
  <1>1. pending \in BOOLEAN /\ all \in BOOLEAN
    BY Zenon
  <1>2. TypeOK
    BY <1>1 DEF TypeOK
  <1>3. RowShape /\ RunShape /\ ExtractionShape
    BY DEF RowShape, RunShape, ExtractionShape, LenOf
  <1> QED  BY <1>2, <1>3 DEF Shape

\* A run that ends leaves the database as it is.
LEMMA ForgetRunShape ==
    ASSUME Shape, ForgetRun, UNCHANGED <<worktree, database>>
    PROVE  Shape'
  <1> USE NamesAssumption, TablesAssumption
       DEF Shape, ForgetRun, Content, PendingMtime, NoLen, NoMtime, worktree,
           database
  <1>1. all' \in BOOLEAN
    BY Zenon
  <1>2. TypeOK'
    BY <1>1 DEF TypeOK
  <1>3. RowShape' /\ RunShape' /\ ExtractionShape'
    BY DEF TypeOK, RowShape, RunShape, ExtractionShape, LenOf
  <1> QED  BY <1>2, <1>3

LEMMA ShapeStep == Shape /\ [Next]_vars => Shape'
  <1> SUFFICES ASSUME Shape, [Next]_vars PROVE Shape'
    OBVIOUS
  <1> USE NamesAssumption, TablesAssumption
       DEF Shape, Content, PendingMtime, NoLen, NoMtime, worktree, database, run,
           diff, history
  <1>1. ASSUME NEW f \in Files, NEW c \in Content, NEW t \in 1 .. clock + 1, Edit(f, c, t)
        PROVE  Shape'
    <2>0. c # Absent => had' = [had EXCEPT ![f] = @ \cup {<<t, c>>}] /\ <<t, c>> \in Nat \X Contents
      BY <1>1 DEF Edit, TypeOK
    <2>1. TypeOK'
      <3>1. had' \in [Files -> SUBSET (Nat \X Contents)]
        BY <1>1, <2>0 DEF Edit, TypeOK
      <3> QED  BY <1>1, <3>1 DEF Edit, TypeOK
    <2>2. RowShape'
      BY <1>1 DEF Edit, TypeOK, RowShape, RunShape, ExtractionShape, LenOf
    <2>3. RunShape'
      BY <1>1 DEF Edit, TypeOK, RowShape, RunShape, ExtractionShape
    <2>4. ExtractionShape'
      BY <1>1 DEF Edit, TypeOK, RowShape, RunShape, ExtractionShape
    <2> QED  BY <2>1, <2>2, <2>3, <2>4
  <1>2. ASSUME NEW m \in {"auto", "full"}, NEW unread \in SUBSET Files, StartScan(m, unread)
        PROVE  Shape'
    <2>0. phase' \in {"idle", "scan", "pass1", "done"}
      BY <1>2 DEF StartScan
    <2>1. TypeOK'
      BY <1>2, <2>0 DEF StartScan, TypeOK, RunShape, LenOf, MissingRows
    <2>2. RowShape'
      BY <1>2 DEF StartScan, TypeOK, RowShape, RunShape, ExtractionShape, LenOf
    <2>3. RunShape'
      BY <1>2 DEF StartScan, TypeOK, RowShape, RunShape, ExtractionShape, MissingRows
    <2>4. ExtractionShape'
      BY <1>2 DEF StartScan, TypeOK, RowShape, RunShape, ExtractionShape
    <2> QED  BY <2>1, <2>2, <2>3, <2>4
  <1>3. ASSUME NEW f \in Files, ScanUnread(f)
        PROVE  Shape'
    <2>1. TypeOK'
      BY <1>3 DEF ScanUnread, TypeOK, RowShape, RunShape, ExtractionShape
    <2>2. RowShape'
      BY <1>3 DEF ScanUnread, TypeOK, RowShape, RunShape, ExtractionShape, LenOf
    <2>3. RunShape'
      BY <1>3 DEF ScanUnread, TypeOK, RowShape, RunShape, ExtractionShape
    <2>4. ExtractionShape'
      BY <1>3 DEF ScanUnread, TypeOK, RowShape, RunShape, ExtractionShape
    <2> QED  BY <2>1, <2>2, <2>3, <2>4
  <1>4. ASSUME NEW f \in Files, ScanHash(f)
        PROVE  Shape'
    <2>1. TypeOK'
      BY <1>4 DEF ScanHash, TypeOK, RowShape, RunShape, ExtractionShape
    <2>2. RowShape'
      BY <1>4 DEF ScanHash, TypeOK, RowShape, RunShape, ExtractionShape, SameContent, LenOf
    <2>3. RunShape'
      BY <1>4 DEF ScanHash, TypeOK, RowShape, RunShape, ExtractionShape
    <2>4. ExtractionShape'
      BY <1>4 DEF ScanHash, TypeOK, RowShape, RunShape, ExtractionShape
    <2> QED  BY <2>1, <2>2, <2>3, <2>4
  <1>5. ASSUME NEW f \in Files, ScanFails(f)
        PROVE  Shape'
    <2>1. TypeOK'
      BY <1>5 DEF ScanFails, TypeOK, RowShape, RunShape, ExtractionShape
    <2>2. RowShape'
      BY <1>5 DEF ScanFails, TypeOK, RowShape, RunShape, ExtractionShape, LenOf
    <2>3. RunShape'
      BY <1>5 DEF ScanFails, TypeOK, RowShape, RunShape, ExtractionShape
    <2>4. ExtractionShape'
      BY <1>5 DEF ScanFails, TypeOK, RowShape, RunShape, ExtractionShape
    <2> QED  BY <2>1, <2>2, <2>3, <2>4
  <1>6. CASE NothingToWrite
    <2>1. TypeOK'
      BY <1>6 DEF NothingToWrite, TypeOK, RowShape, RunShape, ExtractionShape
    <2>2. RowShape'
      BY <1>6 DEF NothingToWrite, TypeOK, RowShape, RunShape, ExtractionShape, LenOf
    <2>3. RunShape'
      BY <1>6 DEF NothingToWrite, TypeOK, RowShape, RunShape, ExtractionShape
    <2>4. ExtractionShape'
      BY <1>6 DEF NothingToWrite, TypeOK, RowShape, RunShape, ExtractionShape
    <2> QED  BY <2>1, <2>2, <2>3, <2>4
  <1>7. CASE BeginWrite
    <2>0. all' \in BOOLEAN /\ pending' \in BOOLEAN
      BY <1>7, Zenon DEF BeginWrite, ReresolveAll, TypeOK
    <2>1. TypeOK'
      BY <1>7, <2>0 DEF BeginWrite, TypeOK
    <2>2. RowShape'
      BY <1>7 DEF BeginWrite, TypeOK, RowShape, RunShape, ExtractionShape, LenOf
    <2>3. RunShape'
      BY <1>7 DEF BeginWrite, TypeOK, RowShape, RunShape, ExtractionShape
    <2>4. ExtractionShape'
      BY <1>7 DEF BeginWrite, TypeOK, RowShape, RunShape, ExtractionShape
    <2> QED  BY <2>1, <2>2, <2>3, <2>4
  <1>8. ASSUME NEW f \in Files, DeleteFile(f)
        PROVE  Shape'
    <2>1. TypeOK'
      BY <1>8 DEF DeleteFile, TypeOK, RowShape, RunShape, ExtractionShape
    <2>2. RowShape'
      BY <1>8 DEF DeleteFile, TypeOK, RowShape, RunShape, ExtractionShape, LenOf
    <2>3. RunShape'
      BY <1>8 DEF DeleteFile, TypeOK, RowShape, RunShape, ExtractionShape
    <2>4. ExtractionShape'
      BY <1>8 DEF DeleteFile, TypeOK, RowShape, RunShape, ExtractionShape
    <2> QED  BY <2>1, <2>2, <2>3, <2>4
  <1>9. ASSUME NEW f \in Files, ReadBytes(f)
        PROVE  Shape'
    <2>1. TypeOK'
      BY <1>9 DEF ReadBytes, TypeOK, RowShape, RunShape, ExtractionShape
    <2>2. RowShape'
      BY <1>9 DEF ReadBytes, TypeOK, RowShape, RunShape, ExtractionShape, LenOf
    <2>3. RunShape'
      BY <1>9 DEF ReadBytes, TypeOK, RowShape, RunShape, ExtractionShape
    <2>4. ExtractionShape'
      BY <1>9 DEF ReadBytes, TypeOK, RowShape, RunShape, ExtractionShape
    <2> QED  BY <2>1, <2>2, <2>3, <2>4
  <1>10. ASSUME NEW f \in Files, ReadMtime(f)
        PROVE  Shape'
    <2>1. TypeOK'
      BY <1>10 DEF ReadMtime, TypeOK, RowShape, RunShape, ExtractionShape
    <2>2. RowShape'
      BY <1>10 DEF ReadMtime, TypeOK, RowShape, RunShape, ExtractionShape, LenOf
    <2>3. RunShape'
      BY <1>10 DEF ReadMtime, TypeOK, RowShape, RunShape, ExtractionShape
    <2>4. ExtractionShape'
      BY <1>10 DEF ReadMtime, TypeOK, RowShape, RunShape, ExtractionShape
    <2> QED  BY <2>1, <2>2, <2>3, <2>4
  <1>11. ASSUME NEW f \in Files, ExtractFails(f)
        PROVE  Shape'
    <2>1. TypeOK'
      BY <1>11 DEF ExtractFails, TypeOK, RowShape, RunShape, ExtractionShape
    <2>2. RowShape'
      BY <1>11 DEF ExtractFails, TypeOK, RowShape, RunShape, ExtractionShape, LenOf
    <2>3. RunShape'
      BY <1>11 DEF ExtractFails, TypeOK, RowShape, RunShape, ExtractionShape
    <2>4. ExtractionShape'
      BY <1>11 DEF ExtractFails, TypeOK, RowShape, RunShape, ExtractionShape
    <2> QED  BY <2>1, <2>2, <2>3, <2>4
  <1>12. ASSUME NEW f \in Files, WriteFile(f)
        PROVE  Shape'
    <2>1. TypeOK'
      BY <1>12 DEF WriteFile, RowHash, RowStamp, TypeOK, RowShape, RunShape, ExtractionShape
    <2>2. RowShape'
      BY <1>12 DEF WriteFile, RowHash, RowStamp, TypeOK, RowShape, RunShape, ExtractionShape, LenOf
    <2>3. RunShape'
      BY <1>12 DEF WriteFile, RowHash, RowStamp, TypeOK, RowShape, RunShape, ExtractionShape
    <2>4. ExtractionShape'
      BY <1>12 DEF WriteFile, RowHash, RowStamp, TypeOK, RowShape, RunShape, ExtractionShape
    <2> QED  BY <2>1, <2>2, <2>3, <2>4
  <1>13. CASE Cancel
    BY <1>13, ForgetRunShape DEF Cancel
  <1>14. CASE Pass2
    <2>a. \A f \in written : got[f] \in Contents /\ gotTime[f] \in Nat
      BY <1>14 DEF Pass2, TypeOK, RowShape, RunShape, ExtractionShape
    <2>b. \A f \in Files : refs'[f] \in SUBSET (Names \X SUBSET Files)
      BY <1>14, <2>a, ResolveFileType, ReresolveStoredType DEF Pass2, TypeOK
    <2>c. hash' \in [Files -> Content \cup {Pending}] /\ stamp' \in [Files -> Nat]
      BY <1>14, <2>a DEF Pass2, TypeOK
    <2>d. refs' \in [Files -> SUBSET (Names \X SUBSET Files)]
      BY <1>14, <2>b DEF Pass2
    <2>e. pending' \in BOOLEAN
      BY <1>14, Zenon DEF Pass2
    <2>1. TypeOK'
      BY <1>14, <2>c, <2>d, <2>e DEF Pass2, TypeOK
    <2>f. \A f \in written : {r[1] : r \in refs'[f]} = Uses[got[f]]
      BY <1>14, <2>a, ResolveFileNames DEF Pass2, TypeOK
    <2>g. \A f \in Files \ written : {r[1] : r \in refs'[f]} = {r[1] : r \in refs[f]}
      BY <1>14, ReresolveStoredNames DEF Pass2, TypeOK
    <2>h. \A f \in Files \ written : refs[f] = {} => refs'[f] = {}
      BY <1>14 DEF Pass2, ReresolveStored
    <2>2. RowShape'
      <3> SUFFICES ASSUME NEW f \in Files
                   PROVE  /\ body'[f] = Absent <=> hash'[f] = Absent
                          /\ hash'[f] = Pending => stamp'[f] = PendingMtime
                          /\ hash'[f] \in Contents => body'[f] = hash'[f]
                          /\ hash'[f] \in Contents => {r[1] : r \in refs'[f]} = Uses[hash'[f]]
                          /\ hash'[f] \notin Contents => refs'[f] = {}
                          /\ size'[f] = LenOf(body'[f])
        BY DEF RowShape
      <3>1. CASE f \in written
        <4>1. body'[f] = got[f] /\ hash'[f] = got[f]
          BY <1>14, <3>1 DEF Pass2, ExtractionShape
        <4>2. size'[f] = LenOf(body'[f])
          BY <1>14 DEF Pass2, RowShape
        <4> QED  BY <4>1, <4>2, <3>1, <2>a, <2>f
      <3>2. CASE f \notin written
        <4>1. body'[f] = body[f] /\ hash'[f] = hash[f] /\ stamp'[f] = stamp[f]
                 /\ size'[f] = size[f]
          BY <1>14, <3>2 DEF Pass2
        <4> QED  BY <4>1, <3>2, <2>g, <2>h DEF RowShape
      <3> QED  BY <3>1, <3>2
    <2>3. RunShape'
      BY <1>14 DEF Pass2, TypeOK, RowShape, RunShape, ExtractionShape
    <2>4. ExtractionShape'
      BY <1>14 DEF Pass2, TypeOK, RowShape, RunShape, ExtractionShape
    <2> QED  BY <2>1, <2>2, <2>3, <2>4
  <1>15. CASE Finish
    BY <1>15, ForgetRunShape DEF Finish
  <1>16. CASE Abort
    BY <1>16, ForgetRunShape DEF Abort
  <1>17. CASE UNCHANGED vars
    BY <1>17 DEF vars, TypeOK, RowShape, RunShape, ExtractionShape, LenOf
  <1> QED
    BY <1>1, <1>2, <1>3, <1>4, <1>5, <1>6, <1>7, <1>8, <1>9, <1>10, <1>11, <1>12, <1>13, <1>14, <1>15, <1>16, <1>17 DEF Next
\* Every variable keeps a value of its kind through every run.
THEOREM TypeCorrect == Spec => []TypeOK
  <1>1. Init => Shape
    BY ShapeInit
  <1>2. Shape /\ [Next]_vars => Shape'
    BY ShapeStep
  <1>3. Shape => TypeOK
    BY DEF Shape
  <1> QED  BY <1>1, <1>2, <1>3, PTL DEF Spec

\* A row that carries a content hash holds the symbols and refs of exactly that
\* content, after any number of failed, cancelled and killed runs.
THEOREM RowsAreWhole == Spec => []CurrentRowsAreWhole
  <1>1. Init => Shape
    BY ShapeInit
  <1>2. Shape /\ [Next]_vars => Shape'
    BY ShapeStep
  <1>3. Shape => CurrentRowsAreWhole
    BY DEF Shape, RowShape, CurrentRowsAreWhole
  <1> QED  BY <1>1, <1>2, <1>3, PTL DEF Spec

-----------------------------------------------------------------------------
(* Refs match a full rebuild.                                               *)

\* Every public re-export exposes a symbol under its own name.
RenamingFree == \A c \in Contents : \A p \in Aliases[c] : p[1] = p[2]

LEMMA ViaItself ==
    ASSUME RenamingFree, NEW n \in Names, NEW b \in [Files -> Content]
    PROVE  Via(n, b) = {n}
  <1>1. ReexportClosed({n}, b)
    BY DEF ReexportClosed, RenamingFree, AliasesOf, Content
  <1> QED  BY <1>1 DEF Via

LEMMA UntouchedNames ==
    ASSUME RenamingFree, TypeOK, NEW n \in Names, n \notin ChangedNames
    PROVE  Candidates(n, Base) = Candidates(n, body)
  <1>1. Base \in [Files -> Content] /\ body \in [Files -> Content]
    BY DEF TypeOK, Base
  <1>2. \A g \in Files : n \in DefinesOf(Base[g]) <=> n \in DefinesOf(body[g])
    BY DEF ChangedNames, Touched, Base
  <1>3. Direct(n, Base) = Direct(n, body)
    BY <1>2 DEF Direct
  <1>4. Via(n, Base) = {n} /\ Via(n, body) = {n}
    BY <1>1, ViaItself
  <1> QED  BY <1>3, <1>4 DEF Candidates

\* Refreshing every name of rs resolves it anew.
LEMMA RefreshAll ==
    ASSUME NEW rs \in SUBSET (Names \X SUBSET Files), NEW c \in Contents, NEW b,
           NEW ns, Uses[c] \subseteq ns, {r[1] : r \in rs} = Uses[c]
    PROVE  ReresolveStored(rs, ns, b) = ResolveFile(c, b)
  <1>1. \A r \in rs : r[1] \in Uses[c]
    OBVIOUS
  <1>2. \A n \in Uses[c] : \E r \in rs : r[1] = n
    OBVIOUS
  <1>3. ReresolveStored(rs, ns, b) = {<<r[1], Candidates(r[1], b)>> : r \in rs}
    BY <1>1 DEF ReresolveStored
  <1> QED  BY <1>1, <1>2, <1>3 DEF ResolveFile

\* Refreshing the names whose candidates differ is as good.
LEMMA RefreshSome ==
    ASSUME NEW c \in Contents, NEW b, NEW old, NEW ns,
           \A n \in Uses[c] : n \notin ns => Candidates(n, old) = Candidates(n, b)
    PROVE  ReresolveStored(ResolveFile(c, old), ns, b) = ResolveFile(c, b)
  <1> DEFINE R == {<<n, Candidates(n, old)>> : n \in Uses[c]}
             New(r) == <<r[1], IF r[1] \in ns THEN Candidates(r[1], b) ELSE r[2]>>
  <1>1. ReresolveStored(ResolveFile(c, old), ns, b) = {New(r) : r \in R}
    BY DEF ReresolveStored, ResolveFile
  <1>2. \A n \in Uses[c] : New(<<n, Candidates(n, old)>>) = <<n, Candidates(n, b)>>
    OBVIOUS
  <1> HIDE DEF New
  <1> QED  BY ZenonT(40), <1>1, <1>2 DEF ResolveFile

\* Steps that leave the stored rows alone.
LEMMA RefsFrame ==
    ASSUME RefsInv, UNCHANGED <<body, hash, refs, pending>>,
           phase' = "pass1" => /\ phase = "pass1"
                               /\ UNCHANGED <<before, written, all>>
                               /\ chg' \subseteq chg
                               /\ deleted' \subseteq deleted
    PROVE  RefsInv'
  <1>1. RefsMatchFullRebuild'
    BY DEF RefsInv, RefsMatchFullRebuild, ResolveFile
  <1>2. phase' = "pass1" => Base' = Base
    BY DEF Base
  <1>3. (phase = "pass1" /\ ~all => \A f \in chg \cup deleted : before[f] = body[f])'
    BY DEF RefsInv
  <1>4. (phase = "pass1" /\ ~all => \A f \in Files : hash[f] \in Contents =>
            refs[f] = ResolveFile(body[f], Base))'
    BY <1>2 DEF RefsInv, ResolveFile
  <1> QED  BY <1>1, <1>3, <1>4 DEF RefsInv

LEMMA RefsStep ==
    ASSUME RenamingFree, Shape, RefsInv, [Next]_vars
    PROVE  RefsInv'
  <1> USE NamesAssumption, TablesAssumption
       DEF Shape, Content, worktree, database, run, diff, history
  <1>1. ASSUME NEW f \in Files, NEW c \in Content, NEW t \in 1 .. clock + 1, Edit(f, c, t)
        PROVE  RefsInv'
    BY <1>1, RefsFrame DEF Edit
  <1>2. ASSUME NEW m \in {"auto", "full"}, NEW unread \in SUBSET Files, StartScan(m, unread)
        PROVE  RefsInv'
    BY <1>2, RefsFrame DEF StartScan
  <1>3. ASSUME NEW f \in Files, ScanUnread(f)
        PROVE  RefsInv'
    BY <1>3, RefsFrame DEF ScanUnread
  <1>4. ASSUME NEW f \in Files, ScanHash(f)
        PROVE  RefsInv'
    BY <1>4, RefsFrame DEF ScanHash
  <1>5. ASSUME NEW f \in Files, ScanFails(f)
        PROVE  RefsInv'
    BY <1>5, RefsFrame DEF ScanFails
  <1>6. CASE NothingToWrite
    BY <1>6, RefsFrame DEF NothingToWrite
  <1>7. CASE BeginWrite
    <2>1. RefsMatchFullRebuild'
      BY <1>7 DEF BeginWrite, RefsMatchFullRebuild
    <2>2. (phase = "pass1" /\ ~all => \A f \in chg \cup deleted : before[f] = body[f])'
      BY <1>7 DEF BeginWrite, TypeOK
    <2>3. ~all' => Base' = body
      BY <1>7 DEF BeginWrite, Base, TypeOK, RunShape
    <2>4. ~all' => \A f \in Files : hash[f] \in Contents =>
                     refs[f] = ResolveFile(body[f], body)
      BY <1>7 DEF BeginWrite, ReresolveAll, RefsInv, RefsMatchFullRebuild
    <2>5. (phase = "pass1" /\ ~all => \A f \in Files : hash[f] \in Contents =>
              refs[f] = ResolveFile(body[f], Base))'
      BY <1>7, <2>3, <2>4 DEF BeginWrite, ResolveFile
    <2> QED  BY <2>1, <2>2, <2>5 DEF RefsInv
  <1>8. ASSUME NEW f \in Files, DeleteFile(f)
        PROVE  RefsInv'
    <2>1. RefsMatchFullRebuild'
      BY <1>8 DEF DeleteFile, RunShape, RefsMatchFullRebuild
    <2>2. (phase = "pass1" /\ ~all => \A g \in chg \cup deleted : before[g] = body[g])'
      BY <1>8 DEF DeleteFile, RefsInv, TypeOK, RunShape
    <2>3. ~all => Base' = Base
      BY <1>8 DEF DeleteFile, Base, RefsInv, TypeOK, RunShape
    <2>4. (phase = "pass1" /\ ~all => \A g \in Files : hash[g] \in Contents =>
              refs[g] = ResolveFile(body[g], Base))'
      BY <1>8, <2>3 DEF DeleteFile, RefsInv, ResolveFile, TypeOK
    <2> QED  BY <2>1, <2>2, <2>4 DEF RefsInv
  <1>9. ASSUME NEW f \in Files, ReadBytes(f)
        PROVE  RefsInv'
    BY <1>9, RefsFrame DEF ReadBytes
  <1>10. ASSUME NEW f \in Files, ReadMtime(f)
        PROVE  RefsInv'
    BY <1>10, RefsFrame DEF ReadMtime
  <1>11. ASSUME NEW f \in Files, ExtractFails(f)
        PROVE  RefsInv'
    BY <1>11, RefsFrame DEF ExtractFails
  <1>12. ASSUME NEW f \in Files, WriteFile(f)
        PROVE  RefsInv'
    <2>1. RefsMatchFullRebuild'
      BY <1>12 DEF WriteFile, RunShape, RefsMatchFullRebuild
    <2>2. (phase = "pass1" /\ ~all => \A g \in chg \cup deleted : before[g] = body[g])'
      BY <1>12 DEF WriteFile, RefsInv, TypeOK, RunShape
    <2>3. ~all => Base' = Base
      BY <1>12 DEF WriteFile, Base, RefsInv, TypeOK, RunShape
    <2>4. (phase = "pass1" /\ ~all => \A g \in Files : hash[g] \in Contents =>
              refs[g] = ResolveFile(body[g], Base))'
      BY <1>12, <2>3 DEF WriteFile, RefsInv, ResolveFile, TypeOK, RowHash
    <2> QED  BY <2>1, <2>2, <2>4 DEF RefsInv
  <1>13. CASE Cancel
    BY <1>13, RefsFrame DEF Cancel, ForgetRun
  <1>14. CASE Pass2
    <2>1. ASSUME NEW f \in Files, hash'[f] \in Contents
          PROVE  refs'[f] = ResolveFile(body[f], body)
      <3>1. CASE f \in written
        BY <1>14, <3>1 DEF Pass2, ExtractionShape
      <3>2. CASE f \notin written
        <4>1. /\ hash[f] \in Contents /\ body[f] = hash[f]
              /\ {r[1] : r \in refs[f]} = Uses[body[f]]
              /\ refs[f] \in SUBSET (Names \X SUBSET Files)
          BY <1>14, <2>1, <3>2 DEF Pass2, RowShape, TypeOK
        <4>2. refs'[f] = ReresolveStored(refs[f], RefreshedNames, body)
          BY <1>14, <3>2 DEF Pass2
        <4>3. CASE all \/ ReexportsChanged
          <5>1. Uses[body[f]] \subseteq RefreshedNames
            BY <4>1, <4>3 DEF RefreshedNames
          <5> QED  BY <4>1, <4>2, <5>1, RefreshAll
        <4>4. CASE ~(all \/ ReexportsChanged)
          <5>1. refs[f] = ResolveFile(body[f], Base)
            BY <1>14, <4>1, <4>4 DEF Pass2, RefsInv
          <5>2. \A n \in Uses[body[f]] :
                   n \notin RefreshedNames => Candidates(n, Base) = Candidates(n, body)
            BY <4>1, <4>4, UntouchedNames DEF RefreshedNames
          <5> QED  BY <4>1, <4>2, <5>1, <5>2, RefreshSome
        <4> QED  BY <4>3, <4>4
      <3> QED  BY <3>1, <3>2
    <2>2. RefsMatchFullRebuild'
      BY <1>14, <2>1 DEF Pass2, RefsMatchFullRebuild, ResolveFile
    <2> QED  BY <1>14, <2>2 DEF Pass2, RefsInv
  <1>15. CASE Finish
    BY <1>15, RefsFrame DEF Finish, ForgetRun
  <1>16. CASE Abort
    BY <1>16, RefsFrame DEF Abort, ForgetRun
  <1>17. CASE UNCHANGED vars
    BY <1>17, RefsFrame DEF vars
  <1> QED
    BY <1>1, <1>2, <1>3, <1>4, <1>5, <1>6, <1>7, <1>8, <1>9,
       <1>10, <1>11, <1>12, <1>13, <1>14, <1>15, <1>16, <1>17 DEF Next

\* Where re-exports keep names, every incremental sync leaves each ref as a full
\* rebuild would store it.
THEOREM RefsAreRebuilt ==
    ASSUME RenamingFree
    PROVE  Spec => []RefsMatchFullRebuild
  <1>1. Init => Shape /\ RefsInv
    BY ShapeInit, NamesAssumption DEF Init, RefsInv, RefsMatchFullRebuild
  <1>2. Shape /\ RefsInv /\ [Next]_vars => (Shape /\ RefsInv)'
    BY ShapeStep, RefsStep
  <1>3. RefsInv => RefsMatchFullRebuild
    BY DEF RefsInv
  <1> QED  BY <1>1, <1>2, <1>3, PTL DEF Spec
-----------------------------------------------------------------------------
(* The mtime fast path.                                                     *)

LEMMA TimesStep ==
    ASSUME Shape, Times, [Next]_vars
    PROVE  Times'
  <1> USE NamesAssumption, TablesAssumption
       DEF Shape, TypeOK, Times, Content, PendingMtime, NoMtime, worktree,
           database, run, diff, history
  <1>1. ASSUME NEW f \in Files, NEW c \in Content, NEW t \in 1 .. clock + 1, Edit(f, c, t)
        PROVE  Times'
    BY <1>1 DEF Edit
  <1>2. ASSUME NEW m \in {"auto", "full"}, NEW unread \in SUBSET Files, StartScan(m, unread)
        PROVE  Times'
    BY <1>2 DEF StartScan
  <1>3. ASSUME NEW f \in Files, ScanUnread(f)
        PROVE  Times'
    BY <1>3 DEF ScanUnread
  <1>4. ASSUME NEW f \in Files, ScanHash(f)
        PROVE  Times'
    BY <1>4 DEF ScanHash, RunShape
  <1>5. ASSUME NEW f \in Files, ScanFails(f)
        PROVE  Times'
    BY <1>5 DEF ScanFails
  <1>6. CASE NothingToWrite
    BY <1>6 DEF NothingToWrite
  <1>7. CASE BeginWrite
    BY <1>7 DEF BeginWrite
  <1>8. ASSUME NEW f \in Files, DeleteFile(f)
        PROVE  Times'
    BY <1>8 DEF DeleteFile
  <1>9. ASSUME NEW f \in Files, ReadBytes(f)
        PROVE  Times'
    BY <1>9 DEF ReadBytes
  <1>10. ASSUME NEW f \in Files, ReadMtime(f)
        PROVE  Times'
    BY <1>10 DEF ReadMtime
  <1>11. ASSUME NEW f \in Files, ExtractFails(f)
        PROVE  Times'
    BY <1>11 DEF ExtractFails
  <1>12. ASSUME NEW f \in Files, WriteFile(f)
        PROVE  Times'
    BY <1>12 DEF WriteFile, RowStamp
  <1>13. CASE Cancel
    BY <1>13 DEF Cancel, ForgetRun
  <1>14. CASE Pass2
    BY <1>14 DEF Pass2, ExtractionShape
  <1>15. CASE Finish
    BY <1>15 DEF Finish, ForgetRun
  <1>16. CASE Abort
    BY <1>16 DEF Abort, ForgetRun
  <1>17. CASE UNCHANGED vars
    BY <1>17 DEF vars
  <1> QED
    BY <1>1, <1>2, <1>3, <1>4, <1>5, <1>6, <1>7, <1>8, <1>9,
       <1>10, <1>11, <1>12, <1>13, <1>14, <1>15, <1>16, <1>17 DEF Next

LEMMA FastStep ==
    ASSUME Shape, Times, FastInv, [Next]_vars
    PROVE  FastInv'
  <1> USE NamesAssumption, TablesAssumption
       DEF Shape, TypeOK, Content, PendingMtime, NoMtime, worktree, database,
           run, diff, history, FastInv
  <1>1. ASSUME NEW f \in Files, NEW c \in Content, NEW t \in 1 .. clock + 1, Edit(f, c, t)
        PROVE  FastInv'
    BY <1>1 DEF Edit, Times
  <1>2. ASSUME NEW m \in {"auto", "full"}, NEW unread \in SUBSET Files, StartScan(m, unread)
        PROVE  FastInv'
    BY <1>2 DEF StartScan, RunShape
  <1>3. ASSUME NEW f \in Files, ScanUnread(f)
        PROVE  FastInv'
    BY <1>3 DEF ScanUnread
  <1>4. ASSUME NEW f \in Files, ScanHash(f)
        PROVE  FastInv'
    BY <1>4 DEF ScanHash, SameContent, RunShape, RowShape
  <1>5. ASSUME NEW f \in Files, ScanFails(f)
        PROVE  FastInv'
    BY <1>5 DEF ScanFails
  <1>6. CASE NothingToWrite
    BY <1>6 DEF NothingToWrite
  <1>7. CASE BeginWrite
    BY <1>7 DEF BeginWrite, RunShape
  <1>8. ASSUME NEW f \in Files, DeleteFile(f)
        PROVE  FastInv'
    BY <1>8 DEF DeleteFile, RunShape
  <1>9. ASSUME NEW f \in Files, ReadBytes(f)
        PROVE  FastInv'
    BY <1>9 DEF ReadBytes, ExtractionShape
  <1>10. ASSUME NEW f \in Files, ReadMtime(f)
        PROVE  FastInv'
    <2>1. /\ f \notin written
          /\ gotTime' = [gotTime EXCEPT ![f] = mtime[f]]
          /\ got[f] # Absent /\ gotTime[f] = NoMtime
          /\ UNCHANGED <<disk, mtime, hash, stamp, phase, statTime, statLen, chg,
                         got, written, had, edited, hit, raced>>
      BY <1>10 DEF ReadMtime, RunShape
    <2>2. f \in chg \ hit => got[f] = disk[f] /\ disk[f] # Absent
      BY <1>10 DEF ReadMtime
    <2>3. \A g \in chg' \ hit' :
             got'[g] # Absent => IF gotTime'[g] = NoMtime THEN got'[g] = disk'[g]
                                 ELSE <<gotTime'[g], got'[g]>> \in had'[g]
      <3> SUFFICES ASSUME NEW g \in chg \ hit, got[g] # Absent
                   PROVE  IF gotTime'[g] = NoMtime THEN got[g] = disk[g]
                          ELSE <<gotTime'[g], got[g]>> \in had[g]
        BY <2>1
      <3>1. CASE g = f
        BY <2>1, <2>2, <3>1
      <3>2. CASE g # f
        <4>1. gotTime'[g] = gotTime[g]
          BY <2>1, <3>2
        <4> QED  BY <4>1
      <3> QED  BY <3>1, <3>2
    <2>4. phase' = "pass1" =>
             \A g \in written' \ raced' : <<gotTime'[g], got'[g]>> \in had'[g]
      BY <2>1
    <2> QED  BY <2>1, <2>3, <2>4 DEF LenOf
  <1>11. ASSUME NEW f \in Files, ExtractFails(f)
        PROVE  FastInv'
    BY <1>11 DEF ExtractFails, RunShape
  <1>12. ASSUME NEW f \in Files, WriteFile(f)
        PROVE  FastInv'
    BY <1>12 DEF WriteFile, RowHash, ExtractionShape
  <1>13. CASE Cancel
    BY <1>13 DEF Cancel, ForgetRun
  <1>14. CASE Pass2
    BY <1>14 DEF Pass2, ExtractionShape
  <1>15. CASE Finish
    BY <1>15 DEF Finish, ForgetRun
  <1>16. CASE Abort
    BY <1>16 DEF Abort, ForgetRun
  <1>17. CASE UNCHANGED vars
    BY <1>17 DEF vars
  <1> QED
    BY <1>1, <1>2, <1>3, <1>4, <1>5, <1>6, <1>7, <1>8, <1>9,
       <1>10, <1>11, <1>12, <1>13, <1>14, <1>15, <1>16, <1>17 DEF Next

\* The inductive invariant of the scanner's fast path.
FastSafe == Shape /\ Times /\ FastInv

LEMMA FastSafeInit == Init => FastSafe
  <1>1. Init => Shape
    BY ShapeInit
  <1>2. Init => Times /\ FastInv
    BY NamesAssumption DEF Init, Times, FastInv, PendingMtime, NoMtime
  <1> QED  BY <1>1, <1>2 DEF FastSafe

LEMMA FastSafeStep == FastSafe /\ [Next]_vars => FastSafe'
  BY ShapeStep, TimesStep, FastStep DEF FastSafe

LEMMA FastSound == FastSafe => FastPathSound
  <1> SUFFICES ASSUME FastSafe, NEW f \in Files \ raced, hash[f] \in Contents, stamp[f] = mtime[f],
                      size[f] = LenOf(disk[f]), ~Disguised(f)
               PROVE  hash[f] = disk[f]
    BY DEF FastPathSound
  <1>1. <<mtime[f], hash[f]>> \in had[f]
    BY DEF FastSafe, FastInv
  <1>2. size[f] = ByteLen[hash[f]] /\ size[f] \in Nat
    BY NamesAssumption, TablesAssumption DEF FastSafe, Shape, RowShape, LenOf
  <1>3. disk[f] # Absent /\ size[f] = ByteLen[disk[f]]
    BY <1>2 DEF LenOf, NoLen
  <1> QED  BY <1>1, <1>2, <1>3 DEF Disguised

\* A current row with the mtime and length of the file on disk has its content:
\* for every file but those whose mtime was kept while its bytes were replaced by
\* as many others, and those whose row was read around an edit.
THEOREM FastPathIsSound == Spec => []FastPathSound
  <1> QED  BY FastSafeInit, FastSafeStep, FastSound, PTL DEF Spec
-----------------------------------------------------------------------------
(* What a run that completes has done.                                      *)

LEMMA PromiseStep ==
    ASSUME EpochFiles = {}, FastSafe, PromiseInv, [Next]_vars
    PROVE  PromiseInv'
  <1> USE NamesAssumption, TablesAssumption
       DEF FastSafe, Shape, TypeOK, Content, PendingMtime, NoMtime, worktree,
           database, run, diff, history, PromiseInv
  <1>a. UNCHANGED <<worktree, had, raced, mode>> => Mistaken' = Mistaken
    BY DEF Mistaken, Disguised
  <1>b. ASSUME NEW g \in Files, UNCHANGED <<worktree, had, mode>>, g \in raced' <=> g \in raced
        PROVE  g \in Mistaken' <=> g \in Mistaken
    BY <1>b DEF Mistaken, Disguised
  <1>1. ASSUME NEW f \in Files, NEW c \in Content, NEW t \in 1 .. clock + 1, Edit(f, c, t)
        PROVE  PromiseInv'
    <2>1. StatInv'
      BY <1>1 DEF Edit, StatInv, Times
    <2>2. QueueInv'
      BY <1>1 DEF Edit, QueueInv
    <2>3. PendingNeverSkipped'
      BY <1>1 DEF Edit, PendingNeverSkipped
    <2>4. Accounted'
      <3>1. \A g \in Files \ {f} : g \in Mistaken' <=> g \in Mistaken
        BY <1>1 DEF Edit, Mistaken, Disguised
      <3> QED  BY <1>1, <3>1 DEF Edit, Accounted, Settled
    <2> QED  BY <2>1, <2>2, <2>3, <2>4
  <1>2. ASSUME NEW m \in {"auto", "full"}, NEW unread \in SUBSET Files, StartScan(m, unread)
        PROVE  PromiseInv'
    <2>1. StatInv'
      BY <1>2 DEF StartScan, StatInv
    <2>2. QueueInv'
      BY <1>2 DEF StartScan, QueueInv, RunShape, MissingRows
    <2>3. PendingNeverSkipped'
      BY <1>2 DEF StartScan, PendingNeverSkipped, RowShape, MissingRows
    <2>4. Accounted'
      BY <1>2 DEF StartScan, Accounted, MissingRows, Settled, RunShape
    <2> QED  BY <2>1, <2>2, <2>3, <2>4
  <1>3. ASSUME NEW f \in Files, ScanUnread(f)
        PROVE  PromiseInv'
    <2>1. StatInv'
      BY <1>3 DEF ScanUnread, StatInv
    <2>2. QueueInv'
      BY <1>3 DEF ScanUnread, QueueInv
    <2>3. PendingNeverSkipped'
      BY <1>3 DEF ScanUnread, PendingNeverSkipped, FastPath, RowShape, StatInv
    <2>4. Accounted'
      <3>1. Mistaken' = Mistaken
        BY <1>a, <1>3 DEF ScanUnread
      <3>2. ASSUME f \notin edited \cup Mistaken
            PROVE  Settled(f)
        <4>1. f \notin raced /\ ~Disguised(f)
          BY <1>3, <3>2 DEF ScanUnread, FastPath, Mistaken
        <4>2. stamp[f] = mtime[f] /\ size[f] = LenOf(disk[f]) /\ body[f] # Absent
          BY <1>3, <3>2 DEF ScanUnread, FastPath, FastInv
        <4>3. hash[f] \in Contents /\ body[f] = hash[f]
          BY <1>3, <4>2 DEF ScanUnread, RowShape, RunShape, StatInv
        <4>4. hash[f] = disk[f]
          BY <4>1, <4>2, <4>3, FastSound DEF FastPathSound
        <4>5. ~TooLong(disk[f])
          BY <1>3, <3>2 DEF ScanUnread, QueueInv
        <4> QED  BY <4>3, <4>4, <4>5 DEF Settled
      <3> QED  BY <1>3, <3>1, <3>2 DEF ScanUnread, Accounted, Settled
    <2> QED  BY <2>1, <2>2, <2>3, <2>4
  <1>4. ASSUME NEW f \in Files, ScanHash(f)
        PROVE  PromiseInv'
    <2>1. StatInv'
      BY <1>4 DEF ScanHash, StatInv
    <2>2. QueueInv'
      BY <1>4 DEF ScanHash, QueueInv
    <2>3. PendingNeverSkipped'
      BY <1>4 DEF ScanHash, PendingNeverSkipped, SameContent, RowShape
    <2>4. Accounted'
      <3>1. \A g \in Files \ {f} : g \in Mistaken' <=> g \in Mistaken
        BY <1>4, <1>b DEF ScanHash
      <3> QED  BY <1>4, <3>1 DEF ScanHash, Accounted, SameContent, RowShape, QueueInv, Settled
    <2> QED  BY <2>1, <2>2, <2>3, <2>4
  <1>5. ASSUME NEW f \in Files, ScanFails(f)
        PROVE  PromiseInv'
    <2>1. StatInv'
      BY <1>5 DEF ScanFails, StatInv
    <2>2. QueueInv'
      BY <1>5 DEF ScanFails, QueueInv
    <2>3. PendingNeverSkipped'
      BY <1>5 DEF ScanFails, PendingNeverSkipped
    <2>4. Accounted'
      BY <1>a, <1>5 DEF ScanFails, Accounted, Settled
    <2> QED  BY <2>1, <2>2, <2>3, <2>4
  <1>6. CASE NothingToWrite
    <2>1. StatInv'
      BY <1>6 DEF NothingToWrite, StatInv
    <2>2. QueueInv'
      BY <1>6 DEF NothingToWrite, QueueInv
    <2>3. PendingNeverSkipped'
      BY <1>6 DEF NothingToWrite, PendingNeverSkipped
    <2>4. Accounted'
      BY <1>a, <1>6 DEF NothingToWrite, Accounted, RunShape, Settled
    <2> QED  BY <2>1, <2>2, <2>3, <2>4
  <1>7. CASE BeginWrite
    <2>1. StatInv'
      BY <1>7 DEF BeginWrite, StatInv
    <2>2. QueueInv'
      BY <1>7 DEF BeginWrite, QueueInv
    <2>3. PendingNeverSkipped'
      BY <1>7 DEF BeginWrite, PendingNeverSkipped
    <2>4. Accounted'
      BY <1>a, <1>7 DEF BeginWrite, Accounted, RunShape, Settled
    <2> QED  BY <2>1, <2>2, <2>3, <2>4
  <1>8. ASSUME NEW f \in Files, DeleteFile(f)
        PROVE  PromiseInv'
    <2>1. StatInv'
      BY <1>8 DEF DeleteFile, StatInv
    <2>2. QueueInv'
      BY <1>8 DEF DeleteFile, QueueInv
    <2>3. PendingNeverSkipped'
      BY <1>8 DEF DeleteFile, PendingNeverSkipped
    <2>4. Accounted'
      BY <1>a, <1>8 DEF DeleteFile, Accounted, QueueInv, Settled, RunShape
    <2> QED  BY <2>1, <2>2, <2>3, <2>4
  <1>9. ASSUME NEW f \in Files, ReadBytes(f)
        PROVE  PromiseInv'
    <2>1. StatInv'
      BY <1>9 DEF ReadBytes, StatInv
    <2>2. QueueInv'
      BY <1>9 DEF ReadBytes, QueueInv
    <2>3. PendingNeverSkipped'
      BY <1>9 DEF ReadBytes, PendingNeverSkipped
    <2>4. Accounted'
      BY <1>a, <1>9 DEF ReadBytes, Accounted, Settled
    <2> QED  BY <2>1, <2>2, <2>3, <2>4
  <1>10. ASSUME NEW f \in Files, ReadMtime(f)
        PROVE  PromiseInv'
    <2>1. StatInv'
      BY <1>10 DEF ReadMtime, StatInv
    <2>2. QueueInv'
      BY <1>10 DEF ReadMtime, QueueInv
    <2>3. PendingNeverSkipped'
      BY <1>10 DEF ReadMtime, PendingNeverSkipped
    <2>4. Accounted'
      BY <1>a, <1>10 DEF ReadMtime, Accounted, Settled
    <2> QED  BY <2>1, <2>2, <2>3, <2>4
  <1>11. ASSUME NEW f \in Files, ExtractFails(f)
        PROVE  PromiseInv'
    <2>1. StatInv'
      BY <1>11 DEF ExtractFails, StatInv
    <2>2. QueueInv'
      BY <1>11 DEF ExtractFails, QueueInv
    <2>3. PendingNeverSkipped'
      BY <1>11 DEF ExtractFails, PendingNeverSkipped
    <2>4. Accounted'
      BY <1>a, <1>11 DEF ExtractFails, Accounted, Settled
    <2> QED  BY <2>1, <2>2, <2>3, <2>4
  <1>12. ASSUME NEW f \in Files, WriteFile(f)
        PROVE  PromiseInv'
    <2>1. StatInv'
      BY <1>12 DEF WriteFile, StatInv
    <2>2. QueueInv'
      BY <1>12 DEF WriteFile, QueueInv
    <2>3. PendingNeverSkipped'
      BY <1>12 DEF WriteFile, PendingNeverSkipped
    <2>4. Accounted'
      <3>1. \A g \in Files \ {f} : g \in Mistaken' <=> g \in Mistaken
        BY <1>12, <1>b DEF WriteFile
      <3> QED  BY <1>12, <3>1 DEF WriteFile, Accounted, RowHash, Settled, RunShape
    <2> QED  BY <2>1, <2>2, <2>3, <2>4
  <1>13. CASE Cancel
    BY <1>13 DEF Cancel, ForgetRun, StatInv, QueueInv, PendingNeverSkipped, Accounted
  <1>14. CASE Pass2
    <2>1. StatInv'
      BY <1>14 DEF Pass2, StatInv
    <2>2. QueueInv'
      BY <1>14 DEF Pass2, QueueInv
    <2>3. PendingNeverSkipped'
      BY <1>14 DEF Pass2, PendingNeverSkipped
    <2>4. Accounted'
      BY <1>a, <1>14 DEF Pass2, Accounted, ExtractionShape, QueueInv, Settled, RunShape
    <2> QED  BY <2>1, <2>2, <2>3, <2>4
  <1>15. CASE Finish
    BY <1>15 DEF Finish, ForgetRun, StatInv, QueueInv, PendingNeverSkipped, Accounted
  <1>16. CASE Abort
    BY <1>16 DEF Abort, ForgetRun, StatInv, QueueInv, PendingNeverSkipped, Accounted
  <1>17. CASE UNCHANGED vars
    BY <1>a, <1>17 DEF vars, StatInv, QueueInv, PendingNeverSkipped, Accounted, Settled
  <1> QED
    BY <1>1, <1>2, <1>3, <1>4, <1>5, <1>6, <1>7, <1>8, <1>9,
       <1>10, <1>11, <1>12, <1>13, <1>14, <1>15, <1>16, <1>17 DEF Next

LEMMA PromiseInit ==
    ASSUME EpochFiles = {}
    PROVE  Init => PromiseInv
  BY DEF Init, PromiseInv, StatInv, QueueInv, PendingNeverSkipped, Accounted

\* Where no file has the epoch as its mtime, a file whose rows an interrupted
\* run left pending is never passed over by a later scan.
THEOREM PendingIsNeverSkipped ==
    ASSUME EpochFiles = {}
    PROVE  Spec => []PendingNeverSkipped
  <1>1. Init => FastSafe /\ PromiseInv
    BY FastSafeInit, PromiseInit
  <1>2. FastSafe /\ PromiseInv /\ [Next]_vars => (FastSafe /\ PromiseInv)'
    BY FastSafeStep, PromiseStep
  <1>3. PromiseInv => PendingNeverSkipped
    BY DEF PromiseInv
  <1> QED  BY <1>1, <1>2, <1>3, PTL DEF Spec

\* There, a run that completes has indexed what is on disk of every file it
\* could read and nobody edited meanwhile, whatever runs came before it.
THEOREM SyncIsCurrent ==
    ASSUME EpochFiles = {}
    PROVE  Spec => []CompletedSyncIsCurrent
  <1>1. Init => FastSafe /\ PromiseInv
    BY FastSafeInit, PromiseInit
  <1>2. FastSafe /\ PromiseInv /\ [Next]_vars => (FastSafe /\ PromiseInv)'
    BY FastSafeStep, PromiseStep
  <1>3. FastSafe /\ PromiseInv => CompletedSyncIsCurrent
    BY DEF PromiseInv, Accounted, CompletedSyncIsCurrent, FastSafe, Shape, RunShape
  <1> QED  BY <1>1, <1>2, <1>3, PTL DEF Spec
=============================================================================
