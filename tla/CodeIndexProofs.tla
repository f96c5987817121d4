-------------------------- MODULE CodeIndexProofs --------------------------
(* Proofs about CodeIndex for every number of processes, readers and         *)
(* generations: first where flushing the directory after a rename does not   *)
(* fail, then (FaultInv) whatever fails.                                     *)
EXTENDS CodeIndex, TLAPS

LEMMA Numbers ==
    /\ \A g \in Generations : g[1] \in Int /\ g[2] \in Int
    /\ \A n \in 1 .. MaxExtractor : n \in Int
  BY CodeIndexAssumption DEF Generations

LEMMA StateNumbers ==
    ASSUME TypeOK
    PROVE  /\ extractor \in Int
           /\ pointer # None => pointer[1] \in Int /\ pointer[2] \in Int
  BY Numbers DEF TypeOK

\* Less than is irreflexive and a successor is larger, over the integers.
LEMMA Order ==
    \A a, b \in Int : /\ a <= a
                      /\ a > b => a # b
                      /\ a <= b => a < b + 1 /\ a <= b + 1 /\ a # b + 1
  OBVIOUS

LEMMA NextExtractor ==
    ASSUME TypeOK, extractor < MaxExtractor
    PROVE  extractor + 1 \in 1 .. MaxExtractor
  <1>1. extractor \in 1 .. MaxExtractor
    BY DEF TypeOK
  <1>2. MaxExtractor \in Int
    BY CodeIndexAssumption
  <1> QED  BY <1>1, <1>2

\* The published generation of the installed extractor is the one read gives.
LEMMA ReadyIsPointer ==
    ASSUME IndInv
    PROVE  Ready = IF Current THEN pointer ELSE None
  BY DEF IndInv, TypeOK, PublishedIsWhole, Ready, Current

\* No query has chosen a generation that is yet to be published.
LEMMA FreshUnchosen ==
    ASSUME IndInv, NEW g, Fresh(g), NEW r \in Readers
    PROVE  chosen[r] # g
  <1> SUFFICES ASSUME chosen[r] = g PROVE FALSE
    OBVIOUS
  <1>1. g \in Generations /\ g # None /\ g[1] = extractor
    BY CodeIndexAssumption DEF Fresh, Generations
  <1>2. Current /\ g[2] <= pointer[2] /\ g[2] > pointer[2]
    BY <1>1 DEF IndInv, ChosenInv, Fresh
  <1>3. g[2] \in Int /\ pointer[2] \in Int
    BY <1>1, <1>2, Numbers DEF IndInv, TypeOK, Current
  <1> QED  BY <1>2, <1>3

LEMMA InvInit == Init => IndInv
  <1> SUFFICES ASSUME Init PROVE IndInv
    OBVIOUS
  <1> USE CodeIndexAssumption DEF Init
  <1>1. TypeOK
    BY DEF TypeOK, Generations
  <1>2. PublishedIsWhole /\ ReadersNeverPartial
    BY DEF PublishedIsWhole, ReadersNeverPartial
  <1>3. LockInv /\ DoomedInv /\ FreshInv /\ ChosenInv
    BY DEF LockInv, DoomedInv, FreshInv, ChosenInv, Current, Holding, Unpublished
  <1> QED  BY <1>1, <1>2, <1>3 DEF IndInv

\* Steps that leave the directory and the published state alone keep what the
\* invariant says of them.
LEMMA PrepareInv ==
    ASSUME IndInv, NEW p \in Procs, PrepareStep(p)
    PROVE  IndInv'
  <1> USE CodeIndexAssumption DEF IndInv
  <1>1. CASE StartCall(p)
    <2> USE <1>1 DEF StartCall, directory, readers
    <2>1. TypeOK'
      BY DEF TypeOK, Superseded
    <2>2. PublishedIsWhole' /\ ReadersNeverPartial' /\ ChosenInv'
      BY DEF PublishedIsWhole, ReadersNeverPartial, ChosenInv, Current
    <2>3. LockInv' /\ FreshInv'
      BY DEF TypeOK, LockInv, FreshInv, Fresh, Current, Holding, Unpublished
    <2>4. DoomedInv'
      BY ReadyIsPointer DEF TypeOK, DoomedInv, Current, Superseded
    <2> QED  BY <2>1, <2>2, <2>3, <2>4
  <1>2. ASSUME NEW g \in Generations, RemoveSuperseded(p, g) PROVE IndInv'
    <2> USE <1>2 DEF RemoveSuperseded, readers
    <2>1. TypeOK'
      BY DEF TypeOK
    <2>2. PublishedIsWhole' /\ ReadersNeverPartial' /\ ChosenInv'
      BY DEF PublishedIsWhole, ReadersNeverPartial, ChosenInv, Current, DoomedInv
    <2>3. \A q \in Procs : build[q] \notin Holding
      BY DEF LockInv, Holding
    <2>4. LockInv' /\ FreshInv'
      BY <2>3 DEF TypeOK, LockInv, FreshInv, Fresh, Current, Holding, Unpublished
    <2>5. DoomedInv'
      BY DEF TypeOK, DoomedInv, Current
    <2> QED  BY <2>1, <2>2, <2>4, <2>5
  <1>3. CASE RecordGeneration(p)
    <2> USE <1>3 DEF RecordGeneration, readers
    <2>1. PICK g \in Generations : /\ IsNextGeneration(g)
                                   /\ gen' = [gen EXCEPT ![p] = g]
                                   /\ owned' = Record(g)
      OBVIOUS
    <2>2. Fresh(g)
      BY <2>1, ReadyIsPointer DEF Fresh, IsNextGeneration, FreeNumbers, TypeOK, Current
    <2>3. TypeOK'
      <3>1. Record(g) \subseteq Generations
        <4>1. Ready \in Generations \cup {None}
          BY ReadyIsPointer DEF TypeOK
        <4> QED  BY <4>1 DEF Record
      <3> QED  BY <2>1, <3>1 DEF TypeOK
    <2>4. PublishedIsWhole' /\ ReadersNeverPartial' /\ ChosenInv'
      BY DEF PublishedIsWhole, ReadersNeverPartial, ChosenInv, Current
    <2>5. LockInv' /\ DoomedInv'
      BY DEF TypeOK, LockInv, DoomedInv, Current, Holding
    <2>6. FreshInv'
      BY ZenonT(40), <2>1, <2>2 DEF TypeOK, LockInv, FreshInv, Fresh, Current, Holding, Unpublished
    <2> QED  BY <2>3, <2>4, <2>5, <2>6
  <1>4. CASE CreateGeneration(p)
    <2> USE <1>4 DEF CreateGeneration, readers
    <2>1. Fresh(gen[p])
      BY DEF FreshInv
    <2>2. TypeOK'
      BY <2>1 DEF TypeOK, Fresh
    <2>3. PublishedIsWhole' /\ ReadersNeverPartial'
      BY DEF PublishedIsWhole, ReadersNeverPartial, Current
    <2>4. ChosenInv'
      BY <2>1, FreshUnchosen DEF ChosenInv, Current
    <2>5. LockInv' /\ DoomedInv'
      BY DEF TypeOK, LockInv, DoomedInv, Current, Holding
    <2>6. FreshInv'
      BY ZenonT(40), <2>1 DEF TypeOK, LockInv, FreshInv, Fresh, Current, Holding, Unpublished
    <2> QED  BY <2>2, <2>3, <2>4, <2>5, <2>6
  <1>5. CASE PrepareFails(p)
    <2> USE <1>5 DEF PrepareFails, readers
    <2>1. call[p] = "recorded" => Fresh(gen[p])
      BY DEF FreshInv
    <2>2. TypeOK'
      BY <2>1 DEF TypeOK, Fresh
    <2>3. PublishedIsWhole' /\ ReadersNeverPartial'
      BY DEF PublishedIsWhole, ReadersNeverPartial, Current
    <2>4. ChosenInv'
      BY <2>1, FreshUnchosen DEF ChosenInv, Current
    <2>5. LockInv' /\ DoomedInv'
      BY ZenonT(40) DEF TypeOK, LockInv, DoomedInv, Current, Holding
    <2>6. FreshInv'
      BY DEF TypeOK, LockInv, FreshInv, Fresh, Current, Holding, Unpublished
    <2> QED  BY <2>2, <2>3, <2>4, <2>5, <2>6
  <1> QED  BY <1>1, <1>2, <1>3, <1>4, <1>5 DEF PrepareStep

LEMMA BuildInv ==
    ASSUME IndInv, DirSyncMayFail = FALSE, NEW p \in Procs, BuildStep(p)
    PROVE  IndInv'
  <1> USE CodeIndexAssumption DEF IndInv, readers
  <1>1. CASE BuildEnds(p)
    <2> USE <1>1 DEF BuildEnds, directory
    <2>1. TypeOK'
      <3>1. PICK outcome \in {"completed", "discard empty", "discard error"} :
               build' = [build EXCEPT ![p] = outcome]
        OBVIOUS
      <3> QED  BY <3>1 DEF TypeOK
    <2>2. PublishedIsWhole' /\ ReadersNeverPartial' /\ ChosenInv' /\ DoomedInv'
      BY DEF PublishedIsWhole, ReadersNeverPartial, ChosenInv, DoomedInv, Current
    <2>3. LockInv' /\ FreshInv'
      BY ZenonT(40) DEF TypeOK, LockInv, FreshInv, Fresh, Current, Holding, Unpublished
    <2> QED  BY <2>1, <2>2, <2>3
  <1>2. CASE Discards(p)
    <2> USE <1>2 DEF Discards, directory
    <2>1. TypeOK'
      BY DEF TypeOK
    <2>2. PublishedIsWhole' /\ ReadersNeverPartial' /\ ChosenInv' /\ DoomedInv'
      BY DEF PublishedIsWhole, ReadersNeverPartial, ChosenInv, DoomedInv, Current
    <2>3. LockInv' /\ FreshInv'
      BY DEF TypeOK, LockInv, FreshInv, Fresh, Current, Holding, Unpublished
    <2> QED  BY <2>1, <2>2, <2>3
  <1>3. CASE Finalize(p)
    <2> USE <1>3 DEF Finalize
    <2>1. Fresh(gen[p]) /\ gen[p] \in files
      BY DEF FreshInv, Unpublished
    <2>2. TypeOK'
      BY <2>1 DEF TypeOK
    <2>3. PublishedIsWhole' /\ ReadersNeverPartial' /\ ChosenInv' /\ DoomedInv'
      BY DEF PublishedIsWhole, ReadersNeverPartial, ChosenInv, DoomedInv, Current
    <2>4. LockInv' /\ FreshInv'
      BY DEF TypeOK, LockInv, FreshInv, Fresh, Current, Holding, Unpublished
    <2> QED  BY <2>2, <2>3, <2>4
  <1>4. CASE TakeSlot(p)
    <2> USE <1>4 DEF TakeSlot, directory
    <2>1. TypeOK'
      BY DEF TypeOK
    <2>2. PublishedIsWhole' /\ ReadersNeverPartial' /\ ChosenInv' /\ DoomedInv'
      BY DEF PublishedIsWhole, ReadersNeverPartial, ChosenInv, DoomedInv, Current
    <2>3. LockInv' /\ FreshInv'
      BY DEF LockInv, FreshInv, Fresh, Current
    <2> QED  BY <2>1, <2>2, <2>3
  <1>5. CASE RenamePointer(p)
    <2> USE <1>5 DEF RenamePointer
    <2>1. Fresh(gen[p]) /\ gen[p] \in whole
      BY DEF FreshInv, Unpublished
    <2>2. \A q \in Procs \ {p} :
             build[q] \notin Holding /\ call[q] \notin {"prepare", "recorded"}
      BY DEF LockInv, Holding
    <2>3. call[p] \notin {"prepare", "recorded"}
      BY DEF LockInv
    <2>4. TypeOK'
      BY <2>1 DEF TypeOK, Fresh
    <2>5. PublishedIsWhole' /\ ReadersNeverPartial'
      BY <2>1 DEF PublishedIsWhole, ReadersNeverPartial
    <2>6. (pointer # None => pointer[1] <= extractor)'
      <3>1. pointer' = gen[p] /\ gen[p][1] = extractor /\ extractor' = extractor
        BY <2>1 DEF Fresh
      <3> QED  BY <3>1, StateNumbers, Order
    <2>7. ChosenInv'
      <3>1. Current' /\ pointer' = gen[p]
        BY <2>1 DEF Current, Fresh, Generations
      <3>2. ASSUME NEW r \in Readers, chosen[r] # None, chosen[r][1] = extractor
            PROVE  chosen[r][2] <= gen[p][2]
        <4>1. Current /\ chosen[r][2] <= pointer[2] /\ gen[p][2] > pointer[2]
          BY <2>1, <3>2 DEF ChosenInv, Fresh
        <4>2. chosen[r][2] \in Int /\ pointer[2] \in Int /\ gen[p][2] \in Int
          BY <2>1, <3>2, <4>1, Numbers DEF TypeOK, Current, Fresh
        <4> QED  BY <4>1, <4>2
      <3> QED  BY <3>1, <3>2 DEF ChosenInv
    <2>8. LockInv'
      BY DEF TypeOK, LockInv, Holding
    <2>9. DoomedInv'
      BY <2>2, <2>3 DEF DoomedInv
    <2>10. FreshInv'
      BY <2>2, <2>3 DEF TypeOK, FreshInv, Holding, Unpublished
    <2> QED  BY <2>4, <2>5, <2>6, <2>7, <2>8, <2>9, <2>10
  <1>6. CASE PublishFails(p)
    <2> USE <1>6 DEF PublishFails, directory
    <2>1. TypeOK'
      BY DEF TypeOK
    <2>2. PublishedIsWhole' /\ ReadersNeverPartial' /\ ChosenInv' /\ DoomedInv'
      BY DEF PublishedIsWhole, ReadersNeverPartial, ChosenInv, DoomedInv, Current
    <2>3. LockInv' /\ FreshInv'
      BY DEF TypeOK, LockInv, FreshInv, Fresh, Current, Holding, Unpublished
    <2> QED  BY <2>1, <2>2, <2>3
  <1>7. CASE SyncDirectory(p)
    <2> USE <1>7 DEF SyncDirectory, directory
    <2>1. TypeOK'
      BY DEF TypeOK
    <2>2. PublishedIsWhole' /\ ReadersNeverPartial' /\ ChosenInv' /\ DoomedInv'
      BY DEF PublishedIsWhole, ReadersNeverPartial, ChosenInv, DoomedInv, Current
    <2>3. LockInv' /\ FreshInv'
      BY ZenonT(40) DEF TypeOK, LockInv, FreshInv, Fresh, Current, Holding, Unpublished
    <2> QED  BY <2>1, <2>2, <2>3
  <1>8. CASE Discard(p)
    <2> USE <1>8 DEF Discard
    <2>1. Fresh(gen[p])
      BY DEF FreshInv, Unpublished
    <2>2. Current => pointer # gen[p]
      <3> SUFFICES ASSUME Current, pointer = gen[p] PROVE FALSE
        OBVIOUS
      <3>1. gen[p][2] > gen[p][2] /\ gen[p] \in Generations
        BY <2>1 DEF Fresh
      <3> QED  BY <3>1, Numbers, Order
    <2>3. TypeOK'
      BY DEF TypeOK
    <2>4. PublishedIsWhole' /\ ReadersNeverPartial' /\ ChosenInv' /\ DoomedInv'
      BY <2>2 DEF PublishedIsWhole, ReadersNeverPartial, ChosenInv, DoomedInv, Current
    <2>5. \A q \in Procs \ {p} : build[q] \notin Holding
      BY DEF LockInv, Holding
    <2>6. LockInv' /\ FreshInv'
      BY ZenonT(40), <2>5 DEF TypeOK, LockInv, FreshInv, Fresh, Current, Holding, Unpublished
    <2> QED  BY <2>3, <2>4, <2>6
  <1>9. CASE Unlock(p)
    <2> USE <1>9 DEF Unlock, Unlocked, directory
    <2>1. Outcome(p) \in {"published", "incomplete", "error", "none"}
      BY DEF Outcome
    <2>2. TypeOK'
      BY <2>1 DEF TypeOK
    <2>3. PublishedIsWhole' /\ ReadersNeverPartial' /\ ChosenInv' /\ DoomedInv'
      BY DEF PublishedIsWhole, ReadersNeverPartial, ChosenInv, DoomedInv, Current
    <2>4. lock = p /\ call[p] \notin {"prepare", "recorded"}
      BY DEF LockInv, Holding
    <2>5. LockInv' /\ FreshInv'
      BY <2>1, <2>4 DEF TypeOK, LockInv, FreshInv, Fresh, Current, Holding, Unpublished
    <2> QED  BY <2>2, <2>3, <2>5
  <1>10. CASE SetFinished(p)
    <2> USE <1>10 DEF SetFinished, directory
    <2>1. TypeOK'
      BY DEF TypeOK
    <2>2. PublishedIsWhole' /\ ReadersNeverPartial' /\ ChosenInv' /\ DoomedInv'
      BY DEF PublishedIsWhole, ReadersNeverPartial, ChosenInv, DoomedInv, Current
    <2>3. LockInv' /\ FreshInv'
      BY DEF TypeOK, LockInv, FreshInv, Fresh, Current, Holding, Unpublished
    <2> QED  BY <2>1, <2>2, <2>3
  <1>11. CASE BuildPanics(p)
    <2> USE <1>11 DEF BuildPanics, directory
    <2>1. TypeOK'
      BY DEF TypeOK
    <2>2. PublishedIsWhole' /\ ReadersNeverPartial' /\ ChosenInv' /\ DoomedInv'
      BY DEF PublishedIsWhole, ReadersNeverPartial, ChosenInv, DoomedInv, Current
    <2>3. lock = p /\ call[p] \notin {"prepare", "recorded"}
      BY DEF LockInv, Holding
    <2>4. LockInv' /\ FreshInv'
      BY <2>3 DEF TypeOK, LockInv, FreshInv, Fresh, Current, Holding, Unpublished
    <2> QED  BY <2>1, <2>2, <2>4
  <1> QED  BY <1>1, <1>2, <1>3, <1>4, <1>5, <1>6, <1>7, <1>8, <1>9, <1>10, <1>11
           DEF BuildStep

LEMMA WaitInv ==
    ASSUME IndInv, NEW p \in Procs, WaitStep(p) \/ EndProcess(p)
    PROVE  IndInv'
  <1> USE CodeIndexAssumption DEF IndInv, readers, directory
  <1>1. CASE WaitStep(p)
    <2> USE <1>1 DEF WaitStep, GiveUp, TakeResult
    <2>1. TypeOK'
      <3>1. CASE GiveUp(p)
        BY <3>1 DEF TypeOK
      <3>2. CASE TakeResult(p)
        <4>1. slot[p] \in {"published", "incomplete", "error"}
          BY <3>2
        <4> QED  BY <3>2, <4>1 DEF TypeOK
      <3> QED  BY <3>1, <3>2
    <2>2. PublishedIsWhole' /\ ReadersNeverPartial' /\ ChosenInv'
      BY DEF PublishedIsWhole, ReadersNeverPartial, ChosenInv, Current
    <2>3. LockInv' /\ FreshInv' /\ DoomedInv'
      <3>1. call[p] = "waiting" /\ call'[p] \notin {"idle", "prepare", "recorded"}
        BY DEF TypeOK
      <3>2. \A q \in Procs \ {p} : call'[q] = call[q]
        BY DEF TypeOK
      <3>3. UNCHANGED <<extractor, files, whole, pointer, lock, build, gen, doomed>>
        OBVIOUS
      <3> QED  BY <3>1, <3>2, <3>3 DEF LockInv, FreshInv, DoomedInv, Fresh, Current
    <2> QED  BY <2>1, <2>2, <2>3
  <1>2. CASE EndProcess(p)
    <2> USE <1>2 DEF EndProcess
    <2>1. TypeOK'
      BY DEF TypeOK
    <2>2. PublishedIsWhole' /\ ReadersNeverPartial' /\ ChosenInv'
      BY DEF PublishedIsWhole, ReadersNeverPartial, ChosenInv, Current
    <2>3. \A q \in Procs \ {p} :
            /\ call'[q] = call[q] /\ build'[q] = build[q]
            /\ gen'[q] = gen[q] /\ doomed'[q] = doomed[q]
      BY DEF TypeOK
    <2>4. call'[p] = "idle" /\ build'[p] = "none" /\ doomed'[p] = {}
      BY ZenonT(40) DEF TypeOK
    <2>5. LockInv'
      BY ZenonT(40), <2>3, <2>4 DEF LockInv, Holding
    <2>6. UNCHANGED <<extractor, files, whole, pointer>>
      OBVIOUS
    <2>7. FreshInv'
      <3>1. "none" \notin Unpublished
        BY DEF Unpublished
      <3>2. \A g : Fresh(g) => Fresh(g)'
        BY <2>6 DEF Fresh, Current
      <3> HIDE <1>2 DEF EndProcess
      <3> QED  BY <2>3, <2>4, <2>6, <3>1, <3>2 DEF FreshInv, Fresh, Current
    <2>8. DoomedInv'
      BY <2>3, <2>4, <2>6 DEF DoomedInv, Current
    <2> QED  BY <2>1, <2>2, <2>5, <2>7, <2>8
  <1> QED  BY <1>1, <1>2

LEMMA EnvironmentInv ==
    ASSUME IndInv, DamageRecord \/ Upgrade
    PROVE  IndInv'
  <1> USE CodeIndexAssumption DEF IndInv, readers, directory, procs
  <1>1. CASE DamageRecord
    <2> USE <1>1 DEF DamageRecord
    <2>1. TypeOK'
      BY DEF TypeOK
    <2>2. PublishedIsWhole' /\ ReadersNeverPartial' /\ ChosenInv'
      BY DEF PublishedIsWhole, ReadersNeverPartial, ChosenInv, Current
    <2>3. LockInv' /\ FreshInv' /\ DoomedInv'
      BY DEF LockInv, FreshInv, DoomedInv, Fresh, Current
    <2> QED  BY <2>1, <2>2, <2>3
  <1>2. CASE Upgrade
    <2> USE <1>2 DEF Upgrade
    <2>1. extractor \in Int /\ extractor' = extractor + 1 /\ extractor' \in 1 .. MaxExtractor
      BY StateNumbers, NextExtractor
    <2>2. TypeOK'
      BY <2>1 DEF TypeOK
    <2>3. pointer # None => pointer[1] \in Int /\ pointer[1] < extractor'
      BY <2>1, StateNumbers, Order
    <2>4. ~Current' /\ (pointer # None => pointer[1] <= extractor)'
      BY <2>1, <2>3 DEF Current
    <2>5. PublishedIsWhole' /\ ReadersNeverPartial'
      BY <2>4 DEF PublishedIsWhole, ReadersNeverPartial, Current
    <2>6. ChosenInv'
      <3>1. ASSUME NEW r \in Readers, chosen[r] # None
            PROVE  chosen[r][1] \in Int /\ chosen[r][1] <= extractor
        BY <3>1, Numbers DEF TypeOK, ChosenInv
      <3>2. ASSUME NEW r \in Readers, chosen[r] # None
            PROVE  chosen[r][1] <= extractor' /\ chosen[r][1] # extractor'
        BY <2>1, <3>1, <3>2
      <3> QED  BY <3>2 DEF ChosenInv
    <2>7. LockInv' /\ FreshInv' /\ DoomedInv'
      BY <2>4 DEF LockInv, FreshInv, DoomedInv, Holding, Unpublished
    <2> QED  BY <2>2, <2>4, <2>5, <2>6, <2>7
  <1> QED  BY <1>1, <1>2

LEMMA ReadInv ==
    ASSUME IndInv, NEW r \in Readers, ChooseGeneration(r) \/ OpenGeneration(r)
    PROVE  IndInv'
  <1> USE CodeIndexAssumption DEF IndInv, directory, procs
  <1>1. CASE ChooseGeneration(r)
    <2> USE <1>1 DEF ChooseGeneration
    <2>1. Current /\ Ready = pointer /\ pointer \in Generations
      BY ReadyIsPointer DEF Current, TypeOK
    <2>2. TypeOK'
      BY <2>1 DEF TypeOK
    <2>3. PublishedIsWhole' /\ ReadersNeverPartial'
      BY DEF PublishedIsWhole, ReadersNeverPartial, Current
    <2>4. ChosenInv'
      <3>1. pointer \in whole /\ pointer[1] = extractor
        BY <2>1 DEF PublishedIsWhole, Current
      <3>2. pointer[1] <= extractor /\ pointer[2] <= pointer[2]
        BY <2>1, <3>1, StateNumbers, Order DEF Current
      <3>3. \A q \in Readers : chosen'[q] = IF q = r THEN pointer ELSE chosen[q]
        BY <2>1 DEF TypeOK
      <3> QED  BY <2>1, <3>1, <3>2, <3>3 DEF ChosenInv, Current
    <2>5. LockInv' /\ FreshInv' /\ DoomedInv'
      BY DEF LockInv, FreshInv, DoomedInv, Fresh, Current
    <2> QED  BY <2>2, <2>3, <2>4, <2>5
  <1>2. CASE OpenGeneration(r)
    <2> USE <1>2 DEF OpenGeneration
    <2>1. TypeOK'
      BY DEF TypeOK
    <2>2. PublishedIsWhole'
      BY DEF PublishedIsWhole
    <2>3. ReadersNeverPartial' /\ ChosenInv'
      BY DEF TypeOK, ReadersNeverPartial, ChosenInv, Current
    <2>4. LockInv' /\ FreshInv' /\ DoomedInv'
      BY DEF LockInv, FreshInv, DoomedInv, Fresh, Current
    <2> QED  BY <2>1, <2>2, <2>3, <2>4
  <1> QED  BY <1>1, <1>2

LEMMA InvNext ==
    ASSUME IndInv, DirSyncMayFail = FALSE, [Next]_vars
    PROVE  IndInv'
  <1>1. CASE UNCHANGED vars
    BY <1>1 DEF vars, directory, procs, readers, IndInv, TypeOK, PublishedIsWhole,
                ReadersNeverPartial, LockInv, DoomedInv, FreshInv, ChosenInv, Fresh,
                Current
  <1>2. CASE Next
    BY <1>2, PrepareInv, BuildInv, WaitInv, EnvironmentInv, ReadInv DEF Next
  <1> QED  BY <1>1, <1>2

LEMMA Invariance == DirSyncMayFail = FALSE /\ Spec => []IndInv
  <1> SUFFICES ASSUME DirSyncMayFail = FALSE PROVE Spec => []IndInv
    OBVIOUS
  <1> QED  BY InvInit, InvNext, PTL DEF Spec

\* Through failures, deadlines, kills and upgrades, the published generation of
\* the installed extractor is there and complete (code_index.rs, sync, publish).
THEOREM PublishedStaysWhole == DirSyncMayFail = FALSE /\ Spec => []PublishedIsWhole
  <1>1. IndInv => PublishedIsWhole
    BY DEF IndInv
  <1> QED  BY <1>1, Invariance, PTL

\* No query opens a generation that is being built, whatever was published and
\* removed since it read the pointer (query.rs, IndexState::read).
THEOREM QueriesSeeWholeIndexes == DirSyncMayFail = FALSE /\ Spec => []ReadersNeverPartial
  <1>1. IndInv => ReadersNeverPartial
    BY DEF IndInv
  <1> QED  BY <1>1, Invariance, PTL

LEMMA PublishingAdvances ==
    ASSUME IndInv, [Next]_vars
    PROVE  pointer' # pointer /\ pointer # None /\ pointer[1] = pointer'[1]
              => pointer'[2] > pointer[2]
  <1>1. ASSUME NEW p \in Procs, RenamePointer(p)
        PROVE  pointer # None /\ pointer[1] = pointer'[1] => pointer'[2] > pointer[2]
    <2>1. Fresh(gen[p]) /\ pointer' = gen[p]
      BY <1>1 DEF IndInv, FreshInv, Unpublished, RenamePointer
    <2> QED  BY <2>1 DEF Fresh, Current
  <1>2. ASSUME NEW p \in Procs, PrepareStep(p)
        PROVE  UNCHANGED pointer
    BY <1>2 DEF PrepareStep, StartCall, RemoveSuperseded, RecordGeneration,
                CreateGeneration, PrepareFails, directory
  <1>3. ASSUME NEW p \in Procs, BuildStep(p), ~RenamePointer(p)
        PROVE  UNCHANGED pointer
    BY <1>3 DEF BuildStep, BuildEnds, Discards, Finalize, TakeSlot, PublishFails,
                SyncDirectory, Discard, Unlock, SetFinished, BuildPanics, directory
  <1>4. ASSUME NEW p \in Procs, WaitStep(p) \/ EndProcess(p)
        PROVE  UNCHANGED pointer
    BY <1>4 DEF WaitStep, GiveUp, TakeResult, EndProcess, directory
  <1>5. ASSUME DamageRecord \/ Upgrade \/ \E r \in Readers : \/ ChooseGeneration(r)
                                                             \/ OpenGeneration(r)
        PROVE  UNCHANGED pointer
    BY <1>5 DEF DamageRecord, Upgrade, ChooseGeneration, OpenGeneration, directory
  <1> QED  BY <1>1, <1>2, <1>3, <1>4, <1>5 DEF Next, vars, directory

\* Under one extractor the pointer only moves to later generations
\* (next_generation_name, publish).
THEOREM PublishingGoesForward == DirSyncMayFail = FALSE /\ Spec => PointerAdvances
  <1> SUFFICES ASSUME DirSyncMayFail = FALSE PROVE Spec => PointerAdvances
    OBVIOUS
  <1>1. IndInv /\ [Next]_vars =>
          [pointer' # pointer /\ pointer # None /\ pointer[1] = pointer'[1]
              => pointer'[2] > pointer[2]]_vars
    BY PublishingAdvances
  <1> QED  BY <1>1, Invariance, PTL DEF Spec, PointerAdvances

-----------------------------------------------------------------------------
(* What the index leaves behind, whatever fails.                             *)

LEMMA FaultInit == Init => FaultInv
  <1> SUFFICES ASSUME Init PROVE FaultInv
    OBVIOUS
  <1> USE CodeIndexAssumption DEF Init
  <1>1. TypeOK
    BY DEF TypeOK, Generations
  <1>2. LockInv /\ SlotInv
    BY DEF LockInv, SlotInv, Holding, SlotKept, Answers
  <1>3. OwnershipInv /\ RecordInv
    BY DEF OwnershipInv, RecordInv, LeftoversRecorded, Discardable, Unpublished, Generations
  <1> QED  BY <1>1, <1>2, <1>3 DEF FaultInv

\* Only the holder of the lock prepares or builds.
LEMMA OneHolder ==
    ASSUME LockInv, NEW p \in Procs, lock = p
    PROVE  \A q \in Procs \ {p} : call[q] \notin {"prepare", "recorded"} /\ build[q] \notin Holding
  BY DEF LockInv

LEMMA NoneIsNoGeneration == None \notin Generations
  BY CodeIndexAssumption DEF Generations

LEMMA DiscardableHolds == Discardable \subseteq Holding
  BY DEF Discardable, Unpublished, Holding

LEMMA FaultPrepare ==
    ASSUME FaultInv, NEW p \in Procs, PrepareStep(p)
    PROVE  FaultInv'
  <1> USE CodeIndexAssumption DEF FaultInv
  <1>1. CASE StartCall(p)
    <2> USE <1>1 DEF StartCall, directory, readers
    <2>1. TypeOK'
      BY DEF TypeOK, Superseded
    <2>2. LockInv' /\ SlotInv'
      BY ZenonT(40) DEF TypeOK, LockInv, SlotInv, Holding, SlotKept, Answers
    <2>3. OwnershipInv'
      BY DEF TypeOK, OwnershipInv, Superseded
    <2>4. RecordInv'
      <3>1. Ready' = Ready
        BY DEF Ready
      <3>2. doomed'[p] = owned \ {Ready} /\ \A q \in Procs \ {p} : call[q] # "prepare"
        BY DEF TypeOK, Superseded, LockInv
      <3> QED  BY <3>1, <3>2 DEF TypeOK, RecordInv, LeftoversRecorded
    <2> QED  BY <2>1, <2>2, <2>3, <2>4
  <1>2. ASSUME NEW g \in Generations, RemoveSuperseded(p, g) PROVE FaultInv'
    <2> USE <1>2 DEF RemoveSuperseded, readers
    <2>1. TypeOK'
      BY DEF TypeOK
    <2>2. LockInv' /\ SlotInv'
      BY DEF LockInv, SlotInv
    <2>3. OwnershipInv'
      BY DEF TypeOK, OwnershipInv
    <2>4. Ready' = Ready
      BY DEF Ready, RecordInv
    <2>5. lock = p /\ build[p] \notin Discardable
      BY DEF LockInv, Discardable, Unpublished
    <2>6. \A q \in Procs : build[q] \notin Discardable /\ (q # p => call[q] # "prepare")
      BY <2>5, OneHolder, DiscardableHolds
    <2>7. RecordInv'
      BY <2>4, <2>6 DEF TypeOK, RecordInv, LeftoversRecorded
    <2> QED  BY <2>1, <2>2, <2>3, <2>7
  <1>3. CASE RecordGeneration(p)
    <2> USE <1>3 DEF RecordGeneration, readers
    <2>1. PICK g \in Generations : /\ IsNextGeneration(g)
                                   /\ gen' = [gen EXCEPT ![p] = g]
                                   /\ owned' = Record(g)
      OBVIOUS
    <2>2. g \notin files
      BY <2>1 DEF IsNextGeneration, FreeNumbers, Generations
    <2>3. Ready \in (Generations \cap files) \cup {None} /\ Ready \notin foreign
      BY NoneIsNoGeneration DEF Ready, TypeOK, OwnershipInv
    <2>4. TypeOK'
      BY <2>1, <2>3 DEF TypeOK, Record
    <2>5. LockInv' /\ SlotInv'
      BY ZenonT(40) DEF TypeOK, LockInv, SlotInv, Holding, SlotKept, Answers
    <2>6. OwnershipInv'
      <3>1. g \notin foreign /\ Record(g) \cap foreign = {}
        BY <2>2, <2>3 DEF OwnershipInv, Record
      <3>2. \A q \in Procs : gen'[q] = IF q = p THEN g ELSE gen[q]
        BY <2>1 DEF TypeOK
      <3> QED  BY <2>1, <3>1, <3>2 DEF OwnershipInv
    <2>7. lock = p /\ \A q \in Procs \ {p} : call[q] \notin {"prepare", "recorded"}
      BY OneHolder DEF LockInv
    <2>8. LeftoversRecorded'
      <3>1. files \cap owned \subseteq {Ready}
        BY DEF RecordInv
      <3>2. None \notin files
        BY NoneIsNoGeneration DEF TypeOK
      <3>3. files \cap owned \subseteq owned'
        BY <2>1, <3>1, <3>2 DEF Record
      <3>4. files' = files /\ foreign' = foreign /\ lost' = lost \ owned'
        OBVIOUS
      <3> QED  BY <3>3, <3>4 DEF RecordInv, LeftoversRecorded
    <2>9. gen'[p] \in owned'
      BY <2>1 DEF Record, TypeOK
    <2>10. build[p] \notin Discardable
      BY DEF LockInv, Discardable, Unpublished
    <2>11. \A q \in Procs : call'[q] # "prepare" /\ (call'[q] = "recorded" => q = p)
      BY <2>7 DEF TypeOK
    <2>12. \A q \in Procs : build'[q] \in Discardable => gen'[q] \in files'
      BY <2>1, <2>10 DEF TypeOK, RecordInv
    <2>13. RecordInv'
      BY <2>8, <2>9, <2>11, <2>12 DEF RecordInv
    <2> QED  BY <2>4, <2>5, <2>6, <2>13
  <1>4. CASE CreateGeneration(p)
    <2> USE <1>4 DEF CreateGeneration, readers
    <2>1. gen[p] \in owned \cup lost
      BY DEF RecordInv
    <2>2. TypeOK'
      BY <2>1 DEF TypeOK
    <2>3. LockInv' /\ SlotInv'
      BY ZenonT(40) DEF TypeOK, LockInv, SlotInv, Holding, SlotKept, Answers
    <2>4. OwnershipInv'
      BY DEF OwnershipInv
    <2>5. \A q \in Procs \ {p} : call[q] \notin {"prepare", "recorded"}
      BY OneHolder DEF LockInv
    <2>6. RecordInv'
      BY <2>1, <2>5 DEF TypeOK, RecordInv, LeftoversRecorded
    <2> QED  BY <2>2, <2>3, <2>4, <2>6
  <1>5. CASE PrepareFails(p)
    <2> USE <1>5 DEF PrepareFails, readers
    <2>1. call[p] = "recorded" => gen[p] \in owned \cup lost
      BY DEF RecordInv
    <2>2. files \subseteq files' /\ files' \subseteq files \cup ((owned \cup lost) \ foreign)
      BY <2>1 DEF OwnershipInv
    <2>3. TypeOK'
      BY <2>2 DEF TypeOK
    <2>4. lock = p
      BY DEF LockInv
    <2>5. LockInv' /\ SlotInv'
      BY ZenonT(40), <2>4 DEF TypeOK, LockInv, SlotInv, Holding, SlotKept, Answers
    <2>6. OwnershipInv'
      BY <2>2 DEF TypeOK, OwnershipInv, Generations
    <2>7. \A q \in Procs : call'[q] \notin {"prepare", "recorded"}
      BY <2>4, OneHolder DEF TypeOK
    <2>8. \A q \in Procs : build[q] \in Discardable => gen'[q] = gen[q]
      BY DEF TypeOK, LockInv, Discardable, Unpublished
    <2>9. RecordInv'
      BY <2>2, <2>7, <2>8 DEF RecordInv, LeftoversRecorded
    <2> QED  BY <2>3, <2>5, <2>6, <2>9
  <1> QED  BY <1>1, <1>2, <1>3, <1>4, <1>5 DEF PrepareStep

\* The steps of a build thread that leave the directory alone.
LEMMA FaultBuildQuiet ==
    ASSUME FaultInv, NEW p \in Procs,
           BuildEnds(p) \/ Discards(p) \/ TakeSlot(p) \/ PublishFails(p) \/ SyncDirectory(p)
    PROVE  FaultInv'
  <1> USE CodeIndexAssumption DEF FaultInv
  <1>1. /\ UNCHANGED <<extractor, files, whole, foreign, pointer, owned, lost, lock, call, gen,
                       doomed, chosen, met>>
        /\ \A q \in Procs \ {p} : build'[q] = build[q] /\ slot'[q] = slot[q]
    BY DEF BuildEnds, Discards, TakeSlot, PublishFails, SyncDirectory, directory, readers, TypeOK
  <1>2. /\ build[p] \in Discardable
        /\ build'[p] \in Discardable \cup {"unlock published"}
        /\ build'[p] = "unlock published" => slot[p] = "taken"
    BY DEF BuildEnds, Discards, TakeSlot, PublishFails, SyncDirectory, TypeOK, Discardable,
           Unpublished, SlotInv, SlotKept
  <1>3. /\ build'[p] \notin {"publish", "renamed"} \cup Answers
        /\ build'[p] \notin {"unlock incomplete", "unlock error"}
        /\ slot'[p] = slot[p] \/ (slot'[p] = "taken" /\ slot[p] # "abandoned")
        /\ slot[p] = "taken" => slot'[p] = "taken"
    BY ZenonT(40) DEF BuildEnds, Discards, TakeSlot, PublishFails, SyncDirectory, TypeOK, GivenUp, Answers
  <1>4. build' \in [Procs -> Holding \cup {"none", "published", "incomplete", "error"}]
    <2>1. build \in [Procs -> Holding \cup {"none", "published", "incomplete", "error"}]
      BY DEF TypeOK, Holding
    <2>2. build'[p] \in Holding
      BY <1>2 DEF Discardable, Unpublished, Holding
    <2>3. build' = build \/ build' = [build EXCEPT ![p] = build'[p]]
      BY DEF BuildEnds, Discards, TakeSlot, PublishFails, SyncDirectory, TypeOK
    <2> QED  BY <2>1, <2>2, <2>3
  <1>5. TypeOK'
    <2>1. slot' \in [Procs -> {"none", "running", "taken", "abandoned", "published",
                               "incomplete", "error"}]
      BY DEF BuildEnds, Discards, TakeSlot, PublishFails, SyncDirectory, TypeOK
    <2> QED  BY <1>1, <1>4, <2>1 DEF TypeOK, Holding
  <1>6. lock = p /\ LockInv'
    BY <1>1, <1>2, DiscardableHolds DEF LockInv, Holding
  <1>7. SlotInv'
    <2>1. call[p] \notin {"idle", "prepare", "recorded"}
      BY <1>2 DEF SlotInv, Discardable, Unpublished
    <2> QED  BY <1>1, <1>2, <1>3, <1>6, <2>1 DEF SlotInv, SlotKept, Answers
  <1>8. OwnershipInv'
    BY <1>1 DEF OwnershipInv
  <1>9. RecordInv'
    BY <1>1, <1>2 DEF RecordInv, LeftoversRecorded, Ready
  <1> QED  BY <1>5, <1>6, <1>7, <1>8, <1>9

\* The steps that finalize, publish or discard a generation.
LEMMA FaultBuildFiles ==
    ASSUME FaultInv, NEW p \in Procs, Finalize(p) \/ RenamePointer(p) \/ Discard(p)
    PROVE  FaultInv'
  <1> USE CodeIndexAssumption DEF FaultInv, readers
  <1>1. build[p] \in Discardable /\ lock = p /\ gen[p] \in files /\ gen[p] \notin foreign
    BY DiscardableHolds DEF Finalize, RenamePointer, Discard, Discardable, Unpublished, LockInv,
                            RecordInv, OwnershipInv
  <1>2. /\ call[p] \notin {"idle", "prepare", "recorded"}
        /\ \A q \in Procs \ {p} : call[q] \notin {"prepare", "recorded"} /\ build[q] \notin Discardable
    BY <1>1, OneHolder, DiscardableHolds DEF SlotInv, Discardable, Unpublished
  <1>3. CASE Finalize(p)
    <2> USE <1>3 DEF Finalize
    <2>1. TypeOK'
      BY <1>1 DEF TypeOK
    <2>2. LockInv' /\ SlotInv'
      BY ZenonT(40), <1>1, <1>2 DEF TypeOK, LockInv, SlotInv, Holding, SlotKept, Answers, GivenUp
    <2>3. OwnershipInv'
      BY DEF OwnershipInv
    <2>4. RecordInv'
      BY <1>1, <1>2 DEF TypeOK, RecordInv, LeftoversRecorded
    <2> QED  BY <2>1, <2>2, <2>3, <2>4
  <1>4. CASE RenamePointer(p)
    <2> USE <1>4 DEF RenamePointer
    <2>1. TypeOK'
      BY <1>1 DEF TypeOK
    <2>2. LockInv' /\ SlotInv'
      BY ZenonT(40), <1>1, <1>2 DEF TypeOK, LockInv, SlotInv, Holding, SlotKept, Answers
    <2>3. OwnershipInv'
      BY <1>1 DEF OwnershipInv
    <2>4. RecordInv'
      BY <1>1, <1>2 DEF TypeOK, RecordInv, LeftoversRecorded
    <2> QED  BY <2>1, <2>2, <2>3, <2>4
  <1>5. CASE Discard(p)
    <2> USE <1>5 DEF Discard
    <2>1. files' \subseteq files /\ files \ {gen[p]} \subseteq files' /\ whole' \subseteq files'
      BY DEF TypeOK
    <2>2. build'[p] \in {"unlock incomplete", "unlock error", "unlock abandoned"}
      BY DEF TypeOK
    <2>3. build' = [build EXCEPT ![p] = build'[p]]
      BY DEF TypeOK
    <2>4. build'[p] # "unlock abandoned" => slot[p] = "taken"
      BY DEF TypeOK
    <2>5. TypeOK'
      BY <2>1, <2>2, <2>3 DEF TypeOK
    <2>6. \A q \in Procs \ {p} : build'[q] = build[q]
      BY <2>3 DEF TypeOK
    <2>7. LockInv' /\ SlotInv'
      BY ZenonT(40), <1>1, <1>2, <2>2, <2>4, <2>6 DEF LockInv, SlotInv, Holding, SlotKept, Answers
    <2>8. OwnershipInv'
      BY <1>1, <2>1 DEF OwnershipInv
    <2>9. RecordInv'
      <3>1. \A q \in Procs : build'[q] \notin Discardable
        BY <1>2, <2>2, <2>6 DEF Discardable, Unpublished
      <3>2. \A q \in Procs : call'[q] \notin {"prepare", "recorded"}
        BY <1>2
      <3> QED  BY <2>1, <3>1, <3>2 DEF RecordInv, LeftoversRecorded
    <2> QED  BY <2>5, <2>7, <2>8, <2>9
  <1> QED  BY <1>3, <1>4, <1>5

\* The steps that end a build thread.
LEMMA FaultBuildEnds ==
    ASSUME FaultInv, NEW p \in Procs, Unlock(p) \/ SetFinished(p) \/ BuildPanics(p)
    PROVE  FaultInv'
  <1> USE CodeIndexAssumption DEF FaultInv, readers, directory
  <1>1. CASE Unlock(p) \/ BuildPanics(p)
    <2> USE <1>1 DEF Unlock, BuildPanics, Unlocked
    <2>1. build[p] \in Holding /\ lock = p /\ lock' = None /\ gen' = [gen EXCEPT ![p] = None]
      BY DEF Holding, LockInv
    <2>2. /\ build'[p] \in {"none", "published", "incomplete", "error"}
          /\ build'[p] # "none" => slot[p] = "taken"
      BY ZenonT(40) DEF TypeOK, Outcome, SlotInv, SlotKept
    <2>3. build' = [build EXCEPT ![p] = build'[p]]
      BY DEF TypeOK
    <2>11. UNCHANGED <<extractor, files, whole, foreign, pointer, owned, lost, call, doomed, slot,
                       chosen, met>>
      OBVIOUS
    <2>4. TypeOK'
      <3> HIDE <1>1
      <3> QED  BY ZenonT(40), <2>1, <2>2, <2>3, <2>11 DEF TypeOK
    <2>5. \A q \in Procs \ {p} : build'[q] = build[q] /\ gen'[q] = gen[q]
      BY <2>1, <2>3 DEF TypeOK
    <2>6. \A q \in Procs : /\ build'[q] \notin Holding
                           /\ call'[q] = call[q] /\ call[q] \notin {"prepare", "recorded"}
      BY <2>1, <2>2, <2>5, OneHolder DEF Holding, LockInv
    <2>7. LockInv'
      BY <2>6 DEF LockInv
    <2>8. SlotInv'
      <3>1. call[p] # "idle" /\ None \notin Procs
        BY <2>1 DEF SlotInv, Holding
      <3> QED  BY <2>1, <2>2, <2>5, <3>1 DEF SlotInv, SlotKept, Answers
    <2>9. OwnershipInv'
      BY <2>1, NoneIsNoGeneration DEF TypeOK, OwnershipInv
    <2>10. RecordInv'
      BY <2>6, DiscardableHolds DEF RecordInv, LeftoversRecorded
    <2> QED  BY <2>4, <2>7, <2>8, <2>9, <2>10
  <1>2. CASE SetFinished(p)
    <2> USE <1>2 DEF SetFinished
    <2>1. slot[p] = "taken" /\ build[p] \in Answers /\ lock # p
      BY DEF SlotInv, SlotKept, Answers
    <2>2. TypeOK'
      BY DEF TypeOK
    <2>3. LockInv' /\ SlotInv'
      BY ZenonT(40), <2>1 DEF TypeOK, LockInv, SlotInv, Holding, SlotKept, Answers
    <2>4. OwnershipInv'
      BY DEF OwnershipInv
    <2>5. RecordInv'
      BY DEF TypeOK, RecordInv, LeftoversRecorded, Ready, Discardable, Unpublished
    <2> QED  BY <2>2, <2>3, <2>4, <2>5
  <1> QED  BY <1>1, <1>2

LEMMA FaultWait ==
    ASSUME FaultInv, NEW p \in Procs, WaitStep(p) \/ EndProcess(p)
    PROVE  FaultInv'
  <1> USE CodeIndexAssumption DEF FaultInv, readers, directory
  <1>1. CASE WaitStep(p)
    <2> USE <1>1 DEF WaitStep, GiveUp, TakeResult
    <2>1. TypeOK'
      <3>1. CASE GiveUp(p)
        BY <3>1 DEF TypeOK
      <3>2. CASE TakeResult(p)
        <4>1. slot[p] \in {"published", "incomplete", "error"}
          BY <3>2
        <4> QED  BY <3>2, <4>1 DEF TypeOK
      <3> QED  BY <3>1, <3>2
    <2>2. /\ call[p] = "waiting" /\ slot[p] # "taken"
          /\ \/ call'[p] = "gave up" /\ slot'[p] = "abandoned"
             \/ call'[p] \in Answers /\ slot'[p] = "none" /\ slot[p] \in Answers
      BY DEF TypeOK, Answers
    <2>3. \A q \in Procs \ {p} : call'[q] = call[q] /\ slot'[q] = slot[q]
      BY DEF TypeOK
    <2>4. UNCHANGED <<extractor, files, whole, foreign, pointer, owned, lost, lock, build, gen,
                      doomed>>
      OBVIOUS
    <2>5. LockInv' /\ SlotInv'
      BY <2>2, <2>3, <2>4 DEF LockInv, SlotInv, Answers
    <2>6. OwnershipInv'
      BY <2>4 DEF OwnershipInv
    <2>7. RecordInv'
      BY ZenonT(40), <2>2, <2>3, <2>4 DEF RecordInv, LeftoversRecorded, Ready, Answers
    <2> QED  BY <2>1, <2>5, <2>6, <2>7
  <1>2. CASE EndProcess(p)
    <2> USE <1>2 DEF EndProcess
    <2>1. TypeOK'
      BY DEF TypeOK
    <2>2. \A q \in Procs \ {p} :
            /\ call'[q] = call[q] /\ build'[q] = build[q] /\ slot'[q] = slot[q]
            /\ gen'[q] = gen[q] /\ doomed'[q] = doomed[q]
      BY DEF TypeOK
    <2>3. call'[p] = "idle" /\ build'[p] = "none" /\ slot'[p] = "none" /\ doomed'[p] = {}
          /\ gen'[p] = None
      BY ZenonT(40) DEF TypeOK
    <2>4. UNCHANGED <<extractor, files, whole, foreign, pointer, owned, lost>>
      OBVIOUS
    <2>8. lock' # p /\ \A q \in Procs \ {p} : lock' = q <=> lock = q
      OBVIOUS
    <2>5. LockInv' /\ SlotInv'
      <3> HIDE <1>2
      <3>1. LockInv'
        BY <2>2, <2>3, <2>8 DEF LockInv, Holding
      <3>2. ASSUME NEW q \in Procs \ {p}
            PROVE  /\ call'[q] \in {"idle", "prepare", "recorded"}
                        => slot'[q] = "none" /\ build'[q] = "none"
                   /\ call'[q] = "gave up" => slot'[q] = "abandoned"
                   /\ build'[q] \in SlotKept => slot'[q] = "taken"
                   /\ call'[q] \in Answers \/ build'[q] \in Answers \/ slot'[q] \in Answers
                        => lock' # q
        BY <2>2, <2>8 DEF SlotInv
      <3>3. "idle" \notin Answers /\ "none" \notin Answers /\ "none" \notin SlotKept
        BY DEF Answers, SlotKept
      <3> QED  BY ZenonT(40), <2>3, <2>8, <3>1, <3>2, <3>3 DEF SlotInv
    <2>6. OwnershipInv'
      BY ZenonT(40), <2>2, <2>3, <2>4, NoneIsNoGeneration DEF TypeOK, OwnershipInv
    <2>7. RecordInv'
      <3>1. "none" \notin Discardable
        BY DEF Discardable, Unpublished
      <3> QED  BY <2>2, <2>3, <2>4, <3>1 DEF RecordInv, LeftoversRecorded, Ready
    <2> QED  BY <2>1, <2>5, <2>6, <2>7
  <1> QED  BY <1>1, <1>2

LEMMA FaultEnvironment ==
    ASSUME FaultInv,
           DamageRecord \/ Upgrade \/ \E r \in Readers : ChooseGeneration(r) \/ OpenGeneration(r)
    PROVE  FaultInv'
  <1> USE CodeIndexAssumption DEF FaultInv, directory, procs
  <1>1. CASE DamageRecord
    BY <1>1 DEF DamageRecord, readers, TypeOK, LockInv, SlotInv, OwnershipInv, RecordInv,
                LeftoversRecorded, Ready
  <1>2. CASE Upgrade
    <2>1. extractor' \in 1 .. MaxExtractor
      BY <1>2, NextExtractor DEF Upgrade
    <2>2. TypeOK'
      BY <1>2, <2>1 DEF Upgrade, readers, TypeOK
    <2> QED
      BY <1>2, <2>2 DEF Upgrade, readers, LockInv, SlotInv, OwnershipInv, RecordInv,
                        LeftoversRecorded, Discardable, Unpublished
  <1>3. ASSUME NEW r \in Readers, ChooseGeneration(r) \/ OpenGeneration(r) PROVE FaultInv'
    <2>1. Ready \in Generations \cup {None}
      BY DEF Ready, TypeOK
    <2>2. TypeOK'
      <3>1. CASE ChooseGeneration(r)
        BY <2>1, <3>1 DEF ChooseGeneration, TypeOK
      <3>2. CASE OpenGeneration(r)
        BY <3>2 DEF OpenGeneration, TypeOK
      <3> QED  BY <1>3, <3>1, <3>2
    <2>3. UNCHANGED <<extractor, files, whole, foreign, pointer, owned, lost, lock, call, build,
                      gen, doomed, slot>>
      BY <1>3 DEF ChooseGeneration, OpenGeneration
    <2> QED
      BY <2>2, <2>3 DEF LockInv, SlotInv, OwnershipInv, RecordInv, LeftoversRecorded, Ready
  <1> QED  BY <1>1, <1>2, <1>3

LEMMA FaultNext ==
    ASSUME FaultInv, [Next]_vars
    PROVE  FaultInv'
  <1>1. CASE UNCHANGED vars
    BY ZenonT(40), <1>1 DEF vars, directory, procs, readers, FaultInv, TypeOK, LockInv, SlotInv,
                OwnershipInv, RecordInv, LeftoversRecorded, Ready
  <1>2. CASE Next
    BY <1>2, FaultPrepare, FaultBuildQuiet, FaultBuildFiles, FaultBuildEnds, FaultWait,
       FaultEnvironment DEF Next, BuildStep
  <1> QED  BY <1>1, <1>2

LEMMA FaultInvariance == Spec => []FaultInv
  BY FaultInit, FaultNext, PTL DEF Spec

\* Whatever fails and whoever is killed: no file that is not the index's own is
\* removed or built into, every leftover stays on record, and a call that was
\* answered by its build no longer holds the lock.
THEOREM LeftoversStayOurs == Spec => []LeftoversAreOurs
  <1>1. FaultInv => LeftoversAreOurs
    BY DEF FaultInv, OwnershipInv, RecordInv, SlotInv, Answers, LeftoversAreOurs, ForeignKept,
           AnsweredIsUnlocked
  <1> QED  BY <1>1, FaultInvariance, PTL

\* The pointer is written by the build that holds the lock, and by none.
LEMMA WhoPublishes ==
    ASSUME [Next]_vars, pointer' # pointer
    PROVE  \E p \in Procs : RenamePointer(p)
  <1>1. ASSUME NEW p \in Procs, PrepareStep(p) PROVE UNCHANGED pointer
    BY <1>1 DEF PrepareStep, StartCall, RemoveSuperseded, RecordGeneration,
                CreateGeneration, PrepareFails, directory
  <1>2. ASSUME NEW p \in Procs, BuildStep(p), ~RenamePointer(p) PROVE UNCHANGED pointer
    BY <1>2 DEF BuildStep, BuildEnds, Discards, Finalize, TakeSlot, PublishFails,
                SyncDirectory, Discard, Unlock, SetFinished, BuildPanics, directory
  <1>3. ASSUME NEW p \in Procs, WaitStep(p) \/ EndProcess(p) PROVE UNCHANGED pointer
    BY <1>3 DEF WaitStep, GiveUp, TakeResult, EndProcess, directory
  <1>4. ASSUME DamageRecord \/ Upgrade \/ \E r \in Readers : \/ ChooseGeneration(r)
                                                             \/ OpenGeneration(r)
        PROVE  UNCHANGED pointer
    BY <1>4 DEF DamageRecord, Upgrade, ChooseGeneration, OpenGeneration, directory
  <1> QED  BY <1>1, <1>2, <1>3, <1>4 DEF Next, vars, directory

\* A caller that stopped waiting is not overtaken by its build: while the build
\* still holds the lock the pointer stays as it is (BuildJob::run, Shared::slot).
THEOREM GivenUpIsFinal == Spec => NoLatePublish
  <1>1. FaultInv /\ [Next]_vars =>
          [\A p \in Procs : call[p] = "gave up" /\ lock = p => pointer' = pointer]_vars
    <2> SUFFICES ASSUME FaultInv, [Next]_vars, NEW p \in Procs, call[p] = "gave up", lock = p,
                        pointer' # pointer
                 PROVE  FALSE
      OBVIOUS
    <2>1. PICK q \in Procs : RenamePointer(q)
      BY WhoPublishes
    <2>2. build[q] = "publish" /\ q = p
      BY <2>1 DEF RenamePointer, FaultInv, LockInv, Holding
    <2> QED  BY <2>2 DEF FaultInv, SlotInv, SlotKept
  <1> QED  BY <1>1, FaultInvariance, PTL DEF Spec, NoLatePublish

-----------------------------------------------------------------------------
(* The directory of generations implements PublishedIndex.                   *)

\* A step that changes neither the extractor, the pointer nor a query's state is
\* none to a query.
LEMMA UnseenSteps ==
    ASSUME IndInv, IndInv', UNCHANGED <<extractor, pointer, chosen, met>>
    PROVE  UNCHANGED Published!vars
  <1>1. Ready = IF Current THEN pointer ELSE None
    BY ReadyIsPointer
  <1>2. Ready' = IF Current' THEN pointer' ELSE None
    BY DEF IndInv, TypeOK, PublishedIsWhole, Ready, Current
  <1>3. Current' = Current
    BY DEF Current
  <1> QED  BY <1>1, <1>2, <1>3 DEF Published!vars

LEMMA RefinesStep ==
    ASSUME IndInv, IndInv', [Next]_vars
    PROVE  [Published!Next]_(Published!vars)
  <1>1. Ready = IF Current THEN pointer ELSE None
    BY ReadyIsPointer
  <1>2. Ready' = IF Current' THEN pointer' ELSE None
    BY DEF IndInv, TypeOK, PublishedIsWhole, Ready, Current
  <1>3. ASSUME NEW p \in Procs, RenamePointer(p) PROVE Published!Replace
    <2>1. Fresh(gen[p]) /\ pointer' = gen[p] /\ extractor' = extractor
      BY <1>3 DEF IndInv, FreshInv, Unpublished, RenamePointer
    <2>2. gen[p] \in Generations /\ Ready' = gen[p]
      BY <1>2, <2>1, NoneIsNoGeneration DEF Fresh, Current
    <2>3. Ready = None \/ NewerGeneration(gen[p], Ready)
      BY <1>1, <2>1 DEF Fresh, Current, NewerGeneration
    <2> QED  BY <1>3, <2>2, <2>3 DEF Published!Replace, RenamePointer, readers
  <1>4. CASE Upgrade
    <2>1. extractor' # extractor
      BY <1>4, StateNumbers DEF IndInv, Upgrade
    <2>2. ~Current'
      <3>1. pointer' = pointer /\ extractor' = extractor + 1
        BY <1>4 DEF Upgrade, directory
      <3>2. pointer # None => pointer[1] <= extractor /\ pointer[1] \in Int /\ extractor \in Int
        BY StateNumbers DEF IndInv
      <3> QED  BY <3>1, <3>2 DEF Current
    <2> QED  BY <1>2, <1>4, <2>1, <2>2 DEF Upgrade, readers, Published!ChangeContract, Published!Next
  <1>5. ASSUME NEW r \in Readers, ChooseGeneration(r) PROVE Published!Ask(r)
    <2>1. Ready' = Ready
      BY <1>5 DEF ChooseGeneration, directory, Ready
    <2> QED  BY <1>5, <2>1 DEF ChooseGeneration, Published!Ask
  <1>6. ASSUME NEW r \in Readers, OpenGeneration(r) PROVE Published!Answer(r)
    <2>1. Ready' = Ready
      BY <1>6 DEF OpenGeneration, directory, Ready
    <2>2. PICK a \in {"missing", "whole"} :
             met' = [met EXCEPT ![r] = a] /\ (a = "missing" => chosen[r] \notin files)
      BY <1>6 DEF OpenGeneration, IndInv, ChosenInv
    <2>3. a = "missing" => chosen[r] # Ready
      BY <1>6, <2>2 DEF OpenGeneration, Ready
    <2> QED  BY <1>6, <2>1, <2>2, <2>3 DEF OpenGeneration, Published!Answer
  <1>7. CASE UNCHANGED <<extractor, pointer, chosen, met>>
    BY <1>7, UnseenSteps
  <1>8. CASE \E p \in Procs : PrepareStep(p)
    BY <1>7, <1>8 DEF PrepareStep, StartCall, RemoveSuperseded, RecordGeneration,
                CreateGeneration, PrepareFails, directory, readers
  <1>9. ASSUME NEW p \in Procs, BuildStep(p), ~RenamePointer(p)
        PROVE  UNCHANGED <<extractor, pointer, chosen, met>>
    BY <1>9 DEF BuildStep, BuildEnds, Discards, Finalize, TakeSlot, PublishFails,
                SyncDirectory, Discard, Unlock, SetFinished, BuildPanics, directory, readers
  <1>10. CASE \E p \in Procs : WaitStep(p) \/ EndProcess(p)
    BY <1>7, <1>10 DEF WaitStep, GiveUp, TakeResult, EndProcess, directory, readers
  <1>11. CASE DamageRecord
    BY <1>7, <1>11 DEF DamageRecord, readers
  <1>12. CASE UNCHANGED vars
    BY <1>7, <1>12 DEF vars, directory, readers
  <1> QED
    BY <1>3, <1>4, <1>5, <1>6, <1>7, <1>8, <1>9, <1>10, <1>11, <1>12 DEF Next, Published!Next

\* To its queries the directory is one index that is replaced at once by newer
\* ones: a behaviour of CodeIndex, its builds, failures, kills and upgrades
\* forgotten, is a behaviour of PublishedIndex (sync, BuildJob::run,
\* IndexState::read), for every number of processes, readers and generations.
THEOREM DirectoryImplementsPublished == DirSyncMayFail = FALSE /\ Spec => ImplementsPublished
  <1> SUFFICES ASSUME DirSyncMayFail = FALSE PROVE Spec => ImplementsPublished
    OBVIOUS
  <1>1. Init => Published!Init
    BY DEF Init, Published!Init, Ready
  <1>2. IndInv /\ IndInv' /\ [Next]_vars => [Published!Next]_(Published!vars)
    BY RefinesStep
  <1> QED  BY <1>1, <1>2, Invariance, PTL DEF Spec, ImplementsPublished, Published!Spec
=============================================================================
