--------------------------- MODULE IngestionProofs ---------------------------
(***************************************************************************)
(* Proof that the ingestion worker keeps the discipline that the control   *)
(* plane's guarantees rest on, as long as no published output is reclaimed *)
(* while the recovery log records it: the worker implements ControlPlane,  *)
(* never comes to an output it cannot go on with, and meets no conflict    *)
(* that does not pass.                                                     *)
(***************************************************************************)
EXTENDS IngestionSteps, FiniteSetTheorems

\* Most leaves are first-order and set reasoning, which Zenon does at once; SMT
\* does the arithmetic.
USE ZenonT(3), SMTT(20)

-----------------------------------------------------------------------------
(* The reconciliation.                                                     *)

Unreferenced == UnreferencedSegments \cup UnreferencedLetters

\* What local metadata does not reference is the one open output, which
\* recovery has decided to rebuild.
LEMMA UnreferencedOpen ==
    ASSUME IngestionTypeOK, RowsPaired, Decisions, OneOpen, NEW o \in Unreferenced
    PROVE  /\ o \in Object /\ o \in LogOutputs /\ Open(o) /\ o \notin staged /\ o \notin Referenced
           /\ OutputState(o) = "PLANNED"
<1>1. /\ o \in Object /\ o \notin Referenced
      /\ OutputState(o) \in {"PLANNED", "UPLOADED"}
  <2>1. CASE o \in UnreferencedSegments
    BY <2>1 DEF UnreferencedSegments, RowsPaired, OutputState, IngestionOutputState, Object
  <2>2. CASE o \in UnreferencedLetters
    BY <2>2, IdentityAssumption DEF UnreferencedLetters, OutputState, DeadLetterOutputState, Object
  <2>3. QED
    BY <2>1, <2>2 DEF Unreferenced
<1>2. o \in LogOutputs /\ Open(o) /\ ~Dead(o)
  BY <1>1 DEF OneOpen, Open, Dead
<1>3. PICK i \in 1..Len(log) : o = log[i].output
  BY <1>2 DEF LogOutputs
<1>4. i \in dropped
  BY <1>1, <1>3 DEF Referenced, Kept
<1>5. QED
  BY <1>1, <1>2, <1>3, <1>4 DEF Decisions

\* The smaller of a positive limit and one.
LEMMA MinOne ==
    ASSUME NEW a \in Nat \ {0}
    PROVE  Min({a, 1}) # 0
<1>1. \E x \in {a, 1} : \A y \in {a, 1} : x <= y
  OBVIOUS
<1>2. QED
  BY <1>1 DEF Min

\* The limit on one reconciliation leaves nothing out.
LEMMA ReconciledAll ==
    ASSUME IngestionTypeOK, RowsPaired, Decisions, OneOpen,
           NEW S \in SUBSET Segment, NEW D \in SUBSET DeadLetter, ReconcileOutputs(S, D)
    PROVE  S = UnreferencedSegments /\ D = UnreferencedLetters
<1> DEFINE U == UnreferencedSegments
           L == UnreferencedLetters
<1>1. /\ S \subseteq U /\ D \subseteq L
      /\ Cardinality(S) = Min({ReconciliationLimit, Cardinality(U)})
      /\ Cardinality(D) = Min({ReconciliationLimit - Cardinality(S), Cardinality(L)})
  BY DEF ReconcileOutputs
<1>2. \A x, y \in U \cup L : x = y
  BY UnreferencedOpen DEF OneOpen, Unreferenced
<1>3. U \cap L = {}
  BY IdentityAssumption DEF UnreferencedSegments, UnreferencedLetters
<1>4. ReconciliationLimit \in Nat \ {0}
  BY BatchAssumption
<1>5. Cardinality({}) = 0
  BY FS_EmptySet
<1> HIDE DEF U, L
<1>6. CASE U # {}
  <2>1. PICK x : U = {x}
    BY <1>2, <1>6
  <2>2. Cardinality(U) = 1
    BY <2>1, FS_Singleton
  <2>3. S # {}
    BY <1>1, <1>4, <1>5, <2>2, MinOne
  <2>4. S = U /\ L = {}
    BY <1>1, <1>2, <1>3, <2>1, <2>3
  <2>5. QED
    BY <1>1, <2>4 DEF U, L
<1>7. CASE U = {} /\ L # {}
  <2>1. PICK x : L = {x}
    BY <1>2, <1>7
  <2>2. Cardinality(L) = 1
    BY <2>1, FS_Singleton
  <2>3. S = {} /\ Cardinality(S) = 0
    BY <1>1, <1>5, <1>7
  <2>4. D # {}
    BY <1>1, <1>4, <1>5, <2>2, <2>3, MinOne
  <2>5. QED
    BY <1>1, <1>7, <2>1, <2>3, <2>4 DEF U, L
<1>8. CASE U = {} /\ L = {}
  BY <1>1, <1>8 DEF U, L
<1>9. QED
  BY <1>6, <1>7, <1>8

\* It abandons what is not referenced, and moves no other output.
LEMMA ReconcileMoves ==
    ASSUME TypeOK, RowsPaired, Publications,
           \/ UNCHANGED vars /\ Unreferenced = {}
           \/ ReconcileUnreferencedOutputs(UnreferencedSegments, UnreferencedLetters)
    PROVE  /\ UNCHANGED <<producer, bytes, published>>
           /\ \A s \in Segment : segState'[s] = "SUPERSEDED" => segState[s] = "SUPERSEDED"
           /\ \A o \in Object : /\ objState'[o] = "REMOVED" => objState[o] = "REMOVED"
                                /\ o \in Unreferenced => OutputState(o)' = "ABANDONED"
                                /\ o \notin Unreferenced => OutputState(o)' = OutputState(o)
<1>1. CASE UNCHANGED vars /\ Unreferenced = {}
  BY <1>1, LocalStates
<1>2. CASE ReconcileUnreferencedOutputs(UnreferencedSegments, UnreferencedLetters)
  <2> DEFINE U == UnreferencedSegments
             L == UnreferencedLetters
  <2>1. /\ U \subseteq Segment /\ L \subseteq DeadLetter
        /\ \A s \in U : segState[s] = "PREPARED"
        /\ \A d \in L : objState[d] \in {"PLANNED", "UPLOADED"}
    BY DEF UnreferencedSegments, UnreferencedLetters
  <2>2. /\ UNCHANGED <<producer, bytes, published>>
        /\ \A s \in Segment : segState'[s] = IF s \in U THEN "ABANDONED" ELSE segState[s]
        /\ \A o \in Object : objState'[o] = IF o \in L THEN "DELETE_PENDING" ELSE objState[o]
        /\ \A o \in Object : o \notin U => reclaimAfter'[o] = reclaimAfter[o]
    BY <1>2 DEF ReconcileUnreferencedOutputs, TypeOK, Update, Object, storeVars, historyVars
  <2> HIDE DEF U, L
  <2>3. ASSUME NEW o \in U PROVE OutputState(o)' = "ABANDONED"
    <3>1. segState'[o] = "ABANDONED" /\ objState'[o] \in {"PLANNED", "UPLOADED"} /\ o \in Segment
      BY <2>1, <2>2, <2>3, IdentityAssumption DEF RowsPaired, Object
    <3>2. QED
      BY <3>1 DEF OutputState, IngestionOutputState
  <2>4. ASSUME NEW o \in L PROVE OutputState(o)' = "ABANDONED"
    <3>1. objState'[o] = "DELETE_PENDING" /\ reclaimAfter'[o] = 0 /\ o \notin Segment
      BY <2>1, <2>2, <2>4, IdentityAssumption DEF Publications, Object
    <3>2. OutputState(o)' = DeadLetterOutputState(o)'
      BY <3>1 DEF OutputState
    <3>3. ~(reclaimAfter'[o] > 0)
      BY <3>1
    <3>4. QED
      BY <3>1, <3>2, <3>3 DEF DeadLetterOutputState
  <2>5. ASSUME NEW o \in Object, o \notin U \cup L PROVE OutputState(o)' = OutputState(o)
    <3>1. /\ objState'[o] = objState[o] /\ reclaimAfter'[o] = reclaimAfter[o]
          /\ o \in Segment => segState'[o] = segState[o]
      BY <2>2, <2>5
    <3>2. QED
      BY <3>1, SameState
  <2>6. Unreferenced = U \cup L
    BY DEF Unreferenced, U, L
  <2>7. QED
    BY <2>2, <2>3, <2>4, <2>5, <2>6
<1>3. QED
  BY <1>1, <1>2

\* The reconciliation makes what recovery rebuilds dead, and leaves what it
\* resumes alone.
LEMMA ReconcileDiscipline ==
    ASSUME DisciplineInvariant, IngestionNext,
           NEW S \in SUBSET Segment, NEW D \in SUBSET DeadLetter, ReconcileOutputs(S, D)
    PROVE  Discipline'
<1> USE DEF DisciplineInvariant, DeliveryInvariant
<1>1. /\ UNCHANGED <<log, spool, staged, appended, dropped, publishing>>
      /\ phase = "resolving" /\ cursor > Len(log) /\ phase' = "resuming" /\ cursor' = 1
  BY DEF ReconcileOutputs, diskVars
<1>2. S = UnreferencedSegments /\ D = UnreferencedLetters
  BY ReconciledAll
<1>3. \/ UNCHANGED vars /\ Unreferenced = {}
      \/ ReconcileUnreferencedOutputs(UnreferencedSegments, UnreferencedLetters)
  BY <1>2 DEF ReconcileOutputs, Unreferenced
<1>4. /\ UNCHANGED <<producer, bytes, published>>
      /\ \A s \in Segment : segState'[s] = "SUPERSEDED" => segState[s] = "SUPERSEDED"
      /\ \A o \in Object : /\ objState'[o] = "REMOVED" => objState[o] = "REMOVED"
                           /\ o \in Unreferenced => OutputState(o)' = "ABANDONED"
                           /\ o \notin Unreferenced => OutputState(o)' = OutputState(o)
  BY <1>3, ReconcileMoves DEF IngestionTypeOK
<1>5. \A o \in Unreferenced : /\ o \in Object /\ o \notin staged /\ o \notin Referenced
                              /\ OutputState(o) = "PLANNED" /\ Open(o)
  BY UnreferencedOpen
<1>6. \A o \in LogOutputs : o \in Object
  BY RecordTypes DEF LogOutputs
<1>7. \A o \in Object : /\ Dead(o) => Dead(o)'
                        /\ Open(o)' => Open(o)
                        /\ OutputState(o) = "PUBLISHED" => OutputState(o)' = "PUBLISHED"
  BY <1>1, <1>4, <1>5 DEF Dead, Open
<1>8. /\ LogOutputs' = LogOutputs /\ LogItems' = LogItems /\ SpoolItems' = SpoolItems
      /\ (UNION {Items(c) : c \in appended})' = UNION {Items(c) : c \in appended}
      /\ Kept' = Kept
  BY <1>1 DEF LogOutputs, LogItems, SpoolItems, Items, Kept
<1>9. Decisions'
  <2>1. \A o \in staged' : /\ o \in LogOutputs'
                           /\ OutputState(o)' # "ABANDONED" /\ objState'[o] # "REMOVED"
    BY <1>1, <1>4, <1>5, <1>6, <1>8 DEF Decisions
  <2>2. ASSUME NEW i \in dropped, NEW o, o = log[i].output PROVE Dead(o)'
    <3>1. i \in 1..Len(log) /\ o \in LogOutputs /\ o \in Object
      BY <1>6, <2>2 DEF LogOutputs, IngestionTypeOK
    <3>2. CASE Dead(o)
      BY <1>7, <3>1, <3>2
    <3>3. CASE OutputState(o) = "PLANNED" /\ o \notin staged
      <4>1. o \notin Referenced
        BY <2>2, <3>1 DEF Referenced, Kept, Recorded, RecordMatches
      <4>2. o \in Unreferenced
        <5>1. CASE o \in Segment
          BY <3>3, <4>1, <5>1 DEF Unreferenced, UnreferencedSegments, OneOpen, OutputState,
             IngestionOutputState
        <5>2. CASE o \notin Segment
          BY <3>1, <3>3, <4>1, <5>2 DEF Unreferenced, UnreferencedLetters, OutputState,
             DeadLetterOutputState, Object
        <5>3. QED
          BY <5>1, <5>2
      <4>3. QED
        BY <1>1, <1>4, <3>1, <3>3, <4>2 DEF Dead
    <3>4. QED
      BY <2>2, <3>2, <3>3 DEF Decisions
  <2>3. ASSUME NEW i \in Kept, NEW o, o = log[i].output PROVE Publishable(o)'
    <3>1. i \in 1..Len(log) /\ i < cursor /\ o \in LogOutputs /\ o \in Object /\ o \in Referenced
      BY <1>1, <1>6, <2>3 DEF Kept, LogOutputs, Referenced, IngestionTypeOK
    <3>2. Publishable(o)
      BY <2>3, <3>1 DEF Decisions
    <3>3. QED
      BY <1>1, <1>4, <1>5, <3>1, <3>2 DEF Publishable
  <2>4. ASSUME NEW i \in 1..Len(log) PROVE ~Settled(i)'
    <3>1. phase' = "resuming" /\ ~(i < cursor')
      BY <1>1
    <3>2. QED
      BY <3>1 DEF Settled
  <2>5. QED
    BY <1>1, <1>8, <2>1, <2>2, <2>3, <2>4 DEF Decisions
<1>10. OneOpen'
  <2>1. \A o \in Object : OutputState(o)' \in {"PLANNED", "UPLOADED"} => o \in LogOutputs
    BY <1>4 DEF OneOpen
  <2>2. QED
    BY <1>4, <1>6, <1>7, <1>8, <2>1 DEF OneOpen
<1>11. \A i \in 1..Len(log) : \A o \in {log[i].output} :
          /\ Dead(o) => Dead(log[i].output)'
          /\ OutputState(o) = "PUBLISHED" => OutputState(log[i].output)' = "PUBLISHED"
  BY <1>1, <1>6, <1>7 DEF LogOutputs
<1>12. Rebuilt'
  BY <1>1, <1>11 DEF Rebuilt
<1>13. Replayed'
  BY <1>1, <1>4, <1>8, <1>11 DEF Replayed
<1>14. LettersApart'
  <2>1. StoreStep
    BY <1>3 DEF StoreStep, QuietStep, UnreferencedSegments, UnreferencedLetters
  <2>2. QED
    BY <1>1, <2>1, LettersApartFramed
<1>15. QED
  BY <1>9, <1>10, <1>12, <1>13, <1>14 DEF Discipline

-----------------------------------------------------------------------------
(* The theorems.                                                           *)

\* A stuttering step keeps everything.
LEMMA StutterDiscipline ==
    ASSUME DisciplineInvariant, UNCHANGED allVars
    PROVE  Discipline'
<1> USE DEF DisciplineInvariant, DeliveryInvariant
<1>1. UNCHANGED <<vars, log, spool, appended, staged, dropped, publishing, phase, cursor>>
  BY DEF allVars, ingestionVars, diskVars, workerVars
<1>2. /\ UNCHANGED <<segState, objState, producer, bytes, batchOf, published>>
      /\ \A o : OutputState(o)' = OutputState(o)
  BY <1>1, LocalStates
<1>3. Decisions'
  BY <1>1, <1>2 DEF Decisions, Dead, Publishable, Settled, Kept, LogOutputs
<1>4. QED
  BY <1>1, <1>3, LocalDiscipline DEF Discipline

\* Before the first batch there is nothing to keep in order.
LEMMA DisciplineInit == IngestionInit => DisciplineInvariant
<1> SUFFICES ASSUME IngestionInit PROVE DisciplineInvariant
  OBVIOUS
<1>1. DeliveryInvariant /\ RowsPaired /\ BytesBacked
  BY DeliveryInit, StoredInit DEF IngestionInit, Stored
<1>2. /\ log = <<>> /\ spool = <<>> /\ staged = {} /\ dropped = {} /\ published = {}
      /\ 1..Len(log) = {} /\ 1..Len(spool) = {} /\ phase = "reading"
      /\ \A o \in Object : objState[o] = "NONE"
      /\ \A s \in Segment : segState[s] = "NONE" /\ producer[s] = None
  BY DEF IngestionInit, Init
<1>3. Kept = {} /\ LogOutputs = {} /\ LogItems = {} /\ SpoolItems = {}
  BY <1>2 DEF Kept, LogOutputs, LogItems, SpoolItems
<1>4. \A o \in Object : OutputState(o) = "UNREGISTERED"
  BY <1>2 DEF OutputState, IngestionOutputState, DeadLetterOutputState, Object
<1>5. Decisions /\ OneOpen /\ Rebuilt /\ Replayed
  BY <1>2, <1>3, <1>4 DEF Decisions, OneOpen, Rebuilt, Replayed
<1>6. LettersApart
  BY <1>2 DEF LettersApart, Object, IngestionInit, Init
<1>7. QED
  BY <1>1, <1>5, <1>6 DEF DisciplineInvariant

\* Every step keeps the discipline, while the outputs in the log are retained.
LEMMA DisciplineStep ==
    DisciplineInvariant /\ RecordedRetained /\ [IngestionNext]_allVars => DisciplineInvariant'
<1> SUFFICES ASSUME DisciplineInvariant, RecordedRetained, [IngestionNext]_allVars
             PROVE  DisciplineInvariant'
  OBVIOUS
<1>1. DeliveryInvariant'
  BY DeliveryStep DEF DisciplineInvariant
<1>2. RowsPaired' /\ BytesBacked'
  BY StoredKept
<1>3. Discipline'
  BY FramedDiscipline, MoveDiscipline, ResolveDiscipline, RestartDiscipline,
     FinishDiscipline, AppendDiscipline, StagesDiscipline, TruncateDiscipline,
     ReclaimDiscipline, ReconcileDiscipline, StutterDiscipline DEF IngestionNext
<1>4. QED
  BY <1>1, <1>2, <1>3 DEF DisciplineInvariant, Discipline

\* The discipline holds in every state that is reached while the outputs in
\* the log are retained.
THEOREM DisciplineCorrect == IngestionSpec /\ []RecordedRetained => []DisciplineInvariant
BY DisciplineInit, DisciplineStep, PTL DEF IngestionSpec

\* The worker of processing.rs implements the control plane's specification:
\* every output has a new identity, and its rows are registered only while
\* they are neither published nor held by another output.
THEOREM ImplementsControlPlaneCorrect ==
    IngestionSpec /\ []RecordedRetained => ImplementsControlPlane
<1>1. IngestionInit => Init
  BY DEF IngestionInit
<1>2. DisciplineInvariant /\ [IngestionNext]_allVars => [Next]_vars
  BY StepAllowed
<1>3. QED
  BY <1>1, <1>2, DisciplineCorrect, PTL DEF ImplementsControlPlane, IngestionSpec, Spec

\* An output that can be published is not dead.
LEMMA PublishableAlive ==
    ASSUME NEW o, Publishable(o)
    PROVE  ~Dead(o)
BY DEF Publishable, Dead

\* publish_record can go on with every output it comes to, and recovery and
\* the checkpoint find no record covered twice.
THEOREM RecoveryProceedsCorrect ==
    IngestionSpec /\ []RecordedRetained => []RecoveryProceeds
<1>1. DisciplineInvariant => RecoveryProceeds
  <2> SUFFICES ASSUME DisciplineInvariant PROVE RecoveryProceeds
    OBVIOUS
  <2> USE DEF DisciplineInvariant, DeliveryInvariant
  <2>1. PublicationProceeds
    <3> SUFFICES ASSUME Publishing PROVE Publishable(Output)
      BY DEF PublicationProceeds
    <3>1. Current \in Kept /\ phase # "resolving"
      BY CurrentRecorded DEF Publishing, Positions
    <3>2. QED
      BY <3>1 DEF Decisions, Output
  <2>2. CoverageDisjoint
    <3> SUFFICES ASSUME phase # "resolving", NEW i \in Kept, NEW j \in Kept, i < j,
                        log[i].items \cap log[j].items # {}
                 PROVE  FALSE
      BY DEF CoverageDisjoint, CoverageDisjointUpTo
    <3>1. Dead(log[i].output)
      BY DEF Rebuilt, Kept
    <3>2. Publishable(log[i].output)
      BY DEF Decisions
    <3>3. QED
      BY <3>1, <3>2, PublishableAlive
  <2>3. QED
    BY <2>1, <2>2 DEF RecoveryProceeds
<1>2. QED
  BY <1>1, DisciplineCorrect, PTL

\* A dead letter meets only rows that nothing relies on and that metadata
\* cleanup will remove.
THEOREM LetterConflictPassesCorrect ==
    IngestionSpec /\ []RecordedRetained => []LetterConflictPasses
<1>1. DisciplineInvariant => LetterConflictPasses
  <2> SUFFICES ASSUME DisciplineInvariant, Publishing, Output \in DeadLetter,
                      OutputState(Output) = "UNREGISTERED",
                      NEW d \in DeadLetter \ {Output}, batchOf[d] \in log[Current].items
               PROVE  d \notin Referenced /\ objState[d] \in {"DELETE_PENDING", "DELETED", "REMOVED"}
    BY DEF LetterConflictPasses
  <2> USE DEF DisciplineInvariant, DeliveryInvariant
  <2>1. Current \in Kept /\ Current \in 1..Len(log) /\ phase # "resolving"
    BY CurrentRecorded DEF Publishing, Positions
  <2>2. Output = log[Current].output /\ ~Dead(log[Current].output)
    BY <2>1, PublishableAlive DEF Decisions, Output
  <2>3. objState[d] # "NONE"
    <3>1. batchOf[d] \in Batch
      BY <2>1, <2>2, IdentityAssumption DEF Recorded, RecordMatches
    <3>2. QED
      BY <3>1, IdentityAssumption DEF LettersApart
  <2>4. d \in LogOutputs
    BY <2>1, <2>3 DEF LettersApart, LogItems
  <2>5. PICK i \in 1..Len(log) : d = log[i].output
    BY <2>4 DEF LogOutputs
  <2>6. i # Current /\ batchOf[d] \in log[i].items
    BY <2>2, <2>3, <2>5, IdentityAssumption DEF Recorded, RecordMatches
  <2>7. i < Current \/ Current < i
    BY ONLY <2>1, <2>6, i \in 1..Len(log), SMT
  <2>8. Dead(d)
    BY <2>1, <2>2, <2>5, <2>6, <2>7 DEF Rebuilt
  <2>9. objState[d] \in {"DELETE_PENDING", "DELETED", "REMOVED"}
    BY <2>3, <2>8, IdentityAssumption
       DEF Dead, OutputState, DeadLetterOutputState, IngestionTypeOK, TypeOK, ObjectStates, Object
  <2>10. d \notin Referenced
    BY <2>1, <2>8, PublishableAlive DEF Decisions, Referenced
  <2>11. QED
    BY <2>9, <2>10
<1>2. QED
  BY <1>1, DisciplineCorrect, PTL

-----------------------------------------------------------------------------
(* The hypothesis holds when the retention is long against the life of the *)
(* log.                                                                    *)

\* No published output falls due.
LEMMA NothingDueStep ==
    ASSUME RetentionSuffices, DisciplineInvariant, NothingDue, [IngestionNext]_allVars
    PROVE  NothingDue'
<1>1. TypeOK /\ RowsPaired /\ Publications
  BY DEF DisciplineInvariant, DeliveryInvariant, IngestionTypeOK
<1> USE <1>1, DurationAssumption, IdentityAssumption
    DEF TypeOK, Object, Update, segVars, storeVars, queryVars, historyVars, NothingDue,
        TransactionStart, ReclamationGrace
<1>2. ASSUME NEW o \in Object,
             \/ Upload(o) \/ LatePutLands(o) \/ RecordVerifiedUpload(o)
             \/ DeleteExact(o) \/ RecordDeleted(o)
      PROVE  NothingDue'
  <2>1. CASE Upload(o) \/ LatePutLands(o) \/ DeleteExact(o)
    BY <2>1 DEF Upload, UploadVerified, UploadLeftInFlight, LatePutLands, DeleteExact
  <2>2. CASE RecordVerifiedUpload(o)
    BY <2>2 DEF RecordVerifiedUpload
  <2>3. CASE RecordDeleted(o)
    BY <2>3 DEF RecordDeleted
  <2>4. QED
    BY <1>2, <2>1, <2>2, <2>3
<1>3. ASSUME NEW S \in SUBSET Segment, NEW D \in SUBSET DeadLetter,
             ReconcileUnreferencedOutputs(S, D)
      PROVE  NothingDue'
  BY <1>3 DEF ReconcileUnreferencedOutputs, RowsPaired, Publications
<1>4. ASSUME NEW S \in SUBSET Segment, ExpireSegments(S) PROVE NothingDue'
  BY <1>4 DEF ExpireSegments, RowsPaired
<1>5. ASSUME NEW S \in SUBSET Object, ClaimReclamation(S) PROVE NothingDue'
  BY <1>5 DEF ClaimReclamation, InitialCandidate, RetentionSuffices
<1>6. ASSUME NEW D \in SUBSET Object, CleanTerminalMetadata(D, {}) PROVE NothingDue'
  BY <1>6 DEF CleanTerminalMetadata
<1>7. ASSUME Tick PROVE NothingDue'
  BY <1>7 DEF Tick
<1>8. ASSUME UNCHANGED vars PROVE NothingDue'
  BY <1>8 DEF vars
<1>9. ASSUME NEW s \in Segment, PublishIngestionSegment(s) PROVE NothingDue'
  BY <1>9 DEF PublishIngestionSegment, RowsPaired
<1>10. ASSUME NEW d \in DeadLetter, PublishDeadLetter(d) PROVE NothingDue'
  BY <1>10 DEF PublishDeadLetter
<1>11. ASSUME NEW s \in Segment, NEW R \in SUBSET Row, RegisterIngestionSegment(s, R)
       PROVE  NothingDue'
  BY <1>11 DEF RegisterIngestionSegment, InsertPrepared
<1>12. ASSUME NEW d \in DeadLetter, NEW b \in Batch, RegisterDeadLetter(d, b) PROVE NothingDue'
  BY <1>12 DEF RegisterDeadLetter, InsertPlannedLetter
<1> HIDE DEF TypeOK, Object, Update, segVars, storeVars, queryVars, historyVars, NothingDue,
        TransactionStart, ReclamationGrace
<1>13. StoreStep \/ Registration
  BY StoreSteps, RegistrationAllowed DEF DisciplineInvariant, DeliveryInvariant
<1>14. QED
  BY <1>2, <1>3, <1>4, <1>5, <1>6, <1>7, <1>8, <1>9, <1>10, <1>11, <1>12, <1>13
     DEF StoreStep, QuietStep, Registration

\* What is not due is not reclaimed.
LEMMA NothingDueRetained ==
    ASSUME DisciplineInvariant, NothingDue
    PROVE  RecordedRetained
<1> SUFFICES ASSUME NEW o \in Object, OutputState(o) = "PUBLISHED"
             PROVE  objState[o] = "PUBLISHED"
  BY RecordTypes DEF RecordedRetained, DisciplineInvariant, DeliveryInvariant
<1>1. CASE o \in Segment
  BY <1>1 DEF DisciplineInvariant, OneOpen, NothingDue, OutputState, IngestionOutputState
<1>2. CASE o \notin Segment
  <2>1. o \in DeadLetter /\ DeadLetterOutputState(o) = "PUBLISHED"
    BY <1>2 DEF OutputState, Object
  <2>2. objState[o] \in {"DELETE_PENDING", "DELETED"} => reclaimAfter[o] = 0
    BY <2>1 DEF NothingDue
  <2>3. objState[o] \in {"DELETE_PENDING", "DELETED"} => ~(reclaimAfter[o] > 0)
    BY <2>2
  <2>4. QED
    BY <2>1, <2>3 DEF DeadLetterOutputState
<1>3. QED
  BY <1>1, <1>2

\* Without time enough for anything to fall due, the hypothesis of the
\* theorems above holds of itself.
THEOREM RetainedWhileNothingDue ==
    ASSUME RetentionSuffices
    PROVE  IngestionSpec => [](DisciplineInvariant /\ RecordedRetained)
<1>1. IngestionInit => DisciplineInvariant /\ NothingDue
  BY DisciplineInit, DurationAssumption DEF IngestionInit, Init, NothingDue, Object
<1>2. DisciplineInvariant /\ NothingDue => RecordedRetained
  BY NothingDueRetained
<1>3. DisciplineInvariant /\ NothingDue /\ [IngestionNext]_allVars
         => (DisciplineInvariant /\ NothingDue)'
  BY <1>2, DisciplineStep, NothingDueStep
<1>4. QED
  BY <1>1, <1>2, <1>3, PTL DEF IngestionSpec

-----------------------------------------------------------------------------
\* Only publish_record turns a prepared segment into an active one.
LEMMA QuietActive ==
    ASSUME TypeOK, QuietStep \/ Registration, NEW s \in Segment, segState'[s] = "ACTIVE"
    PROVE  segState[s] = "ACTIVE"
<1> USE DEF TypeOK, Object, Update, segVars, storeVars, queryVars, historyVars
<1>1. ASSUME NEW o \in Object,
             \/ Upload(o) \/ LatePutLands(o) \/ RecordVerifiedUpload(o)
             \/ DeleteExact(o) \/ RecordDeleted(o)
      PROVE  segState' = segState
  BY <1>1 DEF Upload, UploadVerified, UploadLeftInFlight, LatePutLands, RecordVerifiedUpload,
              DeleteExact, RecordDeleted
<1>2. ASSUME NEW S \in SUBSET Segment, NEW D \in SUBSET DeadLetter, ReconcileUnreferencedOutputs(S, D)
      PROVE  segState[s] = "ACTIVE"
  BY <1>2 DEF ReconcileUnreferencedOutputs
<1>3. ASSUME NEW S \in SUBSET Segment, ExpireSegments(S) PROVE segState[s] = "ACTIVE"
  BY <1>3 DEF ExpireSegments
<1>4. ASSUME NEW S \in SUBSET Object, ClaimReclamation(S) PROVE segState[s] = "ACTIVE"
  BY <1>4 DEF ClaimReclamation
<1>5. ASSUME NEW D \in SUBSET Object, CleanTerminalMetadata(D, {}) PROVE segState[s] = "ACTIVE"
  BY <1>5 DEF CleanTerminalMetadata
<1>6. ASSUME Tick \/ UNCHANGED vars PROVE segState[s] = "ACTIVE"
  BY <1>6 DEF Tick, vars
<1>7. ASSUME Registration PROVE segState[s] = "ACTIVE"
  BY <1>7 DEF Registration, RegisterIngestionSegment, RegisterDeadLetter, InsertPrepared,
              InsertPlannedLetter
<1> HIDE DEF TypeOK, Object, Update, segVars, storeVars, queryVars, historyVars
<1>8. QED
  BY <1>1, <1>2, <1>3, <1>4, <1>5, <1>6, <1>7 DEF QuietStep

\* No row gets a second occurrence while the outputs in the log are retained:
\* the replay that IngestionReplay exhibits needs an output that was reclaimed
\* while the log recorded it.
THEOREM NoSecondOccurrenceCorrect ==
    IngestionSpec /\ []RecordedRetained => NoSecondOccurrence
<1> DEFINE Once == \A s \in Segment : segState[s] = "PREPARED" /\ segState'[s] = "ACTIVE"
                      => segRows[s] \cap published = {}
<1>1. DisciplineInvariant /\ [IngestionNext]_allVars => Once
  <2> SUFFICES ASSUME DisciplineInvariant, [IngestionNext]_allVars, NEW s \in Segment,
                      segState[s] = "PREPARED", segState'[s] = "ACTIVE"
               PROVE  segRows[s] \cap published = {}
    OBVIOUS
  <2> USE DEF DisciplineInvariant, DeliveryInvariant
  <2>1. PublishOutput
    BY QuietSteps, RegistrationAllowed, QuietActive DEF IngestionTypeOK
  <2>2. Current \in 1..Len(log) /\ OutputState(Output) = "UPLOADED" /\ TypeOK
    BY <2>1, CurrentRecorded DEF PublishOutput, IngestionTypeOK
  <2>3. s = Output
    BY <2>1, <2>2 DEF PublishOutput, PublishIngestionSegment, PublishDeadLetter, TypeOK, Update,
       segVars
  <2>4. segRows[s] = log[Current].items
    BY <2>2, <2>3 DEF Recorded, RecordMatches, Output
  <2>5. log[Current].items \cap published = {}
    BY <2>2, Unpublished DEF Output, Dead
  <2>6. QED
    BY <2>4, <2>5
<1>2. QED
  BY <1>1, DisciplineCorrect, PTL DEF NoSecondOccurrence, IngestionSpec

=============================================================================
