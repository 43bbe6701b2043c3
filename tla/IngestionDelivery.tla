-------------------------- MODULE IngestionDelivery --------------------------
(***************************************************************************)
(* Proof that the ingestion worker loses nothing that it acknowledged: the *)
(* layers of DeliveryInvariant, one after the other.                       *)
(***************************************************************************)
EXTENDS Ingestion, ControlPlaneStored, WellFoundedInduction

\* Most leaves are first-order and set reasoning, which Zenon does at once; SMT
\* does the arithmetic.
USE ZenonT(3), SMTT(20)

\* The maximum of a nonempty bounded set of naturals exists; checkpoints and
\* coverage ends are such maxima.
LEMMA MaxBounded ==
    ASSUME NEW b \in Nat, NEW T \in SUBSET (0..b), T # {}
    PROVE  Max(T) \in T /\ \A y \in T : Max(T) >= y
<1> DEFINE S == {x \in Nat : b - x \in T}
<1> DEFINE R == OpToRel(<, Nat)
<1>1. PICK y \in T : TRUE
  OBVIOUS
<1>2. S \subseteq Nat /\ b - y \in S
  BY <1>1
<1>3. S # {}
  BY <1>2
<1>4. IsWellFoundedOn(R, Nat)
  BY NatLessThanWellFounded
<1>5. \A x, z \in Nat : x < z => <<x, z>> \in R
  BY DEF OpToRel
<1> HIDE DEF R, S
<1>6. PICK n \in S : \A m \in S : ~ (<<m, n>> \in R)
  BY <1>2, <1>3, <1>4, WFMin
<1> USE DEF S
<1>7. b - n \in T /\ \A z \in T : b - n >= z
  <2> SUFFICES ASSUME NEW z \in T, ~(b - n >= z) PROVE FALSE
    OBVIOUS
  <2>1. b - z \in S /\ b - z < n
    OBVIOUS
  <2>2. QED
    BY <1>5, <1>6, <2>1
<1>8. QED
  BY <1>7 DEF Max

-----------------------------------------------------------------------------
\* The frames of the spool and the records of the log have their types.
LEMMA RecordTypes ==
    ASSUME IngestionTypeOK
    PROVE  /\ \A i \in 1..Len(log) : /\ log[i].output \in Object /\ log[i].end \in Nat
                                     /\ log[i].items \in SUBSET (Row \cup Batch)
           /\ \A k \in 1..Len(spool) : spool[k] \in Batch
           /\ Len(log) \in Nat /\ Len(spool) \in Nat
<1>1. \A i \in 1..Len(log) : log[i] \in OutputRecoveryRecord
  BY DEF IngestionTypeOK
<1>2. /\ \A k \in 1..Len(spool) : spool[k] \in Batch
      /\ Len(log) \in Nat /\ Len(spool) \in Nat
  BY DEF IngestionTypeOK
<1>3. QED
  BY <1>1, <1>2 DEF OutputRecoveryRecord

\* The record that publish_record works on is in the log and relied on.
LEMMA CurrentRecorded ==
    ASSUME IngestionTypeOK, Positions, Publishing
    PROVE  /\ Current \in Kept /\ Current \in 1..Len(log)
           /\ Output \in Object
<1>1. publishing => phase # "resuming" /\ Len(log) \in Kept
  BY DEF Positions
<1>2. Current \in Kept
  BY <1>1 DEF Publishing, Current
<1>3. Current \in 1..Len(log)
  BY <1>2 DEF Kept
<1>4. QED
  BY <1>2, <1>3, RecordTypes DEF Output

\* plan_checkpoint's target lies between the checkpoint and what was read, and
\* every batch that it passes is covered.
LEMMA TargetCovered ==
    ASSUME IngestionTypeOK, Positions, phase = "reading"
    PROVE  /\ Target \in checkpoint..read
           /\ \A k \in (checkpoint + 1)..Target : Items(spool[k]) \subseteq Covered
<1> DEFINE T == {t \in checkpoint..read :
                   \A k \in (checkpoint + 1)..t : Items(spool[k]) \subseteq Covered}
<1>1. checkpoint \in Nat /\ read \in Nat /\ checkpoint <= read
  BY DEF IngestionTypeOK, Positions
<1>2. T \in SUBSET (0..read)
  BY <1>1
<1>3. checkpoint \in T
  BY <1>1
<1> HIDE DEF T
<1>4. Max(T) \in T
  BY <1>1, <1>2, <1>3, MaxBounded
<1>5. Target = Max(T)
  BY DEF Target, T
<1>6. QED
  BY <1>4, <1>5 DEF T

\* The end of an output's coverage is a position of the spool that was read.
LEMMA CoverageEndRead ==
    ASSUME IngestionTypeOK, NEW I, NEW k \in 1..read, Items(spool[k]) \cap I # {}
    PROVE  CoverageEnd(I) \in 1..read
<1> DEFINE T == {n \in 1..read : Items(spool[n]) \cap I # {}}
<1>1. read \in Nat /\ T \in SUBSET (0..read) /\ k \in T
  BY DEF IngestionTypeOK
<1> HIDE DEF T
<1>2. Max(T) \in T
  BY <1>1, MaxBounded
<1>3. QED
  BY <1>2 DEF CoverageEnd, T

\* What stage_output leaves in the log, beside what was there.
LEMMA Staging ==
    ASSUME IngestionTypeOK, NEW o \in Object, NEW I \in SUBSET (Row \cup Batch),
           CoverageEnd(I) \in Nat, StageAndRecord(o, I), dropped' = dropped
    PROVE  /\ log' \in Seq(OutputRecoveryRecord)
           /\ Len(log') = Len(log) + 1 /\ Len(log) \in Nat
           /\ \A i \in 1..Len(log) : log'[i] = log[i]
           /\ log'[Len(log) + 1].output = o /\ log'[Len(log) + 1].items = I
           /\ Kept' = Kept \cup {Len(log) + 1}
           /\ Covered' = Covered \cup I
<1> DEFINE r == [output |-> o, items |-> I, end |-> CoverageEnd(I)]
<1>1. r \in OutputRecoveryRecord /\ r.output = o /\ r.items = I
  BY DEF OutputRecoveryRecord
<1>2. log \in Seq(OutputRecoveryRecord) /\ log' = Append(log, r)
      /\ dropped \in SUBSET (1..Len(log))
  BY DEF IngestionTypeOK, StageAndRecord
<1> HIDE DEF r
<1>3. /\ log' \in Seq(OutputRecoveryRecord)
      /\ Len(log') = Len(log) + 1 /\ Len(log) \in Nat
      /\ \A i \in 1..Len(log) : log'[i] = log[i]
      /\ log'[Len(log) + 1] = r
  BY <1>1, <1>2
<1>4. Kept' = Kept \cup {Len(log) + 1}
  BY <1>2, <1>3 DEF Kept
<1>5. \A i \in Kept : i \in 1..Len(log) /\ log'[i].items = log[i].items
  BY <1>3 DEF Kept
<1>6. Covered' = Covered \cup I
  BY <1>1, <1>3, <1>4, <1>5 DEF Covered
<1>7. QED
  BY <1>1, <1>3, <1>4, <1>6

\* What the two callers of stage_output pass to it.
LEMMA StagedItems ==
    ASSUME IngestionTypeOK, Positions, Built
    PROVE  /\ phase = "letter" => /\ spool[read] \in Batch
                                  /\ CoverageEnd({spool[read]}) \in 1..read
           /\ \A R \in SUBSET building : R # {} => CoverageEnd(R) \in 1..read
<1> USE DEF IngestionTypeOK, Positions
<1>1. ASSUME phase = "letter"
      PROVE  spool[read] \in Batch /\ CoverageEnd({spool[read]}) \in 1..read
  <2>1. read \in 1..Len(spool) /\ spool[read] \in Batch /\ spool[read] \in Rejected
    BY <1>1 DEF Built
  <2>2. read \in 1..read /\ Items(spool[read]) \cap {spool[read]} # {}
    BY <2>1 DEF Items
  <2>3. QED
    BY <2>1, <2>2, CoverageEndRead
<1>2. ASSUME NEW R \in SUBSET building, R # {}
      PROVE  CoverageEnd(R) \in 1..read
  <2>1. PICK x \in R : TRUE
    BY <1>2
  <2>2. PICK k \in (checkpoint + 1)..read : x \in Accepted[spool[k]]
    BY <2>1 DEF Built
  <2>3. k \in 1..read /\ Items(spool[k]) \cap R # {}
    BY <2>1, <2>2 DEF Items
  <2>4. QED
    BY <2>3, CoverageEndRead
<1>3. QED
  BY <1>1, <1>2

-----------------------------------------------------------------------------
(* What the worker's steps are to the control plane.                       *)

\* These steps of the worker touch its own disk and memory only.
LEMMA LocalSteps ==
    ASSUME \/ \E b \in Batch : AppendBatch(b)
           \/ ResolveRecord \/ SkipRebuilt \/ FinishRecovery \/ FinishOutput
           \/ ReadBatch \/ PushBatch
           \/ \E d \in DeadLetter : StageDeadLetter(d)
           \/ \E s \in Segment, R \in SUBSET Row : DrainSealedSegment(s, R)
           \/ FinishDraining \/ SealExpired \/ AdvanceCheckpoint \/ ReclaimDeferred
           \/ ResetCheckpoint \/ TruncateSpool \/ ReclaimLog \/ Restart
           \/ UNCHANGED allVars
    PROVE  UNCHANGED <<vars, lettered>>
BY DEF AppendBatch, ResolveRecord, SkipRebuilt, FinishRecovery, FinishOutput, ReadBatch,
       PushBatch, StageDeadLetter, DrainSealedSegment, FinishDraining, SealExpired,
       AdvanceCheckpoint, ReclaimDeferred, ResetCheckpoint, TruncateSpool, ReclaimLog,
       Restart, allVars, ingestionVars

\* What the worker, maintenance and time do to the control plane, apart from
\* the registration and the publication of outputs.
QuietStep ==
    \/ \E o \in Object : \/ Upload(o) \/ LatePutLands(o) \/ RecordVerifiedUpload(o)
                         \/ DeleteExact(o) \/ RecordDeleted(o)
    \/ \E S \in SUBSET Segment, D \in SUBSET DeadLetter : ReconcileUnreferencedOutputs(S, D)
    \/ \E S \in SUBSET Segment : ExpireSegments(S)
    \/ \E S \in SUBSET Object : ClaimReclamation(S)
    \/ \E D \in SUBSET Object : CleanTerminalMetadata(D, {})
    \/ Tick
    \/ UNCHANGED vars

StoreStep ==
    \/ QuietStep
    \/ \E s \in Segment : PublishIngestionSegment(s)
    \/ \E d \in DeadLetter : PublishDeadLetter(d)

\* The other steps are such transactions and calls.
LEMMA QuietSteps ==
    ASSUME IngestionTypeOK, Positions, [IngestionNext]_allVars, ~RegisterOutput, ~PublishOutput
    PROVE  QuietStep
<1>1. ASSUME VerifyRecovered PROVE QuietStep
  <2>1. cursor \in 1..Len(log)
    BY <1>1 DEF VerifyRecovered, IngestionTypeOK
  <2>2. log[cursor].output \in Object
    BY <2>1, RecordTypes
  <2>3. UploadVerified(log[cursor].output) \/ RecordVerifiedUpload(log[cursor].output)
    BY <1>1 DEF VerifyRecovered
  <2>4. QED
    BY <2>2, <2>3 DEF Upload, QuietStep
<1>2. ASSUME NEW S \in SUBSET Segment, NEW D \in SUBSET DeadLetter, ReconcileOutputs(S, D)
      PROVE  QuietStep
  BY <1>2 DEF ReconcileOutputs, QuietStep
<1>3. ASSUME UploadOutput PROVE QuietStep
  BY <1>3, CurrentRecorded DEF UploadOutput, QuietStep
<1>4. ASSUME Elsewhere PROVE QuietStep
  BY <1>4 DEF Elsewhere, QuietStep
<1>5. QED
  BY <1>1, <1>2, <1>3, <1>4, LocalSteps DEF IngestionNext, QuietStep

\* With publish_record's publication they are all but the registrations.
LEMMA StoreSteps ==
    ASSUME IngestionTypeOK, Positions, [IngestionNext]_allVars, ~RegisterOutput
    PROVE  StoreStep
BY QuietSteps DEF StoreStep, PublishOutput

\* The control plane allows them.
LEMMA StoreStepAllowed == StoreStep => [Next]_vars
BY DEF StoreStep, QuietStep, Next

\* A record of a segment holds rows, a record of a dead letter its batch.
LEMMA RecordedItems ==
    ASSUME Recorded, NEW i \in 1..Len(log)
    PROVE  /\ log[i].output \in Segment => log[i].items \in SUBSET Row
           /\ log[i].output \in DeadLetter => log[i].items \subseteq Batch
<1>1. RecordMatches(i)
  BY DEF Recorded
<1>2. CASE log[i].output \in Segment
  BY <1>1, <1>2, IdentityAssumption DEF RecordMatches
<1>3. CASE log[i].output \notin Segment
  <2>1. PICK b \in Batch : log[i].items = {b}
    BY <1>1, <1>3 DEF RecordMatches
  <2>2. QED
    BY <1>3, <2>1
<1>4. QED
  BY <1>2, <1>3

\* Registration inserts rows of the declared types, for new and for forgotten
\* identities alike.
LEMMA RegistrationTypes ==
    ASSUME IngestionTypeOK, Positions, Recorded, RegisterOutput
    PROVE  TypeOK'
<1>1. /\ Output \in Segment => log[Current].items \in SUBSET Row
      /\ Output \in DeadLetter => log[Current].items \subseteq Batch
  BY CurrentRecorded, RecordedItems DEF RegisterOutput, Output
<1>2. TypeOK
  BY DEF IngestionTypeOK
<1> USE DEF TypeOK, Object, SegmentStates, ObjectStates, Update, segVars, queryVars, historyVars
<1>3. CASE Output \in Segment /\ InsertPrepared(Output, log[Current].items)
  <2>1. log[Current].items \in SUBSET Row
    BY <1>1, <1>3
  <2>2. QED
    BY <1>2, <1>3, <2>1 DEF InsertPrepared
<1>4. ASSUME Output \in DeadLetter, NEW b \in log[Current].items,
             InsertPlannedLetter(Output, b)
      PROVE  TypeOK'
  <2>1. b \in Batch
    BY <1>1, <1>4
  <2>2. QED
    BY <1>2, <1>4, <2>1 DEF InsertPlannedLetter
<1>5. QED
  BY <1>3, <1>4 DEF RegisterOutput

\* The worker and the control plane stay within their types.
LEMMA ControlTypes ==
    ASSUME IngestionTypeOK, Positions, Recorded, [IngestionNext]_allVars
    PROVE  TypeOK'
BY StoreSteps, StoreStepAllowed, RegistrationTypes, TypeStep DEF IngestionTypeOK


\* Only publish_record publishes letters.
LEMMA LetteredKept ==
    ASSUME [IngestionNext]_allVars, ~PublishOutput
    PROVE  lettered' = lettered
<1>1. ASSUME VerifyRecovered \/ RegisterOutput \/ UploadOutput \/ Elsewhere
             \/ \E S \in SUBSET Segment, D \in SUBSET DeadLetter : ReconcileOutputs(S, D)
      PROVE  UNCHANGED lettered
  BY <1>1 DEF VerifyRecovered, RegisterOutput, UploadOutput, Elsewhere, ReconcileOutputs,
              ingestionVars
<1>2. QED
  BY <1>1, LocalSteps DEF IngestionNext

\* A letter is published for the batch that its row names.
LEMMA LetteredTypes ==
    ASSUME IngestionTypeOK, Publications, [IngestionNext]_allVars
    PROVE  lettered' \in SUBSET Batch /\ lettered \subseteq lettered'
<1>1. lettered \in SUBSET Batch
  BY DEF IngestionTypeOK
<1>2. ASSUME PublishOutput PROVE lettered' \in SUBSET Batch /\ lettered \subseteq lettered'
  <2>1. CASE UNCHANGED lettered
    BY <1>1, <2>1
  <2>2. CASE Output \in DeadLetter /\ PublishDeadLetter(Output)
             /\ lettered' = lettered \cup {batchOf[Output]}
    BY <1>1, <2>2 DEF PublishDeadLetter, Publications
  <2>3. QED
    BY <1>2, <2>1, <2>2 DEF PublishOutput
<1>3. QED
  BY <1>1, <1>2, LetteredKept

\* Transactions and calls leave the worker where it is, except that the
\* reconciliation ends the first part of its recovery.
LEMMA WorkerFrame ==
    ASSUME VerifyRecovered \/ RegisterOutput \/ UploadOutput \/ PublishOutput \/ Elsewhere
    PROVE  UNCHANGED <<diskVars, workerVars, appended, crashes>>
BY DEF VerifyRecovered, RegisterOutput, UploadOutput, PublishOutput, Elsewhere, ingestionVars

\* The worker's disk and memory stay within their types.
LEMMA IngestionTypeStep ==
    ASSUME IngestionTypeOK, Positions, Built, Recorded, Publications, [IngestionNext]_allVars
    PROVE  IngestionTypeOK'
<1>1. TypeOK' /\ lettered' \in SUBSET Batch
  BY ControlTypes, LetteredTypes
<1> DEFINE Worker == /\ spool \in Seq(Batch) /\ checkpoint \in Nat
                     /\ log \in Seq(OutputRecoveryRecord)
                     /\ staged \in SUBSET Object
                     /\ phase \in {"resolving", "resuming", "reading", "pushing", "letter",
                                   "draining", "reclaiming", "resetting", "truncated",
                                   "waiting"}
                     /\ cursor \in Nat \ {0} /\ dropped \in SUBSET (1..Len(log))
                     /\ publishing \in BOOLEAN /\ read \in Nat /\ building \in SUBSET Row
                     /\ appended \in SUBSET Batch /\ crashes \in Nat
<1>2. Worker /\ TypeOK
  BY DEF IngestionTypeOK
<1> SUFFICES Worker'
  BY <1>1 DEF IngestionTypeOK
<1> USE <1>2 DEF diskVars, workerVars
<1>3. ASSUME NEW b \in Batch, AppendBatch(b) PROVE Worker'
  BY <1>3 DEF AppendBatch
<1>4. CASE VerifyRecovered \/ RegisterOutput \/ UploadOutput \/ PublishOutput \/ Elsewhere
  BY <1>4, WorkerFrame
<1>5. CASE ResolveRecord
  BY <1>5 DEF ResolveRecord
<1>6. ASSUME NEW S \in SUBSET Segment, NEW D \in SUBSET DeadLetter, ReconcileOutputs(S, D)
      PROVE  Worker'
  BY <1>6 DEF ReconcileOutputs
<1>7. CASE SkipRebuilt \/ FinishRecovery
  <2>1. CASE SkipRebuilt
    BY <2>1 DEF SkipRebuilt
  <2>2. CASE FinishRecovery
    BY <2>2 DEF FinishRecovery
  <2>3. QED
    BY <1>7, <2>1, <2>2
<1>8. CASE FinishOutput
  <2>1. cursor' \in Nat \ {0}
    BY <1>8 DEF FinishOutput
  <2>2. staged' \in SUBSET Object
    BY <1>8 DEF FinishOutput
  <2>3. QED
    BY <1>8, <2>1, <2>2 DEF FinishOutput
<1>9. CASE ReadBatch
  BY <1>9 DEF ReadBatch
<1>10. CASE PushBatch
  <2>1. read \in 1..Len(spool)
    BY <1>10 DEF PushBatch, Positions
  <2>2. NewRows(spool[read]) \in SUBSET Row
    BY <2>1, BatchAssumption DEF NewRows
  <2>3. QED
    BY <1>10, <2>2 DEF PushBatch
<1>11. ASSUME NEW o \in Object, NEW I \in SUBSET (Row \cup Batch), CoverageEnd(I) \in Nat,
              StageAndRecord(o, I), dropped' = dropped
       PROVE  /\ log' \in Seq(OutputRecoveryRecord) /\ staged' \in SUBSET Object
              /\ dropped' \in SUBSET (1..Len(log')) /\ publishing' \in BOOLEAN
  <2>1. log' \in Seq(OutputRecoveryRecord) /\ Len(log') = Len(log) + 1 /\ Len(log) \in Nat
    BY <1>11, Staging
  <2>2. QED
    BY <1>11, <2>1 DEF StageAndRecord
<1>12. ASSUME NEW d \in DeadLetter, StageDeadLetter(d) PROVE Worker'
  <2>1. spool[read] \in Batch /\ CoverageEnd({spool[read]}) \in Nat
    BY <1>12, StagedItems DEF StageDeadLetter
  <2>2. StageAndRecord(d, {spool[read]}) /\ d \in Object /\ dropped' = dropped
    BY <1>12 DEF StageDeadLetter, Object
  <2>3. QED
    BY <1>11, <1>12, <2>1, <2>2 DEF StageDeadLetter
<1>13. ASSUME NEW s \in Segment, NEW R \in SUBSET Row, DrainSealedSegment(s, R)
       PROVE  Worker'
  <2>1. CoverageEnd(R) \in Nat
    BY <1>13, StagedItems DEF DrainSealedSegment
  <2>2. StageAndRecord(s, R) /\ s \in Object /\ dropped' = dropped
    BY <1>13 DEF DrainSealedSegment, Object
  <2>3. QED
    BY <1>11, <1>13, <2>1, <2>2 DEF DrainSealedSegment
<1>14. CASE FinishDraining \/ SealExpired \/ ReclaimDeferred
  BY <1>14 DEF FinishDraining, SealExpired, ReclaimDeferred
<1>15. CASE AdvanceCheckpoint
  <2>1. Target \in Nat
    BY <1>15, TargetCovered DEF AdvanceCheckpoint
  <2>2. QED
    BY <1>15, <2>1 DEF AdvanceCheckpoint
<1>16. CASE ResetCheckpoint \/ TruncateSpool
  <2>1. CASE ResetCheckpoint
    BY <2>1 DEF ResetCheckpoint
  <2>2. CASE TruncateSpool
    BY <2>2 DEF TruncateSpool
  <2>3. QED
    BY <1>16, <2>1, <2>2
<1>17. CASE ReclaimLog
  BY <1>17 DEF ReclaimLog
<1>18. CASE Restart
  <2>1. staged' \in SUBSET Object
    BY <1>18 DEF Restart
  <2>2. crashes' \in Nat
    BY <1>18 DEF Restart
  <2>3. /\ spool' = spool /\ checkpoint' = checkpoint /\ log' = log /\ appended' = appended
        /\ phase' = "resolving" /\ cursor' = 1 /\ dropped' = {} /\ publishing' = FALSE
        /\ read' = checkpoint /\ building' = {}
    BY <1>18 DEF Restart
  <2>4. dropped' \in SUBSET (1..Len(log')) /\ building' \in SUBSET Row
    BY <2>3
  <2>5. publishing' \in BOOLEAN
    BY <2>3
  <2>6. cursor' \in Nat \ {0}
    BY <2>3
  <2>7. read' \in Nat
    BY <2>3
  <2>8. QED
    BY <2>1, <2>2, <2>3, <2>4, <2>5, <2>6, <2>7
<1>19. CASE UNCHANGED allVars
  BY <1>19 DEF allVars, ingestionVars
<1> HIDE DEF Worker
<1>20. QED
  BY <1>3, <1>4, <1>5, <1>6, <1>7, <1>8, <1>9, <1>10, <1>12, <1>13, <1>14, <1>15, <1>16,
     <1>17, <1>18, <1>19 DEF IngestionNext

-----------------------------------------------------------------------------
\* The positions of a step that leaves the worker where it is.
LEMMA PositionsFrame ==
    ASSUME Positions, UNCHANGED <<diskVars, workerVars>>
    PROVE  Positions'
BY DEF Positions, diskVars, workerVars, Kept

\* The worker reads no further than the spool reaches, checkpoints no further
\* than it has read, and runs publish_record only for the last record or, in
\* recovery, for the one at the cursor.
LEMMA PositionsStep ==
    ASSUME IngestionTypeOK, Positions, Built, IngestionTypeOK', [IngestionNext]_allVars
    PROVE  Positions'
<1>1. /\ checkpoint \in Nat /\ read \in Nat /\ cursor \in Nat \ {0}
      /\ Len(spool) \in Nat /\ Len(log) \in Nat /\ dropped \in SUBSET (1..Len(log))
      /\ spool \in Seq(Batch)
  BY RecordTypes DEF IngestionTypeOK
<1> USE <1>1 DEF Positions, diskVars, workerVars
<1>2. ASSUME NEW b \in Batch, AppendBatch(b) PROVE Positions'
  <2>1. Len(spool') = Len(spool) + 1
    BY <1>2 DEF AppendBatch
  <2>2. UNCHANGED <<checkpoint, log, workerVars>> /\ Kept' = Kept
    BY <1>2 DEF AppendBatch, Kept
  <2>3. QED
    BY <2>1, <2>2
<1>3. CASE VerifyRecovered \/ RegisterOutput \/ UploadOutput \/ PublishOutput \/ Elsewhere
  BY <1>3, WorkerFrame, PositionsFrame
<1>4. CASE ResolveRecord
  <2>1. ~publishing
    BY <1>4 DEF ResolveRecord
  <2>2. dropped' \subseteq 1..(cursor' - 1)
    BY <1>4 DEF ResolveRecord
  <2>3. QED
    BY <1>4, <2>1, <2>2 DEF ResolveRecord
<1>5. ASSUME NEW S \in SUBSET Segment, NEW D \in SUBSET DeadLetter, ReconcileOutputs(S, D)
      PROVE  Positions'
  BY <1>5 DEF ReconcileOutputs
<1>6. CASE SkipRebuilt
  BY <1>6 DEF SkipRebuilt
<1>7. CASE FinishRecovery
  BY <1>7 DEF FinishRecovery
<1>8. CASE FinishOutput
  <2>1. phase = "resuming" => cursor \in 1..Len(log)
    BY <1>8 DEF FinishOutput, Publishing, Kept
  <2>2. QED
    BY <1>8, <2>1 DEF FinishOutput
<1>9. CASE ReadBatch
  BY <1>9 DEF ReadBatch
<1>10. CASE PushBatch
  BY <1>10 DEF PushBatch
<1>11. ASSUME NEW d \in DeadLetter, StageDeadLetter(d) PROVE Positions'
  <2>1. spool[read] \in Batch /\ CoverageEnd({spool[read]}) \in Nat
    BY <1>11, StagedItems DEF StageDeadLetter
  <2>2. StageAndRecord(d, {spool[read]}) /\ d \in Object /\ dropped' = dropped
    BY <1>11 DEF StageDeadLetter, Object
  <2>3. Len(log') = Len(log) + 1 /\ Kept' = Kept \cup {Len(log) + 1}
    BY <2>1, <2>2, Staging
  <2>4. QED
    BY <1>11, <2>3 DEF StageDeadLetter
<1>12. ASSUME NEW s \in Segment, NEW R \in SUBSET Row, DrainSealedSegment(s, R)
       PROVE  Positions'
  <2>1. CoverageEnd(R) \in Nat
    BY <1>12, StagedItems DEF DrainSealedSegment
  <2>2. StageAndRecord(s, R) /\ s \in Object /\ dropped' = dropped
    BY <1>12 DEF DrainSealedSegment, Object
  <2>3. Len(log') = Len(log) + 1 /\ Kept' = Kept \cup {Len(log) + 1}
    BY <2>1, <2>2, Staging
  <2>4. QED
    BY <1>12, <2>3 DEF DrainSealedSegment
<1>13. CASE FinishDraining \/ SealExpired \/ ReclaimDeferred
  BY <1>13 DEF FinishDraining, SealExpired, ReclaimDeferred
<1>14. CASE AdvanceCheckpoint
  <2>1. Target \in checkpoint..read
    BY <1>14, TargetCovered DEF AdvanceCheckpoint
  <2>2. QED
    BY <1>14, <2>1 DEF AdvanceCheckpoint
<1>15. CASE ResetCheckpoint
  BY <1>15 DEF ResetCheckpoint
<1>16. CASE TruncateSpool
  <2>1. checkpoint = 0 /\ Len(spool') = 0
    BY <1>16 DEF TruncateSpool
  <2>2. QED
    BY <1>16, <2>1 DEF TruncateSpool
<1>17. CASE ReclaimLog
  BY <1>17 DEF ReclaimLog
<1>18. CASE Restart
  BY <1>18 DEF Restart
<1>19. CASE UNCHANGED allVars
  BY <1>19, PositionsFrame DEF allVars, ingestionVars
<1> HIDE DEF Positions
<1>20. QED
  BY <1>2, <1>3, <1>4, <1>5, <1>6, <1>7, <1>8, <1>9, <1>10, <1>11, <1>12, <1>13, <1>14,
     <1>15, <1>16, <1>17, <1>18, <1>19 DEF IngestionNext

-----------------------------------------------------------------------------
\* A step keeps what the builders hold when it leaves the spool that was read,
\* the checkpoint, the builders and the coverage alone.
LEMMA BuiltFrame ==
    ASSUME IngestionTypeOK, Positions, Built,
           UNCHANGED <<checkpoint, read, building, log, dropped>>,
           \A k \in 1..read : spool'[k] = spool[k],
           phase' = "letter" => phase = "letter" /\ read \in 1..read,
           phase' \in {"resolving", "resuming", "resetting", "truncated"} => building = {}
    PROVE  Built'
<1>1. Covered' = Covered
  BY DEF Covered, Kept
<1>2. checkpoint \in Nat /\ read \in Nat
  BY DEF IngestionTypeOK
<1>3. QED
  BY <1>1, <1>2 DEF Built

\* Rows wait in the builders only for batches after the checkpoint that no
\* output of this incarnation covers.
LEMMA BuiltStep ==
    ASSUME IngestionTypeOK, Positions, Built, [IngestionNext]_allVars
    PROVE  Built'
<1>1. /\ checkpoint \in Nat /\ read \in Nat /\ building \in SUBSET Row
      /\ Len(spool) \in Nat /\ Len(log) \in Nat /\ spool \in Seq(Batch)
      /\ \A k \in 1..Len(spool) : spool[k] \in Batch
  BY RecordTypes DEF IngestionTypeOK
<1>2. ASSUME NEW b \in Batch, AppendBatch(b) PROVE Built'
  <2>1. UNCHANGED <<checkpoint, log, workerVars>> /\ \A k \in 1..Len(spool) : spool'[k] = spool[k]
    BY <1>1, <1>2 DEF AppendBatch
  <2>2. CASE phase = "truncated"
    BY <1>1, <2>1, <2>2 DEF Built, workerVars, Covered, Kept
  <2>3. CASE phase # "truncated"
    BY <1>1, <2>1, <2>3, BuiltFrame DEF Positions, workerVars, Built
  <2>4. QED
    BY <2>2, <2>3
<1>3. CASE VerifyRecovered \/ RegisterOutput \/ UploadOutput \/ PublishOutput \/ Elsewhere
  BY <1>1, <1>3, WorkerFrame, BuiltFrame DEF Built, Positions, diskVars, workerVars
<1>4. CASE ResolveRecord
  BY <1>1, <1>4 DEF ResolveRecord, Built, diskVars
<1>5. ASSUME NEW S \in SUBSET Segment, NEW D \in SUBSET DeadLetter, ReconcileOutputs(S, D)
      PROVE  Built'
  BY <1>5, BuiltFrame DEF ReconcileOutputs, Built, diskVars
<1>6. CASE SkipRebuilt
  BY <1>6, BuiltFrame DEF SkipRebuilt, Built, diskVars
<1>7. CASE FinishRecovery
  BY <1>7, BuiltFrame DEF FinishRecovery, Built, diskVars
<1>8. CASE FinishOutput
  BY <1>1, <1>8, BuiltFrame DEF FinishOutput, Built, Positions
<1>9. CASE ReadBatch
  <2>1. Covered' = Covered
    BY <1>9 DEF ReadBatch, Covered, Kept, diskVars
  <2>2. QED
    BY <1>1, <1>9, <2>1 DEF ReadBatch, Built, diskVars
<1>10. CASE PushBatch
  <2>1. Covered' = Covered
    BY <1>10 DEF PushBatch, Covered, Kept, diskVars
  <2>2. /\ checkpoint < read /\ UNCHANGED <<spool, checkpoint, read>>
        /\ building' = building \cup NewRows(spool[read])
        /\ phase' \in {"letter", "draining"}
        /\ phase' = "letter" => spool[read] \in Rejected \ Covered
    BY <1>10 DEF PushBatch, Positions, diskVars
  <2>3. building' \cap Covered' = {}
    BY <2>1, <2>2 DEF Built, NewRows
  <2>4. ASSUME NEW x \in building'
        PROVE  \E k \in (checkpoint + 1)..read : x \in Accepted[spool[k]]
    <3>1. CASE x \in building
      BY <3>1 DEF Built
    <3>2. CASE x \in Accepted[spool[read]]
      <4>1. read \in (checkpoint + 1)..read
        BY <1>1, <2>2
      <4>2. QED
        BY <3>2, <4>1
    <3>3. QED
      BY <2>2, <3>1, <3>2 DEF NewRows
  <2>5. QED
    BY <2>1, <2>2, <2>3, <2>4 DEF Built
<1>11. ASSUME NEW d \in DeadLetter, StageDeadLetter(d) PROVE Built'
  <2>1. spool[read] \in Batch /\ CoverageEnd({spool[read]}) \in Nat
    BY <1>1, <1>11, StagedItems DEF StageDeadLetter
  <2>2. StageAndRecord(d, {spool[read]}) /\ d \in Object /\ dropped' = dropped
    BY <1>11 DEF StageDeadLetter, Object
  <2>3. Covered' = Covered \cup {spool[read]}
    BY <2>1, <2>2, Staging
  <2>4. building \cap {spool[read]} = {}
    BY <1>1, <2>1, BatchAssumption
  <2>5. QED
    BY <1>11, <2>3, <2>4 DEF StageDeadLetter, Built
<1>12. ASSUME NEW s \in Segment, NEW R \in SUBSET Row, DrainSealedSegment(s, R)
       PROVE  Built'
  <2>1. CoverageEnd(R) \in Nat
    BY <1>1, <1>12, StagedItems DEF DrainSealedSegment
  <2>2. StageAndRecord(s, R) /\ s \in Object /\ dropped' = dropped
    BY <1>12 DEF DrainSealedSegment, Object
  <2>3. Covered' = Covered \cup R
    BY <2>1, <2>2, Staging
  <2>4. QED
    BY <1>12, <2>3 DEF DrainSealedSegment, Built
<1>13. CASE FinishDraining \/ SealExpired \/ ReclaimDeferred
  BY <1>13, BuiltFrame DEF FinishDraining, SealExpired, ReclaimDeferred, diskVars
<1>14. CASE AdvanceCheckpoint
  <2>1. /\ Target \in checkpoint..read
        /\ \A k \in (checkpoint + 1)..Target : Items(spool[k]) \subseteq Covered
    BY <1>14, TargetCovered DEF AdvanceCheckpoint
  <2>2. Covered' = Covered /\ UNCHANGED <<spool, read, building>> /\ checkpoint' = Target
        /\ phase' \in {"waiting", "reclaiming"}
    BY <1>14 DEF AdvanceCheckpoint, Covered, Kept
  <2>3. ASSUME NEW x \in building
        PROVE  \E k \in (Target + 1)..read : x \in Accepted[spool[k]]
    <3>1. PICK k \in (checkpoint + 1)..read : x \in Accepted[spool[k]]
      BY DEF Built
    <3>2. x \in Items(spool[k]) /\ x \notin Covered
      BY <3>1 DEF Items, Built
    <3>3. k \notin (checkpoint + 1)..Target
      BY <2>1, <3>2
    <3>4. k \in (Target + 1)..read
      BY <1>1, <2>1, <3>1, <3>3
    <3>5. QED
      BY <3>1, <3>4
  <2>4. QED
    BY <2>2, <2>3 DEF Built
<1>15. CASE ResetCheckpoint
  <2>1. building = {}
    BY <1>1, <1>15 DEF ResetCheckpoint, Built, Positions
  <2>2. QED
    BY <1>15, <2>1 DEF ResetCheckpoint, Built
<1>16. CASE TruncateSpool
  BY <1>16 DEF TruncateSpool, Built
<1>17. CASE ReclaimLog
  BY <1>17 DEF ReclaimLog, Built
<1>18. CASE Restart
  BY <1>18 DEF Restart, Built
<1>19. CASE UNCHANGED allVars
  BY <1>1, <1>19, BuiltFrame DEF allVars, ingestionVars, Built, Positions, diskVars, workerVars
<1>20. QED
  BY <1>2, <1>3, <1>4, <1>5, <1>6, <1>7, <1>8, <1>9, <1>10, <1>11, <1>12, <1>13, <1>14,
     <1>15, <1>16, <1>17, <1>18, <1>19 DEF IngestionNext

-----------------------------------------------------------------------------
\* Only a registration writes what an output holds, and only a registration
\* makes a row of a new identity.
LEMMA ContentsKept ==
    ASSUME TypeOK, Publications, StoreStep
    PROVE  /\ UNCHANGED <<segRows, batchOf>>
           /\ \A s \in Segment : segState'[s] = "NONE" <=> segState[s] = "NONE"
           /\ \A o \in Object : objState'[o] = "NONE" <=> objState[o] = "NONE"
<1> USE IdentityAssumption DEF TypeOK, Object, Update, segVars, storeVars, queryVars, historyVars
<1> DEFINE Goal == /\ UNCHANGED <<segRows, batchOf>>
                   /\ \A s \in Segment : segState'[s] = "NONE" <=> segState[s] = "NONE"
                   /\ \A o \in Object : objState'[o] = "NONE" <=> objState[o] = "NONE"
<1>1. ASSUME NEW o \in Object,
             \/ Upload(o) \/ LatePutLands(o) \/ RecordVerifiedUpload(o)
             \/ DeleteExact(o) \/ RecordDeleted(o)
      PROVE  Goal
  BY <1>1 DEF Upload, UploadVerified, UploadLeftInFlight, LatePutLands,
              RecordVerifiedUpload, DeleteExact, RecordDeleted
<1>2. ASSUME NEW s \in Segment, PublishIngestionSegment(s) PROVE Goal
  BY <1>2 DEF PublishIngestionSegment
<1>3. ASSUME NEW d \in DeadLetter, PublishDeadLetter(d) PROVE Goal
  BY <1>3 DEF PublishDeadLetter
<1>4. ASSUME NEW S \in SUBSET Segment, NEW D \in SUBSET DeadLetter,
             ReconcileUnreferencedOutputs(S, D)
      PROVE  Goal
  BY <1>4 DEF ReconcileUnreferencedOutputs
<1>5. ASSUME NEW S \in SUBSET Segment, ExpireSegments(S) PROVE Goal
  BY <1>5 DEF ExpireSegments
<1>6. ASSUME NEW S \in SUBSET Object, ClaimReclamation(S) PROVE Goal
  BY <1>6 DEF ClaimReclamation, InitialCandidate
<1>7. ASSUME NEW D \in SUBSET Object, CleanTerminalMetadata(D, {}) PROVE Goal
  BY <1>7 DEF CleanTerminalMetadata, Cleanable, Retired
<1>8. ASSUME Tick \/ UNCHANGED vars PROVE Goal
  BY <1>8 DEF Tick, vars
<1> HIDE DEF Goal, TypeOK, Object, Update, segVars, storeVars, queryVars, historyVars
<1>9. Goal
  BY <1>1, <1>2, <1>3, <1>4, <1>5, <1>6, <1>7, <1>8 DEF StoreStep, QuietStep
<1>10. QED
  BY <1>9 DEF Goal

\* The records go on to say what the rows of their outputs hold.
LEMMA RecordedStep ==
    ASSUME IngestionTypeOK, Positions, Built, Recorded, Publications, [IngestionNext]_allVars
    PROVE  Recorded'
<1>1. TypeOK /\ Len(log) \in Nat /\ \A i \in 1..Len(log) : log[i].output \in Object
  BY RecordTypes DEF IngestionTypeOK
<1>2. ASSUME NEW o \in Object, NEW I \in SUBSET (Row \cup Batch), CoverageEnd(I) \in Nat,
             StageAndRecord(o, I), dropped' = dropped, UNCHANGED vars,
             IF o \in Segment THEN I # {} /\ I \subseteq Row ELSE \E b \in Batch : I = {b}
      PROVE  Recorded'
  <2>1. /\ Len(log') = Len(log) + 1
        /\ \A i \in 1..Len(log) : log'[i] = log[i]
        /\ log'[Len(log) + 1].output = o /\ log'[Len(log) + 1].items = I
    BY <1>2, Staging
  <2>2. /\ objState[o] = "NONE" /\ \A i \in 1..Len(log) : log[i].output # o
        /\ o \in Segment => segState[o] = "NONE"
    BY <1>2 DEF StageAndRecord, Fresh, Publications
  <2>3. \A i \in 1..Len(log') : i \in 1..Len(log) \/ i = Len(log) + 1
    BY <1>1, <2>1
  <2>4. \A i, j \in 1..Len(log') : i # j => log'[i].output # log'[j].output
    BY <2>1, <2>2, <2>3 DEF Recorded
  <2>5. UNCHANGED <<segState, segRows, objState, batchOf>>
    BY <1>2 DEF vars, segVars
  <2>6. ASSUME NEW i \in 1..Len(log) PROVE RecordMatches(i)'
    <3>1. RecordMatches(i) /\ log'[i] = log[i]
      BY <2>1, <2>6 DEF Recorded
    <3>2. QED
      BY <2>5, <3>1 DEF RecordMatches
  <2>7. RecordMatches(Len(log))'
    BY <1>2, <2>1, <2>2, <2>5 DEF RecordMatches
  <2>8. \A i \in 1..Len(log') : RecordMatches(i)'
    BY <2>1, <2>3, <2>6, <2>7
  <2>9. QED
    BY <2>4, <2>8 DEF Recorded
<1>3. ASSUME NEW d \in DeadLetter, StageDeadLetter(d) PROVE Recorded'
  <2>1. spool[read] \in Batch /\ CoverageEnd({spool[read]}) \in Nat
    BY <1>3, StagedItems DEF StageDeadLetter, IngestionTypeOK
  <2>2. /\ StageAndRecord(d, {spool[read]}) /\ d \in Object /\ d \notin Segment
        /\ dropped' = dropped /\ UNCHANGED vars
    BY <1>3, IdentityAssumption DEF StageDeadLetter, Object
  <2>3. QED
    BY <1>2, <2>1, <2>2
<1>4. ASSUME NEW s \in Segment, NEW R \in SUBSET Row, DrainSealedSegment(s, R)
      PROVE  Recorded'
  <2>1. CoverageEnd(R) \in Nat /\ R # {}
    BY <1>4, StagedItems DEF DrainSealedSegment, IngestionTypeOK
  <2>2. StageAndRecord(s, R) /\ s \in Object /\ dropped' = dropped /\ UNCHANGED vars
    BY <1>4 DEF DrainSealedSegment, Object
  <2>3. QED
    BY <1>2, <2>1, <2>2
<1>5. CASE RegisterOutput
  <2>1. log' = log /\ Current \in 1..Len(log) /\ Output = log[Current].output
    BY <1>5, WorkerFrame, CurrentRecorded DEF diskVars, RegisterOutput, Output
  <2>2. /\ \A i, j \in 1..Len(log) : i # j => log[i].output # log[j].output
        /\ \A i \in 1..Len(log) : RecordMatches(i)
    BY DEF Recorded
  <2>3. CASE Output \in Segment /\ InsertPrepared(Output, log[Current].items)
    <3>1. /\ \A s \in Segment \ {Output} : segState'[s] = segState[s] /\ segRows'[s] = segRows[s]
          /\ segRows'[Output] = log[Current].items
          /\ \A d \in DeadLetter : objState'[d] = objState[d] /\ batchOf' = batchOf
      BY <1>1, <2>3, IdentityAssumption DEF InsertPrepared, Update, TypeOK, Object
    <3>2. ASSUME NEW i \in 1..Len(log), i = Current PROVE RecordMatches(i)'
      BY <2>1, <2>2, <2>3, <3>1, <3>2 DEF RecordMatches
    <3>3. ASSUME NEW i \in 1..Len(log), i # Current PROVE RecordMatches(i)'
      <4>1. log[i].output # Output /\ log[i].output \in Object /\ RecordMatches(i)
        BY <1>1, <2>1, <2>2, <3>3
      <4>2. CASE log[i].output \in Segment
        BY <2>1, <3>1, <4>1, <4>2 DEF RecordMatches
      <4>3. CASE log[i].output \notin Segment
        <5>1. log[i].output \in DeadLetter
          BY <4>1, <4>3 DEF Object
        <5>2. QED
          BY <2>1, <3>1, <4>1, <4>3, <5>1 DEF RecordMatches
      <4>4. QED
        BY <4>2, <4>3
    <3>4. QED
      BY <2>1, <2>2, <3>2, <3>3 DEF Recorded
  <2>4. ASSUME Output \in DeadLetter, NEW b \in log[Current].items,
               InsertPlannedLetter(Output, b)
        PROVE  Recorded'
    <3>1. /\ UNCHANGED <<segState, segRows>>
          /\ \A d \in DeadLetter \ {Output} : objState'[d] = objState[d] /\ batchOf'[d] = batchOf[d]
          /\ batchOf'[Output] = b
      BY <1>1, <2>4 DEF InsertPlannedLetter, Update, TypeOK, Object, segVars
    <3>2. Output \notin Segment
      BY <2>4, IdentityAssumption
    <3>3. \E c \in Batch : log[Current].items = {c}
      BY <2>1, <2>2, <3>2 DEF RecordMatches
    <3>4. ASSUME NEW i \in 1..Len(log), i = Current PROVE RecordMatches(i)'
      BY <2>1, <2>4, <3>1, <3>2, <3>3, <3>4 DEF RecordMatches
    <3>5. ASSUME NEW i \in 1..Len(log), i # Current PROVE RecordMatches(i)'
      <4>1. log[i].output # Output /\ log[i].output \in Object /\ RecordMatches(i)
        BY <1>1, <2>1, <2>2, <3>5
      <4>2. CASE log[i].output \in Segment
        BY <2>1, <3>1, <4>1, <4>2 DEF RecordMatches
      <4>3. CASE log[i].output \notin Segment
        <5>1. log[i].output \in DeadLetter \ {Output}
          BY <4>1, <4>3 DEF Object
        <5>2. QED
          BY <2>1, <3>1, <4>1, <4>3, <5>1 DEF RecordMatches
      <4>4. QED
        BY <4>2, <4>3
    <3>6. QED
      BY <2>1, <2>2, <3>4, <3>5 DEF Recorded
  <2>5. QED
    BY <1>5, <2>3, <2>4 DEF RegisterOutput
<1>6. CASE ReclaimLog
  <2>1. Len(log') = 0
    BY <1>6 DEF ReclaimLog
  <2>2. 1..Len(log') = {}
    BY <2>1
  <2>3. QED
    BY <2>2 DEF Recorded
<1>7. ASSUME log' = log, ~RegisterOutput PROVE Recorded'
  <2>1. /\ UNCHANGED <<segRows, batchOf>>
        /\ \A s \in Segment : segState'[s] = "NONE" <=> segState[s] = "NONE"
        /\ \A o \in Object : objState'[o] = "NONE" <=> objState[o] = "NONE"
    BY <1>1, <1>7, StoreSteps, ContentsKept
  <2>2. ASSUME NEW i \in 1..Len(log) PROVE RecordMatches(i)'
    <3>1. RecordMatches(i) /\ log[i].output \in Object
      BY <1>1, <2>2 DEF Recorded
    <3>2. QED
      BY <1>7, <2>1, <3>1 DEF RecordMatches
  <2>3. QED
    BY <1>7, <2>2 DEF Recorded
<1>8. ASSUME ~ \E d \in DeadLetter : StageDeadLetter(d),
             ~ \E s \in Segment, R \in SUBSET Row : DrainSealedSegment(s, R), ~ReclaimLog
      PROVE  log' = log
  BY <1>8, WorkerFrame
     DEF IngestionNext, AppendBatch, ResolveRecord, ReconcileOutputs, SkipRebuilt,
         FinishRecovery, FinishOutput, ReadBatch, PushBatch, FinishDraining, SealExpired,
         AdvanceCheckpoint, ReclaimDeferred, ResetCheckpoint, TruncateSpool, Restart,
         diskVars, allVars, ingestionVars
<1>9. QED
  BY <1>3, <1>4, <1>5, <1>6, <1>7, <1>8

-----------------------------------------------------------------------------
\* Published rows stay in the history.
LEMMA PublishedGrows ==
    ASSUME StoreStep \/ RegisterOutput
    PROVE  published \subseteq published'
<1> USE DEF segVars, storeVars, queryVars, historyVars
<1>1. CASE RegisterOutput
  BY <1>1 DEF RegisterOutput, InsertPrepared, InsertPlannedLetter
<1>2. CASE StoreStep
  BY <1>2 DEF StoreStep, QuietStep, Upload, UploadVerified, UploadLeftInFlight, LatePutLands,
              RecordVerifiedUpload, DeleteExact, RecordDeleted, PublishIngestionSegment,
              PublishDeadLetter, ReconcileUnreferencedOutputs, ExpireSegments,
              ClaimReclamation, CleanTerminalMetadata, Tick, vars
<1>3. QED
  BY <1>1, <1>2

\* Uploads, maintenance and time agree with the history.
LEMMA QuietPublications ==
    ASSUME TypeOK, Publications, lettered' = lettered, QuietStep
    PROVE  Publications'
<1> USE IdentityAssumption
        DEF TypeOK, Object, Update, segVars, storeVars, queryVars, historyVars, Publications
<1>1. ASSUME NEW o \in Object, Upload(o) \/ LatePutLands(o) \/ DeleteExact(o)
      PROVE  Publications'
  BY <1>1 DEF Upload, UploadVerified, UploadLeftInFlight, LatePutLands, DeleteExact
<1>2. ASSUME NEW o \in Object, RecordVerifiedUpload(o) PROVE Publications'
  BY <1>2 DEF RecordVerifiedUpload
<1>3. ASSUME NEW o \in Object, RecordDeleted(o) PROVE Publications'
  BY <1>3 DEF RecordDeleted
<1>4. ASSUME NEW S \in SUBSET Segment, NEW D \in SUBSET DeadLetter,
             ReconcileUnreferencedOutputs(S, D)
      PROVE  Publications'
  BY <1>4 DEF ReconcileUnreferencedOutputs
<1>5. ASSUME NEW S \in SUBSET Segment, ExpireSegments(S) PROVE Publications'
  BY <1>5 DEF ExpireSegments
<1>6. ASSUME NEW S \in SUBSET Object, ClaimReclamation(S) PROVE Publications'
  BY <1>6 DEF ClaimReclamation, InitialCandidate
<1>7. ASSUME NEW D \in SUBSET Object, CleanTerminalMetadata(D, {}) PROVE Publications'
  BY <1>7 DEF CleanTerminalMetadata, Cleanable, Retired
<1>8. CASE Tick \/ UNCHANGED vars
  BY <1>8 DEF Tick, vars
<1> HIDE DEF TypeOK, Object, Update, segVars, storeVars, queryVars, historyVars, Publications
<1>9. QED
  BY <1>1, <1>2, <1>3, <1>4, <1>5, <1>6, <1>7, <1>8 DEF QuietStep

\* So does publish_record's publication.
LEMMA PublishPublications ==
    ASSUME IngestionTypeOK, Publications, PublishOutput
    PROVE  Publications'
<1> USE IdentityAssumption
        DEF TypeOK, Object, Update, segVars, Publications
<1>1. TypeOK
  BY DEF IngestionTypeOK
<1>2. CASE Output \in Segment /\ PublishIngestionSegment(Output) /\ UNCHANGED lettered
  <2>1. /\ UNCHANGED <<segRows, batchOf, reclaimAfter>>
        /\ \A u \in Segment : segState'[u] = IF u = Output THEN "ACTIVE" ELSE segState[u]
        /\ \A o \in Object : objState'[o] = IF o = Output THEN "PUBLISHED" ELSE objState[o]
        /\ published' = published \cup segRows[Output]
        /\ segState[Output] = "PREPARED" /\ objState[Output] = "UPLOADED"
    BY <1>1, <1>2 DEF PublishIngestionSegment
  <2>2. QED
    BY <1>2, <2>1
<1>3. CASE /\ Output \in DeadLetter /\ PublishDeadLetter(Output)
           /\ lettered' = lettered \cup {batchOf[Output]}
  <2>1. /\ UNCHANGED <<segState, segRows, batchOf, published>> /\ objState[Output] = "UPLOADED"
        /\ \A o \in Object : objState'[o] = IF o = Output THEN "PUBLISHED" ELSE objState[o]
        /\ \A o \in Object : o # Output => reclaimAfter'[o] = reclaimAfter[o]
    BY <1>1, <1>3 DEF PublishDeadLetter, historyVars
  <2>2. reclaimAfter'[Output] > 0
    BY <1>1, <1>3, DurationAssumption, BatchAssumption DEF PublishDeadLetter, TransactionStart
  <2>3. QED
    BY <1>3, <2>1, <2>2
<1>4. QED
  BY <1>2, <1>3 DEF PublishOutput

\* And so does a registration, which publishes nothing.
LEMMA RegisterPublications ==
    ASSUME IngestionTypeOK, Positions, Recorded, Publications, RegisterOutput
    PROVE  Publications'
<1>1. TypeOK /\ Output \in Object /\ Current \in 1..Len(log) /\ lettered' = lettered
  BY CurrentRecorded DEF IngestionTypeOK, RegisterOutput, ingestionVars
<1>2. Output \in DeadLetter => log[Current].items \subseteq Batch
  BY <1>1, RecordedItems DEF Output
<1> USE IdentityAssumption DEF TypeOK, Object, Update, segVars, historyVars, Publications
<1>3. CASE Output \in Segment /\ InsertPrepared(Output, log[Current].items)
  <2>1. /\ UNCHANGED <<published, batchOf, reclaimAfter>>
        /\ \A d \in DeadLetter : objState'[d] = objState[d]
        /\ \A s \in Segment \ {Output} : /\ segState'[s] = segState[s]
                                         /\ segRows'[s] = segRows[s]
                                         /\ objState'[s] = objState[s]
        /\ segState'[Output] = "PREPARED" /\ objState'[Output] = "PLANNED"
    BY <1>1, <1>3 DEF InsertPrepared
  <2>2. QED
    BY <1>1, <2>1
<1>4. ASSUME Output \in DeadLetter, NEW b \in log[Current].items,
             InsertPlannedLetter(Output, b)
      PROVE  Publications'
  <2> DEFINE LetterAgrees(d) ==
               /\ objState[d] # "NONE" => batchOf[d] \in Batch
               /\ objState[d] \in {"NONE", "PLANNED", "UPLOADED", "REMOVED"} => reclaimAfter[d] = 0
               /\ objState[d] = "PUBLISHED" => reclaimAfter[d] > 0
               /\ reclaimAfter[d] > 0 => batchOf[d] \in lettered
  <2>1. b \in Batch
    BY <1>2, <1>4
  <2>2. /\ UNCHANGED <<segState, segRows, published>>
        /\ \A s \in Segment : objState'[s] = objState[s]
        /\ \A d \in DeadLetter \ {Output} : /\ objState'[d] = objState[d]
                                            /\ batchOf'[d] = batchOf[d]
                                            /\ reclaimAfter'[d] = reclaimAfter[d]
        /\ objState'[Output] = "PLANNED" /\ batchOf'[Output] = b /\ reclaimAfter'[Output] = 0
    BY <1>1, <1>4 DEF InsertPlannedLetter
  <2>3. ASSUME NEW d \in DeadLetter, d # Output PROVE LetterAgrees(d)'
    BY <1>1, <2>2, <2>3
  <2>4. ASSUME NEW d \in DeadLetter, d = Output PROVE LetterAgrees(d)'
    BY <2>1, <2>2, <2>4
  <2>5. QED
    BY <2>2, <2>3, <2>4
<1>5. QED
  BY <1>3, <1>4 DEF RegisterOutput

\* The rows of the outputs go on to agree with the history of publication.
LEMMA PublicationsStep ==
    ASSUME IngestionTypeOK, Positions, Recorded, Publications, [IngestionNext]_allVars
    PROVE  Publications'
<1>1. ASSUME ~PublishOutput PROVE lettered' = lettered
  BY <1>1, LetteredKept
<1>2. QED
  BY <1>1, QuietSteps, QuietPublications, PublishPublications, RegisterPublications
     DEF IngestionTypeOK

-----------------------------------------------------------------------------
\* What was delivered stays delivered.
LEMMA DeliveredKept ==
    ASSUME IngestionTypeOK, Positions, Publications, [IngestionNext]_allVars
    PROVE  \A x : Delivered(x) => Delivered(x)'
<1>1. published \subseteq published' /\ lettered \subseteq lettered'
  BY StoreSteps, PublishedGrows, LetteredTypes
<1>2. QED
  BY <1>1 DEF Delivered

\* The items of a record are delivered when its output is found published.
LEMMA PublishedDelivered ==
    ASSUME IngestionTypeOK, Recorded, Publications, NEW i \in 1..Len(log),
           OutputState(log[i].output) = "PUBLISHED"
    PROVE  \A x \in log[i].items : Delivered(x)
<1> DEFINE o == log[i].output
<1>1. o \in Object /\ TypeOK
  BY RecordTypes DEF IngestionTypeOK
<1>2. CASE o \in Segment
  <2>1. segState[o] \in {"ACTIVE", "SUPERSEDED", "EXPIRED"}
    BY <1>1, <1>2 DEF OutputState, IngestionOutputState, TypeOK, ObjectStates, Object
  <2>2. segRows[o] = log[i].items /\ segRows[o] \subseteq published
    BY <1>2, <2>1 DEF Recorded, RecordMatches, Publications
  <2>3. QED
    BY <2>2 DEF Delivered
<1>3. CASE o \in DeadLetter /\ o \notin Segment
  <2>1. objState[o] = "PUBLISHED" \/ reclaimAfter[o] > 0
    BY <1>1, <1>3 DEF OutputState, DeadLetterOutputState
  <2>2. reclaimAfter[o] > 0 /\ batchOf[o] \in lettered /\ objState[o] # "NONE"
    BY <1>1, <1>3, <2>1 DEF Publications, TypeOK, Object
  <2>3. log[i].items = {batchOf[o]}
    BY <1>3, <2>2 DEF Recorded, RecordMatches
  <2>4. QED
    BY <2>2, <2>3 DEF Delivered
<1>4. QED
  BY <1>1, <1>2, <1>3 DEF Object

\* A step that settles no record keeps the deliveries.
LEMMA DeliveriesFrame ==
    ASSUME Deliveries, UNCHANGED <<spool, checkpoint, log, appended>>,
           \A x : Delivered(x) => Delivered(x)',
           phase' = "resetting" => phase = "resetting",
           \A i \in 1..Len(log) : Settled(i)' => Settled(i)
    PROVE  Deliveries'
BY DEF Deliveries

\* Once recovery is over and nothing is being published, everything that the
\* outputs of this incarnation cover is delivered.
LEMMA CoveredDelivered ==
    ASSUME IngestionTypeOK, Deliveries, phase \notin {"resolving", "resuming"}, ~publishing
    PROVE  \A x \in Covered : Delivered(x)
<1>1. \A i \in Kept : Settled(i) /\ i \in 1..Len(log)
  BY DEF Settled, Kept
<1>2. QED
  BY <1>1 DEF Deliveries, Covered

\* The worker settles a record, moves the checkpoint and truncates the spool
\* only when what they stand for is delivered.
LEMMA DeliveriesStep ==
    ASSUME IngestionTypeOK, Positions, Built, Recorded, Publications, Deliveries,
           [IngestionNext]_allVars
    PROVE  Deliveries'
<1>1. \A x : Delivered(x) => Delivered(x)'
  BY DeliveredKept
<1>2. /\ checkpoint \in Nat /\ read \in Nat /\ cursor \in Nat \ {0}
      /\ Len(spool) \in Nat /\ Len(log) \in Nat /\ spool \in Seq(Batch)
  BY RecordTypes DEF IngestionTypeOK
<1> USE DEF diskVars, workerVars
<1>3. ASSUME NEW b \in Batch, AppendBatch(b) PROVE Deliveries'
  <2>1. /\ Len(spool') = Len(spool) + 1 /\ spool'[Len(spool) + 1] = b
        /\ \A k \in 1..Len(spool) : spool'[k] = spool[k]
    BY <1>2, <1>3 DEF AppendBatch
  <2>2. /\ UNCHANGED <<checkpoint, log, workerVars>> /\ phase # "resetting"
        /\ appended' = appended \cup {b} /\ \A i : Settled(i)' <=> Settled(i)
    BY <1>3 DEF AppendBatch, Settled, Kept
  <2>3. \A i \in 1..Len(log') : Settled(i)' => \A x \in log'[i].items : Delivered(x)'
    BY <1>1, <2>2 DEF Deliveries
  <2>4. \A k \in 1..Len(spool') : k <= checkpoint' \/ phase' = "resetting" => 
            \A x \in Items(spool'[k]) : Delivered(x)'
    <3> SUFFICES ASSUME NEW k \in 1..Len(spool'), k <= checkpoint
                 PROVE  \A x \in Items(spool'[k]) : Delivered(x)'
      BY <2>2
    <3>1. k \in 1..Len(spool) /\ spool'[k] = spool[k]
      BY <1>2, <2>1 DEF Positions
    <3>2. QED
      BY <1>1, <3>1 DEF Deliveries
  <2>5. \A c \in appended' : \/ \A x \in Items(c) : Delivered(x)'
                             \/ \E k \in 1..Len(spool') : spool'[k] = c
    <3>1. Len(spool) + 1 \in 1..Len(spool') /\ \A k \in 1..Len(spool) : k \in 1..Len(spool')
      BY <1>2, <2>1
    <3>2. QED
      BY <1>1, <2>1, <2>2, <3>1 DEF Deliveries
  <2>6. QED
    BY <2>3, <2>4, <2>5 DEF Deliveries, Items
<1>4. CASE VerifyRecovered \/ RegisterOutput \/ UploadOutput \/ PublishOutput \/ Elsewhere
  BY <1>1, <1>4, WorkerFrame, DeliveriesFrame DEF Settled, Kept
<1>5. CASE ResolveRecord
  BY <1>1, <1>5, DeliveriesFrame DEF ResolveRecord, Settled
<1>6. ASSUME NEW S \in SUBSET Segment, NEW D \in SUBSET DeadLetter, ReconcileOutputs(S, D)
      PROVE  Deliveries'
  BY <1>1, <1>6, DeliveriesFrame DEF ReconcileOutputs, Settled
<1>7. CASE SkipRebuilt
  <2>1. \A i \in 1..Len(log) : Settled(i)' => Settled(i)
    BY <1>2, <1>7 DEF SkipRebuilt, Settled, Kept
  <2>2. QED
    BY <1>1, <1>7, <2>1, DeliveriesFrame DEF SkipRebuilt
<1>8. CASE FinishRecovery
  <2>1. \A i \in 1..Len(log) : Settled(i)' => Settled(i)
    BY <1>2, <1>8 DEF FinishRecovery, Settled, Kept
  <2>2. QED
    BY <1>1, <1>8, <2>1, DeliveriesFrame DEF FinishRecovery
<1>9. CASE FinishOutput
  <2>1. Current \in 1..Len(log) /\ OutputState(log[Current].output) = "PUBLISHED"
    BY <1>9, CurrentRecorded DEF FinishOutput, Output
  <2>2. \A x \in log[Current].items : Delivered(x)
    BY <2>1, PublishedDelivered
  <2>3. \A i \in 1..Len(log) : Settled(i)' => Settled(i) \/ i = Current
    BY <1>2, <1>9 DEF FinishOutput, Settled, Kept, Current, Publishing, Positions
  <2>4. UNCHANGED <<spool, checkpoint, log, appended, phase>>
    BY <1>9 DEF FinishOutput
  <2>5. QED
    BY <1>1, <2>2, <2>3, <2>4 DEF Deliveries
<1>10. CASE ReadBatch \/ PushBatch \/ FinishDraining \/ SealExpired \/ ReclaimDeferred
  <2>1. /\ UNCHANGED <<spool, checkpoint, log, appended, dropped, publishing>>
        /\ phase \notin {"resolving", "resuming"}
        /\ phase' \notin {"resolving", "resuming", "resetting"}
    BY <1>10 DEF ReadBatch, PushBatch, FinishDraining, SealExpired, ReclaimDeferred
  <2>2. \A i \in 1..Len(log) : Settled(i)' => Settled(i)
    BY <2>1 DEF Settled, Kept
  <2>3. QED
    BY <1>1, <2>1, <2>2, DeliveriesFrame
<1>11. ASSUME NEW o \in Object, NEW I \in SUBSET (Row \cup Batch), CoverageEnd(I) \in Nat,
              StageAndRecord(o, I), ~publishing,
              UNCHANGED <<spool, checkpoint, dropped, appended>>,
              phase \in {"letter", "pushing", "draining"},
              phase' \in {"letter", "pushing", "draining"}
       PROVE  Deliveries'
  <2>1. /\ Len(log') = Len(log) + 1 /\ Kept' = Kept \cup {Len(log) + 1}
        /\ \A i \in 1..Len(log) : log'[i] = log[i]
    BY <1>11, Staging
  <2>2. publishing'
    BY <1>11 DEF StageAndRecord
  <2>3. \A i \in 1..Len(log') : Settled(i)' => Settled(i) /\ i \in 1..Len(log)
    BY <1>2, <1>11, <2>1, <2>2 DEF Settled, Kept
  <2>4. QED
    BY <1>1, <1>11, <2>1, <2>3 DEF Deliveries
<1>12. ASSUME NEW d \in DeadLetter, StageDeadLetter(d) PROVE Deliveries'
  <2>1. spool[read] \in Batch /\ CoverageEnd({spool[read]}) \in Nat
    BY <1>12, StagedItems DEF StageDeadLetter
  <2>2. ~publishing
    BY <1>12 DEF StageDeadLetter, Positions
  <2>3. QED
    BY <1>11, <1>12, <2>1, <2>2 DEF StageDeadLetter, Object
<1>13. ASSUME NEW s \in Segment, NEW R \in SUBSET Row, DrainSealedSegment(s, R)
       PROVE  Deliveries'
  <2>1. CoverageEnd(R) \in Nat
    <3>1. R # {} /\ R \in SUBSET building
      BY <1>13 DEF DrainSealedSegment
    <3>2. CoverageEnd(R) \in 1..read
      BY <3>1, StagedItems
    <3>3. QED
      BY <3>2
  <2>2. QED
    BY <1>11, <1>13, <2>1 DEF DrainSealedSegment, Object
<1>14. CASE AdvanceCheckpoint
  <2>1. /\ Target \in checkpoint..read /\ checkpoint' = Target
        /\ \A k \in (checkpoint + 1)..Target : Items(spool[k]) \subseteq Covered
    BY <1>14, TargetCovered DEF AdvanceCheckpoint
  <2>2. \A x \in Covered : Delivered(x)
    BY <1>14, CoveredDelivered DEF AdvanceCheckpoint, Positions
  <2>3. \A k \in 1..Len(spool) : k <= Target => k <= checkpoint \/ k \in (checkpoint + 1)..Target
    BY <1>2, <2>1
  <2>4. /\ UNCHANGED <<spool, log, appended, dropped, publishing>>
        /\ phase' \in {"waiting", "reclaiming"} /\ phase = "reading"
    BY <1>14 DEF AdvanceCheckpoint
  <2>5. \A i \in 1..Len(log) : Settled(i)' => Settled(i)
    BY <2>4 DEF Settled, Kept
  <2>6. QED
    BY <1>1, <2>1, <2>2, <2>3, <2>4, <2>5 DEF Deliveries
<1>15. CASE ResetCheckpoint
  <2>1. /\ UNCHANGED <<spool, log, appended, dropped, publishing>> /\ checkpoint' = 0
        /\ phase = "reclaiming" /\ phase' = "resetting" /\ checkpoint = Len(spool)
    BY <1>15 DEF ResetCheckpoint
  <2>2. \A i \in 1..Len(log) : Settled(i)' => Settled(i)
    BY <2>1 DEF Settled, Kept
  <2>3. \A k \in 1..Len(spool) : \A x \in Items(spool[k]) : Delivered(x)
    BY <1>2, <2>1 DEF Deliveries
  <2>4. QED
    BY <1>1, <2>1, <2>2, <2>3 DEF Deliveries
<1>16. CASE TruncateSpool
  <2>1. /\ UNCHANGED <<log, appended, dropped, publishing>> /\ Len(spool') = 0
        /\ phase = "resetting" /\ phase' = "truncated"
    BY <1>16 DEF TruncateSpool
  <2>2. \A i \in 1..Len(log) : Settled(i)' => Settled(i)
    BY <2>1 DEF Settled, Kept
  <2>3. \A b \in appended : \A x \in Items(b) : Delivered(x)
    BY <2>1 DEF Deliveries
  <2>4. QED
    BY <1>1, <2>1, <2>2, <2>3 DEF Deliveries
<1>17. CASE ReclaimLog
  <2>1. UNCHANGED <<spool, checkpoint, appended>> /\ Len(log') = 0 /\ phase' = "waiting"
    BY <1>17 DEF ReclaimLog
  <2>2. QED
    BY <1>1, <2>1 DEF Deliveries
<1>18. CASE Restart
  BY <1>1, <1>18, DeliveriesFrame DEF Restart, Settled
<1>19. CASE UNCHANGED allVars
  BY <1>1, <1>19, DeliveriesFrame DEF allVars, ingestionVars, Settled, Kept
<1>20. QED
  BY <1>3, <1>4, <1>5, <1>6, <1>7, <1>8, <1>9, <1>10, <1>12, <1>13, <1>14, <1>15, <1>16,
     <1>17, <1>18, <1>19 DEF IngestionNext

-----------------------------------------------------------------------------
\* An empty spool, log and control plane satisfy every layer.
LEMMA DeliveryInit == IngestionInit => DeliveryInvariant
<1> SUFFICES ASSUME IngestionInit PROVE DeliveryInvariant
  OBVIOUS
<1>1. TypeOK /\ Init
  BY TypeInit DEF IngestionInit
<1>2. Len(log) = 0 /\ Len(spool) = 0
  BY DEF IngestionInit
<1>3. IngestionTypeOK
  <2>1. publishing \in BOOLEAN
    BY DEF IngestionInit
  <2>2. /\ spool \in Seq(Batch) /\ log \in Seq(OutputRecoveryRecord)
        /\ dropped \in SUBSET (1..Len(log)) /\ staged \in SUBSET Object
        /\ building \in SUBSET Row /\ appended \in SUBSET Batch /\ lettered \in SUBSET Batch
    BY DEF IngestionInit
  <2>3. checkpoint \in Nat /\ cursor \in Nat \ {0} /\ read \in Nat /\ crashes \in Nat
    BY DEF IngestionInit
  <2>4. QED
    BY <1>1, <2>1, <2>2, <2>3 DEF IngestionInit, IngestionTypeOK
<1>4. Positions /\ Built
  BY <1>2 DEF IngestionInit, Positions, Built
<1>5. Recorded /\ Deliveries
  BY <1>2 DEF IngestionInit, Recorded, RecordMatches, Deliveries
<1>6. Publications
  BY <1>1, IdentityAssumption DEF Init, Publications, Object
<1>7. QED
  BY <1>3, <1>4, <1>5, <1>6 DEF DeliveryInvariant

\* Every step of the worker, of maintenance and of time keeps every layer.
LEMMA DeliveryStep == DeliveryInvariant /\ [IngestionNext]_allVars => DeliveryInvariant'
BY IngestionTypeStep, PositionsStep, BuiltStep, RecordedStep, PublicationsStep, DeliveriesStep
   DEF DeliveryInvariant

\* The layers hold in every reachable state.
THEOREM DeliveryInvariantCorrect == IngestionSpec => []DeliveryInvariant
BY DeliveryInit, DeliveryStep, PTL DEF IngestionSpec

\* No acknowledged record is lost: across crashes, lost staged files, late PUT
\* requests and reclamation, it is delivered or still after the checkpoint.
THEOREM NothingLostCorrect == IngestionSpec => []NothingLost
<1>1. DeliveryInvariant => NothingLost
  <2> SUFFICES ASSUME DeliveryInvariant, NEW b \in appended,
                      ~ \A x \in Items(b) : Delivered(x)
               PROVE  \E k \in (checkpoint + 1)..Len(spool) : spool[k] = b
    BY DEF NothingLost
  <2>1. PICK k \in 1..Len(spool) : spool[k] = b
    BY DEF DeliveryInvariant, Deliveries
  <2>2. checkpoint \in Nat /\ Len(spool) \in Nat /\ ~(k <= checkpoint)
    BY <2>1, RecordTypes DEF DeliveryInvariant, Deliveries, IngestionTypeOK
  <2>3. k \in (checkpoint + 1)..Len(spool)
    BY <2>2
  <2>4. QED
    BY <2>1, <2>3
<1>2. QED
  BY <1>1, DeliveryInvariantCorrect, PTL

=============================================================================
