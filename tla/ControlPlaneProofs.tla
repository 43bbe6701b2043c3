------------------------- MODULE ControlPlaneProofs -------------------------
(***************************************************************************)
(* The layers about data - where each row is, what protects the segments of *)
(* a snapshot, and when a dead letter is due - and the theorems about      *)
(* ControlPlane, for all its constants.  With those of ControlPlaneStored  *)
(* the layers make one inductive invariant, from which every safety        *)
(* property follows.                                                       *)
(***************************************************************************)
EXTENDS ControlPlaneStored

\* Most leaves are first-order and set reasoning, which Zenon does at once; SMT
\* does the arithmetic.
USE ZenonT(3), SMTT(20)

\* A step that leaves the ACTIVE segments alone and adds no prepared
\* ingestion segment keeps the rows accounted for.
LEMMA ActiveUntouched ==
    ASSUME TypeOK, RowsAccounted, UNCHANGED historyVars,
           \A s \in Segment : /\ segState'[s] = "ACTIVE" <=> segState[s] = "ACTIVE"
                              /\ segState'[s] = "PREPARED" /\ producer'[s] = None
                                    => segState[s] = "PREPARED" /\ producer[s] = None,
           \A s \in Segment :
              segState[s] = "ACTIVE" \/ (segState[s] = "PREPARED" /\ producer[s] = None)
              => segRows'[s] = segRows[s] /\ dataExpiresAt'[s] = dataExpiresAt[s]
    PROVE  RowsAccounted'
<1>1. Active' = Active
  BY DEF Active
<1>2. \A s \in Active : /\ s \in Segment /\ segRows'[s] = segRows[s]
                        /\ dataExpiresAt'[s] = dataExpiresAt[s]
  BY DEF Active
<1>3. RowsOf(Active)' = RowsOf(Active)
  BY <1>1, <1>2, RowsOfKept DEF RowsOf
<1>4. QED
  BY <1>1, <1>2, <1>3 DEF RowsAccounted, historyVars

\* Every step keeps each published, unexpired row in exactly one ACTIVE segment.
LEMMA AccountedStep ==
    TypeOK /\ Stored /\ RunsConsistent /\ RunsDistribute /\ RowsAccounted /\ [Next]_vars
        => RowsAccounted'
<1> SUFFICES ASSUME TypeOK, Stored, RunsConsistent, RunsDistribute, RowsAccounted,
                    [Next]_vars
             PROVE  RowsAccounted'
  OBVIOUS
<1> USE IdentityAssumption, DurationAssumption DEF TypeOK, Object, Update, segVars
<1>1. ASSUME NEW s \in Segment, NEW R \in SUBSET Row, RegisterIngestionSegment(s, R)
      PROVE  RowsAccounted'
  <2>1. /\ \A t \in Segment : segState'[t] = IF t = s THEN "PREPARED" ELSE segState[t]
        /\ \A t \in Segment : segRows'[t] = IF t = s THEN R ELSE segRows[t]
        /\ UNCHANGED <<producer, dataExpiresAt, historyVars>>
        /\ segState[s] = "NONE" /\ R \cap published = {}
        /\ \A t \in Segment : segState[t] = "PREPARED" /\ producer[t] = None
                               => R \cap segRows[t] = {}
    BY <1>1 DEF RegisterIngestionSegment, InsertPrepared, Unheld
  <2>2. Active' = Active /\ s \notin Active
    BY <2>1 DEF Active
  <2>3. \A t \in Active : t \in Segment /\ segRows'[t] = segRows[t]
    BY <2>1, <2>2 DEF Active
  <2>4. RowsOf(Active)' = RowsOf(Active)
    BY <2>2, <2>3, RowsOfKept DEF RowsOf
  <2>5. QED
    BY <2>1, <2>2, <2>3, <2>4 DEF RowsAccounted, historyVars
<1>2. ASSUME NEW s \in Segment, PublishIngestionSegment(s)
      PROVE  RowsAccounted'
  <2>1. PICK t \in TransactionStart :
           /\ \A x \in Segment : /\ segState'[x] = IF x = s THEN "ACTIVE" ELSE segState[x]
                                /\ dataExpiresAt'[x] = IF x = s THEN t + Retention
                                                       ELSE dataExpiresAt[x]
           /\ \A x \in Row : rowDeadline'[x] = IF x \in segRows[s] THEN t + Retention
                                               ELSE rowDeadline[x]
           /\ published' = published \cup segRows[s]
           /\ segState[s] = "PREPARED" /\ producer[s] = None
           /\ UNCHANGED <<segRows, producer, expired>>
    BY <1>2 DEF PublishIngestionSegment
  <2> HIDE DEF Update
  <2>2. Active' = Active \cup {s} /\ Active \subseteq Segment
    BY <2>1 DEF Active
  <2>3. RowsOf(Active)' = RowsOf(Active) \cup segRows[s]
    BY <2>1, <2>2 DEF RowsOf
  <2>4. segRows[s] \cap published = {} /\ segRows[s] \subseteq Row
    BY <2>1 DEF RowsAccounted
  <2>5. \A x \in Active : segRows[x] \subseteq published
    BY DEF RowsAccounted, RowsOf
  <2>6. expired' \subseteq published' /\ RowsOf(Active)' = published' \ expired'
    BY <2>1, <2>3, <2>4 DEF RowsAccounted
  <2>7. \A x, y \in Active' : x # y => segRows'[x] \cap segRows'[y] = {}
    BY <2>1, <2>2, <2>4, <2>5 DEF RowsAccounted
  <2>8. \A x \in Segment : segState'[x] = "PREPARED" /\ producer'[x] = None =>
           /\ segRows'[x] \cap published' = {}
           /\ \A y \in Segment \ {x} : segState'[y] = "PREPARED" /\ producer'[y] = None
                 => segRows'[x] \cap segRows'[y] = {}
    BY <2>1 DEF RowsAccounted
  <2>9. \A x \in Active' : \A y \in segRows'[x] : rowDeadline'[y] <= dataExpiresAt'[x]
    <3> SUFFICES ASSUME NEW x \in Active', NEW y \in segRows'[x]
                 PROVE  rowDeadline'[y] <= dataExpiresAt'[x]
      OBVIOUS
    <3>1. x \in Segment /\ y \in Row /\ y \in segRows[x]
      BY <2>1, <2>2
    <3>2. CASE x = s
      BY <2>1, <3>1, <3>2 DEF TransactionStart
    <3>3. CASE x # s
      <4>1. x \in Active /\ y \notin segRows[s]
        BY <2>2, <2>4, <2>5, <3>1, <3>3
      <4>2. QED
        BY <2>1, <3>1, <3>3, <4>1 DEF RowsAccounted
    <3>4. QED
      BY <3>2, <3>3
  <2>10. QED
    BY <2>6, <2>7, <2>8, <2>9 DEF RowsAccounted
<1>3. ASSUME NEW s \in Segment, AbandonIngestionOutput(s)
      PROVE  RowsAccounted'
  BY <1>3, ActiveUntouched, AbandonPrepared DEF AbandonIngestionOutput
<1>4. ASSUME NEW S \in SUBSET Segment, NEW D \in SUBSET DeadLetter,
             ReconcileUnreferencedOutputs(S, D)
      PROVE  RowsAccounted'
  BY <1>4, ActiveUntouched DEF ReconcileUnreferencedOutputs
<1>5. ASSUME NEW r \in Run, NEW I \in SUBSET Segment, ClaimCompaction(r, I)
      PROVE  RowsAccounted'
  BY <1>5, ActiveUntouched DEF ClaimCompaction
<1>6. ASSUME NEW r \in Run, NEW O \in SUBSET Segment, NEW content \in [O -> SUBSET Row],
             NEW s \in Segment, RegisterOutputs(r, O, content, dataExpiresAt[s])
      PROVE  RowsAccounted'
  BY <1>6, ActiveUntouched DEF RegisterOutputs
<1>7. ASSUME NEW r \in Run, PublishReplacement(r)
      PROVE  RowsAccounted'
  <2>1. Claims(r) \subseteq Active /\ Outputs(r) \subseteq Segment \ Active
    BY <1>7 DEF PublishReplacement, Claims, Outputs, Registered, Active
  <2>2. Active' = (Active \ Claims(r)) \cup Outputs(r)
    BY <1>7, <2>1 DEF PublishReplacement, Active
  <2>3. Distributes(segRows, Outputs(r), RowsOf(Claims(r)))
    BY <1>7 DEF PublishReplacement, RunsDistribute
  <2>4. UNCHANGED <<segRows, dataExpiresAt, producer, historyVars>>
    BY <1>7 DEF PublishReplacement
  <2>5. \A x : x \in RowsOf(Active)' <=> x \in RowsOf(Active)
    BY <2>1, <2>2, <2>3, <2>4 DEF RowsOf, Distributes, RowsAccounted
  <2>6. \A s, t \in Active' : s # t => segRows[s] \cap segRows[t] = {}
    BY <2>1, <2>2, <2>3 DEF RowsOf, Distributes, RowsAccounted
  <2>7. \A s \in Active' : \A x \in segRows[s] : rowDeadline[x] <= dataExpiresAt[s]
    <3> SUFFICES ASSUME NEW s \in Outputs(r), NEW x \in segRows[s]
                 PROVE  rowDeadline[x] <= dataExpiresAt[s]
      BY <2>2 DEF RowsAccounted
    <3>1. PICK t \in Claims(r) : x \in segRows[t]
      BY <2>3 DEF Distributes, RowsOf
    <3>2. rowDeadline[x] <= dataExpiresAt[t] /\ dataExpiresAt[t] <= dataExpiresAt[s]
      BY <1>7, <2>1, <3>1 DEF RowsAccounted, RunsDistribute, PublishReplacement
    <3>3. x \in Row /\ s \in Segment /\ t \in Segment
      BY <2>1, <3>1 DEF Active
    <3>4. QED
      BY <3>2, <3>3
  <2>8. \A s \in Segment : segState'[s] = "PREPARED" => segState[s] = "PREPARED"
    BY <1>7 DEF PublishReplacement
  <2>9. QED
    BY <2>4, <2>5, <2>6, <2>7, <2>8 DEF RowsAccounted, historyVars
<1>8. ASSUME NEW F \in SUBSET Run, FailRuns(F)
      PROVE  RowsAccounted'
  <2>1. \A s \in OutputsOfAny(F) : segState[s] = "PREPARED"
    BY <1>8, FailedOutputsPrepared
  <2>2. QED
    BY <1>8, <2>1, ActiveUntouched DEF FailRuns
<1>9. ASSUME NEW S \in SUBSET Segment, ExpireSegments(S)
      PROVE  RowsAccounted'
  <2>1. S \subseteq Active /\ Active' = Active \ S
    BY <1>9 DEF ExpireSegments, Active
  <2>2. \A x : x \in RowsOf(Active)' <=> x \in RowsOf(Active) /\ x \notin RowsOf(S)
    <3>1. RowsOf(Active)' = UNION {segRows[s] : s \in Active \ S}
      BY <1>9, <2>1 DEF ExpireSegments, RowsOf
    <3>2. \A s \in Active \ S, t \in S : segRows[s] \cap segRows[t] = {}
      BY <2>1 DEF RowsAccounted
    <3>3. ASSUME NEW x, x \in RowsOf(Active)'
          PROVE  x \in RowsOf(Active) /\ x \notin RowsOf(S)
      <4>1. PICK s \in Active \ S : x \in segRows[s]
        BY <3>1, <3>3
      <4>2. QED
        BY <4>1, <3>2 DEF RowsOf
    <3>4. ASSUME NEW x, x \in RowsOf(Active), x \notin RowsOf(S)
          PROVE  x \in RowsOf(Active)'
      <4>1. PICK s \in Active : x \in segRows[s]
        BY <3>4 DEF RowsOf
      <4>2. s \notin S
        BY <4>1, <3>4 DEF RowsOf
      <4>3. QED
        BY <4>1, <4>2, <3>1
    <3>5. QED
      BY <3>3, <3>4
  <2>3. RowsOf(S) \subseteq published
    BY <2>1 DEF RowsOf, RowsAccounted
  <2>4. QED
    <3>1. /\ UNCHANGED <<segRows, producer, dataExpiresAt, published, rowDeadline>>
          /\ expired' = expired \cup RowsOf(S)
          /\ \A s \in Segment : segState'[s] = "PREPARED" => segState[s] = "PREPARED"
      BY <1>9 DEF ExpireSegments
    <3>2. RowsOf(Active)' = published' \ expired' /\ expired' \subseteq published'
      BY <2>2, <2>3, <3>1 DEF RowsAccounted
    <3>3. QED
      BY <2>1, <3>1, <3>2, Zenon DEF RowsAccounted
<1>10. ASSUME NEW D \in SUBSET Object, NEW F \in SUBSET Run, CleanTerminalMetadata(D, F)
       PROVE  RowsAccounted'
  <2>1. \A s \in Segment \cap D : segState[s] \in Retired
    BY <1>10 DEF CleanTerminalMetadata, Cleanable
  <2>2. \A s \in Segment :
           /\ segState'[s] = IF s \in D THEN "REMOVED" ELSE segState[s]
           /\ dataExpiresAt'[s] = IF s \in D THEN 0 ELSE dataExpiresAt[s]
    BY <1>10 DEF CleanTerminalMetadata
  <2>3. UNCHANGED <<segRows, producer, historyVars>>
    BY <1>10 DEF CleanTerminalMetadata
  <2>4. QED
    BY <2>1, <2>2, <2>3, ActiveUntouched DEF Retired
<1>11. CASE UNCHANGED <<segVars, runState, historyVars>>
  BY <1>11, ActiveUntouched
<1> HIDE DEF TypeOK, Object, Update, segVars
<1>12. QED
  BY <1>1, <1>2, <1>3, <1>4, <1>5, <1>6, <1>7, <1>8, <1>9, <1>10, <1>11, OtherSteps
     DEF SegmentStep

-----------------------------------------------------------------------------
\* The states in which a snapshot may hold a segment.
Selectable == {"ACTIVE", "SUPERSEDED", "EXPIRED", "REMOVED"}

\* A step of another component that leaves such segments alone.
SelectedKept ==
    /\ UNCHANGED <<now, queryVars>>
    /\ \A s \in Segment : segState[s] \in Selectable =>
          /\ segState'[s] = segState[s] /\ objState'[s] = objState[s]
          /\ reclaimAfter'[s] = reclaimAfter[s]

\* The part of SnapshotsProtected that is about one segment of a snapshot.
Protected(q, s) ==
    /\ segState[s] \in Selectable
    /\ segState[s] \in {"SUPERSEDED", "EXPIRED"} =>
          snapshotAt[q] + ReclamationGrace <= reclaimAfter[s] + CommitLag
    /\ objState[s] # "PUBLISHED" =>
          snapshotAt[q] + ReclamationGrace <= now + CommitLag

\* When queries and the clock stand still, only the segments matter.
LEMMA ProtectedBySegment ==
    ASSUME TypeOK, SnapshotsProtected, [Next]_vars, UNCHANGED <<now, queryVars>>,
           \A q \in Query : \A s \in snapshot[q] : Protected(q, s) => Protected(q, s)'
    PROVE  SnapshotsProtected'
<1>1. \A q \in Query : \A s \in snapshot[q] :
         s \in Segment /\ Protected(q, s) /\ segRows'[s] = segRows[s]
  <2> SUFFICES ASSUME NEW q \in Query, NEW s \in snapshot[q]
               PROVE  s \in Segment /\ Protected(q, s) /\ segRows'[s] = segRows[s]
    OBVIOUS
  <2>1. s \in Segment
    BY DEF TypeOK
  <2>2. Protected(q, s)
    BY DEF SnapshotsProtected, Protected, Selectable
  <2>3. QED
    BY <2>1, <2>2, RowsKept DEF Protected, Selectable
<1>2. \A q \in Query : \A s \in snapshot[q] : Protected(q, s)'
  BY <1>1
<1>3. QED
  BY <1>1, <1>2 DEF SnapshotsProtected, Protected, Selectable, queryVars

\* A step that leaves the selected segments as they are keeps snapshots protected.
LEMMA ProtectedByFrame ==
    ASSUME TypeOK, SnapshotsProtected, [Next]_vars, SelectedKept
    PROVE  SnapshotsProtected'
<1>1. \A q \in Query : \A s \in snapshot[q] : Protected(q, s) => Protected(q, s)'
  BY DEF TypeOK, SelectedKept, Protected, queryVars
<1>2. QED
  BY <1>1, ProtectedBySegment DEF SelectedKept

\* Every step leaves a running query the objects of its snapshot: superseding and
\* expiring set reclaim_after late enough, and reclamation waits for it.
LEMMA ProtectedStep ==
    TypeOK /\ Stored /\ RunsConsistent /\ RowsAccounted /\ SnapshotsProtected /\ [Next]_vars
        => SnapshotsProtected'
<1> SUFFICES ASSUME TypeOK, Stored, RunsConsistent, RowsAccounted, SnapshotsProtected,
                    [Next]_vars
             PROVE  SnapshotsProtected'
  OBVIOUS
<1>types. /\ segState \in [Segment -> SegmentStates] /\ objState \in [Object -> ObjectStates]
          /\ reclaimAfter \in [Object -> Nat] /\ now \in Nat
          /\ Segment \subseteq Object /\ Segment \cap DeadLetter = {}
          /\ CommitLag \in Nat /\ QueryTimeout \in Nat /\ SafetyMargin \in Nat
          /\ SelectLag \in Nat
          /\ snapshot \in [Query -> SUBSET Segment] /\ snapshotAt \in [Query -> Nat]
          /\ deadline \in [Query -> Nat]
          /\ query \in [Query -> {"idle", "selected", "executing"}]
  BY IdentityAssumption, DurationAssumption DEF TypeOK, Object
<1>paired. \A s \in Segment :
             /\ segState[s] = "NONE" => objState[s] = "NONE"
             /\ segState[s] = "PREPARED" => objState[s] \in {"PLANNED", "UPLOADED"}
             /\ segState[s] = "ACTIVE" => objState[s] = "PUBLISHED"
             /\ segState[s] \in Selectable => objState[s] \notin {"PLANNED", "UPLOADED"}
  BY DEF Selectable, Stored, RowsPaired
<1>1. ASSUME NEW s \in Segment, NEW R \in SUBSET Row, RegisterIngestionSegment(s, R)
      PROVE  SnapshotsProtected'
  <2>1. SelectedKept
    BY <1>types, <1>paired, <1>1
      DEF RegisterIngestionSegment, InsertPrepared, Unheld, Update, Selectable,
          SelectedKept, segVars
  <2>2. QED
    BY <2>1, ProtectedByFrame
<1>2. ASSUME NEW d \in DeadLetter, NEW b \in Batch, RegisterDeadLetter(d, b)
      PROVE  SnapshotsProtected'
  <2>1. SelectedKept
    BY <1>types, <1>paired, <1>2
      DEF RegisterDeadLetter, InsertPlannedLetter, Update, Selectable, SelectedKept, segVars
  <2>2. QED
    BY <2>1, ProtectedByFrame
<1>3. ASSUME NEW o \in Object, Upload(o)
      PROVE  SnapshotsProtected'
  <2>1. SelectedKept
    BY <1>types, <1>paired, <1>3
      DEF Upload, UploadVerified, UploadLeftInFlight, Update, Selectable, SelectedKept, segVars
  <2>2. QED
    BY <2>1, ProtectedByFrame
<1>4. ASSUME NEW o \in Object, LatePutLands(o)
      PROVE  SnapshotsProtected'
  <2>1. SelectedKept
    BY <1>types, <1>paired, <1>4 DEF LatePutLands, Update, Selectable, SelectedKept, segVars
  <2>2. QED
    BY <2>1, ProtectedByFrame
<1>5. ASSUME NEW o \in Object, RecordVerifiedUpload(o)
      PROVE  SnapshotsProtected'
  <2>1. SelectedKept
    BY <1>types, <1>paired, <1>5
      DEF RecordVerifiedUpload, Update, Selectable, SelectedKept, segVars
  <2>2. QED
    BY <2>1, ProtectedByFrame
<1>6. ASSUME NEW s \in Segment, PublishIngestionSegment(s)
      PROVE  SnapshotsProtected'
  <2>1. SelectedKept
    BY <1>types, <1>paired, <1>6
      DEF PublishIngestionSegment, Update, Selectable, SelectedKept, segVars
  <2>2. QED
    BY <2>1, ProtectedByFrame
<1>7. ASSUME NEW d \in DeadLetter, PublishDeadLetter(d)
      PROVE  SnapshotsProtected'
  <2>1. SelectedKept
    BY <1>types, <1>paired, <1>7
      DEF PublishDeadLetter, Update, Selectable, SelectedKept, segVars
  <2>2. QED
    BY <2>1, ProtectedByFrame
<1>8. ASSUME NEW s \in Segment, AbandonIngestionOutput(s)
      PROVE  SnapshotsProtected'
  <2>1. SelectedKept
    BY <1>types, <1>paired, <1>8, AbandonPrepared
      DEF AbandonIngestionOutput, Update, Selectable, SelectedKept, segVars
  <2>2. QED
    BY <2>1, ProtectedByFrame
<1>9. ASSUME NEW S \in SUBSET Segment, NEW D \in SUBSET DeadLetter,
             ReconcileUnreferencedOutputs(S, D)
      PROVE  SnapshotsProtected'
  <2>1. SelectedKept
    BY <1>types, <1>paired, <1>9
      DEF ReconcileUnreferencedOutputs, Update, Selectable, SelectedKept, segVars
  <2>2. QED
    BY <2>1, ProtectedByFrame
<1>10. ASSUME NEW r \in Run, NEW I \in SUBSET Segment, ClaimCompaction(r, I)
      PROVE  SnapshotsProtected'
  <2>1. SelectedKept
    BY <1>types, <1>paired, <1>10
      DEF ClaimCompaction, Update, Selectable, SelectedKept, segVars
  <2>2. QED
    BY <2>1, ProtectedByFrame
<1>11. ASSUME NEW r \in Run, NEW O \in SUBSET Segment, NEW content \in [O -> SUBSET Row],
             NEW s \in Segment, RegisterOutputs(r, O, content, dataExpiresAt[s])
      PROVE  SnapshotsProtected'
  <2>1. SelectedKept
    BY <1>types, <1>paired, <1>11
      DEF RegisterOutputs, Update, Selectable, SelectedKept, segVars
  <2>2. QED
    BY <2>1, ProtectedByFrame
<1>12. ASSUME NEW r \in Run, PublishReplacement(r)
       PROVE  SnapshotsProtected'
  <2>1. UNCHANGED <<now, queryVars>>
    BY <1>12 DEF PublishReplacement
  <2>2. \A s \in Outputs(r) : s \in Segment /\ segState[s] = "PREPARED"
    BY <1>12 DEF PublishReplacement, Outputs
  <2>3. \A s \in Claims(r) : s \in Segment /\ segState[s] = "ACTIVE"
    BY <1>12 DEF PublishReplacement, Claims
  <2>4. PICK t \in TransactionStart :
           reclaimAfter' = Update(reclaimAfter, Claims(r), t + ReclamationGrace)
    BY <1>12 DEF PublishReplacement
  <2>5. t \in Nat /\ now <= t + CommitLag /\ ReclamationGrace \in Nat
    BY <1>types, <2>4 DEF TransactionStart, ReclamationGrace
  <2>6. \A s \in Segment : segState[s] \in Selectable =>
           /\ objState'[s] = objState[s]
           /\ IF s \in Claims(r)
                THEN segState'[s] = "SUPERSEDED" /\ reclaimAfter'[s] = t + ReclamationGrace
                ELSE segState'[s] = segState[s] /\ reclaimAfter'[s] = reclaimAfter[s]
    BY <1>types, <1>12, <2>2, <2>4 DEF PublishReplacement, Update, Selectable
  <2>7. ASSUME NEW q \in Query, NEW s \in snapshot[q], Protected(q, s)
        PROVE  Protected(q, s)'
    <3>1. s \in Segment /\ snapshotAt[q] \in Nat /\ snapshotAt[q] <= now
      BY <1>types DEF SnapshotsProtected
    <3>2. QED
      BY <1>types, <2>1, <2>5, <2>6, <2>7, <3>1 DEF Protected, Selectable, queryVars
  <2>8. QED
    BY <2>1, <2>7, ProtectedBySegment
<1>13. ASSUME NEW F \in SUBSET Run, FailRuns(F)
       PROVE  SnapshotsProtected'
  <2>1. \A s \in OutputsOfAny(F) : segState[s] = "PREPARED"
    BY <1>13, FailedOutputsPrepared
  <2>2. SelectedKept
    BY <1>types, <1>13, <2>1 DEF FailRuns, Update, Selectable, SelectedKept
  <2>3. QED
    BY <2>2, ProtectedByFrame
<1>14. ASSUME NEW S \in SUBSET Segment, ExpireSegments(S)
       PROVE  SnapshotsProtected'
  <2>1. UNCHANGED <<now, queryVars>>
    BY <1>14 DEF ExpireSegments
  <2>2. PICK t \in TransactionStart :
           reclaimAfter' = Update(reclaimAfter, S, t + ReclamationGrace)
    BY <1>14 DEF ExpireSegments
  <2>3. t \in Nat /\ now <= t + CommitLag /\ ReclamationGrace \in Nat
    BY <1>types, <2>2 DEF TransactionStart, ReclamationGrace
  <2>4. \A s \in Segment :
           /\ objState'[s] = objState[s]
           /\ IF s \in S
                THEN segState'[s] = "EXPIRED" /\ reclaimAfter'[s] = t + ReclamationGrace
                ELSE segState'[s] = segState[s] /\ reclaimAfter'[s] = reclaimAfter[s]
    BY <1>types, <1>14, <2>2 DEF ExpireSegments, Update
  <2>5. ASSUME NEW q \in Query, NEW s \in snapshot[q], Protected(q, s)
        PROVE  Protected(q, s)'
    <3>1. s \in Segment /\ snapshotAt[q] \in Nat /\ snapshotAt[q] <= now
      BY <1>types DEF SnapshotsProtected
    <3>2. QED
      BY <1>types, <2>1, <2>3, <2>4, <2>5, <3>1 DEF Protected, Selectable, queryVars
  <2>6. QED
    BY <2>1, <2>5, ProtectedBySegment
<1>15. ASSUME NEW S \in SUBSET Object, ClaimReclamation(S)
       PROVE  SnapshotsProtected'
  <2>1. UNCHANGED <<now, queryVars, segVars, reclaimAfter>>
    BY <1>15 DEF ClaimReclamation
  <2>2. PICK t \in TransactionStart :
           \A o \in S : objState[o] = "DELETE_PENDING" \/ InitialCandidate(o, t)
    BY <1>15 DEF ClaimReclamation
  <2>3. t \in Nat /\ t <= now /\ ReclamationGrace \in Nat
    BY <1>types, <2>2 DEF TransactionStart, ReclamationGrace
  <2>4. \A s \in Segment :
           objState'[s] = IF s \in S THEN "DELETE_PENDING" ELSE objState[s]
    BY <1>types, <1>15 DEF ClaimReclamation, Update
  <2>5. \A s \in S \cap Segment :
           \/ objState[s] = "DELETE_PENDING"
           \/ segState[s] \notin {"ACTIVE", "REMOVED"} /\ reclaimAfter[s] <= t
    BY <1>types, <2>2 DEF InitialCandidate
  <2>6. ASSUME NEW q \in Query, NEW s \in snapshot[q], Protected(q, s)
        PROVE  Protected(q, s)'
    <3>1. s \in Segment /\ snapshotAt[q] \in Nat
      BY <1>types
    <3>2. QED
      BY <1>types, <2>1, <2>3, <2>4, <2>5, <2>6, <3>1
         DEF Protected, Selectable, queryVars, segVars
  <2>7. QED
    BY <2>1, <2>6, ProtectedBySegment
<1>16. ASSUME NEW o \in Object, DeleteExact(o)
       PROVE  SnapshotsProtected'
  <2>1. SelectedKept
    BY <1>16 DEF DeleteExact, SelectedKept, segVars
  <2>2. QED
    BY <2>1, ProtectedByFrame
<1>17. ASSUME NEW o \in Object, RecordDeleted(o)
       PROVE  SnapshotsProtected'
  <2>1. UNCHANGED <<now, queryVars, segVars, reclaimAfter>>
    BY <1>17 DEF RecordDeleted
  <2>2. \A s \in Segment : objState[s] # "PUBLISHED" \/ objState'[s] = objState[s]
    BY <1>types, <1>17 DEF RecordDeleted, Update
  <2>3. \A q \in Query : \A s \in snapshot[q] : Protected(q, s) => Protected(q, s)'
    BY <1>types, <2>1, <2>2 DEF Protected, queryVars, segVars
  <2>4. QED
    BY <2>1, <2>3, ProtectedBySegment
<1>18. ASSUME NEW D \in SUBSET Object, NEW F \in SUBSET Run, CleanTerminalMetadata(D, F)
       PROVE  SnapshotsProtected'
  <2>1. UNCHANGED <<now, queryVars>>
    BY <1>18 DEF CleanTerminalMetadata
  <2>2. \A s \in Segment :
           IF s \in D
             THEN objState[s] = "DELETED" /\ segState'[s] = "REMOVED"
             ELSE /\ segState'[s] = segState[s] /\ objState'[s] = objState[s]
                  /\ reclaimAfter'[s] = reclaimAfter[s]
    BY <1>types, <1>18 DEF CleanTerminalMetadata, Update
  <2>3. \A q \in Query : \A s \in snapshot[q] : Protected(q, s) => Protected(q, s)'
    BY <1>types, <2>1, <2>2 DEF Protected, Selectable, queryVars
  <2>4. QED
    BY <2>1, <2>3, ProtectedBySegment
<1>19. ASSUME NEW q \in Query, SelectSnapshot(q)
       PROVE  SnapshotsProtected'
  <2>1. /\ query' = [p \in Query |-> IF p = q THEN "selected" ELSE query[p]]
        /\ snapshot' = [p \in Query |-> IF p = q THEN Active ELSE snapshot[p]]
        /\ snapshotAt' = [p \in Query |-> IF p = q THEN now ELSE snapshotAt[p]]
        /\ UNCHANGED <<now, segState, segRows, objState, reclaimAfter, deadline>>
    BY <1>types, <1>19 DEF SelectSnapshot, Update, segVars
  <2>2. /\ \A s \in Active : segState[s] = "ACTIVE" /\ objState[s] = "PUBLISHED"
        /\ \A s, t \in Active : s # t => segRows[s] \cap segRows[t] = {}
    BY <1>paired DEF Active, RowsAccounted
  <2>3. QED
    BY <1>types, <2>1, <2>2 DEF SnapshotsProtected
<1>20. ASSUME NEW q \in Query, StartExecution(q)
       PROVE  SnapshotsProtected'
  <2>1. /\ query' = [p \in Query |-> IF p = q THEN "executing" ELSE query[p]]
        /\ deadline' = [p \in Query |-> IF p = q THEN now + QueryTimeout ELSE deadline[p]]
        /\ query[q] = "selected"
        /\ UNCHANGED <<now, segState, segRows, objState, reclaimAfter, snapshot, snapshotAt>>
    BY <1>types, <1>20 DEF StartExecution, Update, segVars
  <2>2. QED
    BY <1>types, <2>1 DEF SnapshotsProtected
<1>21. ASSUME NEW q \in Query, FinishQuery(q)
       PROVE  SnapshotsProtected'
  <2>1. /\ query' = [p \in Query |-> IF p = q THEN "idle" ELSE query[p]]
        /\ snapshot' = [p \in Query |-> IF p = q THEN {} ELSE snapshot[p]]
        /\ snapshotAt' = [p \in Query |-> IF p = q THEN 0 ELSE snapshotAt[p]]
        /\ deadline' = [p \in Query |-> IF p = q THEN 0 ELSE deadline[p]]
        /\ UNCHANGED <<now, segState, segRows, objState, reclaimAfter>>
    BY <1>types, <1>21 DEF FinishQuery, Update, segVars
  <2>2. QED
    BY <1>types, <2>1 DEF SnapshotsProtected
<1>22. CASE Tick
  BY <1>types, <1>22 DEF Tick, SnapshotsProtected, ReclamationGrace, queryVars, segVars
<1>23. CASE UNCHANGED vars
  <2>1. SelectedKept
    BY <1>23 DEF vars, SelectedKept, segVars
  <2>2. QED
    BY <2>1, ProtectedByFrame
<1>24. QED
  BY <1>1, <1>2, <1>3, <1>4, <1>5, <1>6, <1>7, <1>8, <1>9, <1>10, <1>11,
     <1>12, <1>13, <1>14, <1>15, <1>16, <1>17, <1>18, <1>19, <1>20, <1>21, <1>22, <1>23
       DEF Next, Building

\* Every step schedules a published dead letter for deletion only after its
\* retention deadline.
LEMMA DueStep == TypeOK /\ Stored /\ DeadLettersDue /\ [Next]_vars => DeadLettersDue'
<1> SUFFICES ASSUME TypeOK, Stored, DeadLettersDue, [Next]_vars PROVE DeadLettersDue'
  OBVIOUS
<1> USE IdentityAssumption, DurationAssumption
    DEF TypeOK, DeadLettersDue, Object, Update, ReclamationGrace, TransactionStart,
        segVars, storeVars, queryVars, historyVars
<1>1. ASSUME NEW s \in Segment, NEW R \in SUBSET Row, RegisterIngestionSegment(s, R)
      PROVE  DeadLettersDue'
  BY <1>1 DEF RegisterIngestionSegment, InsertPrepared, Unheld
<1>2. ASSUME NEW d \in DeadLetter, NEW b \in Batch, RegisterDeadLetter(d, b)
      PROVE  DeadLettersDue'
  BY <1>2 DEF RegisterDeadLetter, InsertPlannedLetter
<1>3. ASSUME NEW o \in Object, Upload(o)
      PROVE  DeadLettersDue'
  BY <1>3 DEF Upload, UploadVerified, UploadLeftInFlight
<1>4. ASSUME NEW o \in Object, LatePutLands(o)
      PROVE  DeadLettersDue'
  BY <1>4 DEF LatePutLands
<1>5. ASSUME NEW o \in Object, RecordVerifiedUpload(o)
      PROVE  DeadLettersDue'
  BY <1>5 DEF RecordVerifiedUpload
<1>6. ASSUME NEW s \in Segment, PublishIngestionSegment(s)
      PROVE  DeadLettersDue'
  BY <1>6 DEF PublishIngestionSegment
<1>7. ASSUME NEW d \in DeadLetter, PublishDeadLetter(d)
      PROVE  DeadLettersDue'
  BY <1>7 DEF PublishDeadLetter
<1>8. ASSUME NEW s \in Segment, AbandonIngestionOutput(s)
      PROVE  DeadLettersDue'
  BY <1>8 DEF AbandonIngestionOutput
<1>9. ASSUME NEW S \in SUBSET Segment, NEW D \in SUBSET DeadLetter,
                ReconcileUnreferencedOutputs(S, D)
      PROVE  DeadLettersDue'
  BY <1>9 DEF ReconcileUnreferencedOutputs
<1>10. ASSUME NEW r \in Run, NEW I \in SUBSET Segment, ClaimCompaction(r, I)
      PROVE  DeadLettersDue'
  BY <1>10 DEF ClaimCompaction
<1>11. ASSUME NEW r \in Run, NEW O \in SUBSET Segment, NEW content \in [O -> SUBSET Row],
                NEW s \in Segment, RegisterOutputs(r, O, content, dataExpiresAt[s])
      PROVE  DeadLettersDue'
  BY <1>11 DEF RegisterOutputs
<1>12. ASSUME NEW r \in Run, PublishReplacement(r)
      PROVE  DeadLettersDue'
  BY <1>12 DEF PublishReplacement, Claims, Outputs
<1>13. ASSUME NEW F \in SUBSET Run, FailRuns(F)
      PROVE  DeadLettersDue'
  BY <1>13 DEF FailRuns, OutputsOfAny
<1>14. ASSUME NEW S \in SUBSET Segment, ExpireSegments(S)
      PROVE  DeadLettersDue'
  BY <1>14 DEF ExpireSegments
<1>15. ASSUME NEW S \in SUBSET Object, ClaimReclamation(S)
      PROVE  DeadLettersDue'
  BY <1>15 DEF ClaimReclamation, InitialCandidate
<1>16. ASSUME NEW o \in Object, DeleteExact(o)
      PROVE  DeadLettersDue'
  BY <1>16 DEF DeleteExact
<1>17. ASSUME NEW o \in Object, RecordDeleted(o)
      PROVE  DeadLettersDue'
  BY <1>17 DEF RecordDeleted
<1>18. ASSUME NEW D \in SUBSET Object, NEW F \in SUBSET Run, CleanTerminalMetadata(D, F)
      PROVE  DeadLettersDue'
  BY <1>18 DEF CleanTerminalMetadata
<1>19. ASSUME NEW q \in Query, SelectSnapshot(q)
      PROVE  DeadLettersDue'
  BY <1>19 DEF SelectSnapshot
<1>20. ASSUME NEW q \in Query, StartExecution(q)
      PROVE  DeadLettersDue'
  BY <1>20 DEF StartExecution
<1>21. ASSUME NEW q \in Query, FinishQuery(q)
      PROVE  DeadLettersDue'
  BY <1>21 DEF FinishQuery
<1>22. CASE Tick
  BY <1>22 DEF Tick
<1>23. CASE UNCHANGED vars
  BY <1>23 DEF vars
<1> HIDE DEF TypeOK, DeadLettersDue, Object, Update, ReclamationGrace, TransactionStart,
             segVars, storeVars, queryVars, historyVars
<1>24. QED
  BY <1>1, <1>2, <1>3, <1>4, <1>5, <1>6, <1>7, <1>8, <1>9, <1>10, <1>11,
     <1>12, <1>13, <1>14, <1>15, <1>16, <1>17, <1>18, <1>19, <1>20, <1>21, <1>22, <1>23
       DEF Next, Building

-----------------------------------------------------------------------------
(* The layers together.                                                    *)

Inductive ==
    /\ TypeOK
    /\ Stored
    /\ RunsConsistent /\ InputsHeld /\ RunsDistribute
    /\ RowsAccounted
    /\ SnapshotsProtected
    /\ DeadLettersDue

\* The empty control plane satisfies every layer.
LEMMA InductiveInit == Init => Inductive
<1> SUFFICES ASSUME Init PROVE Inductive
  OBVIOUS
<1>1. TypeOK
  BY DurationAssumption
     DEF Init, TypeOK, Object, SegmentStates, ObjectStates, RunStates
<1>2. Stored /\ RunsConsistent
  BY StoredInit, RunsInit
<1>3. InputsHeld /\ RunsDistribute
  BY DEF Init, InputsHeld, RunsDistribute, Unfinished
<1>4. Active = {}
  BY DEF Init, Active
<1>5. RowsOf(Active) = {}
  BY <1>4 DEF RowsOf
<1>6. RowsAccounted
  BY <1>4, <1>5 DEF Init, RowsAccounted
<1>7. SnapshotsProtected /\ DeadLettersDue
  BY DEF Init, SnapshotsProtected, DeadLettersDue, Object
<1>8. QED
  BY <1>1, <1>2, <1>3, <1>6, <1>7 DEF Inductive

\* Every reachable state satisfies every layer: each layer is preserved by the
\* layers before it and itself, for all sets of segments, rows, runs and queries.
THEOREM InductiveInvariant == Spec => []Inductive
<1>1. Inductive /\ TypeOK' /\ [Next]_vars => Inductive'
  BY StoredStep, RunsStep, InputsHeldStep, DistributeStep, AccountedStep, ProtectedStep,
     DueStep
     DEF Inductive
<1>2. QED
  BY <1>1, InductiveInit, TypeCorrect, PTL DEF Spec

\* An ACTIVE segment has its object PUBLISHED and its bytes in the bucket,
\* whatever reconciliation, compaction, expiration and reclamation did.
THEOREM ActiveIsReadable == Spec => []ActiveReadable
<1>1. Inductive => ActiveReadable
  BY DEF Inductive, Stored, RowsPaired, BytesBacked, ActiveReadable, Object
<1>2. QED
  BY <1>1, InductiveInvariant, PTL

\* Rows published and not expired are each in exactly one ACTIVE segment, and
\* in at most one segment of a query's snapshot.
THEOREM VisibleExactlyOnce == Spec => []ExactlyOnceVisible
<1>1. Inductive => ExactlyOnceVisible
  BY DEF Inductive, RowsAccounted, SnapshotsProtected, ExactlyOnceVisible
<1>2. QED
  BY <1>1, InductiveInvariant, PTL

\* reclaim_after keeps every object of a snapshot until the query's deadline,
\* for all durations that satisfy DurationAssumption.
THEOREM SnapshotIsReadable == Spec => []SnapshotReadable
<1>1. Inductive => SnapshotReadable
  <2> SUFFICES ASSUME Inductive, NEW q \in Query, query[q] = "executing",
                      now < deadline[q], NEW s \in snapshot[q]
               PROVE  s \in bytes
    BY DEF SnapshotReadable
  <2> s \in Segment /\ s \in Object
    BY DEF Inductive, TypeOK, Object
  <2>1. CASE objState[s] = "PUBLISHED"
    BY <2>1 DEF Inductive, Stored, BytesBacked
  <2>2. CASE objState[s] # "PUBLISHED"
    BY <2>2, DurationAssumption
       DEF Inductive, SnapshotsProtected, TypeOK, ReclamationGrace
  <2>3. QED
    BY <2>1, <2>2
<1>2. QED
  BY <1>1, InductiveInvariant, PTL

\* No ACTIVE segment is claimed by a finished or removed run.
THEOREM ClaimsNeverStranded == Spec => []NoStrandedClaim
<1>1. Inductive => NoStrandedClaim
  BY DEF Inductive, RunsConsistent, NoStrandedClaim, Active
<1>2. QED
  BY <1>1, InductiveInvariant, PTL

\* recover_unfinished and fail_run never find an unfinished run they cannot
\* fail safely.
THEOREM RecoveryNeverCorrupt == Spec => []UnfinishedRunsFailureSafe
<1>1. Inductive => UnfinishedRunsFailureSafe
  <2> SUFFICES ASSUME Inductive, NEW r \in Run, runState[r] \in Unfinished
               PROVE  FailureSafe(r)
    BY DEF UnfinishedRunsFailureSafe
  <2>1. Cardinality(Claims(r)) >= 2
    BY DEF Inductive, InputsHeld
  <2>2. /\ \A s \in Claims(r) : segState[s] = "ACTIVE"
        /\ runState[r] = "BUILDING" => Outputs(r) = {}
        /\ runState[r] = "UPLOADING" =>
              Outputs(r) # {} /\ \A s \in Outputs(r) : segState[s] = "PREPARED"
    BY DEF Inductive, RunsConsistent
  <2>3. \A s \in Outputs(r) : segState[s] = "PREPARED" => objState[s] \in {"PLANNED", "UPLOADED"}
    BY DEF Inductive, Stored, RowsPaired, Outputs
  <2>4. runState[r] = "UPLOADING" => RowsOf(Outputs(r)) = RowsOf(Claims(r))
    BY DEF Inductive, RunsDistribute, Distributes, RowsOf
  <2>5. QED
    BY <2>1, <2>2, <2>3, <2>4 DEF FailureSafe
<1>2. QED
  BY <1>1, InductiveInvariant, PTL

\* The two rows of an ingestion output are always in a combination that
\* ingestion_output_state resolves.
THEOREM OutputNeverCorrupt == Spec => []OutputStateNeverCorrupt
<1>1. Inductive => OutputStateNeverCorrupt
  BY DEF Inductive, TypeOK, SegmentStates, ObjectStates, Stored, RowsPaired, Object,
         OutputStateNeverCorrupt, IngestionOutputState
<1>2. QED
  BY <1>1, InductiveInvariant, PTL

\* A published dead letter is readable until its retention deadline.
THEOREM DeadLettersKept == Spec => []DeadLetterKept
<1>1. Inductive => DeadLetterKept
  <2> SUFFICES ASSUME Inductive, NEW d \in DeadLetter, now < reclaimAfter[d]
               PROVE  d \in bytes
    BY DEF DeadLetterKept
  <2>1. objState[d] = "PUBLISHED"
    BY DEF Inductive, TypeOK, ObjectStates, Object, DeadLettersDue
  <2>2. QED
    BY <2>1 DEF Inductive, Stored, BytesBacked, Object
<1>2. QED
  BY <1>1, InductiveInvariant, PTL

\* Expiration never removes a row before the deadline its publication set,
\* through any number of compactions.
THEOREM RetentionIsHonoured == Spec => RetentionHonoured
<1>1. Inductive /\ [Next]_vars => [\A x \in expired' \ expired : rowDeadline[x] <= now]_vars
  <2> SUFFICES ASSUME Inductive, [Next]_vars, NEW x \in expired' \ expired
               PROVE  rowDeadline[x] <= now
    OBVIOUS
  <2>1. PICK S \in SUBSET Segment : ExpireSegments(S)
    <3>1. ASSUME NEW s \in Segment, PublishIngestionSegment(s)
          PROVE  FALSE
      BY <3>1 DEF PublishIngestionSegment
    <3>2. QED
      BY <3>1, StepKinds DEF StepKind, HistoryStep, historyVars
  <2>2. PICK s \in S : x \in segRows[s]
    BY <2>1 DEF ExpireSegments, RowsOf
  <2>3. s \in Active /\ dataExpiresAt[s] <= now
    BY <2>1, <2>2 DEF ExpireSegments, Active, TransactionStart, Inductive, TypeOK
  <2>4. rowDeadline[x] <= dataExpiresAt[s]
    BY <2>2, <2>3 DEF Inductive, RowsAccounted
  <2>5. QED
    BY <2>2, <2>3, <2>4 DEF Inductive, TypeOK, Active
<1>2. QED
  BY <1>1, InductiveInvariant, PTL DEF Spec, RetentionHonoured

-----------------------------------------------------------------------------
(* Refinement.  By RowsAccounted what a reader sees is always              *)
(* published \ expired, so only the steps that write the history of rows   *)
(* or a snapshot are visible.                                              *)

Result == [q \in Query |-> RowsOf(snapshot[q])]

\* What a query reads changes only when its snapshot does.
LEMMA ResultKept ==
    ASSUME Inductive, [Next]_vars, UNCHANGED snapshot
    PROVE  Result' = Result
<1> SUFFICES ASSUME NEW q \in Query, NEW s \in snapshot[q]
             PROVE  segRows'[s] = segRows[s]
  BY DEF Result, RowsOf
<1>1. s \in Segment
  BY DEF Inductive, TypeOK
<1>2. segState[s] # "NONE"
  BY DEF Inductive, SnapshotsProtected
<1>3. QED
  BY <1>1, <1>2, RowsKept DEF Inductive

\* Only publication, expiration, a selection and the end of a query are visible.
LEMMA VisibleStep ==
    [Next]_vars =>
        \/ UNCHANGED <<historyVars, snapshot>>
        \/ \E s \in Segment : PublishIngestionSegment(s)
        \/ \E S \in SUBSET Segment : ExpireSegments(S)
        \/ \E q \in Query : SelectSnapshot(q)
        \/ \E q \in Query : FinishQuery(q)
BY StepKinds DEF StepKind, HistoryStep, SnapshotStep

\* publish_ingestion_segment publishes exactly the rows of its segment.
LEMMA PublishHistory ==
    ASSUME NEW s \in Segment, PublishIngestionSegment(s)
    PROVE  published' = published \cup segRows[s] /\ expired' = expired
BY DEF PublishIngestionSegment

\* Every step of the control plane is a step of VisibleRows or changes
\* nothing a reader can see.
THEOREM Refinement == Spec => ImplementsVisibleRows
<1>1. Init => Visible!Init
  <2> SUFFICES ASSUME Init PROVE Visible!Init
    OBVIOUS
  <2>1. Active = {} /\ \A q \in Query : snapshot[q] = {}
    BY DEF Init, Active
  <2>2. QED
    BY <2>1 DEF Init, Visible!Init, RowsOf
<1>2. Inductive /\ Inductive' /\ [Next]_vars => [Visible!Next]_(Visible!vars)
  <2> SUFFICES ASSUME Inductive, Inductive', [Next]_vars
               PROVE  Visible!Next \/ UNCHANGED Visible!vars
    OBVIOUS
  <2>1. /\ RowsOf(Active) = published \ expired
        /\ RowsOf(Active)' = published' \ expired'
    BY DEF Inductive, RowsAccounted
  <2>2. published \in SUBSET Row /\ expired \subseteq published
    BY DEF Inductive, TypeOK, RowsAccounted
  <2>3. CASE UNCHANGED <<historyVars, snapshot>>
    BY <2>1, <2>3, ResultKept DEF Visible!vars, historyVars, Result
  <2>4. ASSUME NEW s \in Segment, PublishIngestionSegment(s)
        PROVE  Visible!Next \/ UNCHANGED Visible!vars
    <3>1. segRows[s] \in SUBSET Row /\ segRows[s] \cap published = {}
      BY <2>4, SMTT(20) DEF PublishIngestionSegment, Inductive, TypeOK, RowsAccounted
    <3>2. published' = published \cup segRows[s] /\ expired' = expired
      BY <2>4, PublishHistory, ZenonT(20)
    <3>3. Result' = Result
      BY <2>4, ResultKept DEF PublishIngestionSegment, queryVars
    <3>4. CASE segRows[s] = {}
      BY <2>1, <3>2, <3>3, <3>4 DEF Visible!vars, Result
    <3>5. CASE segRows[s] # {}
      <4>1. RowsOf(Active)' = RowsOf(Active) \cup segRows[s]
        BY <2>1, <2>2, <3>1, <3>2
      <4>2. segRows[s] \cap (RowsOf(Active) \cup expired) = {}
        BY <2>1, <2>2, <3>1
      <4>3. Visible!Publish(segRows[s])
        BY <3>2, <3>3, <3>5, <4>1, <4>2 DEF Visible!Publish, Result
      <4>4. QED
        BY <3>1, <4>3 DEF Visible!Next
    <3>6. QED
      BY <3>4, <3>5
  <2>5. ASSUME NEW S \in SUBSET Segment, ExpireSegments(S)
        PROVE  Visible!Next \/ UNCHANGED Visible!vars
    <3>1. RowsOf(S) \subseteq RowsOf(Active)
      BY <2>5 DEF ExpireSegments, RowsOf, Active
    <3>2. published' = published /\ expired' = expired \cup RowsOf(S)
      BY <2>5 DEF ExpireSegments
    <3>3. Result' = Result
      BY <2>5, ResultKept DEF ExpireSegments, queryVars
    <3>4. CASE RowsOf(S) = {}
      BY <2>1, <3>2, <3>3, <3>4 DEF Visible!vars, Result
    <3>5. CASE RowsOf(S) # {}
      <4>1. RowsOf(Active)' = RowsOf(Active) \ RowsOf(S)
        BY <2>1, <3>1, <3>2
      <4>2. Visible!Expire(RowsOf(S))
        BY <3>1, <3>2, <3>3, <3>5, <4>1 DEF Visible!Expire, Result
      <4>3. RowsOf(S) \in SUBSET Row
        BY <2>1, <2>2, <3>1
      <4>4. QED
        BY <4>2, <4>3 DEF Visible!Next
    <3>6. QED
      BY <3>4, <3>5
  <2>6. ASSUME NEW q \in Query, SelectSnapshot(q)
        PROVE  Visible!Next
    <3>1. UNCHANGED <<segRows, published, expired>>
      BY <2>6 DEF SelectSnapshot, segVars, historyVars
    <3>2. snapshot \in [Query -> SUBSET Segment]
      BY DEF Inductive, TypeOK
    <3>3. Result' = [Result EXCEPT ![q] = RowsOf(Active)]
      <4>1. \A p \in Query : snapshot'[p] = IF p = q THEN Active ELSE snapshot[p]
        BY <2>6, <3>2 DEF SelectSnapshot, Update
      <4>2. ASSUME NEW p \in Query
            PROVE  RowsOf(snapshot[p])' = IF p = q THEN RowsOf(Active) ELSE RowsOf(snapshot[p])
        BY <3>1, <4>1 DEF RowsOf
      <4>3. QED
        BY <4>2, Zenon DEF Result
    <3>4. Visible!Read(q)
      BY <2>1, <3>1, <3>3 DEF Visible!Read, Result
    <3>5. QED
      BY <3>4 DEF Visible!Next
  <2>7. ASSUME NEW q \in Query, FinishQuery(q)
        PROVE  Visible!Next
    <3>1. UNCHANGED <<segRows, published, expired>>
      BY <2>7 DEF FinishQuery, segVars, historyVars
    <3>2. snapshot \in [Query -> SUBSET Segment]
      BY DEF Inductive, TypeOK
    <3>3. Result' = [Result EXCEPT ![q] = {}]
      <4>1. \A p \in Query : snapshot'[p] = IF p = q THEN {} ELSE snapshot[p]
        BY <2>7, <3>2 DEF FinishQuery, Update
      <4>2. ASSUME NEW p \in Query
            PROVE  RowsOf(snapshot[p])' = IF p = q THEN {} ELSE RowsOf(snapshot[p])
        BY <3>1, <4>1 DEF RowsOf
      <4>3. QED
        BY <4>2, Zenon DEF Result
    <3>4. Visible!Finish(q)
      BY <2>1, <3>1, <3>3 DEF Visible!Finish, Result
    <3>5. QED
      BY <3>4 DEF Visible!Next
  <2>8. QED
    BY <2>3, <2>4, <2>5, <2>6, <2>7, VisibleStep
<1>3. QED
  BY <1>1, <1>2, InductiveInvariant, PTL DEF Spec, ImplementsVisibleRows, Visible!Spec

=============================================================================
