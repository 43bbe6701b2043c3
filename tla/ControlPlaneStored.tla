------------------------- MODULE ControlPlaneStored -------------------------
(***************************************************************************)
(* The first layers of ControlPlane's inductive invariant: the types, the  *)
(* pairing of segment and object rows with the bytes behind them, what the *)
(* compaction runs have claimed and produced, and that a run keeps the     *)
(* inputs it claimed and distributes their rows over its outputs.          *)
(***************************************************************************)
EXTENDS ControlPlane, TLAPS

\* Most leaves are first-order and set reasoning, which Zenon does at once; SMT
\* does the arithmetic.
USE ZenonT(3), SMTT(20)

\* Every transaction keeps the columns within their types.
LEMMA TypeStep == TypeOK /\ [Next]_vars => TypeOK'
<1> SUFFICES ASSUME TypeOK, [Next]_vars PROVE TypeOK'
  OBVIOUS
<1> USE DurationAssumption
        DEF TypeOK, Object, SegmentStates, ObjectStates, RunStates, Update,
            TransactionStart, ReclamationGrace, segVars, storeVars, queryVars, historyVars
<1>1. ASSUME NEW s \in Segment, NEW R \in SUBSET Row, RegisterIngestionSegment(s, R)
      PROVE  TypeOK'
  BY <1>1 DEF RegisterIngestionSegment, InsertPrepared, Unheld
<1>2. ASSUME NEW d \in DeadLetter, NEW b \in Batch, RegisterDeadLetter(d, b)
      PROVE  TypeOK'
  BY <1>2 DEF RegisterDeadLetter, InsertPlannedLetter
<1>3. ASSUME NEW o \in Object, Upload(o)
      PROVE  TypeOK'
  BY <1>3 DEF Upload, UploadVerified, UploadLeftInFlight
<1>4. ASSUME NEW o \in Object, LatePutLands(o)
      PROVE  TypeOK'
  BY <1>4 DEF LatePutLands
<1>5. ASSUME NEW o \in Object, RecordVerifiedUpload(o)
      PROVE  TypeOK'
  BY <1>5 DEF RecordVerifiedUpload
<1>6. ASSUME NEW s \in Segment, PublishIngestionSegment(s)
      PROVE  TypeOK'
  BY <1>6 DEF PublishIngestionSegment
<1>7. ASSUME NEW d \in DeadLetter, PublishDeadLetter(d)
      PROVE  TypeOK'
  BY <1>7 DEF PublishDeadLetter
<1>8. ASSUME NEW s \in Segment, AbandonIngestionOutput(s)
      PROVE  TypeOK'
  BY <1>8 DEF AbandonIngestionOutput
<1>9. ASSUME NEW S \in SUBSET Segment, NEW D \in SUBSET DeadLetter,
                ReconcileUnreferencedOutputs(S, D)
      PROVE  TypeOK'
  BY <1>9 DEF ReconcileUnreferencedOutputs
<1>10. ASSUME NEW r \in Run, NEW I \in SUBSET Segment, ClaimCompaction(r, I)
      PROVE  TypeOK'
  BY <1>10 DEF ClaimCompaction
<1>11. ASSUME NEW r \in Run, NEW O \in SUBSET Segment, NEW content \in [O -> SUBSET Row],
                NEW s \in Segment, RegisterOutputs(r, O, content, dataExpiresAt[s])
      PROVE  TypeOK'
  BY <1>11 DEF RegisterOutputs
<1>12. ASSUME NEW r \in Run, PublishReplacement(r)
      PROVE  TypeOK'
  BY <1>12 DEF PublishReplacement
<1>13. ASSUME NEW F \in SUBSET Run, FailRuns(F)
      PROVE  TypeOK'
  BY <1>13 DEF FailRuns
<1>14. ASSUME NEW S \in SUBSET Segment, ExpireSegments(S)
      PROVE  TypeOK'
  BY <1>14 DEF ExpireSegments, RowsOf
<1>15. ASSUME NEW S \in SUBSET Object, ClaimReclamation(S)
      PROVE  TypeOK'
  BY <1>15 DEF ClaimReclamation
<1>16. ASSUME NEW o \in Object, DeleteExact(o)
      PROVE  TypeOK'
  BY <1>16 DEF DeleteExact
<1>17. ASSUME NEW o \in Object, RecordDeleted(o)
      PROVE  TypeOK'
  BY <1>17 DEF RecordDeleted
<1>18. ASSUME NEW D \in SUBSET Object, NEW F \in SUBSET Run, CleanTerminalMetadata(D, F)
      PROVE  TypeOK'
  BY <1>18 DEF CleanTerminalMetadata
<1>19. ASSUME NEW q \in Query, SelectSnapshot(q)
      PROVE  TypeOK'
  BY <1>19 DEF SelectSnapshot, Active
<1>20. ASSUME NEW q \in Query, StartExecution(q)
      PROVE  TypeOK'
  BY <1>20 DEF StartExecution
<1>21. ASSUME NEW q \in Query, FinishQuery(q)
      PROVE  TypeOK'
  BY <1>21 DEF FinishQuery
<1>22. CASE Tick
  BY <1>22 DEF Tick
<1>23. CASE UNCHANGED vars
  BY <1>23 DEF vars
<1> HIDE DEF TypeOK, Object, SegmentStates, ObjectStates, RunStates, Update,
             TransactionStart, ReclamationGrace, segVars, storeVars, queryVars,
             historyVars
<1>24. QED
  BY <1>1, <1>2, <1>3, <1>4, <1>5, <1>6, <1>7, <1>8, <1>9, <1>10, <1>11,
     <1>12, <1>13, <1>14, <1>15, <1>16, <1>17, <1>18, <1>19, <1>20, <1>21, <1>22, <1>23
       DEF Next, Building

\* The tables start within their types.
LEMMA TypeInit == Init => TypeOK
BY DurationAssumption DEF Init, TypeOK, Object, SegmentStates, ObjectStates, RunStates

\* Every transaction of the stores keeps the columns of segments, objects, runs
\* and snapshots within their types.
THEOREM TypeCorrect == Spec => []TypeOK
BY TypeInit, TypeStep, PTL DEF Spec

-----------------------------------------------------------------------------
Stored == RowsPaired /\ BytesBacked

\* The empty control plane pairs its rows and refers to no bytes.
LEMMA StoredInit == Init => Stored
BY IdentityAssumption DEF Init, Stored, RowsPaired, BytesBacked, Object

\* Only a prepared segment is abandoned.
LEMMA AbandonPrepared ==
    ASSUME NEW s \in Segment, AbandonIngestionOutput(s)
    PROVE  segState[s] = "PREPARED" /\ objState[s] \in {"PLANNED", "UPLOADED"}
BY DEF AbandonIngestionOutput, IngestionOutputState

\* Failing runs abandons only prepared segments.
LEMMA FailedOutputsPrepared ==
    ASSUME TypeOK, NEW F \in SUBSET Run, FailRuns(F)
    PROVE  \A s \in OutputsOfAny(F) : s \in Segment /\ segState[s] = "PREPARED"
<1> SUFFICES ASSUME NEW s \in OutputsOfAny(F)
             PROVE  s \in Segment /\ segState[s] = "PREPARED"
  OBVIOUS
<1>1. producer[s] \in F /\ s \in Outputs(producer[s])
  BY DEF OutputsOfAny, Outputs
<1>2. runState[producer[s]] \in Unfinished /\ FailureSafe(producer[s])
  BY <1>1 DEF FailRuns
<1>3. QED
  BY <1>1, <1>2 DEF FailureSafe, Unfinished, OutputsOfAny

\* Every transaction and object-store call keeps the two rows of an output in
\* step with each other and with the bucket.
LEMMA StoredStep == TypeOK /\ Stored /\ [Next]_vars => Stored'
<1> SUFFICES ASSUME TypeOK, Stored, [Next]_vars PROVE Stored'
  OBVIOUS
<1> USE IdentityAssumption DEF Stored, RowsPaired, BytesBacked, TypeOK, Object,
        Update, segVars, storeVars, queryVars, historyVars
<1>1. ASSUME NEW s \in Segment, NEW R \in SUBSET Row, RegisterIngestionSegment(s, R)
      PROVE  Stored'
  BY <1>1 DEF RegisterIngestionSegment, InsertPrepared, Unheld
<1>2. ASSUME NEW d \in DeadLetter, NEW b \in Batch, RegisterDeadLetter(d, b)
      PROVE  Stored'
  BY <1>2 DEF RegisterDeadLetter, InsertPlannedLetter
<1>3. ASSUME NEW o \in Object, Upload(o)
      PROVE  Stored'
  BY <1>3 DEF Upload, UploadVerified, UploadLeftInFlight
<1>4. ASSUME NEW o \in Object, LatePutLands(o)
      PROVE  Stored'
  BY <1>4 DEF LatePutLands
<1>5. ASSUME NEW o \in Object, RecordVerifiedUpload(o)
      PROVE  Stored'
  BY <1>5 DEF RecordVerifiedUpload
<1>6. ASSUME NEW s \in Segment, PublishIngestionSegment(s)
      PROVE  Stored'
  BY <1>6 DEF PublishIngestionSegment
<1>7. ASSUME NEW d \in DeadLetter, PublishDeadLetter(d)
      PROVE  Stored'
  <2>1. \A o \in Object : objState'[o] = IF o = d THEN "PUBLISHED" ELSE objState[o]
    BY <1>7 DEF PublishDeadLetter
  <2>2. UNCHANGED <<segVars, storeVars>> /\ objState[d] = "UPLOADED"
    BY <1>7 DEF PublishDeadLetter
  <2>3. QED
    BY <2>1, <2>2
<1>8. ASSUME NEW s \in Segment, AbandonIngestionOutput(s)
      PROVE  Stored'
  BY <1>8, AbandonPrepared DEF AbandonIngestionOutput
<1>9. ASSUME NEW S \in SUBSET Segment, NEW D \in SUBSET DeadLetter,
                ReconcileUnreferencedOutputs(S, D)
      PROVE  Stored'
  BY <1>9 DEF ReconcileUnreferencedOutputs
<1>10. ASSUME NEW r \in Run, NEW I \in SUBSET Segment, ClaimCompaction(r, I)
      PROVE  Stored'
  BY <1>10 DEF ClaimCompaction, ClaimCompaction
<1>11. ASSUME NEW r \in Run, NEW O \in SUBSET Segment, NEW content \in [O -> SUBSET Row],
                NEW s \in Segment, RegisterOutputs(r, O, content, dataExpiresAt[s])
      PROVE  Stored'
  BY <1>11 DEF RegisterOutputs
<1>12. ASSUME NEW r \in Run, PublishReplacement(r)
      PROVE  Stored'
  BY <1>12 DEF PublishReplacement, Claims, Outputs, Registered, RunsConsistent
<1>13. ASSUME NEW F \in SUBSET Run, FailRuns(F)
      PROVE  Stored'
  <2>1. \A s \in OutputsOfAny(F) : segState[s] = "PREPARED"
    BY <1>13, FailedOutputsPrepared
  <2>2. QED
    BY <1>13, <2>1 DEF FailRuns, OutputsOfAny
<1>14. ASSUME NEW S \in SUBSET Segment, ExpireSegments(S)
      PROVE  Stored'
  BY <1>14 DEF ExpireSegments
<1>15. ASSUME NEW S \in SUBSET Object, ClaimReclamation(S)
      PROVE  Stored'
  BY <1>15 DEF ClaimReclamation, InitialCandidate
<1>16. ASSUME NEW o \in Object, DeleteExact(o)
      PROVE  Stored'
  BY <1>16 DEF DeleteExact
<1>17. ASSUME NEW o \in Object, RecordDeleted(o)
      PROVE  Stored'
  BY <1>17 DEF RecordDeleted
<1>18. ASSUME NEW D \in SUBSET Object, NEW F \in SUBSET Run, CleanTerminalMetadata(D, F)
      PROVE  Stored'
  BY <1>18 DEF CleanTerminalMetadata, Cleanable, Retired
<1>19. ASSUME NEW q \in Query, SelectSnapshot(q)
      PROVE  Stored'
  BY <1>19 DEF SelectSnapshot
<1>20. ASSUME NEW q \in Query, StartExecution(q)
      PROVE  Stored'
  BY <1>20 DEF StartExecution
<1>21. ASSUME NEW q \in Query, FinishQuery(q)
      PROVE  Stored'
  BY <1>21 DEF FinishQuery
<1>22. CASE Tick
  BY <1>22 DEF Tick
<1>23. CASE UNCHANGED vars
  BY <1>23 DEF vars
<1> HIDE DEF Stored, RowsPaired, BytesBacked, TypeOK, Object, Update, segVars,
             storeVars, queryVars, historyVars
<1>24. QED
  BY <1>1, <1>2, <1>3, <1>4, <1>5, <1>6, <1>7, <1>8, <1>9, <1>10, <1>11,
     <1>12, <1>13, <1>14, <1>15, <1>16, <1>17, <1>18, <1>19, <1>20, <1>21, <1>22, <1>23
       DEF Next, Building

-----------------------------------------------------------------------------
(* What the runs have claimed and produced.                                *)

\* The empty control plane has no run.
LEMMA RunsInit == Init => RunsConsistent
BY DEF Init, RunsConsistent, Claims, Outputs, Registered, Unfinished

\* A transaction that writes no segment state, producer, claim or run state
\* leaves the runs consistent.
LEMMA RunsUntouched ==
    ASSUME RunsConsistent, UNCHANGED <<segState, producer, claimedBy, runState>>
    PROVE  RunsConsistent'
BY DEF RunsConsistent, Claims, Outputs, Registered

\* Moving segments that no run claimed or is producing (register, publish and
\* abandon of ingestion outputs, and expiry) leaves the runs consistent.
LEMMA RunsUnclaimedMove ==
    ASSUME TypeOK, RunsConsistent, NEW S \in SUBSET Segment,
           NEW v \in {"PREPARED", "ACTIVE", "EXPIRED", "ABANDONED"},
           UNCHANGED <<producer, claimedBy, runState>>, segState' = Update(segState, S, v),
           \A s \in S : /\ claimedBy[s] = None
                        /\ producer[s] = None \/ (segState[s] = "ACTIVE" /\ v # "PREPARED")
    PROVE  RunsConsistent'
<1> USE IdentityAssumption
<1>1. \A s \in Segment : segState'[s] = IF s \in S THEN v ELSE segState[s]
  BY DEF TypeOK, Update
<1>2. ASSUME NEW r \in Run PROVE RunsConsistent!1!(r)'
  <2>1. Claims(r)' = Claims(r) /\ Claims(r) \cap S = {}
    BY <1>1 DEF Claims, Registered
  <2>2. Outputs(r)' = Outputs(r) /\ \A s \in Outputs(r) \cap S : segState[s] = "ACTIVE"
    BY <1>1 DEF Outputs, Registered
  <2>3. \A s \in Claims(r) \cup Outputs(r) : s \in Segment
    BY DEF Claims, Outputs
  <2> HIDE DEF Claims, Outputs
  <2>4. QED
    BY <1>1, <2>1, <2>2, <2>3 DEF RunsConsistent, Unfinished
<1>3. ASSUME NEW s \in Segment PROVE RunsConsistent!2!(s)'
  <2>1. RunsConsistent!2!(s)
    BY DEF RunsConsistent
  <2>2. QED
    BY <1>1, <2>1 DEF Unfinished
<1>4. QED
  BY <1>2, <1>3 DEF RunsConsistent

\* claim_compaction gives the new run the claims of active segments only.
LEMMA RunsClaim ==
    ASSUME TypeOK, RunsConsistent, NEW r \in Run, NEW I \in SUBSET Segment, ClaimCompaction(r, I)
    PROVE  RunsConsistent'
<1> USE IdentityAssumption
<1>0. \A s \in Segment : {claimedBy[s], producer[s]} \subseteq Run \cup {None}
  BY DEF TypeOK
<1>1. /\ \A s \in Segment : claimedBy'[s] = IF s \in I THEN r ELSE claimedBy[s]
      /\ \A q \in Run : runState'[q] = IF q = r THEN "BUILDING" ELSE runState[q]
  BY DEF ClaimCompaction, TypeOK, Update
<1>2. /\ segState' = segState /\ producer' = producer /\ runState[r] = "NONE"
      /\ \A s \in I : segState[s] = "ACTIVE" /\ claimedBy[s] = None
  BY DEF ClaimCompaction, TypeOK, Update
<1> USE DEF RunsConsistent, Claims, Outputs, Registered, Unfinished
<1>3. ASSUME NEW q \in Run PROVE RunsConsistent!1!(q)'
  <2>1. Outputs(q)' = Outputs(q)
    BY <1>2
  <2>2. CASE q = r
    <3>1. Claims(q)' = I /\ Outputs(q) = {}
      BY <1>1, <1>2, <2>2
    <3>2. QED
      BY <1>1, <1>2, <2>1, <2>2, <3>1
  <2>3. CASE q # r
    <3>1. Claims(q)' = Claims(q)
      BY <1>1, <1>2, <2>3
    <3>2. QED
      BY <1>1, <1>2, <2>1, <2>3, <3>1
  <2>4. QED
    BY <2>2, <2>3
<1>4. ASSUME NEW s \in Segment PROVE RunsConsistent!2!(s)'
  <2>1. RunsConsistent!2!(s)
    OBVIOUS
  <2> HIDE DEF RunsConsistent
  <2>2. QED
    BY <1>0, <1>1, <1>2, <2>1
<1>5. QED
  BY <1>3, <1>4

\* register_outputs gives a building run its first, prepared outputs.
LEMMA RunsRegister ==
    ASSUME TypeOK, RunsConsistent, NEW r \in Run, NEW O \in SUBSET Segment,
           NEW content \in [O -> SUBSET Row], NEW e, RegisterOutputs(r, O, content, e)
    PROVE  RunsConsistent'
<1> USE IdentityAssumption
<1>0. \A s \in Segment : {claimedBy[s], producer[s]} \subseteq Run \cup {None}
  BY DEF TypeOK
<1>1. /\ \A x \in Segment : segState'[x] = IF x \in O THEN "PREPARED" ELSE segState[x]
      /\ \A x \in Segment : producer'[x] = IF x \in O THEN r ELSE producer[x]
      /\ \A q \in Run : runState'[q] = IF q = r THEN "UPLOADING" ELSE runState[q]
  BY DEF RegisterOutputs, TypeOK, Update
<1>2. /\ claimedBy' = claimedBy /\ runState[r] = "BUILDING" /\ O # {}
      /\ \A x \in O : segState[x] = "NONE"
  BY DEF RegisterOutputs, TypeOK, Update
<1> USE DEF RunsConsistent, Claims, Outputs, Registered, Unfinished
<1>3. ASSUME NEW q \in Run PROVE RunsConsistent!1!(q)'
  <2>1. Claims(q)' = Claims(q) /\ \A x \in Claims(q) : segState'[x] = segState[x]
    BY <1>1, <1>2
  <2>2. CASE q = r
    <3>1. Outputs(q)' = O
      BY <1>1, <1>2, <2>2
    <3>2. QED
      BY <1>1, <1>2, <2>1, <2>2, <3>1
  <2>3. CASE q # r
    <3>1. Outputs(q)' = Outputs(q) /\ \A x \in Outputs(q) : segState'[x] = segState[x]
      BY <1>1, <1>2, <2>3
    <3>2. QED
      BY <1>1, <2>1, <2>3, <3>1
  <2>4. QED
    BY <2>2, <2>3
<1>4. ASSUME NEW x \in Segment PROVE RunsConsistent!2!(x)'
  <2>1. RunsConsistent!2!(x)
    OBVIOUS
  <2> HIDE DEF RunsConsistent
  <2>2. QED
    BY <1>0, <1>1, <1>2, <2>1
<1>5. QED
  BY <1>3, <1>4

\* publish_replacement takes claims and outputs along with the committed run.
LEMMA RunsPublish ==
    ASSUME TypeOK, RunsConsistent, NEW r \in Run, PublishReplacement(r)
    PROVE  RunsConsistent'
<1> USE IdentityAssumption
<1>0. \A s \in Segment : {claimedBy[s], producer[s]} \subseteq Run \cup {None}
  BY DEF TypeOK
<1>1. \A s \in Segment : segState'[s] = IF s \in Outputs(r) THEN "ACTIVE"
                                       ELSE IF s \in Claims(r) THEN "SUPERSEDED"
                                       ELSE segState[s]
  BY DEF PublishReplacement, TypeOK, Update
<1>2. \A q \in Run : runState'[q] = IF q = r THEN "COMMITTED" ELSE runState[q]
  BY DEF PublishReplacement, TypeOK, Update
<1>3. /\ producer' = producer /\ claimedBy' = claimedBy /\ runState[r] = "UPLOADING"
      /\ \A s \in Claims(r) : segState[s] = "ACTIVE"
      /\ \A s \in Outputs(r) : segState[s] = "PREPARED" /\ claimedBy[s] = None
  BY DEF PublishReplacement, Outputs, RunsConsistent
<1>4. ASSUME NEW q \in Run, q # r PROVE RunsConsistent!1!(q)'
  <2>1. /\ Claims(q)' = Claims(q)
        /\ \A s \in Claims(q) : segState'[s] = segState[s]
    BY <1>1, <1>3, <1>4 DEF Claims, Outputs, Registered
  <2>2. /\ Outputs(q)' = Outputs(q)
        /\ \A s \in Outputs(q) : segState'[s] = segState[s] \/ segState[s] = "ACTIVE"
    BY <1>1, <1>3, <1>4 DEF Claims, Outputs, Registered
  <2>3. QED
    BY <1>2, <1>4, <2>1, <2>2 DEF RunsConsistent
<1>5. RunsConsistent!1!(r)'
  BY <1>2 DEF Unfinished
<1>6. ASSUME NEW s \in Segment PROVE RunsConsistent!2!(s)'
  <2>1. RunsConsistent!2!(s)
    BY DEF RunsConsistent
  <2>2. CASE s \in Outputs(r)
    BY <1>1, <1>3, <2>2
  <2>3. CASE s \notin Outputs(r) /\ s \in Claims(r)
    BY <1>1, <2>3
  <2>4. CASE s \notin Outputs(r) /\ s \notin Claims(r)
    BY <1>0, <1>1, <1>2, <1>3, <2>1, <2>4 DEF Claims, Outputs, Registered
  <2>5. QED
    BY <2>2, <2>3, <2>4
<1>7. QED
  BY <1>4, <1>5, <1>6 DEF RunsConsistent

\* Failing runs releases their claims and abandons their outputs only.
LEMMA RunsFail ==
    ASSUME TypeOK, RunsConsistent, NEW F \in SUBSET Run, FailRuns(F)
    PROVE  RunsConsistent'
<1> USE IdentityAssumption
<1>0. \A s \in Segment : {claimedBy[s], producer[s]} \subseteq Run \cup {None}
  BY DEF TypeOK
<1>1. \A s \in Segment : segState'[s] = IF s \in OutputsOfAny(F) THEN "ABANDONED"
                                       ELSE segState[s]
  BY DEF FailRuns, TypeOK, Update
<1>2. \A s \in Segment : claimedBy'[s] = IF s \in ClaimsOfAny(F) THEN None
                                        ELSE claimedBy[s]
  BY DEF FailRuns, TypeOK, Update
<1>3. \A r \in Run : runState'[r] = IF r \in F THEN "FAILED" ELSE runState[r]
  BY DEF FailRuns, TypeOK, Update
<1>4. producer' = producer /\ \A r \in F : runState[r] \in Unfinished
  BY DEF FailRuns, TypeOK, Update
<1> USE DEF RunsConsistent, Claims, Outputs, Registered, Unfinished
<1>5. \A r \in Run : Claims(r)' \subseteq Claims(r) /\ Outputs(r)' \subseteq Outputs(r)
  <2>1. \A r \in Run : Claims(r)' \subseteq Claims(r)
    BY <1>1, <1>2 DEF ClaimsOfAny, OutputsOfAny
  <2>2. \A r \in Run : Outputs(r)' \subseteq Outputs(r)
    BY <1>1, <1>4 DEF OutputsOfAny
  <2>3. QED
    BY <2>1, <2>2
<1>6. \A r \in Run \ F : /\ Claims(r)' = Claims(r) /\ Outputs(r)' = Outputs(r)
                         /\ \A s \in Claims(r) \cup Outputs(r) : segState'[s] = segState[s]
  <2>1. \A r \in Run \ F : Outputs(r)' = Outputs(r)
    BY <1>1, <1>4 DEF OutputsOfAny
  <2>2. \A r \in Run \ F : Claims(r)' = Claims(r)
    BY <1>1, <1>2, <1>4 DEF ClaimsOfAny, OutputsOfAny
  <2>3. \A r \in Run \ F : \A s \in Claims(r) \cup Outputs(r) : segState'[s] = segState[s]
    BY <1>1, <1>4 DEF OutputsOfAny
  <2>4. QED
    BY <2>1, <2>2, <2>3
<1>7. ASSUME NEW r \in Run PROVE RunsConsistent!1!(r)'
  <2> HIDE DEF Claims, Outputs, Registered
  <2>1. CASE r \in F
    BY <1>3, <2>1
  <2>2. CASE r \notin F
    BY <1>3, <1>6, <2>2
  <2>3. QED
    BY <2>1, <2>2
<1>8. ASSUME NEW s \in Segment PROVE RunsConsistent!2!(s)'
  <2>1. RunsConsistent!2!(s)
    OBVIOUS
  <2> HIDE DEF RunsConsistent
  <2>2. CASE s \in OutputsOfAny(F)
    BY <1>1, <2>2
  <2>3. CASE s \notin OutputsOfAny(F)
    BY <1>0, <1>1, <1>2, <1>3, <1>4, <2>1, <2>3 DEF ClaimsOfAny, OutputsOfAny
  <2>4. QED
    BY <2>2, <2>3
<1>9. QED
  BY <1>7, <1>8

\* clean_terminal_metadata removes no segment of an unfinished run.
LEMMA RunsClean ==
    ASSUME TypeOK, RunsConsistent, NEW D \in SUBSET Object, NEW F \in SUBSET Run,
           CleanTerminalMetadata(D, F)
    PROVE  RunsConsistent'
<1> USE IdentityAssumption
<1>0. \A s \in Segment : {claimedBy[s], producer[s]} \subseteq Run \cup {None}
  BY DEF TypeOK
<1>1. \A s \in Segment : /\ segState'[s] = IF s \in D THEN "REMOVED" ELSE segState[s]
                         /\ claimedBy'[s] = IF s \in D THEN None ELSE claimedBy[s]
  BY DEF CleanTerminalMetadata, TypeOK, Update
<1>2. \A r \in Run : runState'[r] = IF r \in F THEN "REMOVED" ELSE runState[r]
  BY DEF CleanTerminalMetadata, TypeOK, Update
<1>3. /\ producer' = producer
      /\ \A s \in D \cap Segment : /\ segState[s] \in Retired
                                  /\ \A r \in Run : runState[r] \in Unfinished
                                                    => r \notin {producer[s], claimedBy[s]}
      /\ \A r \in F : runState[r] \in {"COMMITTED", "FAILED"}
  BY DEF CleanTerminalMetadata, Cleanable
<1>4. ASSUME NEW r \in Run PROVE RunsConsistent!1!(r)'
  <2>1. Claims(r)' \subseteq Claims(r) /\ Outputs(r)' \subseteq Outputs(r)
    BY <1>1, <1>3 DEF Claims, Outputs, Registered
  <2>2. ASSUME runState[r] \in Unfinished
        PROVE  Claims(r)' = Claims(r) /\ Outputs(r)' = Outputs(r)
    BY <1>1, <1>3, <2>2 DEF Claims, Outputs, Registered
  <2>3. \A s \in Claims(r)' \cup Outputs(r)' : s \in Segment /\ segState'[s] = segState[s]
    BY <1>1 DEF Claims, Outputs, Registered
  <2>4. QED
    BY <1>2, <2>1, <2>2, <2>3 DEF RunsConsistent, Unfinished
<1>5. ASSUME NEW s \in Segment PROVE RunsConsistent!2!(s)'
  <2>1. RunsConsistent!2!(s)
    BY DEF RunsConsistent
  <2>2. QED
    BY <1>0, <1>1, <1>2, <1>3, <2>1 DEF Unfinished
<1>6. QED
  BY <1>4, <1>5 DEF RunsConsistent

\* Every transaction keeps the state of a run and the states of the segments it
\* claimed and produced consistent (the checks of compaction_lifecycle.rs).
LEMMA RunsStep == TypeOK /\ Stored /\ RunsConsistent /\ [Next]_vars => RunsConsistent'
<1> SUFFICES ASSUME TypeOK, Stored, RunsConsistent, [Next]_vars PROVE RunsConsistent'
  OBVIOUS
<1>1. ASSUME NEW s \in Segment, NEW R \in SUBSET Row, RegisterIngestionSegment(s, R)
      PROVE  RunsConsistent'
  <2>1. /\ UNCHANGED <<producer, claimedBy, runState>> /\ segState[s] = "NONE"
        /\ segState' = Update(segState, {s}, "PREPARED")
    BY <1>1 DEF RegisterIngestionSegment, InsertPrepared
  <2>2. claimedBy[s] = None /\ producer[s] = None
    BY <2>1 DEF RunsConsistent
  <2>3. QED
    BY RunsUnclaimedMove, <2>1, <2>2
<1>2. ASSUME NEW d \in DeadLetter, NEW b \in Batch, RegisterDeadLetter(d, b)
      PROVE  RunsConsistent'
  BY RunsUntouched, <1>2 DEF RegisterDeadLetter, InsertPlannedLetter, segVars
<1>3. ASSUME NEW o \in Object, Upload(o)
      PROVE  RunsConsistent'
  BY RunsUntouched, <1>3 DEF Upload, UploadVerified, UploadLeftInFlight, segVars
<1>4. ASSUME NEW o \in Object, LatePutLands(o)
      PROVE  RunsConsistent'
  BY RunsUntouched, <1>4 DEF LatePutLands, segVars
<1>5. ASSUME NEW o \in Object, RecordVerifiedUpload(o)
      PROVE  RunsConsistent'
  BY RunsUntouched, <1>5 DEF RecordVerifiedUpload, segVars
<1>6. ASSUME NEW s \in Segment, PublishIngestionSegment(s)
      PROVE  RunsConsistent'
  <2>1. /\ UNCHANGED <<producer, claimedBy, runState>>
        /\ segState[s] = "PREPARED" /\ producer[s] = None
        /\ segState' = Update(segState, {s}, "ACTIVE")
    BY <1>6 DEF PublishIngestionSegment
  <2>2. claimedBy[s] = None
    BY <2>1 DEF RunsConsistent
  <2>3. QED
    BY RunsUnclaimedMove, <2>1, <2>2
<1>7. ASSUME NEW d \in DeadLetter, PublishDeadLetter(d)
      PROVE  RunsConsistent'
  BY RunsUntouched, <1>7 DEF PublishDeadLetter, segVars
<1>8. ASSUME NEW s \in Segment, AbandonIngestionOutput(s)
      PROVE  RunsConsistent'
  <2>1. /\ UNCHANGED <<producer, claimedBy, runState>> /\ producer[s] = None
        /\ segState' = Update(segState, {s}, "ABANDONED")
    BY <1>8 DEF AbandonIngestionOutput
  <2>2. claimedBy[s] = None
    BY <1>8, AbandonPrepared DEF RunsConsistent
  <2>3. QED
    BY RunsUnclaimedMove, <2>1, <2>2
<1>9. ASSUME NEW S \in SUBSET Segment, NEW D \in SUBSET DeadLetter,
                ReconcileUnreferencedOutputs(S, D)
      PROVE  RunsConsistent'
  <2>1. /\ UNCHANGED <<producer, claimedBy, runState>>
        /\ \A s \in S : segState[s] = "PREPARED" /\ producer[s] = None
        /\ segState' = Update(segState, S, "ABANDONED")
    BY <1>9 DEF ReconcileUnreferencedOutputs
  <2>2. \A s \in S : claimedBy[s] = None
    BY <2>1 DEF RunsConsistent
  <2>3. QED
    BY RunsUnclaimedMove, <2>1, <2>2
<1>10. ASSUME NEW r \in Run, NEW I \in SUBSET Segment, ClaimCompaction(r, I)
      PROVE  RunsConsistent'
  BY <1>10, RunsClaim
<1>11. ASSUME NEW r \in Run, NEW O \in SUBSET Segment, NEW content \in [O -> SUBSET Row],
                NEW s \in Segment, RegisterOutputs(r, O, content, dataExpiresAt[s])
      PROVE  RunsConsistent'
  BY <1>11, RunsRegister
<1>12. ASSUME NEW r \in Run, PublishReplacement(r)
      PROVE  RunsConsistent'
  BY <1>12, RunsPublish
<1>13. ASSUME NEW F \in SUBSET Run, FailRuns(F)
      PROVE  RunsConsistent'
  BY <1>13, RunsFail
<1>14. ASSUME NEW S \in SUBSET Segment, ExpireSegments(S)
      PROVE  RunsConsistent'
  <2>1. /\ UNCHANGED <<producer, claimedBy, runState>>
        /\ \A s \in S : segState[s] = "ACTIVE" /\ claimedBy[s] = None
        /\ segState' = Update(segState, S, "EXPIRED")
    BY <1>14 DEF ExpireSegments
  <2>2. QED
    BY RunsUnclaimedMove, <2>1
<1>15. ASSUME NEW S \in SUBSET Object, ClaimReclamation(S)
      PROVE  RunsConsistent'
  BY RunsUntouched, <1>15 DEF ClaimReclamation, segVars
<1>16. ASSUME NEW o \in Object, DeleteExact(o)
      PROVE  RunsConsistent'
  BY RunsUntouched, <1>16 DEF DeleteExact, segVars
<1>17. ASSUME NEW o \in Object, RecordDeleted(o)
      PROVE  RunsConsistent'
  BY RunsUntouched, <1>17 DEF RecordDeleted, segVars
<1>18. ASSUME NEW D \in SUBSET Object, NEW F \in SUBSET Run, CleanTerminalMetadata(D, F)
      PROVE  RunsConsistent'
  BY <1>18, RunsClean
<1>19. ASSUME NEW q \in Query, SelectSnapshot(q)
      PROVE  RunsConsistent'
  BY RunsUntouched, <1>19 DEF SelectSnapshot, segVars
<1>20. ASSUME NEW q \in Query, StartExecution(q)
      PROVE  RunsConsistent'
  BY RunsUntouched, <1>20 DEF StartExecution, segVars
<1>21. ASSUME NEW q \in Query, FinishQuery(q)
      PROVE  RunsConsistent'
  BY RunsUntouched, <1>21 DEF FinishQuery, segVars
<1>22. CASE Tick
  BY RunsUntouched, <1>22 DEF Tick, segVars
<1>23. CASE UNCHANGED vars
  BY RunsUntouched, <1>23 DEF vars, segVars
<1>24. QED
  BY <1>1, <1>2, <1>3, <1>4, <1>5, <1>6, <1>7, <1>8, <1>9, <1>10, <1>11,
     <1>12, <1>13, <1>14, <1>15, <1>16, <1>17, <1>18, <1>19, <1>20, <1>21, <1>22, <1>23
       DEF Next, Building

-----------------------------------------------------------------------------
(* The steps that write segment rows, runs or the history of rows.         *)

SegmentStep ==
    \/ \E s \in Segment, R \in SUBSET Row : RegisterIngestionSegment(s, R)
    \/ \E s \in Segment : PublishIngestionSegment(s)
    \/ \E s \in Segment : AbandonIngestionOutput(s)
    \/ \E S \in SUBSET Segment, D \in SUBSET DeadLetter :
          ReconcileUnreferencedOutputs(S, D)
    \/ \E r \in Run, I \in SUBSET Segment : ClaimCompaction(r, I)
    \/ \E r \in Run, O \in SUBSET Segment :
          \E content \in [O -> SUBSET Row], s \in Segment :
             RegisterOutputs(r, O, content, dataExpiresAt[s])
    \/ \E r \in Run : PublishReplacement(r)
    \/ \E F \in SUBSET Run : FailRuns(F)
    \/ \E S \in SUBSET Segment : ExpireSegments(S)
    \/ \E D \in SUBSET Object, F \in SUBSET Run : CleanTerminalMetadata(D, F)

RowsStep ==
    \/ UNCHANGED segRows
    \/ \E s \in Segment, R \in SUBSET Row : RegisterIngestionSegment(s, R)
    \/ \E r \in Run, O \in SUBSET Segment :
          \E content \in [O -> SUBSET Row], s \in Segment :
             RegisterOutputs(r, O, content, dataExpiresAt[s])

HistoryStep ==
    \/ UNCHANGED historyVars
    \/ \E s \in Segment : PublishIngestionSegment(s)
    \/ \E S \in SUBSET Segment : ExpireSegments(S)

SnapshotStep ==
    \/ UNCHANGED snapshot
    \/ \E q \in Query : SelectSnapshot(q)
    \/ \E q \in Query : FinishQuery(q)

StepKind ==
    /\ SegmentStep \/ UNCHANGED <<segVars, runState, historyVars>>
    /\ RowsStep /\ HistoryStep /\ SnapshotStep

\* What a step may write, without saying how.
LEMMA StepKinds == [Next]_vars => StepKind
<1> SUFFICES ASSUME [Next]_vars PROVE StepKind
  OBVIOUS
<1>1. ASSUME NEW s \in Segment, NEW R \in SUBSET Row, RegisterIngestionSegment(s, R)
      PROVE  StepKind
  <2>1. UNCHANGED <<historyVars, snapshot>>
    BY <1>1 DEF RegisterIngestionSegment, InsertPrepared, Unheld, queryVars
  <2>2. QED
    BY <1>1, <2>1 DEF StepKind, SegmentStep, RowsStep, HistoryStep, SnapshotStep
<1>2. ASSUME NEW d \in DeadLetter, NEW b \in Batch, RegisterDeadLetter(d, b)
      PROVE  StepKind
  <2>1. UNCHANGED <<segVars, segRows, runState, historyVars, snapshot>>
    BY <1>2 DEF RegisterDeadLetter, InsertPlannedLetter, segVars, queryVars
  <2>2. QED
    BY <1>2, <2>1 DEF StepKind, RowsStep, HistoryStep, SnapshotStep
<1>3. ASSUME NEW o \in Object, Upload(o)
      PROVE  StepKind
  <2>1. UNCHANGED <<segVars, segRows, runState, historyVars, snapshot>>
    BY <1>3 DEF Upload, UploadVerified, UploadLeftInFlight, segVars, queryVars
  <2>2. QED
    BY <1>3, <2>1 DEF StepKind, RowsStep, HistoryStep, SnapshotStep
<1>4. ASSUME NEW o \in Object, LatePutLands(o)
      PROVE  StepKind
  <2>1. UNCHANGED <<segVars, segRows, runState, historyVars, snapshot>>
    BY <1>4 DEF LatePutLands, segVars, queryVars
  <2>2. QED
    BY <1>4, <2>1 DEF StepKind, RowsStep, HistoryStep, SnapshotStep
<1>5. ASSUME NEW o \in Object, RecordVerifiedUpload(o)
      PROVE  StepKind
  <2>1. UNCHANGED <<segVars, segRows, runState, historyVars, snapshot>>
    BY <1>5 DEF RecordVerifiedUpload, segVars, queryVars
  <2>2. QED
    BY <1>5, <2>1 DEF StepKind, RowsStep, HistoryStep, SnapshotStep
<1>6. ASSUME NEW s \in Segment, PublishIngestionSegment(s)
      PROVE  StepKind
  <2>1. UNCHANGED <<segRows, snapshot>>
    BY <1>6 DEF PublishIngestionSegment, queryVars
  <2>2. QED
    BY <1>6, <2>1 DEF StepKind, SegmentStep, RowsStep, HistoryStep, SnapshotStep
<1>7. ASSUME NEW d \in DeadLetter, PublishDeadLetter(d)
      PROVE  StepKind
  <2>1. UNCHANGED <<segVars, segRows, runState, historyVars, snapshot>>
    BY <1>7 DEF PublishDeadLetter, segVars, queryVars
  <2>2. QED
    BY <1>7, <2>1 DEF StepKind, RowsStep, HistoryStep, SnapshotStep
<1>8. ASSUME NEW s \in Segment, AbandonIngestionOutput(s)
      PROVE  StepKind
  <2>1. UNCHANGED <<segRows, historyVars, snapshot>>
    BY <1>8 DEF AbandonIngestionOutput, queryVars
  <2>2. QED
    BY <1>8, <2>1 DEF StepKind, SegmentStep, RowsStep, HistoryStep, SnapshotStep
<1>9. ASSUME NEW S \in SUBSET Segment, NEW D \in SUBSET DeadLetter,
             ReconcileUnreferencedOutputs(S, D)
      PROVE  StepKind
  <2>1. UNCHANGED <<segRows, historyVars, snapshot>>
    BY <1>9 DEF ReconcileUnreferencedOutputs, queryVars
  <2>2. QED
    BY <1>9, <2>1 DEF StepKind, SegmentStep, RowsStep, HistoryStep, SnapshotStep
<1>10. ASSUME NEW r \in Run, NEW I \in SUBSET Segment, ClaimCompaction(r, I)
      PROVE  StepKind
  <2>1. UNCHANGED <<segRows, historyVars, snapshot>>
    BY <1>10 DEF ClaimCompaction, queryVars
  <2>2. QED
    BY <1>10, <2>1 DEF StepKind, SegmentStep, RowsStep, HistoryStep, SnapshotStep
<1>11. ASSUME NEW r \in Run, NEW O \in SUBSET Segment, NEW content \in [O -> SUBSET Row],
              NEW s \in Segment, RegisterOutputs(r, O, content, dataExpiresAt[s])
      PROVE  StepKind
  <2>1. UNCHANGED <<historyVars, snapshot>>
    BY <1>11 DEF RegisterOutputs, queryVars
  <2>2. QED
    BY <1>11, <2>1 DEF StepKind, SegmentStep, RowsStep, HistoryStep, SnapshotStep
<1>12. ASSUME NEW r \in Run, PublishReplacement(r)
      PROVE  StepKind
  <2>1. UNCHANGED <<segRows, historyVars, snapshot>>
    BY <1>12 DEF PublishReplacement, queryVars
  <2>2. QED
    BY <1>12, <2>1 DEF StepKind, SegmentStep, RowsStep, HistoryStep, SnapshotStep
<1>13. ASSUME NEW F \in SUBSET Run, FailRuns(F)
      PROVE  StepKind
  <2>1. UNCHANGED <<segRows, historyVars, snapshot>>
    BY <1>13 DEF FailRuns, queryVars
  <2>2. QED
    BY <1>13, <2>1 DEF StepKind, SegmentStep, RowsStep, HistoryStep, SnapshotStep
<1>14. ASSUME NEW S \in SUBSET Segment, ExpireSegments(S)
      PROVE  StepKind
  <2>1. UNCHANGED <<segRows, snapshot>>
    BY <1>14 DEF ExpireSegments, queryVars
  <2>2. QED
    BY <1>14, <2>1 DEF StepKind, SegmentStep, RowsStep, HistoryStep, SnapshotStep
<1>15. ASSUME NEW S \in SUBSET Object, ClaimReclamation(S)
      PROVE  StepKind
  <2>1. UNCHANGED <<segVars, segRows, runState, historyVars, snapshot>>
    BY <1>15 DEF ClaimReclamation, segVars, queryVars
  <2>2. QED
    BY <1>15, <2>1 DEF StepKind, RowsStep, HistoryStep, SnapshotStep
<1>16. ASSUME NEW o \in Object, DeleteExact(o)
      PROVE  StepKind
  <2>1. UNCHANGED <<segVars, segRows, runState, historyVars, snapshot>>
    BY <1>16 DEF DeleteExact, segVars, queryVars
  <2>2. QED
    BY <1>16, <2>1 DEF StepKind, RowsStep, HistoryStep, SnapshotStep
<1>17. ASSUME NEW o \in Object, RecordDeleted(o)
      PROVE  StepKind
  <2>1. UNCHANGED <<segVars, segRows, runState, historyVars, snapshot>>
    BY <1>17 DEF RecordDeleted, segVars, queryVars
  <2>2. QED
    BY <1>17, <2>1 DEF StepKind, RowsStep, HistoryStep, SnapshotStep
<1>18. ASSUME NEW D \in SUBSET Object, NEW F \in SUBSET Run, CleanTerminalMetadata(D, F)
      PROVE  StepKind
  <2>1. UNCHANGED <<segRows, historyVars, snapshot>>
    BY <1>18 DEF CleanTerminalMetadata, queryVars
  <2>2. QED
    BY <1>18, <2>1 DEF StepKind, SegmentStep, RowsStep, HistoryStep, SnapshotStep
<1>19. ASSUME NEW q \in Query, SelectSnapshot(q)
      PROVE  StepKind
  <2>1. UNCHANGED <<segVars, segRows, runState, historyVars>>
    BY <1>19 DEF SelectSnapshot, segVars
  <2>2. QED
    BY <1>19, <2>1 DEF StepKind, RowsStep, HistoryStep, SnapshotStep
<1>20. ASSUME NEW q \in Query, StartExecution(q)
      PROVE  StepKind
  <2>1. UNCHANGED <<segVars, segRows, runState, historyVars, snapshot>>
    BY <1>20 DEF StartExecution, segVars, queryVars
  <2>2. QED
    BY <1>20, <2>1 DEF StepKind, RowsStep, HistoryStep, SnapshotStep
<1>21. ASSUME NEW q \in Query, FinishQuery(q)
      PROVE  StepKind
  <2>1. UNCHANGED <<segVars, segRows, runState, historyVars>>
    BY <1>21 DEF FinishQuery, segVars
  <2>2. QED
    BY <1>21, <2>1 DEF StepKind, RowsStep, HistoryStep, SnapshotStep
<1>22. CASE Tick \/ UNCHANGED vars
  <2>1. UNCHANGED <<segVars, segRows, runState, historyVars, snapshot>>
    BY <1>22 DEF Tick, vars, segVars, queryVars
  <2>2. QED
    BY <2>1 DEF StepKind, RowsStep, HistoryStep, SnapshotStep
<1>23. QED
  BY <1>1, <1>2, <1>3, <1>4, <1>5, <1>6, <1>7, <1>8, <1>9, <1>10, <1>11,
     <1>12, <1>13, <1>14, <1>15, <1>16, <1>17, <1>18, <1>19, <1>20, <1>21, <1>22
       DEF Next, Building

\* A step that is not one of the eleven that write segments leaves segments,
\* runs and history alone.
LEMMA OtherSteps ==
    [Next]_vars => SegmentStep \/ UNCHANGED <<segVars, runState, historyVars>>
BY StepKinds DEF StepKind

\* Only a claim starts a run, only the registration of its outputs moves it
\* on to uploading, and every other change ends it.
RunMoves(r) ==
    \/ runState'[r] = runState[r]
    \/ \E I \in SUBSET Segment : ClaimCompaction(r, I)
    \/ \E O \in SUBSET Segment : \E content \in [O -> SUBSET Row], s \in Segment :
          RegisterOutputs(r, O, content, dataExpiresAt[s])
    \/ runState'[r] \in {"COMMITTED", "FAILED", "REMOVED"}

\* A run moves as claim_compaction, register_outputs and the transactions that
\* end it say, and in no other way.
LEMMA RunStateStep ==
    ASSUME TypeOK, [Next]_vars, NEW r \in Run
    PROVE  RunMoves(r)
<1>0. runState \in [Run -> RunStates]
  BY DEF TypeOK
<1>1. ASSUME NEW s \in Segment, NEW R \in SUBSET Row, RegisterIngestionSegment(s, R)
      PROVE  RunMoves(r)
  BY <1>1 DEF RegisterIngestionSegment, InsertPrepared, Unheld, RunMoves
<1>2. ASSUME NEW s \in Segment, PublishIngestionSegment(s)
      PROVE  RunMoves(r)
  BY <1>2 DEF PublishIngestionSegment, RunMoves
<1>3. ASSUME NEW s \in Segment, AbandonIngestionOutput(s)
      PROVE  RunMoves(r)
  BY <1>3 DEF AbandonIngestionOutput, RunMoves
<1>4. ASSUME NEW S \in SUBSET Segment, NEW D \in SUBSET DeadLetter,
             ReconcileUnreferencedOutputs(S, D)
      PROVE  RunMoves(r)
  BY <1>4 DEF ReconcileUnreferencedOutputs, RunMoves
<1>5. ASSUME NEW q \in Run, NEW I \in SUBSET Segment, ClaimCompaction(q, I)
      PROVE  RunMoves(r)
  <2>1. r # q => runState'[r] = runState[r]
    BY <1>0, <1>5 DEF ClaimCompaction, Update
  <2>2. QED
    BY <1>5, <2>1 DEF RunMoves
<1>6. ASSUME NEW q \in Run, NEW O \in SUBSET Segment, NEW content \in [O -> SUBSET Row],
             NEW s \in Segment, RegisterOutputs(q, O, content, dataExpiresAt[s])
      PROVE  RunMoves(r)
  <2>1. r # q => runState'[r] = runState[r]
    BY <1>0, <1>6 DEF RegisterOutputs, Update
  <2>2. QED
    BY <1>6, <2>1 DEF RunMoves
<1>7. ASSUME NEW q \in Run, PublishReplacement(q)
      PROVE  RunMoves(r)
  BY <1>0, <1>7 DEF PublishReplacement, Update, RunMoves
<1>8. ASSUME NEW F \in SUBSET Run, FailRuns(F)
      PROVE  RunMoves(r)
  BY <1>0, <1>8 DEF FailRuns, Update, RunMoves
<1>9. ASSUME NEW S \in SUBSET Segment, ExpireSegments(S)
      PROVE  RunMoves(r)
  BY <1>9 DEF ExpireSegments, RunMoves
<1>10. ASSUME NEW D \in SUBSET Object, NEW F \in SUBSET Run, CleanTerminalMetadata(D, F)
       PROVE  RunMoves(r)
  BY <1>0, <1>10 DEF CleanTerminalMetadata, Update, RunMoves
<1>11. CASE UNCHANGED <<segVars, runState, historyVars>>
  BY <1>11 DEF RunMoves
<1>12. QED
  BY <1>1, <1>2, <1>3, <1>4, <1>5, <1>6, <1>7, <1>8, <1>9, <1>10, <1>11, OtherSteps
     DEF SegmentStep

\* The file behind a registered segment is never rewritten.
LEMMA RowsKept ==
    ASSUME TypeOK, [Next]_vars, NEW x \in Segment, segState[x] # "NONE"
    PROVE  segRows'[x] = segRows[x]
<1>0. segRows \in [Segment -> SUBSET Row]
  BY DEF TypeOK
<1>1. ASSUME NEW s \in Segment, NEW R \in SUBSET Row, RegisterIngestionSegment(s, R)
      PROVE  segRows'[x] = segRows[x]
  BY <1>0, <1>1 DEF RegisterIngestionSegment, InsertPrepared, Unheld, Update
<1>2. ASSUME NEW q \in Run, NEW O \in SUBSET Segment, NEW content \in [O -> SUBSET Row],
             NEW s \in Segment, RegisterOutputs(q, O, content, dataExpiresAt[s])
      PROVE  segRows'[x] = segRows[x]
  BY <1>2 DEF RegisterOutputs
<1>3. CASE UNCHANGED segRows
  BY <1>3
<1>4. QED
  BY <1>1, <1>2, <1>3, StepKinds DEF StepKind, RowsStep

\* While a run stays unfinished no step takes one of its inputs from it or
\* adds another.
LEMMA ClaimsKept ==
    ASSUME TypeOK, Stored, RunsConsistent, [Next]_vars,
           NEW r \in Run, runState[r] \in Unfinished, runState'[r] \in Unfinished
    PROVE  Claims(r)' = Claims(r)
<1> USE IdentityAssumption DEF TypeOK, RunsConsistent, Claims, Outputs, Registered,
        Unfinished, Object, Update, segVars
<1>1. ASSUME NEW s \in Segment, NEW R \in SUBSET Row, RegisterIngestionSegment(s, R)
      PROVE  Claims(r)' = Claims(r)
  BY <1>1 DEF RegisterIngestionSegment, InsertPrepared, Unheld
<1>2. ASSUME NEW s \in Segment, PublishIngestionSegment(s)
      PROVE  Claims(r)' = Claims(r)
  BY <1>2 DEF PublishIngestionSegment
<1>3. ASSUME NEW s \in Segment, AbandonIngestionOutput(s)
      PROVE  Claims(r)' = Claims(r)
  BY <1>3, AbandonPrepared DEF AbandonIngestionOutput
<1>4. ASSUME NEW S \in SUBSET Segment, NEW D \in SUBSET DeadLetter,
             ReconcileUnreferencedOutputs(S, D)
      PROVE  Claims(r)' = Claims(r)
  BY <1>4 DEF ReconcileUnreferencedOutputs
<1>5. ASSUME NEW q \in Run, NEW I \in SUBSET Segment, ClaimCompaction(q, I)
      PROVE  Claims(r)' = Claims(r)
  BY <1>5 DEF ClaimCompaction
<1>6. ASSUME NEW q \in Run, NEW O \in SUBSET Segment, NEW content \in [O -> SUBSET Row],
             NEW s \in Segment, RegisterOutputs(q, O, content, dataExpiresAt[s])
      PROVE  Claims(r)' = Claims(r)
  BY <1>6 DEF RegisterOutputs
<1>7. ASSUME NEW q \in Run, PublishReplacement(q)
      PROVE  Claims(r)' = Claims(r)
  BY <1>7 DEF PublishReplacement
<1>8. ASSUME NEW F \in SUBSET Run, FailRuns(F)
      PROVE  Claims(r)' = Claims(r)
  BY <1>8 DEF FailRuns, ClaimsOfAny, OutputsOfAny
<1>9. ASSUME NEW S \in SUBSET Segment, ExpireSegments(S)
      PROVE  Claims(r)' = Claims(r)
  BY <1>9 DEF ExpireSegments
<1>10. ASSUME NEW D \in SUBSET Object, NEW F \in SUBSET Run, CleanTerminalMetadata(D, F)
       PROVE  Claims(r)' = Claims(r)
  BY <1>10 DEF CleanTerminalMetadata, Cleanable, Retired, Stored, RowsPaired
<1>11. CASE UNCHANGED <<segVars, runState, historyVars>>
  BY <1>11
<1> HIDE DEF TypeOK, RunsConsistent, Claims, Outputs, Registered, Unfinished,
             Object, Update, segVars
<1>12. QED
  BY <1>1, <1>2, <1>3, <1>4, <1>5, <1>6, <1>7, <1>8, <1>9, <1>10, <1>11, OtherSteps
     DEF SegmentStep

\* An unfinished run keeps at least the two inputs that claim_compaction gave it.
LEMMA InputsHeldStep ==
    TypeOK /\ Stored /\ RunsConsistent /\ InputsHeld /\ [Next]_vars => InputsHeld'
<1> SUFFICES ASSUME TypeOK, Stored, RunsConsistent, InputsHeld, [Next]_vars,
                    NEW r \in Run, runState'[r] \in Unfinished
             PROVE  Cardinality(Claims(r)') >= 2
  BY DEF InputsHeld, Claims, Registered
<1>1. CASE runState[r] \in Unfinished
  BY <1>1, ClaimsKept DEF InputsHeld
<1>2. CASE runState[r] \notin Unfinished
  <2>1. PICK I \in SUBSET Segment : ClaimCompaction(r, I)
    <3>1. ASSUME NEW O \in SUBSET Segment, NEW content \in [O -> SUBSET Row],
                 NEW s \in Segment, RegisterOutputs(r, O, content, dataExpiresAt[s])
          PROVE  FALSE
      BY <1>2, <3>1 DEF RegisterOutputs, Unfinished
    <3>2. QED
      BY <1>2, <3>1, RunStateStep DEF RunMoves, Unfinished
  <2>2. Claims(r)' = I
    BY <2>1 DEF ClaimCompaction, RunsConsistent, Claims, Registered, Update, TypeOK
  <2>3. QED
    BY <2>1, <2>2 DEF ClaimCompaction
<1>3. QED
  BY <1>1, <1>2

\* clean_terminal_metadata removes no input or output of a run that is uploading.
LEMMA UploadingNotCleaned ==
    ASSUME TypeOK, NEW D \in SUBSET Object, NEW F \in SUBSET Run,
           CleanTerminalMetadata(D, F), NEW r \in Run, runState[r] = "UPLOADING"
    PROVE  /\ Outputs(r)' = Outputs(r)
           /\ \A s \in Claims(r) \cup Outputs(r) :
                 segRows'[s] = segRows[s] /\ dataExpiresAt'[s] = dataExpiresAt[s]
<1>1. \A s \in D \cap Segment : r \notin {producer[s], claimedBy[s]}
  BY DEF CleanTerminalMetadata, Cleanable, Unfinished
<1>2. /\ \A s \in Segment : segState'[s] = IF s \in D THEN "REMOVED" ELSE segState[s]
      /\ \A s \in Segment : s \notin D => dataExpiresAt'[s] = dataExpiresAt[s]
  BY DEF CleanTerminalMetadata, TypeOK, Update
<1>3. segRows' = segRows /\ producer' = producer
  BY DEF CleanTerminalMetadata
<1>4. Outputs(r)' = Outputs(r)
  BY <1>1, <1>2, <1>3 DEF Outputs, Registered
<1>5. \A s \in Claims(r) \cup Outputs(r) : s \in Segment /\ s \notin D
  BY <1>1 DEF Claims, Outputs
<1>6. QED
  BY <1>2, <1>3, <1>4, <1>5

\* Writing segments that are neither inputs nor outputs of a run, before or after,
\* leaves its outputs, and the rows and expiry of its inputs and outputs, as they are.
LEMMA OutputsFrame ==
    ASSUME NEW r \in Run, NEW S \in SUBSET Segment,
           \A s \in Segment \ S : /\ segState'[s] = segState[s] /\ producer'[s] = producer[s]
                                  /\ segRows'[s] = segRows[s]
                                  /\ dataExpiresAt'[s] = dataExpiresAt[s],
           \A s \in S : s \notin Claims(r) \cup Outputs(r) /\ producer'[s] # r
    PROVE  /\ Outputs(r)' = Outputs(r)
           /\ \A s \in Claims(r) \cup Outputs(r) :
                 segRows'[s] = segRows[s] /\ dataExpiresAt'[s] = dataExpiresAt[s]
<1>1. Outputs(r)' = Outputs(r)
  BY DEF Outputs, Registered
<1>2. \A s \in Claims(r) \cup Outputs(r) : s \in Segment \ S
  BY DEF Claims, Outputs
<1>3. QED
  BY <1>1, <1>2

\* The inputs and outputs of a run that is uploading stay as they are.
LEMMA OutputsKept ==
    ASSUME TypeOK, Stored, RunsConsistent, [Next]_vars,
           NEW r \in Run, runState[r] = "UPLOADING", runState'[r] = "UPLOADING"
    PROVE  /\ Outputs(r)' = Outputs(r)
           /\ \A s \in Claims(r) \cup Outputs(r) :
                 segRows'[s] = segRows[s] /\ dataExpiresAt'[s] = dataExpiresAt[s]
<1> DEFINE Kept == /\ Outputs(r)' = Outputs(r)
                   /\ \A s \in Claims(r) \cup Outputs(r) :
                         segRows'[s] = segRows[s] /\ dataExpiresAt'[s] = dataExpiresAt[s]
           Apart(S) == \A s \in Segment \ S :
                          /\ segState'[s] = segState[s] /\ producer'[s] = producer[s]
                          /\ segRows'[s] = segRows[s]
                          /\ dataExpiresAt'[s] = dataExpiresAt[s]
           Foreign(S) == \A s \in S : s \notin Claims(r) \cup Outputs(r) /\ producer'[s] # r
<1> SUFFICES Kept
  OBVIOUS
<1>claims. \A s \in Claims(r) : s \in Segment /\ claimedBy[s] = r /\ segState[s] = "ACTIVE"
  BY DEF RunsConsistent, Claims, Unfinished
<1>outputs. \A s \in Segment : producer[s] = r /\ segState[s] \notin {"NONE", "REMOVED"}
                              => segState[s] = "PREPARED"
  BY DEF RunsConsistent, Outputs, Registered
<1>own. \A s \in Outputs(r) : s \in Segment /\ producer[s] = r /\ segState[s] = "PREPARED"
  BY DEF RunsConsistent, Outputs
<1>none. r # None /\ \A s \in Segment : segState[s] = "NONE" => producer[s] = None
  BY IdentityAssumption DEF RunsConsistent
<1>frame. ASSUME NEW S \in SUBSET Segment, Apart(S), Foreign(S) PROVE Kept
  BY <1>frame, OutputsFrame
<1> HIDE DEF Kept, Apart, Foreign
<1>1. ASSUME NEW s \in Segment, NEW R \in SUBSET Row, RegisterIngestionSegment(s, R)
      PROVE  Kept
  <2>1. Apart({s})
    BY <1>1 DEF Apart, RegisterIngestionSegment, InsertPrepared, TypeOK, Update
  <2>2. segState[s] = "NONE" /\ producer' = producer
    BY <1>1 DEF RegisterIngestionSegment, InsertPrepared
  <2>3. Foreign({s})
    BY <2>2, <1>claims, <1>own, <1>none DEF Foreign
  <2>4. QED
    BY <1>frame, <2>1, <2>3
<1>2. ASSUME NEW s \in Segment, PublishIngestionSegment(s)
      PROVE  Kept
  <2>1. Apart({s})
    BY <1>2 DEF Apart, PublishIngestionSegment, TypeOK, Update
  <2>2. segState[s] = "PREPARED" /\ producer[s] = None /\ producer' = producer
    BY <1>2 DEF PublishIngestionSegment
  <2>3. Foreign({s})
    BY <2>2, <1>claims, <1>own, <1>none DEF Foreign
  <2>4. QED
    BY <1>frame, <2>1, <2>3
<1>3. ASSUME NEW s \in Segment, AbandonIngestionOutput(s)
      PROVE  Kept
  <2>1. Apart({s})
    BY <1>3 DEF Apart, AbandonIngestionOutput, TypeOK, Update
  <2>2. segState[s] = "PREPARED" /\ producer[s] = None /\ producer' = producer
    BY <1>3, AbandonPrepared DEF AbandonIngestionOutput
  <2>3. Foreign({s})
    BY <2>2, <1>claims, <1>own, <1>none DEF Foreign
  <2>4. QED
    BY <1>frame, <2>1, <2>3
<1>4. ASSUME NEW S \in SUBSET Segment, NEW D \in SUBSET DeadLetter,
             ReconcileUnreferencedOutputs(S, D)
      PROVE  Kept
  <2>1. Apart(S)
    BY <1>4 DEF Apart, ReconcileUnreferencedOutputs, TypeOK, Update
  <2>2. /\ \A s \in S : segState[s] = "PREPARED" /\ producer[s] = None
        /\ producer' = producer
    BY <1>4 DEF ReconcileUnreferencedOutputs
  <2>3. Foreign(S)
    BY <2>2, <1>claims, <1>own, <1>none DEF Foreign
  <2>4. QED
    BY <1>frame, <2>1, <2>3
<1>5. ASSUME NEW q \in Run, NEW I \in SUBSET Segment, ClaimCompaction(q, I)
      PROVE  Kept
  <2>1. Apart({})
    BY <1>5 DEF Apart, ClaimCompaction
  <2>2. QED
    BY <1>frame, <2>1 DEF Foreign
<1>6. ASSUME NEW q \in Run, NEW O \in SUBSET Segment, NEW content \in [O -> SUBSET Row],
             NEW s \in Segment, RegisterOutputs(q, O, content, dataExpiresAt[s])
      PROVE  Kept
  <2>1. Apart(O)
    BY <1>6 DEF Apart, RegisterOutputs, TypeOK, Update
  <2>2. q # r /\ \A x \in O : segState[x] = "NONE" /\ producer'[x] = q
    BY <1>6 DEF RegisterOutputs, TypeOK, Update
  <2>3. Foreign(O)
    BY <2>2, <1>claims, <1>own DEF Foreign
  <2>4. QED
    BY <1>frame, <2>1, <2>3
<1>7. ASSUME NEW q \in Run, PublishReplacement(q)
      PROVE  Kept
  <2>1. Apart(Claims(q) \cup Outputs(q))
    BY <1>7 DEF Apart, PublishReplacement, TypeOK, Update
  <2>2. /\ q # r /\ producer' = producer
        /\ \A s \in Claims(q) : s \in Segment /\ claimedBy[s] = q /\ segState[s] = "ACTIVE"
        /\ \A s \in Outputs(q) : producer[s] = q /\ segState[s] = "PREPARED"
    BY <1>7 DEF PublishReplacement, TypeOK, Update, Claims, Outputs
  <2>3. Foreign(Claims(q) \cup Outputs(q))
    BY <2>2, <1>claims, <1>own, <1>outputs DEF Foreign
  <2>4. QED
    <3>1. Claims(q) \cup Outputs(q) \in SUBSET Segment
      BY DEF Claims, Outputs
    <3>2. QED
      BY <1>frame, <2>1, <2>3, <3>1
<1>8. ASSUME NEW F \in SUBSET Run, FailRuns(F)
      PROVE  Kept
  <2>1. Apart(OutputsOfAny(F))
    BY <1>8 DEF Apart, FailRuns, TypeOK, Update
  <2>2. /\ r \notin F /\ producer' = producer
        /\ \A s \in OutputsOfAny(F) : producer[s] \in F /\ segState[s] = "PREPARED"
    BY <1>8, FailedOutputsPrepared DEF FailRuns, TypeOK, Update, OutputsOfAny
  <2>3. Foreign(OutputsOfAny(F))
    BY <2>2, <1>claims, <1>own DEF Foreign
  <2>4. QED
    <3>1. OutputsOfAny(F) \in SUBSET Segment
      BY DEF OutputsOfAny
    <3>2. QED
      BY <1>frame, <2>1, <2>3, <3>1
<1>9. ASSUME NEW S \in SUBSET Segment, ExpireSegments(S)
      PROVE  Kept
  <2>1. Apart(S)
    BY <1>9 DEF Apart, ExpireSegments, TypeOK, Update
  <2>2. /\ \A s \in S : segState[s] = "ACTIVE" /\ claimedBy[s] = None
        /\ producer' = producer
    BY <1>9 DEF ExpireSegments
  <2>3. Foreign(S)
    BY <2>2, <1>claims, <1>own, <1>none, <1>outputs DEF Foreign
  <2>4. QED
    BY <1>frame, <2>1, <2>3
<1>10. ASSUME NEW D \in SUBSET Object, NEW F \in SUBSET Run, CleanTerminalMetadata(D, F)
      PROVE  Kept
  BY <1>10, UploadingNotCleaned DEF Kept
<1>11. CASE UNCHANGED <<segVars, runState, historyVars>>
  <2>1. Apart({})
    BY <1>11 DEF Apart, segVars
  <2>2. QED
    BY <1>frame, <2>1 DEF Foreign
<1>12. QED
  BY <1>1, <1>2, <1>3, <1>4, <1>5, <1>6, <1>7, <1>8, <1>9, <1>10, <1>11, OtherSteps
     DEF SegmentStep

\* The rows a set of segments holds depend on those segments' rows alone.
LEMMA RowsOfKept ==
    ASSUME NEW S, \A s \in S : segRows'[s] = segRows[s]
    PROVE  UNION {segRows'[s] : s \in S} = UNION {segRows[s] : s \in S}
  OBVIOUS

\* Any step keeps every uploading run's outputs a distribution of exactly the rows of its
\* inputs, none of which expires after an output: register_outputs establishes it.
LEMMA DistributeStep ==
    TypeOK /\ Stored /\ RunsConsistent /\ RunsDistribute /\ [Next]_vars => RunsDistribute'
<1> SUFFICES ASSUME TypeOK, Stored, RunsConsistent, RunsDistribute, [Next]_vars,
                    NEW r \in Run, runState'[r] = "UPLOADING"
             PROVE  /\ Distributes(segRows', Outputs(r)', RowsOf(Claims(r))')
                    /\ \A s \in Claims(r)', t \in Outputs(r)' :
                          dataExpiresAt'[s] <= dataExpiresAt'[t]
  BY DEF RunsDistribute, Distributes
<1>1. CASE runState[r] = "UPLOADING"
  <2>1. Claims(r)' = Claims(r) /\ Outputs(r)' = Outputs(r)
    BY <1>1, ClaimsKept, OutputsKept DEF Unfinished
  <2>2. \A s \in Claims(r) \cup Outputs(r) :
           segRows'[s] = segRows[s] /\ dataExpiresAt'[s] = dataExpiresAt[s]
    BY <1>1, OutputsKept
  <2>3. RowsOf(Claims(r))' = RowsOf(Claims(r))
    <3>1. \A s \in Claims(r) : segRows'[s] = segRows[s]
      BY <2>2
    <3>2. QED
      BY <2>1, <3>1, RowsOfKept DEF RowsOf
  <2>4. QED
    BY <1>1, <2>1, <2>2, <2>3 DEF RunsDistribute, Distributes
<1>2. CASE runState[r] # "UPLOADING"
  <2>0. PICK O \in SUBSET Segment : \E content \in [O -> SUBSET Row], w \in Segment :
           RegisterOutputs(r, O, content, dataExpiresAt[w])
    <3>1. ASSUME NEW I \in SUBSET Segment, ClaimCompaction(r, I)
          PROVE  FALSE
      BY <3>1 DEF ClaimCompaction, Update, TypeOK
    <3>2. QED
      BY <1>2, <3>1, RunStateStep DEF RunMoves
  <2>1. PICK content \in [O -> SUBSET Row], w \in Segment :
           RegisterOutputs(r, O, content, dataExpiresAt[w])
    BY <2>0
  <2>2. Claims(r)' = Claims(r)
    <3>1. runState[r] = "BUILDING" /\ runState'[r] = "UPLOADING"
      BY <2>1 DEF RegisterOutputs, Update, TypeOK
    <3>2. QED
      BY <3>1, ClaimsKept DEF Unfinished
  <2>3. Outputs(r)' = O
    <3>1. \A s \in Segment : /\ segState'[s] = IF s \in O THEN "PREPARED" ELSE segState[s]
                             /\ producer'[s] = IF s \in O THEN r ELSE producer[s]
      BY <2>1 DEF RegisterOutputs, Update, TypeOK
    <3>2. Outputs(r) = {}
      BY <2>1 DEF RegisterOutputs, RunsConsistent
    <3>3. QED
      BY <3>1, <3>2 DEF Outputs, Registered
  <2>4. /\ \A s \in O : segRows'[s] = content[s] /\ dataExpiresAt'[s] = dataExpiresAt[w]
        /\ \A s \in Claims(r) : /\ segRows'[s] = segRows[s]
                                /\ dataExpiresAt'[s] = dataExpiresAt[s]
                                /\ dataExpiresAt[s] <= dataExpiresAt[w]
    BY <2>1 DEF RegisterOutputs, Claims, Registered, Update, TypeOK
  <2>5. RowsOf(Claims(r))' = RowsOf(Claims(r))
    <3>1. \A s \in Claims(r) : segRows'[s] = segRows[s]
      BY <2>4
    <3>2. QED
      BY <2>2, <3>1, RowsOfKept DEF RowsOf
  <2>6. UNION {segRows'[s] : s \in O} = UNION {content[s] : s \in O}
    <3>1. \A s \in O : segRows'[s] = content[s]
      BY <2>4
    <3>2. QED
      BY <3>1
  <2>7. Distributes(content, O, RowsOf(Claims(r)))
    BY <2>1 DEF RegisterOutputs
  <2>8. Distributes(segRows', O, RowsOf(Claims(r)))
    BY <2>4, <2>6, <2>7 DEF Distributes
  <2>9. QED
    BY <2>2, <2>3, <2>4, <2>5, <2>8
<1>3. QED
  BY <1>1, <1>2

=============================================================================
