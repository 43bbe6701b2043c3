--------------------------- MODULE IngestionSteps ---------------------------
(***************************************************************************)
(* Every step keeps the discipline of the ingestion worker's recovery log: *)
(* how outputs move under transactions, object-store calls, maintenance    *)
(* and time, each registration being one that the control plane allows;    *)
(* and the steps the worker takes on its own disk - recovery, staging, log *)
(* appends, truncation and the reclamation of spool frames.                *)
(***************************************************************************)
EXTENDS IngestionDelivery

\* Most leaves are first-order and set reasoning, which Zenon does at once; SMT
\* does the arithmetic.
USE ZenonT(3), SMTT(20)

-----------------------------------------------------------------------------
(* How the state of an output moves.                                       *)

\* Maintenance and time leave the state that the worker sees of an output as
\* it is, or remove the row of a deleted object.
StaysOrCleaned(o) ==
    \/ OutputState(o)' = OutputState(o) /\ (objState'[o] = "REMOVED" => objState[o] = "REMOVED")
    \/ /\ objState[o] = "DELETED" /\ objState'[o] = "REMOVED"
       /\ OutputState(o) # "PLANNED" /\ OutputState(o)' = "UNREGISTERED"

\* Steps of maintenance and time, for segments.
LEMMA SegmentsStay ==
    ASSUME TypeOK, RowsPaired, Publications, Elsewhere, NEW s \in Segment
    PROVE  StaysOrCleaned(s)
<1> USE IdentityAssumption
    DEF TypeOK, RowsPaired, Object, Update, segVars, storeVars, queryVars, historyVars,
        StaysOrCleaned, OutputState, IngestionOutputState
<1>1. ASSUME NEW o \in Object, LatePutLands(o) \/ DeleteExact(o)
      PROVE  StaysOrCleaned(s)
  BY <1>1 DEF LatePutLands, DeleteExact
<1>2. ASSUME NEW S \in SUBSET Segment, ExpireSegments(S) PROVE StaysOrCleaned(s)
  BY <1>2 DEF ExpireSegments
<1>3. ASSUME NEW S \in SUBSET Object, ClaimReclamation(S) PROVE StaysOrCleaned(s)
  BY <1>3 DEF ClaimReclamation, InitialCandidate
<1>4. ASSUME NEW o \in Object, RecordDeleted(o) PROVE StaysOrCleaned(s)
  BY <1>4 DEF RecordDeleted
<1>5. ASSUME NEW D \in SUBSET Object, CleanTerminalMetadata(D, {}) PROVE StaysOrCleaned(s)
  BY <1>5 DEF CleanTerminalMetadata, Cleanable, Retired
<1>6. ASSUME Tick PROVE StaysOrCleaned(s)
  BY <1>6 DEF Tick
<1> HIDE DEF TypeOK, RowsPaired, Object, Update, segVars, storeVars, queryVars, historyVars,
             StaysOrCleaned, OutputState, IngestionOutputState
<1>7. QED
  BY <1>1, <1>2, <1>3, <1>4, <1>5, <1>6 DEF Elsewhere

\* Steps of maintenance and time, for dead letters.
LEMMA LettersStay ==
    ASSUME TypeOK, Publications, Elsewhere, NEW d \in DeadLetter
    PROVE  StaysOrCleaned(d)
<1> USE IdentityAssumption
    DEF TypeOK, Object, Update, segVars, storeVars, queryVars, historyVars,
        StaysOrCleaned, OutputState, DeadLetterOutputState, Publications
<1>1. ASSUME NEW o \in Object, LatePutLands(o) \/ DeleteExact(o)
      PROVE  StaysOrCleaned(d)
  BY <1>1 DEF LatePutLands, DeleteExact
<1>2. ASSUME NEW S \in SUBSET Segment, ExpireSegments(S) PROVE StaysOrCleaned(d)
  BY <1>2 DEF ExpireSegments
<1>3. ASSUME NEW S \in SUBSET Object, ClaimReclamation(S) PROVE StaysOrCleaned(d)
  BY <1>3 DEF ClaimReclamation, InitialCandidate
<1>4. ASSUME NEW o \in Object, RecordDeleted(o) PROVE StaysOrCleaned(d)
  BY <1>4 DEF RecordDeleted
<1>5. ASSUME NEW D \in SUBSET Object, CleanTerminalMetadata(D, {}) PROVE StaysOrCleaned(d)
  BY <1>5 DEF CleanTerminalMetadata
<1>6. ASSUME Tick PROVE StaysOrCleaned(d)
  BY <1>6 DEF Tick
<1> HIDE DEF TypeOK, Object, Update, segVars, storeVars, queryVars, historyVars,
             StaysOrCleaned, OutputState, DeadLetterOutputState, Publications
<1>7. QED
  BY <1>1, <1>2, <1>3, <1>4, <1>5, <1>6 DEF Elsewhere

\* What else maintenance and time leave alone.
LEMMA ElsewhereFrame ==
    ASSUME TypeOK, BytesBacked, Elsewhere
    PROVE  /\ UNCHANGED <<producer, published>>
           /\ \A s \in Segment : segState'[s] = "SUPERSEDED" => segState[s] = "SUPERSEDED"
           /\ \A o \in Object : objState[o] = "PLANNED" /\ o \in bytes => o \in bytes'
<1> USE DEF TypeOK, Object, Update, segVars, storeVars, queryVars, historyVars, BytesBacked
<1>1. ASSUME NEW o \in Object, LatePutLands(o) \/ DeleteExact(o) \/ RecordDeleted(o)
      PROVE  /\ UNCHANGED <<producer, published, segState>>
             /\ \A p \in Object : objState[p] = "PLANNED" /\ p \in bytes => p \in bytes'
  BY <1>1 DEF LatePutLands, DeleteExact, RecordDeleted
<1>2. ASSUME \/ \E S \in SUBSET Segment : ExpireSegments(S)
             \/ \E S \in SUBSET Object : ClaimReclamation(S)
             \/ \E D \in SUBSET Object : CleanTerminalMetadata(D, {})
             \/ Tick
      PROVE  /\ UNCHANGED <<producer, published, bytes>>
             /\ \A s \in Segment : segState'[s] = "SUPERSEDED" => segState[s] = "SUPERSEDED"
  BY <1>2 DEF ExpireSegments, ClaimReclamation, CleanTerminalMetadata, Tick
<1> HIDE DEF TypeOK, Object, Update, segVars, storeVars, queryVars, historyVars, BytesBacked
<1>3. QED
  BY <1>1, <1>2 DEF Elsewhere

\* The state of an output is a matter of its rows.
LEMMA SameState ==
    ASSUME NEW o, objState'[o] = objState[o], segState'[o] = segState[o] \/ o \notin Segment,
           reclaimAfter'[o] = reclaimAfter[o] \/ o \in Segment
    PROVE  OutputState(o)' = OutputState(o)
BY DEF OutputState, IngestionOutputState, DeadLetterOutputState

\* A planned letter is seen as planned.
LEMMA PlannedLetter ==
    ASSUME NEW d \in DeadLetter, objState'[d] = "PLANNED"
    PROVE  OutputState(d)' = "PLANNED"
BY IdentityAssumption DEF OutputState, DeadLetterOutputState

\* An upload or its record moves one planned output on, and no other.
LEMMA UploadMoves ==
    ASSUME TypeOK, NEW p \in Object, OutputState(p) = "PLANNED",
           Upload(p) \/ RecordVerifiedUpload(p)
    PROVE  /\ OutputState(p)' \in {"PLANNED", "UPLOADED"}
           /\ \A o \in Object : o # p => OutputState(o)' = OutputState(o)
           /\ \A o \in Object : objState'[o] = "REMOVED" => objState[o] = "REMOVED"
           /\ UNCHANGED <<producer, published, segState>> /\ bytes \subseteq bytes'
<1> USE DEF TypeOK, Object, Update, segVars, storeVars, queryVars, historyVars
<1>1. UNCHANGED <<segState, segRows, producer, reclaimAfter, published>> /\ bytes \subseteq bytes'
  BY DEF Upload, UploadVerified, UploadLeftInFlight, RecordVerifiedUpload
<1>2. /\ \A o \in Object : o # p => objState'[o] = objState[o]
      /\ objState[p] = "PLANNED" /\ objState'[p] \in {"PLANNED", "UPLOADED"}
  BY DEF Upload, UploadVerified, UploadLeftInFlight, RecordVerifiedUpload
<1>3. OutputState(p)' \in {"PLANNED", "UPLOADED"}
  BY <1>1, <1>2, IdentityAssumption DEF OutputState, IngestionOutputState, DeadLetterOutputState
<1>4. \A o \in Object : o # p => OutputState(o)' = OutputState(o)
  BY <1>1, <1>2 DEF OutputState, IngestionOutputState, DeadLetterOutputState
<1>5. QED
  BY <1>1, <1>2, <1>3, <1>4

\* The registration of an output makes it planned, and moves no other.
LEMMA RegisterMoves ==
    ASSUME IngestionTypeOK, Positions, RegisterOutput, NEW p, p = Output
    PROVE  /\ OutputState(p)' = "PLANNED"
           /\ \A o \in Object : o # p => OutputState(o)' = OutputState(o)
           /\ \A o \in Object : objState'[o] = "REMOVED" => objState[o] = "REMOVED"
           /\ UNCHANGED <<producer, published, bytes>>
           /\ \A s \in Segment : segState'[s] = "SUPERSEDED" => segState[s] = "SUPERSEDED"
<1> USE IdentityAssumption DEF TypeOK, Object, Update, segVars, queryVars, historyVars
<1>1. TypeOK /\ p \in Object
  BY CurrentRecorded DEF IngestionTypeOK, RegisterOutput
<1>2. CASE p \in Segment /\ InsertPrepared(p, log[Current].items)
  <2>1. /\ UNCHANGED <<producer, published, bytes, reclaimAfter>>
        /\ \A s \in Segment : segState'[s] = IF s = p THEN "PREPARED" ELSE segState[s]
        /\ \A o \in Object : objState'[o] = IF o = p THEN "PLANNED" ELSE objState[o]
    BY <1>1, <1>2 DEF InsertPrepared
  <2>2. OutputState(p)' = "PLANNED"
    BY <1>1, <1>2, <2>1 DEF OutputState, IngestionOutputState
  <2>3. \A o \in Object : o # p => OutputState(o)' = OutputState(o)
    BY <2>1, SameState
  <2>4. QED
    BY <1>1, <1>2, <2>1, <2>2, <2>3
<1>3. ASSUME p \in DeadLetter, NEW b, InsertPlannedLetter(p, b)
      PROVE  /\ OutputState(p)' = "PLANNED"
             /\ \A o \in Object : o # p => OutputState(o)' = OutputState(o)
             /\ \A o \in Object : objState'[o] = "REMOVED" => objState[o] = "REMOVED"
             /\ UNCHANGED <<producer, published, bytes, segState>>
  <2>1. /\ UNCHANGED <<segState, producer, published, bytes, reclaimAfter>>
        /\ \A o \in Object : objState'[o] = IF o = p THEN "PLANNED" ELSE objState[o]
    BY <1>1, <1>3 DEF InsertPlannedLetter
  <2>2. OutputState(p)' = "PLANNED"
    BY <1>1, <1>3, <2>1, PlannedLetter
  <2>3. \A o \in Object : o # p => OutputState(o)' = OutputState(o)
    BY <2>1, SameState
  <2>4. QED
    BY <1>1, <1>3, <2>1, <2>2, <2>3
<1> HIDE DEF TypeOK, Object, Update, segVars, queryVars, historyVars
<1>4. QED
  BY <1>2, <1>3 DEF RegisterOutput

\* The publication of an output makes it published, and moves no other.
LEMMA PublishMoves ==
    ASSUME IngestionTypeOK, Positions, PublishOutput, NEW p, p = Output
    PROVE  /\ OutputState(p) = "UPLOADED" /\ OutputState(p)' = "PUBLISHED"
           /\ \A o \in Object : o # p => OutputState(o)' = OutputState(o)
           /\ \A o \in Object : objState'[o] = "REMOVED" => objState[o] = "REMOVED"
           /\ UNCHANGED <<producer, bytes>>
           /\ \A s \in Segment : segState'[s] = "SUPERSEDED" => segState[s] = "SUPERSEDED"
           /\ p \in Segment => published' = published \cup segRows[p]
           /\ p \notin Segment => published' = published
<1> USE IdentityAssumption DEF TypeOK, Object, Update, segVars, storeVars, queryVars, historyVars
<1>1. TypeOK /\ p \in Object /\ OutputState(p) = "UPLOADED"
  BY CurrentRecorded DEF IngestionTypeOK, PublishOutput
<1>2. CASE p \in Segment /\ PublishIngestionSegment(p)
  <2>1. /\ UNCHANGED <<producer, bytes, reclaimAfter>>
        /\ \A s \in Segment : segState'[s] = IF s = p THEN "ACTIVE" ELSE segState[s]
        /\ \A o \in Object : objState'[o] = IF o = p THEN "PUBLISHED" ELSE objState[o]
        /\ published' = published \cup segRows[p]
    BY <1>1, <1>2 DEF PublishIngestionSegment
  <2>2. OutputState(p)' = "PUBLISHED"
    BY <1>1, <1>2, <2>1 DEF OutputState, IngestionOutputState
  <2>3. \A o \in Object : o # p => OutputState(o)' = OutputState(o)
    BY <2>1, SameState
  <2>4. QED
    BY <1>1, <1>2, <2>1, <2>2, <2>3
<1>3. CASE p \in DeadLetter /\ PublishDeadLetter(p)
  <2>1. /\ UNCHANGED <<segState, producer, bytes, published>>
        /\ \A o \in Object : o # p => reclaimAfter'[o] = reclaimAfter[o]
        /\ \A o \in Object : objState'[o] = IF o = p THEN "PUBLISHED" ELSE objState[o]
    BY <1>1, <1>3 DEF PublishDeadLetter
  <2>2. OutputState(p)' = "PUBLISHED"
    BY <1>1, <1>3, <2>1 DEF OutputState, DeadLetterOutputState
  <2>3. \A o \in Object : o # p => OutputState(o)' = OutputState(o)
    BY <2>1, SameState
  <2>4. QED
    BY <1>1, <1>3, <2>1, <2>2, <2>3
<1> HIDE DEF TypeOK, Object, Update, segVars, storeVars, queryVars, historyVars
<1>4. QED
  BY <1>2, <1>3 DEF PublishOutput

-----------------------------------------------------------------------------
(* What every step that leaves the worker alone does to the outputs in the *)
(* log: the dead stay dead, the published stay published, none is opened   *)
(* again and none gets stuck.                                              *)

Steady ==
    /\ \A o \in LogOutputs : /\ Dead(o) => Dead(o)'
                             /\ OutputState(o) = "PUBLISHED" => OutputState(o)' = "PUBLISHED"
                             /\ Open(o)' => Open(o)
                             /\ Publishable(o) => Publishable(o)'
    /\ \A o \in Object : OutputState(o)' \in {"PLANNED", "UPLOADED"} =>
          OutputState(o) \in {"PLANNED", "UPLOADED"} \/ o \in LogOutputs
    /\ \A o \in staged : OutputState(o)' # "ABANDONED" /\ objState'[o] # "REMOVED"
    /\ phase = "resolving" => \A i \in 1..(cursor - 1) : \A o \in {log[i].output} :
          OutputState(o) = "PLANNED" => OutputState(o)' = "PLANNED"
    /\ producer' = producer
    /\ \A s \in Segment : segState'[s] = "SUPERSEDED" => segState[s] = "SUPERSEDED"

\* The row of a deleted object belongs to a published or abandoned output.
LEMMA DeletedState ==
    ASSUME TypeOK, RowsPaired, NEW o \in Object, objState[o] = "DELETED"
    PROVE  OutputState(o) \in {"PUBLISHED", "ABANDONED"}
<1>1. CASE o \in Segment
  BY <1>1 DEF RowsPaired, TypeOK, SegmentStates, OutputState, IngestionOutputState
<1>2. CASE o \notin Segment
  BY <1>2 DEF OutputState, DeadLetterOutputState
<1>3. QED
  BY <1>1, <1>2

\* The outputs in the log are objects, and maintenance has removed none that
\* is published.
LEMMA LoggedOutputs ==
    ASSUME IngestionTypeOK, RecordedRetained
    PROVE  \A o \in LogOutputs :
              o \in Object /\ (OutputState(o) = "PUBLISHED" => objState[o] = "PUBLISHED")
BY RecordTypes DEF LogOutputs, RecordedRetained

\* The records that recovery has been at are in the log.
LEMMA ResolvedLogged ==
    ASSUME IngestionTypeOK, Positions, phase = "resolving", NEW i \in 1..(cursor - 1)
    PROVE  i \in 1..Len(log) /\ log[i].output \in LogOutputs
BY DEF IngestionTypeOK, Positions, LogOutputs

\* Maintenance and time are steady.
LEMMA ElsewhereSteady ==
    ASSUME IngestionTypeOK, Positions, RowsPaired, BytesBacked, Publications, Decisions,
           RecordedRetained, Elsewhere
    PROVE  Steady
<1>1. TypeOK /\ staged' = staged
  BY WorkerFrame DEF IngestionTypeOK, diskVars
<1>2. \A o \in Object : StaysOrCleaned(o)
  BY <1>1, SegmentsStay, LettersStay DEF Object
<1>3. \A o \in LogOutputs :
         o \in Object /\ (OutputState(o) = "PUBLISHED" => objState[o] = "PUBLISHED")
  BY LoggedOutputs
<1>4. \A o \in Object : objState[o] = "DELETED" => OutputState(o) \in {"PUBLISHED", "ABANDONED"}
  BY <1>1, DeletedState
<1>5. \A o \in LogOutputs : \/ OutputState(o)' = OutputState(o)
                            \/ OutputState(o) = "ABANDONED" /\ OutputState(o)' = "UNREGISTERED"
  BY <1>2, <1>3, <1>4 DEF StaysOrCleaned
<1>6. \A o \in staged : o \in LogOutputs /\ OutputState(o) # "ABANDONED" /\ objState[o] # "REMOVED"
  BY DEF Decisions
<1>7. /\ producer' = producer
      /\ \A s \in Segment : segState'[s] = "SUPERSEDED" => segState[s] = "SUPERSEDED"
      /\ \A o \in Object : OutputState(o) = "PLANNED" /\ o \in bytes => o \in bytes'
  <2>1. \A o \in Object : OutputState(o) = "PLANNED" => objState[o] = "PLANNED"
    BY DEF OutputState, IngestionOutputState, DeadLetterOutputState
  <2>2. QED
    BY <1>1, <2>1, ElsewhereFrame
<1>8. ASSUME NEW o \in LogOutputs
      PROVE  /\ Dead(o) => Dead(o)'
             /\ OutputState(o) = "PUBLISHED" => OutputState(o)' = "PUBLISHED"
             /\ Open(o)' => Open(o)
             /\ Publishable(o) => Publishable(o)'
  BY <1>1, <1>3, <1>5, <1>6, <1>7 DEF Dead, Open, Publishable
<1>9. \A o \in Object : OutputState(o)' \in {"PLANNED", "UPLOADED"} =>
          OutputState(o) \in {"PLANNED", "UPLOADED"}
  BY <1>2 DEF StaysOrCleaned
<1>10. \A o \in staged : OutputState(o)' # "ABANDONED" /\ objState'[o] # "REMOVED"
  BY <1>2, <1>3, <1>4, <1>6 DEF StaysOrCleaned
<1>11. \A o \in LogOutputs : OutputState(o) = "PLANNED" => OutputState(o)' = "PLANNED"
  BY <1>5
<1>12. phase = "resolving" => \A i \in 1..(cursor - 1) : \A o \in {log[i].output} :
          OutputState(o) = "PLANNED" => OutputState(o)' = "PLANNED"
  BY <1>11, ResolvedLogged
<1>13. QED
  BY <1>7, <1>8, <1>9, <1>10, <1>12 DEF Steady

\* A step that moves one output of the log, p, on its way to publication is
\* steady.
LEMMA MoveSteady ==
    ASSUME IngestionTypeOK, Positions, Decisions, NEW p \in LogOutputs, Open(p),
           phase = "resolving" =>
              cursor <= Len(log) /\ p = log[cursor].output /\ Recorded,
           OutputState(p)' \in {"PLANNED", "UPLOADED", "PUBLISHED"},
           OutputState(p)' = "PLANNED" => p \in staged \cup bytes',
           \A o \in Object : o # p => OutputState(o)' = OutputState(o),
           \A o \in Object : objState'[o] = "REMOVED" => objState[o] = "REMOVED",
           producer' = producer, staged' = staged, bytes \subseteq bytes',
           \A s \in Segment : segState'[s] = "SUPERSEDED" => segState[s] = "SUPERSEDED"
    PROVE  Steady
<1>1. \A o \in LogOutputs : o \in Object
  BY RecordTypes DEF LogOutputs
<1>2. ASSUME NEW o \in LogOutputs
      PROVE  /\ Dead(o) => Dead(o)'
             /\ OutputState(o) = "PUBLISHED" => OutputState(o)' = "PUBLISHED"
             /\ Open(o)' => Open(o)
             /\ Publishable(o) => Publishable(o)'
  BY <1>1 DEF Dead, Open, Publishable
<1>3. \A o \in staged : OutputState(o)' # "ABANDONED" /\ objState'[o] # "REMOVED"
  BY <1>1 DEF Decisions
<1>4. ASSUME phase = "resolving", NEW i \in 1..(cursor - 1)
      PROVE  log[i].output # p /\ log[i].output \in Object
  <2>1. cursor \in 1..Len(log) /\ i \in 1..Len(log) /\ i # cursor
    BY <1>4, ResolvedLogged DEF IngestionTypeOK
  <2>2. QED
    BY <1>1, <1>4, <2>1, ResolvedLogged DEF Recorded, RecordMatches
<1>5. QED
  BY <1>1, <1>2, <1>3, <1>4 DEF Steady

\* The worker's steps on the output it publishes are steady.
LEMMA PublishingSteady ==
    ASSUME IngestionTypeOK, Positions, Decisions, RegisterOutput \/ UploadOutput \/ PublishOutput
    PROVE  Steady
<1> DEFINE p == Output
<1>1. /\ p \in LogOutputs /\ p \in Object /\ phase # "resolving" /\ TypeOK
  BY CurrentRecorded DEF IngestionTypeOK, Positions, Publishing, LogOutputs, Output,
     RegisterOutput, UploadOutput, PublishOutput
<1>2. staged' = staged
  BY WorkerFrame DEF diskVars
<1> HIDE DEF p
<1>3. CASE RegisterOutput
  <2>1. OutputState(p) = "UNREGISTERED" /\ p \in staged
    BY <1>3 DEF RegisterOutput, p
  <2>2. QED
    BY <1>1, <1>2, <1>3, <2>1, RegisterMoves, MoveSteady DEF p, Open
<1>4. CASE UploadOutput
  <2>1. OutputState(p) = "PLANNED" /\ p \in staged /\ (Upload(p) \/ RecordVerifiedUpload(p))
    BY <1>4 DEF UploadOutput, p
  <2>2. \A s \in Segment : segState'[s] = "SUPERSEDED" => segState[s] = "SUPERSEDED"
    BY <1>1, <2>1, UploadMoves
  <2>3. QED
    BY <1>1, <1>2, <2>1, <2>2, UploadMoves, MoveSteady DEF Open
<1>5. CASE PublishOutput
  BY <1>1, <1>2, <1>5, PublishMoves, MoveSteady DEF p, Open
<1>6. QED
  BY <1>3, <1>4, <1>5

\* So is the verification of a recovered output.
LEMMA VerifySteady ==
    ASSUME IngestionTypeOK, Positions, Recorded, Decisions, VerifyRecovered
    PROVE  Steady
<1>0. PICK p : p = log[cursor].output
  OBVIOUS
<1>1. cursor \in 1..Len(log) /\ p \in LogOutputs /\ p \in Object /\ TypeOK
  BY <1>0, RecordTypes DEF IngestionTypeOK, VerifyRecovered, LogOutputs
<1>2. OutputState(p) = "PLANNED" /\ p \in bytes /\ (UploadVerified(p) \/ RecordVerifiedUpload(p))
  BY <1>0 DEF VerifyRecovered
<1>3. staged' = staged
  BY DEF VerifyRecovered, ingestionVars, diskVars
<1>4. OutputState(p)' \in {"PLANNED", "UPLOADED"} /\ p \in bytes'
  BY <1>1, <1>2, UploadMoves DEF Upload
<1>5. \A s \in Segment : segState'[s] = "SUPERSEDED" => segState[s] = "SUPERSEDED"
  BY <1>1, <1>2, UploadMoves DEF Upload
<1>6. cursor <= Len(log) /\ p = log[cursor].output
  BY <1>0 DEF VerifyRecovered
<1>7. Open(p)
  BY <1>2 DEF Open
<1>8. /\ \A o \in Object : o # p => OutputState(o)' = OutputState(o)
      /\ \A o \in Object : objState'[o] = "REMOVED" => objState[o] = "REMOVED"
      /\ producer' = producer /\ bytes \subseteq bytes'
  BY <1>1, <1>2, UploadMoves DEF Upload
<1>9. QED
  BY <1>1, <1>3, <1>4, <1>5, <1>6, <1>7, <1>8, MoveSteady

-----------------------------------------------------------------------------
(* The discipline under the steps that leave the worker alone.             *)

Framed == UNCHANGED <<diskVars, workerVars, appended>>

\* Recovery's decisions stay good.
LEMMA DecisionsSteady ==
    ASSUME IngestionTypeOK, Positions, Decisions, Framed, Steady
    PROVE  Decisions'
<1>1. UNCHANGED <<log, staged, phase, cursor, dropped, publishing>>
  BY DEF Framed, diskVars, workerVars
<1>2. LogOutputs' = LogOutputs /\ Kept' = Kept
  BY <1>1 DEF LogOutputs, Kept
<1>3. \A o \in staged' : /\ o \in LogOutputs'
                         /\ OutputState(o)' # "ABANDONED" /\ objState'[o] # "REMOVED"
  BY <1>1, <1>2 DEF Decisions, Steady
<1>4. ASSUME NEW i \in dropped, NEW o, o = log[i].output
      PROVE  \/ Dead(o)'
             \/ phase = "resolving" /\ OutputState(o)' = "PLANNED" /\ o \notin staged
  <2>1. i \in 1..Len(log) /\ o \in LogOutputs
    BY <1>4 DEF IngestionTypeOK, LogOutputs
  <2>2. CASE Dead(o)
    BY <2>1, <2>2 DEF Steady
  <2>3. CASE phase = "resolving" /\ OutputState(o) = "PLANNED" /\ o \notin staged
    <3>1. i \in 1..(cursor - 1)
      BY <2>3 DEF Positions
    <3>2. QED
      BY <1>4, <2>3, <3>1 DEF Steady
  <2>4. QED
    BY <1>4, <2>2, <2>3 DEF Decisions
<1>5. ASSUME NEW i \in Kept, phase # "resolving" \/ i < cursor, NEW o, o = log[i].output
      PROVE  Publishable(o)'
  BY <1>5 DEF Decisions, Steady, Kept, LogOutputs
<1>6. ASSUME NEW i \in 1..Len(log), Settled(i), NEW o, o = log[i].output
      PROVE  OutputState(o)' = "PUBLISHED" /\ o \notin staged
  BY <1>6 DEF Decisions, Steady, LogOutputs
<1>7. \A i \in 1..Len(log) : Settled(i)' => Settled(i)
  BY <1>1, <1>2 DEF Settled
<1>8. QED
  BY <1>1, <1>2, <1>3, <1>4, <1>5, <1>6, <1>7 DEF Decisions, Dead

\* No output is opened.
LEMMA OneOpenSteady ==
    ASSUME OneOpen, Framed, Steady
    PROVE  OneOpen'
<1>1. LogOutputs' = LogOutputs
  BY DEF Framed, diskVars, LogOutputs
<1>2. QED
  BY <1>1 DEF OneOpen, Steady

\* A lost output stays lost.
LEMMA RebuiltSteady ==
    ASSUME Rebuilt, Framed, Steady
    PROVE  Rebuilt'
<1>1. log' = log
  BY DEF Framed, diskVars
<1>2. ASSUME NEW i \in 1..Len(log), NEW o, o = log[i].output, Dead(o) PROVE Dead(o)'
  BY <1>2 DEF Steady, LogOutputs
<1>3. QED
  BY <1>1, <1>2 DEF Rebuilt, Dead

\* What is published is recorded.
LEMMA ReplayedSteady ==
    ASSUME Replayed, Framed, Steady,
           \A x \in published' : x \in published \/ \E i \in 1..Len(log) :
               x \in log[i].items /\ \A o \in {log[i].output} : OutputState(o)' = "PUBLISHED"
    PROVE  Replayed'
<1>1. UNCHANGED <<log, spool, phase, staged, appended>>
  BY DEF Framed, diskVars, workerVars
<1>2. SpoolItems' = SpoolItems /\ LogItems' = LogItems
  BY <1>1 DEF SpoolItems, LogItems, Items
<1>3. ASSUME NEW i \in 1..Len(log), NEW o, o = log[i].output
      PROVE  /\ Dead(o) => Dead(o)'
             /\ OutputState(o) = "PUBLISHED" => OutputState(o)' = "PUBLISHED"
  BY <1>3 DEF Steady, LogOutputs
<1>4. \A x \in published' \cap SpoolItems : \E i \in 1..Len(log) :
         x \in log[i].items /\ \A o \in {log[i].output} : OutputState(o)' = "PUBLISHED"
  BY <1>3 DEF Replayed
<1>5. published' \subseteq published \cup LogItems
  BY DEF LogItems
<1>6. \A i \in 1..Len(log) : \A o \in {log[i].output} :
          \/ log[i].items \subseteq SpoolItems
          \/ OutputState(o)' = "PUBLISHED"
          \/ Dead(o)'
  BY <1>3 DEF Replayed
<1>7. published' \cup LogItems \cup SpoolItems \subseteq UNION {Items(b) : b \in appended}
  BY <1>5 DEF Replayed
<1>8. phase = "truncated" => LogItems \cap SpoolItems = {}
  BY DEF Replayed
<1>9. (UNION {Items(b) : b \in appended})' = UNION {Items(b) : b \in appended}
  BY <1>1 DEF Items
<1>10. /\ \A x \in published' \cap SpoolItems' : \E i \in 1..Len(log') :
             x \in log'[i].items /\ OutputState(log[i].output)' = "PUBLISHED"
       /\ \A i \in 1..Len(log') :
             \/ log'[i].items \subseteq SpoolItems'
             \/ OutputState(log[i].output)' = "PUBLISHED"
             \/ Dead(log[i].output)'
  BY <1>1, <1>2, <1>4, <1>6
<1>11. QED
  BY <1>1, <1>2, <1>7, <1>8, <1>9, <1>10 DEF Replayed

\* What a step that leaves the worker alone publishes is what a record says.
LEMMA FramedPublished ==
    ASSUME IngestionTypeOK, Positions, Recorded, BytesBacked,
           VerifyRecovered \/ RegisterOutput \/ UploadOutput \/ PublishOutput \/ Elsewhere
    PROVE  \A x \in published' : x \in published \/ \E i \in 1..Len(log) :
               x \in log[i].items /\ \A o \in {log[i].output} : OutputState(o)' = "PUBLISHED"
<1>1. TypeOK
  BY DEF IngestionTypeOK
<1>2. CASE Elsewhere
  BY <1>1, <1>2, ElsewhereFrame
<1>3. CASE VerifyRecovered
  <2>1. PICK p \in Object : OutputState(p) = "PLANNED" /\ (Upload(p) \/ RecordVerifiedUpload(p))
    BY <1>3, RecordTypes DEF VerifyRecovered, Upload, IngestionTypeOK
  <2>2. QED
    BY <1>1, <2>1, UploadMoves
<1>4. CASE UploadOutput
  <2>1. PICK p \in Object : OutputState(p) = "PLANNED" /\ (Upload(p) \/ RecordVerifiedUpload(p))
    BY <1>4, CurrentRecorded DEF UploadOutput
  <2>2. QED
    BY <1>1, <2>1, UploadMoves
<1>5. CASE RegisterOutput
  BY <1>5, RegisterMoves
<1>6. CASE PublishOutput
  <2>1. PICK p : p = Output
    OBVIOUS
  <2>2. Current \in 1..Len(log) /\ p = log[Current].output
    BY <1>6, <2>1, CurrentRecorded DEF PublishOutput, Output
  <2>3. /\ OutputState(p) = "UPLOADED" /\ OutputState(p)' = "PUBLISHED"
        /\ p \in Segment => published' = published \cup segRows[p]
        /\ p \notin Segment => published' = published
    BY <1>6, <2>1, PublishMoves
  <2>4. p \in Segment => segState[p] # "NONE"
    BY <2>3 DEF OutputState, IngestionOutputState
  <2>5. p \in Segment => segRows[p] = log[Current].items
    BY <2>2, <2>4 DEF Recorded, RecordMatches
  <2>6. QED
    BY <2>2, <2>3, <2>5
<1>7. QED
  BY <1>2, <1>3, <1>4, <1>5, <1>6

\* A batch among the records' items is one that was appended.
LEMMA BatchAppended ==
    ASSUME IngestionTypeOK, NEW b \in Batch, b \in UNION {Items(c) : c \in appended}
    PROVE  b \in appended
<1>1. PICK c \in appended : b \in Items(c)
  OBVIOUS
<1>2. c \in Batch /\ Accepted[c] \subseteq Row
  BY BatchAssumption DEF IngestionTypeOK
<1>3. b \notin Row
  BY BatchAssumption
<1>4. QED
  BY <1>1, <1>2, <1>3 DEF Items

\* The rows of dead letters are those of appended batches, and the registration
\* of a letter comes after its record.
LEMMA LettersApartFramed ==
    ASSUME IngestionTypeOK, Positions, Recorded, Publications, Replayed, LettersApart,
           UNCHANGED <<log, spool, appended>>, StoreStep \/ RegisterOutput
    PROVE  LettersApart'
<1>1. UNCHANGED <<log, spool, appended>>
  OBVIOUS
<1>2. SpoolItems' = SpoolItems /\ LogItems' = LogItems /\ LogOutputs' = LogOutputs
  BY <1>1 DEF SpoolItems, LogItems, LogOutputs, Items
<1>3. TypeOK /\ DeadLetter \subseteq Object
  BY DEF IngestionTypeOK, Object
<1>4. CASE StoreStep
  <2>1. batchOf' = batchOf /\ \A o \in Object : objState'[o] = "NONE" <=> objState[o] = "NONE"
    BY <1>3, <1>4, ContentsKept
  <2>2. QED
    BY <1>1, <1>2, <1>3, <2>1 DEF LettersApart
<1>5. CASE RegisterOutput
  <2>1. Current \in 1..Len(log) /\ Output \in LogOutputs
    BY <1>5, CurrentRecorded DEF RegisterOutput, Output, LogOutputs
  <2>2. CASE Output \in Segment /\ InsertPrepared(Output, log[Current].items)
    <3>1. batchOf' = batchOf /\ \A d \in DeadLetter : objState'[d] = objState[d]
      BY <1>3, <2>2, IdentityAssumption
         DEF InsertPrepared, TypeOK, Update, Object, segVars, queryVars, historyVars
    <3>2. QED
      BY <1>1, <1>2, <3>1 DEF LettersApart
  <2>3. ASSUME Output \in DeadLetter, NEW b \in log[Current].items,
               InsertPlannedLetter(Output, b)
        PROVE  LettersApart'
    <3>1. \A d \in DeadLetter : d # Output => batchOf'[d] = batchOf[d] /\ objState'[d] = objState[d]
      BY <1>3, <2>3 DEF InsertPlannedLetter, TypeOK, Update, Object
    <3>2. batchOf'[Output] = b /\ objState'[Output] = "PLANNED"
      BY <1>3, <2>3 DEF InsertPlannedLetter, TypeOK, Update, Object
    <3>3. b \in Batch
      BY <2>1, <2>3, IdentityAssumption DEF Recorded, RecordMatches, Output
    <3>4. b \in appended
      BY <2>1, <2>3, <3>3, BatchAppended DEF Replayed, LogItems
    <3>5. QED
      BY <1>1, <1>2, <2>1, <3>1, <3>2, <3>4 DEF LettersApart
  <2>4. QED
    BY <1>5, <2>2, <2>3 DEF RegisterOutput
<1>6. QED
  BY <1>4, <1>5

\* What a record covers is not published while its output still may be.
LEMMA Unpublished ==
    ASSUME IngestionTypeOK, Rebuilt, Replayed, NEW i \in 1..Len(log),
           OutputState(log[i].output) # "PUBLISHED", ~Dead(log[i].output)
    PROVE  log[i].items \cap published = {}
<1> SUFFICES ASSUME NEW x \in log[i].items \cap published PROVE FALSE
  OBVIOUS
<1>1. log[i].items \subseteq SpoolItems
  BY DEF Replayed
<1>2. PICK j \in 1..Len(log) : x \in log[j].items /\ OutputState(log[j].output) = "PUBLISHED"
  BY <1>1 DEF Replayed
<1>3. j # i /\ ~Dead(log[j].output)
  BY <1>2 DEF Dead
<1>4. j < i \/ i < j
  BY <1>3
<1>5. QED
  BY <1>2, <1>3, <1>4 DEF Rebuilt

Registration ==
    \/ \E s \in Segment, R \in SUBSET Row : RegisterIngestionSegment(s, R)
    \/ \E d \in DeadLetter, b \in Batch : RegisterDeadLetter(d, b)

\* What is registered has a new identity, and its rows are neither published
\* nor held by another output.
LEMMA RegistrationAllowed ==
    ASSUME IngestionTypeOK, Positions, Recorded, RowsPaired, Decisions, OneOpen, Rebuilt,
           Replayed, RegisterOutput
    PROVE  Registration
<1> DEFINE p == Output
           I == log[Current].items
<1>1. /\ Current \in 1..Len(log) /\ p = log[Current].output /\ p \in LogOutputs /\ p \in Object
      /\ OutputState(p) = "UNREGISTERED" /\ p \in staged /\ TypeOK
  BY CurrentRecorded DEF RegisterOutput, Output, LogOutputs, IngestionTypeOK
<1>2. objState[p] # "REMOVED" /\ Open(p) /\ ~Dead(p)
  BY <1>1 DEF Decisions, Open, Dead
<1> HIDE DEF p
<1>3. ASSUME p \in Segment, InsertPrepared(p, I)
      PROVE  Registration
  <2>1. segState[p] = "NONE"
    BY <1>1, <1>2, <1>3 DEF OutputState, IngestionOutputState, RowsPaired, TypeOK, SegmentStates
  <2>2. I \cap published = {}
    BY <1>1, <1>2, Unpublished
  <2>3. ASSUME NEW t \in Segment, segState[t] = "PREPARED"
        PROVE  FALSE
    <3>1. OutputState(t) \in {"PLANNED", "UPLOADED"}
      BY <2>3 DEF RowsPaired, OutputState, IngestionOutputState
    <3>2. t \in LogOutputs /\ Open(t)
      BY <3>1 DEF OneOpen, Open, Object
    <3>3. QED
      BY <1>1, <1>2, <3>1, <3>2 DEF OneOpen
  <2>4. I \in SUBSET Row
    BY <1>1, <1>3 DEF Recorded, RecordMatches
  <2>5. RegisterIngestionSegment(p, I)
    BY <1>3, <2>1, <2>2, <2>3 DEF RegisterIngestionSegment, Unheld
  <2>6. QED
    BY <1>3, <2>4, <2>5 DEF Registration
<1>4. ASSUME p \in DeadLetter, NEW b \in I, InsertPlannedLetter(p, b)
      PROVE  Registration
  <2>1. b \in Batch
    BY <1>1, <1>4, IdentityAssumption DEF Recorded, RecordMatches
  <2>2. RegisterDeadLetter(p, b)
    BY <1>2, <1>4 DEF RegisterDeadLetter, InsertPlannedLetter
  <2>3. QED
    BY <1>4, <2>1, <2>2 DEF Registration
<1>5. QED
  BY <1>3, <1>4 DEF RegisterOutput, p

\* Every step of the worker is one that the control plane allows.
LEMMA StepAllowed ==
    ASSUME DisciplineInvariant, [IngestionNext]_allVars
    PROVE  [Next]_vars
<1>1. CASE RegisterOutput
  BY <1>1, RegistrationAllowed DEF DisciplineInvariant, DeliveryInvariant, Registration, Next
<1>2. CASE ~RegisterOutput
  BY <1>2, StoreSteps, StoreStepAllowed DEF DisciplineInvariant, DeliveryInvariant
<1>3. QED
  BY <1>1, <1>2

\* Hence the rows of the control plane stay paired, and the bytes behind them.
LEMMA StoredKept ==
    ASSUME DisciplineInvariant, [IngestionNext]_allVars
    PROVE  RowsPaired' /\ BytesBacked'
BY StepAllowed, StoredStep DEF DisciplineInvariant, DeliveryInvariant, IngestionTypeOK, Stored

Discipline == Decisions /\ OneOpen /\ Rebuilt /\ Replayed /\ LettersApart

\* Transactions, calls and time keep the discipline.
LEMMA FramedDiscipline ==
    ASSUME DisciplineInvariant, RecordedRetained, IngestionNext,
           VerifyRecovered \/ RegisterOutput \/ UploadOutput \/ PublishOutput \/ Elsewhere
    PROVE  Discipline'
<1> USE DEF DisciplineInvariant, DeliveryInvariant
<1>1. Framed
  BY WorkerFrame DEF Framed
<1>2. Steady
  BY ElsewhereSteady, VerifySteady, PublishingSteady
<1>3. Decisions' /\ OneOpen' /\ Rebuilt'
  BY <1>1, <1>2, DecisionsSteady, OneOpenSteady, RebuiltSteady
<1>4. Replayed'
  BY <1>1, <1>2, FramedPublished, ReplayedSteady
<1>5. LettersApart'
  BY <1>1, StoreSteps, LettersApartFramed DEF Framed, diskVars
<1>6. QED
  BY <1>3, <1>4, <1>5 DEF Discipline

-----------------------------------------------------------------------------
(* The discipline under the worker's own steps.                            *)

\* A step that leaves the control plane alone moves no output.
LEMMA LocalStates ==
    ASSUME UNCHANGED vars
    PROVE  /\ UNCHANGED <<segState, objState, producer, bytes, batchOf, published>>
           /\ \A o : OutputState(o)' = OutputState(o)
<1>1. UNCHANGED <<segState, objState, producer, bytes, batchOf, published, reclaimAfter>>
  BY DEF vars, segVars, storeVars, historyVars
<1>2. QED
  BY <1>1, SameState

\* Different batches have nothing in common.
LEMMA ItemsDisjoint ==
    ASSUME NEW b \in Batch, NEW c \in Batch, b # c
    PROVE  Items(b) \cap Items(c) = {}
<1>1. /\ Accepted[b] \cap Accepted[c] = {}
      /\ Accepted[b] \subseteq Row /\ Accepted[c] \subseteq Row
      /\ b \notin Row /\ c \notin Row
  BY BatchAssumption
<1>2. QED
  BY <1>1 DEF Items

\* Outside recovery, and when nothing is being published, every output of the
\* log is published or lost.
LEMMA Concluded ==
    ASSUME IngestionTypeOK, Decisions, phase \notin {"resolving", "resuming"}, ~publishing,
           NEW i \in 1..Len(log)
    PROVE  /\ log[i].output \notin staged
           /\ OutputState(log[i].output) = "PUBLISHED" \/ Dead(log[i].output)
<1>1. CASE i \in dropped
  BY <1>1 DEF Decisions, Dead
<1>2. CASE i \notin dropped
  <2>1. Settled(i)
    BY <1>2 DEF Settled, Kept
  <2>2. QED
    BY <2>1 DEF Decisions
<1>3. QED
  BY <1>1, <1>2

\* Steps that at most lose or remove staged files.
LEMMA LocalDiscipline ==
    ASSUME OneOpen, Rebuilt, Replayed, LettersApart, UNCHANGED <<vars, log, spool, appended>>,
           staged' \subseteq staged, phase' = "truncated" => phase = "truncated"
    PROVE  OneOpen' /\ Rebuilt' /\ Replayed' /\ LettersApart'
<1>1. /\ UNCHANGED <<segState, objState, producer, bytes, batchOf, published>>
      /\ \A o : OutputState(o)' = OutputState(o)
  BY LocalStates
<1>2. \A o : (Dead(o) => Dead(o)') /\ (Open(o)' => Open(o))
  BY <1>1 DEF Dead, Open
<1>3. /\ SpoolItems' = SpoolItems /\ LogItems' = LogItems /\ LogOutputs' = LogOutputs
      /\ (UNION {Items(b) : b \in appended})' = UNION {Items(b) : b \in appended}
  BY DEF SpoolItems, LogItems, LogOutputs, Items
<1>4. OneOpen'
  BY <1>1, <1>2, <1>3 DEF OneOpen
<1>5. LettersApart'
  BY <1>1, <1>3 DEF LettersApart
<1>6. \A i \in 1..Len(log) : \A o \in {log[i].output} :
          /\ Dead(o) => Dead(log[i].output)'
          /\ OutputState(o) = "PUBLISHED" => OutputState(log[i].output)' = "PUBLISHED"
  BY <1>1, <1>2
<1>7. Rebuilt'
  BY <1>6 DEF Rebuilt
<1>8. Replayed'
  BY <1>1, <1>3, <1>6 DEF Replayed
<1>9. QED
  BY <1>4, <1>5, <1>7, <1>8

\* Steps outside the first part of recovery that settle no record.
LEMMA LocalDecisions ==
    ASSUME IngestionTypeOK, Decisions, UNCHANGED <<vars, log, staged, dropped>>,
           phase # "resolving", phase' # "resolving",
           \A i \in 1..Len(log) : Settled(i)' => Settled(i)
    PROVE  Decisions'
<1>1. /\ UNCHANGED <<segState, objState, producer, bytes, batchOf, published>>
      /\ \A o : OutputState(o)' = OutputState(o)
  BY LocalStates
<1>2. \A o : (Dead(o) => Dead(o)') /\ (Publishable(o) => Publishable(o)')
  BY <1>1 DEF Dead, Publishable
<1>3. LogOutputs' = LogOutputs /\ Kept' = Kept
  BY DEF LogOutputs, Kept
<1>4. \A i \in dropped : \A o \in {log[i].output} : Dead(o)'
  BY <1>2 DEF Decisions
<1>5. \A i \in Kept : \A o \in {log[i].output} : Publishable(o)'
  BY <1>2 DEF Decisions
<1>6. \A i \in 1..Len(log) : Settled(i)' =>
         \A o \in {log[i].output} : OutputState(o)' = "PUBLISHED" /\ o \notin staged
  BY <1>1 DEF Decisions
<1>7. \A o \in staged' : /\ o \in LogOutputs'
                         /\ OutputState(o)' # "ABANDONED" /\ objState'[o] # "REMOVED"
  BY <1>1, <1>3 DEF Decisions
<1>8. QED
  BY <1>3, <1>4, <1>5, <1>6, <1>7 DEF Decisions

\* The worker moves from one part of its loop to the next.
LEMMA MoveDiscipline ==
    ASSUME DisciplineInvariant,
           \/ SkipRebuilt \/ FinishRecovery \/ ReadBatch \/ PushBatch \/ FinishDraining
           \/ SealExpired \/ AdvanceCheckpoint \/ ReclaimDeferred \/ ResetCheckpoint
    PROVE  Discipline'
<1> USE DEF DisciplineInvariant, DeliveryInvariant
<1>1. /\ UNCHANGED <<vars, log, spool, appended, staged, dropped, publishing>>
      /\ phase # "resolving" /\ phase' \notin {"resolving", "truncated"}
  BY DEF SkipRebuilt, FinishRecovery, ReadBatch, PushBatch, FinishDraining, SealExpired,
         AdvanceCheckpoint, ReclaimDeferred, ResetCheckpoint, diskVars
<1>2. Kept' = Kept /\ Kept = (1..Len(log)) \ dropped
  BY <1>1 DEF Kept
<1>3. ASSUME NEW i \in 1..Len(log), Settled(i)' PROVE Settled(i)
  <2>1. CASE SkipRebuilt
    BY <1>1, <1>2, <1>3, <2>1 DEF SkipRebuilt, Settled, IngestionTypeOK
  <2>2. CASE FinishRecovery
    <3>1. phase = "resuming" /\ cursor > Len(log)
      BY <2>2 DEF FinishRecovery
    <3>2. cursor \in Nat /\ Len(log) \in Nat
      BY DEF IngestionTypeOK
    <3>3. i < cursor
      BY <3>1, <3>2
    <3>4. QED
      BY <1>1, <1>2, <1>3, <3>1, <3>3 DEF Settled
  <2>3. CASE ~SkipRebuilt /\ ~FinishRecovery
    <3>1. phase # "resuming"
      BY <2>3 DEF ReadBatch, PushBatch, FinishDraining, SealExpired, AdvanceCheckpoint,
                  ReclaimDeferred, ResetCheckpoint
    <3>2. QED
      BY <1>1, <1>2, <1>3, <3>1 DEF Settled
  <2>4. QED
    BY <2>1, <2>2, <2>3
<1>4. Decisions'
  BY <1>1, <1>3, LocalDecisions
<1>5. QED
  BY <1>1, <1>4, LocalDiscipline DEF Discipline

\* No output is found with rows that do not fit.
LEMMA NotCorrupt ==
    ASSUME TypeOK, RowsPaired, NEW o \in Object
    PROVE  OutputState(o) # "CORRUPT"
<1>1. CASE o \in Segment
  BY <1>1 DEF TypeOK, SegmentStates, RowsPaired, OutputState, IngestionOutputState
<1>2. CASE o \notin Segment
  BY <1>2 DEF OutputState, DeadLetterOutputState
<1>3. QED
  BY <1>1, <1>2

\* recovery_disposition gives up exactly the outputs that cannot be published.
LEMMA Disposition ==
    ASSUME TypeOK, RowsPaired, NEW o \in Object, o \in staged => OutputState(o) # "ABANDONED"
    PROVE  /\ Rebuilds(o) => Dead(o) \/ (OutputState(o) = "PLANNED" /\ o \notin staged)
           /\ ~Rebuilds(o) => Publishable(o)
<1>1. OutputState(o) # "CORRUPT"
  BY NotCorrupt
<1>2. QED
  BY <1>1 DEF Rebuilds, Dead, Publishable

\* Recovery decides about one record.
LEMMA ResolveDiscipline ==
    ASSUME DisciplineInvariant, ResolveRecord
    PROVE  Discipline'
<1> USE DEF DisciplineInvariant, DeliveryInvariant
<1>1. /\ UNCHANGED <<vars, log, spool, appended, staged>> /\ phase = "resolving"
      /\ phase' = "resolving" /\ cursor' = cursor + 1 /\ cursor \in 1..Len(log)
      /\ dropped' \subseteq dropped \cup {cursor} /\ dropped \subseteq dropped'
      /\ cursor \in dropped' => cursor \in dropped \/ Rebuilds(log[cursor].output)
      /\ cursor \notin dropped' => ~Rebuilds(log[cursor].output)
  BY DEF ResolveRecord, diskVars, IngestionTypeOK
<1>2. /\ UNCHANGED <<segState, objState, producer, bytes, batchOf, published>>
      /\ \A o : OutputState(o)' = OutputState(o)
  BY <1>1, LocalStates
<1>3. \A o : (Dead(o) => Dead(o)') /\ (Publishable(o) => Publishable(o)')
  BY <1>1, <1>2 DEF Dead, Publishable
<1>4. PICK p \in Object : p = log[cursor].output
  BY <1>1, RecordTypes
<1>5. /\ Rebuilds(p) => Dead(p) \/ (OutputState(p) = "PLANNED" /\ p \notin staged)
      /\ ~Rebuilds(p) => Publishable(p)
  BY Disposition DEF Decisions, IngestionTypeOK
<1>6. ASSUME NEW i \in dropped', NEW o, o = log[i].output
      PROVE  Dead(o)' \/ (OutputState(o)' = "PLANNED" /\ o \notin staged)
  <2>1. CASE i \in dropped
    <3>1. Dead(o) \/ (OutputState(o) = "PLANNED" /\ o \notin staged)
      BY <1>6, <2>1 DEF Decisions
    <3>2. QED
      BY <1>2, <1>3, <3>1
  <2>2. CASE i \notin dropped
    BY <1>1, <1>2, <1>3, <1>4, <1>5, <1>6, <2>2
  <2>3. QED
    BY <2>1, <2>2
<1>7. ASSUME NEW i \in Kept', i < cursor', NEW o, o = log[i].output
      PROVE  Publishable(o)'
  <2>1. i \in Kept /\ i \in 1..Len(log) /\ i \notin dropped'
    BY <1>1, <1>7 DEF Kept
  <2>2. CASE i = cursor
    BY <1>1, <1>3, <1>4, <1>5, <1>7, <2>1, <2>2
  <2>3. CASE i # cursor
    <3>1. i < cursor
      BY <1>1, <1>7, <2>1, <2>3 DEF IngestionTypeOK
    <3>2. QED
      BY <1>3, <1>7, <2>1, <3>1 DEF Decisions
  <2>4. QED
    BY <2>2, <2>3
<1>8. \A o \in staged' : /\ o \in LogOutputs'
                         /\ OutputState(o)' # "ABANDONED" /\ objState'[o] # "REMOVED"
  BY <1>1, <1>2 DEF Decisions, LogOutputs
<1>9. \A i \in 1..Len(log) : ~Settled(i)'
  BY <1>1 DEF Settled
<1>10. Decisions'
  BY <1>1, <1>6, <1>7, <1>8, <1>9 DEF Decisions
<1>11. QED
  BY <1>1, <1>10, LocalDiscipline DEF Discipline

\* A restart forgets what recovery decided, and may lose staged files.
LEMMA RestartDiscipline ==
    ASSUME DisciplineInvariant, Restart
    PROVE  Discipline'
<1> USE DEF DisciplineInvariant, DeliveryInvariant
<1>1. /\ UNCHANGED <<vars, log, spool, appended>> /\ staged' \subseteq staged
      /\ phase' = "resolving" /\ cursor' = 1 /\ dropped' = {} /\ log \in Seq(OutputRecoveryRecord)
  BY DEF Restart, IngestionTypeOK
<1>2. /\ UNCHANGED <<segState, objState, producer, bytes, batchOf, published>>
      /\ \A o : OutputState(o)' = OutputState(o)
  BY <1>1, LocalStates
<1>3. \A o \in staged' : /\ o \in LogOutputs'
                         /\ OutputState(o)' # "ABANDONED" /\ objState'[o] # "REMOVED"
  BY <1>1, <1>2 DEF Decisions, LogOutputs
<1>4. \A i \in 1..Len(log) : ~Settled(i)' /\ ~(i < cursor')
  <2>1. \A i \in 1..Len(log) : ~Settled(i)'
    BY <1>1 DEF Settled
  <2>2. \A i \in 1..Len(log) : ~(i < cursor')
    BY <1>1
  <2>3. QED
    BY <2>1, <2>2
<1>5. Decisions'
  BY <1>1, <1>3, <1>4 DEF Decisions, Kept
<1>6. QED
  BY <1>1, <1>5, LocalDiscipline DEF Discipline

\* The worker is done with an output.
LEMMA FinishDiscipline ==
    ASSUME DisciplineInvariant, FinishOutput
    PROVE  Discipline'
<1> USE DEF DisciplineInvariant, DeliveryInvariant
<1>1. PICK p : p = Output
  OBVIOUS
<1>2. /\ UNCHANGED <<vars, log, spool, appended, phase, dropped>> /\ staged' = staged \ {p}
      /\ OutputState(p) = "PUBLISHED" /\ Publishing
  BY <1>1 DEF FinishOutput
<1>3. /\ Current \in 1..Len(log) /\ Current \in Kept /\ p = log[Current].output
      /\ phase # "resolving"
  BY <1>1, <1>2, CurrentRecorded DEF Output, Publishing, Positions
<1>4. /\ UNCHANGED <<segState, objState, producer, bytes, batchOf, published>>
      /\ \A o : OutputState(o)' = OutputState(o)
  BY <1>2, LocalStates
<1>5. \A o : (Dead(o) => Dead(o)') /\ (Publishable(o) => Publishable(o)')
  BY <1>2, <1>4 DEF Dead, Publishable
<1>6. ASSUME NEW i \in 1..Len(log), Settled(i)' PROVE i = Current \/ Settled(i)
  <2>1. i \in Kept
    BY <1>2, <1>6 DEF Settled, Kept
  <2>2. CASE phase = "resuming"
    BY <1>2, <1>3, <1>6, <2>1, <2>2 DEF Settled, Current, FinishOutput, IngestionTypeOK, Positions
  <2>3. CASE phase # "resuming"
    BY <1>2, <1>3, <1>6, <2>1, <2>3 DEF Settled, Current
  <2>4. QED
    BY <2>2, <2>3
<1>7. \A o \in staged' : /\ o \in LogOutputs'
                         /\ OutputState(o)' # "ABANDONED" /\ objState'[o] # "REMOVED"
  BY <1>2, <1>4 DEF Decisions, LogOutputs
<1>8. \A i \in dropped : \A o \in {log[i].output} : Dead(o)'
  BY <1>3, <1>5 DEF Decisions
<1>9. \A i \in Kept : \A o \in {log[i].output} : Publishable(o)'
  BY <1>3, <1>5 DEF Decisions
<1>10. ASSUME NEW i \in 1..Len(log), Settled(i)', NEW o, o = log[i].output
       PROVE  OutputState(o)' = "PUBLISHED" /\ o \notin staged'
  BY <1>2, <1>3, <1>4, <1>6, <1>10 DEF Decisions
<1>11. Kept' = Kept
  BY <1>2 DEF Kept
<1>12. Decisions'
  BY <1>2, <1>3, <1>7, <1>8, <1>9, <1>10, <1>11 DEF Decisions
<1>13. QED
  BY <1>2, <1>3, <1>12, LocalDiscipline DEF Discipline

\* A new batch has nothing in common with what was appended before.
LEMMA AppendDiscipline ==
    ASSUME DisciplineInvariant, NEW b \in Batch, AppendBatch(b)
    PROVE  Discipline'
<1> USE DEF DisciplineInvariant, DeliveryInvariant
<1>1. /\ UNCHANGED <<vars, log, staged, phase, cursor, dropped, publishing>>
      /\ spool' = Append(spool, b) /\ appended' = appended \cup {b} /\ b \notin appended
      /\ phase # "resolving" /\ spool \in Seq(Batch) /\ appended \in SUBSET Batch
  BY DEF AppendBatch, workerVars, IngestionTypeOK
<1>2. /\ UNCHANGED <<segState, objState, producer, bytes, batchOf, published>>
      /\ \A o : OutputState(o)' = OutputState(o)
  BY <1>1, LocalStates
<1>3. \A o : Dead(o)' = Dead(o) /\ Open(o)' = Open(o)
  BY <1>1, <1>2 DEF Dead, Open
<1>4. Decisions'
  <2>1. \A i \in 1..Len(log) : Settled(i)' => Settled(i)
    BY <1>1 DEF Settled, Kept
  <2>2. QED
    BY <1>1, <2>1, LocalDecisions
<1>5. LogOutputs' = LogOutputs /\ LogItems' = LogItems
  BY <1>1 DEF LogOutputs, LogItems
<1>6. SpoolItems' = SpoolItems \cup Items(b)
  <2>1. /\ Len(spool') = Len(spool) + 1 /\ Len(spool) \in Nat
        /\ \A k \in 1..Len(spool) : spool'[k] = spool[k]
        /\ spool'[Len(spool) + 1] = b
    BY <1>1
  <2>2. \A k \in 1..Len(spool') : k \in 1..Len(spool) \/ k = Len(spool) + 1
    BY <2>1
  <2>3. \A k \in 1..Len(spool) : k \in 1..Len(spool')
    BY <2>1
  <2>4. Len(spool) + 1 \in 1..Len(spool')
    BY <2>1
  <2>5. QED
    BY <2>1, <2>2, <2>3, <2>4 DEF SpoolItems, Items
<1>7. (UNION {Items(c) : c \in appended})' = (UNION {Items(c) : c \in appended}) \cup Items(b)
  BY <1>1 DEF Items
<1>8. Items(b) \cap UNION {Items(c) : c \in appended} = {}
  BY <1>1, ItemsDisjoint
<1>9. OneOpen'
  BY <1>2, <1>3, <1>5 DEF OneOpen
<1>10. \A i \in 1..Len(log) : \A o \in {log[i].output} :
          /\ Dead(o) => Dead(log[i].output)'
          /\ OutputState(o) = "PUBLISHED" => OutputState(log[i].output)' = "PUBLISHED"
  BY <1>1, <1>2, <1>3
<1>11. Rebuilt'
  BY <1>1, <1>10 DEF Rebuilt
<1>12. /\ published \cap Items(b) = {} /\ LogItems \cap Items(b) = {}
       /\ published \cup LogItems \cup SpoolItems \subseteq UNION {Items(c) : c \in appended}
  BY <1>8 DEF Replayed
<1>13. Replayed'
  <2>1. \A x \in published' \cap SpoolItems' : \E i \in 1..Len(log') :
           x \in log'[i].items /\ OutputState(log[i].output)' = "PUBLISHED"
    BY <1>1, <1>2, <1>6, <1>10, <1>12 DEF Replayed
  <2>2. \A i \in 1..Len(log') : \/ log'[i].items \subseteq SpoolItems'
                                \/ OutputState(log[i].output)' = "PUBLISHED"
                                \/ Dead(log[i].output)'
    BY <1>1, <1>6, <1>10 DEF Replayed
  <2>3. phase' = "truncated" => LogItems' \cap SpoolItems' = {}
    BY <1>1, <1>5, <1>6, <1>12 DEF Replayed
  <2>4. published' \cup LogItems' \cup SpoolItems' \subseteq (UNION {Items(c) : c \in appended})'
    BY <1>2, <1>5, <1>6, <1>7, <1>12
  <2>5. QED
    BY <2>1, <2>2, <2>3, <2>4 DEF Replayed
<1>14. LettersApart'
  <2>1. ASSUME NEW d \in DeadLetter, batchOf[d] \in appended PROVE batchOf[d] \notin Items(b)
    <3>1. Accepted[b] \subseteq Row /\ batchOf[d] \in Batch /\ batchOf[d] \notin Row
      BY <1>1, <2>1, BatchAssumption
    <3>2. QED
      BY <1>1, <2>1, <3>1 DEF Items
  <2>2. QED
    BY <1>1, <1>2, <1>5, <1>6, <2>1 DEF LettersApart
<1>15. QED
  BY <1>4, <1>9, <1>11, <1>13, <1>14 DEF Discipline

\* A new identity is not registered.
LEMMA FreshState ==
    ASSUME Publications, NEW o \in Object, Fresh(o)
    PROVE  OutputState(o) = "UNREGISTERED" /\ o \notin LogOutputs /\ o \notin staged
<1>1. objState[o] = "NONE" /\ o \notin staged /\ o \notin LogOutputs
  BY DEF Fresh, LogOutputs
<1>2. o \in Segment => segState[o] = "NONE"
  BY <1>1 DEF Publications
<1>3. QED
  BY <1>1, <1>2 DEF OutputState, IngestionOutputState, DeadLetterOutputState

\* A new output is staged and recorded while no other is open, for what no
\* output of this incarnation covers.
LEMMA StageDiscipline ==
    ASSUME DisciplineInvariant, NEW o \in Object, NEW I \in SUBSET (Row \cup Batch),
           CoverageEnd(I) \in Nat, StageAndRecord(o, I),
           UNCHANGED <<vars, spool, dropped, appended>>, ~publishing,
           phase \notin {"resolving", "resuming"},
           phase' \notin {"resolving", "resuming", "truncated"},
           I \cap Covered = {}, I \subseteq SpoolItems
    PROVE  Discipline'
<1> USE DEF DisciplineInvariant, DeliveryInvariant
<1> DEFINE N == Len(log) + 1
<1>1. /\ Len(log') = N /\ Len(log) \in Nat
      /\ \A i \in 1..Len(log) : log'[i] = log[i]
      /\ log'[N].output = o /\ log'[N].items = I
      /\ Kept' = Kept \cup {N}
  BY Staging
<1>2. Fresh(o) /\ staged' = staged \cup {o} /\ publishing' = TRUE
  BY DEF StageAndRecord
<1>3. OutputState(o) = "UNREGISTERED" /\ o \notin LogOutputs /\ objState[o] = "NONE"
  BY <1>2, FreshState DEF Fresh
<1>4. /\ UNCHANGED <<segState, objState, producer, bytes, batchOf, published>>
      /\ \A p : OutputState(p)' = OutputState(p)
  BY LocalStates
<1>5. \A i \in 1..N : i \in 1..Len(log) \/ i = N
  BY <1>1
<1>6. N \in 1..N /\ \A i \in 1..Len(log) : i \in 1..N /\ i # N /\ i < N /\ ~(N < i)
  BY <1>1
<1> HIDE DEF N
<1>7. LogOutputs' = LogOutputs \cup {o} /\ LogItems' = LogItems \cup I
  BY <1>1, <1>5, <1>6 DEF LogOutputs, LogItems
<1>8. ASSUME NEW i \in 1..Len(log), NEW p, p = log[i].output
      PROVE  /\ p # o /\ p \notin staged' /\ Dead(p)' = Dead(p)
             /\ OutputState(p)' = "PUBLISHED" \/ Dead(p)'
             /\ i \in dropped => Dead(p)'
  <2>1. p \in LogOutputs /\ p # o
    BY <1>3, <1>8 DEF LogOutputs
  <2>2. p \notin staged /\ (OutputState(p) = "PUBLISHED" \/ Dead(p))
    BY <1>8, Concluded
  <2>3. Dead(p)' = Dead(p)
    BY <1>2, <1>4, <2>1 DEF Dead
  <2>4. i \in dropped => Dead(p)
    BY <1>8 DEF Decisions
  <2>5. QED
    BY <1>2, <1>4, <2>1, <2>2, <2>3, <2>4
<1>9. \A p \in LogOutputs : ~Open(p)'
  <2>1. SUFFICES ASSUME NEW i \in 1..Len(log), NEW p, p = log[i].output PROVE ~Open(p)'
    BY DEF LogOutputs
  <2>2. QED
    BY <1>8, <2>1 DEF Open, Dead
<1>10. OneOpen'
  BY <1>4, <1>7, <1>9 DEF OneOpen
<1>11. Decisions'
  <2>1. \A p \in staged' : /\ p \in LogOutputs'
                           /\ OutputState(p)' # "ABANDONED" /\ objState'[p] # "REMOVED"
    BY <1>2, <1>3, <1>4, <1>7 DEF Decisions
  <2>2. \A i \in dropped' : Dead(log[i].output)'
    <3>1. \A i \in dropped : i \in 1..Len(log)
      BY DEF IngestionTypeOK
    <3>2. QED
      BY <1>1, <1>8, <3>1
  <2>3. \A i \in Kept' : \A p \in {log'[i].output} : Publishable(p)'
    <3>1. Publishable(o)'
      BY <1>2, <1>3, <1>4 DEF Publishable
    <3>2. ASSUME NEW i \in Kept, NEW p, p = log[i].output PROVE Publishable(p)'
      <4>1. Publishable(p)
        BY <3>2 DEF Decisions
      <4>2. QED
        BY <1>2, <1>4, <4>1 DEF Publishable
    <3>3. QED
      BY <1>1, <3>1, <3>2 DEF Kept
  <2>4. ASSUME NEW i \in 1..N, Settled(i)', NEW p, p = log'[i].output
        PROVE  OutputState(p)' = "PUBLISHED" /\ p \notin staged'
    <3>1. i \in 1..Len(log) /\ i \in Kept
      BY <1>1, <1>2, <1>5, <2>4 DEF Settled, Kept
    <3>2. Settled(i)
      BY <3>1 DEF Settled
    <3>3. OutputState(log[i].output) = "PUBLISHED"
      BY <3>1, <3>2 DEF Decisions
    <3>4. QED
      BY <1>1, <1>4, <1>8, <2>4, <3>1, <3>3
  <2>5. QED
    BY <1>1, <2>1, <2>2, <2>3, <2>4 DEF Decisions
<1>12. Rebuilt'
  <2>1. ASSUME NEW i \in 1..N, NEW j \in 1..N, i < j, log'[i].items \cap log'[j].items # {}
        PROVE  Dead(log[i].output)'
    <3>1. i \in 1..Len(log) /\ log'[i] = log[i]
      BY <1>1, <1>5, <1>6, <2>1
    <3>2. CASE j \in 1..Len(log)
      <4>1. Dead(log[i].output)
        BY <1>1, <2>1, <3>1, <3>2 DEF Rebuilt
      <4>2. QED
        BY <1>8, <3>1, <4>1
    <3>3. CASE j = N
      <4>1. i \in dropped
        BY <1>1, <2>1, <3>1, <3>3 DEF Covered, Kept
      <4>2. QED
        BY <1>8, <3>1, <4>1
    <3>4. QED
      BY <1>5, <3>2, <3>3
  <2>2. QED
    BY <1>1, <2>1 DEF Rebuilt
<1>13. SpoolItems' = SpoolItems
       /\ (UNION {Items(b) : b \in appended})' = UNION {Items(b) : b \in appended}
  BY DEF SpoolItems, Items
<1>14. Replayed'
  <2>1. \A i \in 1..Len(log) : OutputState(log[i].output)' = OutputState(log[i].output)
    BY <1>1, <1>4
  <2>2. \A x \in published' \cap SpoolItems' : \E i \in 1..Len(log') :
           x \in log'[i].items /\ OutputState(log[i].output)' = "PUBLISHED"
    <3> SUFFICES ASSUME NEW x \in published \cap SpoolItems
                 PROVE  \E i \in 1..N : x \in log'[i].items /\ OutputState(log[i].output)' = "PUBLISHED"
      BY <1>1, <1>4, <1>13
    <3>1. PICK i \in 1..Len(log) : x \in log[i].items /\ OutputState(log[i].output) = "PUBLISHED"
      BY DEF Replayed
    <3>2. QED
      BY <1>1, <1>6, <2>1, <3>1
  <2>3. ASSUME NEW i \in 1..N
        PROVE  \/ log'[i].items \subseteq SpoolItems'
               \/ OutputState(log[i].output)' = "PUBLISHED"
               \/ Dead(log[i].output)'
    BY <1>1, <1>5, <1>8, <1>13
  <2>4. published' \cup LogItems' \cup SpoolItems' \subseteq (UNION {Items(b) : b \in appended})'
    BY <1>4, <1>7, <1>13 DEF Replayed
  <2>5. QED
    BY <1>1, <2>2, <2>3, <2>4 DEF Replayed
<1>15. LettersApart'
  BY <1>4, <1>7, <1>13 DEF LettersApart
<1>16. QED
  BY <1>10, <1>11, <1>12, <1>14, <1>15 DEF Discipline

\* The two callers of stage_output.
LEMMA StagesDiscipline ==
    ASSUME DisciplineInvariant,
           \/ \E d \in DeadLetter : StageDeadLetter(d)
           \/ \E s \in Segment, R \in SUBSET Row : DrainSealedSegment(s, R)
    PROVE  Discipline'
<1>1. IngestionTypeOK /\ Positions /\ Built
  BY DEF DisciplineInvariant, DeliveryInvariant
<1>2. \A k \in 1..read : phase \in {"letter", "pushing", "draining"} => k \in 1..Len(spool)
  BY <1>1 DEF IngestionTypeOK, Positions
<1>3. ASSUME NEW d \in DeadLetter, StageDeadLetter(d) PROVE Discipline'
  <2>1. /\ phase = "letter" /\ phase' = "draining" /\ StageAndRecord(d, {spool[read]})
        /\ UNCHANGED <<vars, spool, dropped, appended>>
    BY <1>3 DEF StageDeadLetter
  <2>2. ~publishing
    BY <1>1, <2>1 DEF Positions
  <2>3. spool[read] \in Batch /\ CoverageEnd({spool[read]}) \in Nat
    BY <1>1, <2>1, StagedItems
  <2>4. read \in 1..read
    <3>1. read \in Nat /\ checkpoint \in Nat /\ checkpoint < read
      BY <1>1, <2>1 DEF IngestionTypeOK, Positions
    <3>2. QED
      BY <3>1
  <2>5. read \in 1..Len(spool) /\ spool[read] \in Rejected \ Covered
    BY <1>1, <1>2, <2>1, <2>4 DEF Built
  <2>6. {spool[read]} \subseteq SpoolItems /\ {spool[read]} \cap Covered = {}
    BY <2>5 DEF SpoolItems, Items
  <2>7. d \in Object /\ {spool[read]} \in SUBSET (Row \cup Batch)
    BY <2>3 DEF Object
  <2>8. QED
    BY <2>1, <2>2, <2>3, <2>6, <2>7, StageDiscipline
<1>4. ASSUME NEW s \in Segment, NEW R \in SUBSET Row, DrainSealedSegment(s, R) PROVE Discipline'
  <2>1. /\ phase \in {"pushing", "draining"} /\ phase' = phase /\ StageAndRecord(s, R)
        /\ ~publishing /\ R # {} /\ R \in SUBSET building
        /\ UNCHANGED <<vars, spool, dropped, appended>>
    BY <1>4 DEF DrainSealedSegment
  <2>2. CoverageEnd(R) \in Nat
    BY <1>1, <2>1, StagedItems
  <2>3. R \cap Covered = {}
    BY <1>1, <2>1 DEF Built
  <2>4. R \subseteq SpoolItems
    <3> SUFFICES ASSUME NEW x \in R PROVE x \in SpoolItems
      OBVIOUS
    <3>1. PICK k \in (checkpoint + 1)..read : x \in Accepted[spool[k]]
      BY <1>1, <2>1 DEF Built
    <3>2. k \in 1..Len(spool)
      <4>1. /\ checkpoint \in Nat /\ read \in Nat /\ Len(spool) \in Nat
            /\ read <= Len(spool)
        BY <1>1, <2>1 DEF IngestionTypeOK, Positions
      <4>2. QED
        BY <4>1
    <3>3. QED
      BY <3>1, <3>2 DEF SpoolItems, Items
  <2>5. s \in Object /\ R \in SUBSET (Row \cup Batch)
    BY DEF Object
  <2>6. QED
    BY <2>1, <2>2, <2>3, <2>4, <2>5, StageDiscipline
<1>5. QED
  BY <1>3, <1>4

\* The spool is truncated when every output of the log is published or lost.
LEMMA TruncateDiscipline ==
    ASSUME DisciplineInvariant, TruncateSpool
    PROVE  Discipline'
<1> USE DEF DisciplineInvariant, DeliveryInvariant
<1>1. /\ UNCHANGED <<vars, log, staged, dropped, publishing, appended>> /\ spool' = <<>>
      /\ phase = "resetting" /\ phase' = "truncated"
  BY DEF TruncateSpool
<1>2. ~publishing
  BY <1>1 DEF Positions
<1>3. /\ UNCHANGED <<segState, objState, producer, bytes, batchOf, published>>
      /\ \A o : OutputState(o)' = OutputState(o)
  BY <1>1, LocalStates
<1>4. \A o : Dead(o)' = Dead(o) /\ Open(o)' = Open(o)
  BY <1>1, <1>3 DEF Dead, Open
<1>5. Decisions'
  BY <1>1, LocalDecisions DEF Settled, Kept
<1>6. /\ LogOutputs' = LogOutputs /\ LogItems' = LogItems /\ SpoolItems' = {}
      /\ (UNION {Items(c) : c \in appended})' = UNION {Items(c) : c \in appended}
  BY <1>1 DEF LogOutputs, LogItems, SpoolItems, Items
<1>7. OneOpen'
  BY <1>3, <1>4, <1>6 DEF OneOpen
<1>8. \A i \in 1..Len(log) : \A o \in {log[i].output} :
          /\ Dead(o) => Dead(log[i].output)'
          /\ OutputState(o) = "PUBLISHED" => OutputState(log[i].output)' = "PUBLISHED"
          /\ Dead(o) \/ OutputState(o) = "PUBLISHED"
  BY <1>1, <1>2, <1>3, <1>4, Concluded
<1>9. Rebuilt'
  BY <1>1, <1>8 DEF Rebuilt
<1>10. Replayed'
  BY <1>1, <1>3, <1>6, <1>8 DEF Replayed
<1>11. LettersApart'
  BY <1>1, <1>3, <1>6 DEF LettersApart
<1>12. QED
  BY <1>5, <1>7, <1>9, <1>10, <1>11 DEF Discipline

\* The log is reclaimed when what it covers is not in the spool.
LEMMA ReclaimDiscipline ==
    ASSUME DisciplineInvariant, ReclaimLog
    PROVE  Discipline'
<1> USE DEF DisciplineInvariant, DeliveryInvariant
<1>1. /\ UNCHANGED <<vars, spool, staged, publishing, appended>> /\ log' = <<>> /\ dropped' = {}
      /\ phase = "truncated" /\ phase' = "waiting"
  BY DEF ReclaimLog
<1>2. ~publishing
  BY <1>1 DEF Positions
<1>3. /\ UNCHANGED <<segState, objState, producer, bytes, batchOf, published>>
      /\ \A o : OutputState(o)' = OutputState(o)
  BY <1>1, LocalStates
<1>4. \A o \in LogOutputs : o \notin staged /\ ~(OutputState(o) \in {"PLANNED", "UPLOADED"})
  <2>1. SUFFICES ASSUME NEW i \in 1..Len(log), NEW o, o = log[i].output
                 PROVE  o \notin staged /\ ~(OutputState(o) \in {"PLANNED", "UPLOADED"})
    BY DEF LogOutputs
  <2>2. o \notin staged /\ (OutputState(o) = "PUBLISHED" \/ Dead(o))
    BY <1>1, <1>2, <2>1, Concluded
  <2>3. QED
    BY <2>2 DEF Dead
<1>5. staged = {}
  BY <1>4 DEF Decisions
<1>6. \A o \in Object : ~(OutputState(o) \in {"PLANNED", "UPLOADED"})
  BY <1>4 DEF OneOpen
<1>7. /\ LogOutputs' = {} /\ LogItems' = {} /\ SpoolItems' = SpoolItems /\ Kept' = {}
      /\ 1..Len(log') = {}
      /\ (UNION {Items(c) : c \in appended})' = UNION {Items(c) : c \in appended}
  <2>1. 1..Len(log') = {}
    BY <1>1
  <2>2. LogOutputs' = {} /\ LogItems' = {} /\ Kept' = {}
    BY <1>1, <2>1 DEF LogOutputs, LogItems, Kept
  <2>3. SpoolItems' = SpoolItems
    BY <1>1 DEF SpoolItems, Items
  <2>4. (UNION {Items(c) : c \in appended})' = UNION {Items(c) : c \in appended}
    BY <1>1 DEF Items
  <2>5. QED
    BY <2>1, <2>2, <2>3, <2>4
<1>8. Decisions'
  BY <1>1, <1>5, <1>7 DEF Decisions
<1>9. OneOpen'
  BY <1>3, <1>6, <1>7 DEF OneOpen
<1>10. Rebuilt'
  BY <1>7 DEF Rebuilt
<1>11. LogItems \cap SpoolItems = {}
  BY <1>1 DEF Replayed
<1>12. Replayed'
  <2>1. published \cap SpoolItems = {}
    BY <1>11 DEF Replayed, LogItems
  <2>2. published \cup SpoolItems \subseteq UNION {Items(c) : c \in appended}
    BY DEF Replayed
  <2>3. QED
    BY <1>1, <1>3, <1>7, <2>1, <2>2 DEF Replayed
<1>13. LettersApart'
  <2>1. ASSUME NEW d \in DeadLetter, objState[d] # "NONE", d \in LogOutputs
        PROVE  batchOf[d] \notin SpoolItems
    <3>1. PICK i \in 1..Len(log) : d = log[i].output
      BY <2>1 DEF LogOutputs
    <3>2. batchOf[d] \in log[i].items
      BY <2>1, <3>1, IdentityAssumption DEF Recorded, RecordMatches
    <3>3. QED
      BY <1>11, <3>2 DEF LogItems
  <2>2. QED
    BY <1>1, <1>3, <1>7, <2>1 DEF LettersApart
<1>14. QED
  BY <1>8, <1>9, <1>10, <1>12, <1>13 DEF Discipline

=============================================================================
