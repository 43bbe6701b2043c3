---------------------------- MODULE SpoolProofs ------------------------------
(***************************************************************************)
(* Proofs about Spool: for any number of concurrent requests, frames of    *)
(* any sizes, any number of I/O failures and crashes, an acknowledged      *)
(* batch is never lost, every crash leaves a recoverable file, the worker  *)
(* never plans a checkpoint that the spool refuses, and with serial        *)
(* announcements it is given every batch exactly once.                     *)
(***************************************************************************)
EXTENDS Spool, FiniteSetTheorems, TLAPS

\* Most leaves are first-order and set reasoning, which Zenon does at once; SMT
\* does the arithmetic.
USE ZenonT(3), SMTT(20)

Layers == FramesLaidOut /\ BytesAccounted /\ RequestsPlaced /\ CheckpointSound

-----------------------------------------------------------------------------
(* Reservations: reserved_bytes counts the requests that hold one.         *)

\* Only finitely many requests hold a reservation.
LEMMA HoldersFinite ==
    /\ IsFiniteSet(Holders) /\ Cardinality(Holders) \in Nat
    /\ MaxFrame * Cardinality(Holders) \in Nat
<1>1. Holders \subseteq Batch
  BY DEF Holders
<1>2. IsFiniteSet(Holders)
  BY <1>1, FS_Subset, SizeAssumption
<1>3. QED
  BY <1>2, FS_CardinalityType, SizeAssumption

\* release_reservation and commit_reservation never underflow.
LEMMA ReservedCovers ==
    ASSUME TypeOK, up, BytesAccounted, NEW b \in Holders
    PROVE  /\ reserved - MaxFrame \in Nat
           /\ reserved - MaxFrame = MaxFrame * Cardinality(Holders \ {b})
<1>1. IsFiniteSet(Holders)
  BY HoldersFinite
<1>2. /\ IsFiniteSet(Holders \ {b})
      /\ Cardinality(Holders \ {b}) = Cardinality(Holders) - 1
  BY <1>1, FS_RemoveElement
<1>3. Cardinality(Holders \ {b}) \in Nat /\ Cardinality(Holders) \in Nat
  BY <1>1, <1>2, FS_CardinalityType
<1>4. reserved = MaxFrame * Cardinality(Holders)
  BY DEF BytesAccounted
<1>5. \A n \in Nat : MaxFrame * (n + 1) = MaxFrame * n + MaxFrame /\ MaxFrame * n \in Nat
  BY SizeAssumption
<1>6. Cardinality(Holders) = Cardinality(Holders \ {b}) + 1
  BY <1>2, <1>3
<1> DEFINE n == Cardinality(Holders \ {b})
<1>7. reserved = MaxFrame * n + MaxFrame /\ MaxFrame * n \in Nat
  BY <1>3, <1>4, <1>5, <1>6
<1> HIDE DEF n
<1>8. MaxFrame \in Nat
  BY SizeAssumption
<1>9. reserved - MaxFrame = MaxFrame * n /\ reserved - MaxFrame \in Nat
  BY <1>7, <1>8
<1>10. QED
  BY <1>9 DEF n

-----------------------------------------------------------------------------
(* Types.                                                                  *)

\* The next frame, and what an interrupted write leaves of it, are frames.
LEMMA NextFrameType ==
    ASSUME TypeOK, NEW b \in Batch
    PROVE  /\ NextFrame(b) \in Frame /\ fileEnd + Size[b] \in Nat
           /\ PartialWrite(b) => frames' \in SUBSET Frame /\ fileEnd' \in Nat
<1>1. Size[b] \in Nat
  BY SizeAssumption
<1>2. NextFrame(b) \in Frame /\ fileEnd + Size[b] \in Nat
  BY <1>1 DEF NextFrame, Frame, TypeOK
<1>3. PartialWrite(b) => frames' \in SUBSET Frame /\ fileEnd' \in Nat
  BY <1>1, <1>2 DEF PartialWrite, TypeOK
<1>4. QED
  BY <1>2, <1>3

\* Any step keeps the types: in particular no counter goes below zero, although
\* the reservation is released by several paths.
LEMMA TypeStep == TypeOK /\ Layers /\ [Next]_vars => TypeOK'
<1> SUFFICES ASSUME TypeOK, Layers, [Next]_vars PROVE TypeOK'
  OBVIOUS
<1> USE SizeAssumption DEF Move, accountVars, diskVars, appendVars, workerVars
<1>0. MaxFrame \in Nat
  OBVIOUS
<1>1. ASSUME NEW b \in Batch, Append(b)
      PROVE  TypeOK'
  <2>1. CASE Reserve(b)
    BY <1>0, <2>1 DEF Reserve, TypeOK, Steps
  <2>2. pc[b] \in {"reserved", "written"} /\ up => reserved - MaxFrame \in Nat
    BY ReservedCovers DEF Layers, Holders
  <2>3. CASE Release(b)
    BY <2>2, <2>3 DEF Release, TypeOK, Steps
  <2>4. CASE WriteFrame(b)
    BY <2>4, NextFrameType DEF WriteFrame, TypeOK, Steps
  <2>5. CASE WriteFails(b)
    BY <2>2, <2>5, NextFrameType DEF WriteFails, TypeOK, Steps
  <2>6. CASE AppendRefused(b)
    BY <2>2, <2>6 DEF AppendRefused, TypeOK, Steps
  <2>7. CASE CommitReservation(b)
    <3>1. committed + Size[b] \in Nat
      BY DEF TypeOK
    <3>2. QED
      BY <2>2, <2>7, <3>1 DEF CommitReservation, TypeOK, Steps, Extent
  <2>8. CASE SendExtent(b)
    BY <2>8 DEF SendExtent, TypeOK, Steps, Extent, NoExtent
  <2>9. CASE Acknowledge(b)
    BY <2>9 DEF Acknowledge, TypeOK, Steps
  <2>10. QED
    BY <1>1, <2>1, <2>3, <2>4, <2>5, <2>6, <2>7, <2>8, <2>9 DEF Append
<1>2. ReadFrom \in Nat /\ ReadGeneration \in Nat
  BY DEF ReadFrom, ReadGeneration, Following, TypeOK, Extent
<1>3. CASE DeliverBatch
  <2>1. PICK f \in FrameToRead :
          /\ reader' = [reader EXCEPT !.position = f.end, !.generation = ReadGeneration]
          /\ pending' = pending \cup {f.batch}
          /\ worker' = IF f.batch \in pending THEN "duplicate" ELSE "reading"
    BY <1>3 DEF DeliverBatch
  <2>2. f.batch \in Batch /\ f.end \in Nat
    BY DEF FrameToRead, TypeOK, Frame
  <2>3. QED
    BY <1>2, <1>3, <2>1, <2>2 DEF DeliverBatch, TypeOK, Stopped
<1>4. CASE ReadFails
  BY <1>4 DEF ReadFails, TypeOK, Stopped
<1>5. CASE SegmentExpiration
  BY <1>5 DEF SegmentExpiration, TypeOK
<1>6. ASSUME NEW b \in Batch, Complete(b)
      PROVE  TypeOK'
  BY <1>6 DEF Complete, TypeOK
<1>7. NoMoreBatches => reader' \in [state : {"recovery", "following", "failed"}, position : Nat,
                                    end : Nat, generation : Nat]
  BY <1>2 DEF NoMoreBatches, TypeOK
<1>8. PlanTargets \subseteq Nat
  BY DEF PlanTargets, TypeOK, Frame
<1>9. CASE NothingToCheckpoint
  BY <1>7, <1>9 DEF NothingToCheckpoint, TypeOK
<1>10. CASE AdvanceCheckpoint
  <2>1. PICK target \in PlanTargets :
          /\ checkpoint' = target
          /\ pending' = pending \ Covered(target)
          /\ IF Cardinality(Covered(target)) <= backlog
             THEN worker' = "advanced" /\ backlog' = backlog - Cardinality(Covered(target))
             ELSE worker' = "underflow" /\ UNCHANGED backlog
    BY <1>10 DEF AdvanceCheckpoint
  <2>2. Covered(target) \subseteq Batch
    BY DEF Covered, TypeOK
  <2>3. Cardinality(Covered(target)) \in Nat
    BY <2>2, FS_Subset, FS_CardinalityType
  <2>4. backlog' \in Nat /\ worker' \in {"advanced", "underflow"}
    BY <2>1, <2>3 DEF TypeOK
  <2>5. checkpoint' \in Nat /\ pending' \in SUBSET Batch
    BY <1>8, <2>1 DEF TypeOK
  <2>6. QED
    BY <1>7, <1>10, <2>4, <2>5 DEF AdvanceCheckpoint, TypeOK, Stopped
<1>12. CASE LocalWriteFails
  BY <1>8, <1>12 DEF LocalWriteFails, TypeOK, Stopped
<1>13. CASE WorkerRefused
  BY <1>13 DEF WorkerRefused, TypeOK, Stopped
<1>14. CASE BeginReclaim
  BY <1>14 DEF BeginReclaim, TypeOK
<1>15. CASE ReclaimDeferred
  BY <1>15 DEF ReclaimDeferred, TypeOK
<1>16. CASE ResetCheckpoint
  BY <1>16 DEF ResetCheckpoint, TypeOK
<1>17. CASE Truncate
  BY <1>17 DEF Truncate, TypeOK
<1>18. CASE SendReclaimed
  BY <1>18 DEF SendReclaimed, TypeOK, Extent
<1>19. CASE Crash
  <2>1. frames' \in SUBSET Frame /\ fileEnd' \in Nat
    BY <1>19, NextFrameType DEF Crash, TypeOK
  <2>2. pc' \in [Batch -> Steps]
    BY <1>19 DEF Crash, TypeOK, Steps
  <2>3. /\ extent' \in Extent /\ local' \in [Batch -> Extent]
        /\ reader' \in [state : {"recovery", "following", "failed"}, position : Nat,
                       end : Nat, generation : Nat]
    BY <1>19 DEF Crash, NoExtent, Extent
  <2>4. /\ ~up' /\ ~failed' /\ worker' = "reading" /\ pending' = {}
        /\ committed' = 0 /\ reserved' = 0 /\ generation' = 0 /\ backlog' = 0
        /\ UNCHANGED <<checkpoint, completed>> /\ crashes' = crashes + 1
    BY <1>19 DEF Crash
  <2>5. /\ checkpoint' \in Nat /\ committed' \in Nat /\ reserved' \in Nat /\ generation' \in Nat
        /\ pending' \in SUBSET Batch /\ backlog' \in Nat /\ completed' \in SUBSET Batch
        /\ crashes' \in Nat
    BY <2>4 DEF TypeOK
  <2>6. up' \in BOOLEAN /\ failed' \in BOOLEAN
    BY <1>19 DEF Crash
  <2>7. QED
    BY <2>1, <2>2, <2>3, <2>4, <2>5, <2>6 DEF TypeOK
<1>20. CASE Recover
  <2>1. ScanEnd \in Nat
    BY TotalAssumption DEF ScanEnd, TypeOK, Frame
  <2>2. {f \in frames : f.start >= checkpoint} \subseteq frames /\ IsFiniteSet(frames)
    BY DEF Layers, FramesLaidOut
  <2>3. Cardinality({f \in frames : f.start >= checkpoint}) \in Nat
    BY <2>2, FS_Subset, FS_CardinalityType
  <2>4. QED
    BY <1>20, <2>1, <2>3 DEF Recover, TypeOK, Extent
<1>21. CASE UNCHANGED vars
  BY <1>21 DEF vars, TypeOK
<1> HIDE SizeAssumption DEF Move, accountVars, diskVars, appendVars, workerVars
<1>22. QED
  BY <1>1, <1>3, <1>4, <1>5, <1>6, <1>9, <1>10, <1>12, <1>13, <1>14, <1>15, <1>16,
     <1>17, <1>18, <1>19, <1>20, <1>21 DEF Next, Work

-----------------------------------------------------------------------------
(* The layers, one kind of step after the other.                           *)

\* Steps that leave the file, the checkpoint and the counters alone.
LEMMA QuietStep ==
    ASSUME TypeOK, Layers,
           UNCHANGED <<frames, fileEnd, checkpoint, up, failed, committed, reserved>>,
           completed \subseteq completed',
           \A b \in Batch : \/ pc'[b] = pc[b]
                            \/ /\ pc[b] \in {"accounted", "sent"}
                               /\ pc'[b] \in {"sent", "acked", "refused"},
           worker' = "resetting" => worker = "resetting",
           worker = "refused" => worker' = "refused"
    PROVE  Layers'
<1>1. InFile' = InFile /\ InFile \subseteq Batch
  BY DEF InFile, TypeOK, Frame
<1>2. Sound' = Sound /\ Accounted' = Accounted /\ Holders' = Holders
  <2>1. Sound' = Sound
    BY <1>1 DEF Sound
  <2>2. QED
    BY <1>1, <2>1 DEF Accounted, Sound, Holders
<1>3. \A p : Boundary(p)' = Boundary(p)
  BY DEF Boundary
<1>4. FramesLaidOut'
  BY <1>3 DEF Layers, FramesLaidOut
<1>5. BytesAccounted'
  BY <1>1, <1>2, <1>3 DEF Layers, BytesAccounted
<1>6. RequestsPlaced'
  <2>1. ~up => Admitted' = {}
    BY DEF Layers, RequestsPlaced, Admitted
  <2>2. QED
    BY <1>1, <2>1 DEF Layers, RequestsPlaced, Needed
<1>7. CheckpointSound'
  <2>1. \A f \in frames : f.batch \in Batch
    BY DEF TypeOK, Frame
  <2>2. QED
    BY <1>3, <2>1 DEF Layers, CheckpointSound, Needed
<1>8. QED
  BY <1>4, <1>5, <1>6, <1>7 DEF Layers

\* A frame appended at the end of the file keeps the layout.
LEMMA FrameAppended ==
    ASSUME TypeOK, Layers, up, ~failed, NEW b \in Batch, pc[b] = "reserved",
           frames' = frames \cup {NextFrame(b)}
    PROVE  /\ FramesLaidOut'
           /\ InFile' = InFile \cup {b} /\ InFile \in SUBSET Batch /\ b \notin InFile
           /\ Total[InFile]' = fileEnd + Size[b] /\ fileEnd = Total[InFile]
           /\ Boundary(Total[InFile])'
           /\ \A f \in frames' : f.end <= Total[InFile]'
           /\ \A p : Boundary(p) => Boundary(p)'
<1> DEFINE n == NextFrame(b)
<1>1. n.batch = b /\ n.start = fileEnd /\ n.end = fileEnd + Size[b] /\ n \in Frame
  BY NextFrameType DEF NextFrame
<1>2. InFile' = InFile \cup {b} /\ InFile \in SUBSET Batch
  BY <1>1 DEF InFile, TypeOK, Frame
<1>3. b \notin InFile /\ fileEnd = Total[InFile]
  BY DEF Layers, RequestsPlaced, BytesAccounted
<1>4. Total[InFile]' = fileEnd + Size[b]
  BY <1>2, <1>3, TotalAssumption
<1> HIDE DEF n
<1>5. \A f \in frames : f \in Frame /\ f.batch # b /\ f.end <= fileEnd
  BY <1>3 DEF Layers, BytesAccounted, InFile, TypeOK
<1>6. \A p : Boundary(p) => Boundary(p)'
  BY DEF Boundary
<1>7. /\ fileEnd = 0 \/ \E f \in frames' : f.end = fileEnd
      /\ \E f \in frames' : f.end = fileEnd + Size[b]
  <2>1. fileEnd = 0 \/ \E f \in frames : f.end = fileEnd
    BY <1>3 DEF Layers, BytesAccounted, Boundary
  <2>2. n \in frames'
    BY DEF n
  <2>3. QED
    BY <1>1, <2>1, <2>2
<1>8. Boundary(Total[InFile])'
  BY <1>4, <1>7 DEF Boundary
<1>9. \A f \in frames' : f \in frames \/ f = n
  BY DEF n
<1>10. \A f \in frames' : f.end <= Total[InFile]'
  <2>1. fileEnd \in Nat /\ Size[b] \in Nat
    BY SizeAssumption DEF TypeOK
  <2>2. \A f \in frames : f.end \in Nat /\ f.end <= fileEnd
    BY <1>5 DEF Frame
  <2>3. QED
    BY <1>1, <1>4, <1>9, <2>1, <2>2
<1>11. FramesLaidOut'
  <2>1. IsFiniteSet(frames')
    BY FS_AddElement DEF Layers, FramesLaidOut
  <2>2. \A f \in frames' : f.end = f.start + Size[f.batch]
    BY <1>1, <1>9 DEF Layers, FramesLaidOut
  <2>3. \A f \in frames' : f.start = 0 \/ \E g \in frames' : g.end = f.start
    BY <1>1, <1>7, <1>9 DEF Layers, FramesLaidOut, Boundary
  <2>4. \A f, g \in frames' : f # g => f.batch # g.batch /\ (f.end <= g.start \/ g.end <= f.start)
    BY <1>1, <1>5, <1>9 DEF Layers, FramesLaidOut
  <2>5. QED
    BY <2>1, <2>2, <2>3, <2>4 DEF FramesLaidOut, Boundary
<1>12. QED
  BY <1>2, <1>3, <1>4, <1>6, <1>8, <1>10, <1>11

\* One more request holds a reservation.
LEMMA ReservedGrows ==
    ASSUME NEW b \in Batch, b \notin Holders
    PROVE  MaxFrame * Cardinality(Holders \cup {b}) = MaxFrame * Cardinality(Holders) + MaxFrame
<1>1. Cardinality(Holders) \in Nat /\ Cardinality(Holders \cup {b}) = Cardinality(Holders) + 1
  BY HoldersFinite, FS_AddElement
<1>2. \A n \in Nat : MaxFrame * (n + 1) = MaxFrame * n + MaxFrame
  BY SizeAssumption
<1>3. QED
  BY <1>1, <1>2

\* reserve: a request takes a reservation.
LEMMA ReserveStep ==
    ASSUME TypeOK, Layers, NEW b \in Batch, Reserve(b)
    PROVE  Layers'
<1>1. /\ UNCHANGED <<frames, fileEnd, checkpoint, up, failed, committed, completed, worker>>
      /\ reserved' = reserved + MaxFrame /\ up /\ worker # "resetting"
      /\ pc[b] = "idle" /\ \A c \in Batch : pc'[c] = IF c = b THEN "reserved" ELSE pc[c]
  BY DEF Reserve, Move, diskVars, workerVars, TypeOK, LocksFree
<1>2. InFile' = InFile /\ InFile \subseteq Batch
  BY <1>1 DEF InFile, TypeOK, Frame
<1>3. b \notin InFile
  BY <1>1 DEF Layers, RequestsPlaced
<1>4. Sound' = Sound /\ Accounted' = Accounted
  <2>1. Sound' = Sound
    BY <1>1, <1>2 DEF Sound
  <2>2. QED
    BY <1>1, <1>2, <2>1 DEF Accounted, Sound
<1>5. Holders' = Holders \cup {b} /\ b \notin Holders
  BY <1>1 DEF Holders
<1>6. reserved' = MaxFrame * Cardinality(Holders')
  BY <1>1, <1>5, ReservedGrows DEF Layers, BytesAccounted
<1>7. \A p : Boundary(p)' = Boundary(p)
  BY <1>1 DEF Boundary
<1>8. FramesLaidOut'
  BY <1>1, <1>7 DEF Layers, FramesLaidOut
<1>9. BytesAccounted'
  BY <1>1, <1>2, <1>4, <1>6, <1>7 DEF Layers, BytesAccounted
<1>10. RequestsPlaced'
  BY <1>1, <1>2, <1>3 DEF Layers, RequestsPlaced, Needed
<1>11. CheckpointSound'
  BY <1>1, <1>7 DEF Layers, CheckpointSound
<1>12. QED
  BY <1>8, <1>9, <1>10, <1>11 DEF Layers

\* The reservation of a request that never wrote is released.
LEMMA ReleaseStep ==
    ASSUME TypeOK, Layers, NEW b \in Batch, Release(b) \/ AppendRefused(b)
    PROVE  Layers'
<1>1. /\ UNCHANGED <<frames, fileEnd, checkpoint, up, failed, committed, completed, worker>>
      /\ reserved' = reserved - MaxFrame /\ up /\ worker # "resetting"
      /\ pc[b] = "reserved" /\ \A c \in Batch : pc'[c] = IF c = b THEN "refused" ELSE pc[c]
  BY DEF Release, AppendRefused, Move, diskVars, workerVars, TypeOK, LocksFree
<1>2. InFile' = InFile /\ InFile \subseteq Batch
  BY <1>1 DEF InFile, TypeOK, Frame
<1>3. b \notin InFile
  BY <1>1 DEF Layers, RequestsPlaced
<1>4. Sound' = Sound /\ Accounted' = Accounted
  <2>1. Sound' = Sound
    BY <1>1, <1>2, <1>3 DEF Sound
  <2>2. QED
    BY <1>1, <1>2, <1>3, <2>1 DEF Accounted, Sound
<1>5. Holders' = Holders \ {b} /\ b \in Holders
  BY <1>1 DEF Holders
<1>6. reserved' = MaxFrame * Cardinality(Holders')
  BY <1>1, <1>5, ReservedCovers DEF Layers
<1>7. \A p : Boundary(p)' = Boundary(p)
  BY <1>1 DEF Boundary
<1>8. FramesLaidOut'
  BY <1>1, <1>7 DEF Layers, FramesLaidOut
<1>9. BytesAccounted'
  BY <1>1, <1>2, <1>4, <1>6, <1>7 DEF Layers, BytesAccounted
<1>10. RequestsPlaced'
  BY <1>1, <1>2, <1>3 DEF Layers, RequestsPlaced, Needed
<1>11. CheckpointSound'
  BY <1>1, <1>7 DEF Layers, CheckpointSound
<1>12. QED
  BY <1>8, <1>9, <1>10, <1>11 DEF Layers

\* write_frame: the frame is durable and not yet accounted for.
LEMMA WriteFrameStep ==
    ASSUME TypeOK, Layers, NEW b \in Batch, WriteFrame(b)
    PROVE  Layers'
<1>1. /\ UNCHANGED <<checkpoint, up, failed, committed, reserved, completed, worker>>
      /\ up /\ ~failed /\ worker # "resetting"
      /\ frames' = frames \cup {NextFrame(b)} /\ fileEnd' = fileEnd + Size[b]
      /\ pc[b] = "reserved" /\ \A c \in Batch : pc'[c] = IF c = b THEN "written" ELSE pc[c]
  BY DEF WriteFrame, Move, accountVars, workerVars, TypeOK, LocksFree
<1>2. /\ FramesLaidOut'
      /\ InFile' = InFile \cup {b} /\ InFile \in SUBSET Batch /\ b \notin InFile
      /\ Total[InFile]' = fileEnd + Size[b] /\ fileEnd = Total[InFile]
      /\ Boundary(Total[InFile])'
      /\ \A f \in frames' : f.end <= Total[InFile]'
      /\ \A p : Boundary(p) => Boundary(p)'
  BY <1>1, FrameAppended
<1>3. \A c \in Batch : pc[c] # "failed" /\ pc'[c] # "failed"
  BY <1>1 DEF Layers, BytesAccounted
<1>4. Sound' = InFile' /\ Accounted' = Accounted
  <2>1. Sound = InFile /\ Sound' = InFile'
    BY <1>2, <1>3 DEF Sound
  <2>2. QED
    BY <1>1, <1>2, <2>1 DEF Accounted
<1>5. Holders' = Holders
  BY <1>1 DEF Holders
<1>6. BytesAccounted'
  BY <1>1, <1>2, <1>3, <1>4, <1>5 DEF Layers, BytesAccounted
<1>7. RequestsPlaced'
  BY <1>1, <1>2 DEF Layers, RequestsPlaced, Needed
<1>8. CheckpointSound'
  <2>1. \A f \in frames' : f \in frames \/ f.start = fileEnd
    BY <1>1 DEF NextFrame
  <2>2. checkpoint <= fileEnd
    BY <1>2 DEF Layers, CheckpointSound, BytesAccounted, Boundary, TypeOK
  <2>3. \A f \in frames' : f.start < checkpoint => f.batch \in completed
    BY <2>1, <2>2 DEF Layers, CheckpointSound, TypeOK
  <2>4. QED
    BY <1>1, <1>2, <2>3 DEF Layers, CheckpointSound
<1>9. QED
  BY <1>2, <1>6, <1>7, <1>8 DEF Layers

\* A failed write may leave the whole frame: it is in the file, but never
\* accounted for, and stays last because nothing is written after it.
LEMMA WriteFailsStep ==
    ASSUME TypeOK, Layers, NEW b \in Batch, WriteFails(b)
    PROVE  Layers'
<1>1. /\ UNCHANGED <<checkpoint, up, committed, completed, worker>>
      /\ up /\ ~failed /\ failed' /\ worker # "resetting"
      /\ PartialWrite(b) /\ reserved' = reserved - MaxFrame
      /\ pc[b] = "reserved" /\ \A c \in Batch : pc'[c] = IF c = b THEN "failed" ELSE pc[c]
  BY DEF WriteFails, Move, workerVars, TypeOK, LocksFree
<1>2. InFile \in SUBSET Batch /\ b \notin InFile /\ \A c \in Batch : pc[c] # "failed"
  BY <1>1 DEF InFile, TypeOK, Frame, Layers, RequestsPlaced, BytesAccounted
<1>3. Sound = InFile
  BY <1>2 DEF Sound
<1>4. Holders' = Holders \ {b} /\ b \in Holders
  BY <1>1 DEF Holders
<1>5. reserved' = MaxFrame * Cardinality(Holders')
  BY <1>1, <1>4, ReservedCovers DEF Layers
<1>6. CASE frames' = frames
  <2>1. InFile' = InFile /\ \A p : Boundary(p)' = Boundary(p)
    BY <1>6 DEF InFile, Boundary
  <2>2. Sound' = Sound /\ Accounted' = Accounted
    <3>1. Sound' = Sound
      BY <1>1, <1>2, <2>1 DEF Sound
    <3>2. QED
      BY <1>1, <1>2, <2>1, <3>1 DEF Accounted, Sound
  <2>3. FramesLaidOut'
    BY <1>6, <2>1 DEF Layers, FramesLaidOut
  <2>4. BytesAccounted'
    BY <1>1, <1>2, <1>5, <1>6, <2>1, <2>2 DEF Layers, BytesAccounted
  <2>5. RequestsPlaced'
    BY <1>1, <2>1 DEF Layers, RequestsPlaced, Needed
  <2>6. CheckpointSound'
    BY <1>1, <1>6, <2>1 DEF Layers, CheckpointSound
  <2>7. QED
    BY <2>3, <2>4, <2>5, <2>6 DEF Layers
<1>7. CASE frames' = frames \cup {NextFrame(b)}
  <2>1. /\ FramesLaidOut'
        /\ InFile' = InFile \cup {b}
        /\ Total[InFile]' = fileEnd + Size[b] /\ fileEnd = Total[InFile]
        /\ Boundary(Total[InFile])'
        /\ \A f \in frames' : f.end <= Total[InFile]'
        /\ \A p : Boundary(p) => Boundary(p)'
    BY <1>1, <1>7, FrameAppended
  <2>2. Sound' = Sound /\ Accounted' = Accounted
    <3>1. Sound' = Sound
      BY <1>1, <1>2, <2>1 DEF Sound
    <3>2. QED
      BY <1>1, <1>2, <2>1, <3>1 DEF Accounted, Sound
  <2>3. \A f \in frames' : f.batch \in Sound => f \in frames
    BY <1>2, <1>3, <1>7 DEF NextFrame
  <2>4. BytesAccounted'
    BY <1>1, <1>2, <1>5, <2>1, <2>2, <2>3 DEF Layers, BytesAccounted
  <2>5. RequestsPlaced'
    BY <1>1, <2>1 DEF Layers, RequestsPlaced, Needed
  <2>6. \A f \in frames' : f \in frames \/ f.start = fileEnd
    BY <1>7 DEF NextFrame
  <2>7. checkpoint <= fileEnd
    BY <2>1 DEF Layers, CheckpointSound, BytesAccounted, Boundary, TypeOK
  <2>8. \A f \in frames' : f.start < checkpoint => f.batch \in completed
    BY <2>6, <2>7 DEF Layers, CheckpointSound, TypeOK
  <2>9. CheckpointSound'
    BY <1>1, <2>1, <2>8 DEF Layers, CheckpointSound
  <2>10. QED
    BY <2>1, <2>4, <2>5, <2>9 DEF Layers
<1>8. QED
  BY <1>1, <1>6, <1>7 DEF PartialWrite

\* commit_reservation: the frame is accounted for.
LEMMA CommitStep ==
    ASSUME TypeOK, Layers, NEW b \in Batch, CommitReservation(b)
    PROVE  Layers'
<1>1. /\ UNCHANGED <<frames, fileEnd, checkpoint, up, failed, completed, worker>>
      /\ reserved' = reserved - MaxFrame /\ up /\ worker # "resetting"
      /\ committed' = committed + Size[b]
      /\ pc[b] = "written" /\ \A c \in Batch : pc'[c] = IF c = b THEN "accounted" ELSE pc[c]
  BY DEF CommitReservation, Move, diskVars, workerVars, TypeOK, LocksFree
<1>2. InFile' = InFile /\ InFile \subseteq Batch /\ b \in InFile
  BY <1>1 DEF InFile, TypeOK, Frame, Layers, RequestsPlaced
<1>3. Sound' = Sound /\ Sound \subseteq Batch /\ b \in Sound
  BY <1>1, <1>2 DEF Sound
<1>4. Accounted' = Accounted \cup {b} /\ Accounted \in SUBSET Batch /\ b \notin Accounted
  BY <1>1, <1>2, <1>3 DEF Accounted
<1>5. Total[Accounted'] = Total[Accounted] + Size[b]
  BY <1>4, TotalAssumption
<1>6. Holders' = Holders \ {b} /\ b \in Holders
  BY <1>1 DEF Holders
<1>7. reserved' = MaxFrame * Cardinality(Holders')
  BY <1>1, <1>6, ReservedCovers DEF Layers
<1>8. \A p : Boundary(p)' = Boundary(p)
  BY <1>1 DEF Boundary
<1>9. FramesLaidOut'
  BY <1>1, <1>8 DEF Layers, FramesLaidOut
<1>10. BytesAccounted'
  BY <1>1, <1>2, <1>3, <1>5, <1>7, <1>8 DEF Layers, BytesAccounted
<1>11. RequestsPlaced'
  BY <1>1, <1>2 DEF Layers, RequestsPlaced, Needed
<1>12. CheckpointSound'
  BY <1>1, <1>8 DEF Layers, CheckpointSound
<1>13. QED
  BY <1>9, <1>10, <1>11, <1>12 DEF Layers

\* The checkpoint moves to the end of a completed prefix of the queue.
LEMMA CheckpointStep ==
    ASSUME TypeOK, Layers, UNCHANGED <<frames, fileEnd, up, committed, reserved, completed, pc>>,
           failed => failed', worker' # "resetting", worker # "refused",
           checkpoint' \in PlanTargets \cup {checkpoint, 0}
    PROVE  Layers'
<1>1. InFile' = InFile /\ Sound' = Sound /\ Accounted' = Accounted /\ Holders' = Holders
  BY DEF InFile, Sound, Accounted, Holders
<1>2. \A p : Boundary(p)' = Boundary(p)
  BY DEF Boundary
<1>3. FramesLaidOut'
  BY <1>2 DEF Layers, FramesLaidOut
<1>4. BytesAccounted'
  BY <1>1, <1>2 DEF Layers, BytesAccounted
<1>5. RequestsPlaced'
  BY <1>1 DEF Layers, RequestsPlaced, Admitted
<1>6. Boundary(checkpoint)' /\ \A f \in frames : f.start < checkpoint' => f.batch \in completed
  <2>1. CASE checkpoint' = checkpoint
    BY <1>2, <2>1 DEF Layers, CheckpointSound
  <2>2. CASE checkpoint' = 0
    BY <2>2 DEF Boundary, TypeOK, Frame
  <2>3. CASE checkpoint' \in PlanTargets
    <3>1. PICK g \in frames :
             /\ checkpoint' = g.end
             /\ \A h \in frames : h.start >= checkpoint /\ h.start <= g.start
                   => h.batch \in completed
      BY <2>3 DEF PlanTargets
    <3>2. ASSUME NEW f \in frames, f.start < g.end
          PROVE  f.start <= g.start
      <4>1. CASE f = g
        BY <4>1 DEF TypeOK, Frame
      <4>2. CASE f # g
        <5>1. f.end <= g.start \/ g.end <= f.start
          BY <4>2 DEF Layers, FramesLaidOut
        <5>2. f.start \in Nat /\ f.end \in Nat /\ g.start \in Nat /\ g.end \in Nat
          BY DEF TypeOK, Frame
        <5>3. f.start <= f.end
          BY <5>2, SizeAssumption DEF Layers, FramesLaidOut, TypeOK, Frame
        <5>4. QED
          BY <3>2, <5>1, <5>2, <5>3
      <4>3. QED
        BY <4>1, <4>2
    <3>3. \A f \in frames : f.start < checkpoint \/ f.start >= checkpoint
      BY DEF TypeOK, Frame
    <3>4. \A f \in frames : f.start < g.end => f.batch \in completed
      BY <3>1, <3>2, <3>3 DEF Layers, CheckpointSound
    <3>5. QED
      BY <3>1, <3>4 DEF Boundary
  <2>4. QED
    BY <2>1, <2>2, <2>3
<1>7. CheckpointSound'
  BY <1>6 DEF CheckpointSound
<1>8. QED
  BY <1>3, <1>4, <1>5, <1>7 DEF Layers

\* With no byte reserved, no request is between its write and its accounting.
LEMMA NoneWritten ==
    ASSUME TypeOK, up, BytesAccounted, reserved = 0
    PROVE  \A b \in Batch : pc[b] # "written"
<1> SUFFICES ASSUME NEW b \in Batch, pc[b] = "written" PROVE FALSE
  OBVIOUS
<1>1. b \in Holders
  BY DEF Holders
<1>2. 0 - MaxFrame \in Nat
  BY <1>1, ReservedCovers
<1>3. MaxFrame > 0 /\ MaxFrame \in Nat
  BY SizeAssumption
<1>4. QED
  BY <1>2, <1>3

\* reclaim_checkpointed, first step: no reservation is open and the checkpoint
\* is at the end of what is accounted for, so every frame is published or was
\* never promised.
LEMMA ResetStep ==
    ASSUME TypeOK, Layers, ResetCheckpoint
    PROVE  Layers'
<1>1. /\ UNCHANGED <<frames, fileEnd, up, failed, committed, reserved, completed, pc>>
      /\ checkpoint' = 0 /\ up /\ reserved = 0 /\ checkpoint = committed
      /\ worker = "reclaiming"
  BY DEF ResetCheckpoint, Deferred, accountVars, appendVars, TypeOK
<1>2. InFile' = InFile /\ Sound' = Sound /\ Accounted' = Accounted /\ Holders' = Holders
  BY <1>1 DEF InFile, Sound, Accounted, Holders
<1>3. \A p : Boundary(p)' = Boundary(p)
  BY <1>1 DEF Boundary
<1>4. FramesLaidOut'
  BY <1>1, <1>3 DEF Layers, FramesLaidOut
<1>5. BytesAccounted'
  BY <1>1, <1>2, <1>3 DEF Layers, BytesAccounted
<1>6. RequestsPlaced'
  BY <1>1, <1>2 DEF Layers, RequestsPlaced, Admitted
<1>7. \A b \in Batch : pc[b] # "written"
  BY <1>1, NoneWritten DEF Layers
<1>8. Accounted = Sound /\ InFile \subseteq Batch
  BY <1>7 DEF Accounted, Sound, InFile, TypeOK, Frame
<1>9. checkpoint = Total[Sound]
  BY <1>1, <1>8 DEF Layers, BytesAccounted
<1>10. ASSUME NEW f \in frames PROVE f.batch \in completed \/ pc[f.batch] \notin Needed
  <2>1. CASE f.batch \in Sound
    <3>1. f.end <= checkpoint
      BY <1>9, <2>1 DEF Layers, BytesAccounted
    <3>2. f.start < f.end
      BY SizeAssumption DEF Layers, FramesLaidOut, TypeOK, Frame
    <3>3. f.start < checkpoint
      BY <3>1, <3>2 DEF TypeOK, Frame
    <3>4. QED
      BY <3>3 DEF Layers, CheckpointSound
  <2>2. CASE f.batch \notin Sound
    BY <2>2 DEF Sound, InFile, Needed
  <2>3. QED
    BY <2>1, <2>2
<1>11. Boundary(checkpoint)' /\ \A f \in frames' : ~(f.start < checkpoint')
  BY <1>1 DEF Boundary, TypeOK, Frame
<1>12. CheckpointSound'
  BY <1>1, <1>10, <1>11 DEF CheckpointSound
<1>13. QED
  BY <1>4, <1>5, <1>6, <1>12 DEF Layers

\* reclaim_checkpointed, second step: the file becomes empty, and the worker
\* goes on with an empty spool or stops with a failed one.
LEMMA TruncateStep ==
    ASSUME TypeOK, Layers,
           UNCHANGED <<checkpoint, up, reserved, completed, pc>>,
           up, worker = "resetting", worker' # "resetting",
           frames' = {}, fileEnd' = 0,
           (UNCHANGED failed /\ committed' = 0) \/ (failed' /\ worker' = "refused")
    PROVE  Layers'
<1>1. /\ UNCHANGED <<checkpoint, up, reserved, completed, pc>>
      /\ frames' = {} /\ fileEnd' = 0 /\ up /\ failed => failed'
      /\ worker = "resetting" /\ worker' # "resetting"
      /\ worker' # "refused" => committed' = 0
  OBVIOUS
<1>2. InFile' = {} /\ Sound' = {} /\ Accounted' = {} /\ Holders' = Holders
  BY <1>1 DEF InFile, Sound, Accounted, Holders
<1>3. FramesLaidOut'
  BY <1>1, FS_EmptySet DEF FramesLaidOut
<1>4. Total[{}] = 0
  BY TotalAssumption
<1>5. BytesAccounted'
  BY <1>1, <1>2, <1>4 DEF Layers, BytesAccounted, Boundary
<1>6. checkpoint = 0 /\ reserved = 0
      /\ \A f \in frames : f.batch \in completed \/ pc[f.batch] \notin Needed
  BY <1>1 DEF Layers, CheckpointSound
<1>7. \A b \in Batch : pc[b] # "written"
  BY <1>1, <1>6, NoneWritten DEF Layers
<1>8. ASSUME NEW b \in Batch, pc[b] \in Needed PROVE b \in completed
  BY <1>6, <1>8 DEF Layers, RequestsPlaced, InFile
<1>9. RequestsPlaced'
  BY <1>1, <1>2, <1>7, <1>8 DEF RequestsPlaced
<1>10. CheckpointSound'
  BY <1>1, <1>6 DEF CheckpointSound, Boundary
<1>11. QED
  BY <1>3, <1>5, <1>9, <1>10 DEF Layers

\* A crash: the requests that were running are forgotten, and the one that was
\* writing may leave a part of its frame, or all of it.
LEMMA CrashStep ==
    ASSUME TypeOK, Layers, Crash
    PROVE  Layers'
<1>1. /\ UNCHANGED <<checkpoint, completed>>
      /\ \/ UNCHANGED frames
         \/ ~failed /\ \E b \in Batch : pc[b] = "reserved" /\ PartialWrite(b)
  BY DEF Crash
<1>2. up /\ ~up' /\ ~failed' /\ worker' # "resetting" /\ reserved' = 0
  BY DEF Crash, TypeOK
<1>3. \A b \in Batch : pc'[b] = CASE b \in Admitted -> "unknown"
                                  [] pc[b] = "failed" -> "refused"
                                  [] OTHER -> pc[b]
  BY DEF Crash
<1>4. \A b \in Batch : /\ pc'[b] \notin {"failed", "reserved", "written", "accounted", "sent"}
                       /\ pc'[b] \in {"idle", "acked"} => pc'[b] = pc[b]
  BY <1>3 DEF Admitted, TypeOK, Steps
<1>5. \/ frames' = frames
      \/ ~failed /\ \E b \in Batch : pc[b] = "reserved" /\ frames' = frames \cup {NextFrame(b)}
  BY <1>1 DEF PartialWrite
<1> DEFINE Placed ==
             /\ FramesLaidOut'
             /\ InFile \subseteq InFile' /\ InFile' \subseteq Batch
             /\ \A b \in Batch : pc[b] = "idle" => b \notin InFile'
             /\ Boundary(Total[InFile])' /\ \A f \in frames' : f.end <= Total[InFile]'
             /\ Boundary(checkpoint)'
             /\ \A f \in frames' : f.start < checkpoint' => f.batch \in completed'
<1>6. Placed
  <2>1. CASE frames' = frames
    <3>1. InFile' = InFile /\ \A p : Boundary(p)' = Boundary(p)
      BY <2>1 DEF InFile, Boundary
    <3>2. FramesLaidOut'
      BY <2>1, <3>1 DEF Layers, FramesLaidOut
    <3>3. InFile \subseteq Batch
      BY DEF InFile, TypeOK, Frame
    <3>4. Boundary(Total[InFile])' /\ \A f \in frames' : f.end <= Total[InFile]'
      BY <2>1, <3>1 DEF Layers, BytesAccounted
    <3>5. QED
      BY <1>1, <2>1, <3>1, <3>2, <3>3, <3>4 DEF Layers, RequestsPlaced, CheckpointSound
  <2>2. ASSUME ~failed, NEW b \in Batch, pc[b] = "reserved",
               frames' = frames \cup {NextFrame(b)}
        PROVE  Placed
    <3>1. /\ FramesLaidOut'
          /\ InFile' = InFile \cup {b} /\ InFile \in SUBSET Batch
          /\ fileEnd = Total[InFile]
          /\ Boundary(Total[InFile])'
          /\ \A f \in frames' : f.end <= Total[InFile]'
          /\ \A p : Boundary(p) => Boundary(p)'
      BY <1>2, <2>2, FrameAppended
    <3>2. \A c \in Batch : pc[c] = "idle" => c \notin InFile'
      BY <2>2, <3>1 DEF Layers, RequestsPlaced
    <3>3. \A f \in frames' : f \in frames \/ f.start = fileEnd
      BY <2>2 DEF NextFrame
    <3>4. checkpoint <= fileEnd
      BY <3>1 DEF Layers, CheckpointSound, BytesAccounted, Boundary, TypeOK
    <3>5. \A f \in frames' : f.start < checkpoint => f.batch \in completed
      BY <3>3, <3>4 DEF Layers, CheckpointSound, TypeOK
    <3>6. Boundary(checkpoint)'
      BY <1>1, <3>1 DEF Layers, CheckpointSound
    <3>7. QED
      BY <1>1, <3>1, <3>2, <3>5, <3>6
  <2>3. QED
    BY <1>5, <2>1, <2>2
<1>7. Sound' = InFile'
  BY <1>4, <1>6 DEF Sound
<1>8. BytesAccounted'
  BY <1>2, <1>4, <1>6, <1>7 DEF BytesAccounted
<1>9. RequestsPlaced'
  BY <1>1, <1>2, <1>4, <1>6 DEF Layers, RequestsPlaced, Needed, Admitted
<1>10. CheckpointSound'
  BY <1>2, <1>6 DEF CheckpointSound
<1>11. QED
  BY <1>6, <1>8, <1>9, <1>10 DEF Layers

\* Recovery: the torn tail is cut and every complete frame counts as committed.
LEMMA RecoverStep ==
    ASSUME TypeOK, Layers, Recover
    PROVE  Layers'
<1>1. /\ UNCHANGED <<frames, checkpoint, failed, reserved, completed, worker, pc>>
      /\ ~up /\ fileEnd' = ScanEnd /\ committed' = ScanEnd
  BY DEF Recover, appendVars
<1>2. InFile' = InFile /\ Sound' = Sound /\ Accounted' = Accounted /\ Holders' = Holders
  BY <1>1 DEF InFile, Sound, Accounted, Holders
<1>3. \A p : Boundary(p)' = Boundary(p)
  BY <1>1 DEF Boundary
<1>4. FramesLaidOut'
  BY <1>1, <1>3 DEF Layers, FramesLaidOut
<1>5. \A b \in Batch : pc[b] \notin {"failed", "reserved", "written", "accounted", "sent"}
  BY <1>1 DEF Layers, BytesAccounted, RequestsPlaced, Admitted
<1>6. Accounted = InFile
  BY <1>5 DEF Accounted, Sound, InFile, TypeOK, Frame
<1>7. Holders = {}
  BY <1>5 DEF Holders
<1>8. reserved = 0 /\ worker # "resetting"
  BY <1>1 DEF Layers, RequestsPlaced
<1>9. reserved = MaxFrame * Cardinality(Holders)
  BY <1>7, <1>8, FS_EmptySet, SizeAssumption
<1>10. ScanEnd = Total[InFile]
  BY DEF ScanEnd, InFile
<1>11. BytesAccounted'
  BY <1>1, <1>2, <1>3, <1>5, <1>6, <1>9, <1>10 DEF Layers, BytesAccounted
<1>12. RequestsPlaced'
  BY <1>1, <1>2, <1>8 DEF Layers, RequestsPlaced, Admitted
<1>13. CheckpointSound'
  BY <1>1, <1>3, <1>8 DEF Layers, CheckpointSound
<1>14. QED
  BY <1>4, <1>11, <1>12, <1>13 DEF Layers

-----------------------------------------------------------------------------
(* The theorems.                                                           *)

\* A new spool satisfies the inductive invariant.
LEMMA LayersInit == Init => TypeOK /\ Layers
<1> SUFFICES ASSUME Init PROVE TypeOK /\ Layers
  OBVIOUS
<1>1. TypeOK
  BY DEF Init, TypeOK, Frame, Extent, NoExtent, Steps
<1>2. InFile = {} /\ Sound = {} /\ Accounted = {}
  BY DEF Init, InFile, Sound, Accounted
<1>3. Holders = {} /\ Total[{}] = 0 /\ MaxFrame * 0 = 0 /\ Cardinality({}) = 0
  BY TotalAssumption, SizeAssumption, FS_EmptySet DEF Init, Holders
<1>4. FramesLaidOut
  BY FS_EmptySet DEF Init, FramesLaidOut
<1>5. BytesAccounted
  BY <1>2, <1>3 DEF Init, BytesAccounted, Boundary
<1>6. RequestsPlaced
  BY <1>2 DEF Init, RequestsPlaced, Needed
<1>7. CheckpointSound
  BY DEF Init, CheckpointSound, Boundary
<1>8. QED
  BY <1>1, <1>4, <1>5, <1>6, <1>7 DEF Layers

\* Every step of the spool, its requests and its worker keeps the layers.
LEMMA LayersStep == TypeOK /\ Layers /\ [Next]_vars => Layers'
<1> SUFFICES ASSUME TypeOK, Layers, [Next]_vars PROVE Layers'
  OBVIOUS
<1> DEFINE Quiet ==
             /\ UNCHANGED <<frames, fileEnd, checkpoint, up, failed, committed, reserved>>
             /\ completed \subseteq completed'
             /\ worker' = "resetting" => worker = "resetting"
             /\ worker = "refused" => worker' = "refused"
           Forward == \A b \in Batch : \/ pc'[b] = pc[b]
                                       \/ /\ pc[b] \in {"accounted", "sent"}
                                          /\ pc'[b] \in {"sent", "acked", "refused"}
<1>1. Quiet /\ Forward => Layers'
  BY QuietStep
<1>2. ASSUME NEW b \in Batch, SendExtent(b) \/ Acknowledge(b)
      PROVE  Quiet /\ Forward
  <2>1. Quiet
    BY <1>2 DEF SendExtent, Acknowledge, diskVars, accountVars, workerVars
  <2>2. Forward
    BY <1>2 DEF SendExtent, Acknowledge, Move, TypeOK
  <2>3. QED
    BY <2>1, <2>2
<1>3. ASSUME NEW b \in Batch, Append(b)
      PROVE  Layers'
  BY <1>1, <1>2, <1>3, ReserveStep, ReleaseStep, WriteFrameStep, WriteFailsStep, CommitStep
     DEF Append
<1>4. ASSUME \/ DeliverBatch \/ ReadFails \/ SegmentExpiration
             \/ NothingToCheckpoint \/ WorkerRefused
             \/ BeginReclaim \/ ReclaimDeferred \/ SendReclaimed
      PROVE  Quiet /\ Forward
  <2> USE DEF diskVars, accountVars, appendVars
  <2>1. CASE DeliverBatch
    BY <2>1 DEF DeliverBatch
  <2>2. CASE ReadFails \/ SegmentExpiration \/ NothingToCheckpoint
    BY <2>2 DEF ReadFails, SegmentExpiration, NothingToCheckpoint
  <2>3. CASE WorkerRefused \/ BeginReclaim
    BY <2>3 DEF WorkerRefused, BeginReclaim
  <2>4. CASE ReclaimDeferred \/ SendReclaimed
    BY <2>4 DEF ReclaimDeferred, SendReclaimed
  <2>5. QED
    BY <1>4, <2>1, <2>2, <2>3, <2>4
<1>5. ASSUME NEW b \in Batch, Complete(b)
      PROVE  Quiet /\ Forward
  BY <1>5 DEF Complete, diskVars, accountVars, appendVars, workerVars
<1>6. CASE AdvanceCheckpoint
  BY <1>6, CheckpointStep DEF AdvanceCheckpoint, accountVars, appendVars
<1>7. CASE LocalWriteFails
  <2>1. /\ UNCHANGED <<up, committed, reserved, completed, pc>> /\ up
        /\ failed' /\ worker' = "refused"
        /\ worker \in {"reading", "reclaiming", "resetting"}
    BY <1>7 DEF LocalWriteFails, accountVars, appendVars
  <2>2. CASE UNCHANGED <<frames, fileEnd>>
    <3>1. checkpoint' \in PlanTargets \cup {checkpoint, 0}
      BY <1>7 DEF LocalWriteFails
    <3>2. QED
      BY <2>1, <2>2, <3>1, CheckpointStep
  <2>3. CASE ~UNCHANGED <<frames, fileEnd>>
    <3>1. worker = "resetting" /\ frames' = {} /\ fileEnd' = 0 /\ UNCHANGED checkpoint
      BY <1>7, <2>3 DEF LocalWriteFails
    <3>2. QED
      BY <2>1, <3>1, TruncateStep
  <2>4. QED
    BY <2>2, <2>3
<1>8. CASE Truncate
  BY <1>8, TruncateStep DEF Truncate, appendVars
<1>9. CASE Work
  BY <1>1, <1>4, <1>5, <1>6, <1>7, <1>8, <1>9, ResetStep DEF Work
<1>10. CASE UNCHANGED vars
  BY <1>1, <1>10 DEF vars, diskVars, accountVars, appendVars, workerVars
<1>11. QED
  BY <1>3, <1>9, <1>10, CrashStep, RecoverStep DEF Next

\* The inductive invariant: types, the layout of the file, the two counters,
\* the place of every request's batch and what is before the checkpoint.
THEOREM SpoolInvariant == Spec => [](TypeOK /\ Layers)
<1>1. TypeOK /\ Layers /\ [Next]_vars => (TypeOK /\ Layers)'
  BY TypeStep, LayersStep
<1>2. QED
  BY <1>1, LayersInit, PTL DEF Spec

\* Neither counter of the accounting ever underflows, and every field keeps its
\* type, whatever requests, failures and crashes interleave.
THEOREM TypeCorrect == Spec => []TypeOK
BY SpoolInvariant, PTL

\* No interleaving of appends, checkpoints, reclamations, I/O failures and
\* crashes loses an acknowledged batch that is not yet published.
THEOREM AcknowledgedNeverLost == Spec => []AcknowledgedDurable
<1>1. ASSUME TypeOK, Layers, NEW b \in Batch, pc[b] = "acked", b \notin completed
      PROVE  \E f \in frames : f.batch = b /\ f.start >= checkpoint
  <2>1. PICK f \in frames : f.batch = b
    BY <1>1 DEF Layers, RequestsPlaced, Needed, InFile
  <2>2. ~(f.start < checkpoint)
    BY <1>1, <2>1 DEF Layers, CheckpointSound
  <2>3. QED
    BY <1>1, <2>1, <2>2 DEF TypeOK, Frame
<1>2. TypeOK /\ Layers => AcknowledgedDurable
  BY <1>1 DEF AcknowledgedDurable
<1>3. QED
  BY <1>2, SpoolInvariant, PTL

\* Recovery accepts whatever a crash leaves: the scan finds whole frames up to
\* their common end, and the checkpoint is one of their boundaries.
THEOREM CrashAlwaysRecoverable == Spec => []CrashRecoverable
<1>1. Layers => CrashRecoverable
  BY DEF Layers, FramesLaidOut, BytesAccounted, CheckpointSound, CrashRecoverable,
         Recoverable, ScanEnd, InFile
<1>2. QED
  BY <1>1, SpoolInvariant, PTL

-----------------------------------------------------------------------------
(* The reader and the queue.                                               *)

\* What any step does to the frames: one is appended, or all of them go.
LEMMA FrameMoves ==
    ASSUME TypeOK, [Next]_vars
    PROVE  \/ UNCHANGED frames
           \/ frames' = {}
           \/ up /\ ~failed /\ \E b \in Batch : pc[b] = "reserved" /\ frames' = frames \cup {NextFrame(b)}
<1> USE DEF diskVars
<1>1. ASSUME NEW b \in Batch, Append(b)
      PROVE  \/ UNCHANGED frames
             \/ up /\ ~failed /\ pc[b] = "reserved" /\ frames' = frames \cup {NextFrame(b)}
  <2>1. CASE WriteFrame(b)
    BY <2>1 DEF WriteFrame
  <2>2. CASE WriteFails(b)
    BY <2>2 DEF WriteFails, PartialWrite
  <2>3. CASE Reserve(b) \/ Release(b) \/ AppendRefused(b)
    BY <2>3 DEF Reserve, Release, AppendRefused
  <2>4. CASE CommitReservation(b) \/ SendExtent(b) \/ Acknowledge(b)
    BY <2>4 DEF CommitReservation, SendExtent, Acknowledge
  <2>5. QED
    BY <1>1, <2>1, <2>2, <2>3, <2>4 DEF Append
<1>2. ASSUME Work
      PROVE  UNCHANGED frames \/ frames' = {}
  <2>1. CASE DeliverBatch \/ ReadFails \/ SegmentExpiration \/ \E b \in Batch : Complete(b)
    BY <2>1 DEF DeliverBatch, ReadFails, SegmentExpiration, Complete
  <2>2. CASE NothingToCheckpoint \/ AdvanceCheckpoint \/ LocalWriteFails \/ WorkerRefused
    BY <2>2 DEF NothingToCheckpoint, AdvanceCheckpoint, LocalWriteFails, WorkerRefused
  <2>3. CASE BeginReclaim \/ ReclaimDeferred \/ ResetCheckpoint \/ Truncate \/ SendReclaimed
    BY <2>3 DEF BeginReclaim, ReclaimDeferred, ResetCheckpoint, Truncate, SendReclaimed
  <2>4. QED
    BY <1>2, <2>1, <2>2, <2>3 DEF Work
<1>3. CASE Crash
  BY <1>3 DEF Crash, PartialWrite
<1>4. CASE Recover \/ UNCHANGED vars
  BY <1>4 DEF Recover, vars
<1>5. QED
  BY <1>1, <1>2, <1>3, <1>4 DEF Next

\* The file has no gap: a frame ends where the next one starts.
LEMMA LinkedStep ==
    ASSUME TypeOK, Layers, FramesLinked, [Next]_vars
    PROVE  FramesLinked'
<1>1. CASE UNCHANGED frames
  <2>1. InFile' = InFile
    BY <1>1 DEF InFile
  <2>2. QED
    BY <1>1, <2>1 DEF FramesLinked
<1>2. CASE frames' = {}
  BY <1>2 DEF FramesLinked
<1>3. ASSUME up, ~failed, NEW b \in Batch, pc[b] = "reserved", frames' = frames \cup {NextFrame(b)}
      PROVE  FramesLinked'
  <2>1. Total[InFile]' = fileEnd + Size[b] /\ fileEnd = Total[InFile]
    BY <1>3, FrameAppended
  <2>2. PICK n \in frames' : n.start = fileEnd /\ n.end = fileEnd + Size[b] /\ frames' = frames \cup {n}
    BY <1>3 DEF NextFrame
  <2>3. \A f \in frames' : f.end = Total[InFile]' \/ \E g \in frames' : g.start = f.end
    BY <2>1, <2>2 DEF FramesLinked
  <2>4. \E g \in frames' : g.start = 0
    <3>1. CASE frames = {}
      <4>1. InFile = {}
        BY <3>1 DEF InFile
      <4>2. fileEnd = 0
        BY <2>1, <4>1, TotalAssumption
      <4>3. QED
        BY <2>2, <4>2
    <3>2. CASE \E g \in frames : g.start = 0
      BY <2>2, <3>2
    <3>3. QED
      BY <3>1, <3>2 DEF FramesLinked
  <2>5. QED
    BY <2>3, <2>4 DEF FramesLinked
<1>4. QED
  BY <1>1, <1>2, <1>3, FrameMoves

\* No frame is empty.
LEMMA FrameTypes ==
    ASSUME TypeOK, FramesLaidOut
    PROVE  \A f \in frames : f.batch \in Batch /\ f.start \in Nat /\ f.end \in Nat /\ f.start < f.end
<1>1. \A f \in frames : f.start \in Nat /\ f.end \in Nat /\ f.batch \in Batch
  BY DEF TypeOK, Frame
<1>2. QED
  BY <1>1, SizeAssumption DEF FramesLaidOut

\* A boundary before the end of some frame is where a frame starts that ends no later.
LEMMA FrameAtBoundary ==
    ASSUME TypeOK, FramesLaidOut, FramesLinked, NEW p \in Nat, Boundary(p),
           NEW h \in frames, p < h.end,
           \A f \in frames : f.end <= Total[InFile]
    PROVE  \E f \in frames : f.start = p /\ f.end <= h.end
<1>1. Total[InFile] \in Nat
  <2>1. InFile \in SUBSET Batch
    BY DEF InFile, TypeOK, Frame
  <2>2. QED
    BY <2>1, TotalAssumption
<1>2. \A f \in frames : f.start \in Nat /\ f.end \in Nat /\ f.start < f.end
  BY FrameTypes
<1>3. PICK f \in frames : f.start = p
  <2>1. CASE p = 0
    BY <2>1 DEF FramesLinked
  <2>2. ASSUME NEW g \in frames, g.end = p PROVE \E f \in frames : f.start = p
    <3>1. g.end # Total[InFile]
      BY <1>1, <1>2, <2>2
    <3>2. QED
      BY <2>2, <3>1 DEF FramesLinked
  <2>3. QED
    BY <2>1, <2>2 DEF Boundary
<1>4. CASE f = h
  BY <1>2, <1>3, <1>4
<1>5. CASE f # h
  <2>1. f.end <= h.start \/ h.end <= f.start
    BY <1>5 DEF FramesLaidOut
  <2>2. f.end <= h.end
    BY <1>2, <1>3, <2>1
  <2>3. QED
    BY <1>3, <2>2
<1>6. QED
  BY <1>4, <1>5

-----------------------------------------------------------------------------
(* The backlog covers the appends that are not counted yet.                *)

\* Both sides of the backlog are finite counts of requests.
LEMMA BacklogCounts ==
    ASSUME TypeOK
    PROVE  /\ IsFiniteSet(Uncounted) /\ Cardinality(Uncounted) \in Nat
           /\ IsFiniteSet(Outstanding) /\ Cardinality(Outstanding) \in Nat
           /\ backlog \in Nat
<1>1. Uncounted \in SUBSET Batch /\ Outstanding \in SUBSET Batch
  BY DEF Uncounted, Outstanding, TypeOK, Frame
<1>2. IsFiniteSet(Uncounted) /\ IsFiniteSet(Outstanding)
  BY <1>1, FS_Subset, SizeAssumption
<1>3. QED
  BY <1>2, FS_CardinalityType DEF TypeOK

\* A step that neither counts nor covers a batch.
LEMMA BacklogQuiet ==
    ASSUME BacklogCovered, UNCHANGED <<backlog, Uncounted, Outstanding>>, worker' # "resetting"
    PROVE  BacklogCovered'
BY DEF BacklogCovered

\* Requests that come, go away or fail before their frame is complete, and the accounting
\* and the announcement of a frame, leave both sides of the backlog alone.
LEMMA BacklogAppendQuiet ==
    ASSUME TypeOK, Layers, BacklogCovered, NEW b \in Batch,
           \/ Reserve(b) \/ Release(b) \/ AppendRefused(b)
           \/ CommitReservation(b) \/ SendExtent(b) \/ WriteFails(b)
    PROVE  BacklogCovered'
<1>1. /\ UNCHANGED <<checkpoint, backlog, worker, pending>>
      /\ \A c \in Batch \ {b} : pc'[c] = pc[c]
      /\ \/ pc[b] = "idle" /\ pc'[b] = "reserved" /\ UNCHANGED frames
         \/ pc[b] = "reserved" /\ pc'[b] = "refused" /\ UNCHANGED frames
         \/ pc[b] = "written" /\ pc'[b] = "accounted" /\ UNCHANGED frames
         \/ pc[b] = "accounted" /\ pc'[b] = "sent" /\ UNCHANGED frames
         \/ /\ pc[b] = "reserved" /\ pc'[b] = "failed"
            /\ UNCHANGED frames \/ frames' = frames \cup {NextFrame(b)}
  <2> USE DEF diskVars, workerVars, Move, TypeOK
  <2>1. CASE Reserve(b)
    BY <2>1 DEF Reserve
  <2>2. CASE Release(b) \/ AppendRefused(b)
    BY <2>2 DEF Release, AppendRefused
  <2>3. CASE CommitReservation(b)
    BY <2>3 DEF CommitReservation
  <2>4. CASE SendExtent(b)
    BY <2>4 DEF SendExtent
  <2>5. CASE WriteFails(b)
    BY <2>5 DEF WriteFails, PartialWrite
  <2>6. QED
    BY <2>1, <2>2, <2>3, <2>4, <2>5
<1>2. \A f \in frames : f.batch \in Batch
  BY DEF TypeOK, Frame
<1>3. pc[b] \in {"idle", "reserved"} => \A f \in frames : f.batch # b
  BY DEF Layers, RequestsPlaced, InFile
<1>4. Uncounted' = Uncounted
  BY <1>1 DEF Uncounted
<1>5. Outstanding' = Outstanding
  <2>1. \A f \in frames' : f \in frames \/ (f.batch = b /\ pc'[b] = "failed")
    BY <1>1 DEF NextFrame
  <2>2. \A f \in frames : f \in frames' /\ (pc'[f.batch] = "failed" <=> pc[f.batch] = "failed")
    BY <1>1, <1>2, <1>3
  <2>3. QED
    BY <1>1, <2>1, <2>2 DEF Outstanding, Sound, InFile
<1>6. worker' # "resetting"
  <2>1. CASE SendExtent(b)
    BY <2>1, <1>1 DEF SendExtent, BacklogCovered, Uncounted
  <2>2. CASE ~SendExtent(b)
    BY <2>2, <1>1 DEF Reserve, Release, AppendRefused, CommitReservation, WriteFails, LocksFree
  <2>3. QED
    BY <2>1, <2>2
<1>7. QED
  BY <1>1, <1>4, <1>5, <1>6, BacklogQuiet

\* write_frame adds a batch that is to be counted and to be checkpointed.
LEMMA BacklogWrite ==
    ASSUME TypeOK, Layers, BacklogCovered, NEW b \in Batch, WriteFrame(b)
    PROVE  BacklogCovered'
<1>1. /\ UNCHANGED <<checkpoint, backlog, worker, pending>> /\ worker # "resetting"
      /\ up /\ ~failed /\ frames' = frames \cup {NextFrame(b)}
      /\ pc[b] = "reserved" /\ \A c \in Batch : pc'[c] = IF c = b THEN "written" ELSE pc[c]
  BY DEF WriteFrame, Move, workerVars, TypeOK, LocksFree
<1>2. checkpoint <= fileEnd /\ b \notin InFile
  <2>1. fileEnd = Total[InFile] /\ b \notin InFile
    BY <1>1, FrameAppended
  <2>2. QED
    BY <2>1 DEF Layers, CheckpointSound, BytesAccounted, Boundary, TypeOK
<1>3. Uncounted' = Uncounted \cup {b} /\ b \notin Uncounted
  BY <1>1 DEF Uncounted
<1>4. Outstanding' = Outstanding \cup {b} /\ b \notin Outstanding
  <2>1. NextFrame(b).batch = b /\ NextFrame(b).start = fileEnd
    BY DEF NextFrame
  <2>2. fileEnd >= checkpoint
    BY <1>2 DEF TypeOK
  <2>3. \A f \in frames : f.batch \in Batch /\ f.batch # b
    BY <1>2 DEF InFile, TypeOK, Frame
  <2>4. QED
    BY <1>1, <2>1, <2>2, <2>3 DEF Outstanding, Sound, InFile
<1>5. /\ Cardinality(Uncounted') = Cardinality(Uncounted) + 1
      /\ Cardinality(Outstanding') = Cardinality(Outstanding) + 1
  BY <1>3, <1>4, BacklogCounts, FS_AddElement
<1>6. backlog + Cardinality(Uncounted') <= Cardinality(Outstanding')
  BY <1>5, BacklogCounts DEF BacklogCovered
<1>7. QED
  BY <1>1, <1>6 DEF BacklogCovered

\* AdmittedAppend::append counts the batch it acknowledges.
LEMMA BacklogAcknowledge ==
    ASSUME TypeOK, Layers, BacklogCovered, NEW b \in Batch, Acknowledge(b)
    PROVE  BacklogCovered'
<1>1. /\ UNCHANGED <<frames, checkpoint, worker, pending>> /\ worker # "resetting"
      /\ pc[b] = "sent" /\ pc'[b] \in {"acked", "refused"} /\ \A c \in Batch \ {b} : pc'[c] = pc[c]
      /\ backlog' \in {backlog, backlog + 1}
  BY DEF Acknowledge, Move, diskVars, workerVars, TypeOK, LocksFree
<1>2. Uncounted' = Uncounted \ {b} /\ b \in Uncounted
  BY <1>1 DEF Uncounted
<1>3. Outstanding' = Outstanding
  <2>1. \A f \in frames : f.batch \in Batch
    BY DEF TypeOK, Frame
  <2>2. QED
    BY <1>1, <2>1 DEF Outstanding, Sound, InFile
<1>4. Cardinality(Uncounted') = Cardinality(Uncounted) - 1
  BY <1>2, BacklogCounts, FS_RemoveElement
<1>5. backlog' + Cardinality(Uncounted') <= Cardinality(Outstanding')
  BY <1>1, <1>3, <1>4, BacklogCounts DEF BacklogCovered
<1>6. QED
  BY <1>1, <1>5 DEF BacklogCovered

\* complete_pending_batches takes what the checkpoint covers from both sides: every frame
\* between the old and the new checkpoint is a completed batch of the queue.
LEMMA BacklogAdvance ==
    ASSUME TypeOK, Layers, BacklogCovered, AdvanceCheckpoint, worker' \notin Stopped
    PROVE  BacklogCovered'
<1>1. PICK target \in PlanTargets :
         /\ checkpoint' = target /\ Cardinality(Covered(target)) <= backlog
         /\ backlog' = backlog - Cardinality(Covered(target)) /\ worker' = "advanced"
  BY DEF AdvanceCheckpoint, Stopped
<1>2. UNCHANGED <<frames, pc>> /\ Uncounted' = Uncounted
  BY DEF AdvanceCheckpoint, appendVars, Uncounted
<1>3. PICK g \in frames :
         /\ target = g.end
         /\ \A h \in frames : h.start >= checkpoint /\ h.start <= g.start => h.batch \in pending
  BY DEF PlanTargets
<1>4. \A f \in frames : f.start \in Nat /\ f.end \in Nat /\ f.start < f.end
  BY FrameTypes DEF Layers
<1>5. ASSUME NEW f \in frames, f.start >= checkpoint, f.batch \notin Covered(target)
      PROVE  f.start >= checkpoint'
  <2>1. CASE f.end <= g.end
    <3>1. f.start <= g.start
      <4>1. f = g \/ f.end <= g.start \/ g.end <= f.start
        BY DEF Layers, FramesLaidOut
      <4>2. QED
        BY <1>4, <2>1, <4>1
    <3>2. f.batch \in pending
      BY <1>3, <1>5, <3>1
    <3>3. f.batch \in Covered(target)
      BY <1>3, <2>1, <3>2 DEF Covered
    <3>4. QED
      BY <1>5, <3>3
  <2>2. CASE ~(f.end <= g.end)
    <3>1. f # g /\ (f.end <= g.start \/ g.end <= f.start)
      BY <1>4, <2>2 DEF Layers, FramesLaidOut
    <3>2. QED
      BY <1>1, <1>3, <1>4, <2>2, <3>1
  <2>3. QED
    BY <2>1, <2>2
<1>6. Outstanding \ Covered(target) \subseteq Outstanding'
  BY <1>2, <1>5 DEF Outstanding, Sound, InFile
<1>7. /\ IsFiniteSet(Covered(target)) /\ Cardinality(Covered(target)) \in Nat
      /\ IsFiniteSet(Outstanding') /\ Cardinality(Outstanding') \in Nat
  <2>1. Covered(target) \in SUBSET Batch /\ Outstanding' \in SUBSET Batch
    BY <1>2 DEF Covered, Outstanding, TypeOK, Frame
  <2>2. QED
    BY <2>1, FS_Subset, FS_CardinalityType, SizeAssumption
<1>8. Cardinality(Outstanding) <= Cardinality(Outstanding') + Cardinality(Covered(target))
  <2>1. Outstanding \subseteq Outstanding' \cup Covered(target)
    BY <1>6
  <2>2. /\ IsFiniteSet(Outstanding' \cup Covered(target))
        /\ Cardinality(Outstanding' \cup Covered(target))
              <= Cardinality(Outstanding') + Cardinality(Covered(target))
    <3>1. /\ IsFiniteSet(Outstanding' \cup Covered(target))
          /\ Cardinality(Outstanding' \cup Covered(target))
                = Cardinality(Outstanding') + Cardinality(Covered(target))
                  - Cardinality(Outstanding' \cap Covered(target))
      BY <1>7, FS_Union
    <3>2. Cardinality(Outstanding' \cap Covered(target)) \in Nat
      BY <1>7, FS_Subset, FS_CardinalityType
    <3>3. QED
      BY <1>7, <3>1, <3>2
  <2>3. /\ Cardinality(Outstanding) <= Cardinality(Outstanding' \cup Covered(target))
        /\ Cardinality(Outstanding' \cup Covered(target)) \in Nat
    BY <2>1, <2>2, FS_Subset, FS_CardinalityType
  <2>4. QED
    BY <1>7, <2>2, <2>3, BacklogCounts
<1>9. backlog' + Cardinality(Uncounted') <= Cardinality(Outstanding')
  BY <1>1, <1>2, <1>7, <1>8, BacklogCounts DEF BacklogCovered
<1>10. QED
  BY <1>1, <1>9 DEF BacklogCovered

\* reclaim_checkpointed finds the checkpoint at the end of what is accounted for and no
\* reservation: nothing is left to checkpoint, so every append is counted and the queue is
\* empty.
LEMMA BacklogReset ==
    ASSUME TypeOK, Layers, BacklogCovered, QueuePlaced, ResetCheckpoint
    PROVE  BacklogCovered'
<1>1. /\ up /\ reserved = 0 /\ checkpoint = committed /\ worker = "reclaiming"
      /\ UNCHANGED <<frames, pc, backlog, pending>> /\ worker' = "resetting" /\ checkpoint' = 0
  BY DEF ResetCheckpoint, Deferred, appendVars
<1>2. \A b \in Batch : pc[b] # "written"
  BY <1>1, NoneWritten DEF Layers
<1>3. Accounted = Sound
  BY <1>2 DEF Accounted, Sound, InFile, TypeOK, Frame
<1>4. checkpoint = Total[Sound]
  BY <1>1, <1>3 DEF Layers, BytesAccounted
<1>5. \A f \in frames : f.start \in Nat /\ f.end \in Nat /\ f.start < f.end
  BY FrameTypes DEF Layers
<1>6. \A f \in frames : f.batch \in Sound => f.end <= checkpoint
  BY <1>4 DEF Layers, BytesAccounted
<1>7. checkpoint \in Nat
  BY DEF TypeOK
<1>8. \A f \in frames : f.start >= checkpoint => f.batch \notin Sound
  BY <1>5, <1>6, <1>7
<1>9. Outstanding = {}
  BY <1>5, <1>7, <1>8 DEF Outstanding, Sound, InFile
<1>10. Cardinality(Outstanding) = 0
  BY <1>9, FS_EmptySet
<1>11. backlog = 0 /\ Cardinality(Uncounted) = 0
  BY <1>10, BacklogCounts DEF BacklogCovered
<1>12. Uncounted = {}
  BY <1>11, BacklogCounts, FS_EmptySet
<1>13. pending = {}
  <2>1. \A f \in frames : f.batch \notin pending
    BY <1>1, <1>5, <1>7 DEF QueuePlaced
  <2>2. QED
    BY <2>1 DEF QueuePlaced, InFile
<1>14. Uncounted' = {} /\ backlog' = 0 /\ pending' = {}
  BY <1>1, <1>11, <1>12, <1>13 DEF Uncounted
<1>15. Cardinality(Outstanding') \in Nat
  <2>1. Outstanding' \in SUBSET Batch
    BY <1>1 DEF Outstanding, TypeOK, Frame
  <2>2. QED
    BY <2>1, FS_Subset, FS_CardinalityType, SizeAssumption
<1>16. backlog' + Cardinality(Uncounted') <= Cardinality(Outstanding')
  BY <1>14, <1>15, FS_EmptySet
<1>17. QED
  BY <1>14, <1>16 DEF BacklogCovered

\* An empty file has no backlog.
LEMMA BacklogTruncate ==
    ASSUME TypeOK, BacklogCovered, Truncate
    PROVE  BacklogCovered'
<1>1. UNCHANGED <<pc, backlog>> /\ frames' = {} /\ worker = "resetting" /\ worker' = "truncated"
  BY DEF Truncate, appendVars
<1>2. Uncounted' = {} /\ backlog' = 0
  BY <1>1 DEF BacklogCovered, Uncounted
<1>3. Outstanding' = {}
  BY <1>1 DEF Outstanding
<1>4. backlog' + Cardinality(Uncounted') <= Cardinality(Outstanding')
  BY <1>2, <1>3, FS_EmptySet
<1>5. QED
  BY <1>1, <1>4 DEF BacklogCovered

\* Recovery counts every frame at or after the checkpoint; no request is running.
LEMMA BacklogRecover ==
    ASSUME TypeOK, Layers, Recover
    PROVE  BacklogCovered'
<1> DEFINE S == {f \in frames : f.start >= checkpoint}
<1>1. /\ UNCHANGED <<frames, checkpoint, pc, worker>> /\ ~up
      /\ backlog' = Cardinality(S)
  BY DEF Recover, appendVars
<1>2. \A b \in Batch : pc[b] \notin {"failed", "written", "accounted", "sent"}
  BY <1>1 DEF Layers, BytesAccounted, RequestsPlaced, Admitted
<1>3. Uncounted' = {} /\ worker' # "resetting"
  BY <1>1, <1>2 DEF Uncounted, Layers, RequestsPlaced
<1>4. Outstanding' = {f.batch : f \in S}
  <2>1. \A f \in frames : f.batch \in Batch
    BY DEF TypeOK, Frame
  <2>2. QED
    BY <1>1, <1>2, <2>1 DEF Outstanding, Sound, InFile
<1>5. IsFiniteSet(Outstanding') /\ Cardinality(Outstanding') \in Nat
  <2>1. Outstanding' \in SUBSET Batch
    BY <1>4 DEF TypeOK, Frame
  <2>2. QED
    BY <2>1, FS_Subset, FS_CardinalityType, SizeAssumption
<1>6. Cardinality(S) <= Cardinality(Outstanding')
  <2> DEFINE m == [f \in S |-> f.batch]
  <2>1. m \in [S -> Outstanding']
    BY <1>4
  <2>2. \A f, g \in S : m[f] = m[g] => f = g
    BY DEF Layers, FramesLaidOut
  <2>3. m \in Injection(S, Outstanding')
    BY <2>1, <2>2 DEF Injection, IsInjective
  <2> HIDE DEF m, S
  <2>4. QED
    BY <2>3, <1>5, FS_Injection
<1>7. Cardinality(S) \in Nat
  <2>1. IsFiniteSet(S)
    BY FS_Subset DEF Layers, FramesLaidOut
  <2>2. QED
    BY <2>1, FS_CardinalityType
<1> HIDE DEF S
<1>8. backlog' + Cardinality(Uncounted') <= Cardinality(Outstanding')
  BY <1>1, <1>3, <1>5, <1>6, <1>7, FS_EmptySet
<1>9. QED
  BY <1>3, <1>8 DEF BacklogCovered

\* Every step of a running process keeps the backlog covered.
LEMMA BacklogStep ==
    ASSUME TypeOK, Layers, Running, BacklogCovered, QueuePlaced, Running', Next, ~Recover
    PROVE  BacklogCovered'
<1>1. ASSUME NEW b \in Batch, Append(b)
      PROVE  BacklogCovered'
  BY <1>1, BacklogAppendQuiet, BacklogWrite, BacklogAcknowledge DEF Append
<1>2. ASSUME UNCHANGED <<frames, checkpoint, pc, backlog>>, worker' # "resetting"
      PROVE  BacklogCovered'
  <2>1. Uncounted' = Uncounted
    BY <1>2 DEF Uncounted
  <2>2. Outstanding' = Outstanding
    BY <1>2 DEF Outstanding, Sound, InFile
  <2>3. QED
    BY <1>2, <2>1, <2>2, BacklogQuiet
<1>3. CASE Work
  <2> USE DEF diskVars, appendVars
  <2>1. CASE DeliverBatch
    BY <1>2, <2>1 DEF DeliverBatch
  <2>2. CASE SegmentExpiration \/ \E b \in Batch : Complete(b)
    BY <1>2, <2>2 DEF SegmentExpiration, Complete, workerVars
  <2>3. CASE NothingToCheckpoint \/ BeginReclaim
    BY <1>2, <2>3 DEF NothingToCheckpoint, BeginReclaim
  <2>4. CASE ReclaimDeferred \/ SendReclaimed
    BY <1>2, <2>4 DEF ReclaimDeferred, SendReclaimed
  <2>5. ~ReadFails /\ ~LocalWriteFails /\ ~WorkerRefused
    BY DEF ReadFails, LocalWriteFails, WorkerRefused, Running, Stopped
  <2>6. CASE AdvanceCheckpoint
    BY <2>6, BacklogAdvance DEF Running
  <2>7. QED
    BY <1>3, <2>1, <2>2, <2>3, <2>4, <2>5, <2>6, BacklogReset, BacklogTruncate DEF Work
<1>4. ~Crash
  BY DEF Crash, Running
<1>5. QED
  BY <1>1, <1>3, <1>4 DEF Next

-----------------------------------------------------------------------------
(* The generation of the extents, and the place of the queue.              *)

\* The types the reader's arithmetic needs.
LEMMA ReaderTypes ==
    ASSUME TypeOK
    PROVE  /\ reader.generation \in Nat /\ reader.position \in Nat /\ reader.end \in Nat
           /\ extent.generation \in Nat /\ extent.end \in Nat
           /\ generation \in Nat /\ committed \in Nat /\ checkpoint \in Nat
           /\ ReadFrom \in Nat /\ ReadTo \in Nat
           /\ \A b \in Batch : local[b].generation \in Nat /\ local[b].end \in Nat /\ Size[b] \in Nat
<1>1. /\ reader.generation \in Nat /\ reader.position \in Nat /\ reader.end \in Nat
      /\ extent.generation \in Nat /\ extent.end \in Nat
      /\ generation \in Nat /\ committed \in Nat /\ checkpoint \in Nat
  BY DEF TypeOK, Extent
<1>2. ReadFrom \in Nat /\ ReadTo \in Nat
  BY <1>1 DEF ReadFrom, ReadTo
<1>3. \A b \in Batch : local[b].generation \in Nat /\ local[b].end \in Nat /\ Size[b] \in Nat
  BY SizeAssumption DEF TypeOK, Extent
<1>4. QED
  BY <1>1, <1>2, <1>3

\* The worker always reads in the current generation, from the checkpoint on, behind what is
\* committed, and after everything it has queued.
LEMMA ReadsCurrent ==
    ASSUME TypeOK, ExtentsCurrent, QueuePlaced, worker \in {"reading", "waiting"}
    PROVE  /\ ReadGeneration = generation
           /\ checkpoint <= ReadFrom /\ ReadTo <= committed
           /\ \A f \in frames : f.batch \in pending => f.end <= ReadFrom
<1>1. extent.generation = generation
  BY DEF ExtentsCurrent
<1>2. ReadGeneration = generation
  BY <1>1 DEF ReadGeneration, ExtentsCurrent
<1>3. ReadTo <= committed
  BY <1>1 DEF ReadTo, ExtentsCurrent
<1>4. CASE reader.generation = generation
  BY <1>2, <1>3, <1>4 DEF ReadFrom, QueuePlaced
<1>5. CASE reader.generation # generation
  BY <1>2, <1>3, <1>5, ReaderTypes DEF ReadFrom, QueuePlaced
<1>6. QED
  BY <1>4, <1>5

\* A step that moves neither an extent nor the reader.
LEMMA ExtentsQuiet ==
    ASSUME TypeOK, ExtentsCurrent, UNCHANGED <<extent, local, generation, reader>>,
           committed' = committed,
           \A b \in Batch : pc'[b] = "accounted" => pc[b] = "accounted",
           \/ worker' = worker
           \/ worker' # "truncated" /\ worker # "truncated" /\ Following
           \/ worker' \in {"reading", "waiting"} /\ worker # "truncated"
    PROVE  ExtentsCurrent'
BY DEF ExtentsCurrent, Following

\* The requests' steps: only commit_reservation makes an extent, of the current generation.
LEMMA ExtentsAppend ==
    ASSUME TypeOK, ExtentsCurrent, NEW b \in Batch, Append(b)
    PROVE  ExtentsCurrent'
<1>1. UNCHANGED <<generation, reader, worker>>
      /\ \A c \in Batch \ {b} : pc'[c] = pc[c]
  <2> USE DEF Move, workerVars, accountVars, TypeOK
  <2>1. CASE Reserve(b) \/ Release(b) \/ AppendRefused(b)
    BY <2>1 DEF Reserve, Release, AppendRefused
  <2>2. CASE WriteFrame(b) \/ WriteFails(b)
    BY <2>2 DEF WriteFrame, WriteFails
  <2>3. CASE CommitReservation(b) \/ SendExtent(b)
    BY <2>3 DEF CommitReservation, SendExtent
  <2>4. CASE Acknowledge(b)
    BY <2>4 DEF Acknowledge
  <2>5. QED
    BY <2>1, <2>2, <2>3, <2>4 DEF Append
<1>2. CASE CommitReservation(b)
  <2>1. /\ committed' = committed + Size[b] /\ UNCHANGED extent
        /\ local'[b] = [generation |-> generation, end |-> committed + Size[b]]
        /\ \A c \in Batch \ {b} : local'[c] = local[c]
    BY <1>2 DEF CommitReservation, TypeOK
  <2>2. committed \in Nat /\ Size[b] \in Nat /\ committed <= committed'
    BY <2>1, ReaderTypes
  <2>3. local'[b].generation = generation' /\ local'[b].end <= committed'
    BY <1>1, <2>1, <2>2
  <2>4. \A c \in Batch : pc'[c] = "accounted" =>
            local'[c].generation = generation' /\ local'[c].end <= committed'
    BY <1>1, <2>1, <2>2, <2>3, ReaderTypes DEF ExtentsCurrent
  <2>5. /\ extent'.generation = generation' => extent'.end <= committed'
        /\ ~Following' => reader'.end <= committed'
    BY <1>1, <2>1, <2>2, ReaderTypes DEF ExtentsCurrent, Following
  <2>6. QED
    BY <1>1, <2>1, <2>4, <2>5 DEF ExtentsCurrent, Following
<1>3. CASE SendExtent(b)
  <2>1. /\ pc[b] = "accounted" /\ pc'[b] = "sent" /\ extent' = local[b]
        /\ UNCHANGED committed
        /\ \A c \in Batch \ {b} : local'[c] = local[c]
    BY <1>3 DEF SendExtent, Move, TypeOK, accountVars
  <2>2. extent'.generation = generation' /\ extent'.end <= committed'
    BY <1>1, <2>1 DEF ExtentsCurrent
  <2>3. QED
    BY <1>1, <2>1, <2>2, ReaderTypes DEF ExtentsCurrent, Following
<1>4. CASE ~CommitReservation(b) /\ ~SendExtent(b)
  <2>1. UNCHANGED <<extent, local, committed>> /\ pc'[b] # "accounted"
    <3> USE DEF Move, TypeOK, accountVars
    <3>1. CASE Reserve(b) \/ Release(b) \/ AppendRefused(b)
      BY <3>1 DEF Reserve, Release, AppendRefused
    <3>2. CASE WriteFrame(b) \/ WriteFails(b)
      BY <3>2 DEF WriteFrame, WriteFails
    <3>3. CASE Acknowledge(b)
      BY <3>3 DEF Acknowledge
    <3>4. QED
      BY <1>4, <3>1, <3>2, <3>3 DEF Append
  <2>2. \A c \in Batch : pc'[c] = "accounted" => pc[c] = "accounted"
    BY <1>1, <2>1
  <2>3. QED
    BY <1>1, <2>1, <2>2, ExtentsQuiet
<1>5. QED
  BY <1>2, <1>3, <1>4

\* The worker's steps: only a reclamation starts a generation, when no request holds an extent,
\* and the reader is only behind it until the reclamation is announced.
LEMMA ExtentsWork ==
    ASSUME TypeOK, Running, BacklogCovered, ExtentsCurrent, QueuePlaced, Work, Running'
    PROVE  ExtentsCurrent'
<1> USE DEF diskVars, accountVars, appendVars, workerVars
<1>1. ASSUME worker \in {"reading", "waiting"}, worker' # "truncated",
             UNCHANGED <<extent, local, generation, committed, pc>>,
             reader'.generation = ReadGeneration, reader'.end = reader.end,
             \/ reader'.state = "following"
             \/ reader'.state = reader.state /\ worker' = "reading"
      PROVE  ExtentsCurrent'
  <2>1. reader'.generation = generation'
    BY <1>1, ReadsCurrent
  <2>2. QED
    BY <1>1, <2>1, ReaderTypes DEF ExtentsCurrent, Following
<1>2. CASE DeliverBatch
  <2>1. PICK f \in frames :
           /\ reader' = [reader EXCEPT !.position = f.end, !.generation = ReadGeneration]
           /\ worker' \in {"duplicate", "reading"}
    BY <1>2 DEF DeliverBatch, FrameToRead
  <2>2. /\ worker \in {"reading", "waiting"} /\ worker' = "reading"
        /\ UNCHANGED <<extent, local, generation, committed, pc>>
    BY <1>2, <2>1 DEF DeliverBatch, Running, Stopped
  <2>3. /\ reader'.generation = ReadGeneration /\ reader'.end = reader.end
        /\ reader'.state = reader.state
    BY <2>1 DEF TypeOK
  <2>4. QED
    BY <1>1, <2>2, <2>3
<1>3. NoMoreBatches => /\ reader'.generation = ReadGeneration /\ reader'.end = reader.end
                       /\ reader'.state = "following"
  BY DEF NoMoreBatches, TypeOK
<1>4. CASE NothingToCheckpoint \/ AdvanceCheckpoint
  <2>1. /\ worker = "reading" /\ worker' # "truncated" /\ NoMoreBatches
        /\ UNCHANGED <<extent, local, generation, committed, pc>>
    BY <1>4 DEF NothingToCheckpoint, AdvanceCheckpoint
  <2>2. QED
    BY <1>1, <1>3, <2>1
<1>5. CASE SegmentExpiration
  BY <1>5, ExtentsQuiet DEF SegmentExpiration
<1>6. CASE \E b \in Batch : Complete(b)
  BY <1>6, ExtentsQuiet DEF Complete
<1>7. CASE BeginReclaim
  <2>1. Following
    BY <1>7 DEF BeginReclaim, ExtentsCurrent
  <2>2. QED
    BY <1>7, <2>1, ExtentsQuiet DEF BeginReclaim
<1>8. CASE ReclaimDeferred
  BY <1>8, ExtentsQuiet DEF ReclaimDeferred
<1>9. CASE ResetCheckpoint
  <2>1. Following
    BY <1>9 DEF ResetCheckpoint, ExtentsCurrent
  <2>2. QED
    BY <1>9, <2>1, ExtentsQuiet DEF ResetCheckpoint
<1>10. CASE Truncate
  <2>1. /\ UNCHANGED <<extent, local, reader, pc>> /\ worker = "resetting" /\ worker' = "truncated"
        /\ generation' = generation + 1
    BY <1>10 DEF Truncate
  <2>2. /\ Following /\ reader.generation <= generation /\ extent.generation <= generation
        /\ \A b \in Batch : pc[b] # "accounted"
    BY <2>1 DEF ExtentsCurrent, BacklogCovered, Uncounted
  <2>3. /\ reader'.generation <= generation' /\ extent'.generation <= generation'
        /\ reader'.generation # generation' /\ extent'.generation # generation'
    BY <2>1, <2>2, ReaderTypes
  <2>4. QED
    BY <2>1, <2>2, <2>3 DEF ExtentsCurrent, Following
<1>11. CASE SendReclaimed
  <2>1. /\ UNCHANGED <<local, generation, reader, pc, committed>> /\ worker = "truncated" /\ worker' = "waiting"
        /\ extent' = [generation |-> generation, end |-> 0]
    BY <1>11 DEF SendReclaimed
  <2>2. /\ extent'.generation = generation' /\ extent'.generation <= generation'
        /\ extent'.end <= committed'
    BY <2>1, ReaderTypes
  <2>3. QED
    BY <2>1, <2>2 DEF ExtentsCurrent, Following
<1>12. ~ReadFails /\ ~LocalWriteFails /\ ~WorkerRefused
  BY DEF ReadFails, LocalWriteFails, WorkerRefused, Running, Stopped
<1>13. QED
  BY <1>2, <1>4, <1>5, <1>6, <1>7, <1>8, <1>9, <1>10, <1>11, <1>12 DEF Work

\* A step that leaves the checkpoint, the reader and the queue alone, and at most appends a
\* frame.
LEMMA QueueQuiet ==
    ASSUME TypeOK, Layers, QueuePlaced, UNCHANGED <<reader, generation, checkpoint, pending>>,
           committed' \in Nat, committed <= committed',
           \/ UNCHANGED frames
           \/ \E b \in Batch : pc[b] = "reserved" /\ frames' = frames \cup {NextFrame(b)}
    PROVE  QueuePlaced'
<1>1. InFile \subseteq InFile'
  BY DEF InFile
<1>2. \A f \in frames' : f.batch \in pending => f \in frames
  <2>1. ASSUME NEW b \in Batch, pc[b] = "reserved" PROVE b \notin pending
    BY <2>1 DEF Layers, RequestsPlaced, QueuePlaced
  <2>2. QED
    BY <2>1 DEF NextFrame
<1>3. \A f \in frames : f.batch \in pending => f.end <= committed'
  BY FrameTypes, ReaderTypes DEF QueuePlaced, Layers
<1>4. QED
  BY <1>1, <1>2, <1>3 DEF QueuePlaced

\* The requests' steps leave the queue where it is.
LEMMA QueueAppend ==
    ASSUME TypeOK, TypeOK', Layers, QueuePlaced, NEW b \in Batch, Append(b)
    PROVE  QueuePlaced'
<1> USE ReaderTypes, QueueQuiet DEF diskVars, accountVars, workerVars
<1>0. committed' \in Nat /\ committed \in Nat /\ Size[b] \in Nat
  BY DEF TypeOK
<1>1. CASE Reserve(b)
  BY <1>0, <1>1 DEF Reserve
<1>2. CASE Release(b) \/ AppendRefused(b)
  BY <1>0, <1>2 DEF Release, AppendRefused
<1>3. CASE WriteFrame(b)
  BY <1>0, <1>3 DEF WriteFrame
<1>4. CASE WriteFails(b)
  BY <1>0, <1>4 DEF WriteFails, PartialWrite
<1>5. CASE CommitReservation(b)
  BY <1>0, <1>5 DEF CommitReservation
<1>6. CASE SendExtent(b)
  BY <1>0, <1>6 DEF SendExtent
<1>7. CASE Acknowledge(b)
  BY <1>0, <1>7 DEF Acknowledge
<1>8. QED
  BY <1>1, <1>2, <1>3, <1>4, <1>5, <1>6, <1>7 DEF Append

\* The worker's steps: a batch is queued after what the reader had delivered, and a checkpoint
\* takes a prefix of the queue.
LEMMA QueueWork ==
    ASSUME TypeOK, Layers, Running, BacklogCovered, ExtentsCurrent, QueuePlaced, Work, Running'
    PROVE  QueuePlaced'
<1> USE DEF diskVars, accountVars, appendVars, workerVars
<1>1. CASE DeliverBatch
  <2>1. PICK f \in FrameToRead :
          /\ reader' = [reader EXCEPT !.position = f.end, !.generation = ReadGeneration]
          /\ pending' = pending \cup {f.batch}
    BY <1>1 DEF DeliverBatch
  <2>2. /\ UNCHANGED <<frames, generation, checkpoint, committed>>
        /\ worker \in {"reading", "waiting"}
    BY <1>1 DEF DeliverBatch
  <2>3. /\ ReadGeneration = generation /\ checkpoint <= ReadFrom /\ ReadTo <= committed
        /\ \A g \in frames : g.batch \in pending => g.end <= ReadFrom
    BY <2>2, ReadsCurrent
  <2>4. f \in frames /\ f.start = ReadFrom /\ f.end <= ReadTo
    BY DEF FrameToRead
  <2>5. reader'.generation = generation' /\ reader'.position = f.end
    BY <2>1, <2>2, <2>3 DEF TypeOK
  <2>6. /\ checkpoint' <= f.start /\ f.start < f.end /\ f.end <= committed'
        /\ checkpoint' <= f.end
    BY <2>2, <2>3, <2>4, FrameTypes, ReaderTypes DEF Layers
  <2>7. \A g \in frames : g.batch = f.batch => g = f
    BY <2>4 DEF Layers, FramesLaidOut
  <2>8. \A g \in frames : g.batch \in pending => g.end <= f.end
    BY <2>3, <2>4, <2>6, FrameTypes, ReaderTypes DEF Layers
  <2>9. \A g \in frames' : g.batch \in pending' =>
           checkpoint' <= g.start /\ g.end <= committed' /\ g.end <= reader'.position
    <3>1. ASSUME NEW g \in frames, g.batch \in pending
          PROVE  checkpoint' <= g.start /\ g.end <= committed' /\ g.end <= reader'.position
      BY <2>2, <2>5, <2>8, <3>1 DEF QueuePlaced
    <3>2. checkpoint' <= f.start /\ f.end <= committed' /\ f.end <= reader'.position
      BY <2>4, <2>5, <2>6, FrameTypes DEF Layers
    <3>3. QED
      BY <2>1, <2>2, <2>7, <3>1, <3>2
  <2>10. pending' \subseteq InFile'
    BY <2>1, <2>2, <2>4 DEF QueuePlaced, InFile
  <2>11. QED
    BY <2>5, <2>6, <2>9, <2>10 DEF QueuePlaced
<1>2. ASSUME NoMoreBatches, worker = "reading"
      PROVE  /\ reader'.generation = generation /\ reader'.position = ReadFrom
             /\ checkpoint <= ReadFrom
             /\ \A f \in frames : f.batch \in pending => f.end <= ReadFrom
  BY <1>2, ReadsCurrent DEF NoMoreBatches, TypeOK
<1>3. CASE NothingToCheckpoint
  <2>1. UNCHANGED <<frames, generation, checkpoint, committed, pending>>
        /\ NoMoreBatches /\ worker = "reading"
    BY <1>3 DEF NothingToCheckpoint
  <2>2. InFile' = InFile
    BY <2>1 DEF InFile
  <2>3. QED
    BY <1>2, <2>1, <2>2 DEF QueuePlaced
<1>4. CASE AdvanceCheckpoint
  <2>1. PICK target \in PlanTargets :
           checkpoint' = target /\ pending' = pending \ Covered(target)
    BY <1>4 DEF AdvanceCheckpoint
  <2>2. UNCHANGED <<frames, generation, committed>> /\ NoMoreBatches /\ worker = "reading"
    BY <1>4 DEF AdvanceCheckpoint
  <2>3. PICK g \in frames : target = g.end /\ g.batch \in pending
    BY DEF PlanTargets
  <2>4. reader'.generation = generation' /\ checkpoint' <= reader'.position
    BY <1>2, <2>1, <2>2, <2>3
  <2>5. ASSUME NEW f \in frames, f.batch \in pending'
        PROVE  checkpoint' <= f.start
    <3>1. f.batch \in pending /\ ~(f.end <= target)
      BY <2>1, <2>5 DEF Covered
    <3>2. f # g /\ (f.end <= g.start \/ g.end <= f.start)
      BY <2>3, <3>1, FrameTypes DEF Layers, FramesLaidOut
    <3>3. QED
      BY <2>1, <2>3, <3>1, <3>2, FrameTypes DEF Layers
  <2>6. \A f \in frames : f.batch \in pending' => f.end <= committed /\ f.end <= reader'.position
    BY <1>2, <2>1, <2>2 DEF QueuePlaced
  <2>7. pending' \subseteq InFile'
    BY <2>1, <2>2 DEF QueuePlaced, InFile
  <2>8. QED
    BY <2>2, <2>4, <2>5, <2>6, <2>7 DEF QueuePlaced
<1>5. ASSUME UNCHANGED <<frames, generation, checkpoint, committed, pending, reader>>
      PROVE  QueuePlaced'
  BY <1>5, QueueQuiet, ReaderTypes
<1>6. CASE SegmentExpiration \/ \E b \in Batch : Complete(b)
  BY <1>5, <1>6 DEF SegmentExpiration, Complete
<1>7. CASE BeginReclaim \/ ReclaimDeferred \/ SendReclaimed
  BY <1>5, <1>7 DEF BeginReclaim, ReclaimDeferred, SendReclaimed
<1>8. CASE ResetCheckpoint
  <2>1. UNCHANGED <<frames, generation, committed, pending, reader>> /\ checkpoint' = 0
    BY <1>8 DEF ResetCheckpoint
  <2>2. InFile' = InFile
    BY <2>1 DEF InFile
  <2>3. QED
    BY <2>1, <2>2, ReaderTypes, FrameTypes DEF QueuePlaced, Layers
<1>9. CASE Truncate
  <2>1. /\ UNCHANGED <<checkpoint, pending, reader>> /\ frames' = {}
        /\ generation' = generation + 1 /\ up /\ worker = "resetting"
    BY <1>9 DEF Truncate
  <2>2. pending = {} /\ checkpoint = 0
    BY <2>1 DEF BacklogCovered, Layers, CheckpointSound
  <2>3. QED
    BY <2>1, <2>2, ReaderTypes DEF QueuePlaced
<1>10. ~ReadFails /\ ~LocalWriteFails /\ ~WorkerRefused
  BY DEF ReadFails, LocalWriteFails, WorkerRefused, Running, Stopped
<1>11. QED
  BY <1>1, <1>3, <1>4, <1>6, <1>7, <1>8, <1>9, <1>10 DEF Work

\* After a recovery the reader starts at the checkpoint, in the first generation, with an empty
\* queue.
LEMMA ReaderRecover ==
    ASSUME TypeOK, Layers, Recover, ~up => generation = 0 /\ pending = {} /\ worker = "reading"
    PROVE  ExtentsCurrent' /\ QueuePlaced'
<1>1. /\ UNCHANGED <<frames, checkpoint, generation, pc, worker, pending>>
      /\ committed' = ScanEnd /\ extent' = [generation |-> 0, end |-> ScanEnd]
      /\ reader' = [state |-> "recovery", position |-> checkpoint, end |-> ScanEnd, generation |-> 0]
      /\ ~up /\ generation = 0 /\ pending = {} /\ worker = "reading"
  BY DEF Recover, appendVars
<1>2. ScanEnd \in Nat
  BY TotalAssumption DEF ScanEnd, TypeOK, Frame
<1>3. \A b \in Batch : pc[b] # "accounted"
  BY <1>1 DEF Layers, RequestsPlaced, Admitted
<1>4. ExtentsCurrent'
  BY <1>1, <1>2, <1>3 DEF ExtentsCurrent, Following
<1>5. QueuePlaced'
  BY <1>1, ReaderTypes DEF QueuePlaced
<1>6. QED
  BY <1>4, <1>5

\* A new spool satisfies the reader's invariant.
LEMMA ReaderInit == Init => ReaderInvariant
<1> SUFFICES ASSUME Init PROVE ReaderInvariant
  OBVIOUS
<1>1. Uncounted = {} /\ Outstanding = {} /\ Cardinality({}) = 0
  BY FS_EmptySet DEF Init, Uncounted, Outstanding
<1>2. BacklogCovered
  BY <1>1 DEF Init, BacklogCovered
<1>3. ExtentsCurrent
  BY DEF Init, ExtentsCurrent, NoExtent, Following
<1>4. QueuePlaced
  BY DEF Init, QueuePlaced
<1>5. FramesLinked
  BY DEF Init, FramesLinked
<1>6. QED
  BY <1>2, <1>3, <1>4, <1>5 DEF Init, ReaderInvariant

\* A process that runs after a step ran before it, unless the step is its recovery.
LEMMA RunningBefore ==
    ASSUME Next, Running'
    PROVE  Running \/ Recover
<1> USE DEF Running, Stopped
<1>1. ASSUME NEW b \in Batch, Append(b) PROVE Running
  <2> USE DEF workerVars
  <2>1. CASE Reserve(b) \/ Release(b) \/ AppendRefused(b)
    BY <2>1 DEF Reserve, Release, AppendRefused
  <2>2. CASE WriteFrame(b) \/ WriteFails(b)
    BY <2>2 DEF WriteFrame, WriteFails
  <2>3. CASE CommitReservation(b) \/ SendExtent(b) \/ Acknowledge(b)
    BY <2>3 DEF CommitReservation, SendExtent, Acknowledge
  <2>4. QED
    BY <1>1, <2>1, <2>2, <2>3 DEF Append
<1>2. ASSUME Work PROVE Running
  <2>1. CASE DeliverBatch \/ ReadFails \/ SegmentExpiration \/ \E b \in Batch : Complete(b)
    BY <2>1 DEF DeliverBatch, ReadFails, SegmentExpiration, Complete
  <2>2. CASE NothingToCheckpoint \/ AdvanceCheckpoint \/ LocalWriteFails \/ WorkerRefused
    BY <2>2 DEF NothingToCheckpoint, AdvanceCheckpoint, LocalWriteFails, WorkerRefused
  <2>3. CASE BeginReclaim \/ ReclaimDeferred \/ ResetCheckpoint \/ Truncate \/ SendReclaimed
    BY <2>3 DEF BeginReclaim, ReclaimDeferred, ResetCheckpoint, Truncate, SendReclaimed
  <2>4. QED
    BY <1>2, <2>1, <2>2, <2>3 DEF Work
<1>3. ~Crash
  BY DEF Crash
<1>4. QED
  BY <1>1, <1>2, <1>3 DEF Next

\* A process that is down stays as its crash left it, until it recovers.
LEMMA DownKept ==
    ASSUME TypeOK, ReaderInvariant, Next, ~up'
    PROVE  generation' = 0 /\ pending' = {} /\ worker' = "reading"
<1>1. ASSUME NEW b \in Batch, Append(b) PROVE FALSE
  <2>1. CASE Reserve(b) \/ Release(b) \/ AppendRefused(b)
    <3>1. CASE Reserve(b)
      BY <3>1 DEF Reserve
    <3>2. CASE Release(b)
      BY <3>2 DEF Release
    <3>3. CASE AppendRefused(b)
      BY <3>3 DEF AppendRefused
    <3>4. QED
      BY <2>1, <3>1, <3>2, <3>3
  <2>2. CASE WriteFrame(b) \/ WriteFails(b)
    BY <2>2 DEF WriteFrame, WriteFails
  <2>3. CASE CommitReservation(b) \/ SendExtent(b) \/ Acknowledge(b)
    BY <2>3 DEF CommitReservation, SendExtent, Acknowledge
  <2>4. QED
    BY <1>1, <2>1, <2>2, <2>3 DEF Append
<1>2. ASSUME Work PROVE FALSE
  <2>1. CASE ReadFails \/ SegmentExpiration
    BY <2>1 DEF ReadFails, SegmentExpiration
  <2>2. CASE NothingToCheckpoint \/ AdvanceCheckpoint \/ LocalWriteFails \/ WorkerRefused
    BY <2>2 DEF NothingToCheckpoint, AdvanceCheckpoint, LocalWriteFails, WorkerRefused
  <2>3. CASE BeginReclaim \/ ReclaimDeferred \/ ResetCheckpoint \/ Truncate \/ SendReclaimed
    BY <2>3 DEF BeginReclaim, ReclaimDeferred, ResetCheckpoint, Truncate, SendReclaimed
  <2>4. ASSUME NEW b \in Batch, Complete(b) PROVE FALSE
    BY <2>4 DEF Complete
  <2>5. CASE DeliverBatch
    <3>1. up /\ up' = up
      BY <2>5 DEF DeliverBatch
    <3>2. QED
      BY <3>1
  <2>6. QED
    BY <1>2, <2>1, <2>2, <2>3, <2>4, <2>5 DEF Work
<1>3. ~Recover
  BY DEF Recover
<1>4. QED
  BY <1>1, <1>2, <1>3 DEF Next, Crash

\* Every step keeps the reader's invariant.
LEMMA ReaderStep ==
    TypeOK /\ Layers /\ ReaderInvariant /\ TypeOK' /\ [Next]_vars => ReaderInvariant'
<1> SUFFICES ASSUME TypeOK, Layers, ReaderInvariant, TypeOK', [Next]_vars PROVE ReaderInvariant'
  OBVIOUS
<1>1. FramesLinked'
  BY LinkedStep DEF ReaderInvariant
<1>2. CASE UNCHANGED vars
  <2>1. UNCHANGED <<diskVars, up, failed, accountVars, extent, appendVars, workerVars, backlog>>
    BY <1>2 DEF vars
  <2>2. UNCHANGED <<Running, Uncounted, Outstanding, InFile, Following>>
    BY <2>1 DEF diskVars, appendVars, workerVars, Running, Uncounted, Outstanding, Sound,
                InFile, Following
  <2>3. UNCHANGED <<BacklogCovered, ExtentsCurrent, QueuePlaced>>
    BY <2>1, <2>2 DEF diskVars, accountVars, appendVars, workerVars,
                      BacklogCovered, ExtentsCurrent, QueuePlaced
  <2>4. QED
    BY <1>1, <2>1, <2>2, <2>3 DEF ReaderInvariant, accountVars, workerVars
<1>3. ASSUME Next, Running' PROVE BacklogCovered' /\ ExtentsCurrent' /\ QueuePlaced'
  <2>1. CASE Recover
    BY <2>1, BacklogRecover, ReaderRecover DEF ReaderInvariant
  <2>2. CASE ~Recover
    <3>1. Running /\ BacklogCovered /\ ExtentsCurrent /\ QueuePlaced
      BY <1>3, <2>2, RunningBefore DEF ReaderInvariant
    <3>2. BacklogCovered'
      BY <1>3, <2>2, <3>1, BacklogStep
    <3>3. CASE Work
      BY <1>3, <3>1, <3>2, <3>3, ExtentsWork, QueueWork
    <3>4. ASSUME NEW b \in Batch, Append(b) PROVE ExtentsCurrent' /\ QueuePlaced'
      BY <3>1, <3>4, ExtentsAppend, QueueAppend
    <3>5. ~Crash
      BY <1>3 DEF Crash, Running
    <3>6. QED
      BY <1>3, <2>2, <3>2, <3>3, <3>4, <3>5 DEF Next
  <2>3. QED
    BY <2>1, <2>2
<1>4. CASE Next
  BY <1>1, <1>3, <1>4, DownKept DEF ReaderInvariant
<1>5. QED
  BY <1>2, <1>4

\* The backlog, the extents and the queue, in every reachable state.
THEOREM ReaderInvariantCorrect == Spec => []ReaderInvariant
<1>1. TypeOK /\ Layers /\ ReaderInvariant /\ TypeOK' /\ [Next]_vars => ReaderInvariant'
  BY ReaderStep
<1>2. QED
  BY <1>1, ReaderInit, SpoolInvariant, PTL DEF Spec

\* plan_checkpoint and advance_checkpoint never refuse the worker's queue, whatever the order in
\* which appends and reclamations announce their extents, for any number of requests: a request
\* that still holds an extent of the old generation would have kept the backlog from covering
\* the checkpoint, so the worker stops with an underflow before it can reclaim.
THEOREM PlanAlwaysAccepted == Spec => []PlanAccepted
<1>1. TypeOK /\ Layers /\ ReaderInvariant => PlanAccepted
  <2> SUFFICES ASSUME TypeOK, Layers, ReaderInvariant, up, worker = "reading"
               PROVE  ~PlanRejected
    BY DEF PlanAccepted
  <2>1. QueuePlaced
    BY DEF ReaderInvariant, Running, Stopped
  <2>2. \A f \in frames : f.batch \in pending => ~(f.start < checkpoint) /\ ~(f.end > committed)
    BY <2>1, FrameTypes, ReaderTypes DEF QueuePlaced, Layers
  <2>3. QED
    BY <2>2 DEF PlanRejected, PlanTargets
<1>2. QED
  BY <1>1, ReaderInvariantCorrect, SpoolInvariant, PTL

-----------------------------------------------------------------------------
(* Serial announcements.                                                   *)

\* The worker reads from a boundary to a boundary.
LEMMA ReadsOnBoundary ==
    ASSUME TypeOK, ExtentsCurrent, QueuePlaced, ExtentsOnBoundary, ReaderOnBoundary,
           worker \in {"reading", "waiting"}
    PROVE  Boundary(ReadFrom) /\ Boundary(ReadTo) /\ ReadFrom <= ReadTo /\ ReadTo <= extent.end
<1>1. /\ extent.generation = generation /\ ReadGeneration = generation
      /\ ~Following => reader.generation = generation
  BY ReadsCurrent DEF ExtentsCurrent
<1>2. Boundary(0)
  BY DEF Boundary
<1>3. CASE Following
  <2>1. ReadTo = extent.end /\ Boundary(ReadTo)
    BY <1>1, <1>3 DEF ReadTo, ExtentsOnBoundary
  <2>2. CASE reader.generation = generation
    BY <1>1, <1>3, <2>1, <2>2, ReaderTypes DEF ReadFrom, ReaderOnBoundary
  <2>3. CASE reader.generation # generation
    BY <1>1, <1>2, <2>1, <2>3, ReaderTypes DEF ReadFrom
  <2>4. QED
    BY <2>2, <2>3
<1>4. CASE ~Following
  BY <1>1, <1>4 DEF ReadFrom, ReadTo, ReaderOnBoundary
<1>5. QED
  BY <1>3, <1>4

\* So there is a frame to read before the end of the range, and it was not delivered before.
LEMMA FrameReadable ==
    ASSUME TypeOK, Layers, Running, ReaderInvariant, ExtentsOnBoundary, ReaderOnBoundary,
           worker \in {"reading", "waiting"}
    PROVE  /\ ReadFrom <= ReadTo
           /\ ReadFrom < ReadTo => FrameToRead # {}
           /\ \A f \in FrameToRead : f.batch \notin pending
<1>1. ExtentsCurrent /\ QueuePlaced /\ FramesLinked
  BY DEF ReaderInvariant
<1>2. /\ Boundary(ReadFrom) /\ Boundary(ReadTo) /\ ReadFrom <= ReadTo
      /\ ReadFrom \in Nat /\ ReadTo \in Nat
  BY <1>1, ReadsOnBoundary, ReaderTypes
<1>3. ASSUME ReadFrom < ReadTo PROVE FrameToRead # {}
  <2>1. PICK h \in frames : h.end = ReadTo
    BY <1>2, <1>3 DEF Boundary
  <2>2. FramesLaidOut /\ \A f \in frames : f.end <= Total[InFile]
    BY DEF Layers, BytesAccounted
  <2>3. \E f \in frames : f.start = ReadFrom /\ f.end <= h.end
    BY <1>1, <1>2, <1>3, <2>1, <2>2, FrameAtBoundary
  <2>4. QED
    BY <2>1, <2>3 DEF FrameToRead
<1>4. ASSUME NEW f \in FrameToRead PROVE f.batch \notin pending
  <2>1. f \in frames /\ f.start = ReadFrom /\ f.start < f.end /\ f.start \in Nat /\ f.end \in Nat
    BY FrameTypes DEF FrameToRead, Layers
  <2>2. worker \in {"reading", "waiting"} /\ (f.batch \in pending => f.end <= ReadFrom)
    BY <1>1, <2>1, ReadsCurrent
  <2>3. QED
    BY <2>1, <2>2
<1>5. QED
  BY <1>2, <1>3, <1>4

\* What is a boundary stays one until the file is truncated.
LEMMA BoundaryKept ==
    ASSUME frames \subseteq frames'
    PROVE  \A p : Boundary(p) => Boundary(p)'
BY DEF Boundary

\* A step of the worker that leaves the file, the requests and the channel alone.
LEMMA BoundaryQuiet ==
    ASSUME TypeOK, ExtentsOnBoundary,
           UNCHANGED <<frames, pc, local, committed, generation, extent>>
    PROVE  ExtentsOnBoundary'
<1>1. UNCHANGED Sound /\ \A p : Boundary(p)' = Boundary(p)
  BY DEF Sound, InFile, Boundary
<1>2. QED
  BY <1>1 DEF ExtentsOnBoundary

\* The requests' steps.  Only the request that has a frame to announce may account for it or
\* write, so its frame is the last one and its extent ends with it.
LEMMA BoundaryAppend ==
    ASSUME TypeOK, Layers, TypeOK', Layers', Running, ExtentsCurrent, ExtentsOnBoundary,
           AnnouncesSerially', NEW b \in Batch, Append(b)
    PROVE  ExtentsOnBoundary'
<1>1. \A f \in frames : f.batch \in Batch
  BY DEF TypeOK, Frame
<1>2. CASE WriteFrame(b)
  <2>1. /\ UNCHANGED <<extent, local, generation, committed>>
        /\ up /\ ~failed /\ ~failed' /\ frames' = frames \cup {NextFrame(b)}
        /\ pc[b] = "reserved" /\ \A c \in Batch : pc'[c] = IF c = b THEN "written" ELSE pc[c]
    BY <1>2 DEF WriteFrame, Move, accountVars, TypeOK
  <2>2. /\ InFile' = InFile \cup {b} /\ b \notin InFile
        /\ Total[InFile]' = fileEnd + Size[b]
        /\ \A p : Boundary(p) => Boundary(p)'
    BY <2>1, FrameAppended
  <2>3. Sound' = InFile'
    BY <1>1, <2>1, <2>2 DEF Layers, BytesAccounted, Sound, InFile
  <2>4. \A c \in Batch : pc'[c] \in {"written", "accounted"} => c = b
    BY <2>1 DEF AnnouncesSerially
  <2>5. \A f \in frames' : f.batch = b => f.end = fileEnd + Size[b]
    BY <2>1, <2>2 DEF NextFrame, InFile
  <2>6. \A f \in frames' : f.batch \in Batch
    BY DEF TypeOK, Frame
  <2>7. \A f \in frames' : pc'[f.batch] \in {"written", "accounted"} => f.end = Total[Sound]'
    BY <2>2, <2>3, <2>4, <2>5, <2>6
  <2>8. \A c \in Batch : pc'[c] # "accounted"
    BY <2>1, <2>4
  <2>9. QED
    BY <2>1, <2>2, <2>7, <2>8 DEF ExtentsOnBoundary
<1>3. CASE CommitReservation(b)
  <2>1. /\ UNCHANGED <<frames, extent, generation, up, worker>>
        /\ local'[b].end = committed' /\ \A c \in Batch \ {b} : local'[c] = local[c]
        /\ pc[b] = "written" /\ \A c \in Batch : pc'[c] = IF c = b THEN "accounted" ELSE pc[c]
    BY <1>3 DEF CommitReservation, Move, diskVars, workerVars, TypeOK
  <2>2. \A p : Boundary(p)' = Boundary(p)
    BY <2>1 DEF Boundary
  <2>3. Sound' = Sound
    BY <1>1, <2>1 DEF Sound, InFile
  <2>4. \A c \in Batch : pc'[c] \in {"written", "accounted"} => c = b
    BY <2>1 DEF AnnouncesSerially
  <2>5. Accounted' = Sound'
    BY <1>1, <2>1, <2>4 DEF Accounted, Sound, InFile
  <2>6. committed' = Total[Sound']
    BY <2>1, <2>5 DEF Layers, BytesAccounted, Running, Stopped
  <2>7. PICK f \in frames : f.batch = b /\ f.end = Total[Sound]
    BY <2>1 DEF Layers, RequestsPlaced, InFile, ExtentsOnBoundary
  <2>8. Boundary(committed)'
    BY <2>1, <2>3, <2>6, <2>7 DEF Boundary
  <2>9. \A g \in frames' : pc'[g.batch] \in {"written", "accounted"} => g.end = Total[Sound]'
    BY <1>1, <2>1, <2>3 DEF ExtentsOnBoundary
  <2>10. \A c \in Batch : pc'[c] = "accounted" => local'[c].end = committed' /\ Boundary(local[c].end)'
    <3>1. Boundary(local[b].end)'
      BY <2>1, <2>8 DEF Boundary
    <3>2. QED
      BY <2>1, <2>4, <3>1
  <2>11. QED
    BY <2>1, <2>2, <2>9, <2>10 DEF ExtentsOnBoundary
<1>4. CASE SendExtent(b)
  <2>1. /\ UNCHANGED <<frames, committed, generation>> /\ extent' = local[b]
        /\ pc[b] = "accounted" /\ \A c \in Batch : pc'[c] = IF c = b THEN "sent" ELSE pc[c]
        /\ \A c \in Batch \ {b} : local'[c] = local[c]
    BY <1>4 DEF SendExtent, Move, diskVars, accountVars, TypeOK
  <2>2. \A p : Boundary(p)' = Boundary(p)
    BY <2>1 DEF Boundary
  <2>3. Sound' = Sound
    BY <1>1, <2>1 DEF Sound, InFile
  <2>4. QED
    BY <1>1, <2>1, <2>2, <2>3 DEF ExtentsOnBoundary
<1>5. CASE Reserve(b) \/ Release(b) \/ AppendRefused(b) \/ Acknowledge(b) \/ WriteFails(b)
  <2>1. /\ UNCHANGED <<extent, local, generation, committed>>
        /\ pc'[b] \in {"reserved", "refused", "acked", "failed"}
        /\ \A c \in Batch \ {b} : pc'[c] = pc[c]
        /\ \/ UNCHANGED frames /\ pc'[b] # "failed" /\ pc[b] # "failed"
           \/ /\ pc[b] = "reserved"
              /\ UNCHANGED frames \/ (frames' = frames \cup {NextFrame(b)} /\ pc'[b] = "failed")
    <3> USE DEF Move, diskVars, accountVars, TypeOK
    <3>1. CASE Reserve(b) \/ Release(b) \/ AppendRefused(b)
      BY <3>1 DEF Reserve, Release, AppendRefused
    <3>2. CASE Acknowledge(b)
      BY <3>2 DEF Acknowledge
    <3>3. CASE WriteFails(b)
      BY <3>3 DEF WriteFails, PartialWrite
    <3>4. QED
      BY <1>5, <3>1, <3>2, <3>3
  <2>2. \A p : Boundary(p) => Boundary(p)'
    BY <2>1 DEF Boundary
  <2>3. pc[b] = "reserved" => \A f \in frames : f.batch # b
    BY DEF Layers, RequestsPlaced, InFile
  <2>4. \A f \in frames' : f \in frames \/ (f.batch = b /\ pc'[b] = "failed")
    BY <2>1 DEF NextFrame
  <2>5. Sound' = Sound
    <3>1. \A f \in frames : f \in frames' /\ (pc'[f.batch] = "failed" <=> pc[f.batch] = "failed")
      BY <1>1, <2>1, <2>3
    <3>2. QED
      BY <2>4, <3>1 DEF Sound, InFile
  <2>6. \A f \in frames' : pc'[f.batch] \in {"written", "accounted"} =>
                              f \in frames /\ pc[f.batch] \in {"written", "accounted"}
    BY <1>1, <2>1, <2>4
  <2>7. QED
    BY <2>1, <2>2, <2>5, <2>6 DEF ExtentsOnBoundary
<1>6. QED
  BY <1>2, <1>3, <1>4, <1>5 DEF Append

\* The worker's steps and a recovery: a truncation finds no extent to announce, and both the
\* announcement of a reclamation and a recovery give an extent on a boundary.
LEMMA BoundaryWork ==
    ASSUME TypeOK, Layers, Running, ReaderInvariant, ExtentsOnBoundary, Work, Running'
    PROVE  ExtentsOnBoundary'
<1> USE DEF diskVars, accountVars, appendVars, workerVars
<1>1. CASE DeliverBatch \/ SegmentExpiration
  BY <1>1, BoundaryQuiet DEF DeliverBatch, SegmentExpiration
<1>2. CASE \E b \in Batch : Complete(b)
  BY <1>2, BoundaryQuiet DEF Complete
<1>3. CASE NothingToCheckpoint \/ AdvanceCheckpoint
  BY <1>3, BoundaryQuiet DEF NothingToCheckpoint, AdvanceCheckpoint
<1>4. CASE BeginReclaim \/ ReclaimDeferred \/ ResetCheckpoint
  BY <1>4, BoundaryQuiet DEF BeginReclaim, ReclaimDeferred, ResetCheckpoint
<1>5. CASE Truncate
  <2>1. /\ UNCHANGED <<pc, extent>> /\ frames' = {} /\ generation' = generation + 1
        /\ worker = "resetting"
    BY <1>5 DEF Truncate
  <2>2. /\ \A b \in Batch : pc[b] # "accounted"
        /\ extent.generation <= generation
    BY <2>1 DEF ReaderInvariant, BacklogCovered, ExtentsCurrent, Uncounted
  <2>3. extent'.generation # generation'
    BY <2>1, <2>2, ReaderTypes
  <2>4. QED
    BY <2>1, <2>2, <2>3 DEF ExtentsOnBoundary
<1>6. CASE SendReclaimed
  <2>1. /\ UNCHANGED <<frames, pc, local, committed, generation>> /\ extent'.end = 0
    BY <1>6 DEF SendReclaimed
  <2>2. UNCHANGED Sound /\ \A p : Boundary(p)' = Boundary(p)
    BY <2>1 DEF Sound, InFile, Boundary
  <2>3. Boundary(extent.end)'
    BY <2>1 DEF Boundary
  <2>4. QED
    BY <2>1, <2>2, <2>3 DEF ExtentsOnBoundary
<1>7. ~ReadFails /\ ~LocalWriteFails /\ ~WorkerRefused
  BY DEF ReadFails, LocalWriteFails, WorkerRefused, Running, Stopped
<1>8. QED
  BY <1>1, <1>2, <1>3, <1>4, <1>5, <1>6, <1>7 DEF Work

\* A recovery announces the whole file and reads from the checkpoint.
LEMMA BoundaryRecover ==
    ASSUME TypeOK, Layers, ReaderInvariant, Recover
    PROVE  ExtentsOnBoundary' /\ ReaderOnBoundary'
<1>1. /\ UNCHANGED <<frames, checkpoint, generation, pc>> /\ ~up
      /\ committed' = ScanEnd /\ extent' = [generation |-> 0, end |-> ScanEnd]
      /\ reader' = [state |-> "recovery", position |-> checkpoint, end |-> ScanEnd, generation |-> 0]
      /\ generation = 0
  BY DEF Recover, appendVars, ReaderInvariant
<1>2. /\ Boundary(ScanEnd) /\ Boundary(checkpoint) /\ checkpoint <= ScanEnd /\ ScanEnd \in Nat
  <2>1. ScanEnd = Total[InFile] /\ ScanEnd \in Nat
    BY TotalAssumption DEF ScanEnd, InFile, TypeOK, Frame
  <2>2. Boundary(ScanEnd) /\ Boundary(checkpoint) /\ \A f \in frames : f.end <= ScanEnd
    BY <2>1 DEF Layers, BytesAccounted, CheckpointSound
  <2>3. checkpoint <= ScanEnd
    BY <2>1, <2>2 DEF Boundary
  <2>4. QED
    BY <2>1, <2>2, <2>3
<1>3. \A b \in Batch : pc[b] \notin {"written", "accounted"}
  BY <1>1 DEF Layers, RequestsPlaced, Admitted
<1>4. \A f \in frames : f.batch \in Batch
  BY DEF TypeOK, Frame
<1>5. \A p : Boundary(p) => Boundary(p)'
  BY <1>1 DEF Boundary
<1>6. ExtentsOnBoundary'
  <2>1. Boundary(extent.end)'
    BY <1>1, <1>2 DEF Boundary
  <2>2. QED
    BY <1>1, <1>3, <1>4, <2>1 DEF ExtentsOnBoundary
<1>7. ReaderOnBoundary'
  <2>1. Boundary(reader.position)' /\ Boundary(reader.end)'
    BY <1>1, <1>2 DEF Boundary
  <2>2. QED
    BY <1>1, <1>2, <2>1 DEF ReaderOnBoundary, Following
<1>8. QED
  BY <1>6, <1>7

\* The reader stands on a boundary after a step of a request: the extent that is sent ends with
\* all that is committed.
LEMMA ReaderAppend ==
    ASSUME TypeOK, TypeOK', ExtentsCurrent, ExtentsOnBoundary, ReaderOnBoundary,
           NEW b \in Batch, Append(b)
    PROVE  ReaderOnBoundary'
<1>1. /\ UNCHANGED <<reader, generation>> /\ frames \subseteq frames'
      /\ \/ UNCHANGED extent
         \/ pc[b] = "accounted" /\ extent' = local[b]
      /\ UNCHANGED committed \/ (committed' = committed + Size[b] /\ UNCHANGED extent)
  <2> USE DEF workerVars, accountVars, diskVars
  <2>1. CASE Reserve(b) \/ Release(b) \/ AppendRefused(b)
    BY <2>1 DEF Reserve, Release, AppendRefused
  <2>2. CASE WriteFrame(b) \/ WriteFails(b)
    BY <2>2 DEF WriteFrame, WriteFails, PartialWrite
  <2>3. CASE CommitReservation(b) \/ SendExtent(b)
    BY <2>3 DEF CommitReservation, SendExtent
  <2>4. CASE Acknowledge(b)
    BY <2>4 DEF Acknowledge
  <2>5. QED
    BY <2>1, <2>2, <2>3, <2>4 DEF Append
<1>2. Boundary(reader.position) => Boundary(reader.position)'
  BY <1>1 DEF Boundary
<1>3. Boundary(reader.end) => Boundary(reader.end)'
  BY <1>1 DEF Boundary
<1>4. committed <= committed' /\ committed' \in Nat
  BY <1>1, ReaderTypes
<1>5. CASE UNCHANGED extent
  BY <1>1, <1>2, <1>3, <1>4, <1>5, ReaderTypes DEF ReaderOnBoundary, Following
<1>6. CASE pc[b] = "accounted" /\ extent' = local[b] /\ UNCHANGED committed
  <2>1. extent'.generation = generation' /\ extent'.end = committed
    BY <1>1, <1>6 DEF ExtentsCurrent, ExtentsOnBoundary
  <2>2. ~Following => reader.end <= committed
    BY DEF ExtentsCurrent
  <2>3. QED
    BY <1>1, <1>2, <1>3, <1>6, <2>1, <2>2 DEF ReaderOnBoundary, Following
<1>7. QED
  BY <1>1, <1>5, <1>6

\* The reader stands on a boundary after a step of the worker: the end of the frame it read, the
\* end of the range it has finished, or nowhere in the generation that just started.
LEMMA ReaderWork ==
    ASSUME TypeOK, Layers, Running, ReaderInvariant, ExtentsOnBoundary, ReaderOnBoundary,
           Work, Running'
    PROVE  ReaderOnBoundary'
<1> USE DEF diskVars, accountVars, appendVars, workerVars
<1>0. ExtentsCurrent /\ QueuePlaced
  BY DEF ReaderInvariant
<1>1. ASSUME worker \in {"reading", "waiting"}
      PROVE  /\ Boundary(ReadFrom) /\ Boundary(ReadTo) /\ ReadFrom <= ReadTo
             /\ ReadTo <= extent.end /\ ReadTo <= committed
             /\ ReadGeneration = generation /\ extent.generation = generation
  BY <1>0, <1>1, ReadsOnBoundary, ReadsCurrent DEF ExtentsCurrent
<1>2. CASE DeliverBatch
  <2>1. PICK f \in FrameToRead :
          reader' = [reader EXCEPT !.position = f.end, !.generation = ReadGeneration]
    BY <1>2 DEF DeliverBatch
  <2>2. UNCHANGED <<frames, generation, committed, extent>> /\ worker \in {"reading", "waiting"}
    BY <1>2 DEF DeliverBatch
  <2>3. f \in frames /\ f.end <= ReadTo /\ f.end \in Nat
    BY FrameTypes DEF FrameToRead, Layers
  <2>4. /\ reader'.generation = generation' /\ reader'.position = f.end
        /\ reader'.state = reader.state /\ reader'.end = reader.end
    BY <1>1, <2>1, <2>2 DEF TypeOK
  <2>5. f.end <= committed /\ f.end <= extent.end /\ (~Following => f.end <= reader.end)
    BY <1>1, <2>2, <2>3, ReaderTypes DEF ReadTo
  <2>6. Boundary(reader.position)' /\ (Boundary(reader.end) => Boundary(reader.end)')
    BY <2>2, <2>3, <2>4 DEF Boundary
  <2>7. QED
    BY <2>2, <2>4, <2>5, <2>6 DEF ReaderOnBoundary, Following
<1>3. CASE NothingToCheckpoint \/ AdvanceCheckpoint
  <2>1. /\ UNCHANGED <<frames, generation, committed, extent>> /\ worker = "reading"
        /\ NoMoreBatches /\ ReadFrom = ReadTo
    BY <1>3 DEF NothingToCheckpoint, AdvanceCheckpoint, AtEnd
  <2>2. /\ reader'.generation = generation' /\ reader'.position = ReadTo
        /\ reader'.state = "following"
    BY <1>1, <2>1 DEF NoMoreBatches, TypeOK
  <2>3. Boundary(reader.position)'
    BY <1>1, <2>1, <2>2 DEF Boundary
  <2>4. QED
    BY <1>1, <2>1, <2>2, <2>3 DEF ReaderOnBoundary, Following
<1>4. ASSUME UNCHANGED <<frames, generation, committed, extent, reader>> PROVE ReaderOnBoundary'
  <2>1. \A p : Boundary(p)' = Boundary(p)
    BY <1>4 DEF Boundary
  <2>2. QED
    BY <1>4, <2>1 DEF ReaderOnBoundary, Following
<1>5. CASE SegmentExpiration \/ \E b \in Batch : Complete(b)
  BY <1>4, <1>5 DEF SegmentExpiration, Complete
<1>6. CASE BeginReclaim \/ ReclaimDeferred \/ ResetCheckpoint
  BY <1>4, <1>6 DEF BeginReclaim, ReclaimDeferred, ResetCheckpoint
<1>7. CASE Truncate
  <2>1. UNCHANGED reader /\ generation' = generation + 1 /\ worker = "resetting"
    BY <1>7 DEF Truncate
  <2>2. Following /\ reader.generation <= generation
    BY <1>0, <2>1 DEF ExtentsCurrent
  <2>3. reader'.generation # generation'
    BY <2>1, <2>2, ReaderTypes
  <2>4. QED
    BY <2>1, <2>2, <2>3 DEF ReaderOnBoundary, Following
<1>8. CASE SendReclaimed
  <2>1. UNCHANGED <<reader, generation>> /\ worker = "truncated"
    BY <1>8 DEF SendReclaimed
  <2>2. Following /\ reader.generation # generation
    BY <1>0, <2>1 DEF ExtentsCurrent
  <2>3. QED
    BY <2>1, <2>2 DEF ReaderOnBoundary, Following
<1>9. ~ReadFails /\ ~LocalWriteFails /\ ~WorkerRefused
  BY DEF ReadFails, LocalWriteFails, WorkerRefused, Running, Stopped
<1>10. QED
  BY <1>2, <1>3, <1>5, <1>6, <1>7, <1>8, <1>9 DEF Work

\* No step stops the reader.
LEMMA DeliveryStep ==
    ASSUME TypeOK, Layers, ReaderInvariant, SerialInvariant, Next
    PROVE  DeliveredExactlyOnce'
<1> USE DEF DeliveredExactlyOnce
<1>1. worker \notin {"unreadable", "duplicate"}
  BY DEF SerialInvariant
<1>2. ASSUME up, worker \in {"reading", "waiting"}
      PROVE  /\ ReadFrom <= ReadTo
             /\ ReadFrom < ReadTo => FrameToRead # {}
             /\ \A f \in FrameToRead : f.batch \notin pending
  <2>1. Running
    BY <1>2 DEF Running, Stopped
  <2>2. QED
    BY <1>2, <2>1, FrameReadable DEF SerialInvariant
<1>3. CASE DeliverBatch
  <2>1. PICK f \in FrameToRead : worker' = IF f.batch \in pending THEN "duplicate" ELSE "reading"
    BY <1>3 DEF DeliverBatch
  <2>2. up /\ worker \in {"reading", "waiting"}
    BY <1>3 DEF DeliverBatch
  <2>3. QED
    BY <1>2, <2>1, <2>2
<1>4. ~ReadFails
  <2>1. ASSUME ReadFails PROVE FALSE
    <3>1. /\ up /\ worker \in {"reading", "waiting"}
          /\ ReadFrom > ReadTo \/ (ReadFrom < ReadTo /\ FrameToRead = {})
      BY <2>1 DEF ReadFails
    <3>2. QED
      BY <1>2, <3>1, ReaderTypes
  <2>2. QED
    BY <2>1
<1>5. ASSUME NEW b \in Batch, Append(b) PROVE worker' = worker
  <2> USE DEF workerVars
  <2>1. CASE Reserve(b) \/ Release(b) \/ AppendRefused(b)
    BY <2>1 DEF Reserve, Release, AppendRefused
  <2>2. CASE WriteFrame(b) \/ WriteFails(b)
    BY <2>2 DEF WriteFrame, WriteFails
  <2>3. CASE CommitReservation(b) \/ SendExtent(b) \/ Acknowledge(b)
    BY <2>3 DEF CommitReservation, SendExtent, Acknowledge
  <2>4. QED
    BY <1>5, <2>1, <2>2, <2>3 DEF Append
<1>6. CASE Work
  <2>1. CASE SegmentExpiration \/ \E b \in Batch : Complete(b)
    BY <1>1, <2>1 DEF SegmentExpiration, Complete, workerVars
  <2>2. CASE NothingToCheckpoint \/ AdvanceCheckpoint \/ LocalWriteFails \/ WorkerRefused
    BY <2>2 DEF NothingToCheckpoint, AdvanceCheckpoint, LocalWriteFails, WorkerRefused
  <2>3. CASE BeginReclaim \/ ReclaimDeferred \/ ResetCheckpoint \/ Truncate \/ SendReclaimed
    BY <2>3 DEF BeginReclaim, ReclaimDeferred, ResetCheckpoint, Truncate, SendReclaimed
  <2>4. QED
    BY <1>3, <1>4, <1>6, <2>1, <2>2, <2>3 DEF Work
<1>7. CASE Crash
  BY <1>7 DEF Crash
<1>8. CASE Recover
  BY <1>1, <1>8 DEF Recover
<1>9. QED
  BY <1>1, <1>5, <1>6, <1>7, <1>8 DEF Next

\* A step between two states whose announcements are serial keeps the serial invariant.
LEMMA SerialStep ==
    TypeOK /\ Layers /\ ReaderInvariant /\ SerialInvariant /\ AnnouncesSerially'
       /\ TypeOK' /\ Layers' /\ [Next]_vars => SerialInvariant'
<1> SUFFICES ASSUME TypeOK, Layers, ReaderInvariant, SerialInvariant, AnnouncesSerially',
                    TypeOK', Layers', [Next]_vars
             PROVE  SerialInvariant'
  OBVIOUS
<1>1. CASE UNCHANGED vars
  <2>1. UNCHANGED <<diskVars, up, accountVars, extent, appendVars, workerVars>>
    BY <1>1 DEF vars
  <2>2. UNCHANGED <<Running, Sound, Following>> /\ \A p : Boundary(p)' = Boundary(p)
    BY <2>1 DEF diskVars, appendVars, workerVars, Running, Sound, InFile, Following, Boundary
  <2>3. ExtentsOnBoundary => ExtentsOnBoundary'
    BY <2>1, <2>2 DEF diskVars, accountVars, appendVars, ExtentsOnBoundary
  <2>4. ReaderOnBoundary => ReaderOnBoundary'
    BY <2>1, <2>2 DEF accountVars, workerVars, ReaderOnBoundary
  <2>5. DeliveredExactlyOnce => DeliveredExactlyOnce'
    BY <2>1 DEF workerVars, DeliveredExactlyOnce
  <2>6. QED
    BY <2>2, <2>3, <2>4, <2>5 DEF SerialInvariant
<1>2. ASSUME Next, Running' PROVE ExtentsOnBoundary' /\ ReaderOnBoundary'
  <2>1. CASE Recover
    BY <2>1, BoundaryRecover
  <2>2. CASE ~Recover
    <3>1. Running /\ ExtentsOnBoundary /\ ReaderOnBoundary /\ ExtentsCurrent
      BY <1>2, <2>2, RunningBefore DEF SerialInvariant, ReaderInvariant
    <3>2. CASE Work
      BY <1>2, <3>1, <3>2, BoundaryWork, ReaderWork
    <3>3. ASSUME NEW b \in Batch, Append(b) PROVE ExtentsOnBoundary' /\ ReaderOnBoundary'
      BY <3>1, <3>3, BoundaryAppend, ReaderAppend
    <3>4. ~Crash
      BY <1>2 DEF Crash, Running
    <3>5. QED
      BY <1>2, <2>2, <3>2, <3>3, <3>4 DEF Next
  <2>3. QED
    BY <2>1, <2>2
<1>3. CASE Next
  BY <1>2, <1>3, DeliveryStep DEF SerialInvariant
<1>4. QED
  BY <1>1, <1>3

\* A new spool satisfies the serial invariant.
LEMMA SerialInit == Init => SerialInvariant
<1> SUFFICES ASSUME Init PROVE SerialInvariant
  OBVIOUS
<1>1. ExtentsOnBoundary
  BY DEF Init, ExtentsOnBoundary, NoExtent, Boundary
<1>2. ReaderOnBoundary
  BY DEF Init, ReaderOnBoundary, NoExtent, Boundary, Following
<1>3. QED
  BY <1>1, <1>2 DEF Init, SerialInvariant, DeliveredExactlyOnce

\* As long as announcements are serial, wait_next_batch never meets an extent behind it or inside
\* a frame and never returns a batch twice, through crashes, I/O failures and reclamations: only
\* the order in which concurrent SpoolCommitters announce their extents can stop the reader.
THEOREM SerialDeliveryCorrect == Spec => SerialDelivery
<1>1. TypeOK /\ Layers /\ ReaderInvariant /\ SerialInvariant /\ AnnouncesSerially'
         /\ TypeOK' /\ Layers' /\ [Next]_vars => SerialInvariant'
  BY SerialStep
<1>2. SerialInvariant => DeliveredExactlyOnce
  BY DEF SerialInvariant
<1>3. QED
  BY <1>1, <1>2, SerialInit, ReaderInvariantCorrect, SpoolInvariant, PTL DEF Spec, SerialDelivery

=============================================================================
