-------------------------------- MODULE Spool --------------------------------
(***************************************************************************)
(* The durable local spool (elucid-ingestion/src/spool.rs, recovery.rs,    *)
(* checkpoint.rs), the admission of HTTP batches into it                   *)
(* (elucid-service/src/ingestion.rs) and the ingestion worker as its       *)
(* reader (the loop and the checkpoint of elucid-service/src/              *)
(* processing.rs).                                                         *)
(*                                                                         *)
(* A request holds a permit and a reservation, writes and synchronises its *)
(* frame under the writer lock, accounts for it under the accounting lock, *)
(* announces the new extent after that lock is dropped, and is counted and *)
(* acknowledged later still: other requests and the worker run between any *)
(* two of these steps.  The data file is the set of its frames; a crash    *)
(* may leave a torn tail after them.                                       *)
(***************************************************************************)
EXTENDS Integers, FiniteSets

CONSTANTS
    Batch,          \* append requests, each with a batch of its own
    Size,           \* stored bytes of each batch's frame
    Total,          \* stored bytes of a set of frames
    MaxFrame,       \* reserved_frame_bytes of the configured body limit
    Capacity,       \* SpoolCapacity
    Permits,        \* ingestion concurrency
    MaxCrashes,     \* bound: crashes and restarts
    MaxGeneration   \* bound: reclamations of one incarnation

ASSUME SizeAssumption ==
    /\ MaxFrame \in Nat /\ Capacity \in Nat /\ Permits \in Nat
    /\ MaxCrashes \in Nat /\ MaxGeneration \in Nat
    /\ IsFiniteSet(Batch)
    /\ Size \in [Batch -> Nat] /\ \A b \in Batch : 0 < Size[b] /\ Size[b] <= MaxFrame

ASSUME TotalAssumption ==
    /\ Total \in [SUBSET Batch -> Nat] /\ Total[{}] = 0
    /\ \A S \in SUBSET Batch : \A b \in Batch \ S : Total[S \cup {b}] = Total[S] + Size[b]

VARIABLES
    frames,         \* disk: the complete frames of the data file
    fileEnd,        \* disk: its length, torn tail included
    checkpoint,     \* disk: the checkpoint file
    up,             \* whether the process runs and its spool is open
    failed,         \* SpoolInner.failed
    committed,      \* Accounting.committed_bytes
    reserved,       \* Accounting.reserved_bytes
    generation,     \* Accounting.generation
    extent,         \* the value of the watch channel
    pc,             \* progress of each append request
    local,          \* the extent a request computed and has not sent yet
    reader,         \* RecoveredBatches: state, position, recovered end, generation
    worker,         \* where the ingestion worker is in its loop
    pending,        \* the worker's queue: batches delivered and not checkpointed
    backlog,        \* IngestionShared.pending_batches
    completed,      \* batches whose every record has a published output
    crashes

diskVars == <<frames, fileEnd, checkpoint>>
accountVars == <<committed, reserved, generation>>
appendVars == <<pc, local>>
workerVars == <<reader, worker, pending>>
vars == <<diskVars, up, failed, accountVars, extent, appendVars, workerVars,
          backlog, completed, crashes>>

Frame == [batch : Batch, start : Nat, end : Nat]
Extent == [generation : Nat, end : Nat]
Steps == {"idle", "reserved", "written", "accounted", "sent", "acked", "refused",
          "failed", "unknown"}

\* Why the worker returned an error, which ends the process: an unreadable
\* range, a duplicate batch, an underflow, or a failed spool.
Stopped == {"unreadable", "duplicate", "underflow", "refused"}

TypeOK ==
    /\ frames \in SUBSET Frame
    /\ fileEnd \in Nat /\ checkpoint \in Nat
    /\ up \in BOOLEAN /\ failed \in BOOLEAN
    /\ committed \in Nat /\ reserved \in Nat /\ generation \in Nat
    /\ extent \in Extent
    /\ pc \in [Batch -> Steps]
    /\ local \in [Batch -> Extent]
    /\ reader \in [state : {"recovery", "following", "failed"}, position : Nat,
                   end : Nat, generation : Nat]
    /\ worker \in {"reading", "waiting", "advanced", "reclaiming", "resetting",
                   "truncated"} \cup Stopped
    /\ pending \in SUBSET Batch
    /\ backlog \in Nat
    /\ completed \in SUBSET Batch
    /\ crashes \in Nat

NoExtent == [generation |-> 0, end |-> 0]

Init ==
    /\ frames = {} /\ fileEnd = 0 /\ checkpoint = 0
    /\ up = TRUE /\ failed = FALSE
    /\ committed = 0 /\ reserved = 0 /\ generation = 0
    /\ extent = NoExtent
    /\ pc = [b \in Batch |-> "idle"]
    /\ local = [b \in Batch |-> NoExtent]
    /\ reader = [state |-> "recovery", position |-> 0, end |-> 0, generation |-> 0]
    /\ worker = "reading" /\ pending = {} /\ backlog = 0
    /\ completed = {} /\ crashes = 0

-----------------------------------------------------------------------------
(* Admission and append.                                                   *)

Admitted == {b \in Batch : pc[b] \in {"reserved", "written", "accounted", "sent"}}
Holders == {b \in Batch : pc[b] \in {"reserved", "written"}}

\* reclaim_checkpointed holds the writer and accounting locks over two durable
\* steps; every other critical section is one action here.
LocksFree == worker # "resetting"

Exhausted == committed + reserved + MaxFrame > Capacity

Move(b, step) == pc' = [pc EXCEPT ![b] = step]

Reserve(b) ==
    /\ up /\ ~failed /\ LocksFree
    /\ pc[b] = "idle"
    /\ Cardinality(Admitted) < Permits
    /\ ~Exhausted
    /\ reserved' = reserved + MaxFrame
    /\ Move(b, "reserved")
    /\ UNCHANGED <<diskVars, up, failed, committed, generation, extent, local,
                   workerVars, backlog, completed, crashes>>

\* The client goes away or its body is invalid: SpoolReservation is dropped.
Release(b) ==
    /\ up /\ LocksFree
    /\ pc[b] = "reserved"
    /\ reserved' = reserved - MaxFrame
    /\ Move(b, "refused")
    /\ UNCHANGED <<diskVars, up, failed, committed, generation, extent, local,
                   workerVars, backlog, completed, crashes>>

NextFrame(b) == [batch |-> b, start |-> fileEnd, end |-> fileEnd + Size[b]]

WriteFrame(b) ==
    /\ up /\ ~failed /\ LocksFree
    /\ pc[b] = "reserved"
    /\ frames' = frames \cup {NextFrame(b)}
    /\ fileEnd' = fileEnd + Size[b]
    /\ Move(b, "written")
    /\ UNCHANGED <<checkpoint, up, failed, accountVars, extent, local,
                   workerVars, backlog, completed, crashes>>

\* What an interrupted write leaves: a prefix of the frame, or all of it.
PartialWrite(b) ==
    \/ /\ fileEnd' \in fileEnd .. (fileEnd + Size[b] - 1)
       /\ UNCHANGED frames
    \/ /\ fileEnd' = fileEnd + Size[b]
       /\ frames' = frames \cup {NextFrame(b)}

WriteFails(b) ==
    /\ up /\ ~failed /\ LocksFree
    /\ crashes < MaxCrashes
    /\ pc[b] = "reserved"
    /\ PartialWrite(b)
    /\ failed' = TRUE
    /\ reserved' = reserved - MaxFrame
    /\ Move(b, "failed")
    /\ UNCHANGED <<checkpoint, up, committed, generation, extent, local,
                   workerVars, backlog, completed, crashes>>

\* write_frame finds the spool failed, before or after it gets the lock.
AppendRefused(b) ==
    /\ up /\ failed /\ LocksFree
    /\ pc[b] = "reserved"
    /\ reserved' = reserved - MaxFrame
    /\ Move(b, "refused")
    /\ UNCHANGED <<diskVars, up, failed, committed, generation, extent, local,
                   workerVars, backlog, completed, crashes>>

CommitReservation(b) ==
    /\ up /\ LocksFree
    /\ pc[b] = "written"
    /\ committed' = committed + Size[b]
    /\ reserved' = reserved - MaxFrame
    /\ local' = [local EXCEPT ![b] = [generation |-> generation,
                                      end |-> committed + Size[b]]]
    /\ Move(b, "accounted")
    /\ UNCHANGED <<diskVars, up, failed, generation, extent, workerVars,
                   backlog, completed, crashes>>

SendExtent(b) ==
    /\ up
    /\ pc[b] = "accounted"
    /\ extent' = local[b]
    /\ local' = [local EXCEPT ![b] = NoExtent]
    /\ Move(b, "sent")
    /\ UNCHANGED <<diskVars, up, failed, accountVars, workerVars, backlog,
                   completed, crashes>>

\* The rest of AdmittedAppend::append.  usage() refuses a failed spool, although
\* the frame is durable.
Acknowledge(b) ==
    /\ up /\ LocksFree
    /\ pc[b] = "sent"
    /\ IF failed
       THEN Move(b, "refused") /\ UNCHANGED backlog
       ELSE Move(b, "acked") /\ backlog' = backlog + 1
    /\ UNCHANGED <<diskVars, up, failed, accountVars, extent, local,
                   workerVars, completed, crashes>>

-----------------------------------------------------------------------------
(* The reader: RecoveredBatches::next_batch and wait_next_batch.           *)

\* Where the next read starts, and the end of the range it trusts.
Following == reader.state = "following"
ReadGeneration == IF Following THEN extent.generation ELSE reader.generation

\* Mutant: the reader keeps its position when the generation changes.
ReadFrom_KeepsPosition == reader.position

ReadFrom == IF ReadGeneration = reader.generation THEN reader.position ELSE 0
ReadTo == IF Following THEN extent.end ELSE reader.end

FrameToRead == {f \in frames : f.start = ReadFrom /\ f.end <= ReadTo}

\* A duplicate batch identity stops the worker.
DeliverBatch ==
    /\ up /\ worker \in {"reading", "waiting"}
    /\ ReadFrom < ReadTo
    /\ \E f \in FrameToRead :
          /\ reader' = [reader EXCEPT !.position = f.end, !.generation = ReadGeneration]
          /\ pending' = pending \cup {f.batch}
          /\ worker' = IF f.batch \in pending THEN "duplicate" ELSE "reading"
    /\ UNCHANGED <<diskVars, up, failed, accountVars, extent, appendVars,
                   backlog, completed, crashes>>

\* The extent is behind the reader, or does not end where a frame does.
ReadFails ==
    /\ up /\ worker \in {"reading", "waiting"}
    /\ ReadFrom > ReadTo \/ (ReadFrom < ReadTo /\ FrameToRead = {})
    /\ reader' = [reader EXCEPT !.state = "failed"]
    /\ worker' = "unreadable"
    /\ UNCHANGED <<diskVars, up, failed, accountVars, extent, appendVars,
                   pending, backlog, completed, crashes>>

\* Mutant: the worker only wakes up for another batch.
SegmentExpiration_Never ==
    FALSE /\ UNCHANGED vars

\* wait_next_batch gives way to the expiry of an open segment builder.
SegmentExpiration ==
    /\ up /\ worker = "waiting"
    /\ pending \ completed # {}
    /\ worker' = "reading"
    /\ UNCHANGED <<diskVars, up, failed, accountVars, extent, appendVars,
                   reader, pending, backlog, completed, crashes>>

\* The outputs of a delivered batch are all published.
Complete(b) ==
    /\ up /\ worker = "reading"
    /\ b \in pending \ completed
    /\ completed' = completed \cup {b}
    /\ UNCHANGED <<diskVars, up, failed, accountVars, extent, appendVars,
                   workerVars, backlog, crashes>>

-----------------------------------------------------------------------------
(* The worker's checkpoint: plan_checkpoint, advance_checkpoint,           *)
(* complete_pending_batches and reclaim_checkpointed.                      *)

\* The ends of the completed prefixes of the worker's queue.
PlanTargets ==
    {f.end : f \in {g \in frames : /\ g.start >= checkpoint /\ g.batch \in pending
                                   /\ \A h \in frames :
                                         h.start >= checkpoint /\ h.start <= g.start
                                            => h.batch \in pending \cap completed}}

\* Mutant: the batch that ends at the target stays in the queue.
Covered_KeepsLast(target) == {f.batch : f \in {g \in frames : g.end < target}} \cap pending

Covered(target) == {f.batch : f \in {g \in frames : g.end <= target}} \cap pending

\* plan_checkpoint wants the queue to start at the checkpoint, and
\* advance_checkpoint wants the target to be committed.  Otherwise the worker would
\* stop, which PlanAccepted excludes.
PlanRejected ==
    \/ \E f \in frames : f.batch \in pending /\ f.start < checkpoint
    \/ \E target \in PlanTargets : target > committed

AtEnd == ReadFrom = ReadTo
NoMoreBatches ==
    reader' = [reader EXCEPT !.state = "following", !.position = ReadFrom,
                             !.generation = ReadGeneration]

NothingToCheckpoint ==
    /\ up /\ ~failed /\ worker = "reading"
    /\ AtEnd /\ ~PlanRejected /\ PlanTargets = {}
    /\ NoMoreBatches
    /\ worker' = "waiting"
    /\ UNCHANGED <<diskVars, up, failed, accountVars, extent, appendVars,
                   pending, backlog, completed, crashes>>

\* The backlog may not have been raised yet by the request that appended the
\* batch: then the worker stops, after the checkpoint is durable.
AdvanceCheckpoint ==
    /\ up /\ ~failed /\ worker = "reading"
    /\ AtEnd /\ ~PlanRejected
    /\ \E target \in PlanTargets :
          /\ \A t \in PlanTargets : t <= target
          /\ checkpoint' = target
          /\ pending' = pending \ Covered(target)
          /\ IF Cardinality(Covered(target)) <= backlog
             THEN worker' = "advanced" /\ backlog' = backlog - Cardinality(Covered(target))
             ELSE worker' = "underflow" /\ UNCHANGED backlog
    /\ NoMoreBatches
    /\ UNCHANGED <<frames, fileEnd, up, failed, accountVars, extent, appendVars,
                   completed, crashes>>

\* Mutants: reclamation ignores open reservations, or is refused like an append.
Deferred_IgnoresReservations == checkpoint = 0 \/ checkpoint # committed
Deferred_WhenFull == reserved # 0 \/ checkpoint = 0 \/ checkpoint # committed \/ Exhausted

Deferred == reserved # 0 \/ checkpoint = 0 \/ checkpoint # committed

\* checkpoint::store fails before or after its rename, or the truncation fails
\* before or after set_len.
LocalWriteFails ==
    /\ up /\ crashes < MaxCrashes
    /\ \/ /\ worker = "reading" /\ ~failed /\ AtEnd /\ ~PlanRejected
          /\ \E target \in PlanTargets :
                /\ \A t \in PlanTargets : t <= target
                /\ checkpoint' \in {target, checkpoint}
          /\ UNCHANGED <<frames, fileEnd>>
       \/ /\ worker = "reclaiming" /\ ~Deferred
          /\ checkpoint' \in {0, checkpoint}
          /\ UNCHANGED <<frames, fileEnd>>
       \/ /\ worker = "resetting"
          /\ (frames' = {} /\ fileEnd' = 0) \/ UNCHANGED <<frames, fileEnd>>
          /\ UNCHANGED checkpoint
    /\ failed' = TRUE
    /\ worker' = "refused"
    /\ UNCHANGED <<up, accountVars, extent, appendVars, reader,
                   pending, backlog, completed, crashes>>

\* Any spool call of the worker refuses a failed spool.
WorkerRefused ==
    /\ up /\ failed
    /\ worker = "advanced" \/ (worker = "reading" /\ AtEnd)
    /\ worker' = "refused"
    /\ UNCHANGED <<diskVars, up, failed, accountVars, extent, appendVars, reader,
                   pending, backlog, completed, crashes>>

\* refresh_spool_usage, and ensure_writable before the locks are taken.
BeginReclaim ==
    /\ up /\ ~failed /\ worker = "advanced"
    /\ worker' = "reclaiming"
    /\ UNCHANGED <<diskVars, up, failed, accountVars, extent, appendVars, reader,
                   pending, backlog, completed, crashes>>

ReclaimDeferred ==
    /\ up /\ worker = "reclaiming"
    /\ Deferred
    /\ worker' = "waiting"
    /\ UNCHANGED <<diskVars, up, failed, accountVars, extent, appendVars, reader,
                   pending, backlog, completed, crashes>>

\* Mutant: the file is truncated before the checkpoint is reset.
ResetCheckpoint_TruncatesFirst ==
    /\ up /\ worker = "reclaiming"
    /\ ~Deferred
    /\ generation < MaxGeneration
    /\ frames' = {} /\ fileEnd' = 0
    /\ worker' = "resetting"
    /\ UNCHANGED <<checkpoint, up, failed, accountVars, extent, appendVars,
                   reader, pending, backlog, completed, crashes>>

\* With the three locks held: the checkpoint is reset first, ...
ResetCheckpoint ==
    /\ up /\ worker = "reclaiming"
    /\ ~Deferred
    /\ generation < MaxGeneration
    /\ checkpoint' = 0
    /\ worker' = "resetting"
    /\ UNCHANGED <<frames, fileEnd, up, failed, accountVars, extent, appendVars,
                   reader, pending, backlog, completed, crashes>>

\* ... then the file is truncated and the locks are dropped, ...
Truncate ==
    /\ up /\ worker = "resetting"
    /\ frames' = {} /\ fileEnd' = 0
    /\ committed' = 0 /\ generation' = generation + 1
    /\ worker' = "truncated"
    /\ UNCHANGED <<checkpoint, up, failed, reserved, extent, appendVars, reader,
                   pending, backlog, completed, crashes>>

\* ... and last the new generation is announced, without a lock.
SendReclaimed ==
    /\ up /\ worker = "truncated"
    /\ extent' = [generation |-> generation, end |-> 0]
    /\ worker' = "waiting"
    /\ UNCHANGED <<diskVars, up, failed, accountVars, appendVars, reader,
                   pending, backlog, completed, crashes>>

-----------------------------------------------------------------------------
(* Crash and recovery.                                                     *)

\* The one request that may hold the writer lock may leave part of its frame.
Crash ==
    /\ up /\ crashes < MaxCrashes
    /\ up' = FALSE
    /\ crashes' = crashes + 1
    /\ \/ UNCHANGED <<frames, fileEnd>>
       \/ ~failed /\ LocksFree /\ \E b \in Batch : pc[b] = "reserved" /\ PartialWrite(b)
    /\ pc' = [b \in Batch |-> CASE b \in Admitted -> "unknown"
                               [] pc[b] = "failed" -> "refused"
                               [] OTHER -> pc[b]]
    /\ failed' = FALSE /\ committed' = 0 /\ reserved' = 0 /\ generation' = 0
    /\ extent' = NoExtent
    /\ local' = [b \in Batch |-> NoExtent]
    /\ reader' = [state |-> "recovery", position |-> 0, end |-> 0, generation |-> 0]
    /\ worker' = "reading" /\ pending' = {} /\ backlog' = 0
    /\ UNCHANGED <<checkpoint, completed>>

\* scan_committed_frames: the frames follow each other from the start of the
\* file, and the checkpoint is a boundary of theirs.
Boundary(p) == p = 0 \/ \E f \in frames : f.end = p
ScanEnd == Total[{f.batch : f \in frames}]
Recoverable ==
    /\ \A f \in frames : Boundary(f.start) /\ f.end <= ScanEnd
    /\ Boundary(checkpoint)

Recover ==
    /\ ~up
    /\ Recoverable
    /\ up' = TRUE
    /\ fileEnd' = ScanEnd
    /\ committed' = ScanEnd
    /\ extent' = [generation |-> 0, end |-> ScanEnd]
    /\ reader' = [state |-> "recovery", position |-> checkpoint, end |-> ScanEnd,
                  generation |-> 0]
    /\ backlog' = Cardinality({f \in frames : f.start >= checkpoint})
    /\ UNCHANGED <<frames, checkpoint, failed, reserved, generation, appendVars,
                   worker, pending, completed, crashes>>

-----------------------------------------------------------------------------
Append(b) ==
    \/ Reserve(b) \/ Release(b) \/ WriteFrame(b) \/ WriteFails(b) \/ AppendRefused(b)
    \/ CommitReservation(b) \/ SendExtent(b) \/ Acknowledge(b)

Work ==
    \/ DeliverBatch \/ ReadFails \/ SegmentExpiration
    \/ \E b \in Batch : Complete(b)
    \/ NothingToCheckpoint \/ AdvanceCheckpoint
    \/ LocalWriteFails \/ WorkerRefused
    \/ BeginReclaim \/ ReclaimDeferred \/ ResetCheckpoint \/ Truncate \/ SendReclaimed

Next == (\E b \in Batch : Append(b)) \/ Work \/ Crash \/ Recover

Spec == Init /\ [][Next]_vars

-----------------------------------------------------------------------------
(* Safety.                                                                 *)

\* An acknowledged batch stays in the data file, at or after the durable
\* checkpoint, until every record of it is published: whatever interleaves
\* with a checkpoint or a reclamation and wherever the process crashes
\* (ingestion.md, "preserve an acknowledged batch across process restart").
AcknowledgedDurable ==
    \A b \in Batch : pc[b] = "acked" /\ b \notin completed =>
        \E f \in frames : f.batch = b /\ f.start >= checkpoint

\* Whatever a crash leaves on disk, recovery accepts it: no state reports
\* SPOOL_CORRUPT (spool.rs, "truncating first could leave the durable
\* checkpoint beyond EOF").
CrashRecoverable == ~up => Recoverable

\* wait_next_batch returns every durable batch exactly once: the reader never
\* meets an extent that is behind it or not on a frame boundary, and no batch
\* comes twice or out of order, which would stop the worker.
DeliveredExactlyOnce == worker \notin {"unreadable", "duplicate"}

\* The worker's queue starts at the checkpoint and ends within the committed
\* bytes whenever a checkpoint is planned, in whatever order concurrent appends
\* and reclamations announced their extents: plan_checkpoint and
\* advance_checkpoint never refuse, which would stop the worker.
PlanAccepted == up /\ ~failed /\ worker = "reading" /\ AtEnd => ~PlanRejected

-----------------------------------------------------------------------------
(* Liveness.  A request that holds a reservation sends its body or goes    *)
(* away, threads that hold a frame finish, and the worker's loop goes on:  *)
(* it publishes with retries until it succeeds.  Nothing obliges clients   *)
(* to send more batches.                                                   *)

Fairness ==
    /\ \A b \in Batch :
          /\ WF_vars(Release(b) \/ WriteFrame(b) \/ AppendRefused(b))
          /\ WF_vars(CommitReservation(b))
          /\ WF_vars(SendExtent(b))
          /\ WF_vars(Acknowledge(b))
          /\ SF_vars(Complete(b))
    /\ WF_vars(DeliverBatch \/ ReadFails)
    /\ WF_vars(SegmentExpiration)
    /\ WF_vars(NothingToCheckpoint \/ AdvanceCheckpoint \/ WorkerRefused)
    /\ WF_vars(BeginReclaim)
    /\ WF_vars(ReclaimDeferred \/ ResetCheckpoint)
    /\ WF_vars(Truncate)
    /\ WF_vars(SendReclaimed)
    /\ WF_vars(Recover)

LiveSpec == Spec /\ Fairness

Running == up /\ worker \notin Stopped

Announced(b) ==
    \E f \in frames : f.batch = b /\ f.end <= extent.end /\ extent.generation = generation

\* At most one append has a frame in the file and has not announced it.
AnnouncesSerially ==
    \A a, b \in Batch : pc[a] \in {"written", "accounted"} /\ pc[b] \in {"written", "accounted"} => a = b

\* The worker is given every announced batch and publishes it, without the
\* help of further requests, unless the announcement is taken back.
AnnouncedProcessed ==
    \A b \in Batch :
        Announced(b) ~> (b \in completed \/ ~Announced(b) \/ ~Running)

\* As long as the process does not crash, a full spool whose every batch is
\* checkpointed admits batches again: the client was told to retry later
\* (ingestion.md, "429 CAPACITY_EXHAUSTED and bounded Retry-After").
ExhaustionEnds ==
    (crashes = 0 /\ up /\ Exhausted /\ reserved = 0 /\ checkpoint = committed)
        ~> (~(Exhausted /\ Running) \/ crashes > 0)

\* As long as no append overlaps another between its write and its announcement, every durable
\* batch is delivered exactly once, through crashes and reclamations: the order in which
\* SpoolCommitter threads announce their extents is the only thing that can stop the reader.
SerialDelivery == []AnnouncesSerially => []DeliveredExactlyOnce

-----------------------------------------------------------------------------
(* The inductive invariant behind AcknowledgedDurable and CrashRecoverable. *)

InFile == {f.batch : f \in frames}
Sound == {b \in InFile : pc[b] # "failed"}
Accounted == {b \in Sound : pc[b] # "written"}
Needed == {"written", "accounted", "sent", "acked"}

\* The frames lie one after the other, each with a batch of its own.
FramesLaidOut ==
    /\ IsFiniteSet(frames)
    /\ \A f \in frames : f.end = f.start + Size[f.batch] /\ Boundary(f.start)
    /\ \A f, g \in frames : f # g =>
          f.batch # g.batch /\ (f.end <= g.start \/ g.end <= f.start)

\* What the lengths and the counters say of the frames.
BytesAccounted ==
    /\ Boundary(Total[InFile]) /\ \A f \in frames : f.end <= Total[InFile]
    /\ \A f \in frames : f.batch \in Sound => f.end <= Total[Sound]
    /\ up => reserved = MaxFrame * Cardinality(Holders)
    /\ up /\ worker # "refused" => committed = Total[Accounted]
    /\ up /\ ~failed => fileEnd = Total[InFile]
    /\ \A b \in Batch : pc[b] = "failed" => up /\ failed

\* Where a request's batch is.
RequestsPlaced ==
    /\ \A b \in Batch : pc[b] \in {"idle", "reserved"} => b \notin InFile
    /\ \A b \in Batch : pc[b] = "written" => b \in InFile
    /\ \A b \in Batch : pc[b] \in Needed => b \in InFile \cup completed
    /\ ~up => Admitted = {} /\ reserved = 0 /\ worker # "resetting"

\* What is before the checkpoint is published, and so is what is truncated.
CheckpointSound ==
    /\ Boundary(checkpoint)
    /\ \A f \in frames : f.start < checkpoint => f.batch \in completed
    /\ up /\ worker = "resetting" =>
          /\ checkpoint = 0 /\ reserved = 0
          /\ \A f \in frames : f.batch \in completed \/ pc[f.batch] \notin Needed

-----------------------------------------------------------------------------
(* The inductive invariants behind PlanAccepted and SerialDelivery.        *)

\* Appends whose frame is in the file and not counted in the backlog yet.
Uncounted == {b \in Batch : pc[b] \in {"written", "accounted", "sent"}}

\* Batches of complete appends at or after the checkpoint.
Outstanding == {f.batch : f \in {g \in frames : g.start >= checkpoint}} \cap Sound

\* Every frame but the last is followed by another.
FramesLinked ==
    /\ frames = {} \/ \E g \in frames : g.start = 0
    /\ \A f \in frames : f.end = Total[InFile] \/ \E g \in frames : g.start = f.end

\* pending_batches never exceeds what is left to checkpoint, appends that are still
\* to be counted included: a spool is only reclaimed once every append is counted.
BacklogCovered ==
    /\ backlog + Cardinality(Uncounted) <= Cardinality(Outstanding)
    /\ worker = "resetting" => Uncounted = {} /\ backlog = 0 /\ pending = {}

\* No request holds an extent of an earlier generation, and once a reclamation is
\* announced the channel does not either.
ExtentsCurrent ==
    /\ reader.generation <= generation /\ extent.generation <= generation
    /\ extent.generation # generation => worker = "truncated"
    /\ worker = "truncated" => reader.generation # generation
    /\ worker \in {"advanced", "reclaiming", "resetting", "truncated"} => Following
    /\ \A b \in Batch : pc[b] = "accounted" =>
          local[b].generation = generation /\ local[b].end <= committed
    /\ extent.generation = generation => extent.end <= committed
    /\ ~Following => reader.generation = generation /\ reader.end <= committed

\* The queue lies between the checkpoint and the reader, within the committed bytes.
QueuePlaced ==
    /\ reader.generation = generation => checkpoint <= reader.position
    /\ reader.generation # generation => checkpoint = 0 /\ pending = {}
    /\ pending \subseteq InFile
    /\ \A f \in frames : f.batch \in pending =>
          checkpoint <= f.start /\ f.end <= committed /\ f.end <= reader.position

ReaderInvariant ==
    /\ FramesLinked
    /\ Running => BacklogCovered /\ ExtentsCurrent /\ QueuePlaced
    /\ ~up => generation = 0 /\ pending = {} /\ worker = "reading"

\* With serial announcements an append announces all that is committed, and extents end
\* where a frame does.
ExtentsOnBoundary ==
    /\ \A f \in frames : pc[f.batch] \in {"written", "accounted"} => f.end = Total[Sound]
    /\ \A b \in Batch : pc[b] = "accounted" =>
          local[b].end = committed /\ Boundary(local[b].end)
    /\ extent.generation = generation => Boundary(extent.end)

\* The reader then stands on a frame boundary that the extent has not receded behind.
ReaderOnBoundary ==
    /\ reader.generation = generation =>
          /\ Boundary(reader.position) /\ reader.position <= committed
          /\ Following /\ extent.generation = generation => reader.position <= extent.end
    /\ ~Following => /\ reader.position <= reader.end /\ Boundary(reader.end)
                     /\ extent.generation = generation /\ reader.end <= extent.end

SerialInvariant ==
    DeliveredExactlyOnce /\ (Running => ExtentsOnBoundary /\ ReaderOnBoundary)

=============================================================================
