------------------------------ MODULE Ingestion ------------------------------
(***************************************************************************)
(* The ingestion worker (elucid-service/src/processing.rs) with its output *)
(* recovery log (elucid-ingestion/src/output_recovery.rs), composed with   *)
(* the control plane and the bucket: accepted rows leave the local spool   *)
(* in segments, rejected records in dead letters, and a crash may fall     *)
(* between any two durable steps.                                          *)
(*                                                                         *)
(* Module Spool models the spool byte by byte; here a frame has length     *)
(* one, so a position is the number of frames before it.  A worker that    *)
(* returns an error ends the process, which is Restart: what the code      *)
(* reports as an error is a state without a worker step, and the           *)
(* properties say which of these states are never reached.                 *)
(***************************************************************************)
EXTENDS ControlPlane, Sequences, FiniteSetsExt

CONSTANTS
    Accepted,             \* the rows normalisation accepts of each batch
    Rejected,             \* the batches with rejected records
    ReconciliationLimit,  \* RECONCILIATION_ITEMS
    MaxCrashes            \* bound: crashes and restarts

ASSUME BatchAssumption ==
    /\ Accepted \in [Batch -> SUBSET Row] /\ Rejected \subseteq Batch
    /\ \A b, c \in Batch : b # c => Accepted[b] \cap Accepted[c] = {}
    /\ Row \cap Batch = {}
    /\ Retention > 0 /\ LetterRetention > 0
    /\ ReconciliationLimit \in Nat \ {0} /\ MaxCrashes \in Nat

VARIABLES
    spool,        \* disk: the batches in the spool file
    checkpoint,   \* disk: the spool checkpoint
    log,          \* disk: the output recovery log
    staged,       \* disk: outputs whose staged file exists
    phase,        \* where the worker is
    cursor,       \* the record that recovery is at
    dropped,      \* records that recovery decided to rebuild
    publishing,   \* whether publish_record runs for the last record
    read,         \* frames read; while "truncated", the bytes reclaimed
    building,     \* rows in the segment builders
    appended,     \* history: batches acknowledged as durable
    lettered,     \* history: batches whose dead letter was ever published
    crashes

diskVars == <<spool, checkpoint, log, staged>>
workerVars == <<phase, cursor, dropped, publishing, read, building>>
ingestionVars == <<diskVars, workerVars, appended, lettered, crashes>>
allVars == <<vars, ingestionVars>>

\* The positions of a batch that need an output: its accepted rows, and the
\* batch itself for its rejected records, which share one dead letter.
Items(b) == Accepted[b] \cup ({b} \cap Rejected)

IngestionInit ==
    /\ Init
    /\ spool = <<>> /\ checkpoint = 0 /\ log = <<>> /\ staged = {}
    /\ phase = "reading" /\ cursor = 1 /\ dropped = {} /\ publishing = FALSE
    /\ read = 0 /\ building = {}
    /\ appended = {} /\ lettered = {} /\ crashes = 0

\* Requests are served once the worker has recovered; while the spool resets its
\* checkpoint it holds the locks an append needs.
AppendBatch(b) ==
    /\ b \notin appended
    /\ phase \notin {"resolving", "resuming", "resetting"}
    /\ spool' = Append(spool, b)
    /\ appended' = appended \cup {b}
    /\ UNCHANGED <<vars, checkpoint, log, staged, workerVars, lettered, crashes>>

-----------------------------------------------------------------------------
(* What the worker knows of an output.                                     *)

\* published_at of a dead letter is set exactly when its deadline is.
DeadLetterOutputState(d) ==
    CASE objState[d] \in {"NONE", "REMOVED"} -> "UNREGISTERED"
      [] objState[d] \in {"PLANNED", "UPLOADED", "PUBLISHED"} -> objState[d]
      [] objState[d] \in {"DELETE_PENDING", "DELETED"} /\ reclaimAfter[d] > 0
           -> "PUBLISHED"
      [] OTHER -> "ABANDONED"

OutputState(o) ==
    IF o \in Segment THEN IngestionOutputState(o) ELSE DeadLetterOutputState(o)

\* The records that count as outputs of this incarnation.  A batch is read
\* before any of its outputs are recorded, so for a batch that is being read
\* these are the records recovered from the log.
Kept == (1..Len(log)) \ dropped
Covered == UNION {log[i].items : i \in Kept}

\* publish_record is running, for record Current.
Current == IF phase = "resuming" THEN cursor ELSE Len(log)
Publishing == publishing \/ (phase = "resuming" /\ cursor \in Kept)
Output == log[Current].output

-----------------------------------------------------------------------------
(* recover_outputs.                                                        *)

\* The exact object is verified before a planned output without a staged
\* file is given up.
VerifyRecovered ==
    /\ phase = "resolving" /\ cursor <= Len(log)
    /\ LET o == log[cursor].output IN
          /\ OutputState(o) = "PLANNED" /\ o \notin staged /\ o \in bytes
          /\ UploadVerified(o) \/ RecordVerifiedUpload(o)
    /\ UNCHANGED ingestionVars

\* recovery_disposition: Rebuild rather than Resume.
Rebuilds(o) ==
    CASE OutputState(o) = "UNREGISTERED" -> o \notin staged
      [] OutputState(o) = "PLANNED" -> o \notin staged \cup bytes
      [] OTHER -> OutputState(o) = "ABANDONED"

ResolveRecord ==
    /\ phase = "resolving" /\ cursor <= Len(log)
    /\ LET o == log[cursor].output IN
          /\ OutputState(o) = "PLANNED" => o \in staged \/ o \notin bytes
          /\ dropped' = IF Rebuilds(o) THEN dropped \cup {cursor} ELSE dropped
    /\ cursor' = cursor + 1
    /\ UNCHANGED <<vars, diskVars, phase, publishing, read, building, appended,
                   lettered, crashes>>

Referenced == {log[i].output : i \in Kept}

\* Mutant: a segment that was never uploaded keeps its row.
UnreferencedSegments_UploadedOnly ==
    {s \in Segment \ Referenced :
        segState[s] = "PREPARED" /\ producer[s] = None /\ objState[s] = "UPLOADED"}

UnreferencedSegments ==
    {s \in Segment \ Referenced : segState[s] = "PREPARED" /\ producer[s] = None}

\* Mutant: a dead letter that was never uploaded keeps its row.
UnreferencedLetters_UploadedOnly ==
    {d \in DeadLetter \ Referenced : objState[d] = "UPLOADED"}

UnreferencedLetters ==
    {d \in DeadLetter \ Referenced : objState[d] \in {"PLANNED", "UPLOADED"}}

\* One transaction takes the first rows up to the limit, segments first.
ReconcileOutputs(S, D) ==
    /\ phase = "resolving" /\ cursor > Len(log)
    /\ S \subseteq UnreferencedSegments /\ D \subseteq UnreferencedLetters
    /\ Cardinality(S) = Min({ReconciliationLimit, Cardinality(UnreferencedSegments)})
    /\ Cardinality(D) = Min({ReconciliationLimit - Cardinality(S),
                             Cardinality(UnreferencedLetters)})
    /\ IF S \cup D = {} THEN UNCHANGED vars ELSE ReconcileUnreferencedOutputs(S, D)
    /\ phase' = "resuming" /\ cursor' = 1
    /\ UNCHANGED <<diskVars, dropped, publishing, read, building, appended, lettered,
                   crashes>>

SkipRebuilt ==
    /\ phase = "resuming" /\ cursor \in dropped
    /\ cursor' = cursor + 1
    /\ UNCHANGED <<vars, diskVars, phase, dropped, publishing, read, building, appended,
                   lettered, crashes>>

FinishRecovery ==
    /\ phase = "resuming" /\ cursor > Len(log)
    /\ phase' = "reading"
    /\ UNCHANGED <<vars, diskVars, cursor, dropped, publishing, read, building,
                   appended, lettered, crashes>>

-----------------------------------------------------------------------------
(* publish_record: one round of its loop per state of the output.          *)

RegisterOutput ==
    /\ Publishing
    /\ OutputState(Output) = "UNREGISTERED" /\ Output \in staged
    /\ \/ Output \in Segment /\ InsertPrepared(Output, log[Current].items)
       \/ /\ Output \in DeadLetter
          /\ \E b \in log[Current].items : InsertPlannedLetter(Output, b)
    /\ UNCHANGED ingestionVars

\* An upload is retried until it is verified; one that is verified already is
\* found present again.
UploadOutput ==
    /\ Publishing
    /\ OutputState(Output) = "PLANNED" /\ Output \in staged
    /\ Upload(Output) \/ RecordVerifiedUpload(Output)
    /\ UNCHANGED ingestionVars

PublishOutput ==
    /\ Publishing
    /\ OutputState(Output) = "UPLOADED"
    /\ \/ Output \in Segment /\ PublishIngestionSegment(Output) /\ UNCHANGED lettered
       \/ /\ Output \in DeadLetter /\ PublishDeadLetter(Output)
          /\ lettered' = lettered \cup {batchOf[Output]}
    /\ UNCHANGED <<diskVars, workerVars, appended, crashes>>

\* No position is covered twice by the records that recovery has resumed.
CoverageDisjointUpTo(n) ==
    \A i, j \in Kept : i < j /\ j <= n => log[i].items \cap log[j].items = {}

\* The staged file is removed and the output is remembered as published.
FinishOutput ==
    /\ Publishing
    /\ OutputState(Output) = "PUBLISHED"
    /\ phase = "resuming" => CoverageDisjointUpTo(cursor)
    /\ staged' = staged \ {Output}
    /\ cursor' = IF phase = "resuming" THEN cursor + 1 ELSE cursor
    /\ publishing' = FALSE
    /\ UNCHANGED <<vars, spool, checkpoint, log, phase, dropped, read, building,
                   appended, lettered, crashes>>

-----------------------------------------------------------------------------
(* run_loop: read, build, drain, checkpoint, wait.                         *)

\* Mutant: what recovery already covers is not removed from the batch.
NewRows_All(b) == Accepted[b]

NewRows(b) == Accepted[b] \ Covered

ReadBatch ==
    /\ phase \in {"reading", "waiting"} /\ read < Len(spool)
    /\ read' = read + 1
    /\ phase' = "pushing"
    /\ UNCHANGED <<vars, diskVars, cursor, dropped, publishing, building, appended,
                   lettered, crashes>>

PushBatch ==
    /\ phase = "pushing" /\ ~publishing
    /\ LET b == spool[read] IN
          /\ building' = building \cup NewRows(b)
          /\ phase' = IF b \in Rejected \ Covered THEN "letter" ELSE "draining"
    /\ UNCHANGED <<vars, diskVars, cursor, dropped, publishing, read, appended,
                   lettered, crashes>>

\* Output identities are new: no row, record or file has them.
Fresh(o) ==
    /\ objState[o] = "NONE"
    /\ o \notin staged \cup {log[i].output : i \in 1..Len(log)}

CoverageEnd(I) == Max({k \in 1..read : Items(spool[k]) \cap I # {}})

\* The output is staged, then recorded durably, then published.
StageAndRecord(o, I) ==
    /\ Fresh(o)
    /\ staged' = staged \cup {o}
    /\ log' = Append(log, [output |-> o, items |-> I, end |-> CoverageEnd(I)])
    /\ publishing' = TRUE

StageDeadLetter(d) ==
    /\ phase = "letter"
    /\ StageAndRecord(d, {spool[read]})
    /\ phase' = "draining"
    /\ UNCHANGED <<vars, spool, checkpoint, cursor, dropped, read, building, appended,
                   lettered, crashes>>

\* drain_sealed_segments, after a batch, on expiration, or to make room while a
\* batch is deferred: the builders may have sealed any of their rows.
DrainSealedSegment(s, R) ==
    /\ phase \in {"pushing", "draining"} /\ ~publishing
    /\ R # {} /\ R \subseteq building
    /\ StageAndRecord(s, R)
    /\ building' = building \ R
    /\ UNCHANGED <<vars, spool, checkpoint, phase, cursor, dropped, read, appended,
                   lettered, crashes>>

FinishDraining ==
    /\ phase = "draining" /\ ~publishing
    /\ phase' = "reading"
    /\ UNCHANGED <<vars, diskVars, cursor, dropped, publishing, read, building,
                   appended, lettered, crashes>>

SealExpired ==
    /\ phase = "waiting" /\ building # {}
    /\ phase' = "draining"
    /\ UNCHANGED <<vars, diskVars, cursor, dropped, publishing, read, building,
                   appended, lettered, crashes>>

-----------------------------------------------------------------------------
(* advance_checkpoint and the reclamation of spool and log.                *)

\* Mutant: every batch that was read counts as complete.
Target_Read == read

\* plan_checkpoint: the longest prefix of pending batches that published
\* outputs cover.
Target ==
    Max({t \in checkpoint..read :
            \A k \in (checkpoint + 1)..t : Items(spool[k]) \subseteq Covered})

AdvanceCheckpoint ==
    /\ phase = "reading" /\ read = Len(spool)
    /\ CoverageDisjointUpTo(Len(log))
    /\ checkpoint' = Target
    /\ phase' = IF Target = checkpoint THEN "waiting" ELSE "reclaiming"
    /\ UNCHANGED <<vars, spool, log, staged, cursor, dropped, publishing, read,
                   building, appended, lettered, crashes>>

\* Bytes after the checkpoint or an open reservation defer the reclamation.
ReclaimDeferred ==
    /\ phase = "reclaiming"
    /\ phase' = "waiting"
    /\ UNCHANGED <<vars, diskVars, cursor, dropped, publishing, read, building,
                   appended, lettered, crashes>>

ResetCheckpoint ==
    /\ phase = "reclaiming" /\ checkpoint = Len(spool)
    /\ checkpoint' = 0
    /\ phase' = "resetting"
    /\ UNCHANGED <<vars, spool, log, staged, cursor, dropped, publishing, read,
                   building, appended, lettered, crashes>>

TruncateSpool ==
    /\ phase = "resetting"
    /\ spool' = <<>>
    /\ phase' = "truncated"
    /\ UNCHANGED <<vars, checkpoint, log, staged, cursor, dropped, publishing, read,
                   building, appended, lettered, crashes>>

\* A record that ends beyond the reclaimed bytes is a conflict.
LogConflict == \E i \in 1..Len(log) : log[i].end > read

ReclaimLog ==
    /\ phase = "truncated" /\ ~LogConflict
    /\ log' = <<>> /\ dropped' = {} /\ read' = 0
    /\ phase' = "waiting"
    /\ UNCHANGED <<vars, spool, checkpoint, staged, cursor, publishing, building,
                   appended, lettered, crashes>>

-----------------------------------------------------------------------------
\* The process ends at any point and starts again; the scratch directory may
\* lose staged files.
Restart ==
    /\ crashes < MaxCrashes
    /\ crashes' = crashes + 1
    /\ staged' \in SUBSET staged
    /\ phase' = "resolving" /\ cursor' = 1 /\ dropped' = {} /\ publishing' = FALSE
    /\ read' = checkpoint /\ building' = {}
    /\ UNCHANGED <<vars, spool, checkpoint, log, appended, lettered>>

\* Maintenance and time, which go on while the worker runs.  publish_record
\* reads the state it has just written within the retention period.
Elsewhere ==
    /\ \/ \E o \in Object : LatePutLands(o)
       \/ \E S \in SUBSET Segment : ExpireSegments(S)
       \/ \E S \in SUBSET Object : ClaimReclamation(S)
       \/ \E o \in Object : DeleteExact(o)
       \/ \E o \in Object : RecordDeleted(o)
       \/ \E D \in SUBSET Object : CleanTerminalMetadata(D, {})
       \/ (Publishing => OutputState(Output) # "PUBLISHED") /\ Tick
    /\ UNCHANGED ingestionVars

IngestionNext ==
    \/ \E b \in Batch : AppendBatch(b)
    \/ VerifyRecovered
    \/ ResolveRecord
    \/ \E S \in SUBSET Segment, D \in SUBSET DeadLetter : ReconcileOutputs(S, D)
    \/ SkipRebuilt
    \/ FinishRecovery
    \/ RegisterOutput
    \/ UploadOutput
    \/ PublishOutput
    \/ FinishOutput
    \/ ReadBatch
    \/ PushBatch
    \/ \E d \in DeadLetter : StageDeadLetter(d)
    \/ \E s \in Segment, R \in SUBSET Row : DrainSealedSegment(s, R)
    \/ FinishDraining
    \/ SealExpired
    \/ AdvanceCheckpoint
    \/ ReclaimDeferred
    \/ ResetCheckpoint
    \/ TruncateSpool
    \/ ReclaimLog
    \/ Restart
    \/ Elsewhere

IngestionSpec == IngestionInit /\ [][IngestionNext]_allVars
-----------------------------------------------------------------------------
(* Safety.                                                                 *)

\* The worker keeps the discipline that the control plane's guarantees rest
\* on, across crashes, lost staged files and late PUT requests: every output
\* has a new identity, and rows are registered again only after the output
\* that held them was abandoned and before they were ever published
\* (ingestion.md, "MUST reuse the published result rather than create a second
\* segment").
ImplementsControlPlane == Spec

\* A row or the rejected records of a batch have reached a published output.
Delivered(x) == x \in published \cup lettered

\* Every record of an acknowledged batch is in a published output, or the
\* frame of the batch is still in the spool after the checkpoint, so that a
\* restart reads it again.
NothingLost ==
    \A b \in appended :
        \/ \A x \in Items(b) : Delivered(x)
        \/ \E k \in (checkpoint + 1)..Len(spool) : spool[k] = b

\* An output is neither abandoned nor inconsistent, and its bytes are at hand.
Publishable(o) ==
    /\ OutputState(o) \notin {"ABANDONED", "CORRUPT"}
    /\ OutputState(o) = "UNREGISTERED" => o \in staged
    /\ OutputState(o) = "PLANNED" => o \in staged \cup bytes

\* publish_record never meets an output it cannot go on with: one that was
\* abandoned behind its back, whose rows are inconsistent, or whose bytes are
\* neither staged nor uploaded.
PublicationProceeds == Publishing => Publishable(Output)

\* No two outputs that the worker relies on cover the same record: otherwise
\* recovery or the checkpoint reports overlapping coverage for ever.
CoverageDisjoint == phase # "resolving" => CoverageDisjointUpTo(Len(log))

\* The worker never comes to an error that every restart meets again: publish_record can go on with
\* each output, and recovery and the checkpoint find no record covered twice (processing.rs,
\* publish_record and recover_outputs).
RecoveryProceeds == PublicationProceeds /\ CoverageDisjoint

\* A row is published by ingestion at most once (ingestion.md, "Replaying the
\* same durable spool record after an Elucid restart MUST NOT create another
\* logical occurrence").
NoSecondOccurrence ==
    [][\A s \in Segment : segState[s] = "PREPARED" /\ segState'[s] = "ACTIVE"
          => segRows[s] \cap published = {}]_allVars

\* A dead letter that is rebuilt after a crash may meet the row of the lost one, whose (input, batch)
\* is unique.  The conflict always passes: nothing relies on that row any more, and its object is
\* already scheduled for deletion, so that metadata cleanup removes it (ingestion.md, the worker
\* "resumes unpublished dead-letter and segment work").
LetterConflictPasses ==
    Publishing /\ Output \in DeadLetter /\ OutputState(Output) = "UNREGISTERED" =>
        \A d \in DeadLetter \ {Output} : batchOf[d] \in log[Current].items =>
            d \notin Referenced /\ objState[d] \in {"DELETE_PENDING", "DELETED", "REMOVED"}

-----------------------------------------------------------------------------
(* The inductive invariant behind NothingLost, in layers.                  *)

OutputRecoveryRecord == [output : Object, items : SUBSET (Row \cup Batch), end : Nat]

IngestionTypeOK ==
    /\ TypeOK
    /\ spool \in Seq(Batch) /\ checkpoint \in Nat
    /\ log \in Seq(OutputRecoveryRecord)
    /\ staged \in SUBSET Object
    /\ phase \in {"resolving", "resuming", "reading", "pushing", "letter", "draining",
                  "reclaiming", "resetting", "truncated", "waiting"}
    /\ cursor \in Nat \ {0} /\ dropped \in SUBSET (1..Len(log))
    /\ publishing \in BOOLEAN
    /\ read \in Nat
    /\ building \in SUBSET Row
    /\ appended \in SUBSET Batch /\ lettered \in SUBSET Batch /\ crashes \in Nat

\* Where the worker is in the spool and the log.
Positions ==
    /\ checkpoint <= Len(spool)
    /\ phase \in {"resetting", "truncated"} => checkpoint = 0
    /\ phase # "truncated" => checkpoint <= read /\ read <= Len(spool)
    /\ phase \in {"pushing", "letter"} => checkpoint < read
    /\ phase \in {"resolving", "resuming"} => cursor <= Len(log) + 1
    /\ phase = "resolving" => dropped \subseteq 1..(cursor - 1)
    /\ publishing => /\ phase \in {"pushing", "draining"}
                     /\ Len(log) \in Kept

\* What the builders hold comes from batches after the checkpoint, and no
\* output of this incarnation covers it.
Built ==
    /\ phase \in {"resolving", "resuming", "resetting", "truncated"} => building = {}
    /\ \A x \in building : \E k \in (checkpoint + 1)..read : x \in Accepted[spool[k]]
    /\ building \cap Covered = {}
    /\ phase = "letter" => spool[read] \in Rejected \ Covered

\* The rows of a record's output, once they exist, say what the record says.
RecordMatches(i) ==
    LET o == log[i].output IN
    IF o \in Segment
    THEN /\ log[i].items # {} /\ log[i].items \subseteq Row
         /\ segState[o] # "NONE" => segRows[o] = log[i].items
    ELSE \E b \in Batch : /\ log[i].items = {b}
                          /\ objState[o] # "NONE" => batchOf[o] = b

\* Every record has an output of its own and agrees with its rows.
Recorded ==
    /\ \A i, j \in 1..Len(log) : i # j => log[i].output # log[j].output
    /\ \A i \in 1..Len(log) : RecordMatches(i)

\* What the rows of the outputs say of the history.
Publications ==
    /\ \A s \in Segment :
          /\ segState[s] = "NONE" <=> objState[s] = "NONE"
          /\ segState[s] \in {"ACTIVE", "SUPERSEDED", "EXPIRED"} => segRows[s] \subseteq published
    /\ \A d \in DeadLetter :
          /\ objState[d] # "NONE" => batchOf[d] \in Batch
          /\ objState[d] \in {"NONE", "PLANNED", "UPLOADED", "REMOVED"} => reclaimAfter[d] = 0
          /\ objState[d] = "PUBLISHED" => reclaimAfter[d] > 0
          /\ reclaimAfter[d] > 0 => batchOf[d] \in lettered

\* The records that the worker has published, or found published, in this
\* incarnation.
Settled(i) ==
    /\ i \in Kept /\ phase # "resolving"
    /\ phase = "resuming" => i < cursor
    /\ publishing => i # Len(log)

Deliveries ==
    /\ \A i \in 1..Len(log) : Settled(i) => \A x \in log[i].items : Delivered(x)
    /\ \A k \in 1..Len(spool) :
          k <= checkpoint \/ phase = "resetting" => \A x \in Items(spool[k]) : Delivered(x)
    /\ \A b \in appended : \/ \A x \in Items(b) : Delivered(x)
                           \/ \E k \in 1..Len(spool) : spool[k] = b

DeliveryInvariant ==
    IngestionTypeOK /\ Positions /\ Built /\ Recorded /\ Publications /\ Deliveries

-----------------------------------------------------------------------------
(* The discipline of the worker rests on one hypothesis: no published      *)
(* output is reclaimed while the recovery log still records it.            *)

RecordedRetained ==
    \A i \in 1..Len(log) :
        OutputState(log[i].output) = "PUBLISHED" => objState[log[i].output] = "PUBLISHED"

\* It holds when the retention is long against the life of the log.
RetentionSuffices ==
    MaxTime < Retention + ReclamationGrace /\ MaxTime < LetterRetention

\* Then nothing that was published is ever due for reclamation.
NothingDue ==
    /\ now <= MaxTime
    /\ \A s \in Segment :
          /\ segState[s] = "ACTIVE" => dataExpiresAt[s] >= Retention
          /\ segState[s] = "EXPIRED" => /\ objState[s] = "PUBLISHED"
                                       /\ reclaimAfter[s] >= Retention + ReclamationGrace
    /\ \A d \in DeadLetter :
          /\ objState[d] = "PUBLISHED" => reclaimAfter[d] >= LetterRetention
          /\ objState[d] \in {"DELETE_PENDING", "DELETED"} => reclaimAfter[d] = 0

\* An output that nothing can publish any more.
Dead(o) == o \notin staged /\ OutputState(o) \in {"ABANDONED", "UNREGISTERED"}

\* An output that may still be published.
Open(o) == \/ OutputState(o) \in {"PLANNED", "UPLOADED"}
           \/ OutputState(o) = "UNREGISTERED" /\ o \in staged

SpoolItems == UNION {Items(spool[k]) : k \in 1..Len(spool)}
LogItems == UNION {log[i].items : i \in 1..Len(log)}
LogOutputs == {log[i].output : i \in 1..Len(log)}

\* What recovery decides, and what its decisions stay good for.
Decisions ==
    /\ \A o \in staged : /\ o \in LogOutputs
                         /\ OutputState(o) # "ABANDONED" /\ objState[o] # "REMOVED"
    /\ \A i \in dropped :
          \/ Dead(log[i].output)
          \/ /\ phase = "resolving"
             /\ OutputState(log[i].output) = "PLANNED" /\ log[i].output \notin staged
    /\ \A i \in Kept : phase # "resolving" \/ i < cursor => Publishable(log[i].output)
    /\ \A i \in 1..Len(log) : Settled(i) =>
          OutputState(log[i].output) = "PUBLISHED" /\ log[i].output \notin staged

\* At most one output is ever open, and the log records it.
OneOpen ==
    /\ \A s \in Segment : producer[s] = None /\ segState[s] # "SUPERSEDED"
    /\ \A o \in Object : OutputState(o) \in {"PLANNED", "UPLOADED"} => o \in LogOutputs
    /\ \A o, p \in LogOutputs : Open(o) /\ Open(p) => o = p

\* A record that covers what a later one covers has lost its output.
Rebuilt ==
    \A i, j \in 1..Len(log) :
        i < j /\ log[i].items \cap log[j].items # {} => Dead(log[i].output)

\* What was published is not read from the spool again unless the log says so.
Replayed ==
    /\ \A x \in published \cap SpoolItems : \E i \in 1..Len(log) :
          x \in log[i].items /\ OutputState(log[i].output) = "PUBLISHED"
    /\ \A i \in 1..Len(log) :
          \/ log[i].items \subseteq SpoolItems
          \/ OutputState(log[i].output) = "PUBLISHED"
          \/ Dead(log[i].output)
    /\ phase = "truncated" => LogItems \cap SpoolItems = {}
    /\ published \cup LogItems \cup SpoolItems \subseteq UNION {Items(b) : b \in appended}

\* The row of a dead letter that the log has forgotten meets no new one.
LettersApart ==
    \A d \in DeadLetter :
        IF objState[d] = "NONE"
        THEN batchOf[d] = None
        ELSE /\ batchOf[d] \in appended
             /\ d \in LogOutputs \/ batchOf[d] \notin SpoolItems \cup LogItems

DisciplineInvariant ==
    DeliveryInvariant /\ RowsPaired /\ BytesBacked /\ Decisions /\ OneOpen /\ Rebuilt
        /\ Replayed /\ LettersApart

=============================================================================
