---------------------------- MODULE ControlPlane ----------------------------
(***************************************************************************)
(* The PostgreSQL control plane and the object store it describes: the     *)
(* life of a segment row, of the stored object that carries its bytes, of  *)
(* a compaction run, and of the query snapshots that read them.            *)
(*                                                                         *)
(* One action is one transaction of elucid-metastore (PublicationStore,    *)
(* CompactionStore, MaintenanceOwner, RetentionStore,                      *)
(* ObjectReclamationStore, QuerySnapshotStore), or one object-store call   *)
(* made between two transactions.  Callers may stop between any two of     *)
(* their calls: a crash, a cancelled cycle and a lost response are the     *)
(* same thing here, a caller that never takes its next step.               *)
(*                                                                         *)
(* Each segment owns exactly one Parquet object (the unique index on       *)
(* stored_objects.segment_id), so a segment and its object share one name. *)
(***************************************************************************)
EXTENDS Integers, FiniteSets

CONSTANTS
    Segment,         \* identities of segments (and of their Parquet objects)
    DeadLetter,      \* identities of dead-letter objects
    Batch,           \* accepted batches that may own a dead letter
    Row,             \* event occurrences
    Run,             \* identities of compaction runs
    Query,           \* query requests
    None,            \* SQL NULL
    Retention,       \* RetentionPeriod of events
    LetterRetention, \* RetentionPeriod of dead letters
    MinRetention,    \* CompactionClaimLimits.minimum_retention
    QueryTimeout,    \* query.timeout_seconds
    SafetyMargin,    \* RECLAMATION_SAFETY_MARGIN_SECONDS
    OrphanGrace,     \* OrphanGracePeriod
    CommitLag,       \* longest time from CURRENT_TIMESTAMP to the commit
    SelectLag,       \* longest time from the snapshot to the query deadline's start
    MaxTime,         \* bound: the clock stops here
    MaxLatePuts      \* bound: abandoned PUT requests in flight at once

Object == Segment \cup DeadLetter

\* A transaction's CURRENT_TIMESTAMP is its start, a query's clock starts
\* after its snapshot returns: both lags must fit in the safety margin.
ASSUME DurationAssumption ==
    /\ Retention \in Nat /\ LetterRetention \in Nat /\ MinRetention \in Nat
    /\ QueryTimeout \in Nat /\ SafetyMargin \in Nat /\ OrphanGrace \in Nat
    /\ CommitLag \in Nat /\ SelectLag \in Nat /\ MaxTime \in Nat /\ MaxLatePuts \in Nat
    /\ CommitLag + SelectLag <= SafetyMargin

ASSUME IdentityAssumption ==
    /\ Segment \cap DeadLetter = {}
    /\ None \notin Run \cup Batch

VARIABLES
    now,             \* PostgreSQL time
    segState,        \* segments.state; "NONE" before and "REMOVED" after the row exists
    segRows,         \* the rows in the segment's Parquet file
    producer,        \* segments.produced_by_compaction_run_id
    claimedBy,       \* segments.claimed_by_compaction_run_id
    dataExpiresAt,   \* segments.data_expires_at
    reclaimAfter,    \* segments.reclaim_after, stored_objects.retention_deadline
    objState,        \* stored_objects.state, with "NONE" and "REMOVED" as above
    batchOf,         \* stored_objects.batch_id of a dead letter
    runState,        \* compaction_runs.state, with "NONE" and "REMOVED"
    bytes,           \* the objects whose bytes are in the bucket
    inFlight,        \* objects with an abandoned PUT request that may still land
    verified,        \* objects whose upload a caller has probed and verified
    claimed,         \* objects a maintenance cycle holds a deletion claim on
    absent,          \* objects whose claim holder has seen the deletion succeed
    query,           \* phase of each query
    snapshot,        \* segments a query selected
    snapshotAt,      \* when it selected them
    deadline,        \* when its execution times out
    published,       \* history: rows ever published by ingestion
    rowDeadline,     \* history: the end of a row's retention
    expired          \* history: rows that left by expiration

segVars == <<segState, segRows, producer, claimedBy, dataExpiresAt>>
queryVars == <<query, snapshot, snapshotAt, deadline>>
historyVars == <<published, rowDeadline, expired>>
storeVars == <<bytes, inFlight, verified, claimed, absent>>
vars == <<now, segVars, reclaimAfter, objState, batchOf, runState,
          storeVars, queryVars, historyVars>>

SegmentStates == {"NONE", "PREPARED", "ACTIVE", "SUPERSEDED", "EXPIRED",
                  "ABANDONED", "REMOVED"}
ObjectStates == {"NONE", "PLANNED", "UPLOADED", "PUBLISHED",
                 "DELETE_PENDING", "DELETED", "REMOVED"}
RunStates == {"NONE", "BUILDING", "UPLOADING", "COMMITTED", "FAILED", "REMOVED"}

Retired == {"SUPERSEDED", "EXPIRED", "ABANDONED"}
Unfinished == {"BUILDING", "UPLOADING"}

TypeOK ==
    /\ now \in Nat
    /\ segState \in [Segment -> SegmentStates]
    /\ segRows \in [Segment -> SUBSET Row]
    /\ producer \in [Segment -> Run \cup {None}]
    /\ claimedBy \in [Segment -> Run \cup {None}]
    /\ dataExpiresAt \in [Segment -> Nat]
    /\ reclaimAfter \in [Object -> Nat]
    /\ objState \in [Object -> ObjectStates]
    /\ batchOf \in [DeadLetter -> Batch \cup {None}]
    /\ runState \in [Run -> RunStates]
    /\ bytes \in SUBSET Object
    /\ inFlight \in SUBSET Object
    /\ verified \in SUBSET Object
    /\ claimed \in SUBSET Object
    /\ absent \in SUBSET Object
    /\ query \in [Query -> {"idle", "selected", "executing"}]
    /\ snapshot \in [Query -> SUBSET Segment]
    /\ snapshotAt \in [Query -> Nat]
    /\ deadline \in [Query -> Nat]
    /\ published \in SUBSET Row
    /\ rowDeadline \in [Row -> Nat]
    /\ expired \in SUBSET Row

Init ==
    /\ now = 0
    /\ segState = [s \in Segment |-> "NONE"]
    /\ segRows = [s \in Segment |-> {}]
    /\ producer = [s \in Segment |-> None]
    /\ claimedBy = [s \in Segment |-> None]
    /\ dataExpiresAt = [s \in Segment |-> 0]
    /\ reclaimAfter = [o \in Object |-> 0]
    /\ objState = [o \in Object |-> "NONE"]
    /\ batchOf = [d \in DeadLetter |-> None]
    /\ runState = [r \in Run |-> "NONE"]
    /\ bytes = {}
    /\ inFlight = {}
    /\ verified = {}
    /\ claimed = {}
    /\ absent = {}
    /\ query = [q \in Query |-> "idle"]
    /\ snapshot = [q \in Query |-> {}]
    /\ snapshotAt = [q \in Query |-> 0]
    /\ deadline = [q \in Query |-> 0]
    /\ published = {}
    /\ rowDeadline = [x \in Row |-> 0]
    /\ expired = {}

-----------------------------------------------------------------------------
(* Transactions read CURRENT_TIMESTAMP once, when they start.              *)

\* Mutant: some callers use the host's clock, which runs ahead.
TransactionStart_HostClock == {now, now + 1}

TransactionStart == {t \in 0..now : now - CommitLag <= t}

\* SET state = v for the rows in S.
Update(f, S, v) == [x \in DOMAIN f |-> IF x \in S THEN v ELSE f[x]]

Registered(s) == segState[s] \notin {"NONE", "REMOVED"}
RowsOf(S) == UNION {segRows[s] : s \in S}
Active == {s \in Segment : segState[s] = "ACTIVE"}
Claims(r) == {s \in Segment : Registered(s) /\ claimedBy[s] = r}
Outputs(r) == {s \in Segment : Registered(s) /\ producer[s] = r}
\* Mutant: failing a run forgets to release its inputs.
ClaimsOfAny_Forgotten(F) == {s \in Segment : FALSE}

ClaimsOfAny(F) == {s \in Segment : Registered(s) /\ claimedBy[s] \in F}
OutputsOfAny(F) == {s \in Segment : Registered(s) /\ producer[s] \in F}

\* Mutant: the grace period leaves the safety margin out.
ReclamationGrace_NoMargin == QueryTimeout

ReclamationGrace == QueryTimeout + SafetyMargin

-----------------------------------------------------------------------------
(* PublicationStore: outputs of the ingestion worker.                      *)

\* register_ingestion_segment inserts both rows or, finding them, neither.
InsertPrepared(s, R) ==
    /\ ~Registered(s)
    /\ R # {}
    /\ segState' = Update(segState, {s}, "PREPARED")
    /\ segRows' = Update(segRows, {s}, R)
    /\ objState' = Update(objState, {s}, "PLANNED")
    /\ verified' = verified \ {s}
    /\ UNCHANGED <<now, producer, claimedBy, dataExpiresAt, reclaimAfter, batchOf,
                   runState, bytes, inFlight, claimed, absent, queryVars,
                   historyVars>>

\* Rows that are neither published nor held by a prepared ingestion segment.
Unheld(R) ==
    /\ R \cap published = {}
    /\ \A t \in Segment : segState[t] = "PREPARED" /\ producer[t] = None
                          => R \cap segRows[t] = {}

\* The discipline of the ingestion worker, which module Ingestion accounts for:
\* a fresh identity for every output, and a lost output is abandoned before
\* its rows are registered again.
RegisterIngestionSegment(s, R) ==
    /\ segState[s] = "NONE"
    /\ Unheld(R)
    /\ InsertPrepared(s, R)

\* (input_id, batch_id) is unique among the dead letters that have a row.
LetterUnique(b) ==
    \A e \in DeadLetter : batchOf[e] = b => objState[e] = "REMOVED"

InsertPlannedLetter(d, b) ==
    /\ objState[d] \in {"NONE", "REMOVED"}
    /\ LetterUnique(b)
    /\ objState' = Update(objState, {d}, "PLANNED")
    /\ batchOf' = Update(batchOf, {d}, b)
    /\ verified' = verified \ {d}
    /\ UNCHANGED <<now, segVars, reclaimAfter, runState, bytes, inFlight, claimed,
                   absent, queryVars, historyVars>>

RegisterDeadLetter(d, b) ==
    /\ objState[d] = "NONE"
    /\ InsertPlannedLetter(d, b)

RecordVerifiedUpload(o) ==
    /\ o \in verified
    /\ objState[o] = "PLANNED"
    /\ objState' = Update(objState, {o}, "UPLOADED")
    /\ UNCHANGED <<now, segVars, reclaimAfter, batchOf, runState, storeVars,
                   queryVars, historyVars>>

PublishIngestionSegment(s) ==
    /\ producer[s] = None
    /\ segState[s] = "PREPARED"
    /\ objState[s] = "UPLOADED"
    /\ \E t \in TransactionStart :
          /\ dataExpiresAt' = Update(dataExpiresAt, {s}, t + Retention)
          /\ rowDeadline' = Update(rowDeadline, segRows[s], t + Retention)
    /\ segState' = Update(segState, {s}, "ACTIVE")
    /\ objState' = Update(objState, {s}, "PUBLISHED")
    /\ published' = published \cup segRows[s]
    /\ UNCHANGED <<now, segRows, producer, claimedBy, reclaimAfter, batchOf,
                   runState, storeVars, queryVars, expired>>

PublishDeadLetter(d) ==
    /\ objState[d] = "UPLOADED"
    /\ \E t \in TransactionStart :
          reclaimAfter' = Update(reclaimAfter, {d}, t + LetterRetention)
    /\ objState' = Update(objState, {d}, "PUBLISHED")
    /\ UNCHANGED <<now, segVars, batchOf, runState, storeVars, queryVars,
                   historyVars>>

\* What ingestion_output_state resolves the two rows of an output to.
IngestionOutputState(s) ==
    CASE segState[s] \in {"NONE", "REMOVED"} /\ objState[s] \in {"NONE", "REMOVED"}
           -> "UNREGISTERED"
      [] segState[s] = "PREPARED" /\ objState[s] \in {"PLANNED", "UPLOADED"}
           -> objState[s]
      [] segState[s] = "ACTIVE" /\ objState[s] = "PUBLISHED"
           -> "PUBLISHED"
      [] segState[s] \in {"SUPERSEDED", "EXPIRED"}
         /\ objState[s] \in {"PUBLISHED", "DELETE_PENDING", "DELETED"}
           -> "PUBLISHED"
      [] segState[s] = "ABANDONED"
         /\ objState[s] \in {"PLANNED", "UPLOADED", "DELETE_PENDING", "DELETED"}
           -> "ABANDONED"
      [] OTHER -> "CORRUPT"

AbandonIngestionOutput(s) ==
    /\ producer[s] = None
    /\ IngestionOutputState(s) \in {"PLANNED", "UPLOADED"}
    /\ \E t \in TransactionStart :
          reclaimAfter' = Update(reclaimAfter, {s}, t + OrphanGrace)
    /\ segState' = Update(segState, {s}, "ABANDONED")
    /\ UNCHANGED <<now, segRows, producer, claimedBy, dataExpiresAt, objState,
                   batchOf, runState, storeVars, queryVars, historyVars>>

\* S and D are the first rows, up to the limit, that local metadata does not
\* reference; a dead letter is scheduled for deletion at once.
ReconcileUnreferencedOutputs(S, D) ==
    /\ S \cup D # {}
    /\ \A s \in S : segState[s] = "PREPARED" /\ producer[s] = None
    /\ \A d \in D : objState[d] \in {"PLANNED", "UPLOADED"}
    /\ \E t \in TransactionStart :
          reclaimAfter' = Update(reclaimAfter, S, t + OrphanGrace)
    /\ segState' = Update(segState, S, "ABANDONED")
    /\ objState' = Update(objState, D, "DELETE_PENDING")
    /\ UNCHANGED <<now, segRows, producer, claimedBy, dataExpiresAt, batchOf,
                   runState, storeVars, queryVars, historyVars>>

-----------------------------------------------------------------------------
(* SegmentObjectStore: calls made between transactions.                    *)

\* upload probes the key, sends a create-only PUT when it is absent and probes
\* again.  The caller may give up on a request that is still in flight.
UploadVerified(o) ==
    /\ objState[o] = "PLANNED"
    /\ o \notin verified
    /\ bytes' = bytes \cup {o}
    /\ verified' = verified \cup {o}
    /\ UNCHANGED <<now, segVars, reclaimAfter, objState, batchOf, runState,
                   inFlight, claimed, absent, queryVars, historyVars>>

UploadLeftInFlight(o) ==
    /\ objState[o] = "PLANNED"
    /\ o \notin verified \cup bytes \cup inFlight
    /\ Cardinality(inFlight) < MaxLatePuts
    /\ inFlight' = inFlight \cup {o}
    /\ UNCHANGED <<now, segVars, reclaimAfter, objState, batchOf, runState,
                   bytes, verified, claimed, absent, queryVars, historyVars>>

Upload(o) == UploadVerified(o) \/ UploadLeftInFlight(o)

LatePutLands(o) ==
    /\ o \in inFlight
    /\ bytes' = bytes \cup {o}
    /\ inFlight' = inFlight \ {o}
    /\ UNCHANGED <<now, segVars, reclaimAfter, objState, batchOf, runState,
                   verified, claimed, absent, queryVars, historyVars>>

DeleteExact(o) ==
    /\ o \in claimed
    /\ bytes' = bytes \ {o}
    /\ absent' = absent \cup {o}
    /\ UNCHANGED <<now, segVars, reclaimAfter, objState, batchOf, runState,
                   inFlight, verified, claimed, queryVars, historyVars>>

-----------------------------------------------------------------------------
(* CompactionStore and MaintenanceOwner: one run replaces at least two     *)
(* active segments by fewer, without a query noticing.                     *)

\* Candidate selection bounds I; here any two or more candidates may be chosen.
ClaimCompaction(r, I) ==
    /\ runState[r] = "NONE"
    /\ Cardinality(I) >= 2
    /\ \E t \in TransactionStart : \A s \in I :
          /\ segState[s] = "ACTIVE" /\ objState[s] = "PUBLISHED"
          /\ claimedBy[s] = None
          /\ dataExpiresAt[s] > t + MinRetention
    /\ runState' = Update(runState, {r}, "BUILDING")
    /\ claimedBy' = Update(claimedBy, I, r)
    /\ UNCHANGED <<now, segState, segRows, producer, dataExpiresAt,
                   reclaimAfter, objState, batchOf, storeVars, queryVars,
                   historyVars>>

\* Mutant: the merge loses rows, as when a cursor's last batch is dropped.
Distributes_Lossy(content, O, R) ==
    \A s \in O : content[s] # {} /\ content[s] \subseteq R

\* The merge distributes the inputs' rows over the outputs, each to one.
Distributes(content, O, R) ==
    /\ \A s \in O : content[s] # {}
    /\ \A s, t \in O : s # t => content[s] \cap content[t] = {}
    /\ UNION {content[s] : s \in O} = R

Building == {r \in Run : runState[r] = "BUILDING"}

\* Every output keeps the latest expiry e of the inputs.
RegisterOutputs(r, O, content, e) ==
    /\ runState[r] = "BUILDING"
    /\ \A s \in Claims(r) : segState[s] = "ACTIVE" /\ dataExpiresAt[s] <= e
    /\ \E s \in Claims(r) : dataExpiresAt[s] = e
    /\ O # {} /\ Cardinality(O) < Cardinality(Claims(r))
    /\ \A s \in O : segState[s] = "NONE"
    /\ Distributes(content, O, RowsOf(Claims(r)))
    /\ runState' = Update(runState, {r}, "UPLOADING")
    /\ segState' = Update(segState, O, "PREPARED")
    /\ segRows' = [s \in Segment |-> IF s \in O THEN content[s] ELSE segRows[s]]
    /\ producer' = Update(producer, O, r)
    /\ dataExpiresAt' = Update(dataExpiresAt, O, e)
    /\ objState' = Update(objState, O, "PLANNED")
    /\ UNCHANGED <<now, claimedBy, reclaimAfter, batchOf, storeVars,
                   queryVars, historyVars>>

\* segments_timestamps_check rejects published_at > data_expires_at.
PublishReplacement(r) ==
    /\ runState[r] = "UPLOADING"
    /\ \A s \in Claims(r) : segState[s] = "ACTIVE"
    /\ \A s \in Outputs(r) : segState[s] = "PREPARED" /\ objState[s] = "UPLOADED"
    /\ \E t \in TransactionStart :
          /\ \A s \in Outputs(r) : t <= dataExpiresAt[s]
          /\ reclaimAfter' = Update(reclaimAfter, Claims(r), t + ReclamationGrace)
    /\ segState' = Update(Update(segState, Claims(r), "SUPERSEDED"),
                          Outputs(r), "ACTIVE")
    /\ objState' = Update(objState, Outputs(r), "PUBLISHED")
    /\ runState' = Update(runState, {r}, "COMMITTED")
    /\ UNCHANGED <<now, segRows, producer, claimedBy, dataExpiresAt, batchOf,
                   storeVars, queryVars, historyVars>>

\* validate_failure_safe: otherwise failing the run reports corruption.
FailureSafe(r) ==
    /\ Cardinality(Claims(r)) >= 2
    /\ \A s \in Claims(r) : segState[s] = "ACTIVE"
    /\ runState[r] = "BUILDING" => Outputs(r) = {}
    /\ runState[r] = "UPLOADING" =>
          /\ Outputs(r) # {} /\ RowsOf(Outputs(r)) = RowsOf(Claims(r))
          /\ \A s \in Outputs(r) : /\ segState[s] = "PREPARED"
                                   /\ objState[s] \in {"PLANNED", "UPLOADED"}

\* fail_run fails one run, recover_unfinished every run of a batch F.
FailRuns(F) ==
    /\ F # {}
    /\ \A r \in F : runState[r] \in Unfinished /\ FailureSafe(r)
    /\ \E t \in TransactionStart :
          reclaimAfter' = Update(reclaimAfter, OutputsOfAny(F), t + OrphanGrace)
    /\ claimedBy' = Update(claimedBy, ClaimsOfAny(F), None)
    /\ segState' = Update(segState, OutputsOfAny(F), "ABANDONED")
    /\ runState' = Update(runState, F, "FAILED")
    /\ UNCHANGED <<now, segRows, producer, dataExpiresAt, objState, batchOf,
                   storeVars, queryVars, historyVars>>

-----------------------------------------------------------------------------
(* RetentionStore and ObjectReclamationStore: the bounded scans of one     *)
(* maintenance cycle.  FOR UPDATE SKIP LOCKED LIMIT n returns some of the  *)
(* eligible rows.                                                          *)

\* Mutant: expires segments that a compaction run holds.
ExpireSegments_Claimed(S) ==
    /\ S # {}
    /\ \E t \in TransactionStart :
          /\ \A s \in S : segState[s] = "ACTIVE" /\ dataExpiresAt[s] <= t
          /\ reclaimAfter' = Update(reclaimAfter, S, t + ReclamationGrace)
    /\ segState' = Update(segState, S, "EXPIRED")
    /\ expired' = expired \cup RowsOf(S)
    /\ UNCHANGED <<now, segRows, producer, claimedBy, dataExpiresAt, objState,
                   batchOf, runState, storeVars, queryVars, published,
                   rowDeadline>>

ExpireSegments(S) ==
    /\ S # {}
    /\ \E t \in TransactionStart :
          /\ \A s \in S : /\ segState[s] = "ACTIVE"
                          /\ claimedBy[s] = None
                          /\ dataExpiresAt[s] <= t
          /\ reclaimAfter' = Update(reclaimAfter, S, t + ReclamationGrace)
    /\ segState' = Update(segState, S, "EXPIRED")
    /\ expired' = expired \cup RowsOf(S)
    /\ UNCHANGED <<now, segRows, producer, claimedBy, dataExpiresAt, objState,
                   batchOf, runState, storeVars, queryVars, published,
                   rowDeadline>>

\* Mutant: the scan takes live segments too.
InitialCandidate_LiveToo(o, t) ==
    reclaimAfter[o] <= t /\ objState[o] = "PUBLISHED"

\* load_initial_candidates at time t.
InitialCandidate(o, t) ==
    /\ reclaimAfter[o] <= t
    /\ \/ /\ o \in Segment
          /\ \/ segState[o] \in {"SUPERSEDED", "EXPIRED"} /\ objState[o] = "PUBLISHED"
             \/ segState[o] = "ABANDONED" /\ objState[o] \in {"PLANNED", "UPLOADED"}
       \/ o \in DeadLetter /\ objState[o] = "PUBLISHED"

\* A pending deletion may be retried; the retry delay is any time.
ClaimReclamation(S) ==
    /\ S # {}
    /\ \E t \in TransactionStart : \A o \in S :
          objState[o] = "DELETE_PENDING" \/ InitialCandidate(o, t)
    /\ objState' = Update(objState, S, "DELETE_PENDING")
    /\ claimed' = claimed \cup S
    /\ UNCHANGED <<now, segVars, reclaimAfter, batchOf, runState, bytes,
                   inFlight, verified, absent, queryVars, historyVars>>

RecordDeleted(o) ==
    /\ o \in absent
    /\ objState[o] = "DELETE_PENDING"
    /\ objState' = Update(objState, {o}, "DELETED")
    /\ UNCHANGED <<now, segVars, reclaimAfter, batchOf, runState, storeVars,
                   queryVars, historyVars>>

\* Mutant: a segment that any run ever named is kept.
Cleanable_NeverInRun(s) ==
    segState[s] \in Retired /\ \A r \in Run : r \notin {producer[s], claimedBy[s]}

\* Segments whose terminal row may go: none of their runs is unfinished.
Cleanable(s) ==
    /\ segState[s] \in Retired
    /\ \A r \in Run : runState[r] \in Unfinished => r \notin {producer[s], claimedBy[s]}

\* Removes the deleted objects D with their segments, then the terminal runs
\* F that no remaining segment names.
CleanTerminalMetadata(D, F) ==
    /\ D \cup F # {}
    /\ \A o \in D : objState[o] = "DELETED" /\ (o \in Segment => Cleanable(o))
    /\ \A r \in F : /\ runState[r] \in {"COMMITTED", "FAILED"}
                    /\ Claims(r) \cup Outputs(r) \subseteq D
    /\ objState' = Update(objState, D, "REMOVED")
    /\ segState' = Update(segState, D, "REMOVED")
    /\ claimedBy' = Update(claimedBy, D, None)
    /\ dataExpiresAt' = Update(dataExpiresAt, D, 0)
    /\ reclaimAfter' = Update(reclaimAfter, D, 0)
    /\ runState' = Update(runState, F, "REMOVED")
    /\ UNCHANGED <<now, segRows, producer, batchOf, storeVars, queryVars,
                   historyVars>>

-----------------------------------------------------------------------------
(* QuerySnapshotStore and the query's deadline.                            *)

\* Mutant: segments that expired but still have their object are selected.
SelectSnapshot_Unreclaimed(q) ==
    /\ query[q] = "idle"
    /\ query' = Update(query, {q}, "selected")
    /\ snapshot' = Update(snapshot, {q},
                          {s \in Segment : segState[s] \in {"ACTIVE", "EXPIRED"}})
    /\ snapshotAt' = Update(snapshotAt, {q}, now)
    /\ UNCHANGED <<now, segVars, reclaimAfter, objState, batchOf, runState,
                   storeVars, deadline, historyVars>>

SelectSnapshot(q) ==
    /\ query[q] = "idle"
    /\ query' = Update(query, {q}, "selected")
    /\ snapshot' = Update(snapshot, {q}, Active)
    /\ snapshotAt' = Update(snapshotAt, {q}, now)
    /\ UNCHANGED <<now, segVars, reclaimAfter, objState, batchOf, runState,
                   storeVars, deadline, historyVars>>

StartExecution(q) ==
    /\ query[q] = "selected"
    /\ query' = Update(query, {q}, "executing")
    /\ deadline' = Update(deadline, {q}, now + QueryTimeout)
    /\ UNCHANGED <<now, segVars, reclaimAfter, objState, batchOf, runState,
                   storeVars, snapshot, snapshotAt, historyVars>>

FinishQuery(q) ==
    /\ query[q] \in {"selected", "executing"}
    /\ query' = Update(query, {q}, "idle")
    /\ snapshot' = Update(snapshot, {q}, {})
    /\ snapshotAt' = Update(snapshotAt, {q}, 0)
    /\ deadline' = Update(deadline, {q}, 0)
    /\ UNCHANGED <<now, segVars, reclaimAfter, objState, batchOf, runState,
                   storeVars, historyVars>>

\* Time passes; no snapshot is kept waiting longer than SelectLag.
Tick ==
    /\ now < MaxTime
    /\ \A q \in Query : query[q] = "selected" => now < snapshotAt[q] + SelectLag
    /\ now' = now + 1
    /\ UNCHANGED <<segVars, reclaimAfter, objState, batchOf, runState,
                   storeVars, queryVars, historyVars>>

-----------------------------------------------------------------------------
Next ==
    \/ \E s \in Segment, R \in SUBSET Row : RegisterIngestionSegment(s, R)
    \/ \E d \in DeadLetter, b \in Batch : RegisterDeadLetter(d, b)
    \/ \E o \in Object : Upload(o)
    \/ \E o \in Object : LatePutLands(o)
    \/ \E o \in Object : RecordVerifiedUpload(o)
    \/ \E s \in Segment : PublishIngestionSegment(s)
    \/ \E d \in DeadLetter : PublishDeadLetter(d)
    \/ \E s \in Segment : AbandonIngestionOutput(s)
    \/ \E S \in SUBSET Segment, D \in SUBSET DeadLetter :
          ReconcileUnreferencedOutputs(S, D)
    \/ \E r \in Run, I \in SUBSET Segment : ClaimCompaction(r, I)
    \/ \E r \in Building, O \in SUBSET Segment :
          \E content \in [O -> SUBSET Row], s \in Segment :
             RegisterOutputs(r, O, content, dataExpiresAt[s])
    \/ \E r \in Run : PublishReplacement(r)
    \/ \E F \in SUBSET Run : FailRuns(F)
    \/ \E S \in SUBSET Segment : ExpireSegments(S)
    \/ \E S \in SUBSET Object : ClaimReclamation(S)
    \/ \E o \in Object : DeleteExact(o)
    \/ \E o \in Object : RecordDeleted(o)
    \/ \E D \in SUBSET Object, F \in SUBSET Run : CleanTerminalMetadata(D, F)
    \/ \E q \in Query : SelectSnapshot(q)
    \/ \E q \in Query : StartExecution(q)
    \/ \E q \in Query : FinishQuery(q)
    \/ Tick

Spec == Init /\ [][Next]_vars

-----------------------------------------------------------------------------
(* Safety.                                                                 *)

\* A segment that queries may select has its object published and its bytes
\* in the bucket: no reconciliation, failed run, expiration or reclamation
\* ever reaches the object of an ACTIVE segment (retention.md, "never deletes
\* an object referenced by an ACTIVE or PREPARED segment").
ActiveReadable ==
    \A s \in Segment : segState[s] = "ACTIVE" => objState[s] = "PUBLISHED" /\ s \in bytes

\* Every row published by ingestion and not yet expired is in exactly one
\* ACTIVE segment, whatever compactions replaced, failed or were recovered;
\* and a query's snapshot holds no row twice.
ExactlyOnceVisible ==
    /\ \A s, t \in Active : s # t => segRows[s] \cap segRows[t] = {}
    /\ RowsOf(Active) = published \ expired
    /\ \A q \in Query : \A s, t \in snapshot[q] :
          s # t => segRows[s] \cap segRows[t] = {}

\* An execution that has not reached its deadline finds every object of its
\* snapshot in the bucket, although its segments may since have been
\* superseded, expired, claimed for deletion or cleaned up: reclaim_after
\* outlasts the query (query-engine.md and ReclamationGracePeriod).
SnapshotReadable ==
    \A q \in Query :
        query[q] = "executing" /\ now < deadline[q] => snapshot[q] \subseteq bytes

\* A claim never outlives its run: an ACTIVE segment claimed by a finished or
\* removed run could neither be compacted nor expire again.
NoStrandedClaim ==
    \A s \in Active : claimedBy[s] # None => runState[claimedBy[s]] \in Unfinished

\* Failing an unfinished run never reports corruption, so a new maintenance
\* owner can always recover what the former one left.
UnfinishedRunsFailureSafe ==
    \A r \in Run : runState[r] \in Unfinished => FailureSafe(r)

\* The rows of an output never reach a combination that
\* ingestion_output_state reports as corrupt, although two transactions of
\* different callers write them.
OutputStateNeverCorrupt ==
    \A s \in Segment : producer[s] = None => IngestionOutputState(s) # "CORRUPT"

\* No row leaves before the retention its publication promised, however often
\* its segment was rewritten.
RetentionHonoured ==
    [][\A x \in expired' \ expired : rowDeadline[x] <= now]_vars

\* The bytes of a published dead letter stay until its retention deadline,
\* whichever startup reconciliations and deletion retries run before it.
DeadLetterKept ==
    \A d \in DeadLetter :
        objState[d] # "NONE" /\ now < reclaimAfter[d] => d \in bytes

-----------------------------------------------------------------------------
(* The control plane implements VisibleRows: publishing a replacement,     *)
(* failing a run, reclaiming and cleaning up are invisible to a reader.    *)

Visible == INSTANCE VisibleRows WITH
    visible <- RowsOf(Active),
    gone <- expired,
    result <- [q \in Query |-> RowsOf(snapshot[q])]

\* Readers see publication, expiration and their own snapshot, and nothing
\* else: a compaction never makes a row appear twice, vanish or come back.
ImplementsVisibleRows == Visible!Spec

-----------------------------------------------------------------------------
(* Liveness.  The maintenance owner repeats its cycle every few seconds:   *)
(* each scan is ordered by age, so an eligible row is eventually picked; a *)
(* run is published, failed by its owner, or recovered by the next one.    *)

Fairness ==
    /\ WF_vars(Tick)
    /\ \A r \in Run : WF_vars(\/ PublishReplacement(r)
                              \/ \E F \in SUBSET Run : r \in F /\ FailRuns(F))
    /\ \A s \in Segment :
          WF_vars(\E S \in SUBSET Segment : s \in S /\ ExpireSegments(S))
    /\ \A o \in Object :
          /\ WF_vars(o \notin claimed /\ \E S \in SUBSET Object :
                        o \in S /\ ClaimReclamation(S))
          /\ WF_vars(DeleteExact(o))
          /\ WF_vars(RecordDeleted(o))
          /\ WF_vars(\E D \in SUBSET Object, F \in SUBSET Run :
                        o \in D /\ CleanTerminalMetadata(D, F))
    /\ \A q \in Query : WF_vars(FinishQuery(q))

LiveSpec == Spec /\ Fairness

\* Data does not outlive its retention for ever: a claim by a run that
\* stalled or crashed does not keep an expired segment ACTIVE.
ExpiryHappens ==
    \A s \in Segment :
        (segState[s] = "ACTIVE" /\ dataExpiresAt[s] + CommitLag <= MaxTime)
            ~> segState[s] # "ACTIVE"

\* The objects and rows of retired segments are eventually removed.
RetiredRemoved ==
    \A s \in Segment :
        (segState[s] \in Retired /\ reclaimAfter[s] + CommitLag <= MaxTime)
            ~> (segState[s] = "REMOVED" /\ objState[s] = "REMOVED")

-----------------------------------------------------------------------------
(* The inductive invariant behind the safety properties, in layers.        *)

\* The segment row and the object row move together.
RowsPaired ==
    \A s \in Segment :
        /\ segState[s] = "NONE" => objState[s] = "NONE"
        /\ segState[s] = "PREPARED" => objState[s] \in {"PLANNED", "UPLOADED"}
        /\ segState[s] = "ACTIVE" => objState[s] = "PUBLISHED"
        /\ segState[s] \in {"SUPERSEDED", "EXPIRED"} =>
              objState[s] \in {"PUBLISHED", "DELETE_PENDING", "DELETED"}
        /\ segState[s] = "ABANDONED" =>
              objState[s] \in {"PLANNED", "UPLOADED", "DELETE_PENDING", "DELETED"}
        /\ segState[s] = "REMOVED" => objState[s] = "REMOVED"

\* What the object rows say of the bucket.
BytesBacked ==
    /\ \A o \in Object :
          /\ objState[o] \in {"UPLOADED", "PUBLISHED"} => o \in bytes
          /\ objState[o] = "PLANNED" /\ o \in verified => o \in bytes
          /\ objState[o] = "NONE" => o \notin verified
          /\ o \in claimed => objState[o] \in {"DELETE_PENDING", "DELETED", "REMOVED"}
    /\ absent \subseteq claimed

\* Which segments a run may have claimed and produced in each of its states.
RunsConsistent ==
    /\ \A r \in Run :
          /\ runState[r] = "NONE" => Claims(r) = {} /\ Outputs(r) = {}
          /\ runState[r] = "BUILDING" => Outputs(r) = {}
          /\ runState[r] = "UPLOADING" =>
                /\ Outputs(r) # {}
                /\ \A s \in Outputs(r) : segState[s] = "PREPARED"
          /\ runState[r] \in Unfinished => \A s \in Claims(r) : segState[s] = "ACTIVE"
    /\ \A s \in Segment :
          /\ segState[s] = "NONE" => producer[s] = None /\ claimedBy[s] = None
          /\ segState[s] = "PREPARED" => claimedBy[s] = None
          /\ segState[s] = "PREPARED" /\ producer[s] # None
                => runState[producer[s]] = "UPLOADING"
          /\ segState[s] = "ACTIVE" /\ claimedBy[s] # None
                => runState[claimedBy[s]] \in Unfinished

\* An unfinished run still holds the two or more segments it claimed.
InputsHeld ==
    \A r \in Run : runState[r] \in Unfinished => Cardinality(Claims(r)) >= 2

\* A run that is uploading has distributed its inputs' rows over its outputs,
\* which expire no earlier.
RunsDistribute ==
    \A r \in Run : runState[r] = "UPLOADING" =>
        /\ Distributes(segRows, Outputs(r), RowsOf(Claims(r)))
        /\ \A s \in Claims(r), t \in Outputs(r) : dataExpiresAt[s] <= dataExpiresAt[t]

\* Where each row is: an unpublished row in at most one prepared ingestion
\* segment, a visible row in exactly one ACTIVE segment.
RowsAccounted ==
    /\ expired \subseteq published
    /\ RowsOf(Active) = published \ expired
    /\ \A s, t \in Active : s # t => segRows[s] \cap segRows[t] = {}
    /\ \A s \in Segment : segState[s] = "PREPARED" /\ producer[s] = None =>
          /\ segRows[s] \cap published = {}
          /\ \A t \in Segment \ {s} : segState[t] = "PREPARED" /\ producer[t] = None
                => segRows[s] \cap segRows[t] = {}
    /\ \A s \in Active : \A x \in segRows[s] : rowDeadline[x] <= dataExpiresAt[s]

\* What a snapshot may still rely on.
SnapshotsProtected ==
    \A q \in Query :
        /\ snapshotAt[q] <= now
        /\ query[q] = "idle" => snapshot[q] = {}
        /\ query[q] = "selected" => now <= snapshotAt[q] + SelectLag
        /\ query[q] = "executing" =>
              deadline[q] <= snapshotAt[q] + SelectLag + QueryTimeout
        /\ \A s \in snapshot[q] :
              /\ segState[s] \in {"ACTIVE", "SUPERSEDED", "EXPIRED", "REMOVED"}
              /\ segState[s] \in {"SUPERSEDED", "EXPIRED"} =>
                    snapshotAt[q] + ReclamationGrace <= reclaimAfter[s] + CommitLag
              /\ objState[s] # "PUBLISHED" =>
                    snapshotAt[q] + ReclamationGrace <= now + CommitLag
        /\ \A s, t \in snapshot[q] : s # t => segRows[s] \cap segRows[t] = {}

\* A dead letter with a retention deadline was published, and is scheduled for
\* deletion only once the deadline has passed.
DeadLettersDue ==
    \A d \in DeadLetter :
        /\ objState[d] \in {"NONE", "PLANNED", "UPLOADED", "REMOVED"}
              => reclaimAfter[d] = 0
        /\ objState[d] \in {"DELETE_PENDING", "DELETED"} => reclaimAfter[d] <= now

=============================================================================
