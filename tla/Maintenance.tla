----------------------------- MODULE Maintenance -----------------------------
(***************************************************************************)
(* The maintenance loops of the server processes that share one database   *)
(* (elucid-service/src/maintenance.rs): who owns the advisory lock, what   *)
(* an owner does with a compaction run, and what it leaves behind when its *)
(* session, its cycle or its process ends in between.  What the            *)
(* transactions do to segments and objects is the subject of ControlPlane; *)
(* here a run is its durable state.                                        *)
(*                                                                         *)
(* The owner's transactions (claim, publish, fail, recover) run on the     *)
(* session that holds the lock; registration and the sweep (expiration,    *)
(* reclamation, metadata cleanup) run on the pool.                         *)
(***************************************************************************)
EXTENDS Integers, Sequences, FiniteSets

CONSTANTS
    None,
    Processes,        \* the server processes with maintenance mode AUTOMATIC
    RecoveryRuns,     \* COMPACTION_RECOVERY_RUNS
    RecoveryBatches,  \* COMPACTION_RECOVERY_BATCHES
    MaxRuns,          \* bound: runs ever claimed
    MaxFaults         \* bound: lost sessions, timed-out cycles and outages

ASSUME MaintenanceBounds ==
    /\ {RecoveryRuns, RecoveryBatches} \subseteq Nat \ {0}
    /\ {MaxRuns, MaxFaults} \subseteq Nat

VARIABLES
    database,    \* whether PostgreSQL can be reached
    session,     \* the session behind each process's advisory lock guard
    runs,        \* compaction_runs: their states, in creation order
    loop,        \* where each loop is
    starting,    \* whether it is still inside initialize
    boundary,    \* MaintenanceState
    scheduling,  \* CompactionScheduling
    current,     \* the run the cycle works on
    recovered,   \* the recovery batches done since the lock was acquired
    faults

loopVars == <<loop, starting, boundary, scheduling, current, recovered>>
maintenanceVars == <<database, session, runs, faults, loopVars>>

---------------------------------------------------------------------------
(* Sessions and transactions.                                              *)

\* A session holds the lock until the server has ended it: also while it closes.
LockFree == \A p \in Processes : session[p] \notin {"live", "closing"}

Usable(p) == database /\ session[p] = "live"

\* Mutant: the connection goes back to the pool with the lock.
DropOwner_Pooled(p) == session' = session

\* The guard is dropped: the unlock is queued on its connection.
DropOwner(p) == session' = [session EXCEPT ![p] = IF @ = "live" THEN "closing" ELSE "none"]

\* What may come of a transaction on the owner's session.  A commit whose answer is lost may have
\* been applied, and the session is gone.
Commits(p) ==
    IF ~Usable(p) THEN {[applied |-> FALSE, answered |-> FALSE, inspected |-> FALSE]}
    ELSE {[applied |-> TRUE, answered |-> TRUE, inspected |-> FALSE]}
         \cup (IF faults < MaxFaults
               THEN [applied : BOOLEAN, answered : {FALSE}, inspected : BOOLEAN] ELSE {})

\* A lost answer is one more fault, and ends the session; one that no transaction preceded is not.
AfterCommit(p, commit) ==
    IF commit.answered \/ ~Usable(p) THEN UNCHANGED <<session, faults>>
    ELSE /\ session' = [session EXCEPT ![p] = "dead"]
         /\ faults' = faults + 1

\* inspect_run and inspect_recovery resolve a lost answer from the pool, if that can be reached.
Resolved(commit) == commit.answered \/ (commit.applied /\ commit.inspected)

Unfinished == {r \in DOMAIN runs : runs[r] \in {"BUILDING", "UPLOADING"}}

---------------------------------------------------------------------------
(* The loop.                                                               *)

\* is_retryable: an error of the kind Unavailable, or the cycle's timeout.  An error that initialize
\* meets is returned to the service whatever its kind.
Retry(p) ==
    /\ boundary' = [boundary EXCEPT ![p] = "Standby"]
    /\ loop' = [loop EXCEPT ![p] = IF starting[p] THEN "ended" ELSE "acquire"]
    /\ current' = [current EXCEPT ![p] = None]
    /\ UNCHANGED <<starting, scheduling, recovered>>

TryAcquire(p) ==
    /\ loop[p] = "acquire"
    /\ database /\ LockFree
    /\ session' = [session EXCEPT ![p] = "live"]
    /\ boundary' = [boundary EXCEPT ![p] = "Recovering"]
    /\ loop' = [loop EXCEPT ![p] = "recover"]
    /\ recovered' = [recovered EXCEPT ![p] = 0]
    /\ UNCHANGED <<database, runs, starting, scheduling, current, faults>>

HeldElsewhere(p) ==
    /\ loop[p] = "acquire"
    /\ database /\ ~LockFree
    /\ boundary' = [boundary EXCEPT ![p] = "Standby"]
    /\ starting' = [starting EXCEPT ![p] = FALSE]
    /\ UNCHANGED <<database, session, runs, loop, scheduling, current, recovered, faults>>

AcquireUnavailable(p) ==
    /\ loop[p] = "acquire"
    /\ ~database
    /\ Retry(p)
    /\ UNCHANGED <<database, session, runs, faults>>

\* Mutant: the owner starts its cycles with what the former owner left.
RecoveryCandidates_None == {}

\* The oldest unfinished runs, as many as one transaction takes.
RecoveryCandidates ==
    {r \in Unfinished : Cardinality({s \in Unfinished : s < r}) < RecoveryRuns}

Owned(p) ==
    /\ loop' = [loop EXCEPT ![p] = "cycle"]
    /\ starting' = [starting EXCEPT ![p] = FALSE]
    /\ scheduling' = [scheduling EXCEPT ![p] = "Enabled"]
    /\ boundary' = [boundary EXCEPT ![p] = "OwnedHealthy"]
    /\ UNCHANGED <<current, recovered>>

NextRecovery(p) ==
    /\ recovered' = [recovered EXCEPT ![p] = @ + 1]
    /\ loop' = [loop EXCEPT ![p] = IF recovered[p] + 1 = RecoveryBatches THEN "ended" ELSE @]
    /\ UNCHANGED <<starting, boundary, scheduling, current>>

\* recover_unfinished, one batch: the owner is kept only once a batch was not full.
Recover(p) ==
    /\ loop[p] = "recover"
    /\ \E commit \in Commits(p) :
         /\ runs' = IF commit.applied
                    THEN [r \in DOMAIN runs |-> IF r \in RecoveryCandidates THEN "FAILED" ELSE runs[r]]
                    ELSE runs
         /\ IF Resolved(commit) \/ (commit.inspected /\ RecoveryCandidates = {})
            THEN /\ AfterCommit(p, commit)
                 /\ IF Cardinality(RecoveryCandidates) < RecoveryRuns THEN Owned(p) ELSE NextRecovery(p)
            ELSE /\ DropOwner(p)
                 /\ faults' = faults + (IF Usable(p) THEN 1 ELSE 0)
                 /\ Retry(p)
    /\ UNCHANGED database

\* The errors for which the owner is given up: the timeout, and an unavailable compaction store.
LoseOwner(p) ==
    /\ DropOwner(p)
    /\ Retry(p)

\* claim_compaction: no lost answer is resolved, so an applied claim may stay behind.
Claim(p) ==
    /\ loop[p] = "cycle"
    /\ scheduling[p] = "Enabled"
    /\ Len(runs) < MaxRuns
    /\ \E commit \in Commits(p) :
         /\ runs' = IF commit.applied THEN Append(runs, "BUILDING") ELSE runs
         /\ IF commit.answered
            THEN /\ loop' = [loop EXCEPT ![p] = "build"]
                 /\ current' = [current EXCEPT ![p] = Len(runs) + 1]
                 /\ UNCHANGED <<session, starting, boundary, scheduling, recovered, faults>>
            ELSE /\ LoseOwner(p)
                 /\ faults' = faults + (IF Usable(p) THEN 1 ELSE 0)
    /\ UNCHANGED database

\* No group is beneficial, or compaction is suspended: the cycle goes on with the sweep.
NoClaim(p) ==
    /\ loop[p] = "cycle"
    /\ scheduling[p] = "Suspended" \/ Usable(p)
    /\ loop' = [loop EXCEPT ![p] = "sweep"]
    /\ UNCHANGED <<database, session, runs, starting, boundary, scheduling, current, recovered, faults>>

\* claim_compaction on a session that cannot be used, when no run would be claimed.
ClaimUnavailable(p) ==
    /\ loop[p] = "cycle"
    /\ scheduling[p] = "Enabled" /\ ~Usable(p)
    /\ LoseOwner(p)
    /\ UNCHANGED <<database, runs, faults>>

\* locked # selected: a former owner's sweep expired a candidate.  The error ends the loop.
ClaimConflict(p) ==
    /\ loop[p] = "cycle"
    /\ scheduling[p] = "Enabled" /\ Usable(p)
    /\ \E q \in Processes \ {p} : loop[q] = "sweep"
    /\ loop' = [loop EXCEPT ![p] = "ended"]
    /\ UNCHANGED <<database, session, runs, starting, boundary, scheduling, current, recovered, faults>>

\* The worker builds the outputs and registers them: a pool transaction that needs a BUILDING run.
Register(p) ==
    /\ loop[p] = "build"
    /\ \/ /\ database /\ runs[current[p]] = "BUILDING"
          /\ runs' = [runs EXCEPT ![current[p]] = "UPLOADING"]
          /\ loop' = [loop EXCEPT ![p] = "upload"]
       \/ /\ loop' = [loop EXCEPT ![p] = "fail"]
          /\ UNCHANGED runs
    /\ UNCHANGED <<database, session, starting, boundary, scheduling, current, recovered, faults>>

\* The uploads, each recorded on the pool.
Upload(p) ==
    /\ loop[p] = "upload"
    /\ loop' = [loop EXCEPT ![p] = IF database THEN "publish" ELSE "fail"]
    /\ UNCHANGED <<database, session, runs, starting, boundary, scheduling, current, recovered, faults>>

UploadFails(p) ==
    /\ loop[p] = "upload"
    /\ loop' = [loop EXCEPT ![p] = "fail"]
    /\ UNCHANGED <<database, session, runs, starting, boundary, scheduling, current, recovered, faults>>

\* publish_replacement; any error sends the run to fail_run.
Publish(p) ==
    /\ loop[p] = "publish"
    /\ \E commit \in Commits(p) :
         /\ runs' = IF commit.applied /\ runs[current[p]] = "UPLOADING"
                    THEN [runs EXCEPT ![current[p]] = "COMMITTED"] ELSE runs
         /\ AfterCommit(p, commit)
         /\ IF Resolved(commit) /\ runs'[current[p]] = "COMMITTED"
            THEN /\ loop' = [loop EXCEPT ![p] = "sweep"]
                 /\ current' = [current EXCEPT ![p] = None]
            ELSE /\ loop' = [loop EXCEPT ![p] = "fail"]
                 /\ UNCHANGED current
    /\ UNCHANGED <<database, starting, boundary, scheduling, recovered>>

\* The replacement or its inputs do not pass the checks of the transaction.
PublishRejected(p) ==
    /\ loop[p] = "publish"
    /\ Usable(p)
    /\ loop' = [loop EXCEPT ![p] = "fail"]
    /\ UNCHANGED <<database, session, runs, starting, boundary, scheduling, current, recovered, faults>>

\* fail_run: a terminal run is reported and not changed, and either way compaction is suspended.
FailRun(p) ==
    /\ loop[p] = "fail"
    /\ \E commit \in Commits(p) :
         /\ runs' = IF commit.applied /\ current[p] \in Unfinished
                    THEN [runs EXCEPT ![current[p]] = "FAILED"] ELSE runs
         /\ IF commit.answered \/ (commit.inspected /\ runs'[current[p]] \in {"COMMITTED", "FAILED"})
            THEN /\ AfterCommit(p, commit)
                 /\ scheduling' = [scheduling EXCEPT ![p] = "Suspended"]
                 /\ loop' = [loop EXCEPT ![p] = "sweep"]
                 /\ current' = [current EXCEPT ![p] = None]
                 /\ UNCHANGED <<starting, boundary, recovered>>
            ELSE /\ LoseOwner(p)
                 /\ faults' = faults + (IF Usable(p) THEN 1 ELSE 0)
    /\ UNCHANGED database

\* IterationHealth::combine
CycleHealth(p, deletions) ==
    IF scheduling[p] = "Suspended" THEN "OwnedDegraded" ELSE deletions

\* expire_segments, reclaim_objects and clean_terminal_metadata, on the pool.  An unavailable
\* database ends the cycle and keeps the owner.
Sweep(p) ==
    /\ loop[p] = "sweep"
    /\ \E deletions \in {"OwnedHealthy", "OwnedDegraded"} :
         boundary' = [boundary EXCEPT ![p] = IF database THEN CycleHealth(p, deletions) ELSE "OwnedDegraded"]
    /\ loop' = [loop EXCEPT ![p] = "cycle"]
    /\ UNCHANGED <<database, session, runs, starting, scheduling, current, recovered, faults>>

\* MAINTENANCE_CYCLE_TIMEOUT drops the cycle wherever it is, and the owner with it.
CycleTimedOut(p) ==
    /\ loop[p] \in {"build", "upload", "publish", "fail", "sweep"}
    /\ faults < MaxFaults
    /\ faults' = faults + 1
    /\ LoseOwner(p)
    /\ UNCHANGED <<database, runs>>

---------------------------------------------------------------------------
(* The processes and their environment.                                    *)

StartLoop(p) ==
    /\ loop[p] = "stopped"
    /\ loop' = [loop EXCEPT ![p] = "acquire"]
    /\ starting' = [starting EXCEPT ![p] = TRUE]
    /\ scheduling' = [scheduling EXCEPT ![p] = "Enabled"]
    /\ boundary' = [boundary EXCEPT ![p] = "Standby"]
    /\ UNCHANGED <<database, session, runs, current, recovered, faults>>

\* The process ends, or its loop is dropped.
StopLoop(p) ==
    /\ loop[p] # "stopped"
    /\ loop' = [loop EXCEPT ![p] = "stopped"]
    /\ current' = [current EXCEPT ![p] = None]
    /\ DropOwner(p)
    /\ UNCHANGED <<database, runs, starting, boundary, scheduling, recovered, faults>>

\* The server ends the session of a dropped guard; a loop that has ended has dropped its own.
ReleaseLock(p) ==
    /\ session[p] = "closing" \/ (loop[p] = "ended" /\ session[p] # "none")
    /\ session' = [session EXCEPT ![p] = "none"]
    /\ UNCHANGED <<database, runs, loopVars, faults>>

SessionLost(p) ==
    /\ session[p] = "live"
    /\ faults < MaxFaults
    /\ faults' = faults + 1
    /\ session' = [session EXCEPT ![p] = "dead"]
    /\ UNCHANGED <<database, runs, loopVars>>

Outage ==
    /\ database
    /\ faults < MaxFaults
    /\ faults' = faults + 1
    /\ database' = FALSE
    /\ UNCHANGED <<session, runs, loopVars>>

Restored ==
    /\ ~database
    /\ database' = TRUE
    /\ UNCHANGED <<session, runs, loopVars, faults>>

LoopStep(p) ==
    \/ TryAcquire(p)
    \/ HeldElsewhere(p)
    \/ AcquireUnavailable(p)
    \/ Recover(p)
    \/ Claim(p)
    \/ NoClaim(p)
    \/ ClaimUnavailable(p)
    \/ ClaimConflict(p)
    \/ Register(p)
    \/ Upload(p)
    \/ UploadFails(p)
    \/ Publish(p)
    \/ PublishRejected(p)
    \/ FailRun(p)
    \/ Sweep(p)
    \/ CycleTimedOut(p)

MaintenanceEnvironment ==
    \/ \E p \in Processes : ReleaseLock(p) \/ SessionLost(p)
    \/ Outage
    \/ Restored

MaintenanceInit ==
    /\ database = TRUE
    /\ session = [p \in Processes |-> "none"]
    /\ runs = <<>>
    /\ loop = [p \in Processes |-> "stopped"]
    /\ starting = [p \in Processes |-> FALSE]
    /\ boundary = [p \in Processes |-> "Standby"]
    /\ scheduling = [p \in Processes |-> "Enabled"]
    /\ current = [p \in Processes |-> None]
    /\ recovered = [p \in Processes |-> 0]
    /\ faults = 0

MaintenanceNext ==
    \/ \E p \in Processes : StartLoop(p) \/ StopLoop(p) \/ LoopStep(p)
    \/ MaintenanceEnvironment

MaintenanceSpec == MaintenanceInit /\ [][MaintenanceNext]_maintenanceVars

\* A running loop is scheduled, the server ends the sessions of dropped guards, and outages end.
MaintenanceFairness ==
    /\ \A p \in Processes : WF_maintenanceVars(LoopStep(p)) /\ WF_maintenanceVars(ReleaseLock(p))
    /\ WF_maintenanceVars(Restored)

---------------------------------------------------------------------------
(* Properties.                                                             *)

\* There is never a second unfinished run, and none at all behind a live owner that is between two
\* cycles: the next claim comes only after the owner has finished its own run, or after the next owner
\* has failed what the former one left (lost answers, lost sessions, timed-out cycles and ended
\* processes included).
SingleUnfinishedRun ==
    /\ Cardinality(Unfinished) <= 1
    /\ \A p \in Processes : loop[p] = "cycle" /\ session[p] = "live" => Unfinished = {}

\* A process whose loop may still take the lock.  An owner with compaction suspended does not use its
\* session, so it never learns that the session, and the lock with it, is gone.
Eligible(p) == loop[p] \notin {"stopped", "ended"} /\ scheduling[p] = "Enabled"

\* Once no process stops its loop any more, an unfinished run becomes terminal as long as a process
\* is eligible: the owner that cannot finish the run is given up, and the next one recovers it.
UnfinishedResolved ==
    <>[][\A p \in Processes : loop'[p] = "stopped" => loop[p] = "stopped"]_loop =>
      []<>(Unfinished = {} \/ \A p \in Processes : ~Eligible(p))
=============================================================================
