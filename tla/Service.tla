------------------------------- MODULE Service -------------------------------
(***************************************************************************)
(* One server process (elucid-service/src/runtime.rs) with what it         *)
(* supervises: startup, the readiness gate and its health checks, the      *)
(* admission of ingestion requests and of queries, the ingestion worker,   *)
(* and the drain at shutdown.                                              *)
(*                                                                         *)
(* The supervisor polls the worker, the maintenance loop and the health    *)
(* checks in one select, so they stand still once a drain has begun; the   *)
(* HTTP connections and the admitted ingestion requests are tasks of their *)
(* own.  A request is "idle" until it arrives and "done" when its handler  *)
(* and whatever the handler spawned have ended.                            *)
(*                                                                         *)
(* The maintenance loop meets the rest of its process in two events only:  *)
(* a loop that ends makes the process drain, and a process that ends drops *)
(* its loop.  So each is explored by itself: the loops of Maintenance,     *)
(* whose processes start and stop at any time, and one process, whose      *)
(* maintenance task may end at any time.                                   *)
(***************************************************************************)
EXTENDS Maintenance, FiniteSetsExt

CONSTANTS
    Appends, Queries,    \* the ingestion requests and the queries
    Workloads,           \* the sets of requests that may arrive together
    IngestionPermits, QueryPermits,
    SpoolBatches,        \* the spool's capacity, in batches of the maximum size
    ExecutionRetention   \* QUERY_EXECUTION_RETENTION

ASSUME ServiceLimits ==
    /\ {IngestionPermits, QueryPermits, SpoolBatches, ExecutionRetention} \subseteq Nat \ {0}
    /\ Appends \cap Queries = {}
    /\ Workloads \subseteq SUBSET (Appends \cup Queries)

VARIABLES
    explored,    \* which part is explored
    phase,       \* where supervise is
    stage,       \* the dependencies initialised
    signalled,   \* the cancellation token
    result,      \* what supervise returns
    maintained,  \* whether the maintenance task runs
    runtime,     \* RuntimeSnapshot
    metastore,   \* whether PostgreSQL can be reached by this process
    objects,     \* whether the object store can be reached
    probe,       \* what the health checks have sampled and not yet published
    worker,      \* the ingestion worker
    spool,       \* [used, failed]
    admission,   \* whether the boundaries are closed, and the tracker's wait has returned
    request,     \* where each request is
    connected,   \* the requests whose client is connected
    executions,  \* query_executions, in recorded order
    failures     \* outages, failed appends and ended tasks so far

requestVars == <<request, connected, executions>>
supervisorVars == <<phase, stage, signalled, result, runtime, admission>>
environmentVars == <<maintained, metastore, objects, failures>>
supervisedVars == <<environmentVars, probe, worker, spool>>
serviceVars == <<supervisorVars, supervisedVars, requestVars>>
vars == <<explored, maintenanceVars, serviceVars>>

---------------------------------------------------------------------------
(* Health.                                                                 *)

Status(isUp) == IF isUp THEN "Up" ELSE "Down"

StartingHealth ==
    [postgresql |-> "Down", store |-> "Down", spool |-> "Down", worker |-> "Down", query |-> "Degraded"]

PermitsAdmission(health) == \A component \in DOMAIN health : health[component] = "Up"

\* RuntimeSnapshot::is_ready
Ready == runtime.kind = "Operational" /\ PermitsAdmission(runtime.health)

\* The requests that hold a permit and a reservation of the maximum body.
Reserving == {a \in Appends : request[a] \in {"body", "append", "ambiguous"}}

\* IngestionBoundary::availability
IngestionAvailability ==
    IF admission.ingestionClosed \/ worker # "operational" \/ spool.failed THEN "Unavailable"
    ELSE IF spool.used + Cardinality(Reserving) < SpoolBatches THEN "Available"
    ELSE "CapacityExhausted"

IngestionHealth ==
    CASE IngestionAvailability = "Available" -> [spool |-> "Up", worker |-> "Up"]
      [] IngestionAvailability = "CapacityExhausted" -> [spool |-> "Degraded", worker |-> "Up"]
      [] OTHER -> [spool |-> "Down", worker |-> "Down"]

QueryHealth(postgresql, store) ==
    Status(postgresql = "Up" /\ store = "Up" /\ ~admission.queriesClosed)

CheckedHealth(postgresql, store) ==
    [postgresql |-> postgresql, store |-> store,
     spool |-> IngestionHealth.spool, worker |-> IngestionHealth.worker,
     query |-> QueryHealth(postgresql, store)]

\* run_health_checks samples the dependencies in one join ...
HealthProbe ==
    /\ phase = "running"
    /\ probe = None
    /\ probe' = [postgresql |-> Status(metastore), store |-> Status(objects)]
    /\ UNCHANGED <<supervisorVars, environmentVars, worker, spool, requestVars>>

\* Mutant: the check refreshes the status of the dependencies and of nothing else.
PublishedHealth_DependenciesOnly ==
    [runtime.health EXCEPT !.postgresql = probe.postgresql, !.store = probe.store]

PublishedHealth == CheckedHealth(probe.postgresql, probe.store)

\* ... and publishes them later, with what the boundaries say at that time.
HealthPublish ==
    /\ phase = "running"
    /\ probe # None
    /\ runtime' = IF runtime.kind = "Operational"
                  THEN [runtime EXCEPT !.health = PublishedHealth] ELSE runtime
    /\ probe' = None
    /\ UNCHANGED <<phase, stage, signalled, result, admission, environmentVars, worker, spool, requestVars>>

---------------------------------------------------------------------------
(* Startup.                                                                *)

Stages == <<"postgresql", "store", "spool", "query">>

\* One dependency is initialised, and update_starting reports it.
Initialize ==
    /\ phase = "initializing"
    /\ stage < Len(Stages)
    /\ Stages[stage + 1] = "postgresql" => metastore
    /\ Stages[stage + 1] = "store" => objects
    /\ stage' = stage + 1
    /\ runtime' = [runtime EXCEPT !.health[Stages[stage + 1]] =
                     IF Stages[stage + 1] = "spool" THEN IngestionHealth.spool ELSE "Up"]
    /\ UNCHANGED <<phase, signalled, result, admission, supervisedVars, requestVars>>

\* Maintenance is initialised last; become_operational takes initialized_health.
BecomeOperational ==
    /\ phase = "initializing"
    /\ stage = Len(Stages)
    /\ runtime' = [kind |-> "Operational", health |-> CheckedHealth("Up", "Up")]
    /\ phase' = "running"
    /\ UNCHANGED <<stage, signalled, result, admission, supervisedVars, requestVars>>

\* begin_draining, towards a return of the given result.
Drain(from, to, why) ==
    /\ phase = from
    /\ runtime' = [runtime EXCEPT !.kind = "Draining"]
    /\ phase' = to
    /\ result' = why
    /\ UNCHANGED <<stage, signalled, admission, supervisedVars, requestVars>>

\* A dependency fails: only the HTTP server is given the time to finish.
InitializeFails ==
    /\ \/ stage = 0 /\ ~metastore
       \/ stage = 1 /\ ~objects
       \/ stage = Len(Stages) /\ ~metastore
    /\ Drain("initializing", "finishHttp", "failed")

CancelInitialization ==
    /\ signalled
    /\ Drain("initializing", "finishHttp", "ok")

---------------------------------------------------------------------------
(* The supervised worker.                                                  *)

\* recover_outputs has resolved every record of the log.
WorkerStarts ==
    /\ phase = "running"
    /\ worker = "recovering"
    /\ metastore /\ objects
    /\ worker' = "operational"
    /\ UNCHANGED <<supervisorVars, environmentVars, probe, spool, requestVars>>

\* A batch is published and checkpointed, and its bytes are reclaimed.
WorkerCheckpoints ==
    /\ phase = "running"
    /\ worker = "operational"
    /\ metastore /\ objects
    /\ spool.used > 0
    /\ spool' = [spool EXCEPT !.used = @ - 1]
    /\ UNCHANGED <<supervisorVars, environmentVars, probe, worker, requestVars>>

\* An append that failed has failed the spool, and the worker's next use of it ends the worker.
WorkerEnds ==
    /\ phase = "running"
    /\ worker # "ended"
    /\ spool.failed
    /\ worker' = "ended"
    /\ UNCHANGED <<supervisorVars, environmentVars, probe, spool, requestVars>>

---------------------------------------------------------------------------
(* The drain.                                                              *)

EndedTask == worker = "ended" \/ ~maintained

\* Mutant: the end of a supervised task is not an end of the select.
BeginDraining_SignalOnly == signalled /\ Drain("running", "draining", "ok")

\* The select ends on the signal, or with the error of a supervised task.
BeginDraining ==
    \/ signalled /\ Drain("running", "draining", "ok")
    \/ EndedTask /\ Drain("running", "draining", "failed")

\* IngestionBoundary::begin_shutdown: the permits, the tracker and the token, in this order.
CloseIngestion ==
    /\ phase = "draining"
    /\ admission' = [admission EXCEPT !.ingestionClosed = TRUE]
    /\ phase' = "closing"
    /\ UNCHANGED <<stage, signalled, result, runtime, supervisedVars, requestVars>>

\* QueryBoundary::begin_shutdown, and the HTTP server stops accepting.
CloseQueries ==
    /\ phase = "closing"
    /\ admission' = [admission EXCEPT !.queriesClosed = TRUE]
    /\ phase' = "finishing"
    /\ UNCHANGED <<stage, signalled, result, runtime, supervisedVars, requestVars>>

\* Mutant: the token belongs to the handler, which goes with its connection.
Tracked_ByHandler == {a \in connected : request[a] \in {"token", "body", "append"}}

\* The requests with a token of the tracker.
Tracked == {a \in Appends : request[a] \in {"token", "body", "append", "ambiguous"}}

\* The handlers that a connection still waits for; an admitted append is a task of its own.
Handling ==
    {r \in Appends \cup Queries :
       \/ request[r] \in {"gated", "token"}
       \/ request[r] # "done" /\ r \in connected}

\* wait_for_admitted_requests returns.
TrackerWaited ==
    /\ phase = "finishing"
    /\ ~admission.waited
    /\ Tracked = {}
    /\ admission' = [admission EXCEPT !.waited = TRUE]
    /\ UNCHANGED <<phase, stage, signalled, result, runtime, supervisedVars, requestVars>>

\* finish_http, finish_http_and_ingestion: supervise returns its result.
Finish ==
    /\ \/ phase = "finishHttp"
       \/ phase = "finishing" /\ admission.waited
    /\ Handling = {}
    /\ phase' = "stopped"
    /\ UNCHANGED <<stage, signalled, result, runtime, admission, supervisedVars, requestVars>>

ShutdownTimedOut ==
    /\ phase \in {"finishHttp", "finishing"}
    /\ phase' = "stopped"
    /\ result' = "timedout"
    /\ UNCHANGED <<stage, signalled, runtime, admission, supervisedVars, requestVars>>

---------------------------------------------------------------------------
(* Ingestion requests.                                                     *)

\* A request moves on while its process runs.
Moves(r, from, to) ==
    /\ phase # "stopped"
    /\ request[r] = from
    /\ request' = [request EXCEPT ![r] = to]

KeepService == UNCHANGED <<supervisorVars, supervisedVars, executions>>

\* A request whose headers are in order passes the readiness gate; the others leave no trace.
Arrive(r) ==
    /\ phase \notin {"finishHttp", "finishing"}
    /\ Ready
    /\ Moves(r, "idle", "gated")
    /\ connected' = connected \cup {r}
    /\ KeepService

\* IngestionBoundary::try_admit takes the token of the tracker first ...
TakeToken(a) ==
    /\ Moves(a, "gated", "token")
    /\ UNCHANGED connected /\ KeepService

AppendAdmissible ==
    /\ ~admission.ingestionClosed
    /\ Cardinality(Reserving) < IngestionPermits
    /\ spool.used + Cardinality(Reserving) < SpoolBatches
    /\ ~spool.failed

\* ... and then the permit and the reservation; an admitted request becomes a task.
AdmitAppend(a) ==
    /\ Moves(a, "token", IF AppendAdmissible THEN "body" ELSE "done")
    /\ UNCHANGED connected /\ KeepService

\* supervise_admitted_request: the body is read, within its limits ...
BodyRead(a) ==
    /\ a \in connected
    /\ Moves(a, "body", "append")
    /\ UNCHANGED connected /\ KeepService

\* ... or it is invalid or cut off, shutdown is cancelled, or the deadline passes.
BodyEnds(a) ==
    /\ Moves(a, "body", "done")
    /\ UNCHANGED connected /\ KeepService

\* The append settles, also after its client was told that the outcome is ambiguous.
AppendSettles(a) ==
    /\ Moves(a, "append", "done") \/ Moves(a, "ambiguous", "done")
    /\ \/ spool' = [spool EXCEPT !.used = @ + 1] /\ UNCHANGED failures
       \/ /\ failures < MaxFaults /\ failures' = failures + 1
          /\ spool' = [spool EXCEPT !.failed = TRUE]
    /\ UNCHANGED <<supervisorVars, maintained, metastore, objects, probe, worker, connected, executions>>

\* The deadline passes during the append: the client has its answer, the task goes on.
AppendAmbiguous(a) ==
    /\ Moves(a, "append", "ambiguous")
    /\ connected' = connected \ {a}
    /\ KeepService

---------------------------------------------------------------------------
(* Queries.                                                                *)

Running == {q \in Queries : request[q] \in {"query", "record", "snapshot", "execute"}}

\* QueryBoundary::try_admit
AdmitQuery(q) ==
    /\ Moves(q, "gated", IF ~admission.queriesClosed /\ Cardinality(Running) < QueryPermits
                         THEN "query" ELSE "done")
    /\ UNCHANGED connected /\ KeepService

\* The body, which no deadline bounds, and the checks of the request.
QueryBody(q) ==
    /\ Moves(q, "query", "record") \/ Moves(q, "query", "done")
    /\ UNCHANGED connected /\ KeepService

\* The newest records; the others are deleted by the transaction that inserts.
Retained(log) == SubSeq(log, Max({1, Len(log) - ExecutionRetention + 1}), Len(log))

\* QueryExecutionStore::record, whose writers wait for one another; a failed insert ends the query.
RecordQuery(q) ==
    /\ \/ /\ metastore /\ Moves(q, "record", "snapshot")
          /\ executions' = Retained(Append(executions, q))
       \/ /\ ~metastore /\ Moves(q, "record", "done")
          /\ UNCHANGED executions
    /\ UNCHANGED <<supervisorVars, supervisedVars, connected>>

\* The snapshot and the execution, raced with the shutdown token, which wins; either may fail.
QueryStep(q) ==
    /\ \/ metastore /\ ~admission.queriesClosed /\ Moves(q, "snapshot", "execute")
       \/ Moves(q, "snapshot", "done")
       \/ Moves(q, "execute", "done")
    /\ UNCHANGED connected /\ KeepService

\* The client goes away: the handler of a query is dropped, an admitted append is not.
Disconnect(r) ==
    /\ r \in connected
    /\ connected' = connected \ {r}
    /\ \/ \E from \in {"body", "append"} : Moves(r, from, from)
       \/ \E from \in {"query", "record", "snapshot", "execute"} : Moves(r, from, "done")
    /\ KeepService

---------------------------------------------------------------------------
(* The specification.                                                      *)

Signal ==
    /\ ~signalled /\ phase # "stopped"
    /\ signalled' = TRUE
    /\ UNCHANGED <<phase, stage, result, runtime, admission, supervisedVars, requestVars>>

Fault ==
    /\ failures < MaxFaults /\ phase # "stopped"
    /\ failures' = failures + 1
    /\ \/ metastore' = FALSE /\ UNCHANGED <<objects, maintained>>
       \/ objects' = FALSE /\ UNCHANGED <<metastore, maintained>>
       \/ phase = "running" /\ maintained' = FALSE /\ UNCHANGED <<metastore, objects>>
    /\ UNCHANGED <<supervisorVars, probe, worker, spool, requestVars>>

OutageEnds ==
    /\ ~metastore \/ ~objects
    /\ metastore' = TRUE /\ objects' = TRUE
    /\ UNCHANGED <<supervisorVars, maintained, failures, probe, worker, spool, requestVars>>

Supervisor ==
    \/ Initialize
    \/ BecomeOperational
    \/ InitializeFails
    \/ CancelInitialization
    \/ BeginDraining
    \/ CloseIngestion
    \/ CloseQueries
    \/ TrackerWaited
    \/ Finish

Worker ==
    \/ WorkerStarts
    \/ WorkerCheckpoints
    \/ WorkerEnds

Health == HealthProbe \/ HealthPublish

AppendStep(a) ==
    \/ TakeToken(a)
    \/ AdmitAppend(a)
    \/ BodyRead(a)
    \/ BodyEnds(a)
    \/ AppendSettles(a)
    \/ AppendAmbiguous(a)

QueryAdvance(q) ==
    \/ AdmitQuery(q)
    \/ QueryBody(q)
    \/ RecordQuery(q)
    \/ QueryStep(q)

Init ==
    /\ MaintenanceInit
    /\ explored \in {"process", "loops"}
    /\ phase = "initializing"
    /\ stage = 0
    /\ signalled = FALSE
    /\ result = None
    /\ runtime = [kind |-> "Starting", health |-> StartingHealth]
    /\ admission = [ingestionClosed |-> FALSE, queriesClosed |-> FALSE, waited |-> FALSE]
    /\ maintained = TRUE
    /\ metastore = TRUE
    /\ objects = TRUE
    /\ failures = 0
    /\ probe = None
    /\ worker = "recovering"
    /\ spool = [used |-> 0, failed |-> FALSE]
    /\ \E load \in IF explored = "process" THEN Workloads ELSE {{}} :
         request = [r \in Appends \cup Queries |-> IF r \in load THEN "idle" ELSE "done"]
    /\ connected = {}
    /\ executions = <<>>

ServiceNext ==
    \/ Signal
    \/ Fault
    \/ OutageEnds
    \/ Supervisor
    \/ ShutdownTimedOut
    \/ Worker
    \/ Health
    \/ \E r \in Appends \cup Queries : Arrive(r) \/ Disconnect(r)
    \/ \E a \in Appends : AppendStep(a)
    \/ \E q \in Queries : QueryAdvance(q)

ServiceStep == explored = "process" /\ ServiceNext /\ UNCHANGED <<explored, maintenanceVars>>

MaintenanceStep == explored = "loops" /\ MaintenanceNext /\ UNCHANGED <<explored, serviceVars>>

Next == ServiceStep \/ MaintenanceStep

Spec == Init /\ [][Next]_vars

\* The tasks are scheduled, outages end, and the body of a query ends, if only because its client
\* goes away.  Nothing obliges the shutdown deadline to pass.
ServiceFairness ==
    /\ WF_serviceVars(Supervisor)
    /\ WF_serviceVars(Worker)
    /\ WF_serviceVars(Health)
    /\ WF_serviceVars(OutageEnds)
    /\ \A a \in Appends : WF_serviceVars(AppendStep(a))
    /\ \A q \in Queries : WF_serviceVars(QueryAdvance(q))

LiveSpec ==
    /\ Spec
    /\ explored = "process" => ServiceFairness
    /\ explored = "loops" => MaintenanceFairness

---------------------------------------------------------------------------
(* Properties.                                                             *)

\* When supervise returns without its timeout having passed, no admitted append is unsettled and no
\* query runs: an append whose client has gone or was told that the outcome is ambiguous is still
\* waited for, and a request that lost the race with the closing boundary never starts.
SettledOnExit ==
    phase = "stopped" /\ result \in {"ok", "failed"} =>
      /\ Reserving = {}
      /\ Running \cap connected = {}

\* A shutdown signal, and a supervised task that has ended, stop the server: the drain ends by
\* itself, for neither an append in progress nor a running query holds it up for good.
ShutdownCompletes ==
    (signalled \/ EndedTask) ~> phase = "stopped"

\* The gate follows the dependencies: it does not stay open while the database or the store is
\* down, nor closed while everything is up and a batch of the maximum size fits the spool.
ReadinessTracks ==
    []<>~( /\ phase = "running"
           /\ \/ Ready /\ (~metastore \/ ~objects \/ IngestionAvailability = "Unavailable")
              \/ ~Ready /\ metastore /\ objects /\ IngestionAvailability = "Available")
=============================================================================
