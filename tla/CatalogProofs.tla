---------------------------- MODULE CatalogProofs ----------------------------
(***************************************************************************)
(* That an answered application stays visible, for any processes, requests *)
(* and documents.  A snapshot is compared with the database by the commit  *)
(* number of each name: the gate keeps a process's snapshot behind the     *)
(* commit it has still to merge, and a restart finds the row of every name *)
(* that has had a commit.                                                  *)
(***************************************************************************)
EXTENDS Catalog, TLAPS

\* Most leaves are first-order and set reasoning, which Zenon does at once; SMT
\* does the arithmetic.
USE ZenonT(3), SMTT(20)

-----------------------------------------------------------------------------
(* What planning and persisting return.                                    *)

\* A source that is assembled from rows has the identity and the name of its row
\* (AssembleSource, Source::new).
LEMMA AssembledIdentity ==
    ASSUME NEW row, NEW stored, AssembleSource(row, stored) # None
    PROVE  /\ AssembleSource(row, stored).id = row.id
           /\ AssembleSource(row, stored).name = row.name
<1> DEFINE schemas == DecodeSchemas(Ordered({schema \in stored.schemas : schema.source = row.id},
                                            LAMBDA left, right : left.version < right.version))
           inputs  == DecodeInputs(SortByName({input \in stored.inputs : input.source = row.id}),
                                   stored, schemas)
           source  == [id |-> row.id, name |-> row.name, display |-> row.display, active |-> row.active,
                       schemas |-> schemas, inputs |-> inputs]
<1>1. AssembleSource(row, stored) = IF None \in Range(schemas) THEN None ELSE ValidSource(source)
  BY DEF AssembleSource, AssembleInputs
<1>2. source.id = row.id /\ source.name = row.name
  OBVIOUS
<1> HIDE DEF source, schemas, inputs
<1>3. ValidSource(source) # None => ValidSource(source) = source
  BY DEF ValidSource
<1>4. QED
  BY <1>1, <1>2, <1>3

\* A plan without an error is for the manifest's name, under the current source's
\* identity or a new one, and only a current source can be unchanged
\* (plan_catalog_application, classify_application_outcome).
LEMMA PlannedIdentity ==
    ASSUME NEW manifest, NEW current, NEW nonce,
           PlanCatalogApplication(manifest, current, nonce).error = None
    PROVE  LET plan == PlanCatalogApplication(manifest, current, nonce) IN
           /\ plan.source.name = manifest.name
           /\ plan.source.id = IF current = None THEN <<nonce, "source">> ELSE current.id
           /\ plan.outcome = "Unchanged" => current # None
<1> DEFINE id     == IF current = None THEN <<nonce, "source">> ELSE current.id
           schemas == PlanSchemas(manifest, IF current = None THEN <<>> ELSE current.schemas, id, nonce)
           active == Find(schemas.schemas, LAMBDA schema : schema.version = manifest.active)
           inputs == PlanInputs(manifest, IF current = None THEN <<>> ELSE current.inputs,
                                id, schemas.schemas, nonce)
           source == [id |-> id, name |-> manifest.name, display |-> manifest.display,
                      active |-> active.id, schemas |-> schemas.schemas, inputs |-> inputs.inputs]
           plan   == PlanCatalogApplication(manifest, current, nonce)
<1>1. plan = IF current # None /\ current.name # manifest.name THEN [error |-> "Corrupt"]
             ELSE IF schemas.error # None THEN [error |-> schemas.error]
             ELSE PlanSource(manifest, current, id, schemas.schemas, active, inputs)
  BY DEF PlanCatalogApplication
<1>2. PlanSource(manifest, current, id, schemas.schemas, active, inputs) =
        IF active = None THEN [error |-> "Corrupt"]
        ELSE IF inputs.error # None THEN [error |-> inputs.error]
        ELSE PlannedSource(current, source)
  BY DEF PlanSource
<1>3. source.id = id /\ source.name = manifest.name
  OBVIOUS
<1> HIDE DEF id, schemas, active, inputs, source, plan
<1>4. PlannedSource(current, source) =
        [error |-> SourceError(source), source |-> source, outcome |-> Outcome(current, source)]
  BY DEF PlannedSource
<1>5. Outcome(current, source) = "Unchanged" => current # None
  BY DEF Outcome
<1>6. \A error : error # None => [error |-> error].error # None
  OBVIOUS
<1>7. "Corrupt" # None
  BY CatalogAssumption
<1>8. plan = PlannedSource(current, source)
  <2>1. plan.error = None
    BY DEF plan
  <2>2. QED
    BY <1>1, <1>2, <1>6, <1>7, <2>1
<1>9. plan.source = source /\ plan.outcome = Outcome(current, source)
  BY <1>4, <1>8
<1>10. QED
  BY <1>3, <1>5, <1>9 DEF plan, id

\* The row of a planned source.
PlannedRow(plan) ==
    [id |-> plan.source.id, name |-> plan.source.name, display |-> plan.source.display,
     active |-> plan.source.active]

\* persist_plan leaves the source rows of other identities alone and replaces the
\* row of its own, unless nothing is to be changed.
LEMMA PersistedSources ==
    ASSUME NEW stored, NEW plan
    PROVE  /\ PlannedRow(plan).id = plan.source.id /\ PlannedRow(plan).name = plan.source.name
           /\ PersistPlan(stored, plan).sources =
                IF plan.outcome = "Unchanged" THEN stored.sources
                ELSE {row \in stored.sources : row.id # plan.source.id} \cup {PlannedRow(plan)}
<1>1. PlannedRow(plan).id = plan.source.id /\ PlannedRow(plan).name = plan.source.name
  BY DEF PlannedRow
<1>2. Missing(stored.sources, {PlannedRow(plan)}) = {row \in stored.sources : row.id # plan.source.id}
  BY <1>1 DEF Missing
<1>3. PersistPlan(stored, plan).sources =
        IF plan.outcome = "Unchanged" THEN stored.sources
        ELSE Missing(stored.sources, {PlannedRow(plan)}) \cup {PlannedRow(plan)}
  BY DEF PersistPlan, PlannedRow
<1>4. QED
  BY <1>1, <1>2, <1>3

\* A function with one value replaced.
LEMMA Replaced ==
    ASSUME NEW S, NEW f, f = [x \in S |-> f[x]], NEW a \in S, NEW e
    PROVE  /\ [f EXCEPT ![a] = e] = [x \in S |-> [f EXCEPT ![a] = e][x]]
           /\ [f EXCEPT ![a] = e][a] = e
           /\ \A x \in S : x # a => [f EXCEPT ![a] = e][x] = f[x]
OBVIOUS

-----------------------------------------------------------------------------
(* Steps that neither commit nor merge.                                    *)

\* A step that takes applications back, starts one, or takes a snapshot down keeps
\* the invariant.
LEMMA QuietStep ==
    ASSUME VisibilityInvariant, UNCHANGED <<offered, rows, commits>>,
           plans' \in Nat, plans <= plans',
           gate' \in [Processes -> Requests \cup {None}],
           snapshot' = [p \in Processes |-> snapshot'[p]],
           request' = [r \in Requests |-> request'[r]],
           \A p \in Processes : snapshot'[p] = None \/ snapshot'[p] = snapshot[p],
           \A r \in Requests :
              \/ request'[r] = request[r]
              \/ request'[r].state \in {"idle", "refused"}
              \/ /\ request'[r].state = "gated"
                 /\ request'[r].process \in Processes
                 /\ request'[r].manifest.name \in ValidNames
                 /\ gate'[request'[r].process] = r
                 /\ snapshot'[request'[r].process] # None,
           \A r \in Requests : Working(r) /\ request'[r] = request[r] =>
              /\ gate'[request[r].process] = gate[request[r].process]
              /\ snapshot'[request[r].process] = snapshot[request[r].process]
    PROVE  VisibilityInvariant'
<1>1. /\ CatalogTypeOK /\ RowsNamed /\ PlansNamed /\ GatesHeld
      /\ SnapshotsBehind /\ CommitsCounted /\ AnsweredVisible
  BY DEF VisibilityInvariant
<1>2. GeneratedSources \subseteq GeneratedSources'
  BY <1>1 DEF GeneratedSources, CatalogTypeOK
<1>3. ASSUME NEW r \in Requests, request'[r].state \in {"planned", "committed", "applied"}
      PROVE  request'[r] = request[r]
  BY <1>3
<1>4. CatalogTypeOK'
  <2>1. ASSUME NEW r \in Requests, request'[r] = request[r]
        PROVE  /\ Working(r)' \/ Settled(r)'
               /\ Working(r)' \/ request'[r].state = "applied" =>
                    request'[r].process \in Processes /\ request'[r].manifest.name \in ValidNames
    BY <1>1, <2>1 DEF CatalogTypeOK, Working, Settled
  <2>2. ASSUME NEW r \in Requests, request'[r].state \in {"idle", "refused", "gated"}
        PROVE  /\ Working(r)' \/ Settled(r)'
               /\ request'[r].state # "gated" => ~ (Working(r)' \/ request'[r].state = "applied")
    BY <2>2 DEF Working, Settled
  <2>3. ASSUME NEW r \in Requests
        PROVE  /\ Working(r)' \/ Settled(r)'
               /\ Working(r)' \/ request'[r].state = "applied" =>
                    request'[r].process \in Processes /\ request'[r].manifest.name \in ValidNames
    BY <2>1, <2>2
  <2>4. ASSUME NEW r \in Requests, request'[r].state \in {"planned", "committed"}
        PROVE  request'[r] = [state |-> request'[r].state, process |-> request'[r].process,
                              manifest |-> request'[r].manifest, plan |-> request'[r].plan,
                              commit |-> request'[r].commit]
    BY <1>1, <1>3, <2>4 DEF CatalogTypeOK
  <2>5. offered' \in Workloads /\ commits' \in [ValidNames -> Nat]
    BY <1>1 DEF CatalogTypeOK
  <2>6. QED
    BY <2>3, <2>4, <2>5 DEF CatalogTypeOK
<1>5. RowsNamed'
  BY <1>1, <1>2 DEF RowsNamed
<1>6. PlansNamed'
  BY <1>1, <1>2, <1>3 DEF PlansNamed
<1>7. GatesHeld'
  <2>1. SUFFICES ASSUME NEW r \in Requests, Working(r)'
                 PROVE  /\ gate'[request'[r].process] = r
                        /\ snapshot'[request'[r].process] # None
    BY DEF GatesHeld
  <2>2. CASE request'[r] = request[r]
    <3>1. Working(r)
      BY <2>1, <2>2 DEF Working
    <3>2. QED
      BY <1>1, <2>2, <3>1 DEF GatesHeld
  <2>3. CASE request'[r].state \in {"idle", "refused"}
    BY <2>1, <2>3 DEF Working
  <2>4. QED
    BY <2>2, <2>3
<1>8. SnapshotsBehind'
  BY <1>1 DEF SnapshotsBehind
<1>9. CommitsCounted'
  <2>1. SUFFICES ASSUME NEW r \in Requests, request'[r].state \in {"committed", "applied"}
                 PROVE  /\ request'[r].commit \in 1 .. commits'[request'[r].manifest.name]
                        /\ request'[r].state = "committed"
                             /\ request'[r].manifest.name \in DOMAIN snapshot'[request'[r].process] =>
                             snapshot'[request'[r].process][request'[r].manifest.name].commit
                               < request'[r].commit
    BY DEF CommitsCounted
  <2>2. request'[r] = request[r]
    BY <1>3, <2>1
  <2>3. request[r].state = "committed" => snapshot'[request[r].process] = snapshot[request[r].process]
    BY <2>2 DEF Working
  <2>4. QED
    BY <1>1, <2>1, <2>2, <2>3 DEF CommitsCounted
<1>10. AnsweredVisible'
  <2>1. SUFFICES ASSUME NEW r \in Requests, request'[r].state = "applied",
                        snapshot'[request'[r].process] # None
                 PROVE  /\ request'[r].manifest.name \in DOMAIN snapshot'[request'[r].process]
                        /\ snapshot'[request'[r].process][request'[r].manifest.name].commit
                             >= request'[r].commit
    BY DEF AnsweredVisible
  <2>2. request'[r] = request[r] /\ request[r].process \in Processes
    BY <1>1, <1>3, <2>1 DEF CatalogTypeOK
  <2>3. snapshot'[request[r].process] = snapshot[request[r].process]
    BY <2>1, <2>2
  <2>4. QED
    BY <1>1, <2>1, <2>2, <2>3 DEF AnsweredVisible
<1>11. QED
  BY <1>4, <1>5, <1>6, <1>7, <1>8, <1>9, <1>10 DEF VisibilityInvariant

\* An application under way is the only one at its process: the mutation gate.
LEMMA GateExclusive ==
    ASSUME VisibilityInvariant, NEW r \in Requests, Working(r),
           NEW q \in Requests, Working(q), request[q].process = request[r].process
    PROVE  q = r
BY DEF VisibilityInvariant, GatesHeld

\* The facts about functions and types that the actions need.
LEMMA StateTypes ==
    ASSUME VisibilityInvariant
    PROVE  /\ plans \in Nat /\ offered.processes \subseteq Processes
           /\ gate \in [Processes -> Requests \cup {None}]
           /\ snapshot = [p \in Processes |-> snapshot[p]]
           /\ request = [r \in Requests |-> request[r]]
           /\ \A r \in Requests : Working(r) =>
                request[r].process \in Processes /\ request[r].manifest.name \in ValidNames
           /\ \A r \in Requests : Working(r) <=> ~Settled(r)
<1>1. CatalogTypeOK
  BY DEF VisibilityInvariant
<1>2. \A r \in Requests : ~ (Working(r) /\ Settled(r))
  BY DEF Working, Settled
<1>3. QED
  BY <1>1, <1>2, CatalogAssumption DEF CatalogTypeOK

\* The endpoint starts an application at a process whose gate is free.
LEMMA SubmitStep ==
    ASSUME VisibilityInvariant, NEW r \in Requests, NEW p \in Processes, NEW manifest,
           Submit(r, p, manifest)
    PROVE  VisibilityInvariant'
<1> DEFINE gated == [state |-> "gated", process |-> p, manifest |-> manifest]
<1>1. /\ Settled(r) /\ snapshot[p] # None /\ gate[p] = None /\ manifest.name \in ValidNames
      /\ gate' = [gate EXCEPT ![p] = r] /\ request' = [request EXCEPT ![r] = gated]
      /\ UNCHANGED <<offered, rows, commits, snapshot, plans>>
  BY DEF Submit, GateFree, ManifestValid
<1>2. gated.state = "gated" /\ gated.process = p /\ gated.manifest = manifest
  OBVIOUS
<1> HIDE DEF gated
<1>3. /\ request' = [q \in Requests |-> request'[q]] /\ request'[r] = gated
      /\ \A q \in Requests : q # r => request'[q] = request[q]
  BY <1>1, StateTypes, Replaced
<1>4. /\ gate' \in [Processes -> Requests \cup {None}] /\ gate'[p] = r
      /\ \A o \in Processes : o # p => gate'[o] = gate[o]
  BY <1>1, StateTypes
<1>5. ASSUME NEW q \in Requests, Working(q), request'[q] = request[q]
      PROVE  gate'[request[q].process] = gate[request[q].process]
  <2>1. gate[request[q].process] = q
    BY <1>5 DEF VisibilityInvariant, GatesHeld
  <2>2. request[q].process # p
    BY <1>1, <2>1, CatalogAssumption
  <2>3. QED
    BY <1>4, <1>5, <2>2, StateTypes
<1>6. plans <= plans' /\ plans' \in Nat
  BY <1>1, StateTypes
<1>7. QED
  BY <1>1, <1>2, <1>3, <1>4, <1>5, <1>6, QuietStep, StateTypes

\* An application that ends without an answer from the database, by an error or by a
\* disconnect, releases its process's gate and leaves everything else.
LEMMA ReleaseStep ==
    ASSUME VisibilityInvariant, NEW r \in Requests, Working(r), Release(r),
           request' = [q \in Requests |-> request'[q]],
           request'[r].state \in {"idle", "refused"},
           \A q \in Requests : q # r => request'[q] = request[q],
           UNCHANGED <<offered, rows, commits, snapshot>>, plans' \in Nat, plans <= plans'
    PROVE  VisibilityInvariant'
<1>1. request[r].process \in Processes
  BY StateTypes
<1>2. /\ gate' \in [Processes -> Requests \cup {None}]
      /\ \A o \in Processes : o # request[r].process => gate'[o] = gate[o]
  BY <1>1, StateTypes DEF Release
<1>3. ASSUME NEW q \in Requests, Working(q), request'[q] = request[q]
      PROVE  gate'[request[q].process] = gate[request[q].process]
  <2>1. CASE q = r
    BY <1>3, <2>1 DEF Working
  <2>2. CASE q # r
    <3>1. request[q].process # request[r].process
      BY <1>3, <2>2, GateExclusive
    <3>2. QED
      BY <1>2, <1>3, <3>1, StateTypes
  <2>3. QED
    BY <2>1, <2>2
<1>4. \A q \in Requests : request'[q] = request[q] \/ request'[q].state \in {"idle", "refused"}
  OBVIOUS
<1>5. QED
  BY <1>2, <1>3, <1>4, QuietStep, StateTypes

\* An application is refused.
LEMMA RefuseStep ==
    ASSUME VisibilityInvariant, NEW r \in Requests, Working(r), NEW error, Refuse(r, error), Release(r),
           UNCHANGED <<offered, rows, commits, snapshot>>, plans' \in Nat, plans <= plans'
    PROVE  VisibilityInvariant'
<1>1. /\ request' = [q \in Requests |-> request'[q]]
      /\ request'[r] = [state |-> "refused", outcome |-> error]
      /\ \A q \in Requests : q # r => request'[q] = request[q]
  BY StateTypes, Replaced DEF Refuse
<1>2. request'[r].state = "refused"
  BY <1>1
<1>3. QED
  BY <1>1, <1>2, ReleaseStep

\* A disconnect, whose handler held the gate.
LEMMA DisconnectStep ==
    ASSUME VisibilityInvariant, NEW r \in Requests, Disconnect(r)
    PROVE  VisibilityInvariant'
<1>1. Working(r) /\ plans' = plans /\ plans \in Nat /\ plans <= plans
  BY StateTypes DEF Disconnect
<1>2. gate[request[r].process] = r
  BY <1>1 DEF VisibilityInvariant, GatesHeld
<1>3. /\ request' = [request EXCEPT ![r] = Idle] /\ Release(r)
      /\ UNCHANGED <<offered, rows, commits, snapshot>>
  BY <1>2 DEF Disconnect
<1>4. /\ request' = [q \in Requests |-> request'[q]] /\ request'[r] = Idle
      /\ \A q \in Requests : q # r => request'[q] = request[q]
  BY <1>3, StateTypes, Replaced
<1>5. request'[r].state = "idle"
  BY <1>4 DEF Idle
<1>6. QED
  BY <1>1, <1>3, <1>4, <1>5, ReleaseStep

\* A process stops with its applications.
LEMMA CrashStep ==
    ASSUME VisibilityInvariant, NEW p \in Processes, Crash(p)
    PROVE  VisibilityInvariant'
<1>1. /\ \A q \in Requests : request'[q] = IF Working(q) /\ request[q].process = p
                                           THEN Idle ELSE request[q]
      /\ request' = [q \in Requests |-> request'[q]]
  BY StateTypes DEF Crash
<1>2. /\ snapshot' = [snapshot EXCEPT ![p] = None] /\ gate' = [gate EXCEPT ![p] = None]
      /\ UNCHANGED <<offered, rows, commits, plans>>
  BY DEF Crash
<1>3. /\ snapshot' = [o \in Processes |-> snapshot'[o]] /\ snapshot'[p] = None
      /\ \A o \in Processes : o # p => snapshot'[o] = snapshot[o]
  BY <1>2, StateTypes, Replaced
<1>4. /\ gate' \in [Processes -> Requests \cup {None}]
      /\ \A o \in Processes : o # p => gate'[o] = gate[o]
  BY <1>2, StateTypes
<1>5. Idle.state = "idle"
  BY DEF Idle
<1>6. ASSUME NEW q \in Requests, Working(q), request'[q] = request[q]
      PROVE  /\ gate'[request[q].process] = gate[request[q].process]
             /\ snapshot'[request[q].process] = snapshot[request[q].process]
  <2>1. request[q].process # p
    BY <1>1, <1>5, <1>6 DEF Working
  <2>2. QED
    BY <1>3, <1>4, <1>6, <2>1, StateTypes
<1>7. plans <= plans' /\ plans' \in Nat
  BY <1>2, StateTypes
<1>8. QED
  BY <1>1, <1>2, <1>3, <1>4, <1>5, <1>6, <1>7, QuietStep

\* An admission reads the snapshot, and a step that changes nothing changes nothing.
LEMMA IdleStep ==
    ASSUME VisibilityInvariant, UNCHANGED <<offered, rows, commits, snapshot, gate, request, plans>>
    PROVE  VisibilityInvariant'
<1>1. plans <= plans' /\ plans' \in Nat
  BY StateTypes
<1>2. QED
  BY <1>1, QuietStep, StateTypes

-----------------------------------------------------------------------------
(* A plan, its commit and its merge.                                       *)

\* A plan that is not refused is for the manifest's name, under the identity that is
\* stored for that name or the next one, and a plan to change nothing has a row.
LEMMA PlanNamed ==
    ASSUME VisibilityInvariant, NEW manifest, manifest.name \in ValidNames,
           NEW plan, plan = PlanAgainst(manifest, StoredSource(manifest.name)), plan.error = None
    PROVE  /\ plan.source.name = manifest.name
           /\ \/ plan.source.id = <<plans + 1, "source">>
              \/ \E row \in rows.sources : row.id = plan.source.id /\ row.name = manifest.name
           /\ plan.outcome = "Unchanged" => \E row \in rows.sources : row.name = manifest.name
<1> DEFINE current == StoredSource(manifest.name)
           row == SourceRow(manifest.name)
<1>1. plan = PlanCatalogApplication(manifest, current, plans + 1)
  <2>1. [error |-> "Corrupt"].error # None
    BY CatalogAssumption
  <2>2. QED
    BY <2>1 DEF PlanAgainst
<1>2. /\ plan.source.name = manifest.name
      /\ plan.source.id = IF current = None THEN <<plans + 1, "source">> ELSE current.id
      /\ plan.outcome = "Unchanged" => current # None
  BY <1>1, PlannedIdentity
<1>3. row # None => row \in rows.sources /\ row.name = manifest.name
  BY DEF SourceRow
<1>4. current # None => row # None /\ current.id = row.id
  BY AssembledIdentity DEF StoredSource
<1>5. QED
  BY <1>2, <1>3, <1>4

\* Planning takes an identity that nothing has, or the one its name has.
LEMMA PlannedStep ==
    ASSUME VisibilityInvariant, NEW r \in Requests, request[r].state = "gated", NEW plan,
           plan = PlanAgainst(request[r].manifest, StoredSource(request[r].manifest.name)),
           plan.error = None, plans' = plans + 1,
           request' = [request EXCEPT ![r] = [state |-> "planned", process |-> @.process,
                                              manifest |-> @.manifest, plan |-> plan, commit |-> 0]],
           UNCHANGED <<offered, rows, commits, snapshot, gate>>
    PROVE  VisibilityInvariant'
<1> DEFINE planned == [state |-> "planned", process |-> request[r].process,
                       manifest |-> request[r].manifest, plan |-> plan, commit |-> 0]
           name == request[r].manifest.name
<1>1. /\ CatalogTypeOK /\ RowsNamed /\ PlansNamed /\ GatesHeld
      /\ SnapshotsBehind /\ CommitsCounted /\ AnsweredVisible
  BY DEF VisibilityInvariant
<1>2. Working(r) /\ request[r].process \in Processes /\ name \in ValidNames /\ plans \in Nat
  BY StateTypes DEF Working
<1>3. /\ request' = [q \in Requests |-> request'[q]] /\ request'[r] = planned
      /\ \A q \in Requests : q # r => request'[q] = request[q]
  BY StateTypes, Replaced
<1>4. /\ planned.state = "planned" /\ planned.process = request[r].process
      /\ planned.manifest = request[r].manifest /\ planned.plan = plan /\ planned.commit = 0
  OBVIOUS
<1>5. /\ plan.source.name = name
      /\ \/ plan.source.id = <<plans + 1, "source">>
         \/ \E row \in rows.sources : row.id = plan.source.id /\ row.name = name
      /\ plan.outcome = "Unchanged" => \E row \in rows.sources : row.name = name
  BY <1>2, PlanNamed
<1>6. GeneratedSources' = GeneratedSources \cup {<<plans + 1, "source">>}
  <2>1. 1 .. plans' = 1 .. plans \cup {plans + 1}
    BY <1>2
  <2>2. QED
    BY <2>1 DEF GeneratedSources
<1>7. <<plans + 1, "source">> \notin GeneratedSources
  BY <1>2 DEF GeneratedSources
<1>8. CatalogTypeOK'
  <2>1. /\ Working(r)' /\ request'[r].process \in Processes /\ request'[r].manifest.name \in ValidNames
        /\ request'[r] = [state |-> request'[r].state, process |-> request'[r].process,
                          manifest |-> request'[r].manifest, plan |-> request'[r].plan,
                          commit |-> request'[r].commit]
    BY <1>2, <1>3, <1>4 DEF Working
  <2>2. ASSUME NEW q \in Requests, q # r
        PROVE  /\ Working(q)' \/ Settled(q)'
               /\ Working(q)' \/ request'[q].state = "applied" =>
                    request'[q].process \in Processes /\ request'[q].manifest.name \in ValidNames
               /\ request'[q].state \in {"planned", "committed"} =>
                    request'[q] = [state |-> request'[q].state, process |-> request'[q].process,
                                   manifest |-> request'[q].manifest, plan |-> request'[q].plan,
                                   commit |-> request'[q].commit]
    BY <1>1, <1>3, <2>2 DEF CatalogTypeOK, Working, Settled
  <2>3. /\ offered' \in Workloads /\ commits' \in [ValidNames -> Nat] /\ plans' \in Nat
        /\ gate' \in [Processes -> Requests \cup {None}]
        /\ snapshot' = [p \in Processes |-> snapshot'[p]]
    BY <1>1, <1>2 DEF CatalogTypeOK
  <2>4. QED
    BY <1>3, <2>1, <2>2, <2>3 DEF CatalogTypeOK
<1>9. RowsNamed'
  BY <1>1, <1>6 DEF RowsNamed
<1> HIDE DEF planned, name
<1>10. PlansNamed'
  <2>1. plan.source.id \in GeneratedSources'
    BY <1>1, <1>5, <1>6 DEF RowsNamed
  <2>2. ASSUME NEW row \in rows.sources, row.id = plan.source.id
        PROVE  row.name = name
    <3>1. CASE plan.source.id = <<plans + 1, "source">>
      BY <1>1, <1>7, <2>2, <3>1 DEF RowsNamed
    <3>2. CASE \E stored \in rows.sources : stored.id = plan.source.id /\ stored.name = name
      BY <1>1, <2>2, <3>2 DEF RowsNamed
    <3>3. QED
      BY <1>5, <3>1, <3>2
  <2>3. ASSUME NEW q \in Requests, request[q].state = "planned",
               request[q].plan.source.id = plan.source.id
        PROVE  request[q].manifest.name = name
    <3>1. CASE plan.source.id = <<plans + 1, "source">>
      BY <1>1, <1>7, <2>3, <3>1 DEF PlansNamed
    <3>2. CASE \E stored \in rows.sources : stored.id = plan.source.id /\ stored.name = name
      BY <1>1, <2>3, <3>2 DEF PlansNamed
    <3>3. QED
      BY <1>5, <3>1, <3>2
  <2>4. \A q \in Requests : request'[q].state \in {"planned", "committed"} =>
           request'[q].plan.source.name = request'[q].manifest.name
    BY <1>1, <1>3, <1>4, <1>5 DEF PlansNamed, name
  <2>5. ASSUME NEW q \in Requests, request'[q].state = "planned"
        PROVE  /\ request'[q].plan.source.id \in GeneratedSources'
               /\ \A row \in rows'.sources :
                    row.id = request'[q].plan.source.id => row.name = request'[q].manifest.name
               /\ request'[q].plan.outcome = "Unchanged" =>
                    \E row \in rows'.sources : row.name = request'[q].manifest.name
    <3>1. CASE q = r
      BY <1>3, <1>4, <1>5, <2>1, <2>2, <3>1 DEF name
    <3>2. CASE q # r
      BY <1>1, <1>3, <1>6, <2>5, <3>2 DEF PlansNamed
    <3>3. QED
      BY <3>1, <3>2
  <2>6. ASSUME NEW q \in Requests, NEW o \in Requests,
               request'[q].state = "planned", request'[o].state = "planned",
               request'[q].plan.source.id = request'[o].plan.source.id
        PROVE  request'[q].manifest.name = request'[o].manifest.name
    <3>1. request'[r].plan = plan /\ request'[r].manifest.name = name
      BY <1>3, <1>4 DEF name
    <3>2. CASE q = r /\ o # r
      BY <1>3, <2>3, <2>6, <3>1, <3>2
    <3>3. CASE q # r /\ o = r
      BY <1>3, <2>3, <2>6, <3>1, <3>3
    <3>4. CASE q # r /\ o # r
      BY <1>1, <1>3, <2>6, <3>4 DEF PlansNamed
    <3>5. QED
      BY <3>2, <3>3, <3>4
  <2>7. QED
    BY <2>4, <2>5, <2>6 DEF PlansNamed
<1>11. GatesHeld'
  BY <1>1, <1>2, <1>3, <1>4 DEF GatesHeld, Working
<1>12. SnapshotsBehind'
  BY <1>1 DEF SnapshotsBehind
<1>13. CommitsCounted'
  BY <1>1, <1>3, <1>4 DEF CommitsCounted
<1>14. AnsweredVisible'
  BY <1>1, <1>3, <1>4 DEF AnsweredVisible
<1>15. QED
  BY <1>8, <1>9, <1>10, <1>11, <1>12, <1>13, <1>14 DEF VisibilityInvariant

\* begin, lock, load, plan and persist.
LEMMA PlanStep ==
    ASSUME VisibilityInvariant, NEW r \in Requests, Plan(r)
    PROVE  VisibilityInvariant'
<1> DEFINE plan == PlanAgainst(request[r].manifest, StoredSource(request[r].manifest.name))
<1>1. /\ request[r].state = "gated" /\ plans' = plans + 1
      /\ UNCHANGED <<offered, rows, commits, snapshot>>
  BY DEF Plan
<1>2. \/ PlanError(plan) # None /\ Refuse(r, PlanError(plan)) /\ Release(r)
      \/ /\ PlanError(plan) = None
         /\ request' = [request EXCEPT ![r] = [state |-> "planned", process |-> @.process,
                                               manifest |-> request[r].manifest, plan |-> plan,
                                               commit |-> 0]]
         /\ UNCHANGED gate
  BY DEF Plan
<1> HIDE DEF plan
<1>3. Working(r) /\ plans' \in Nat /\ plans <= plans'
  BY <1>1, StateTypes DEF Working
<1>4. CASE Refuse(r, PlanError(plan)) /\ Release(r)
  BY <1>1, <1>3, <1>4, RefuseStep
<1>5. CASE /\ PlanError(plan) = None
           /\ request' = [request EXCEPT ![r] = [state |-> "planned", process |-> @.process,
                                                 manifest |-> request[r].manifest, plan |-> plan,
                                                 commit |-> 0]]
           /\ UNCHANGED gate
  <2>1. plan.error = None
    BY <1>5 DEF PlanError
  <2>2. request' = [request EXCEPT ![r] = [state |-> "planned", process |-> @.process,
                                           manifest |-> @.manifest, plan |-> plan, commit |-> 0]]
    BY <1>5
  <2>3. QED
    BY <1>1, <1>5, <2>1, <2>2, PlannedStep DEF plan
<1>6. QED
  BY <1>2, <1>4, <1>5

\* A commit keeps the rows apart by identity, and its name has a row from then on.
LEMMA CommittedRows ==
    ASSUME VisibilityInvariant, NEW r \in Requests, request[r].state = "planned",
           rows' = PersistPlan(rows, request[r].plan),
           commits' = [commits EXCEPT ![request[r].manifest.name] = @ + 1], plans' = plans
    PROVE  /\ RowsNamed'
           /\ \A name : (\E row \in rows.sources : row.name = name) =>
                        \E row \in rows'.sources : row.name = name
           /\ \A row \in rows'.sources : \/ row \in rows.sources
                                         \/ /\ row.id = request[r].plan.source.id
                                            /\ row.name = request[r].manifest.name
<1> DEFINE plan == request[r].plan
           named == request[r].manifest.name
           new == PlannedRow(plan)
<1>1. /\ RowsNamed /\ PlansNamed /\ Working(r)
  BY DEF VisibilityInvariant, Working
<1>2. /\ plan.source.name = named /\ plan.source.id \in GeneratedSources
      /\ \A row \in rows.sources : row.id = plan.source.id => row.name = named
      /\ plan.outcome = "Unchanged" => \E row \in rows.sources : row.name = named
  BY <1>1 DEF PlansNamed
<1>3. /\ new.id = plan.source.id /\ new.name = plan.source.name
      /\ rows'.sources = IF plan.outcome = "Unchanged" THEN rows.sources
                         ELSE {row \in rows.sources : row.id # plan.source.id} \cup {new}
  <2>1. rows' = PersistPlan(rows, plan)
    OBVIOUS
  <2> HIDE DEF plan
  <2>2. /\ PlannedRow(plan).id = plan.source.id /\ PlannedRow(plan).name = plan.source.name
        /\ PersistPlan(rows, plan).sources =
             IF plan.outcome = "Unchanged" THEN rows.sources
             ELSE {row \in rows.sources : row.id # plan.source.id} \cup {PlannedRow(plan)}
    BY PersistedSources
  <2>3. QED
    BY <2>1, <2>2
<1>4. named \in ValidNames /\ commits \in [ValidNames -> Nat]
  BY <1>1, StateTypes DEF VisibilityInvariant, CatalogTypeOK
<1>5. /\ commits'[named] > 0
      /\ \A name \in ValidNames : name # named => commits'[name] = commits[name]
  BY <1>4
<1>6. GeneratedSources' = GeneratedSources
  BY DEF GeneratedSources
<1> HIDE DEF plan, named, new
<1>7. \A row \in rows'.sources : row \in rows.sources \/ (row.id = plan.source.id /\ row.name = named)
  BY <1>2, <1>3
<1>8. \E row \in rows'.sources : row.name = named
  BY <1>2, <1>3
<1>9. \A row \in rows.sources : row \in rows'.sources \/ row.name = named
  BY <1>2, <1>3
<1>10. \A name : (\E row \in rows.sources : row.name = name) => \E row \in rows'.sources : row.name = name
  BY <1>8, <1>9
<1>11. RowsNamed'
  <2>1. ASSUME NEW name \in ValidNames
        PROVE  commits'[name] > 0 <=> \E row \in rows'.sources : row.name = name
    <3>1. CASE name = named
      BY <1>5, <1>8, <3>1
    <3>2. CASE name # named
      <4>1. commits'[name] > 0 <=> \E row \in rows.sources : row.name = name
        BY <1>1, <1>5, <3>2 DEF RowsNamed
      <4>2. QED
        BY <1>7, <1>10, <3>2, <4>1
    <3>3. QED
      BY <3>1, <3>2
  <2>2. \A row \in rows'.sources : row.name \in ValidNames /\ row.id \in GeneratedSources'
    BY <1>1, <1>2, <1>4, <1>6, <1>7 DEF RowsNamed
  <2>3. \A row, other \in rows'.sources : row.id = other.id => row.name = other.name
    BY <1>1, <1>2, <1>7 DEF RowsNamed
  <2>4. QED
    BY <2>1, <2>2, <2>3 DEF RowsNamed
<1>12. QED
  BY <1>7, <1>10, <1>11 DEF plan, named

\* What COMMIT makes of a planned request.
LEMMA CommittedRecord ==
    ASSUME NEW planned, NEW number,
           planned = [state |-> planned.state, process |-> planned.process,
                      manifest |-> planned.manifest, plan |-> planned.plan, commit |-> planned.commit]
    PROVE  [planned EXCEPT !.state = "committed", !.commit = number] =
             [state |-> "committed", process |-> planned.process, manifest |-> planned.manifest,
              plan |-> planned.plan, commit |-> number]
<1>1. PICK state, process, manifest, plan, commit :
        planned = [state |-> state, process |-> process, manifest |-> manifest,
                   plan |-> plan, commit |-> commit]
  OBVIOUS
<1>2. /\ planned.process = process /\ planned.manifest = manifest /\ planned.plan = plan
  BY <1>1
<1>3. [planned EXCEPT !.state = "committed"] =
        [state |-> "committed", process |-> process, manifest |-> manifest,
         plan |-> plan, commit |-> commit]
  BY <1>1, SMT
<1>4. [[state |-> "committed", process |-> process, manifest |-> manifest,
         plan |-> plan, commit |-> commit] EXCEPT !.commit = number] =
        [state |-> "committed", process |-> process, manifest |-> manifest,
         plan |-> plan, commit |-> number]
  BY SMT
<1>5. [planned EXCEPT !.state = "committed", !.commit = number] =
        [[planned EXCEPT !.state = "committed"] EXCEPT !.commit = number]
  OBVIOUS
<1>6. QED
  BY <1>2, <1>3, <1>4, <1>5

\* COMMIT: the rows of the plan replace those of its name, and the process has still
\* to hear of it.
LEMMA CommitStep ==
    ASSUME VisibilityInvariant, NEW r \in Requests, Commit(r)
    PROVE  VisibilityInvariant'
<1> DEFINE name == request[r].manifest.name
           plan == request[r].plan
           done == [state |-> "committed", process |-> request[r].process,
                    manifest |-> request[r].manifest, plan |-> plan, commit |-> commits[name] + 1]
<1>1. /\ CatalogTypeOK /\ RowsNamed /\ PlansNamed /\ GatesHeld
      /\ SnapshotsBehind /\ CommitsCounted /\ AnsweredVisible
  BY DEF VisibilityInvariant
<1>2. /\ request[r].state = "planned" /\ rows' = PersistPlan(rows, plan)
      /\ commits' = [commits EXCEPT ![name] = @ + 1]
      /\ request' = [request EXCEPT ![r] = [@ EXCEPT !.state = "committed",
                                                     !.commit = commits[name] + 1]]
      /\ UNCHANGED <<offered, snapshot, gate, plans>>
  BY DEF Commit
<1>3. Working(r) /\ request[r].process \in Processes /\ name \in ValidNames
  BY <1>2, StateTypes DEF Working
<1>4. [request[r] EXCEPT !.state = "committed", !.commit = commits[name] + 1] = done
  <2>1. request[r] = [state |-> request[r].state, process |-> request[r].process,
                      manifest |-> request[r].manifest, plan |-> request[r].plan,
                      commit |-> request[r].commit]
    BY <1>1, <1>2 DEF CatalogTypeOK
  <2>2. QED
    BY <2>1, CommittedRecord
<1>5. /\ request' = [q \in Requests |-> request'[q]] /\ request'[r] = done
      /\ \A q \in Requests : q # r => request'[q] = request[q]
  <2>1. request' = [request EXCEPT ![r] = done]
    BY <1>2, <1>4, StateTypes
  <2>2. QED
    BY <2>1, StateTypes, Replaced
<1>6. /\ request'[r].state = "committed" /\ request'[r].process = request[r].process
      /\ request'[r].manifest = request[r].manifest /\ request'[r].plan = plan
      /\ request'[r].commit = commits[name] + 1
  BY <1>5
<1>7. /\ RowsNamed'
      /\ \A n : (\E row \in rows.sources : row.name = n) => \E row \in rows'.sources : row.name = n
      /\ \A row \in rows'.sources : row \in rows.sources \/ (row.id = plan.source.id /\ row.name = name)
  BY <1>2, CommittedRows
<1>8. /\ commits \in [ValidNames -> Nat] /\ commits' \in [ValidNames -> Nat]
      /\ commits'[name] = commits[name] + 1
      /\ \A n \in ValidNames : n # name => commits'[n] = commits[n]
  BY <1>1, <1>2, <1>3 DEF CatalogTypeOK
<1>9. \A n \in ValidNames : 1 .. commits[n] \subseteq 1 .. commits'[n]
  BY <1>3, <1>8
<1> HIDE DEF done, name, plan
<1>10. CatalogTypeOK'
  <2>1. /\ Working(r)' /\ request'[r].process \in Processes /\ request'[r].manifest.name \in ValidNames
        /\ request'[r] = [state |-> request'[r].state, process |-> request'[r].process,
                          manifest |-> request'[r].manifest, plan |-> request'[r].plan,
                          commit |-> request'[r].commit]
    BY <1>3, <1>5, <1>6 DEF Working, done, name
  <2>2. ASSUME NEW q \in Requests, q # r
        PROVE  /\ Working(q)' \/ Settled(q)'
               /\ Working(q)' \/ request'[q].state = "applied" =>
                    request'[q].process \in Processes /\ request'[q].manifest.name \in ValidNames
               /\ request'[q].state \in {"planned", "committed"} =>
                    request'[q] = [state |-> request'[q].state, process |-> request'[q].process,
                                   manifest |-> request'[q].manifest, plan |-> request'[q].plan,
                                   commit |-> request'[q].commit]
    BY <1>1, <1>5, <2>2 DEF CatalogTypeOK, Working, Settled
  <2>3. /\ offered' \in Workloads /\ plans' \in Nat
        /\ gate' \in [Processes -> Requests \cup {None}]
        /\ snapshot' = [p \in Processes |-> snapshot'[p]]
    BY <1>1, <1>2 DEF CatalogTypeOK
  <2>4. QED
    BY <1>5, <1>8, <2>1, <2>2, <2>3 DEF CatalogTypeOK
<1>11. PlansNamed'
  <2>1. \A q \in Requests : request'[q].state \in {"planned", "committed"} =>
           request'[q].plan.source.name = request'[q].manifest.name
    BY <1>1, <1>2, <1>5, <1>6 DEF PlansNamed, plan
  <2>2. ASSUME NEW q \in Requests, request'[q].state = "planned"
        PROVE  q # r /\ request'[q] = request[q] /\ request[q].state = "planned"
    BY <1>5, <1>6, <2>2
  <2>3. ASSUME NEW q \in Requests, request'[q].state = "planned"
        PROVE  /\ request[q].plan.source.id \in GeneratedSources'
               /\ \A row \in rows'.sources :
                    row.id = request[q].plan.source.id => row.name = request[q].manifest.name
               /\ request[q].plan.outcome = "Unchanged" =>
                    \E row \in rows'.sources : row.name = request[q].manifest.name
    <3>1. request[q].state = "planned"
      BY <2>2, <2>3
    <3>2. GeneratedSources' = GeneratedSources
      BY <1>2 DEF GeneratedSources
    <3>3. request[q].plan.source.id = plan.source.id => request[q].manifest.name = name
      BY <1>1, <1>2, <3>1 DEF PlansNamed, plan, name
    <3>4. QED
      BY <1>1, <1>7, <3>1, <3>2, <3>3 DEF PlansNamed
  <2>4. \A q, o \in Requests :
           /\ request'[q].state = "planned" /\ request'[o].state = "planned"
           /\ request'[q].plan.source.id = request'[o].plan.source.id
           => request'[q].manifest.name = request'[o].manifest.name
    BY <1>1, <2>2 DEF PlansNamed
  <2>5. QED
    BY <2>1, <2>2, <2>3, <2>4 DEF PlansNamed
<1>12. GatesHeld'
  BY <1>1, <1>2, <1>3, <1>5, <1>6 DEF GatesHeld, Working
<1>13. SnapshotsBehind'
  BY <1>1, <1>2, <1>9 DEF SnapshotsBehind
<1>14. CommitsCounted'
  <2>1. SUFFICES ASSUME NEW q \in Requests, request'[q].state \in {"committed", "applied"}
                 PROVE  /\ request'[q].commit \in 1 .. commits'[request'[q].manifest.name]
                        /\ request'[q].state = "committed"
                             /\ request'[q].manifest.name \in DOMAIN snapshot[request'[q].process] =>
                             snapshot[request'[q].process][request'[q].manifest.name].commit
                               < request'[q].commit
    BY <1>2 DEF CommitsCounted
  <2>2. CASE q # r
    <3>1. request'[q] = request[q]
      BY <1>5, <2>2
    <3>2. request[q].manifest.name \in ValidNames
      BY <1>1, <2>1, <3>1 DEF CatalogTypeOK, Working
    <3>3. QED
      BY <1>1, <1>9, <2>1, <3>1, <3>2 DEF CommitsCounted
  <2>3. CASE q = r
    <3>1. commits[name] + 1 \in 1 .. commits'[name]
      BY <1>3, <1>8 DEF name
    <3>2. snapshot[request[r].process] # None
      BY <1>1, <1>3 DEF GatesHeld
    <3>3. name \in DOMAIN snapshot[request[r].process] =>
            snapshot[request[r].process][name].commit \in 1 .. commits[name]
      BY <1>1, <1>3, <3>2 DEF SnapshotsBehind
    <3>4. \A k \in 1 .. commits[name] : k < commits[name] + 1
      BY <1>3, <1>8 DEF name
    <3>5. request'[q].manifest.name = name /\ request'[q].process = request[r].process
          /\ request'[q].commit = commits[name] + 1
      BY <1>6, <2>3 DEF name
    <3>6. QED
      BY <3>1, <3>3, <3>4, <3>5
  <2>4. QED
    BY <2>2, <2>3
<1>15. AnsweredVisible'
  BY <1>1, <1>2, <1>5, <1>6 DEF AnsweredVisible
<1>16. QED
  BY <1>7, <1>10, <1>11, <1>12, <1>13, <1>14, <1>15 DEF VisibilityInvariant

\* A source that is merged takes the place of the one of its name (merge_source).
LEMMA MergedSource ==
    ASSUME NEW sources, NEW source, NEW commit,
           NEW next, next = Replacing(sources, source, commit), next # None
    PROVE  /\ DOMAIN next = DOMAIN sources \cup {source.name}
           /\ next[source.name].commit = commit
           /\ \A name \in DOMAIN sources : name # source.name => next[name] = sources[name]
<1> DEFINE merged == [source |-> source, commit |-> commit]
           taken  == [name \in DOMAIN sources \cup {source.name} |->
                        IF name = source.name THEN merged ELSE sources[name]]
<1>1. next = taken
  BY DEF Replacing
<1>2. merged.commit = commit
  OBVIOUS
<1> HIDE DEF merged
<1>3. /\ DOMAIN taken = DOMAIN sources \cup {source.name}
      /\ taken[source.name] = merged
      /\ \A name \in DOMAIN sources : name # source.name => taken[name] = sources[name]
  OBVIOUS
<1>4. QED
  BY <1>1, <1>2, <1>3

\* The answer to COMMIT reaches a process that is behind it.
LEMMA MergedStep ==
    ASSUME VisibilityInvariant, NEW r \in Requests, request[r].state = "committed",
           Succeed(r), Release(r), NEW next,
           next = Replacing(snapshot[request[r].process], request[r].plan.source, request[r].commit),
           next # None, snapshot' = [snapshot EXCEPT ![request[r].process] = next],
           UNCHANGED <<offered, rows, commits, plans>>
    PROVE  VisibilityInvariant'
<1> DEFINE p    == request[r].process
           name == request[r].manifest.name
           old  == snapshot[p]
           done == [state |-> "applied", process |-> request[r].process,
                    manifest |-> request[r].manifest, commit |-> request[r].commit,
                    outcome |-> IF request[r].plan.outcome = "Unchanged" THEN "Unchanged" ELSE "Applied"]
<1>1. /\ CatalogTypeOK /\ RowsNamed /\ PlansNamed /\ GatesHeld
      /\ SnapshotsBehind /\ CommitsCounted /\ AnsweredVisible
  BY DEF VisibilityInvariant
<1>2. Working(r) /\ p \in Processes /\ name \in ValidNames
  BY StateTypes DEF Working
<1>3. old # None /\ request[r].plan.source.name = name
  BY <1>1, <1>2 DEF GatesHeld, PlansNamed
<1>4. /\ DOMAIN next = DOMAIN old \cup {name} /\ next[name].commit = request[r].commit
      /\ \A other \in DOMAIN old : other # name => next[other] = old[other]
  <2>1. /\ DOMAIN next = DOMAIN old \cup {request[r].plan.source.name}
        /\ next[request[r].plan.source.name].commit = request[r].commit
        /\ \A other \in DOMAIN old : other # request[r].plan.source.name => next[other] = old[other]
    BY MergedSource
  <2>2. QED
    BY <1>3, <2>1
<1>5. /\ request' = [q \in Requests |-> request'[q]] /\ request'[r] = done
      /\ \A q \in Requests : q # r => request'[q] = request[q]
  <2>1. request' = [request EXCEPT ![r] = done]
    BY StateTypes DEF Succeed
  <2>2. QED
    BY <2>1, StateTypes, Replaced
<1>6. /\ request'[r].state = "applied" /\ request'[r].process = p
      /\ request'[r].manifest = request[r].manifest /\ request'[r].commit = request[r].commit
  BY <1>5
<1>7. /\ snapshot' = [o \in Processes |-> snapshot'[o]] /\ snapshot'[p] = next
      /\ \A o \in Processes : o # p => snapshot'[o] = snapshot[o]
  BY <1>2, StateTypes, Replaced
<1>8. /\ gate' \in [Processes -> Requests \cup {None}]
      /\ \A o \in Processes : o # p => gate'[o] = gate[o]
  BY <1>2, StateTypes DEF Release
<1>9. /\ request[r].commit \in 1 .. commits[name]
      /\ name \in DOMAIN old => old[name].commit < request[r].commit
  BY <1>1 DEF CommitsCounted
<1> HIDE DEF p, name, old, done
<1>10. ASSUME NEW q \in Requests, q # r, Working(q)
       PROVE  request[q].process \in Processes /\ request[q].process # p
  BY <1>2, <1>10, GateExclusive, StateTypes DEF p
<1>11. CatalogTypeOK'
  <2>1. /\ Settled(r)' /\ request'[r].process \in Processes /\ request'[r].manifest.name \in ValidNames
    BY <1>2, <1>6 DEF Settled, name
  <2>2. ASSUME NEW q \in Requests, q # r
        PROVE  /\ Working(q)' \/ Settled(q)'
               /\ Working(q)' \/ request'[q].state = "applied" =>
                    request'[q].process \in Processes /\ request'[q].manifest.name \in ValidNames
               /\ request'[q].state \in {"planned", "committed"} =>
                    request'[q] = [state |-> request'[q].state, process |-> request'[q].process,
                                   manifest |-> request'[q].manifest, plan |-> request'[q].plan,
                                   commit |-> request'[q].commit]
    BY <1>1, <1>5, <2>2 DEF CatalogTypeOK, Working, Settled
  <2>3. request'[r].state \notin {"planned", "committed"}
    BY <1>6
  <2>4. offered' \in Workloads /\ plans' \in Nat /\ commits' \in [ValidNames -> Nat]
    BY <1>1 DEF CatalogTypeOK
  <2>5. QED
    BY <1>5, <1>7, <1>8, <2>1, <2>2, <2>3, <2>4 DEF CatalogTypeOK
<1>12. RowsNamed'
  BY <1>1 DEF RowsNamed, GeneratedSources
<1>13. PlansNamed'
  <2>1. ASSUME NEW q \in Requests, request'[q].state \in {"planned", "committed"}
        PROVE  request'[q] = request[q]
    BY <1>5, <1>6, <2>1
  <2>2. GeneratedSources' = GeneratedSources
    BY DEF GeneratedSources
  <2>3. QED
    BY <1>1, <2>1, <2>2 DEF PlansNamed
<1>14. GatesHeld'
  <2>1. SUFFICES ASSUME NEW q \in Requests, Working(q)'
                 PROVE  gate'[request'[q].process] = q /\ snapshot'[request'[q].process] # None
    BY DEF GatesHeld
  <2>2. q # r
    BY <1>6, <2>1 DEF Working
  <2>3. request'[q] = request[q] /\ Working(q)
    BY <1>5, <2>1, <2>2 DEF Working
  <2>4. QED
    BY <1>1, <1>7, <1>8, <1>10, <2>2, <2>3 DEF GatesHeld
<1>15. SnapshotsBehind'
  <2>1. SUFFICES ASSUME NEW o \in Processes, snapshot'[o] # None, NEW n \in DOMAIN snapshot'[o]
                 PROVE  n \in ValidNames /\ snapshot'[o][n].commit \in 1 .. commits[n]
    BY DEF SnapshotsBehind
  <2>2. CASE o # p
    BY <1>1, <1>7, <2>1, <2>2 DEF SnapshotsBehind
  <2>3. CASE o = p /\ n = name
    BY <1>2, <1>4, <1>7, <1>9, <2>3
  <2>4. CASE o = p /\ n # name
    <3>1. n \in DOMAIN old /\ next[n] = old[n]
      <4>1. n \in DOMAIN next
        BY <1>7, <2>1, <2>4
      <4>2. QED
        BY <1>4, <2>4, <4>1
    <3>2. QED
      BY <1>1, <1>2, <1>3, <1>7, <2>4, <3>1 DEF SnapshotsBehind, old
  <2>5. QED
    BY <2>2, <2>3, <2>4
<1>16. CommitsCounted'
  <2>1. SUFFICES ASSUME NEW q \in Requests, request'[q].state \in {"committed", "applied"}
                 PROVE  /\ request'[q].commit \in 1 .. commits[request'[q].manifest.name]
                        /\ request'[q].state = "committed"
                             /\ request'[q].manifest.name \in DOMAIN snapshot'[request'[q].process] =>
                             snapshot'[request'[q].process][request'[q].manifest.name].commit
                               < request'[q].commit
    BY DEF CommitsCounted
  <2>2. CASE q = r
    BY <1>6, <1>9, <2>2 DEF name
  <2>3. CASE q # r
    <3>1. request'[q] = request[q]
      BY <1>5, <2>3
    <3>2. request[q].state = "committed" => snapshot'[request[q].process] = snapshot[request[q].process]
      BY <1>7, <1>10, <2>3 DEF Working
    <3>3. QED
      BY <1>1, <2>1, <3>1, <3>2 DEF CommitsCounted
  <2>4. QED
    BY <2>2, <2>3
<1>17. AnsweredVisible'
  <2>1. SUFFICES ASSUME NEW q \in Requests, request'[q].state = "applied",
                        snapshot'[request'[q].process] # None
                 PROVE  /\ request'[q].manifest.name \in DOMAIN snapshot'[request'[q].process]
                        /\ snapshot'[request'[q].process][request'[q].manifest.name].commit
                             >= request'[q].commit
    BY DEF AnsweredVisible
  <2>2. CASE q = r
    <3>1. request[r].commit >= request[r].commit
      BY <1>1, <1>2, <1>9 DEF CatalogTypeOK
    <3>2. QED
      BY <1>4, <1>6, <1>7, <2>2, <3>1 DEF name
  <2>3. CASE q # r
    <3>1. request'[q] = request[q] /\ request[q].state = "applied"
      BY <1>5, <2>1, <2>3
    <3>2. /\ request[q].process \in Processes /\ request[q].manifest.name \in ValidNames
          /\ request[q].commit \in 1 .. commits[request[q].manifest.name]
      BY <1>1, <3>1 DEF CatalogTypeOK, CommitsCounted
    <3>3. CASE request[q].process # p
      <4>1. snapshot'[request[q].process] = snapshot[request[q].process]
        BY <1>7, <3>2, <3>3
      <4>2. QED
        BY <1>1, <2>1, <3>1, <4>1 DEF AnsweredVisible
    <3>4. CASE request[q].process = p
      <4>1. /\ request[q].manifest.name \in DOMAIN old
            /\ old[request[q].manifest.name].commit >= request[q].commit
        BY <1>1, <1>3, <3>1, <3>4 DEF AnsweredVisible, old
      <4>2. CASE request[q].manifest.name # name
        <5>1. snapshot'[request'[q].process] = next
          BY <1>7, <3>1, <3>4
        <5>2. /\ request[q].manifest.name \in DOMAIN next
              /\ next[request[q].manifest.name].commit >= request[q].commit
          BY <1>4, <4>1, <4>2
        <5>3. QED
          BY <3>1, <5>1, <5>2
      <4>3. CASE request[q].manifest.name = name
        <5>1. old[name].commit \in 1 .. commits[name]
          BY <1>1, <1>2, <1>3, <4>1, <4>3 DEF SnapshotsBehind, old
        <5>2. /\ old[name].commit \in Int /\ request[q].commit \in Int /\ request[r].commit \in Int
              /\ old[name].commit >= request[q].commit /\ old[name].commit < request[r].commit
          BY <1>9, <3>2, <4>1, <4>3, <5>1
        <5>3. request[r].commit >= request[q].commit
          BY <5>2
        <5>4. QED
          BY <1>4, <1>7, <3>1, <3>4, <4>3, <5>3
      <4>4. QED
        BY <4>2, <4>3
    <3>5. QED
      BY <3>3, <3>4
  <2>4. QED
    BY <2>2, <2>3
<1>18. QED
  BY <1>11, <1>12, <1>13, <1>14, <1>15, <1>16, <1>17 DEF VisibilityInvariant

\* The answer to COMMIT arrives.
LEMMA MergeStep ==
    ASSUME VisibilityInvariant, NEW r \in Requests, Merge(r)
    PROVE  VisibilityInvariant'
<1> DEFINE next == Replacing(snapshot[request[r].process], request[r].plan.source, request[r].commit)
<1>1. /\ request[r].state = "committed" /\ Release(r) /\ UNCHANGED <<offered, rows, commits, plans>>
      /\ \/ next = None /\ Refuse(r, "Corrupt") /\ UNCHANGED snapshot
         \/ /\ next # None /\ Succeed(r)
            /\ snapshot' = [snapshot EXCEPT ![request[r].process] = next]
  BY DEF Merge
<1>2. Working(r) /\ plans' \in Nat /\ plans <= plans'
  BY <1>1, StateTypes DEF Working
<1>3. CASE Refuse(r, "Corrupt") /\ UNCHANGED snapshot
  BY <1>1, <1>2, <1>3, RefuseStep
<1>4. CASE /\ next # None /\ Succeed(r)
           /\ snapshot' = [snapshot EXCEPT ![request[r].process] = next]
  BY <1>1, <1>4, MergedStep
<1>5. QED
  BY <1>1, <1>3, <1>4

-----------------------------------------------------------------------------
(* A start, and every step.                                                *)

\* A process that starts takes a source for every row, and so for every commit; no
\* application of it is under way.
LEMMA LoadStep ==
    ASSUME VisibilityInvariant, NEW p \in Processes, Load(p)
    PROVE  VisibilityInvariant'
<1> DEFINE names  == {row.name : row \in rows.sources}
           entry(n) == [source |-> StoredSource(n), commit |-> commits[n]]
           loaded == [name \in names |-> entry(name)]
<1>1. /\ CatalogTypeOK /\ RowsNamed /\ PlansNamed /\ GatesHeld
      /\ SnapshotsBehind /\ CommitsCounted /\ AnsweredVisible
  BY DEF VisibilityInvariant
<1>2. /\ snapshot[p] = None /\ snapshot' = [snapshot EXCEPT ![p] = loaded]
      /\ UNCHANGED <<offered, rows, commits, gate, request, plans>>
  BY DEF Load
<1>3. /\ snapshot' = [o \in Processes |-> snapshot'[o]] /\ snapshot'[p] = loaded
      /\ \A o \in Processes : o # p => snapshot'[o] = snapshot[o]
  BY <1>2, StateTypes, Replaced
<1>4. \A n \in names : entry(n).commit = commits[n]
  OBVIOUS
<1> HIDE DEF entry
<1>5. /\ DOMAIN loaded = names
      /\ \A n \in names : loaded[n].commit = commits[n]
  BY <1>4
<1> HIDE DEF loaded
<1>6. \A n \in ValidNames : commits[n] > 0 <=> n \in names
  BY <1>1 DEF RowsNamed
<1>7. names \subseteq ValidNames /\ commits \in [ValidNames -> Nat]
  BY <1>1 DEF RowsNamed, CatalogTypeOK
<1> HIDE DEF names
<1>8. \A q \in Requests : Working(q) => request[q].process \in Processes /\ request[q].process # p
  BY <1>1, <1>2, StateTypes DEF GatesHeld
<1>9. CatalogTypeOK'
  <2>1. \A q \in Requests : (Working(q)' <=> Working(q)) /\ (Settled(q)' <=> Settled(q))
    BY <1>2 DEF Working, Settled
  <2>2. QED
    BY <1>1, <1>2, <1>3, <2>1 DEF CatalogTypeOK
<1>10. RowsNamed'
  BY <1>1, <1>2 DEF RowsNamed, GeneratedSources
<1>11. PlansNamed'
  BY <1>1, <1>2 DEF PlansNamed, GeneratedSources
<1>12. GatesHeld'
  BY <1>1, <1>2, <1>3, <1>8 DEF GatesHeld, Working
<1>13. SnapshotsBehind'
  <2>1. SUFFICES ASSUME NEW o \in Processes, snapshot'[o] # None, NEW n \in DOMAIN snapshot'[o]
                 PROVE  n \in ValidNames /\ snapshot'[o][n].commit \in 1 .. commits[n]
    BY <1>2 DEF SnapshotsBehind
  <2>2. CASE o # p
    BY <1>1, <1>3, <2>1, <2>2 DEF SnapshotsBehind
  <2>3. CASE o = p
    <3>1. snapshot'[o] = loaded
      BY <1>3, <2>3
    <3>2. n \in names /\ loaded[n].commit = commits[n]
      BY <1>5, <2>1, <3>1
    <3>3. n \in ValidNames /\ commits[n] \in Nat /\ commits[n] > 0
      BY <1>6, <1>7, <3>2
    <3>4. commits[n] \in 1 .. commits[n]
      BY <3>3
    <3>5. QED
      BY <3>1, <3>2, <3>3, <3>4
  <2>4. QED
    BY <2>2, <2>3
<1>14. CommitsCounted'
  <2>1. SUFFICES ASSUME NEW q \in Requests
                 PROVE  /\ request[q].state \in {"committed", "applied"} =>
                             request[q].commit \in 1 .. commits[request[q].manifest.name]
                        /\ request[q].state = "committed"
                             /\ request[q].manifest.name \in DOMAIN snapshot'[request[q].process] =>
                             snapshot'[request[q].process][request[q].manifest.name].commit
                               < request[q].commit
    BY <1>2 DEF CommitsCounted
  <2>2. request[q].state = "committed" => snapshot'[request[q].process] = snapshot[request[q].process]
    BY <1>3, <1>8 DEF Working
  <2>3. QED
    BY <1>1, <2>2 DEF CommitsCounted
<1>15. AnsweredVisible'
  <2>1. SUFFICES ASSUME NEW q \in Requests, request[q].state = "applied",
                        snapshot'[request[q].process] # None
                 PROVE  /\ request[q].manifest.name \in DOMAIN snapshot'[request[q].process]
                        /\ snapshot'[request[q].process][request[q].manifest.name].commit
                             >= request[q].commit
    BY <1>2 DEF AnsweredVisible
  <2>2. /\ request[q].process \in Processes /\ request[q].manifest.name \in ValidNames
        /\ request[q].commit \in 1 .. commits[request[q].manifest.name]
    BY <1>1, <2>1 DEF CatalogTypeOK, CommitsCounted
  <2>3. CASE request[q].process # p
    <3>1. snapshot'[request[q].process] = snapshot[request[q].process]
      BY <1>3, <2>2, <2>3
    <3>2. QED
      BY <1>1, <2>1, <3>1 DEF AnsweredVisible
  <2>4. CASE request[q].process = p
    <3>1. snapshot'[request[q].process] = loaded
      BY <1>3, <2>4
    <3>2. /\ commits[request[q].manifest.name] > 0
          /\ commits[request[q].manifest.name] >= request[q].commit
      BY <1>7, <2>2
    <3>3. request[q].manifest.name \in names
      BY <1>6, <2>2, <3>2
    <3>4. QED
      BY <1>5, <3>1, <3>2, <3>3
  <2>5. QED
    BY <2>3, <2>4
<1>16. QED
  BY <1>9, <1>10, <1>11, <1>12, <1>13, <1>14, <1>15 DEF VisibilityInvariant

\* An empty catalog.
LEMMA InitVisibility ==
    ASSUME Init
    PROVE  VisibilityInvariant
<1>1. \A r \in Requests : request[r].state = "idle"
  BY DEF Init, Idle
<1>2. CatalogTypeOK
  BY <1>1 DEF Init, CatalogTypeOK, Working, Settled
<1>3. rows.sources = {}
  BY DEF Init, NoRows
<1>4. RowsNamed
  BY <1>3 DEF Init, RowsNamed
<1>5. PlansNamed /\ GatesHeld /\ CommitsCounted /\ AnsweredVisible
  BY <1>1 DEF PlansNamed, GatesHeld, CommitsCounted, AnsweredVisible, Working
<1>6. SnapshotsBehind
  BY DEF Init, SnapshotsBehind
<1>7. QED
  BY <1>2, <1>4, <1>5, <1>6 DEF VisibilityInvariant

\* Every step keeps the invariant.
LEMMA VisibilityStep ==
    ASSUME VisibilityInvariant, [Next]_vars
    PROVE  VisibilityInvariant'
<1>1. ASSUME NEW r \in Requests, Step(r)
      PROVE  VisibilityInvariant'
  BY <1>1, PlanStep, CommitStep, MergeStep DEF Step
<1>2. ASSUME NEW r \in Requests, Unavailable(r)
      PROVE  VisibilityInvariant'
  <2>1. Working(r) /\ plans' \in Nat /\ plans <= plans'
    BY <1>2, StateTypes DEF Unavailable, Working
  <2>2. QED
    BY <1>2, <2>1, RefuseStep DEF Unavailable
<1>3. ASSUME NEW r \in Requests, NEW p \in offered.processes, NEW manifest, Submit(r, p, manifest)
      PROVE  VisibilityInvariant'
  BY <1>3, SubmitStep, StateTypes
<1>4. ASSUME NEW p \in offered.processes, Crash(p) \/ Load(p) \/ Admit(p)
      PROVE  VisibilityInvariant'
  <2>1. p \in Processes
    BY <1>4, StateTypes
  <2>2. CASE Admit(p)
    BY <2>2, IdleStep DEF Admit
  <2>3. QED
    BY <1>4, <2>1, <2>2, CrashStep, LoadStep
<1>5. CASE UNCHANGED vars
  BY <1>5, IdleStep DEF vars
<1>6. QED
  BY <1>1, <1>2, <1>3, <1>4, <1>5, DisconnectStep DEF Next

\* The inductive invariant of the catalog, for any processes, requests, documents and
\* bounds: rows and plans keep identities and names together, the gate of a process is
\* held by the one application it runs, and a snapshot is behind the commit that its
\* process has still to merge.
THEOREM VisibilityInvariantCorrect == Spec => []VisibilityInvariant
<1>1. Init => VisibilityInvariant
  BY InitVisibility
<1>2. VisibilityInvariant /\ [Next]_vars => VisibilityInvariant'
  BY VisibilityStep
<1>3. QED
  BY <1>1, <1>2, PTL DEF Spec

\* An application that was answered is in the snapshot of the process that answered it
\* for as long as that process is up, and again after a restart, at its commit or a later
\* one, whatever other processes commit meanwhile (PostgresCatalog::apply, load).
THEOREM AnswersStayVisible == Spec => []AnsweredVisible
<1>1. VisibilityInvariant => AnsweredVisible
  BY DEF VisibilityInvariant
<1>2. QED
  BY <1>1, VisibilityInvariantCorrect, PTL
=============================================================================
