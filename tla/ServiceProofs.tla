--------------------------- MODULE ServiceProofs ----------------------------
(***************************************************************************)
(* At most one compaction run is ever unfinished, for any number of        *)
(* processes, runs and faults; and an orderly exit leaves nothing unsettled, *)
(* for any number of requests and queries.                                 *)
(***************************************************************************)
EXTENDS Service, FiniteSetTheorems, SequenceTheorems, TLAPS

\* Most leaves are first-order and set reasoning, which Zenon does at once; SMT
\* does the arithmetic.
USE ZenonT(3), SMTT(20)

(* The maintenance loops.                                                  *)

SessionState == {"none", "live", "closing", "dead"}
RunState == {"BUILDING", "UPLOADING", "COMMITTED", "FAILED"}
LoopState == {"stopped", "acquire", "recover", "cycle", "build", "upload", "publish", "fail", "sweep", "ended"}

\* The loops that work on a run.
OnRun == {"build", "upload", "publish", "fail"}

LoopTypes ==
    /\ session \in [Processes -> SessionState]
    /\ loop \in [Processes -> LoopState]
    /\ runs \in Seq(RunState)
    /\ current \in [Processes -> Nat \cup {None}]

\* A loop that works on a run knows it.
RunsKnown == \A p \in Processes : loop[p] \in OnRun => current[p] \in DOMAIN runs

\* The advisory lock has one holder.
LockExclusive ==
    \A p, q \in Processes : session[p] = "live" /\ session[q] \in {"live", "closing"} => p = q

\* What may be unfinished while a process holds a live session: nothing between two runs, and its
\* own run otherwise.
OwnerAccountable ==
    \A p \in Processes : session[p] = "live" =>
        /\ loop[p] \in {"cycle", "sweep"} => Unfinished = {}
        /\ loop[p] \in OnRun => Unfinished \subseteq {current[p]}

OneUnfinished == \A r, s \in Unfinished : r = s

OwnershipInvariant ==
    /\ LoopTypes
    /\ RunsKnown
    /\ LockExclusive
    /\ OwnerAccountable
    /\ OneUnfinished

-----------------------------------------------------------------------------
(* What a transaction does to the unfinished runs.                         *)

\* The runs are numbered from one, each with a state (compaction_runs).
LEMMA RunsTyped ==
    ASSUME LoopTypes
    PROVE  /\ Len(runs) \in Nat
           /\ DOMAIN runs = 1 .. Len(runs)
           /\ \A r \in DOMAIN runs : runs[r] \in RunState
           /\ Unfinished \subseteq DOMAIN runs
BY LenProperties, ElementOfSeq DEF LoopTypes, Unfinished

\* Changing the state of one run, as registration, publication and failure do, adds no other run to
\* the unfinished ones, and removes this one when the new state is terminal.
LEMMA RunUpdated ==
    ASSUME LoopTypes, NEW r \in DOMAIN runs, NEW v \in RunState,
           runs' = [runs EXCEPT ![r] = v],
           v = "UPLOADING" => runs[r] = "BUILDING",
           v # "BUILDING"
    PROVE  /\ runs' \in Seq(RunState)
           /\ DOMAIN runs' = DOMAIN runs
           /\ Unfinished' \subseteq Unfinished
           /\ v # "UPLOADING" => Unfinished' = Unfinished \ {r}
<1>1. r \in 1 .. Len(runs)
  BY RunsTyped
<1>2. /\ runs' \in Seq(RunState)
      /\ Len(runs') = Len(runs)
      /\ \A j \in 1 .. Len(runs) : runs'[j] = IF j = r THEN v ELSE runs[j]
  BY <1>1, ExceptSeq DEF LoopTypes
<1>3. DOMAIN runs' = 1 .. Len(runs) /\ DOMAIN runs = 1 .. Len(runs)
  BY <1>2, LenProperties, RunsTyped
<1>4. v \in {"UPLOADING", "COMMITTED", "FAILED"}
  BY DEF RunState
<1> QED
  BY <1>1, <1>2, <1>3, <1>4 DEF Unfinished

\* recover_unfinished fails every run it selects and leaves the others as they are.
LEMMA RunsRecovered ==
    ASSUME LoopTypes, NEW C \in SUBSET Unfinished,
           runs' = [r \in DOMAIN runs |-> IF r \in C THEN "FAILED" ELSE runs[r]]
    PROVE  /\ runs' \in Seq(RunState)
           /\ DOMAIN runs' = DOMAIN runs
           /\ Unfinished' = Unfinished \ C
<1>1. /\ Len(runs) \in Nat /\ DOMAIN runs = 1 .. Len(runs)
      /\ \A r \in DOMAIN runs : runs[r] \in RunState
  BY RunsTyped
<1>2. runs' \in [1 .. Len(runs) -> RunState]
  BY <1>1 DEF RunState
<1>3. runs' \in Seq(RunState)
  BY <1>1, <1>2, SeqDef
<1> QED
  BY <1>1, <1>2, <1>3 DEF Unfinished

\* A claim adds one run, after all the others.
LEMMA RunClaimed ==
    ASSUME LoopTypes, runs' = Append(runs, "BUILDING")
    PROVE  /\ runs' \in Seq(RunState)
           /\ DOMAIN runs' = 1 .. Len(runs) + 1
           /\ Unfinished' = Unfinished \cup {Len(runs) + 1}
<1>1. /\ Len(runs) \in Nat /\ DOMAIN runs = 1 .. Len(runs)
      /\ \A r \in DOMAIN runs : runs[r] \in RunState
  BY RunsTyped
<1>2. "BUILDING" \in RunState
  BY DEF RunState
<1>3. /\ runs' \in Seq(RunState)
      /\ Len(runs') = Len(runs) + 1
      /\ \A i \in 1 .. Len(runs) : runs'[i] = runs[i]
      /\ runs'[Len(runs) + 1] = "BUILDING"
  BY <1>2, AppendProperties DEF LoopTypes
<1>4. DOMAIN runs' = 1 .. Len(runs) + 1
  BY <1>3, LenProperties, SMTT(20)
<1> QED
  BY <1>1, <1>3, <1>4 DEF Unfinished

-----------------------------------------------------------------------------
(* The steps that leave compaction_runs alone.                             *)

\* The steps of one loop in which no transaction changes a run: a live session is never given to a
\* second process, and a loop comes to its sweep or its next cycle only from there.
LEMMA RunsUntouched ==
    ASSUME OwnershipInvariant, NEW p \in Processes,
           \/ HeldElsewhere(p)
           \/ AcquireUnavailable(p)
           \/ TryAcquire(p)
           \/ NoClaim(p)
           \/ ClaimUnavailable(p)
           \/ ClaimConflict(p)
           \/ Upload(p)
           \/ UploadFails(p)
           \/ PublishRejected(p)
           \/ Sweep(p)
           \/ CycleTimedOut(p)
           \/ StartLoop(p)
           \/ StopLoop(p)
           \/ ReleaseLock(p)
           \/ SessionLost(p)
    PROVE  OwnershipInvariant'
<1> USE DEF OwnershipInvariant, LoopTypes, RunsKnown, LockExclusive, OwnerAccountable, OneUnfinished,
            OnRun, SessionState, LoopState
<1>1. CASE HeldElsewhere(p)
  <2>1. runs' = runs /\ Unfinished' = Unfinished
    BY <1>1 DEF HeldElsewhere, Unfinished
  <2> QED
    BY <1>1, <2>1 DEF HeldElsewhere
<1>2. CASE AcquireUnavailable(p)
  <2>1. runs' = runs /\ Unfinished' = Unfinished
    BY <1>2 DEF AcquireUnavailable, Unfinished, Retry
  <2> QED
    BY <1>2, <2>1 DEF AcquireUnavailable, Retry
<1>3. CASE TryAcquire(p)
  <2>1. runs' = runs /\ Unfinished' = Unfinished
    BY <1>3 DEF TryAcquire, Unfinished, LockFree
  <2> QED
    BY <1>3, <2>1 DEF TryAcquire, LockFree
<1>4. CASE NoClaim(p)
  <2>1. runs' = runs /\ Unfinished' = Unfinished
    BY <1>4 DEF NoClaim, Unfinished
  <2> QED
    BY <1>4, <2>1 DEF NoClaim
<1>5. CASE ClaimUnavailable(p)
  <2>1. runs' = runs /\ Unfinished' = Unfinished
    BY <1>5 DEF ClaimUnavailable, Unfinished, LoseOwner, DropOwner, Retry
  <2> QED
    BY <1>5, <2>1 DEF ClaimUnavailable, LoseOwner, DropOwner, Retry
<1>6. CASE ClaimConflict(p)
  <2>1. runs' = runs /\ Unfinished' = Unfinished
    BY <1>6 DEF ClaimConflict, Unfinished
  <2> QED
    BY <1>6, <2>1 DEF ClaimConflict
<1>7. CASE Upload(p)
  <2>1. runs' = runs /\ Unfinished' = Unfinished
    BY <1>7 DEF Upload, Unfinished
  <2> QED
    BY <1>7, <2>1 DEF Upload
<1>8. CASE UploadFails(p)
  <2>1. runs' = runs /\ Unfinished' = Unfinished
    BY <1>8 DEF UploadFails, Unfinished
  <2> QED
    BY <1>8, <2>1 DEF UploadFails
<1>9. CASE PublishRejected(p)
  <2>1. runs' = runs /\ Unfinished' = Unfinished
    BY <1>9 DEF PublishRejected, Unfinished
  <2> QED
    BY <1>9, <2>1 DEF PublishRejected
<1>10. CASE Sweep(p)
  <2>1. runs' = runs /\ Unfinished' = Unfinished
    BY <1>10 DEF Sweep, Unfinished
  <2> QED
    BY <1>10, <2>1 DEF Sweep
<1>11. CASE CycleTimedOut(p)
  <2>1. runs' = runs /\ Unfinished' = Unfinished
    BY <1>11 DEF CycleTimedOut, Unfinished, LoseOwner, DropOwner, Retry
  <2> QED
    BY <1>11, <2>1 DEF CycleTimedOut, LoseOwner, DropOwner, Retry
<1>12. CASE StartLoop(p)
  <2>1. runs' = runs /\ Unfinished' = Unfinished
    BY <1>12 DEF StartLoop, Unfinished
  <2> QED
    BY <1>12, <2>1 DEF StartLoop
<1>13. CASE StopLoop(p)
  <2>1. runs' = runs /\ Unfinished' = Unfinished
    BY <1>13 DEF StopLoop, Unfinished, DropOwner
  <2> QED
    BY <1>13, <2>1 DEF StopLoop, DropOwner
<1>14. CASE ReleaseLock(p)
  <2>1. runs' = runs /\ Unfinished' = Unfinished
    BY <1>14 DEF ReleaseLock, Unfinished, loopVars
  <2> QED
    BY <1>14, <2>1 DEF ReleaseLock, loopVars
<1>15. CASE SessionLost(p)
  <2>1. runs' = runs /\ Unfinished' = Unfinished
    BY <1>15 DEF SessionLost, Unfinished, loopVars
  <2> QED
    BY <1>15, <2>1 DEF SessionLost, loopVars
<1> QED
  BY <1>1, <1>2, <1>3, <1>4, <1>5, <1>6, <1>7, <1>8, <1>9, <1>10, <1>11, <1>12, <1>13, <1>14, <1>15

-----------------------------------------------------------------------------
(* The steps with a transaction on a run.                                  *)

\* An answer that arrives says that the transaction was applied, on a live session.
LEMMA AnswerMeansApplied ==
    ASSUME NEW p \in Processes, NEW commit \in Commits(p)
    PROVE  /\ commit.applied \in BOOLEAN /\ commit.answered \in BOOLEAN
           /\ commit.answered => commit.applied
           /\ commit.applied => session[p] = "live"
<1>1. CASE ~Usable(p)
  <2>1. commit = [applied |-> FALSE, answered |-> FALSE, inspected |-> FALSE]
    BY <1>1 DEF Commits
  <2> QED
    BY <2>1
<1>2. CASE Usable(p)
  <2>1. session[p] = "live"
    BY <1>2 DEF Usable
  <2>2. \/ commit = [applied |-> TRUE, answered |-> TRUE, inspected |-> FALSE]
        \/ commit \in [applied : BOOLEAN, answered : {FALSE}, inspected : BOOLEAN]
    BY <1>2 DEF Commits
  <2>3. CASE commit = [applied |-> TRUE, answered |-> TRUE, inspected |-> FALSE]
    BY <2>1, <2>3
  <2>4. CASE commit \in [applied : BOOLEAN, answered : {FALSE}, inspected : BOOLEAN]
    <3>1. commit.applied \in BOOLEAN
      BY <2>4
    <3>2. commit.answered = FALSE
      BY <2>4
    <3> QED
      BY <2>1, <3>1, <3>2, Zenon
  <2> QED
    BY <2>2, <2>3, <2>4, Zenon
<1> QED
  BY <1>1, <1>2

\* The owner's session after a transaction: as it was when the answer arrived, and not live when
\* the answer was lost.
LEMMA SessionAfter ==
    ASSUME LoopTypes, NEW p \in Processes, NEW commit \in Commits(p), AfterCommit(p, commit)
    PROVE  /\ session' \in [Processes -> SessionState]
           /\ \A q \in Processes : session'[q] \in {session[q], "dead"}
           /\ commit.applied /\ ~commit.answered => session'[p] # "live"
BY AnswerMeansApplied DEF AfterCommit, LoopTypes, SessionState, Commits, Usable

\* Registration: the run stays unfinished.
LEMMA RegisterStep ==
    ASSUME OwnershipInvariant, NEW p \in Processes, Register(p)
    PROVE  OwnershipInvariant'
<1>1. /\ runs' \in Seq(RunState) /\ DOMAIN runs' = DOMAIN runs
      /\ Unfinished' \subseteq Unfinished
  <2>1. CASE runs' = runs
    BY <2>1 DEF OwnershipInvariant, LoopTypes, Unfinished
  <2>2. CASE runs' # runs
    <3>1. /\ loop[p] = "build" /\ runs[current[p]] = "BUILDING"
          /\ runs' = [runs EXCEPT ![current[p]] = "UPLOADING"]
      BY <2>2 DEF Register
    <3>2. current[p] \in DOMAIN runs /\ "UPLOADING" \in RunState
      BY <3>1 DEF OwnershipInvariant, RunsKnown, OnRun, RunState
    <3> QED
      BY <3>1, <3>2, RunUpdated DEF OwnershipInvariant
  <2> QED
    BY <2>1, <2>2
<1> QED
  BY <1>1 DEF Register, OwnershipInvariant, LoopTypes, RunsKnown, LockExclusive, OwnerAccountable,
              OneUnfinished, OnRun, LoopState

\* Publication: the run of a live owner is the only one, and is not unfinished afterwards.
LEMMA PublishStep ==
    ASSUME OwnershipInvariant, NEW p \in Processes, Publish(p)
    PROVE  OwnershipInvariant'
<1> PICK commit \in Commits(p) :
       /\ runs' = IF commit.applied /\ runs[current[p]] = "UPLOADING"
                  THEN [runs EXCEPT ![current[p]] = "COMMITTED"] ELSE runs
       /\ AfterCommit(p, commit)
       /\ IF Resolved(commit) /\ runs'[current[p]] = "COMMITTED"
          THEN /\ loop' = [loop EXCEPT ![p] = "sweep"]
               /\ current' = [current EXCEPT ![p] = None]
          ELSE /\ loop' = [loop EXCEPT ![p] = "fail"]
               /\ UNCHANGED current
  BY DEF Publish
<1>1. loop[p] = "publish" /\ current[p] \in DOMAIN runs
  BY DEF Publish, OwnershipInvariant, RunsKnown, OnRun
<1>2. /\ runs' \in Seq(RunState) /\ DOMAIN runs' = DOMAIN runs
      /\ Unfinished' \subseteq Unfinished
  <2>1. CASE commit.applied /\ runs[current[p]] = "UPLOADING"
    BY <1>1, <2>1, RunUpdated DEF OwnershipInvariant, RunState
  <2>2. CASE ~(commit.applied /\ runs[current[p]] = "UPLOADING")
    BY <2>2 DEF OwnershipInvariant, LoopTypes, Unfinished
  <2> QED
    BY <2>1, <2>2
<1>3. /\ session' \in [Processes -> SessionState]
      /\ \A q \in Processes : session'[q] \in {session[q], "dead"}
  BY SessionAfter DEF OwnershipInvariant
<1>4. loop'[p] = "sweep" /\ session'[p] = "live" => Unfinished' = {}
  <2>1. SUFFICES ASSUME loop'[p] = "sweep", session'[p] = "live"
                 PROVE  Unfinished' = {}
    OBVIOUS
  <2>2. session[p] = "live" /\ Unfinished \subseteq {current[p]}
    BY <1>1, <1>3, <2>1 DEF OwnershipInvariant, OwnerAccountable, OnRun
  <2>3. runs'[current[p]] = "COMMITTED"
    BY <2>1 DEF OwnershipInvariant, LoopTypes
  <2>4. current[p] \notin Unfinished'
    BY <2>3 DEF Unfinished
  <2> QED
    BY <1>2, <2>2, <2>4
<1>5. /\ loop' \in [Processes -> LoopState] /\ loop'[p] \in {"sweep", "fail"}
      /\ \A q \in Processes \ {p} : loop'[q] = loop[q]
      /\ current' \in [Processes -> Nat \cup {None}]
      /\ \A q \in Processes \ {p} : current'[q] = current[q]
      /\ loop'[p] = "fail" => current'[p] = current[p]
  <2>1. loop \in [Processes -> LoopState] /\ current \in [Processes -> Nat \cup {None}]
    BY DEF OwnershipInvariant, LoopTypes
  <2>2. CASE Resolved(commit) /\ runs'[current[p]] = "COMMITTED"
    BY <2>1, <2>2 DEF LoopState
  <2>3. CASE ~(Resolved(commit) /\ runs'[current[p]] = "COMMITTED")
    BY <2>1, <2>3 DEF LoopState
  <2> QED
    BY <2>2, <2>3
<1> HIDE DEF Resolved, AfterCommit
<1> QED
  BY <1>1, <1>2, <1>3, <1>4, <1>5
  DEF OwnershipInvariant, LoopTypes, RunsKnown, LockExclusive, OwnerAccountable, OneUnfinished,
      OnRun, SessionState

\* The session of a guard that is given up is not live, and no other session changes.
LEMMA OwnerDropped ==
    ASSUME LoopTypes, NEW p \in Processes, DropOwner(p)
    PROVE  /\ session' \in [Processes -> SessionState]
           /\ session'[p] # "live"
           /\ session'[p] = "closing" => session[p] = "live"
           /\ \A q \in Processes \ {p} : session'[q] = session[q]
BY DEF DropOwner, LoopTypes, SessionState

\* A loop that retries works on no run.
LEMMA LoopRetried ==
    ASSUME LoopTypes, NEW p \in Processes, Retry(p)
    PROVE  /\ loop' \in [Processes -> LoopState] /\ loop'[p] \in {"acquire", "ended"}
           /\ current' \in [Processes -> Nat \cup {None}]
           /\ \A q \in Processes \ {p} : loop'[q] = loop[q] /\ current'[q] = current[q]
BY DEF Retry, LoopTypes, LoopState

\* A lost owner leaves its run to the next one, whatever the transaction did to it.
LEMMA OwnerLost ==
    ASSUME OwnershipInvariant, NEW p \in Processes, DropOwner(p), Retry(p),
           runs' \in Seq(RunState), DOMAIN runs \subseteq DOMAIN runs', OneUnfinished',
           session[p] = "live" \/ Unfinished' \subseteq Unfinished
    PROVE  OwnershipInvariant'
<1>1. LoopTypes
  BY DEF OwnershipInvariant
<1>2. /\ session' \in [Processes -> SessionState]
      /\ session'[p] # "live"
      /\ session'[p] = "closing" => session[p] = "live"
      /\ \A q \in Processes \ {p} : session'[q] = session[q]
  BY <1>1, OwnerDropped
<1>3. /\ loop' \in [Processes -> LoopState] /\ loop'[p] \in {"acquire", "ended"}
      /\ current' \in [Processes -> Nat \cup {None}]
      /\ \A q \in Processes \ {p} : loop'[q] = loop[q] /\ current'[q] = current[q]
  BY <1>1, LoopRetried
<1>4. LoopTypes' /\ RunsKnown'
  BY <1>2, <1>3 DEF OwnershipInvariant, LoopTypes, RunsKnown, OnRun
<1>5. LockExclusive'
  BY <1>2 DEF OwnershipInvariant, LockExclusive
<1>6. OwnerAccountable'
  BY <1>2, <1>3 DEF OwnershipInvariant, OwnerAccountable, LockExclusive, OnRun
<1> QED
  BY <1>4, <1>5, <1>6 DEF OwnershipInvariant

\* A claim comes from a live owner between two cycles, behind which no run is unfinished.
LEMMA ClaimStep ==
    ASSUME OwnershipInvariant, NEW p \in Processes, Claim(p)
    PROVE  OwnershipInvariant'
<1> PICK commit \in Commits(p) :
       /\ runs' = IF commit.applied THEN Append(runs, "BUILDING") ELSE runs
       /\ IF commit.answered
          THEN /\ loop' = [loop EXCEPT ![p] = "build"]
               /\ current' = [current EXCEPT ![p] = Len(runs) + 1]
               /\ UNCHANGED <<session, starting, boundary, scheduling, recovered, faults>>
          ELSE /\ LoseOwner(p)
               /\ faults' = faults + (IF Usable(p) THEN 1 ELSE 0)
  BY DEF Claim
<1>1. loop[p] = "cycle" /\ LoopTypes
  BY DEF Claim, OwnershipInvariant
<1>2. /\ commit.answered => commit.applied
      /\ commit.applied => session[p] = "live"
  BY AnswerMeansApplied
<1>3. commit.applied => Unfinished = {}
  BY <1>1, <1>2 DEF OwnershipInvariant, OwnerAccountable
<1>4. /\ Len(runs) \in Nat /\ DOMAIN runs = 1 .. Len(runs)
  BY <1>1, RunsTyped
<1>5. CASE commit.answered
  <2>1. /\ runs' \in Seq(RunState) /\ DOMAIN runs' = 1 .. Len(runs) + 1
        /\ Unfinished' = {Len(runs) + 1}
    BY <1>1, <1>2, <1>3, <1>5, RunClaimed
  <2>2. /\ loop' = [loop EXCEPT ![p] = "build"] /\ session' = session
        /\ current' = [current EXCEPT ![p] = Len(runs) + 1]
    BY <1>5
  <2>3. session[p] = "live"
    BY <1>2, <1>5
  <2> QED
    BY <1>1, <1>4, <2>1, <2>2, <2>3
    DEF OwnershipInvariant, LoopTypes, RunsKnown, LockExclusive, OwnerAccountable, OneUnfinished,
        OnRun, LoopState
<1>6. CASE ~commit.answered
  <2>1. DropOwner(p) /\ Retry(p)
    BY <1>6 DEF LoseOwner
  <2>2. CASE commit.applied
    <3>1. /\ runs' \in Seq(RunState) /\ DOMAIN runs' = 1 .. Len(runs) + 1
          /\ Unfinished' = {Len(runs) + 1}
      BY <1>1, <1>3, <2>2, RunClaimed
    <3>2. DOMAIN runs \subseteq DOMAIN runs' /\ OneUnfinished'
      BY <1>4, <3>1 DEF OneUnfinished
    <3> QED
      BY <1>2, <2>1, <2>2, <3>1, <3>2, OwnerLost
  <2>3. CASE ~commit.applied
    <3>1. runs' = runs /\ Unfinished' = Unfinished
      BY <2>3 DEF Unfinished
    <3>2. runs' \in Seq(RunState) /\ OneUnfinished'
      BY <1>1, <3>1 DEF OwnershipInvariant, OneUnfinished, LoopTypes
    <3> QED
      BY <2>1, <3>1, <3>2, OwnerLost
  <2> QED
    BY <2>2, <2>3
<1> QED
  BY <1>5, <1>6

\* fail_run leaves no unfinished run behind a live owner.
LEMMA FailRunStep ==
    ASSUME OwnershipInvariant, NEW p \in Processes, FailRun(p)
    PROVE  OwnershipInvariant'
<1> PICK commit \in Commits(p) :
       /\ runs' = IF commit.applied /\ current[p] \in Unfinished
                  THEN [runs EXCEPT ![current[p]] = "FAILED"] ELSE runs
       /\ IF commit.answered \/ (commit.inspected /\ runs'[current[p]] \in {"COMMITTED", "FAILED"})
          THEN /\ AfterCommit(p, commit)
               /\ scheduling' = [scheduling EXCEPT ![p] = "Suspended"]
               /\ loop' = [loop EXCEPT ![p] = "sweep"]
               /\ current' = [current EXCEPT ![p] = None]
               /\ UNCHANGED <<starting, boundary, recovered>>
          ELSE /\ LoseOwner(p)
               /\ faults' = faults + (IF Usable(p) THEN 1 ELSE 0)
  BY DEF FailRun
<1>1. loop[p] = "fail" /\ current[p] \in DOMAIN runs /\ LoopTypes
  BY DEF FailRun, OwnershipInvariant, RunsKnown, OnRun
<1>2. /\ commit.answered => commit.applied
      /\ commit.applied => session[p] = "live"
  BY AnswerMeansApplied
<1>3. /\ runs' \in Seq(RunState) /\ DOMAIN runs' = DOMAIN runs
      /\ Unfinished' \subseteq Unfinished
      /\ commit.applied => current[p] \notin Unfinished'
  <2>1. CASE commit.applied /\ current[p] \in Unfinished
    BY <1>1, <2>1, RunUpdated DEF RunState
  <2>2. CASE ~(commit.applied /\ current[p] \in Unfinished)
    <3>1. runs' = runs /\ Unfinished' = Unfinished
      BY <2>2 DEF Unfinished
    <3> QED
      BY <1>1, <2>2, <3>1 DEF LoopTypes
  <2> QED
    BY <2>1, <2>2
<1>4. CASE commit.answered \/ (commit.inspected /\ runs'[current[p]] \in {"COMMITTED", "FAILED"})
  <2>1. /\ AfterCommit(p, commit)
        /\ loop' = [loop EXCEPT ![p] = "sweep"]
        /\ current' = [current EXCEPT ![p] = None]
    BY <1>4
  <2>2. /\ session' \in [Processes -> SessionState]
        /\ \A q \in Processes : session'[q] \in {session[q], "dead"}
    BY <1>1, <2>1, SessionAfter
  <2>3. current[p] \notin Unfinished'
    <3>1. CASE commit.answered
      BY <1>2, <1>3, <3>1
    <3>2. CASE runs'[current[p]] \in {"COMMITTED", "FAILED"}
      BY <3>2 DEF Unfinished
    <3> QED
      BY <1>4, <3>1, <3>2
  <2>4. session'[p] = "live" => Unfinished' = {}
    BY <1>1, <1>3, <2>2, <2>3 DEF OwnershipInvariant, OwnerAccountable, OnRun
  <2>5. /\ \A q \in Processes \ {p} : loop'[q] = loop[q] /\ current'[q] = current[q]
        /\ loop'[p] = "sweep"
    BY <1>1, <2>1 DEF LoopTypes
  <2>6. LoopTypes'
    BY <1>1, <1>3, <2>1, <2>2 DEF LoopTypes, LoopState
  <2>7. RunsKnown'
    BY <1>3, <2>5 DEF OwnershipInvariant, RunsKnown, OnRun
  <2>8. LockExclusive'
    BY <2>2 DEF OwnershipInvariant, LockExclusive
  <2>9. OwnerAccountable'
    BY <1>3, <2>2, <2>4, <2>5 DEF OwnershipInvariant, OwnerAccountable, OnRun
  <2> QED
    BY <1>3, <2>6, <2>7, <2>8, <2>9 DEF OwnershipInvariant, OneUnfinished
<1>5. CASE ~(commit.answered \/ (commit.inspected /\ runs'[current[p]] \in {"COMMITTED", "FAILED"}))
  <2>1. DropOwner(p) /\ Retry(p)
    BY <1>5 DEF LoseOwner
  <2>2. OneUnfinished'
    BY <1>3 DEF OwnershipInvariant, OneUnfinished
  <2> QED
    BY <1>3, <2>1, <2>2, OwnerLost
<1> QED
  BY <1>4, <1>5

\* With one unfinished run at most, a batch of recover_unfinished takes whatever is unfinished.
LEMMA RecoveryTakesAll ==
    ASSUME LoopTypes, OneUnfinished
    PROVE  RecoveryCandidates = Unfinished
<1>1. Unfinished \subseteq Nat
  BY RunsTyped
<1>2. \A r \in Unfinished : {s \in Unfinished : s < r} = {}
  <2>1. \A r, s \in Unfinished : ~(s < r)
    BY <1>1 DEF OneUnfinished
  <2> QED
    BY <2>1
<1>3. Cardinality({}) = 0 /\ RecoveryRuns \in Nat \ {0}
  BY FS_EmptySet, MaintenanceBounds
<1> HIDE DEF Unfinished
<1>4. \A r \in Unfinished : Cardinality({s \in Unfinished : s < r}) < RecoveryRuns
  BY <1>2, <1>3
<1> QED
  BY <1>4 DEF RecoveryCandidates

\* Recovery: a process becomes the owner only when nothing is unfinished any more.
LEMMA RecoverStep ==
    ASSUME OwnershipInvariant, NEW p \in Processes, Recover(p)
    PROVE  OwnershipInvariant'
<1> PICK commit \in Commits(p) :
       /\ runs' = IF commit.applied
                  THEN [r \in DOMAIN runs |-> IF r \in RecoveryCandidates THEN "FAILED" ELSE runs[r]]
                  ELSE runs
       /\ IF Resolved(commit) \/ (commit.inspected /\ RecoveryCandidates = {})
          THEN /\ AfterCommit(p, commit)
               /\ IF Cardinality(RecoveryCandidates) < RecoveryRuns THEN Owned(p) ELSE NextRecovery(p)
          ELSE /\ DropOwner(p)
               /\ faults' = faults + (IF Usable(p) THEN 1 ELSE 0)
               /\ Retry(p)
  BY DEF Recover
<1>1. loop[p] = "recover" /\ LoopTypes /\ RecoveryCandidates = Unfinished
  BY RecoveryTakesAll DEF Recover, OwnershipInvariant
<1>2. commit.answered => commit.applied
  BY AnswerMeansApplied
<1>3. /\ runs' \in Seq(RunState) /\ DOMAIN runs' = DOMAIN runs
      /\ Unfinished' \subseteq Unfinished
      /\ commit.applied => Unfinished' = {}
  <2>1. CASE commit.applied
    <3>1. runs' = [r \in DOMAIN runs |-> IF r \in Unfinished THEN "FAILED" ELSE runs[r]]
      BY <1>1, <2>1
    <3>2. /\ runs' \in Seq(RunState) /\ DOMAIN runs' = DOMAIN runs
          /\ Unfinished' = Unfinished \ Unfinished
      BY <1>1, <3>1, RunsRecovered
    <3> QED
      BY <3>2
  <2>2. CASE ~commit.applied
    <3>1. runs' = runs /\ Unfinished' = Unfinished
      BY <2>2 DEF Unfinished
    <3> QED
      BY <1>1, <2>2, <3>1 DEF LoopTypes
  <2> QED
    BY <2>1, <2>2
<1>4. OneUnfinished'
  BY <1>3 DEF OwnershipInvariant, OneUnfinished
<1>5. CASE Resolved(commit) \/ (commit.inspected /\ RecoveryCandidates = {})
  <2>1. /\ AfterCommit(p, commit)
        /\ Owned(p) \/ NextRecovery(p)
    BY <1>5
  <2>2. Unfinished' = {}
    BY <1>1, <1>2, <1>3, <1>5 DEF Resolved
  <2>3. /\ session' \in [Processes -> SessionState]
        /\ \A q \in Processes : session'[q] \in {session[q], "dead"}
    BY <1>1, <2>1, SessionAfter
  <2>4. /\ loop' \in [Processes -> LoopState] /\ loop'[p] \in {"cycle", "recover", "ended"}
        /\ \A q \in Processes \ {p} : loop'[q] = loop[q]
        /\ current' = current
    BY <1>1, <2>1 DEF Owned, NextRecovery, LoopTypes, LoopState
  <2> QED
    BY <1>1, <1>3, <1>4, <2>2, <2>3, <2>4
    DEF OwnershipInvariant, LoopTypes, RunsKnown, LockExclusive, OwnerAccountable, OnRun
<1>6. CASE ~(Resolved(commit) \/ (commit.inspected /\ RecoveryCandidates = {}))
  BY <1>3, <1>4, <1>6, OwnerLost
<1> QED
  BY <1>5, <1>6

-----------------------------------------------------------------------------
(* The theorem.                                                            *)

\* Before any loop runs there is no run and no owner.
LEMMA OwnershipInitially ==
    ASSUME MaintenanceInit
    PROVE  OwnershipInvariant
<1>1. runs \in Seq(RunState) /\ Unfinished = {}
  BY EmptySeq DEF MaintenanceInit, Unfinished
<1> QED
  BY <1>1 DEF MaintenanceInit, OwnershipInvariant, LoopTypes, RunsKnown, LockExclusive, OwnerAccountable,
              OneUnfinished, OnRun, SessionState, LoopState

\* Every step of the loops and of their environment keeps the invariant.
LEMMA OwnershipPreserved ==
    ASSUME OwnershipInvariant, [MaintenanceNext]_maintenanceVars
    PROVE  OwnershipInvariant'
<1>1. CASE Outage \/ Restored \/ UNCHANGED maintenanceVars
  <2>1. UNCHANGED <<session, runs, loop, current>>
    BY <1>1 DEF Outage, Restored, maintenanceVars, loopVars
  <2> QED
    BY <2>1 DEF OwnershipInvariant, LoopTypes, RunsKnown, LockExclusive, OwnerAccountable, OneUnfinished,
                Unfinished
<1>2. CASE \E p \in Processes :
             StartLoop(p) \/ StopLoop(p) \/ LoopStep(p) \/ ReleaseLock(p) \/ SessionLost(p)
  <2> PICK p \in Processes :
          StartLoop(p) \/ StopLoop(p) \/ LoopStep(p) \/ ReleaseLock(p) \/ SessionLost(p)
    BY <1>2
  <2>1. CASE Recover(p) \/ Claim(p) \/ Register(p) \/ Publish(p) \/ FailRun(p)
    BY <2>1, RecoverStep, ClaimStep, RegisterStep, PublishStep, FailRunStep
  <2>2. CASE ~(Recover(p) \/ Claim(p) \/ Register(p) \/ Publish(p) \/ FailRun(p))
    BY <2>2, RunsUntouched DEF LoopStep
  <2> QED
    BY <2>1, <2>2
<1> QED
  BY <1>1, <1>2 DEF MaintenanceNext, MaintenanceEnvironment

\* What is claimed of the runs follows from the invariant.
LEMMA OwnershipSuffices ==
    ASSUME OwnershipInvariant
    PROVE  SingleUnfinishedRun
<1>1. CASE Unfinished = {}
  BY <1>1, FS_EmptySet DEF SingleUnfinishedRun
<1>2. CASE Unfinished # {}
  <2>1. PICK r \in Unfinished : TRUE
    BY <1>2
  <2>2. Unfinished = {r}
    BY <2>1 DEF OwnershipInvariant, OneUnfinished
  <2>3. Cardinality(Unfinished) = 1
    BY <2>2, FS_Singleton
  <2>4. \A p \in Processes : loop[p] = "cycle" /\ session[p] = "live" => Unfinished = {}
    BY DEF OwnershipInvariant, OwnerAccountable
  <2> QED
    BY <2>3, <2>4 DEF SingleUnfinishedRun
<1> QED
  BY <1>1, <1>2

\* For any number of processes, runs, lost answers, lost sessions and timed-out cycles: there is never
\* a second unfinished run, and none behind a live owner between two cycles (the advisory lock of
\* try_acquire_maintenance, recover_unfinished and fail_run).
THEOREM RunIsSingle == MaintenanceSpec => []SingleUnfinishedRun
<1>1. MaintenanceInit => OwnershipInvariant
  BY OwnershipInitially
<1>2. OwnershipInvariant /\ [MaintenanceNext]_maintenanceVars => OwnershipInvariant'
  BY OwnershipPreserved
<1>3. OwnershipInvariant => SingleUnfinishedRun
  BY OwnershipSuffices
<1> QED
  BY <1>1, <1>2, <1>3, PTL DEF MaintenanceSpec

-----------------------------------------------------------------------------
(* The service: requests, queries and an orderly exit.                     *)

Request == Appends \cup Queries
RequestState ==
    {"idle", "gated", "token", "body", "append", "ambiguous", "query", "record", "snapshot", "execute", "done"}

RequestTypes ==
    /\ request \in [Request -> RequestState]
    /\ connected \subseteq Request
    /\ admission.ingestionClosed \in BOOLEAN /\ admission.waited \in BOOLEAN
    /\ admission = [ingestionClosed |-> admission.ingestionClosed,
                    queriesClosed |-> admission.queriesClosed, waited |-> admission.waited]

\* No request passes the gate before the process is operational.
GateClosed ==
    phase \in {"initializing", "finishHttp"} =>
        /\ runtime.kind # "Operational"
        /\ \A r \in Request : request[r] \in {"idle", "done"}

\* Once the drain has closed the boundary no request is admitted, so that none is left once the
\* tracker's wait has returned.
BoundaryClosed ==
    /\ phase \in {"closing", "finishing"} => admission.ingestionClosed
    /\ admission.waited => admission.ingestionClosed /\ Reserving = {}

DrainInvariant ==
    /\ RequestTypes
    /\ GateClosed
    /\ BoundaryClosed
    /\ SettledOnExit

-----------------------------------------------------------------------------
(* Requests.                                                               *)

Held == {"body", "append", "ambiguous"}

\* A request that moves on while the supervisor stands still: none passes the gate of a process that
\* is not operational, and none is admitted behind a closed boundary.
LEMMA RequestMoves ==
    ASSUME DrainInvariant, NEW r \in Request, NEW from \in RequestState, NEW to \in RequestState,
           Moves(r, from, to), UNCHANGED <<phase, result, runtime, admission>>,
           connected' \subseteq Request,
           from # "done", from = "idle" => Ready,
           to \in Held => from \in Held \/ ~admission.ingestionClosed
    PROVE  DrainInvariant'
<1>1. /\ phase # "stopped" /\ request[r] = from
      /\ request' = [request EXCEPT ![r] = to]
  BY DEF Moves
<1>2. RequestTypes'
  BY <1>1 DEF DrainInvariant, RequestTypes
<1>3. phase \notin {"initializing", "finishHttp"}
  BY <1>1 DEF DrainInvariant, GateClosed, Ready
<1>4. GateClosed' /\ SettledOnExit'
  BY <1>1, <1>3 DEF GateClosed, SettledOnExit
<1>5. BoundaryClosed'
  <2>1. ASSUME admission.waited
        PROVE  admission.ingestionClosed /\ Reserving' = {}
    <3>1. admission.ingestionClosed /\ Reserving = {}
      BY <2>1 DEF DrainInvariant, BoundaryClosed
    <3>2. \A a \in Appends : request[a] \notin Held
      BY <3>1 DEF Reserving, Held
    <3>3. ~(to \in Held /\ r \in Appends)
      BY <1>1, <3>1, <3>2
    <3>4. \A a \in Appends : request'[a] \notin Held
      BY <1>1, <3>2, <3>3 DEF DrainInvariant, RequestTypes, Request
    <3> QED
      BY <3>1, <3>4 DEF Reserving, Held
  <2> QED
    BY <2>1 DEF DrainInvariant, BoundaryClosed
<1> QED
  BY <1>2, <1>4, <1>5 DEF DrainInvariant

\* The steps of an ingestion request.
LEMMA AppendSteps ==
    ASSUME DrainInvariant, NEW a \in Appends, AppendStep(a)
    PROVE  DrainInvariant'
<1> USE DEF RequestState, Held
<1>0. a \in Request /\ connected \subseteq Request
  BY DEF Request, DrainInvariant, RequestTypes
<1>1. CASE TakeToken(a)
  BY <1>0, <1>1, RequestMoves DEF TakeToken, KeepService, supervisorVars
<1>2. CASE AdmitAppend(a)
  <2>1. CASE AppendAdmissible
    BY <1>0, <1>2, <2>1, RequestMoves DEF AdmitAppend, AppendAdmissible, KeepService, supervisorVars
  <2>2. CASE ~AppendAdmissible
    BY <1>0, <1>2, <2>2, RequestMoves DEF AdmitAppend, KeepService, supervisorVars
  <2> QED
    BY <2>1, <2>2
<1>3. CASE BodyRead(a)
  BY <1>0, <1>3, RequestMoves DEF BodyRead, KeepService, supervisorVars
<1>4. CASE BodyEnds(a)
  BY <1>0, <1>4, RequestMoves DEF BodyEnds, KeepService, supervisorVars
<1>5. CASE AppendSettles(a)
  BY <1>0, <1>5, RequestMoves DEF AppendSettles, supervisorVars
<1>6. CASE AppendAmbiguous(a)
  BY <1>0, <1>6, RequestMoves DEF AppendAmbiguous, KeepService, supervisorVars
<1> QED
  BY <1>1, <1>2, <1>3, <1>4, <1>5, <1>6 DEF AppendStep

\* The steps of a query.
LEMMA QuerySteps ==
    ASSUME DrainInvariant, NEW q \in Queries, QueryAdvance(q)
    PROVE  DrainInvariant'
<1> USE DEF RequestState, Held
<1>0. q \in Request /\ connected \subseteq Request
  BY DEF Request, DrainInvariant, RequestTypes
<1>1. CASE AdmitQuery(q)
  <2>1. \/ Moves(q, "gated", "query") \/ Moves(q, "gated", "done")
    BY <1>1 DEF AdmitQuery
  <2> QED
    BY <1>0, <1>1, <2>1, RequestMoves DEF AdmitQuery, KeepService, supervisorVars
<1>2. CASE QueryBody(q)
  BY <1>0, <1>2, RequestMoves DEF QueryBody, KeepService, supervisorVars
<1>3. CASE RecordQuery(q)
  BY <1>0, <1>3, RequestMoves DEF RecordQuery, supervisorVars
<1>4. CASE QueryStep(q)
  BY <1>0, <1>4, RequestMoves DEF QueryStep, KeepService, supervisorVars
<1> QED
  BY <1>1, <1>2, <1>3, <1>4 DEF QueryAdvance

\* Requests that arrive, and clients that go away.
LEMMA ClientSteps ==
    ASSUME DrainInvariant, NEW r \in Request, Arrive(r) \/ Disconnect(r)
    PROVE  DrainInvariant'
<1> USE DEF RequestState, Held
<1>0. connected \subseteq Request
  BY DEF DrainInvariant, RequestTypes
<1>1. CASE Arrive(r)
  BY <1>0, <1>1, RequestMoves DEF Arrive, KeepService, supervisorVars
<1>2. CASE Disconnect(r)
  <2>1. CASE \E from \in {"body", "append"} : Moves(r, from, from)
    BY <1>0, <1>2, <2>1, RequestMoves DEF Disconnect, KeepService, supervisorVars
  <2>2. CASE \E from \in {"query", "record", "snapshot", "execute"} : Moves(r, from, "done")
    BY <1>0, <1>2, <2>2, RequestMoves DEF Disconnect, KeepService, supervisorVars
  <2> QED
    BY <1>2, <2>1, <2>2 DEF Disconnect
<1> QED
  BY <1>1, <1>2

-----------------------------------------------------------------------------
(* The supervisor and its environment.                                     *)

\* A step of the supervisor that leaves the requests and the tracker alone, and goes from one phase
\* to another before the exit.
LEMMA PhaseMoves ==
    ASSUME DrainInvariant, UNCHANGED <<request, connected>>, RequestTypes', phase' # "stopped",
           admission'.waited = admission.waited,
           admission.ingestionClosed => admission'.ingestionClosed,
           phase' \in {"initializing", "finishHttp"} =>
              runtime'.kind # "Operational" /\ phase \in {"initializing", "finishHttp"},
           phase' \in {"closing", "finishing"} => admission'.ingestionClosed
    PROVE  DrainInvariant'
<1>1. Reserving' = Reserving
  BY DEF Reserving
<1>2. GateClosed'
  BY DEF DrainInvariant, GateClosed
<1>3. BoundaryClosed'
  BY <1>1 DEF DrainInvariant, BoundaryClosed
<1>4. SettledOnExit'
  BY DEF SettledOnExit
<1> QED
  BY <1>2, <1>3, <1>4 DEF DrainInvariant

\* Startup, and the way to the drain (update_starting, become_operational, begin_draining).
LEMMA StartupSteps ==
    ASSUME DrainInvariant, Initialize \/ BecomeOperational \/ InitializeFails \/ CancelInitialization \/ BeginDraining
    PROVE  DrainInvariant'
<1>1. UNCHANGED <<request, connected, admission>>
  BY DEF Initialize, BecomeOperational, InitializeFails, CancelInitialization, BeginDraining, Drain, requestVars
<1>2. RequestTypes'
  BY <1>1 DEF DrainInvariant, RequestTypes
<1>3. phase' \notin {"stopped", "closing", "finishing"}
  BY DEF Initialize, BecomeOperational, InitializeFails, CancelInitialization, BeginDraining, Drain
<1>4. CASE Initialize
  <2>1. phase = "initializing" /\ phase' = "initializing" /\ runtime'.kind = runtime.kind
    BY <1>4 DEF Initialize
  <2> QED
    BY <1>1, <1>2, <2>1, PhaseMoves DEF DrainInvariant, GateClosed
<1>5. CASE BecomeOperational \/ BeginDraining
  <2>1. phase' \in {"running", "draining"}
    BY <1>5 DEF BecomeOperational, BeginDraining, Drain
  <2> QED
    BY <1>1, <1>2, <1>3, <2>1, PhaseMoves
<1>6. CASE InitializeFails \/ CancelInitialization
  <2>1. phase = "initializing" /\ phase' = "finishHttp" /\ runtime' = [runtime EXCEPT !.kind = "Draining"]
    BY <1>6 DEF InitializeFails, CancelInitialization, Drain
  <2>2. runtime'.kind # "Operational"
    BY <2>1 DEF DrainInvariant, GateClosed
  <2> QED
    BY <1>1, <1>2, <2>1, <2>2, PhaseMoves
<1> QED
  BY <1>4, <1>5, <1>6

\* The boundaries close one after the other (begin_shutdown of ingestion and of queries).
LEMMA ClosingSteps ==
    ASSUME DrainInvariant, CloseIngestion \/ CloseQueries
    PROVE  DrainInvariant'
<1>1. UNCHANGED <<request, connected>>
  BY DEF CloseIngestion, CloseQueries, requestVars
<1>2. CASE CloseIngestion
  <2>1. /\ phase' = "closing" /\ admission'.waited = admission.waited /\ admission'.ingestionClosed
        /\ admission'.ingestionClosed \in BOOLEAN
        /\ admission' = [ingestionClosed |-> admission'.ingestionClosed,
                         queriesClosed |-> admission'.queriesClosed, waited |-> admission'.waited]
    BY <1>2 DEF CloseIngestion, DrainInvariant, RequestTypes
  <2>2. RequestTypes'
    BY <1>1, <2>1 DEF DrainInvariant, RequestTypes
  <2> QED
    BY <1>1, <2>1, <2>2, PhaseMoves
<1>3. CASE CloseQueries
  <2>1. /\ phase = "closing" /\ phase' = "finishing" /\ admission'.waited = admission.waited
        /\ admission'.ingestionClosed = admission.ingestionClosed
        /\ admission' = [ingestionClosed |-> admission'.ingestionClosed,
                         queriesClosed |-> admission'.queriesClosed, waited |-> admission'.waited]
    BY <1>3 DEF CloseQueries, DrainInvariant, RequestTypes
  <2>2. RequestTypes' /\ admission.ingestionClosed
    BY <1>1, <2>1 DEF DrainInvariant, RequestTypes, BoundaryClosed
  <2> QED
    BY <1>1, <2>1, <2>2, PhaseMoves
<1> QED
  BY <1>2, <1>3

\* wait_for_admitted_requests returns when no token is left, so that no request holds a reservation.
LEMMA WaitStep ==
    ASSUME DrainInvariant, TrackerWaited
    PROVE  DrainInvariant'
<1>1. UNCHANGED <<request, connected, phase, result, runtime>> /\ phase = "finishing" /\ Tracked = {}
  BY DEF TrackerWaited, requestVars
<1>2. /\ admission'.waited /\ admission'.waited \in BOOLEAN
      /\ admission'.ingestionClosed = admission.ingestionClosed
      /\ admission' = [ingestionClosed |-> admission'.ingestionClosed,
                       queriesClosed |-> admission'.queriesClosed, waited |-> admission'.waited]
  BY DEF TrackerWaited, DrainInvariant, RequestTypes
<1>3. Reserving' = {}
  BY <1>1 DEF Reserving, Tracked
<1>4. admission.ingestionClosed
  BY <1>1 DEF DrainInvariant, BoundaryClosed
<1>5. RequestTypes'
  BY <1>1, <1>2 DEF DrainInvariant, RequestTypes
<1>6. BoundaryClosed'
  BY <1>2, <1>3, <1>4 DEF BoundaryClosed
<1> QED
  BY <1>1, <1>5, <1>6 DEF DrainInvariant, GateClosed, SettledOnExit

\* supervise returns: every handler has ended and every admitted append has settled
\* (finish_http, finish_http_and_ingestion).
LEMMA FinishStep ==
    ASSUME DrainInvariant, Finish
    PROVE  DrainInvariant'
<1>1. /\ UNCHANGED <<request, connected, result, runtime, admission>> /\ phase' = "stopped"
      /\ Handling = {}
      /\ phase = "finishHttp" \/ admission.waited
  BY DEF Finish, requestVars
<1>2. Reserving = {}
  <2>1. CASE phase = "finishHttp"
    BY <2>1 DEF DrainInvariant, GateClosed, Reserving, Request
  <2>2. CASE admission.waited
    BY <2>2 DEF DrainInvariant, BoundaryClosed
  <2> QED
    BY <1>1, <2>1, <2>2
<1>3. Running \cap connected = {}
  BY <1>1 DEF Handling, Running
<1>4. Reserving' = Reserving /\ Running' = Running
  BY <1>1 DEF Reserving, Running
<1>5. SettledOnExit'
  BY <1>1, <1>2, <1>3, <1>4 DEF SettledOnExit
<1>6. RequestTypes' /\ GateClosed'
  BY <1>1 DEF DrainInvariant, RequestTypes, GateClosed
<1>7. BoundaryClosed'
  BY <1>1, <1>4 DEF DrainInvariant, BoundaryClosed
<1> QED
  BY <1>5, <1>6, <1>7 DEF DrainInvariant

\* A shutdown that timed out says so: nothing is claimed of it.
LEMMA TimeoutStep ==
    ASSUME DrainInvariant, ShutdownTimedOut
    PROVE  DrainInvariant'
<1>1. /\ UNCHANGED <<request, connected, runtime, admission>>
      /\ phase' = "stopped" /\ result' = "timedout"
  BY DEF ShutdownTimedOut, requestVars
<1>2. RequestTypes' /\ GateClosed' /\ SettledOnExit'
  BY <1>1 DEF DrainInvariant, RequestTypes, GateClosed, SettledOnExit
<1>3. Reserving' = Reserving
  BY <1>1 DEF Reserving
<1>4. BoundaryClosed'
  BY <1>1, <1>3 DEF DrainInvariant, BoundaryClosed
<1> QED
  BY <1>2, <1>4 DEF DrainInvariant

\* The variables the invariant is about.
drainVars == <<request, connected, phase, result, admission, runtime.kind>>

\* Steps that concern neither requests nor the drain.
LEMMA DrainUntouched ==
    ASSUME DrainInvariant, UNCHANGED drainVars
    PROVE  DrainInvariant'
<1>1. Reserving' = Reserving /\ Running' = Running
  BY DEF drainVars, Reserving, Running
<1>2. RequestTypes' /\ GateClosed'
  BY DEF DrainInvariant, RequestTypes, GateClosed, drainVars
<1>3. BoundaryClosed'
  BY <1>1 DEF DrainInvariant, BoundaryClosed, drainVars
<1>4. SettledOnExit'
  BY <1>1 DEF DrainInvariant, SettledOnExit, drainVars
<1> QED
  BY <1>2, <1>3, <1>4 DEF DrainInvariant

\* Signals, faults, the worker and the health checks.
LEMMA OtherSteps ==
    ASSUME DrainInvariant, Signal \/ Fault \/ OutageEnds \/ Worker \/ Health
    PROVE  DrainInvariant'
<1>1. CASE HealthPublish
  <2>1. runtime'.kind = runtime.kind
    BY <1>1 DEF HealthPublish
  <2> QED
    BY <1>1, <2>1, DrainUntouched DEF HealthPublish, drainVars, requestVars
<1>2. CASE ~HealthPublish
  <2>1. UNCHANGED <<request, connected, phase, result, admission, runtime>>
    BY <1>2 DEF Signal, Fault, OutageEnds, Worker, WorkerStarts, WorkerCheckpoints, WorkerEnds, Health,
                HealthProbe, requestVars, supervisorVars
  <2> QED
    BY <2>1, DrainUntouched DEF drainVars
<1> QED
  BY <1>1, <1>2

-----------------------------------------------------------------------------
(* The theorems.                                                           *)

\* Before the process is operational no request has arrived.
LEMMA DrainInitially ==
    ASSUME Init
    PROVE  DrainInvariant
<1>1. PICK load : request = [r \in Appends \cup Queries |-> IF r \in load THEN "idle" ELSE "done"]
  BY DEF Init
<1>2. /\ connected = {} /\ phase = "initializing" /\ runtime.kind = "Starting"
      /\ admission = [ingestionClosed |-> FALSE, queriesClosed |-> FALSE, waited |-> FALSE]
  BY DEF Init
<1>3. RequestTypes
  BY <1>1, <1>2 DEF RequestTypes, RequestState, Request
<1>4. GateClosed /\ BoundaryClosed /\ SettledOnExit
  BY <1>1, <1>2 DEF GateClosed, BoundaryClosed, SettledOnExit, Request
<1> QED
  BY <1>3, <1>4 DEF DrainInvariant

\* Every step of the service keeps the invariant.
LEMMA DrainPreserved ==
    ASSUME DrainInvariant, [Next]_vars
    PROVE  DrainInvariant'
<1>1. CASE UNCHANGED vars \/ MaintenanceStep
  <2>1. UNCHANGED <<request, connected, phase, result, admission, runtime>>
    BY <1>1 DEF vars, MaintenanceStep, serviceVars, supervisorVars, requestVars
  <2> QED
    BY <2>1, DrainUntouched DEF drainVars
<1>2. CASE ServiceNext
  <2>1. CASE Signal \/ Fault \/ OutageEnds \/ Worker \/ Health
    BY <2>1, OtherSteps
  <2>2. CASE Supervisor
    BY <2>2, StartupSteps, ClosingSteps, WaitStep, FinishStep DEF Supervisor
  <2>3. CASE ShutdownTimedOut
    BY <2>3, TimeoutStep
  <2>4. CASE \E r \in Appends \cup Queries : Arrive(r) \/ Disconnect(r)
    BY <2>4, ClientSteps DEF Request
  <2>5. CASE \E a \in Appends : AppendStep(a)
    BY <2>5, AppendSteps
  <2>6. CASE \E q \in Queries : QueryAdvance(q)
    BY <2>6, QuerySteps
  <2> QED
    BY <1>2, <2>1, <2>2, <2>3, <2>4, <2>5, <2>6 DEF ServiceNext
<1> QED
  BY <1>1, <1>2 DEF Next, ServiceStep

\* For any number of requests and queries: when supervise returns before its timeout, every admitted
\* append has settled and no query of a connected client runs, whatever raced with the drain.
THEOREM ExitIsSettled == Spec => []SettledOnExit
<1>1. Init => DrainInvariant
  BY DrainInitially
<1>2. DrainInvariant /\ [Next]_vars => DrainInvariant'
  BY DrainPreserved
<1>3. DrainInvariant => SettledOnExit
  BY DEF DrainInvariant
<1> QED
  BY <1>1, <1>2, <1>3, PTL DEF Spec

\* The loops of the service are those of Maintenance, so its runs are single too.
THEOREM ServiceRunIsSingle == Spec => []SingleUnfinishedRun
<1>1. Init => MaintenanceInit
  BY DEF Init
<1>2. [Next]_vars => [MaintenanceNext]_maintenanceVars
  BY DEF Next, ServiceStep, MaintenanceStep, vars
<1>3. Spec => MaintenanceSpec
  BY <1>1, <1>2, PTL DEF Spec, MaintenanceSpec
<1> QED
  BY <1>3, RunIsSingle, PTL

=============================================================================
