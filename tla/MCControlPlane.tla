--------------------------- MODULE MCControlPlane ---------------------------
(* Instances of ControlPlane for TLC. *)
EXTENDS ControlPlane, TLC

Symmetry == Permutations(Segment) \cup Permutations(Row) \cup Permutations(DeadLetter)

-----------------------------------------------------------------------------
(* To reach deep compaction and query schedules, some instances start      *)
(* where ingestion has just published the segments of Seed, one row each.  *)

CONSTANT Seed

SeedRow == CHOOSE f \in [Seed -> Row] : \A s, t \in Seed : s # t => f[s] # f[t]

SeededInit ==
    /\ now = 0
    /\ segState = [s \in Segment |-> IF s \in Seed THEN "ACTIVE" ELSE "NONE"]
    /\ segRows = [s \in Segment |-> IF s \in Seed THEN {SeedRow[s]} ELSE {}]
    /\ producer = [s \in Segment |-> None]
    /\ claimedBy = [s \in Segment |-> None]
    /\ dataExpiresAt = [s \in Segment |-> IF s \in Seed THEN Retention ELSE 0]
    /\ reclaimAfter = [o \in Object |-> 0]
    /\ objState = [o \in Object |-> IF o \in Seed THEN "PUBLISHED" ELSE "NONE"]
    /\ batchOf = [d \in DeadLetter |-> None]
    /\ runState = [r \in Run |-> "NONE"]
    /\ bytes = Seed
    /\ inFlight = {}
    /\ verified = Seed
    /\ claimed = {}
    /\ absent = {}
    /\ query = [q \in Query |-> "idle"]
    /\ snapshot = [q \in Query |-> {}]
    /\ snapshotAt = [q \in Query |-> 0]
    /\ deadline = [q \in Query |-> 0]
    /\ published = {SeedRow[s] : s \in Seed}
    /\ rowDeadline = [x \in Row |-> IF \E s \in Seed : x = SeedRow[s]
                                    THEN Retention ELSE 0]
    /\ expired = {}

SeededSpec == SeededInit /\ [][Next]_vars
SeededLiveSpec == SeededSpec /\ Fairness
SeededSymmetry == Permutations(Segment \ Seed) \cup Permutations(Run)

=============================================================================
