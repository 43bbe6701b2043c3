---------------------------- MODULE VisibleRows -----------------------------
(***************************************************************************)
(* What the control plane promises to a reader: rows become visible once,  *)
(* all the rows of a publication together, leave once, by retention, and a *)
(* query reads the rows visible at one instant.  Segments, objects and     *)
(* compaction do not appear.                                               *)
(***************************************************************************)
CONSTANTS Row, Query

VARIABLES
    visible,     \* rows a query would read now
    gone,        \* rows that left by retention
    result       \* rows a query in progress reads

vars == <<visible, gone, result>>

Init ==
    /\ visible = {}
    /\ gone = {}
    /\ result = [q \in Query |-> {}]

Publish(R) ==
    /\ R # {} /\ R \cap (visible \cup gone) = {}
    /\ visible' = visible \cup R
    /\ UNCHANGED <<gone, result>>

Expire(R) ==
    /\ R # {} /\ R \subseteq visible
    /\ visible' = visible \ R
    /\ gone' = gone \cup R
    /\ UNCHANGED result

Read(q) ==
    /\ result' = [result EXCEPT ![q] = visible]
    /\ UNCHANGED <<visible, gone>>

Finish(q) ==
    /\ result' = [result EXCEPT ![q] = {}]
    /\ UNCHANGED <<visible, gone>>

Next ==
    \/ \E R \in SUBSET Row : Publish(R) \/ Expire(R)
    \/ \E q \in Query : Read(q) \/ Finish(q)

Spec == Init /\ [][Next]_vars

=============================================================================
