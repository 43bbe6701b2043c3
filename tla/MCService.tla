------------------------------ MODULE MCService ------------------------------
(***************************************************************************)
(* Two processes that share the maintenance lock; and one process with two *)
(* ingestion requests, with two queries, or with one of each.              *)
(***************************************************************************)
EXTENDS Service

CONSTANTS a1, a2, q1, q2

MCWorkloads == {{a1, a2}, {q1, q2}, {a1, q1}}
=============================================================================
