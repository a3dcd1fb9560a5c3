----------------------------- MODULE MCJobQueue -----------------------------
(* A finite instance of JobQueue. *)
EXTENDS JobQueue

(* Type 1 is limited to one job at a time, type 2 is not limited. *)
MCLimits == [t \in JobTypes |-> IF t = 1 THEN 1 ELSE 9]
=============================================================================
