----------------------------- MODULE MCSupervisor -----------------------------
(***************************************************************************)
(* An instance of Supervisor for TLC: three stages as 15, 16 and 17 of the *)
(* manifest are to each other.  The second depends on the first and may    *)
(* start when it is deferred; the third reviews both.                      *)
(***************************************************************************)
EXTENDS Supervisor

SecondOnFirst == [s \in Stages |-> IF s = 2 THEN {1} ELSE {}]
ThirdReviews == [s \in Stages |-> IF s = 3 THEN {1, 2} ELSE {}]
===============================================================================
