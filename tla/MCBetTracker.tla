----------------------------- MODULE MCBetTracker -----------------------------
(***************************************************************************)
(* Instances of BetTracker for TLC.  Odds of 3 at one fifth pay the place  *)
(* leg of a 10 stake exactly 7, so each-way money stays an integer.  A     *)
(* stop-loss of 15% of 100 is crossed by two losing bets of 10.            *)
(***************************************************************************)
EXTENDS BetTracker

CONSTANTS t1, t2, k1

(* Every thread on the one cached tracker, as in one dashboard module. *)
SharedTracker == [t \in Threads |-> k1]
===============================================================================
