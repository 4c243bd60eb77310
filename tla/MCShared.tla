------------------------------- MODULE MCShared --------------------------------
(***************************************************************************)
(* Instances for TLC of what several threads or processes share: they have *)
(* no state in common, and a behaviour is one of either of them.           *)
(*                                                                         *)
(*   bets     two threads on one tracker (MCBetTracker)                    *)
(*   rebuild  two generations of data, a run that is killed and more after *)
(*            it, each with its trainers, and one refresh beside them      *)
(***************************************************************************)
EXTENDS MCBetTracker, Rebuild

VARIABLE service
sharedVars == <<vars, rebuildVars, service>>

(* The variables of a service a behaviour is not of have one initial value. *)
SharedInit == /\ service \in {"bets", "rebuild"}
              /\ Init
              /\ RebuildInit /\ (service # "rebuild" => best = 1)

IsBets == service = "bets" /\ Next /\ UNCHANGED <<service, rebuildVars>>

(* A refresh begins once. *)
IsRebuild == /\ service \in {"rebuild", "refreshed"}
             /\ RebuildNext
             /\ service' = IF refresh'.step = "merged" THEN "refreshed" ELSE service
             /\ (service = "refreshed" /\ refresh = NoRefresh) => refresh' = NoRefresh
             /\ UNCHANGED vars

SharedNext == IsBets \/ IsRebuild

SharedSpec == SharedInit /\ [][SharedNext]_sharedVars
===============================================================================
