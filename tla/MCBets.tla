-------------------------------- MODULE MCBets ---------------------------------
(***************************************************************************)
(* Instances for TLC of the paper bets: the account they are booked in,    *)
(* and the passes that settle them.  The two have no state in common here, *)
(* and a behaviour is one of either of them.                               *)
(*                                                                         *)
(*   account     one thread, every type of bet and outcome, and resets     *)
(*   settlement  two passes and two fetches (MCBetSettlement)              *)
(***************************************************************************)
EXTENDS MCBetTracker, MCBetSettlement

VARIABLE service
paperVars == <<vars, betsVars, service>>

(* The variables of a service a behaviour is not of have one initial value. *)
PaperInit == /\ service \in {"account", "settlement"}
             /\ Init
             /\ BetsInit /\ Telling
             /\ service # "settlement" => \A run \in Runs : finish[run] = 1

IsAccount == service = "account" /\ UNCHANGED <<service, betsVars>>
IsSettlement == service = "settlement" /\ UNCHANGED <<service, vars>>

PaperNext == \/ IsAccount /\ Next
             \/ IsSettlement /\ BetsNext

(* The fairness of FairBetsSpec.                                             *)
PaperSpec == /\ PaperInit /\ [][PaperNext]_paperVars
             /\ \A p \in Passes : WF_paperVars(IsSettlement /\ PassStep(p))
===============================================================================
