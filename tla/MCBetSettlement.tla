---------------------------- MODULE MCBetSettlement ----------------------------
(***************************************************************************)
(* Instances of BetSettlement for TLC: two meetings of one race each, a    *)
(* horse that runs at both, so that its two starts are told apart by the   *)
(* meeting, and one that runs once.                                        *)
(***************************************************************************)
EXTENDS BetSettlement

CONSTANTS h1, h2, ra, rb, m1, m2

OneRaceMeetings == [race \in Races |-> IF race = ra THEN m1 ELSE m2]
TwoStarts == {<<h1, ra>>, <<h1, rb>>, <<h2, rb>>}

Bet(run, type, byId) == [run |-> run, type |-> type, byId |-> byId]
(* A bet with a horse id is on the horse that runs once. *)
MixedBets == {Bet(<<h1, ra>>, "each_way", FALSE), Bet(<<h2, rb>>, "win", TRUE)}
IdBets == {Bet(<<h1, rb>>, "win", TRUE)}

(* The start that has no bet won, and the horse of the win bet won, was      *)
(* beaten or withdrawn.                                                      *)
Telling == finish[<<h1, rb>>] = 1 /\ finish[<<h2, rb>>] \in {1, 2, NonRunner}
===============================================================================
