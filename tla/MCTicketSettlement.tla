--------------------------- MODULE MCTicketSettlement ---------------------------
(***************************************************************************)
(* An instance of TicketSettlement for TLC: a race of three horses, so     *)
(* that two or three of them may tie for a place, be withdrawn or fall,    *)
(* and tickets of every kind on one of them.                               *)
(***************************************************************************)
EXTENDS TicketSettlement

CONSTANTS hs1, hs2, hs3

Wager(kind, places, commission) ==
    [horse |-> hs1, kind |-> kind, odds |-> 350, places |-> places,
     num |-> 1, den |-> 5, commission |-> commission]
AllKinds == {Wager("win", 0, 0), Wager("win", 0, 5),
             Wager("each_way", 2, 0), Wager("each_way", 0, 0)}
===============================================================================
