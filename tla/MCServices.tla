------------------------------ MODULE MCServices -------------------------------
(***************************************************************************)
(* Instances for TLC of the stores and files around the daily loop.  They  *)
(* share no state, so a behaviour is one of any single service, chosen at  *)
(* its start, and not an interleaving of all of them.                      *)
(*                                                                         *)
(*   window  four days are enough for a start, a reset, a missed day       *)
(*           between two runs and a reconciliation after them              *)
(*   retrain two archives kept of four retrains                            *)
(*   lock    three appenders, two of them of one process, a row of two     *)
(*           ticks and two attempts                                        *)
(*   prices  two races at two venues in the same minute, so that race_uid  *)
(*           cannot tell them apart, with a runner of the same name        *)
(*   ticket  a race of three horses (MCTicketSettlement)                   *)
(*   walk    three races of one day, one of the next                       *)
(***************************************************************************)
EXTENDS ForwardWindow, RetrainTrigger, AdvisoryLock, PriceEvidence,
        MCTicketSettlement, WalkForward, TLC

CONSTANTS x1, x2, x3, m1, m2, b1, b2, p1, p2

TwoOfOneProcess == [h \in {x1, x2, x3} |-> IF h = x3 THEN 2 ELSE 1]

SameMinute == [race \in {m1, m2} |-> 4]
TwoDays == <<[day |-> 1, picks |-> 2], [day |-> 1, picks |-> 1],
             [day |-> 1, picks |-> 1], [day |-> 2, picks |-> 1]>>
NoneOrAll == {{}, {b1, b2}}
Alike == Permutations({m1, m2}) \cup Permutations({b1, b2}) \cup Permutations({p1, p2})

VARIABLE service
vars == <<windowVars, retrainVars, lockVars, priceVars, ticketVars,
          walkVars, service>>

(* The variables of a service a behaviour is not of have one initial value. *)
Only(name, init, still) == init /\ (service # name => still)
Init == /\ service \in {"window", "retrain", "lock", "prices", "ticket", "walk"}
        /\ RetrainInit /\ LockInit /\ PriceInit /\ WalkInit
        /\ Only("window", WindowInit, frozen = CHOOSE inputs \in Inputs : TRUE)
        /\ Only("ticket", TicketsInit,
                /\ \A h \in Field : ran[h] = 1
                /\ numPlaces = CHOOSE n \in PlacesPaid : TRUE
                /\ ticket = CHOOSE w \in Wagers : TRUE)

Is(name, others) == service = name /\ UNCHANGED <<service, others>>
IsWindow == Is("window", <<retrainVars, lockVars, priceVars, ticketVars,
                           walkVars>>)
IsRetrain == Is("retrain", <<windowVars, lockVars, priceVars, ticketVars,
                             walkVars>>)
IsLock == Is("lock", <<windowVars, retrainVars, priceVars, ticketVars,
                       walkVars>>)
IsPrices == Is("prices", <<windowVars, retrainVars, lockVars, ticketVars,
                           walkVars>>)
IsTicket == Is("ticket", <<windowVars, retrainVars, lockVars, priceVars,
                           walkVars>>)
IsWalk == Is("walk", <<windowVars, retrainVars, lockVars, priceVars,
                       ticketVars>>)

Next == \/ IsWindow /\ WindowNext
        \/ IsRetrain /\ RetrainNext
        \/ IsLock /\ LockNext
        \/ IsPrices /\ PriceNext
        \/ IsTicket /\ TicketsNext
        \/ IsWalk /\ WalkNext

Spec == Init /\ [][Next]_vars
===============================================================================
