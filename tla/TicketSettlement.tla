---------------------------- MODULE TicketSettlement ----------------------------
(***************************************************************************)
(* How the daily loop pays a ticket: the facts read from the archived      *)
(* result page (execution/race_facts.py), the settlement engine            *)
(* (execution/settlement.py), and the betSP rows that stand in where the   *)
(* archive is silent (scripts/daily_paper_loop.py), while pages and rows   *)
(* arrive late, early, incomplete or not at all.  Tickets do not meet each *)
(* other here, so one ticket is followed until it is settled.              *)
(*                                                                         *)
(* Odds are in hundredths, deductions in pence per pound, the commission   *)
(* in per cent.  A stake is StakeUnits, which 2 and every size of a dead   *)
(* heat divide; returns are in the millionths of a unit these come out in. *)
(***************************************************************************)
EXTENDS Integers, Sequences, FiniteSets, FiniteSetsExt

CONSTANTS Field,       \* the declared horses
          SpPrices,    \* what a withdrawn horse may have been quoted at
          Wagers,      \* tickets: [horse, kind, odds, places, num, den, commission],
                       \* places 0 when the terms were not captured
          PlacesPaid   \* number_of_placed_rides, as it may come out

VARIABLES
    ran,       \* what happened: per horse its place, DidNotFinish or DidNotRun
    price,     \* per withdrawn horse, its price when it was withdrawn
    quoted,    \* the withdrawn horses whose price the page gives
    numPlaces, \* number_of_placed_rides
    page,      \* the race's last page in the archive, in file order
    betsp,     \* its betSP rows: none, priced (without positions), resulted
    ticket,    \* the ticket followed
    slip       \* how it was settled

ticketVars == <<ran, price, quoted, numPlaces, page, betsp, ticket, slip>>

DidNotRun == -1
DidNotFinish == 0
NonFinisherPosition == 999
StakeUnits == 60
Lesser(m, n) == IF m < n THEN m ELSE n
Greater(m, n) == IF m > n THEN m ELSE n
Slip(by, status, returns) == [by |-> by, status |-> status, returns |-> returns]
Unsettled == Slip("nothing", "open", 0)

ASSUME TicketsAssumption ==
    /\ IsFiniteSet(Field) /\ SpPrices \cup PlacesPaid \subseteq Nat
    /\ \A n \in PlacesPaid : n < NonFinisherPosition
    /\ \A n \in 1..Cardinality(Field) : StakeUnits % (2 * n) = 0
    /\ \A w \in Wagers : /\ w.horse \in Field /\ w.kind \in {"win", "each_way"}
                         /\ {w.odds, w.places, w.num} \subseteq Nat
                         /\ w.den \in Nat \ {0} /\ w.commission \in 0..100
                         /\ w.odds > 100 /\ ((w.odds - 100) * w.num) % w.den = 0

-------------------------------------------------------------------------------
(* The race as it was run, and what is known of it. *)

Out == {h \in Field : ran[h] = DidNotRun}
(* Tied horses have one place, and the next ones are left free. *)
Placings ==
    {f \in [Field -> {DidNotRun, DidNotFinish} \cup 1..Cardinality(Field)] :
        \A h \in Field : f[h] > 0 =>
            f[h] = 1 + Cardinality({g \in Field : f[g] > 0 /\ f[g] < f[h]})}

TicketsInit ==
    /\ ran \in Placings
    /\ price \in [Out -> SpPrices]
    /\ quoted \in SUBSET Out
    /\ numPlaces \in PlacesPaid
    /\ page = "none"
    /\ betsp = "none"
    /\ ticket \in Wagers
    /\ slip = Unsettled

(* A fetch archives a page: early, before the result is on it, with the      *)
(* result, or with the deduction too.  One cut off cannot be read: none.     *)
ArchivePage ==
    /\ slip = Unsettled
    /\ page' \in {"none", "early", "result", "deducted"} \ {page}
    /\ UNCHANGED <<ran, price, quoted, numPlaces, betsp, ticket, slip>>

(* Each fetch also writes the betSP rows, without positions when the result  *)
(* sites gave none; such a row never replaces a resolved one.                *)
WriteRows ==
    /\ slip = Unsettled
    /\ \/ betsp = "none" /\ betsp' = "priced"
       \/ betsp # "resulted" /\ betsp' = "resulted"
    /\ UNCHANGED <<ran, price, quoted, numPlaces, page, ticket, slip>>

-------------------------------------------------------------------------------
(* race_facts.py *)

(* parse_race_document: the horses of one finishing place; 0 is no place. *)
DeadHeatSize(h) ==
    IF ran[h] > 0 THEN Cardinality({g \in Field : ran[g] = ran[h]}) ELSE 1

(* Variant: a horse without a place is taken for one that did not run. *)
NonRunnersUnplaced == {h \in Field : ran[h] <= 0}

(* The page's ride_status of each horse. *)
NonRunners == Out

(* to_race_result: whoever ran and has no place is out of every paid one. *)
Position(h) == IF page # "early" /\ ran[h] > 0 THEN ran[h] ELSE NonFinisherPosition

VoidRace == Cardinality(Field \ NonRunners) <= 1

-------------------------------------------------------------------------------
(* settlement.py *)

Rule4Table == <<
    <<130, 75>>, <<140, 70>>, <<153, 65>>, <<162, 60>>, <<180, 55>>,
    <<195, 50>>, <<220, 45>>, <<250, 40>>, <<275, 35>>, <<325, 30>>,
    <<400, 25>>, <<450, 20>>, <<600, 15>>, <<800, 10>>, <<1100, 5>> >>
Rule4(odds) ==
    LET bands == {i \in DOMAIN Rule4Table : odds <= Rule4Table[i][1]}
    IN  IF bands = {} THEN 0 ELSE Rule4Table[Min(bands)][2]
Deductions == [h \in Out |-> Rule4(price[h])]
Added(amounts, horses) == MapThenSumSet(LAMBDA h : amounts[h], horses)
CombinedRule4(horses) == Lesser(90, Added(Deductions, horses))

(* Variant: only a published deduction is applied. *)
PublishedOnly == IF page = "deducted" THEN CombinedRule4(Out) ELSE 0

(* A published deduction, the sum of the page's entries (_rule_4), replaces  *)
(* the one derived from the prices the page gives.                           *)
Deduction ==
    LET published == IF page = "deducted" THEN CombinedRule4(Out) ELSE 0
    IN  IF published > 0 THEN published ELSE CombinedRule4(quoted)

PlaceWinnings(w) == ((w.odds - 100) * w.num) \div w.den
StakeWin(w) == IF w.kind = "each_way" THEN StakeUnits \div 2 ELSE StakeUnits
StakePlace(w) == StakeUnits - StakeWin(w)

LegGross(stake, winnings, deduction, divisor) ==
    (stake \div divisor) * (10000 + winnings * (100 - deduction))

(* Commission is charged on net winnings only. *)
Refund == StakeUnits * 1000000
AfterCommission(gross, w) ==
    gross * 100 - w.commission * Greater(0, gross - StakeUnits * 10000)

PlacesUsed(w) == IF w.kind = "each_way" THEN Lesser(w.places, numPlaces) ELSE 0
SettleFromPage(w) ==
    LET won == Position(w.horse) = 1
        inPlace == Position(w.horse) <= PlacesUsed(w)
        divisor == DeadHeatSize(w.horse)
        win == IF won THEN LegGross(StakeWin(w), w.odds - 100, Deduction, divisor) ELSE 0
        place == IF inPlace
                 THEN LegGross(StakePlace(w), PlaceWinnings(w), Deduction, divisor)
                 ELSE 0
    IN  IF VoidRace \/ w.horse \in NonRunners
        THEN Slip(page, "void", Refund)
        ELSE Slip(page, IF won THEN "won" ELSE IF inPlace THEN "placed" ELSE "lost",
                  AfterCommission(win + place, w))

-------------------------------------------------------------------------------
(* daily_paper_loop.py *)

(* _settle_via_race_facts: not without a page, nor without an each-way       *)
(* ticket's own terms.                                                       *)
Covered(w) == page # "none" /\ (w.kind = "each_way" => w.places > 0)

(* Otherwise the betSP row, which a withdrawn horse does not have: the first *)
(* place wins, in full; any other loses, and so does an absent one.          *)
SettleFromRow(w) ==
    IF betsp = "resulted" /\ ran[w.horse] = 1
    THEN Slip(betsp, "won",
              AfterCommission(LegGross(StakeUnits, w.odds - 100, 0, 1), w))
    ELSE Slip(betsp, "lost", 0)

(* _settle_open_tickets: a ticket is settled once, from the page or the row. *)
Settlement ==
    /\ slip = Unsettled
    /\ \/ Covered(ticket) /\ slip' = SettleFromPage(ticket)
       \/ /\ ~Covered(ticket) /\ betsp # "none" /\ ticket.horse \notin Out
          /\ slip' = SettleFromRow(ticket)
    /\ UNCHANGED <<ran, price, quoted, numPlaces, page, betsp, ticket>>

TicketsNext == ArchivePage \/ WriteRows \/ Settlement
TicketsSpec == TicketsInit /\ [][TicketsNext]_ticketVars

-------------------------------------------------------------------------------
(* Properties. *)

(* Tattersalls' rules, from what happened: the horses tied for a place share *)
(* the places that are left to them, and so much of the stake has won.       *)
Walkover == Cardinality(Field \ Out) <= 1
Tied(h) == Cardinality({g \in Field : ran[g] = ran[h]})
PlacesLeft(h, places) == Greater(0, Lesser(Tied(h), places - ran[h] + 1))
FairLeg(stake, winnings, h, places) ==
    IF ran[h] > 0
    THEN ((stake * PlacesLeft(h, places)) \div Tied(h))
             * (10000 + winnings * (100 - CombinedRule4(Out)))
    ELSE 0
FairReturns(w) ==
    IF Walkover \/ w.horse \in Out THEN Refund
    ELSE AfterCommission(FairLeg(StakeWin(w), w.odds - 100, w.horse, 1)
                         + FairLeg(StakePlace(w), PlaceWinnings(w), w.horse,
                                   PlacesUsed(w)), w)

(* A ticket settled from a page that gives the deduction, or every price it  *)
(* follows from, returns what the rules give it: to a win ticket exactly,    *)
(* to an each-way ticket never more, although the engine knows no places     *)
(* left to a tie, only a divisor.                                            *)
PaidByTheRules ==
    (slip.by = "deducted" \/ (slip.by = "result" /\ quoted = Out))
        => /\ slip.returns <= FairReturns(ticket)
           /\ ticket.kind = "win" => slip.returns = FairReturns(ticket)

(* Whatever was read, a stake is only given back when the horse did not take *)
(* part or had nobody to beat, not when it fell, and a ticket on a horse     *)
(* that did not take part is never settled otherwise.                        *)
RefundedIfDidNotRun ==
    slip # Unsettled =>
        /\ slip.status = "void" => (ticket.horse \in Out \/ Walkover)
        /\ ticket.horse \in Out => slip.status = "void"

(* "it settles only what it can prove": no ticket on the winner of a race    *)
(* is settled as lost.                                                       *)
WinnerNotLost == slip.status = "lost" => ran[ticket.horse] # 1
===============================================================================
