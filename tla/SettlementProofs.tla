---------------------------- MODULE SettlementProofs ----------------------------
(***************************************************************************)
(* How bets are settled, for every field, feed, price, walk and number of  *)
(* callers: the tickets of the daily loop are refunded and paid by the     *)
(* rules, the bets of the tracker are settled once and as they ran, and    *)
(* the limits of the simulated walk bind.                                  *)
(***************************************************************************)
EXTENDS TicketSettlement, BetSettlement, WalkForward, SumProofs, TLAPS

-------------------------------------------------------------------------------
(* Tickets. *)

(* A page voids a ticket exactly for a horse that took no part, or when at   *)
(* most one horse did.                                                       *)
LEMMA PageVoids ==
    ASSUME NEW w
    PROVE  SettleFromPage(w).status = "void" <=> Walkover \/ w.horse \in Out
BY DEF SettleFromPage, Slip, VoidRace, Walkover, NonRunners

(* A row voids nothing.                                                      *)
LEMMA RowNeverVoids == ASSUME NEW w PROVE SettleFromRow(w).status # "void"
BY DEF SettleFromRow, Slip

(* Whatever page or rows a ticket is settled from, and however the race was  *)
(* run: a stake is given back when the horse did not take part or had nobody *)
(* to beat, and only then.                                                   *)
THEOREM RefundsAreForNonRunners == TicketsSpec => []RefundedIfDidNotRun
<1>1. TicketsInit => RefundedIfDidNotRun
  BY DEF TicketsInit, RefundedIfDidNotRun
<1>2. RefundedIfDidNotRun /\ [TicketsNext]_ticketVars => RefundedIfDidNotRun'
  <2> SUFFICES ASSUME RefundedIfDidNotRun, [TicketsNext]_ticketVars
               PROVE  RefundedIfDidNotRun'
    OBVIOUS
  <2>1. CASE ArchivePage \/ WriteRows
    BY <2>1 DEF ArchivePage, WriteRows, RefundedIfDidNotRun
  <2>2. CASE Settlement
    <3>1. UNCHANGED <<ran, ticket>>
      BY <2>2 DEF Settlement
    <3>2. Out' = Out /\ Walkover' = Walkover
      BY <3>1 DEF Out, Walkover
    <3>3. \/ slip' = SettleFromPage(ticket)
          \/ ticket.horse \notin Out /\ slip' = SettleFromRow(ticket)
      BY <2>2 DEF Settlement
    <3> QED BY <3>1, <3>2, <3>3, PageVoids, RowNeverVoids DEF RefundedIfDidNotRun
  <2>3. CASE UNCHANGED ticketVars
    BY <2>3 DEF ticketVars, RefundedIfDidNotRun, Out, Walkover
  <2> QED BY <2>1, <2>2, <2>3 DEF TicketsNext
<1> QED BY <1>1, <1>2, PTL DEF TicketsSpec

-------------------------------------------------------------------------------
(* What a page pays: the arithmetic. *)

(* A product of naturals is one.                                             *)
LEMMA ProductOfNats == ASSUME NEW a \in Nat, NEW b \in Nat PROVE a * b \in Nat
OBVIOUS

(* Nor does a larger factor give a smaller product.                          *)
LEMMA ProductGrows ==
    ASSUME NEW a \in Nat, NEW b \in Nat, a <= b, NEW k \in Nat
    PROVE  a * k <= b * k
<1>1. b - a \in Nat
  OBVIOUS
<1>2. (b - a) * k \in Nat
  BY <1>1, ProductOfNats
<1>3. (b - a) * k = b * k - a * k
  OBVIOUS
<1> QED BY <1>2, <1>3

(* Division as it is defined, for a divisor that is not a number.            *)
LEMMA QuotientBounds ==
    ASSUME NEW a \in Nat, NEW n \in Nat \ {0}
    PROVE  /\ a \div n \in Nat
           /\ n * (a \div n) <= a
           /\ a < n * (a \div n) + n
OBVIOUS

(* A larger dividend gives no smaller quotient.                              *)
LEMMA QuotientGrows ==
    ASSUME NEW a \in Nat, NEW b \in Nat, a <= b, NEW n \in Nat \ {0}
    PROVE  a \div n <= b \div n
<1> DEFINE p == a \div n
<1> DEFINE q == b \div n
<1>1. p \in Nat /\ q \in Nat /\ n * p <= a /\ b < n * q + n
  BY QuotientBounds
<1> HIDE DEF p, q
<1> SUFFICES ASSUME q < p PROVE FALSE
  BY <1>1 DEF p, q
<1>2. p - (q + 1) \in Nat
  BY <1>1
<1>3. n * (p - (q + 1)) \in Nat
  BY <1>2, ProductOfNats
<1>4. n * (p - (q + 1)) = n * p - (n * q + n)
  BY <1>1
<1>5. n * p \in Nat /\ n * q \in Nat
  BY <1>1, ProductOfNats
<1> QED BY <1>1, <1>3, <1>4, <1>5

(* Nothing, divided, is nothing.                                             *)
LEMMA NothingDivided == ASSUME NEW n \in Nat \ {0} PROVE 0 \div n = 0
<1> DEFINE q == 0 \div n
<1>1. q \in Nat /\ n * q <= 0
  BY QuotientBounds
<1> HIDE DEF q
<1> SUFFICES ASSUME q # 0 PROVE FALSE
  BY DEF q
<1>2. q - 1 \in Nat
  BY <1>1
<1>3. n * (q - 1) \in Nat /\ n * (q - 1) = n * q - n
  BY <1>1, <1>2, ProductOfNats
<1> QED BY <1>1, <1>3

(* Commission never takes more than it is charged on, so a larger gross      *)
(* return is never the smaller one after it.                                 *)
LEMMA CommissionGrows ==
    ASSUME NEW w \in Wagers, NEW a \in Nat, NEW b \in Nat, a <= b
    PROVE  AfterCommission(a, w) <= AfterCommission(b, w)
<1> DEFINE base == StakeUnits * 10000
<1> DEFINE x == Greater(0, a - base)
<1> DEFINE y == Greater(0, b - base)
<1> DEFINE c == w.commission
<1>1. c \in 0..100
  BY TicketsAssumption
<1>2. base \in Nat
  BY DEF StakeUnits
<1> HIDE DEF base
<1>3. x \in Nat /\ y \in Nat /\ x <= y /\ y - x <= b - a
  BY <1>2 DEF Greater
<1>4. AfterCommission(a, w) = a * 100 - c * x /\ AfterCommission(b, w) = b * 100 - c * y
  BY DEF AfterCommission, base
<1> HIDE DEF x, y, c
<1>5. y - x \in Nat /\ 100 - c \in Nat
  BY <1>1, <1>3
<1>6. (100 - c) * (y - x) \in Nat
  BY <1>5, ProductOfNats
<1>7. (100 - c) * (y - x) = 100 * (y - x) - (c * y - c * x)
  BY <1>1, <1>3
<1>8. c * y \in Int /\ c * x \in Int
  BY <1>1, <1>3
<1> QED BY <1>3, <1>4, <1>6, <1>7, <1>8

-------------------------------------------------------------------------------
(* What a page pays: the deduction. *)

(* Each withdrawn horse takes some pence or none.                            *)
LEMMA Rule4IsPence == ASSUME NEW odds PROVE Rule4(odds) \in Nat
<1> DEFINE bands == {i \in DOMAIN Rule4Table : odds <= Rule4Table[i][1]}
<1>1. DOMAIN Rule4Table = 1..15 /\ \A i \in 1..15 : Rule4Table[i][2] \in Nat
  BY DEF Rule4Table
<1>2. bands # {} => Min(bands) \in bands
  <2>1. SUFFICES ASSUME bands # {} PROVE \E i \in bands : \A j \in bands : i <= j
    BY DEF Min
  <2>2. bands \subseteq Nat
    BY <1>1
  <2> HIDE DEF bands
  <2> QED BY <2>1, <2>2, LeastNat
<1>3. bands \subseteq DOMAIN Rule4Table
  OBVIOUS
<1>4. Rule4(odds) = IF bands = {} THEN 0 ELSE Rule4Table[Min(bands)][2]
  BY DEF Rule4
<1> HIDE DEF bands
<1> QED BY <1>1, <1>2, <1>3, <1>4

(* The facts of the race: fixed while its ticket is followed.                *)
RaceOK ==
    /\ ran \in [Field -> Int]
    /\ price \in [Out -> SpPrices]
    /\ quoted \subseteq Out
    /\ numPlaces \in PlacesPaid
    /\ ticket \in Wagers

(* Prices that are missing never add to the deduction.                       *)
LEMMA DeductionFits ==
    ASSUME RaceOK
    PROVE  /\ \A S \in SUBSET Out : CombinedRule4(S) \in 0..90
           /\ CombinedRule4(Out) = 0 => \A S \in SUBSET Out : CombinedRule4(S) = 0
<1> DEFINE sum(S) == Sum(Deductions, S)
<1>1. \A h \in Out : Deductions[h] \in Nat
  BY Rule4IsPence DEF Deductions
<1>2. IsFiniteSet(Out)
  BY TicketsAssumption, FS_Subset DEF Out
<1>3. \A S \in SUBSET Out : sum(S) \in Nat /\ sum(S) <= sum(Out)
  BY <1>1, <1>2, SumGrows
<1>4. \A S : CombinedRule4(S) = Lesser(90, sum(S))
  BY DEF CombinedRule4, Added, Sum
<1> HIDE DEF sum
<1>5. Out \in SUBSET Out
  OBVIOUS
<1>6. \A n \in Nat : Lesser(90, n) \in 0..90 /\ (Lesser(90, n) = 0 <=> n = 0)
  BY DEF Lesser
<1>7. sum(Out) = 0 => \A S \in SUBSET Out : sum(S) = 0
  BY <1>3
<1> QED BY <1>3, <1>4, <1>5, <1>6, <1>7

(* A page that gives the deduction, or every price, gives all of it.         *)
LEMMA DeductionIsDue ==
    ASSUME RaceOK, page = "deducted" \/ (page = "result" /\ quoted = Out)
    PROVE  Deduction = CombinedRule4(Out) /\ Deduction \in 0..90
<1>1. quoted \in SUBSET Out /\ Out \in SUBSET Out
  BY DEF RaceOK
<1>2. /\ CombinedRule4(Out) \in 0..90
      /\ CombinedRule4(Out) = 0 => CombinedRule4(quoted) = 0
  BY <1>1, DeductionFits
<1>3. CASE page = "deducted"
  BY <1>2, <1>3 DEF Deduction
<1>4. CASE page = "result" /\ quoted = Out
  BY <1>2, <1>4 DEF Deduction
<1> QED BY <1>3, <1>4

-------------------------------------------------------------------------------
(* What a page pays: the legs. *)

(* What a unit of stake that has won returns.                                *)
LEMMA UnitReturns ==
    ASSUME NEW winnings \in Nat, NEW deduction \in 0..90
    PROVE  10000 + winnings * (100 - deduction) \in Nat
<1>1. 100 - deduction \in Nat
  OBVIOUS
<1>2. winnings * (100 - deduction) \in Nat
  BY <1>1, ProductOfNats
<1> QED BY <1>2

(* Tied horses divide the stake by their number, whoever counts them.        *)
LEMMA TiesAreCounted ==
    ASSUME RaceOK, NEW h \in Field, ran[h] > 0
    PROVE  DeadHeatSize(h) = Tied(h) /\ Tied(h) \in Nat \ {0}
<1> DEFINE tie == {g \in Field : ran[g] = ran[h]}
<1>1. IsFiniteSet(tie) /\ tie # {}
  BY TicketsAssumption, FS_Subset
<1>2. Cardinality(tie) \in Nat \ {0}
  <2> HIDE DEF tie
  <2> QED BY <1>1, FS_CardinalityType, FS_EmptySet
<1> QED BY <1>2 DEF DeadHeatSize, Tied

(* What is not staked returns nothing.                                       *)
LEMMA NoStakeNoReturn ==
    ASSUME RaceOK, NEW winnings \in Nat, NEW h \in Field, NEW places \in Nat,
           page = "deducted" \/ (page = "result" /\ quoted = Out)
    PROVE  FairLeg(0, winnings, h, places) = 0
<1> DEFINE unit == 10000 + winnings * (100 - CombinedRule4(Out))
<1>0. ran[h] \in Int
  BY DEF RaceOK
<1>1. unit \in Nat
  BY DeductionIsDue, UnitReturns
<1>2. CASE ran[h] > 0
  <2>1. Tied(h) \in Nat \ {0}
    BY <1>2, TiesAreCounted
  <2>2. PlacesLeft(h, places) \in Nat
    BY <1>0, <2>1 DEF PlacesLeft, Greater, Lesser
  <2>3. FairLeg(0, winnings, h, places) = ((0 * PlacesLeft(h, places)) \div Tied(h)) * unit
    BY <1>2 DEF FairLeg
  <2> HIDE DEF unit
  <2>4. 0 * PlacesLeft(h, places) = 0 /\ 0 * unit = 0
    BY <1>1, <2>2
  <2> QED BY <2>1, <2>3, <2>4, NothingDivided
<1>3. CASE ~(ran[h] > 0)
  BY <1>3 DEF FairLeg
<1> QED BY <1>2, <1>3

(* A horse that won has the whole place of a tie to itself.                  *)
LEMMA WinLegIsFair ==
    ASSUME RaceOK, NEW stake \in Nat, NEW winnings \in Nat, NEW h \in Field,
           page = "deducted" \/ (page = "result" /\ quoted = Out)
    PROVE  /\ FairLeg(stake, winnings, h, 1)
                = IF Position(h) = 1
                  THEN LegGross(stake, winnings, Deduction, DeadHeatSize(h)) ELSE 0
           /\ FairLeg(stake, winnings, h, 1) \in Nat
<1> DEFINE unit == 10000 + winnings * (100 - Deduction)
<1>0. ran[h] \in Int
  BY DEF RaceOK
<1>1. Deduction = CombinedRule4(Out) /\ unit \in Nat
  BY DeductionIsDue, UnitReturns
<1>2. page # "early"
  OBVIOUS
<1>3. CASE ran[h] = 1
  <2>1. Position(h) = 1
    BY <1>2, <1>3 DEF Position
  <2>2. DeadHeatSize(h) = Tied(h) /\ Tied(h) \in Nat \ {0}
    BY <1>3, TiesAreCounted
  <2>3. PlacesLeft(h, 1) = 1
    BY <1>3, <2>2 DEF PlacesLeft, Greater, Lesser
  <2>4. stake \div Tied(h) \in Nat
    BY <2>2, QuotientBounds
  <2>5. LegGross(stake, winnings, Deduction, DeadHeatSize(h)) = (stake \div Tied(h)) * unit
    BY <2>2 DEF LegGross
  <2>6. FairLeg(stake, winnings, h, 1) = ((stake * 1) \div Tied(h)) * unit
    BY <1>1, <1>3, <2>3 DEF FairLeg
  <2> HIDE DEF unit
  <2>7. (stake \div Tied(h)) * unit \in Nat /\ stake * 1 = stake
    BY <1>1, <2>4, ProductOfNats
  <2> QED BY <2>1, <2>5, <2>6, <2>7
<1>4. CASE ran[h] > 1
  <2>0. ran[h] > 0
    BY <1>0, <1>4
  <2>1. Position(h) # 1
    BY <1>2, <1>4, <2>0 DEF Position
  <2>2. Tied(h) \in Nat \ {0}
    BY <2>0, TiesAreCounted
  <2>3. PlacesLeft(h, 1) = 0
    BY <1>0, <1>4, <2>2 DEF PlacesLeft, Greater, Lesser
  <2>4. FairLeg(stake, winnings, h, 1) = ((stake * 0) \div Tied(h)) * unit
    BY <1>1, <2>0, <2>3 DEF FairLeg
  <2>5. stake * 0 = 0 /\ \A n \in Nat \ {0} : 0 \div n = 0
    BY NothingDivided
  <2> HIDE DEF unit
  <2>6. 0 * unit = 0
    BY <1>1
  <2> QED BY <2>1, <2>2, <2>4, <2>5, <2>6
<1>5. CASE ran[h] <= 0
  <2>1. Position(h) # 1
    BY <1>0, <1>2, <1>5 DEF Position, NonFinisherPosition
  <2> QED BY <1>0, <1>5, <2>1 DEF FairLeg
<1> QED BY <1>0, <1>3, <1>4, <1>5

(* A placed horse is paid no more than the places left to its tie are worth. *)
LEMMA PlaceLegIsFair ==
    ASSUME RaceOK, NEW stake \in Nat, NEW winnings \in Nat, NEW h \in Field,
           NEW places \in Nat, places < NonFinisherPosition,
           page = "deducted" \/ (page = "result" /\ quoted = Out)
    PROVE  LET paid == IF Position(h) <= places
                       THEN LegGross(stake, winnings, Deduction, DeadHeatSize(h))
                       ELSE 0
           IN  /\ paid \in Nat
               /\ FairLeg(stake, winnings, h, places) \in Nat
               /\ paid <= FairLeg(stake, winnings, h, places)
<1> DEFINE unit == 10000 + winnings * (100 - Deduction)
<1> DEFINE paid == IF Position(h) <= places
                   THEN LegGross(stake, winnings, Deduction, DeadHeatSize(h)) ELSE 0
<1>0. ran[h] \in Int
  BY DEF RaceOK
<1>1. Deduction = CombinedRule4(Out) /\ unit \in Nat
  BY DeductionIsDue, UnitReturns
<1>2. page # "early"
  OBVIOUS
<1>3. CASE ran[h] > 0
  <2> DEFINE left == PlacesLeft(h, places)
  <2>1. DeadHeatSize(h) = Tied(h) /\ Tied(h) \in Nat \ {0} /\ Position(h) = ran[h]
    BY <1>2, <1>3, TiesAreCounted DEF Position
  <2>2. left \in Nat /\ (ran[h] <= places => left >= 1)
    BY <1>0, <1>3, <2>1 DEF PlacesLeft, Greater, Lesser
  <2>3. FairLeg(stake, winnings, h, places) = ((stake * left) \div Tied(h)) * unit
    BY <1>1, <1>3 DEF FairLeg
  <2>4. LegGross(stake, winnings, Deduction, DeadHeatSize(h)) = (stake \div Tied(h)) * unit
    BY <2>1 DEF LegGross
  <2> HIDE DEF left, unit
  <2>5. stake * left \in Nat
    BY <2>2, ProductOfNats
  <2> DEFINE due == (stake * left) \div Tied(h)
  <2> DEFINE one == stake \div Tied(h)
  <2>6. due \in Nat /\ one \in Nat
    BY <2>1, <2>5, QuotientBounds
  <2>7. left >= 1 => one <= due
    <3> SUFFICES ASSUME left >= 1 PROVE one <= due
      OBVIOUS
    <3>1. stake * 1 <= left * stake
      <4>1. 1 * stake <= left * stake
        BY <2>2, ProductGrows
      <4> QED BY <4>1
    <3>2. stake <= stake * left
      BY <2>2, <3>1
    <3> QED BY <2>1, <2>5, <3>2, QuotientGrows
  <2>8. due * unit \in Nat /\ one * unit \in Nat /\ (one <= due => one * unit <= due * unit)
    <3> HIDE DEF due, one
    <3> QED BY <1>1, <2>6, ProductOfNats, ProductGrows
  <2>9. FairLeg(stake, winnings, h, places) = due * unit
    BY <2>3
  <2>10. paid = IF ran[h] <= places THEN one * unit ELSE 0
    BY <2>1, <2>4
  <2> HIDE DEF due, one, paid
  <2>11. paid \in Nat /\ paid <= due * unit
    BY <2>2, <2>7, <2>8, <2>10
  <2> QED BY <2>8, <2>9, <2>11 DEF paid
<1>4. CASE ran[h] <= 0
  <2>1. Position(h) = NonFinisherPosition
    BY <1>0, <1>2, <1>4 DEF Position
  <2>2. ~(Position(h) <= places)
    BY <2>1 DEF NonFinisherPosition
  <2> QED BY <1>0, <1>4, <2>2 DEF FairLeg
<1> QED BY <1>0, <1>3, <1>4

(* A ticket of the card, priced and with sensible terms.                     *)
LEMMA WagersAreSound ==
    ASSUME NEW w \in Wagers
    PROVE  /\ w.horse \in Field /\ w.kind \in {"win", "each_way"}
           /\ w.odds - 100 \in Nat /\ PlaceWinnings(w) \in Nat
           /\ StakeWin(w) \in Nat /\ StakePlace(w) \in Nat
<1>1. /\ w.horse \in Field /\ w.kind \in {"win", "each_way"}
      /\ w.odds \in Nat /\ w.num \in Nat /\ w.den \in Nat \ {0} /\ w.odds > 100
  BY TicketsAssumption
<1>2. w.odds - 100 \in Nat
  BY <1>1
<1>3. (w.odds - 100) * w.num \in Nat
  BY <1>1, <1>2, ProductOfNats
<1>4. PlaceWinnings(w) \in Nat
  BY <1>1, <1>3, QuotientBounds DEF PlaceWinnings
<1>5. StakeWin(w) \in Nat /\ StakePlace(w) \in Nat
  BY DEF StakeWin, StakePlace, StakeUnits
<1> QED BY <1>1, <1>2, <1>4, <1>5

(* The whole slip: a win ticket has no place leg, and its win leg is fair; an *)
(* each-way ticket's place leg may be short.                                 *)
LEMMA PageIsFair ==
    ASSUME RaceOK, page = "deducted" \/ (page = "result" /\ quoted = Out)
    PROVE  /\ SettleFromPage(ticket).returns <= FairReturns(ticket)
           /\ ticket.kind = "win"
                => SettleFromPage(ticket).returns = FairReturns(ticket)
<1> DEFINE w == ticket
<1> DEFINE places == PlacesUsed(w)
<1> DEFINE won == Position(w.horse) = 1
<1> DEFINE placed == Position(w.horse) <= places
<1> DEFINE win == IF won THEN LegGross(StakeWin(w), w.odds - 100, Deduction,
                                       DeadHeatSize(w.horse)) ELSE 0
<1> DEFINE place == IF placed THEN LegGross(StakePlace(w), PlaceWinnings(w), Deduction,
                                            DeadHeatSize(w.horse)) ELSE 0
<1> DEFINE fairWin == FairLeg(StakeWin(w), w.odds - 100, w.horse, 1)
<1> DEFINE fairPlace == FairLeg(StakePlace(w), PlaceWinnings(w), w.horse, places)
<1>1. w \in Wagers
  BY DEF RaceOK
<1>2. /\ w.horse \in Field /\ w.kind \in {"win", "each_way"}
      /\ w.odds - 100 \in Nat /\ PlaceWinnings(w) \in Nat
      /\ StakeWin(w) \in Nat /\ StakePlace(w) \in Nat
  BY <1>1, WagersAreSound
<1>3. places \in Nat /\ places < NonFinisherPosition
  BY <1>1, TicketsAssumption DEF RaceOK, PlacesUsed, Lesser, NonFinisherPosition
<1>4. win = fairWin /\ fairWin \in Nat
  BY <1>2, WinLegIsFair
<1>5. place \in Nat /\ fairPlace \in Nat /\ place <= fairPlace
  BY <1>2, <1>3, PlaceLegIsFair
<1>6. w.kind = "win" => place = 0 /\ fairPlace = 0
  <2> SUFFICES ASSUME w.kind = "win" PROVE place = 0 /\ fairPlace = 0
    OBVIOUS
  <2>1. places = 0 /\ ran[w.horse] \in Int /\ page # "early"
    BY <1>2 DEF PlacesUsed, RaceOK
  <2>2. ~placed
    BY <2>1 DEF Position, NonFinisherPosition
  <2>3. StakePlace(w) = 0
    BY DEF StakePlace, StakeWin, StakeUnits
  <2>4. fairPlace = 0
    BY <1>2, <2>1, <2>3, NoStakeNoReturn
  <2> QED BY <2>2, <2>4
<1>7. CASE VoidRace \/ w.horse \in NonRunners
  <2>1. SettleFromPage(w).returns = Refund
    BY <1>7 DEF SettleFromPage, Slip
  <2>2. FairReturns(w) = Refund
    BY <1>7 DEF FairReturns, VoidRace, Walkover, NonRunners
  <2>3. Refund \in Nat
    BY DEF Refund, StakeUnits
  <2> QED BY <2>1, <2>2, <2>3
<1>8. CASE ~(VoidRace \/ w.horse \in NonRunners)
  <2>1. SettleFromPage(w).returns = AfterCommission(win + place, w)
    BY <1>8 DEF SettleFromPage, Slip
  <2>2. FairReturns(w) = AfterCommission(fairWin + fairPlace, w)
    BY <1>8 DEF FairReturns, VoidRace, Walkover, NonRunners
  <2> HIDE DEF win, place, fairWin, fairPlace
  <2>3. /\ win + place \in Nat /\ fairWin + fairPlace \in Nat
        /\ win + place <= fairWin + fairPlace
        /\ place = fairPlace => win + place = fairWin + fairPlace
    BY <1>4, <1>5
  <2>4. AfterCommission(win + place, w) <= AfterCommission(fairWin + fairPlace, w)
    BY <1>1, <2>3, CommissionGrows
  <2> QED BY <1>6, <2>1, <2>2, <2>3, <2>4
<1> QED BY <1>7, <1>8

(* The race stays as it was, what is read of it is a page or rows, and what  *)
(* was settled from a page that gives enough is paid by the rules.           *)
PaidInv ==
    /\ RaceOK
    /\ page \in {"none", "early", "result", "deducted"}
    /\ betsp \in {"none", "priced", "resulted"}
    /\ PaidByTheRules

(* What the rules give depends on the race and the ticket alone.             *)
LEMMA RulesAreFixed ==
    ASSUME UNCHANGED <<ran, price, quoted, numPlaces, ticket>>
    PROVE  /\ Out' = Out /\ (RaceOK' <=> RaceOK)
           /\ FairReturns(ticket)' = FairReturns(ticket)
<1>1. Out' = Out
  BY DEF Out
<1>2. RaceOK' <=> RaceOK
  BY <1>1 DEF RaceOK
<1>3. FairReturns(ticket)' = FairReturns(ticket)
  <2>1. Walkover' = Walkover
    BY <1>1 DEF Walkover
  <2>2. CombinedRule4(Out)' = CombinedRule4(Out)
    <3>1. Deductions' = Deductions
      BY <1>1 DEF Deductions
    <3> QED BY <1>1, <3>1 DEF CombinedRule4
  <2>3. PlacesUsed(ticket)' = PlacesUsed(ticket)
    BY DEF PlacesUsed
  <2>4. \A h, n : PlacesLeft(h, n)' = PlacesLeft(h, n) /\ Tied(h)' = Tied(h)
    BY DEF PlacesLeft, Tied
  <2>5. \A stake, winnings, h, n :
            FairLeg(stake, winnings, h, n)' = FairLeg(stake, winnings, h, n)
    BY <2>2, <2>4 DEF FairLeg
  <2> QED BY <1>1, <2>1, <2>3, <2>5 DEF FairReturns
<1> QED BY <1>1, <1>2, <1>3

(* Initially and after each step.                                            *)
LEMMA PaidInit == TicketsInit => PaidInv
<1> SUFFICES ASSUME TicketsInit PROVE PaidInv
  OBVIOUS
<1>1. ran \in [Field -> Int]
  <2>1. ran \in [Field -> {DidNotRun, DidNotFinish} \cup 1..Cardinality(Field)]
    BY DEF TicketsInit, Placings
  <2> QED BY <2>1 DEF DidNotRun, DidNotFinish
<1>2. PaidByTheRules
  BY DEF TicketsInit, PaidByTheRules, Unsettled, Slip
<1> QED BY <1>1, <1>2 DEF TicketsInit, PaidInv, RaceOK

(* Every step keeps it: a settled ticket's race is read no more.             *)
LEMMA PaidNext == PaidInv /\ [TicketsNext]_ticketVars => PaidInv'
<1> SUFFICES ASSUME PaidInv, [TicketsNext]_ticketVars PROVE PaidInv'
  OBVIOUS
<1>1. UNCHANGED <<ran, price, quoted, numPlaces, ticket>>
  BY DEF TicketsNext, ArchivePage, WriteRows, Settlement, ticketVars
<1>2. RaceOK /\ RaceOK' /\ Out' = Out /\ FairReturns(ticket)' = FairReturns(ticket)
  BY <1>1, RulesAreFixed DEF PaidInv
<1>3. /\ page' \in {"none", "early", "result", "deducted"}
      /\ betsp' \in {"none", "priced", "resulted"}
  BY DEF PaidInv, TicketsNext, ArchivePage, WriteRows, Settlement, ticketVars
<1>4. CASE slip' = slip
  BY <1>1, <1>2, <1>3, <1>4 DEF PaidInv, PaidByTheRules
<1>5. CASE slip' = SettleFromPage(ticket)
  <2>1. slip'.by = page
    BY <1>5 DEF SettleFromPage, Slip
  <2>2. slip'.returns = SettleFromPage(ticket).returns
    BY <1>5
  <2> QED
    BY <1>1, <1>2, <1>3, <2>1, <2>2, PageIsFair DEF PaidInv, PaidByTheRules
<1>6. CASE slip' = SettleFromRow(ticket)
  <2>1. slip'.by = betsp
    BY <1>6 DEF SettleFromRow, Slip
  <2> QED BY <1>2, <1>3, <2>1 DEF PaidInv, PaidByTheRules
<1> QED
  BY <1>4, <1>5, <1>6 DEF TicketsNext, ArchivePage, WriteRows, Settlement, ticketVars

(* Whatever arrives and in whichever order, for every field, price, term and *)
(* commission: a ticket settled from a page that gives the deduction, or     *)
(* every price it follows from, is never paid more than the rules give it,   *)
(* and a win ticket is paid exactly that.                                    *)
THEOREM PaymentsAreDue == TicketsSpec => []PaidByTheRules
<1>1. PaidInv => PaidByTheRules
  BY DEF PaidInv
<1> QED BY <1>1, PaidInit, PaidNext, PTL DEF TicketsSpec

-------------------------------------------------------------------------------
(* Bets. *)

(* A bet no other start can be taken for: its race is the only one of its    *)
(* meeting in the feed, and a bet with a horse id is on the one start of     *)
(* that horse.  Without it bets are settled by races they are not on, as the *)
(* run bs_wrong_race shows of a horse with another race.                     *)
Unmistakable(bet) ==
    /\ \A race \in Races : MeetingOf[race] = MeetingOf[bet.run[2]] => race = bet.run[2]
    /\ bet.byId => \A run \in Runs : run[1] = bet.run[1] => run = bet.run

(* A dataset: one row of every runner of a race that is in it, with the      *)
(* position it finished in or none.                                          *)
OneRowEach(rows) == \A a, b \in rows : a.run = b.run => a = b
Dataset(rows) ==
    /\ \A row \in rows : /\ row.run \in Runs /\ HasRow(row.run)
                         /\ row.fetched \in Int /\ row.fetched <= fetches
                         /\ row.position \in {finish[row.run], 0}
    /\ OneRowEach(rows)
    /\ \A row \in rows : \A run \in Runs :
          (run[2] = row.run[2] /\ HasRow(run)) => \E other \in rows : other.run = run

(* One that has been written: its races are known, its open positions late.   *)
Published(rows) ==
    \A row \in rows : /\ row.run[2] \in known
                      /\ row.position # finish[row.run] => row.run \in late

(* Of rows of one horse and race, the only one is the last.                  *)
LEMMA OnlyIsLast ==
    ASSUME NEW rows, NEW row \in rows, row.fetched \in Int, \A other \in rows : other = row
    PROVE  Lasts(rows) = {row}
BY DEF Lasts, After

(* The rows such a bet is matched with are those of its own start.           *)
LEMMA MatchIsOwn ==
    ASSUME NEW rows, Dataset(rows), NEW bet \in Bets, Unmistakable(bet)
    PROVE  /\ \A row \in Match(rows, bet) : row \in rows /\ row.run = bet.run
           /\ (\E row \in rows : row.run = bet.run) => Match(rows, bet) # {}
<1> DEFINE byName == {row \in rows : /\ row.run[1] = bet.run[1]
                                     /\ MeetingOf[row.run[2]] = MeetingOf[bet.run[2]]}
<1>0. bet.run \in Runs /\ \A row \in rows : row.run \in Runs /\ row.run[2] \in Races
  BY BetsAssumption, RunsAssumption DEF Dataset
<1>1. \A row \in byName : row.run = bet.run
  BY <1>0, RunsAssumption
<1>2. \A row \in ByName(rows, bet) : row \in rows /\ row.run = bet.run
  BY <1>1 DEF ByName, Lasts
<1>3. ASSUME bet.byId
      PROVE  \A row \in ById(rows, bet.run[1]) : row \in rows /\ row.run = bet.run
  BY <1>0, <1>3 DEF ById, Lasts, Unmistakable
<1>4. ASSUME NEW row \in rows, row.run = bet.run PROVE ByName(rows, bet) # {}
  <2>1. row \in byName /\ row.fetched \in Int
    BY <1>4 DEF Dataset
  <2>2. \A other \in byName : other = row
    BY <1>1, <1>4 DEF Dataset, OneRowEach
  <2>3. Lasts(byName) = {row}
    BY <2>1, <2>2, OnlyIsLast
  <2> QED BY <2>3 DEF ByName
<1> QED BY <1>2, <1>3, <1>4 DEF Match

(* So whatever a pass decides for it is what happened, or that its position  *)
(* was late, whenever the pass has read the dataset.                         *)
LEMMA DecidesAsRan ==
    ASSUME NEW rows, Dataset(rows), Published(rows), NEW bet \in Bets, Unmistakable(bet),
           NEW o \in Decision(rows, bet)
    PROVE  AsRan(bet, o)
<1>1. CASE Match(rows, bet) # {}
  <2>1. PICK row \in Match(rows, bet) : o = OutcomeFor(bet, row.position)
    BY <1>1 DEF Decision
  <2>2. row \in rows /\ row.run = bet.run
    BY <2>1, MatchIsOwn
  <2>3. /\ HasRow(bet.run) /\ bet.run[2] \in known
        /\ \/ row.position = finish[bet.run]
           \/ row.position = 0 /\ bet.run \in late
    BY <2>2 DEF Dataset, Published
  <2>4. OutcomeFor(bet, 0) = "void"
    BY DEF OutcomeFor
  <2> QED BY <2>1, <2>3, <2>4 DEF AsRan, TrueOutcome
<1>2. CASE Match(rows, bet) = {}
  <2>1. MeetingOf[bet.run[2]] \in Raced(rows) /\ o = "void"
    BY <1>2 DEF Decision
  <2>2. PICK row \in rows : MeetingOf[row.run[2]] = MeetingOf[bet.run[2]]
    BY <2>1 DEF Raced
  <2>3. row.run[2] = bet.run[2]
    BY <2>2, RunsAssumption DEF Unmistakable, Dataset
  <2>4. ~HasRow(bet.run)
    BY <1>2, <2>3, MatchIsOwn, BetsAssumption DEF Dataset
  <2>5. bet.run[2] \in known
    BY <2>3 DEF Published
  <2> QED BY <2>1, <2>4, <2>5 DEF AsRan, TrueOutcome
<1> QED BY <1>1, <1>2

(* Of an older and a newer row of a start one is after the other, so that    *)
(* merging keeps one row of every start.                                     *)
LEMMA MergeKeepsOne ==
    ASSUME NEW old, NEW new, NEW now \in Int, OneRowEach(old), OneRowEach(new),
           \A row \in old : row.fetched \in Int /\ row.fetched < now,
           \A row \in new : row.fetched = now
    PROVE  /\ OneRowEach(KeepLast(old \cup new))
           /\ \A row \in old \cup new :
                 \E other \in KeepLast(old \cup new) : other.run = row.run
<1>0. PICK kept : kept = KeepLast(old \cup new)
  OBVIOUS
<1>1. \A row \in old \cup new : row \in kept <=>
          \A other \in old \cup new : other.run = row.run => ~After(other, row)
  BY <1>0 DEF Lasts, KeepLast
<1>2. \A row \in old \cup new : ~After(row, row)
  BY DEF After
<1>3. \A a \in old, b \in new : After(a, b) <=> ~After(b, a)
  BY DEF After
<1>4. \A row \in kept : row \in old \cup new
  BY <1>0 DEF KeepLast
<1>5. OneRowEach(kept)
  <2> SUFFICES ASSUME NEW a \in kept, NEW b \in kept, a.run = b.run PROVE a = b
    BY DEF OneRowEach
  <2>1. ~After(a, b) /\ ~After(b, a)
    BY <1>1, <1>4
  <2>2. (a \in old /\ b \in old) \/ (a \in new /\ b \in new)
    BY <1>3, <1>4, <2>1
  <2> QED BY <2>2 DEF OneRowEach
<1>6. ASSUME NEW row \in old \cup new PROVE \E other \in kept : other.run = row.run
  <2>1. CASE row \in kept
    BY <2>1
  <2>2. CASE row \notin kept
    <3>1. PICK other \in old \cup new : other.run = row.run /\ After(other, row)
      BY <1>1, <2>2
    <3>2. \/ row \in old /\ other \in new
          \/ row \in new /\ other \in old
      BY <1>2, <3>1 DEF OneRowEach
    <3>3. ASSUME NEW third \in old \cup new, third.run = other.run
          PROVE  third = row \/ third = other
      BY <3>1, <3>2, <3>3 DEF OneRowEach
    <3>4. other \in kept
      BY <1>1, <1>2, <1>3, <3>1, <3>2, <3>3
    <3> QED BY <3>1, <3>4
  <2> QED BY <2>1, <2>2
<1> QED BY <1>0, <1>5, <1>6

(* Merging a race into a dataset gives a dataset.                            *)
LEMMA MergeIsDataset ==
    ASSUME fetches \in Nat, NEW found, Dataset(found), NEW race \in Races,
           NEW named \in SUBSET {run \in Runs : run[2] = race /\ finish[run] > 0},
           FetchMerges(race, named, found), NEW rows \in merged'
    PROVE  rows \in merged \/ Dataset(rows)'
<1> SUFFICES ASSUME rows \notin merged PROVE Dataset(rows)'
  OBVIOUS
<1> DEFINE runners == {r \in Runs : r[2] = race /\ HasRow(r)}
<1> DEFINE new == {[run |-> run, fetched |-> fetches + 1,
                    position |-> IF run \in named THEN finish[run] ELSE 0] : run \in runners}
<1>0. /\ rows = KeepLast(found \cup new)
      /\ finish' = finish /\ fetches' = fetches + 1
      /\ \A run : HasRow(run)' <=> HasRow(run)
  BY DEF FetchMerges, HasRow
<1>1. \A row \in new : /\ row.run \in runners /\ row.fetched = fetches + 1
                       /\ row.position = IF row.run \in named THEN finish[row.run] ELSE 0
  OBVIOUS
<1>2. ASSUME NEW run \in runners PROVE \E row \in new : row.run = run
  <2>1. PICK position : position = IF run \in named THEN finish[run] ELSE 0
    OBVIOUS
  <2>2. [run |-> run, fetched |-> fetches + 1, position |-> position] \in new
    BY <2>1
  <2>3. [run |-> run, fetched |-> fetches + 1, position |-> position].run = run
    OBVIOUS
  <2> QED BY <2>2, <2>3
<1>3. OneRowEach(new)
  BY DEF OneRowEach
<1> HIDE DEF new
<1>4. /\ OneRowEach(rows)
      /\ \A row \in found \cup new : \E other \in rows : other.run = row.run
  <2>1. /\ OneRowEach(found)
        /\ \A row \in found : row.fetched \in Int /\ row.fetched < fetches + 1
    BY DEF Dataset
  <2>2. PICK fresh, now : fresh = new /\ now = fetches + 1
    OBVIOUS
  <2>3. \A row \in fresh : row.fetched = now
    BY <1>1, <2>2
  <2>4. \A row \in found : row.fetched \in Int /\ row.fetched < now
    BY <2>1, <2>2
  <2>5. /\ OneRowEach(KeepLast(found \cup fresh))
        /\ \A row \in found \cup fresh :
              \E other \in KeepLast(found \cup fresh) : other.run = row.run
    BY <1>3, <2>1, <2>2, <2>3, <2>4, MergeKeepsOne, fetches + 1 \in Int
  <2> QED BY <1>0, <2>2, <2>5
<1>5. \A row \in rows : row \in found \cup new
  BY <1>0 DEF KeepLast
<1>6. ASSUME NEW row \in rows
      PROVE  /\ row.run \in Runs /\ HasRow(row.run)
             /\ row.fetched \in Int /\ row.fetched <= fetches + 1
             /\ row.position \in {finish[row.run], 0}
  <2>1. CASE row \in found
    BY <2>1 DEF Dataset
  <2>2. CASE row \in new
    BY <1>1, <2>2
  <2> QED BY <1>5, <2>1, <2>2
<1>7. ASSUME NEW row \in rows, NEW run \in Runs, run[2] = row.run[2], HasRow(run)
      PROVE  \E other \in rows : other.run = run
  <2>1. CASE row \in found
    <3>1. PICK other \in found : other.run = run
      BY <1>7, <2>1 DEF Dataset
    <3> QED BY <1>4, <3>1
  <2>2. CASE row \in new
    <3>1. run \in runners
      BY <1>1, <1>7, <2>2
    <3>2. PICK other \in new : other.run = run
      BY <1>2, <3>1
    <3> QED BY <1>4, <3>2
  <2> QED BY <1>5, <2>1, <2>2
<1> QED BY <1>0, <1>4, <1>6, <1>7 DEF Dataset, OneRowEach

(* Every dataset is one, read, merged or written, those that were written    *)
(* are on record, and what a pass holds to be written is right.              *)
BetsInv ==
    /\ fetches \in Nat
    /\ Dataset(feed) /\ Published(feed) /\ \A rows \in merged : Dataset(rows)
    /\ DOMAIN outcome \subseteq Bets
    /\ todo \in [Passes -> SUBSET Bets] /\ DOMAIN view = Passes /\ DOMAIN checked = Passes
    /\ \A p \in Passes :
          /\ Dataset(view[p]) /\ Published(view[p])
          /\ \A s \in checked[p] : s.bet \in Bets /\ AsRan(s.bet, s.outcome)
    /\ SettledAsRan

(* Nothing is placed and nothing is fetched at first.                        *)
LEMMA BetsBegin == BetsInit => BetsInv
BY DEF BetsInit, BetsInv, SettledAsRan, Dataset, OneRowEach, Published

(* While no result changes, a dataset stays one, and what is on record stays *)
(* on record.                                                                *)
LEMMA RecordGrows ==
    ASSUME fetches \in Int, fetches' \in Int, fetches <= fetches', finish' = finish,
           known \subseteq known', late \subseteq late'
    PROVE  /\ \A rows : Dataset(rows) => Dataset(rows)'
           /\ \A rows : Published(rows) => Published(rows)'
           /\ \A bet, o : AsRan(bet, o) => AsRan(bet, o)'
<1>1. \A run : HasRow(run)' <=> HasRow(run)
  BY DEF HasRow
<1>2. \A bet : TrueOutcome(bet)' = TrueOutcome(bet)
  BY <1>1 DEF TrueOutcome
<1>3. ASSUME NEW rows, Dataset(rows) PROVE Dataset(rows)'
  <2>1. \A row \in rows : row.fetched \in Int /\ row.fetched <= fetches'
    BY <1>3 DEF Dataset
  <2> QED BY <1>1, <1>3, <2>1 DEF Dataset, OneRowEach
<1>4. \A rows : Published(rows) => Published(rows)'
  BY DEF Published
<1>5. \A bet, o : AsRan(bet, o) => AsRan(bet, o)'
  BY <1>2 DEF AsRan
<1> QED BY <1>3, <1>4, <1>5

(* Every step of every pass and fetch keeps the invariant. *)
LEMMA BetsStep ==
    (\A bet \in Bets : Unmistakable(bet)) /\ BetsInv /\ [BetsNext]_betsVars => BetsInv'
<1> SUFFICES ASSUME \A bet \in Bets : Unmistakable(bet), BetsInv, [BetsNext]_betsVars
             PROVE  BetsInv'
  OBVIOUS
<1>0. /\ fetches \in Nat
      /\ Dataset(feed) /\ Published(feed) /\ \A rows \in merged : Dataset(rows)
      /\ DOMAIN outcome \subseteq Bets
      /\ todo \in [Passes -> SUBSET Bets] /\ DOMAIN view = Passes /\ DOMAIN checked = Passes
      /\ \A p \in Passes :
            /\ Dataset(view[p]) /\ Published(view[p])
            /\ \A s \in checked[p] : s.bet \in Bets /\ AsRan(s.bet, s.outcome)
      /\ \A bet \in DOMAIN outcome : outcome[bet] = Open \/ AsRan(bet, outcome[bet])
  BY DEF BetsInv, SettledAsRan
<1>1. Dataset({}) /\ Published({})
  BY DEF Dataset, OneRowEach, Published
<1>2. ASSUME fetches' \in Nat, fetches <= fetches', finish' = finish,
             known \subseteq known', late \subseteq late',
             \A rows \in merged' : rows \in merged \/ Dataset(rows)',
             feed' = feed \/ (feed' \in merged /\ Published(feed)'),
             todo' \in [Passes -> SUBSET Bets],
             DOMAIN view' = Passes, DOMAIN checked' = Passes,
             \A q \in Passes : view'[q] \in {{}, feed, view[q]},
             \A q \in Passes : \A s \in checked'[q] : s.bet \in Bets /\ AsRan(s.bet, s.outcome),
             DOMAIN outcome' \subseteq Bets,
             \A bet \in DOMAIN outcome' : outcome'[bet] = Open \/ AsRan(bet, outcome'[bet])
      PROVE  BetsInv'
  <2>1. /\ \A rows : Dataset(rows) => Dataset(rows)'
        /\ \A rows : Published(rows) => Published(rows)'
        /\ \A bet, o : AsRan(bet, o) => AsRan(bet, o)'
    BY <1>0, <1>2, RecordGrows
  <2>2. \A rows \in merged' : Dataset(rows)'
    BY <1>0, <1>2, <2>1
  <2>3. Dataset(feed)' /\ Published(feed)'
    <3>1. PICK rows : rows = feed'
      OBVIOUS
    <3>2. Dataset(rows)'
      BY <1>0, <1>2, <2>1, <3>1
    <3>3. feed' = feed => Published(rows)'
      BY <1>0, <2>1, <3>1
    <3> QED BY <1>2, <3>1, <3>2, <3>3 DEF Dataset, OneRowEach, Published
  <2>4. ASSUME NEW q \in Passes
        PROVE  /\ Dataset(view[q])' /\ Published(view[q])'
               /\ \A s \in checked'[q] : s.bet \in Bets /\ AsRan(s.bet, s.outcome)'
    <3>1. PICK rows : rows = view'[q]
      OBVIOUS
    <3>2. Dataset(rows) /\ Published(rows)
      BY <1>0, <1>1, <1>2, <3>1
    <3>3. Dataset(rows)' /\ Published(rows)'
      BY <2>1, <3>2
    <3>4. Dataset(view[q])' /\ Published(view[q])'
      BY <3>1, <3>3 DEF Dataset, OneRowEach, Published
    <3> QED BY <1>2, <2>1, <3>4
  <2>5. SettledAsRan'
    <3>1. \A bet \in DOMAIN outcome' :
             outcome'[bet] = Open \/ \E o : o = outcome'[bet] /\ AsRan(bet, o)'
      BY <1>2, <2>1
    <3> QED BY <3>1 DEF SettledAsRan, AsRan
  <2> QED BY <1>2, <2>2, <2>3, <2>4, <2>5 DEF BetsInv
<1>3. ASSUME UNCHANGED feedVars,
             todo' \in [Passes -> SUBSET Bets],
             DOMAIN view' = Passes, DOMAIN checked' = Passes,
             \A q \in Passes : view'[q] \in {{}, feed, view[q]},
             \A q \in Passes : \A s \in checked'[q] : s.bet \in Bets /\ AsRan(s.bet, s.outcome),
             DOMAIN outcome' \subseteq Bets,
             \A bet \in DOMAIN outcome' : outcome'[bet] = Open \/ AsRan(bet, outcome'[bet])
      PROVE  BetsInv'
  <2>1. UNCHANGED <<finish, feed, fetches, merged, known, late>>
    BY <1>3 DEF feedVars
  <2>2. fetches' \in Nat /\ fetches <= fetches'
    BY <1>0, <2>1
  <2> QED BY <1>2, <1>3, <2>1, <2>2
<1>4. ASSUME NEW race \in Races, NEW found \in {feed, {}},
             NEW named \in SUBSET {run \in Runs : run[2] = race /\ finish[run] > 0},
             FetchMerges(race, named, found)
      PROVE  BetsInv'
  <2>1. UNCHANGED <<finish, feed, known, late, outcome, todo, view, checked>> /\ fetches' = fetches + 1
    BY <1>4 DEF FetchMerges
  <2>2. \A rows \in merged' : rows \in merged \/ Dataset(rows)'
    BY <1>0, <1>1, <1>4, MergeIsDataset
  <2>3. fetches' \in Nat /\ fetches <= fetches'
    BY <1>0, <2>1
  <2> QED BY <1>0, <1>2, <2>1, <2>2, <2>3
<1>5. ASSUME NEW rows \in merged, FetchWrites(rows) PROVE BetsInv'
  <2>1. /\ feed' = rows /\ merged' = merged \ {rows}
        /\ known' = known \cup {row.run[2] : row \in rows}
        /\ late' = late \cup {row.run : row \in {r \in rows : r.position # finish[r.run]}}
        /\ UNCHANGED <<finish, fetches, outcome, todo, view, checked>>
    BY <1>5 DEF FetchWrites
  <2>2. Published(feed)'
    BY <2>1 DEF Published
  <2>3. fetches' \in Nat /\ fetches <= fetches' /\ known \subseteq known' /\ late \subseteq late'
    BY <1>0, <2>1
  <2> QED BY <1>0, <1>2, <2>1, <2>2, <2>3
<1>6. ASSUME NEW p \in Passes, NEW bets \in SUBSET Bets, GoOn(p, bets)
      PROVE  /\ UNCHANGED feedVars
             /\ todo' \in [Passes -> SUBSET Bets] /\ DOMAIN view' = Passes
             /\ \A q \in Passes : view'[q] \in {{}, feed, view[q]}
  BY <1>0, <1>6 DEF GoOn
<1>7. ASSUME NEW bet \in Bets, PlaceBet(bet) PROVE BetsInv'
  <2>1. /\ outcome' = [b \in DOMAIN outcome \cup {bet} |->
                          IF b = bet THEN Open ELSE outcome[b]]
        /\ UNCHANGED <<feedVars, todo, view, checked>>
    BY <1>7 DEF PlaceBet
  <2> QED BY <1>0, <1>3, <2>1
<1>8. ASSUME NEW p \in Passes, StartPass(p) PROVE BetsInv'
  <2>1. /\ view' = [view EXCEPT ![p] = feed]
        /\ UNCHANGED <<feedVars, outcome, todo, checked>>
    BY <1>8 DEF StartPass
  <2> QED BY <1>0, <1>3, <2>1
<1>9. ASSUME NEW p \in Passes, NEW bets \in SUBSET Bets, GoOn(p, bets),
             UNCHANGED <<outcome, checked>>
      PROVE  BetsInv'
  BY <1>0, <1>3, <1>6, <1>9
<1>10. ASSUME NEW p \in Passes, ListPending(p) PROVE BetsInv'
  <2>1. PendingBets \in SUBSET Bets
    BY <1>0 DEF PendingBets
  <2> QED BY <1>9, <1>10, <2>1 DEF ListPending
<1>11. ASSUME NEW p \in Passes, NEW bet \in todo[p], LeaveBet(p, bet) \/ FindSettled(p, bet)
       PROVE  BetsInv'
  <2>1. {} \in SUBSET Bets /\ todo[p] \ {bet} \in SUBSET Bets
    BY <1>0
  <2> QED BY <1>9, <1>11, <2>1 DEF LeaveBet, FindSettled
<1>12. ASSUME NEW p \in Passes, NEW bet \in todo[p], FindPending(p, bet) PROVE BetsInv'
  <2>1. PICK o \in Decision(view[p], bet) :
           checked' = [checked EXCEPT ![p] = {[bet |-> bet, outcome |-> o]}]
    BY <1>12 DEF FindPending
  <2>2. UNCHANGED <<feedVars, outcome, todo, view>>
    BY <1>12 DEF FindPending
  <2>3. bet \in Bets
    BY <1>0
  <2>4. AsRan(bet, o)
    BY <1>0, <2>3, DecidesAsRan
  <2>5. \A q \in Passes : \A s \in checked'[q] : s.bet \in Bets /\ AsRan(s.bet, s.outcome)
    <3> SUFFICES ASSUME NEW q \in Passes, NEW s \in checked'[q]
                 PROVE  s.bet \in Bets /\ AsRan(s.bet, s.outcome)
      OBVIOUS
    <3>1. CASE q = p
      <4>1. s = [bet |-> bet, outcome |-> o]
        BY <1>0, <2>1, <3>1
      <4>2. s.bet = bet /\ s.outcome = o
        BY <4>1
      <4> QED BY <2>3, <2>4, <4>2
    <3>2. CASE q # p
      <4>1. s \in checked[q]
        BY <1>0, <2>1, <3>2
      <4> QED BY <1>0, <4>1
    <3> QED BY <3>1, <3>2
  <2>6. DOMAIN checked' = Passes
    BY <1>0, <2>1
  <2> QED BY <1>0, <1>3, <2>2, <2>5, <2>6
<1>13. ASSUME NEW p \in Passes, NEW s \in checked[p], WriteOutcome(p, s) PROVE BetsInv'
  <2>1. /\ outcome' = [outcome EXCEPT ![s.bet] = s.outcome]
        /\ checked' = [checked EXCEPT ![p] = {}]
        /\ GoOn(p, todo[p] \ {s.bet})
    BY <1>13 DEF WriteOutcome
  <2>2. /\ UNCHANGED feedVars
        /\ todo' \in [Passes -> SUBSET Bets] /\ DOMAIN view' = Passes
        /\ \A q \in Passes : view'[q] \in {{}, feed, view[q]}
    <3>1. todo[p] \ {s.bet} \in SUBSET Bets
      BY <1>0
    <3> QED BY <1>6, <2>1, <3>1
  <2>3. AsRan(s.bet, s.outcome)
    BY <1>0
  <2>4. DOMAIN outcome' = DOMAIN outcome /\ DOMAIN checked' = Passes
    BY <1>0, <2>1
  <2>5. \A bet \in DOMAIN outcome' : outcome'[bet] = Open \/ AsRan(bet, outcome'[bet])
    <3> SUFFICES ASSUME NEW bet \in DOMAIN outcome', outcome'[bet] # Open
                 PROVE  AsRan(bet, outcome'[bet])
      OBVIOUS
    <3>1. CASE bet = s.bet
      <4>1. outcome'[bet] = s.outcome
        BY <2>1, <2>4, <3>1
      <4> QED BY <2>3, <3>1, <4>1
    <3>2. CASE bet # s.bet
      <4>1. outcome'[bet] = outcome[bet] /\ bet \in DOMAIN outcome
        BY <2>1, <2>4, <3>2
      <4> QED BY <1>0, <4>1
    <3> QED BY <3>1, <3>2
  <2>6. \A q \in Passes : \A t \in checked'[q] : t.bet \in Bets /\ AsRan(t.bet, t.outcome)
    BY <1>0, <2>1
  <2> QED BY <1>0, <1>3, <2>2, <2>4, <2>5, <2>6
<1>14. CASE UNCHANGED betsVars
  <2>1. UNCHANGED <<feedVars, outcome, todo, view, checked>>
    BY <1>14 DEF betsVars, feedVars
  <2> QED BY <1>0, <1>3, <2>1
<1> QED BY <1>4, <1>5, <1>7, <1>8, <1>10, <1>11, <1>12, <1>13, <1>14 DEF BetsNext, PassStep

(* "Un-scraped races are never mis-settled", for any races, bets, fetches    *)
(* and passes as long as no bet can be taken for one on another start: a     *)
(* settled bet's own race has been in the feed, and it is settled by what    *)
(* happened in it, by passes that read the feed at whatever time and         *)
(* overtake each other and fetches that overwrite each other, unless the     *)
(* dataset held the horse's row without its position: then it may be void.   *)
THEOREM BetsSettledAsRan ==
    ASSUME \A bet \in Bets : Unmistakable(bet)
    PROVE  BetsSpec => []SettledAsRan
<1>1. BetsInv => SettledAsRan
  BY DEF BetsInv
<1>2. BetsInv /\ [BetsNext]_betsVars => BetsInv'
  BY BetsStep
<1> QED BY <1>1, <1>2, BetsBegin, PTL DEF BetsSpec

(* For such bets, and however many passes settle them from feeds they read   *)
(* at different times, an outcome that has been written is never replaced by *)
(* another, although settle_bet overwrites it: what was held to be written   *)
(* is what has been written.                                                 *)
THEOREM OutcomesAreFinal ==
    ASSUME \A bet \in Bets : Unmistakable(bet)
    PROVE  BetsSpec => SettledForGood
<1> DEFINE Keeps == \A bet \in DOMAIN outcome :
                       (outcome[bet] # Open /\ bet.run \notin late)
                           => outcome'[bet] = outcome[bet]
<1>1. BetsInv /\ [BetsNext]_betsVars => [Keeps]_betsVars
  <2> SUFFICES ASSUME BetsInv, BetsNext PROVE Keeps
    OBVIOUS
  <2>1. ASSUME NEW bet \in Bets, PlaceBet(bet) PROVE Keeps
    BY <2>1 DEF PlaceBet
  <2>2. ASSUME NEW p \in Passes, NEW s \in checked[p], WriteOutcome(p, s) PROVE Keeps
    <3> SUFFICES ASSUME NEW bet \in DOMAIN outcome, outcome[bet] # Open,
                        bet.run \notin late
                 PROVE  outcome'[bet] = outcome[bet]
      OBVIOUS
    <3>1. outcome' = [outcome EXCEPT ![s.bet] = s.outcome]
      BY <2>2 DEF WriteOutcome
    <3>2. CASE bet = s.bet
      <4>1. AsRan(bet, outcome[bet]) /\ AsRan(bet, s.outcome)
        BY <3>2 DEF BetsInv, SettledAsRan
      <4>2. outcome[bet] = s.outcome
        BY <4>1 DEF AsRan
      <4> QED BY <3>1, <3>2, <4>2
    <3>3. CASE bet # s.bet
      BY <3>1, <3>3
    <3> QED BY <3>2, <3>3
  <2>3. ASSUME UNCHANGED outcome PROVE Keeps
    BY <2>3
  <2> QED BY <2>1, <2>2, <2>3 DEF BetsNext, PassStep, FetchMerges, FetchWrites, StartPass, ListPending,
                                  LeaveBet, FindSettled, FindPending
<1>2. BetsInv /\ [BetsNext]_betsVars => BetsInv'
  BY BetsStep
<1> QED BY <1>1, <1>2, BetsBegin, PTL DEF BetsSpec, SettledForGood

-------------------------------------------------------------------------------
(* The simulated walk. *)

(* The bets of a day and of a race, and what a bet had to be within.         *)
OfDay(rows, d) == {n \in DOMAIN rows : rows[n].day = d}
OfRace(rows, r) == {n \in DOMAIN rows : rows[n].race = r}
Binds(rows, stakes, profits, n) ==
    LET before == 1..(n - 1)
        day == {m \in before : rows[m].day = rows[n].day}
        race == {m \in before : rows[m].race = rows[n].race}
    IN  /\ Total(stakes, day) + rows[n].stake <= Percent(DayPct, Start)
        /\ Total(stakes, race) + rows[n].stake
              <= Percent(RacePct, Start + Total(profits, before))
        /\ Total(profits, day) > 0 - Percent(LossPct, Start)
        /\ Start + Total(profits, before) > Start - Percent(StopPct, Start)

WalkBets == [day : Nat, race : DOMAIN Walk, stake : Int, profit : Int]

(* The counters are what the ledger adds up to: the bankroll over all of it, *)
(* the others over the race and the day the walk is at.  No bet is of a race *)
(* to come.                                                                  *)
WalkInv ==
    /\ at \in [race : 1..(Len(Walk) + 1), pick : Nat]
    /\ counters \in [race : Int, staked : Int, profit : Int]
    /\ ledger \in Seq(WalkBets)
    /\ \A n \in DOMAIN ledger : /\ ledger[n].race <= at.race
                                /\ ledger[n].day = Walk[ledger[n].race].day
    /\ bankroll = Start + Total(Profits, DOMAIN ledger)
    /\ counters.race = Total(Stakes, OfRace(ledger, at.race))
    /\ at.race \in DOMAIN Walk =>
          /\ counters.staked = Total(Stakes, OfDay(ledger, Walk[at.race].day))
          /\ counters.profit = Total(Profits, OfDay(ledger, Walk[at.race].day))
    /\ LimitsBind

(* The walk goes through numbered races whose days never go back.            *)
LEMMA WalkFacts ==
    /\ Walk \in Seq([day : Nat, picks : Nat]) /\ Len(Walk) \in Nat
    /\ DOMAIN Walk = 1..Len(Walk) /\ \A r \in DOMAIN Walk : Walk[r].day \in Nat
    /\ \A i, j \in DOMAIN Walk : i <= j => Walk[i].day <= Walk[j].day
    /\ Start \in Nat
<1>1. Walk \in Seq([day : Nat, picks : Nat])
  BY WalkAssumption
<1>2. Len(Walk) \in Nat /\ DOMAIN Walk = 1..Len(Walk)
  BY <1>1
<1>3. \A r \in DOMAIN Walk : Walk[r] \in [day : Nat, picks : Nat]
  <2> DEFINE S == [day : Nat, picks : Nat]
  <2>1. Walk \in Seq(S)
    BY <1>1
  <2> HIDE DEF S
  <2>2. \A r \in DOMAIN Walk : Walk[r] \in S
    BY <1>2, <2>1
  <2> QED BY <2>2 DEF S
<1>4. \A r \in DOMAIN Walk : Walk[r].day \in Nat
  BY <1>3
<1> QED BY <1>1, <1>2, <1>4, WalkAssumption

(* A share of an amount is a number of steps.                                *)
LEMMA PercentIsInt ==
    ASSUME NEW pct \in {BetPct, RacePct, DayPct, LossPct, StopPct}, NEW amount \in Int
    PROVE  Percent(pct, amount) \in Int
<1>1. pct \in Int
  BY WalkAssumption
<1>2. pct * amount \in Int
  BY <1>1
<1> QED BY <1>2 DEF Percent

(* The amounts of the ledger are integers, and so is what they add up to.    *)
LEMMA TotalIsInt ==
    ASSUME NEW k \in Nat, NEW amounts \in [1..k -> Int]
    PROVE  \A bets \in SUBSET (1..k) : Total(amounts, bets) \in Int
<1> SUFFICES ASSUME NEW bets \in SUBSET (1..k) PROVE Total(amounts, bets) \in Int
  OBVIOUS
<1>1. IsFiniteSet(bets)
  <2>1. IsFiniteSet(1..k)
    BY FS_Interval
  <2> QED BY <2>1, FS_Subset
<1>2. \A n \in bets : amounts[n] \in Int
  OBVIOUS
<1>3. Total(amounts, bets) = Sum(amounts, bets)
  BY DEF Total, Sum
<1> QED BY <1>1, <1>2, <1>3, SumInt

(* One bet more adds its amount to the sets it joins, and to no other.       *)
LEMMA TotalOneMore ==
    ASSUME NEW k \in Nat, NEW less \in [1..k -> Int], NEW more \in [1..(k + 1) -> Int],
           \A n \in 1..k : more[n] = less[n], NEW bets \in SUBSET (1..k)
    PROVE  /\ Total(more, bets) = Total(less, bets)
           /\ Total(more, bets \cup {k + 1}) = Total(less, bets) + more[k + 1]
<1>1. IsFiniteSet(bets) /\ k + 1 \notin bets
  <2>1. IsFiniteSet(1..k)
    BY FS_Interval
  <2>2. IsFiniteSet(bets)
    BY <2>1, FS_Subset
  <2> QED BY <2>2
<1>2. /\ \A n \in bets : less[n] \in Int /\ more[n] = less[n]
      /\ \A n \in bets \cup {k + 1} : more[n] \in Int
  OBVIOUS
<1>3. Sum(more, bets) = Sum(less, bets)
  BY <1>1, <1>2, SumSame
<1>4. Sum(more, bets \cup {k + 1}) = Sum(more, bets) + more[k + 1]
  BY <1>1, <1>2, SumAdd
<1>5. \A f, S : Total(f, S) = Sum(f, S)
  BY DEF Total, Sum
<1> QED BY <1>3, <1>4, <1>5

(* No bets add up to nothing.                                                *)
LEMMA TotalOfNone == ASSUME NEW amounts PROVE Total(amounts, {}) = 0
<1>1. Total(amounts, {}) = Sum(amounts, {})
  BY DEF Total, Sum
<1> QED BY <1>1, SumEmpty

(* The amounts of the ledger, by their bets.                                 *)
LEMMA LedgerAmounts ==
    ASSUME ledger \in Seq(WalkBets)
    PROVE  /\ Len(ledger) \in Nat /\ DOMAIN ledger = 1..Len(ledger)
           /\ Stakes \in [1..Len(ledger) -> Int] /\ Profits \in [1..Len(ledger) -> Int]
           /\ \A n \in DOMAIN ledger : ledger[n] \in WalkBets
<1>1. /\ Len(ledger) \in Nat /\ DOMAIN ledger = 1..Len(ledger)
      /\ \A n \in DOMAIN ledger : ledger[n] \in WalkBets
  OBVIOUS
<1>2. \A n \in DOMAIN ledger : ledger[n].stake \in Int /\ ledger[n].profit \in Int
  BY <1>1 DEF WalkBets
<1> QED BY <1>1, <1>2 DEF Stakes, Profits

(* A stake that was sized fits in what the race has left.                    *)
LEMMA SizedFits ==
    ASSUME bankroll \in Int, counters \in [race : Int, staked : Int, profit : Int],
           NEW kelly \in KellyStakes, Sized(kelly) > 0
    PROVE  /\ Sized(kelly) \in Nat
           /\ counters.race + Sized(kelly) <= Percent(RacePct, bankroll)
<1> DEFINE a == Percent(BetPct, bankroll)
<1> DEFINE ceiling == Percent(RacePct, bankroll)
<1> DEFINE b == Room(ceiling, counters.race)
<1> DEFINE c == Room(Percent(DayPct, bankroll), counters.staked)
<1> DEFINE most == Min({kelly, a, LiabilityCap, b, c})
<1>1. a \in Int /\ ceiling \in Int /\ Percent(DayPct, bankroll) \in Int
  BY PercentIsInt
<1>2. counters.race \in Int /\ counters.staked \in Int
  OBVIOUS
<1>3. \A x, y \in Int : Room(x, y) \in Int /\ (Room(x, y) = 0 \/ Room(x, y) = x - y)
  <2> SUFFICES ASSUME NEW x \in Int, NEW y \in Int
               PROVE  Room(x, y) \in Int /\ (Room(x, y) = 0 \/ Room(x, y) = x - y)
    OBVIOUS
  <2>1. \E m \in {0, x - y} : \A z \in {0, x - y} : m >= z
    OBVIOUS
  <2>2. Max({0, x - y}) \in {0, x - y}
    BY <2>1 DEF Max
  <2> QED BY <2>2 DEF Room
<1>4. /\ kelly \in Nat /\ LiabilityCap \in Nat /\ Minimum \in Nat
      /\ a \in Int /\ b \in Int /\ c \in Int
  BY <1>1, <1>2, <1>3, WalkAssumption
<1>5. Sized(kelly) = IF most < Minimum THEN 0 ELSE most
  BY DEF Sized
<1>6. b = 0 \/ b = ceiling - counters.race
  BY <1>1, <1>2, <1>3
<1> HIDE DEF a, b, c, ceiling
<1>7. \E x \in {kelly, a, LiabilityCap, b, c} :
         \A y \in {kelly, a, LiabilityCap, b, c} : x <= y
  <2>1. \A p, q \in Int : \E x \in {p, q} : x <= p /\ x <= q
    OBVIOUS
  <2>2. PICK x \in {kelly, a} : x <= kelly /\ x <= a
    BY <1>4, <2>1
  <2>3. PICK y \in {b, c} : y <= b /\ y <= c
    BY <1>4, <2>1
  <2>4. PICK z \in {x, y} : z <= x /\ z <= y
    BY <1>4, <2>1
  <2>5. PICK u \in {z, LiabilityCap} : u <= z /\ u <= LiabilityCap
    BY <1>4, <2>1
  <2>6. /\ u \in {kelly, a, LiabilityCap, b, c}
        /\ u <= kelly /\ u <= a /\ u <= LiabilityCap /\ u <= b /\ u <= c
    BY <1>4, <2>2, <2>3, <2>4, <2>5
  <2> QED BY <2>6
<1>8. most \in {kelly, a, LiabilityCap, b, c} /\ most <= b
  BY <1>7 DEF Min
<1> HIDE DEF most
<1>9. most \in Int /\ Sized(kelly) = most /\ most > 0
  BY <1>4, <1>5, <1>8
<1>10. b = ceiling - counters.race
  BY <1>4, <1>6, <1>8, <1>9
<1> QED BY <1>1, <1>2, <1>4, <1>8, <1>9, <1>10 DEF ceiling

(* What no safeguard blocks.                                                 *)
LEMMA NotBlocked ==
    ASSUME NEW stake, Blocks(stake) = {}, bankroll \in Int, stake \in Int,
           counters \in [race : Int, staked : Int, profit : Int]
    PROVE  /\ bankroll > Start - Percent(StopPct, Start)
           /\ counters.profit > 0 - Percent(LossPct, Start)
           /\ counters.staked + stake <= Percent(DayPct, Start)
<1>1. /\ Percent(StopPct, Start) \in Int /\ Percent(LossPct, Start) \in Int
      /\ Percent(DayPct, Start) \in Int /\ Start \in Int
  <2>1. Start \in Int
    BY WalkFacts
  <2> QED BY <2>1, PercentIsInt
<1>2. ~(bankroll <= Start - Percent(StopPct, Start))
  <2>1. "bankroll_stop_loss" \notin Blocks(stake)
    OBVIOUS
  <2> QED BY <2>1 DEF Blocks
<1>3. ~(counters.profit <= 0 - Percent(LossPct, Start))
  <2>1. "daily_loss_limit" \notin Blocks(stake)
    OBVIOUS
  <2> QED BY <2>1 DEF Blocks
<1>4. ~(counters.staked + stake > Percent(DayPct, Start))
  <2>1. "daily_exposure_limit" \notin Blocks(stake)
    OBVIOUS
  <2> QED BY <2>1 DEF Blocks
<1>5. counters.staked \in Int /\ counters.profit \in Int
  OBVIOUS
<1> QED BY <1>1, <1>2, <1>3, <1>4, <1>5

(* The limits, bet by bet.                                                   *)
LEMMA LimitsUnpack ==
    /\ LimitsBind <=> \A n \in DOMAIN ledger : Binds(ledger, Stakes, Profits, n)
    /\ LimitsBind' <=> \A n \in DOMAIN ledger' : Binds(ledger', Stakes', Profits', n)
<1>1. LimitsBind <=> \A n \in DOMAIN ledger : Binds(ledger, Stakes, Profits, n)
  BY DEF LimitsBind, Binds
<1>2. LimitsBind' <=> \A n \in DOMAIN ledger' : Binds(ledger', Stakes', Profits', n)
  BY DEF LimitsBind, Binds
<1> QED BY <1>1, <1>2

(* It holds of the walk that has not begun.                                  *)
LEMMA LimitsInit == WalkInit => WalkInv
<1> SUFFICES ASSUME WalkInit PROVE WalkInv
  OBVIOUS
<1>1. /\ at.race = 1 /\ at \in [race : 1..(Len(Walk) + 1), pick : Nat]
      /\ counters.race = 0 /\ counters.staked = 0 /\ counters.profit = 0
      /\ counters \in [race : Int, staked : Int, profit : Int]
      /\ bankroll = Start
  BY WalkFacts DEF WalkInit, Zero
<1>2. ledger = <<>> /\ DOMAIN ledger = {} /\ ledger \in Seq(WalkBets)
  BY DEF WalkInit
<1>3. \A d : OfDay(ledger, d) = {} /\ OfRace(ledger, d) = {}
  BY <1>2 DEF OfDay, OfRace
<1>4. Start = Start + Total(Profits, DOMAIN ledger)
  BY <1>2, TotalOfNone, WalkFacts
<1>5. LimitsBind
  BY <1>2 DEF LimitsBind
<1> QED BY <1>1, <1>2, <1>3, <1>4, <1>5, TotalOfNone DEF WalkInv

(* The next race is of a day already walked, or of one without bets.         *)
LEMMA LimitsNextRace == ASSUME WalkInv, NextRace PROVE WalkInv'
<1>0. /\ UNCHANGED <<bankroll, ledger>> /\ at.race <= Len(Walk)
      /\ at.race \in Nat \ {0} /\ at' = [race |-> at.race + 1, pick |-> 1]
      /\ counters' = IF at.race < Len(Walk) /\ Walk[at.race + 1].day = Walk[at.race].day
                     THEN [counters EXCEPT !.race = 0] ELSE Zero
  BY WalkFacts DEF NextRace, WalkInv
<1>1. /\ at'.race = at.race + 1 /\ at' \in [race : 1..(Len(Walk) + 1), pick : Nat]
  BY <1>0, WalkFacts
<1>2. PICK r : r = at.race
  OBVIOUS
<1>3. ledger' = ledger /\ Stakes' = Stakes /\ Profits' = Profits /\ LimitsBind' = LimitsBind
  <2>1. ledger' = ledger
    BY <1>0
  <2> QED BY <2>1 DEF Stakes, Profits, LimitsBind
<1>4. PICK rows, stakes, profits : rows = ledger /\ stakes = Stakes /\ profits = Profits
  OBVIOUS
<1>5. /\ \A n \in DOMAIN rows : /\ rows[n] \in WalkBets /\ rows[n].race <= r
                                /\ rows[n].race \in DOMAIN Walk
                                /\ rows[n].day = Walk[rows[n].race].day
      /\ counters.staked = Total(stakes, OfDay(rows, Walk[r].day))
      /\ counters.profit = Total(profits, OfDay(rows, Walk[r].day))
  <2>1. r \in DOMAIN Walk
    BY <1>0, <1>2, WalkFacts
  <2>2. \A n \in DOMAIN rows : rows[n] \in WalkBets
    BY <1>4, LedgerAmounts DEF WalkInv
  <2> QED BY <1>2, <1>4, <2>1, <2>2 DEF WalkInv, WalkBets
<1>6. OfRace(rows, r + 1) = {}
  <2>1. \A n \in DOMAIN rows : rows[n].race \in Nat
    BY <1>5, WalkFacts
  <2> QED BY <1>0, <1>2, <1>5, <2>1 DEF OfRace
<1>7. /\ counters' \in [race : Int, staked : Int, profit : Int] /\ counters'.race = 0
  BY <1>0 DEF WalkInv, Zero
<1>8. r + 1 \in DOMAIN Walk =>
          /\ counters'.staked = Total(stakes, OfDay(rows, Walk[r + 1].day))
          /\ counters'.profit = Total(profits, OfDay(rows, Walk[r + 1].day))
  <2> SUFFICES ASSUME r + 1 \in DOMAIN Walk
               PROVE  /\ counters'.staked = Total(stakes, OfDay(rows, Walk[r + 1].day))
                      /\ counters'.profit = Total(profits, OfDay(rows, Walk[r + 1].day))
    OBVIOUS
  <2>0. r \in Nat \ {0} /\ r < Len(Walk) /\ r \in DOMAIN Walk
    BY <1>0, <1>2, WalkFacts
  <2>1. CASE Walk[r + 1].day = Walk[r].day
    <3>1. counters'.staked = counters.staked /\ counters'.profit = counters.profit
      BY <1>0, <1>2, <2>0, <2>1 DEF WalkInv
    <3> QED BY <1>5, <2>1, <3>1
  <2>2. CASE Walk[r + 1].day # Walk[r].day
    <3>1. counters'.staked = 0 /\ counters'.profit = 0
      BY <1>0, <1>2, <2>2 DEF Zero
    <3>2. Walk[r].day < Walk[r + 1].day
      <4>1. Walk[r].day <= Walk[r + 1].day /\ Walk[r].day \in Nat /\ Walk[r + 1].day \in Nat
        <5>1. r \in DOMAIN Walk /\ r + 1 \in DOMAIN Walk /\ r <= r + 1
          BY <2>0
        <5> QED BY <5>1, WalkFacts
      <4> QED BY <2>2, <4>1
    <3>3. ASSUME NEW n \in DOMAIN rows PROVE rows[n].day # Walk[r + 1].day
      <4>1. rows[n].race \in DOMAIN Walk /\ rows[n].race <= r
            /\ rows[n].day = Walk[rows[n].race].day
        BY <1>5
      <4>2. rows[n].day <= Walk[r].day
        BY <2>0, <4>1, WalkFacts
      <4>3. rows[n].day \in Nat /\ Walk[r].day \in Nat /\ Walk[r + 1].day \in Nat
        BY <2>0, <4>1, WalkFacts
      <4> QED BY <3>2, <4>2, <4>3
    <3>4. OfDay(rows, Walk[r + 1].day) = {}
      BY <3>3 DEF OfDay
    <3> QED BY <3>1, <3>4, TotalOfNone
  <2> QED BY <2>1, <2>2
<1>9. \A n \in DOMAIN ledger' : /\ ledger'[n].race <= at'.race
                                /\ ledger'[n].day = Walk[ledger'[n].race].day
  <2>1. \A n \in DOMAIN rows : rows[n].race \in Nat
    BY <1>5, WalkFacts
  <2>2. \A n \in DOMAIN rows : rows[n].race <= r + 1
    BY <1>0, <1>2, <1>5, <2>1
  <2> QED BY <1>1, <1>2, <1>3, <1>4, <1>5, <2>2
<1>10. bankroll' = Start + Total(Profits, DOMAIN ledger)'
  BY <1>0, <1>3 DEF WalkInv
<1>11. counters'.race = Total(Stakes', OfRace(ledger', at'.race))
  BY <1>1, <1>2, <1>3, <1>4, <1>6, <1>7, TotalOfNone
<1>12. at'.race \in DOMAIN Walk =>
          /\ counters'.staked = Total(Stakes', OfDay(ledger', Walk[at'.race].day))
          /\ counters'.profit = Total(Profits', OfDay(ledger', Walk[at'.race].day))
  BY <1>1, <1>2, <1>3, <1>4, <1>8
<1>13. ledger' \in Seq(WalkBets) /\ LimitsBind'
  BY <1>3 DEF WalkInv
<1> QED BY <1>1, <1>7, <1>9, <1>10, <1>11, <1>12, <1>13 DEF WalkInv

(* A bet that is struck was sized and allowed by what the ledger adds up to. *)
LEMMA LimitsStrike ==
    ASSUME WalkInv, NEW kelly \in KellyStakes, NEW odds \in FillOdds,
           NEW result \in {"WIN", "LOSE", "VOID"}, Strike(kelly, odds, result)
    PROVE  WalkInv'
<1> DEFINE k == Len(ledger)
<1>1. PICK stake, profit : stake = Sized(kelly) /\ profit = Profit(stake, odds, result)
  OBVIOUS
<1>2. PICK r, d : r = at.race /\ d = Walk[at.race].day
  OBVIOUS
<1>3. PICK row : row = [day |-> d, race |-> r, stake |-> stake, profit |-> profit]
  OBVIOUS
<1>4. /\ stake > 0 /\ Blocks(stake) = {} /\ r <= Len(Walk)
      /\ at' = [at EXCEPT !.pick = @ + 1]
      /\ bankroll' = bankroll + profit
      /\ counters' = [race |-> counters.race + stake, staked |-> counters.staked + stake,
                      profit |-> counters.profit + profit]
      /\ ledger' = Append(ledger, row)
  BY <1>1, <1>2, <1>3 DEF Strike, NextPick, MorePicks
<1>5. /\ at' \in [race : 1..(Len(Walk) + 1), pick : Nat] /\ at'.race = r
      /\ r \in DOMAIN Walk /\ d \in Nat
  <2>1. r \in DOMAIN Walk
    BY <1>2, <1>4, WalkFacts DEF WalkInv
  <2>2. at' \in [race : 1..(Len(Walk) + 1), pick : Nat] /\ at'.race = r
    <3>1. PICK races : races = 1..(Len(Walk) + 1)
      OBVIOUS
    <3>2. at \in [race : races, pick : Nat] /\ at.race = r
      BY <1>2, <3>1 DEF WalkInv
    <3>3. at' \in [race : races, pick : Nat] /\ at'.race = r
      BY <1>4, <3>2
    <3> QED BY <3>1, <3>3
  <2> QED BY <1>2, <2>1, <2>2, WalkFacts
<1>6. /\ k \in Nat /\ DOMAIN ledger = 1..k
      /\ Stakes \in [1..k -> Int] /\ Profits \in [1..k -> Int]
      /\ \A n \in 1..k : ledger[n] \in WalkBets
      /\ \A bets \in SUBSET (1..k) : Total(Stakes, bets) \in Int /\ Total(Profits, bets) \in Int
  BY LedgerAmounts, TotalIsInt DEF WalkInv
<1>7. bankroll \in Int /\ bankroll = Start + Total(Profits, 1..k)
  <2>1. 1..k \in SUBSET (1..k)
    OBVIOUS
  <2>2. Total(Profits, 1..k) \in Int
    BY <1>6, <2>1
  <2> QED BY <1>6, <2>2, WalkFacts DEF WalkInv
<1>8. /\ counters \in [race : Int, staked : Int, profit : Int]
      /\ counters.race \in Int /\ counters.staked \in Int /\ counters.profit \in Int
      /\ counters.race = Total(Stakes, OfRace(ledger, r))
      /\ counters.staked = Total(Stakes, OfDay(ledger, d))
      /\ counters.profit = Total(Profits, OfDay(ledger, d))
  BY <1>2, <1>5 DEF WalkInv
<1>9. stake \in Nat /\ counters.race + stake <= Percent(RacePct, bankroll)
  BY <1>1, <1>4, <1>7, <1>8, SizedFits
<1>10. profit \in Int
  <2>1. odds \in Int /\ stake \in Int
    BY <1>9, WalkAssumption
  <2> QED BY <1>1, <2>1 DEF Profit
<1>11. /\ bankroll > Start - Percent(StopPct, Start)
       /\ counters.profit > 0 - Percent(LossPct, Start)
       /\ counters.staked + stake <= Percent(DayPct, Start)
  BY <1>4, <1>7, <1>8, <1>9, NotBlocked
<1>12. /\ row \in WalkBets /\ row.day = d /\ row.race = r
       /\ row.stake = stake /\ row.profit = profit
  BY <1>3, <1>5, <1>9, <1>10 DEF WalkBets
<1> HIDE DEF k
<1>13. PICK rows, stakes, profits :
          rows = ledger /\ stakes = Stakes /\ profits = Profits
  OBVIOUS
<1>14. PICK more, moreStakes, moreProfits :
          more = ledger' /\ moreStakes = Stakes' /\ moreProfits = Profits'
  OBVIOUS
<1>15. /\ more \in Seq(WalkBets) /\ DOMAIN more = 1..(k + 1) /\ more[k + 1] = row
       /\ \A n \in 1..k : more[n] = rows[n]
  <2>1. ledger \in Seq(WalkBets) /\ k = Len(ledger)
    BY DEF WalkInv, k
  <2>2. more = Append(ledger, row)
    BY <1>4, <1>14
  <2> QED BY <1>6, <1>12, <1>13, <2>1, <2>2
<1>16. /\ moreStakes = [n \in 1..(k + 1) |-> more[n].stake]
       /\ moreProfits = [n \in 1..(k + 1) |-> more[n].profit]
  BY <1>14, <1>15 DEF Stakes, Profits
<1>17. \A n \in 1..(k + 1) : more[n].stake \in Int /\ more[n].profit \in Int
  <2>1. \A n \in 1..(k + 1) : more[n] \in WalkBets
    <3>1. \A n \in 1..(k + 1) : n \in 1..k \/ n = k + 1
      BY <1>6
    <3> QED BY <1>6, <1>12, <1>13, <1>15, <3>1
  <2> QED BY <2>1 DEF WalkBets
<1>18. /\ moreStakes \in [1..(k + 1) -> Int] /\ moreProfits \in [1..(k + 1) -> Int]
       /\ moreStakes[k + 1] = stake /\ moreProfits[k + 1] = profit
  <2>1. k + 1 \in 1..(k + 1)
    BY <1>6
  <2> QED BY <1>12, <1>15, <1>16, <1>17, <2>1
<1>19. /\ stakes \in [1..k -> Int] /\ profits \in [1..k -> Int]
       /\ \A n \in 1..k : moreStakes[n] = stakes[n] /\ moreProfits[n] = profits[n]
  <2>1. /\ stakes = [n \in 1..k |-> rows[n].stake] /\ profits = [n \in 1..k |-> rows[n].profit]
    BY <1>6, <1>13 DEF Stakes, Profits
  <2>2. \A n \in 1..k : n \in 1..(k + 1)
    BY <1>6
  <2> QED BY <1>6, <1>13, <1>15, <1>16, <2>1, <2>2
<1>20. ASSUME NEW bets \in SUBSET (1..k)
       PROVE  /\ Total(moreStakes, bets) = Total(stakes, bets)
              /\ Total(moreProfits, bets) = Total(profits, bets)
              /\ Total(moreStakes, bets \cup {k + 1}) = Total(stakes, bets) + stake
              /\ Total(moreProfits, bets \cup {k + 1}) = Total(profits, bets) + profit
  <2>1. /\ Total(moreStakes, bets) = Total(stakes, bets)
        /\ Total(moreStakes, bets \cup {k + 1}) = Total(stakes, bets) + moreStakes[k + 1]
    <3>1. /\ stakes \in [1..k -> Int] /\ moreStakes \in [1..(k + 1) -> Int]
          /\ \A n \in 1..k : moreStakes[n] = stakes[n]
          /\ k \in Nat
      BY <1>6, <1>18, <1>19
    <3> QED BY <3>1, TotalOneMore
  <2>2. /\ Total(moreProfits, bets) = Total(profits, bets)
        /\ Total(moreProfits, bets \cup {k + 1})
              = Total(profits, bets) + moreProfits[k + 1]
    <3>1. /\ profits \in [1..k -> Int] /\ moreProfits \in [1..(k + 1) -> Int]
          /\ \A n \in 1..k : moreProfits[n] = profits[n]
          /\ k \in Nat
      BY <1>6, <1>18, <1>19
    <3> QED BY <3>1, TotalOneMore
  <2> QED BY <1>18, <2>1, <2>2
<1>21. /\ OfRace(rows, r) \in SUBSET (1..k) /\ OfDay(rows, d) \in SUBSET (1..k)
       /\ OfRace(more, r) = OfRace(rows, r) \cup {k + 1}
       /\ OfDay(more, d) = OfDay(rows, d) \cup {k + 1}
  <2>1. DOMAIN rows = 1..k /\ 1..(k + 1) = (1..k) \cup {k + 1}
    BY <1>6, <1>13
  <2> QED BY <1>12, <1>15, <2>1 DEF OfRace, OfDay
<1>22. \A n \in 1..(k + 1) : more[n].race <= r /\ more[n].day = Walk[more[n].race].day
  <2>1. \A n \in 1..k : rows[n].race <= r /\ rows[n].day = Walk[rows[n].race].day
    BY <1>2, <1>6, <1>13 DEF WalkInv
  <2>2. r <= r /\ row.race = r /\ row.day = Walk[r].day
    BY <1>2, <1>5, <1>12, WalkFacts
  <2>3. \A n \in 1..(k + 1) : n \in 1..k \/ n = k + 1
    BY <1>6
  <2> QED BY <1>15, <2>1, <2>2, <2>3
<1>23. bankroll' = Start + Total(moreProfits, 1..(k + 1))
  <2>1. 1..(k + 1) = (1..k) \cup {k + 1} /\ 1..k \in SUBSET (1..k)
    BY <1>6
  <2>2. Total(moreProfits, 1..(k + 1)) = Total(profits, 1..k) + profit
    BY <1>20, <2>1
  <2>3. Total(profits, 1..k) \in Int
    BY <1>6, <1>13, <2>1
  <2> QED BY <1>4, <1>7, <1>10, <1>13, <2>2, <2>3, WalkFacts
<1>24. /\ counters' \in [race : Int, staked : Int, profit : Int]
       /\ counters'.race = Total(moreStakes, OfRace(more, r))
       /\ counters'.staked = Total(moreStakes, OfDay(more, d))
       /\ counters'.profit = Total(moreProfits, OfDay(more, d))
  <2>1. /\ counters'.race = counters.race + stake
        /\ counters'.staked = counters.staked + stake
        /\ counters'.profit = counters.profit + profit
        /\ counters' \in [race : Int, staked : Int, profit : Int]
    BY <1>4, <1>8, <1>9, <1>10
  <2> QED BY <1>8, <1>13, <1>20, <1>21, <2>1
<1>25. ASSUME NEW n \in 1..k PROVE Binds(more, moreStakes, moreProfits, n)
  <2> DEFINE before == 1..(n - 1)
  <2> DEFINE day(seq) == {m \in before : seq[m].day = seq[n].day}
  <2> DEFINE race(seq) == {m \in before : seq[m].race = seq[n].race}
  <2>1. \A m \in before : m \in 1..k
    BY <1>6
  <2>2. day(more) = day(rows) /\ race(more) = race(rows)
    BY <1>15, <2>1
  <2>3. before \in SUBSET (1..k) /\ day(rows) \in SUBSET (1..k) /\ race(rows) \in SUBSET (1..k)
    BY <2>1
  <2>4. Binds(rows, stakes, profits, n)
    BY <1>6, <1>13, LimitsUnpack DEF WalkInv
  <2>5. /\ Total(stakes, day(rows)) + rows[n].stake <= Percent(DayPct, Start)
        /\ Total(stakes, race(rows)) + rows[n].stake
              <= Percent(RacePct, Start + Total(profits, before))
        /\ Total(profits, day(rows)) > 0 - Percent(LossPct, Start)
        /\ Start + Total(profits, before) > Start - Percent(StopPct, Start)
    BY <2>4 DEF Binds
  <2>6. /\ Total(moreStakes, day(more)) + more[n].stake <= Percent(DayPct, Start)
        /\ Total(moreStakes, race(more)) + more[n].stake
              <= Percent(RacePct, Start + Total(moreProfits, before))
        /\ Total(moreProfits, day(more)) > 0 - Percent(LossPct, Start)
        /\ Start + Total(moreProfits, before) > Start - Percent(StopPct, Start)
    <3> HIDE DEF before, day, race
    <3> QED BY <1>15, <1>20, <2>2, <2>3, <2>5
  <2> QED BY <2>6 DEF Binds
<1>26. Binds(more, moreStakes, moreProfits, k + 1)
  <2> DEFINE before == 1..((k + 1) - 1)
  <2> DEFINE day == {m \in before : more[m].day = more[k + 1].day}
  <2> DEFINE race == {m \in before : more[m].race = more[k + 1].race}
  <2>1. before = 1..k /\ DOMAIN rows = 1..k /\ 1..k \in SUBSET (1..k)
    BY <1>6, <1>13
  <2>2. day = OfDay(rows, d) /\ race = OfRace(rows, r)
    BY <1>12, <1>15, <2>1 DEF OfDay, OfRace
  <2>3. /\ Total(moreStakes, day) + more[k + 1].stake <= Percent(DayPct, Start)
        /\ Total(moreStakes, race) + more[k + 1].stake
              <= Percent(RacePct, Start + Total(moreProfits, before))
        /\ Total(moreProfits, day) > 0 - Percent(LossPct, Start)
        /\ Start + Total(moreProfits, before) > Start - Percent(StopPct, Start)
    <3> HIDE DEF before, day, race
    <3>1. /\ Total(moreStakes, day) = counters.staked
          /\ Total(moreStakes, race) = counters.race
          /\ Total(moreProfits, day) = counters.profit
          /\ Start + Total(moreProfits, before) = bankroll
      BY <1>7, <1>8, <1>13, <1>20, <1>21, <2>1, <2>2
    <3>2. more[k + 1].stake = stake
      BY <1>12, <1>15
    <3> QED BY <1>9, <1>11, <3>1, <3>2
  <2> QED BY <2>3 DEF Binds
<1>27. LimitsBind'
  <2>1. \A n \in 1..(k + 1) : n \in 1..k \/ n = k + 1
    BY <1>6
  <2>2. \A n \in DOMAIN more : Binds(more, moreStakes, moreProfits, n)
    BY <1>15, <1>25, <1>26, <2>1
  <2> QED BY <1>14, <2>2, LimitsUnpack
<1>28. /\ bankroll' = Start + Total(Profits', DOMAIN ledger')
       /\ counters'.race = Total(Stakes', OfRace(ledger', at'.race))
       /\ counters'.staked = Total(Stakes', OfDay(ledger', Walk[at'.race].day))
       /\ counters'.profit = Total(Profits', OfDay(ledger', Walk[at'.race].day))
  BY <1>2, <1>5, <1>14, <1>15, <1>23, <1>24
<1>29. \A n \in DOMAIN ledger' : /\ ledger'[n].race <= at'.race
                                 /\ ledger'[n].day = Walk[ledger'[n].race].day
  BY <1>5, <1>14, <1>15, <1>22
<1>30. ledger' \in Seq(WalkBets)
  BY <1>14, <1>15
<1> QED BY <1>5, <1>24, <1>27, <1>28, <1>29, <1>30 DEF WalkInv

(* Passing over a pick counts nothing.                                       *)
LEMMA LimitsPass ==
    ASSUME WalkInv, UNCHANGED <<bankroll, counters, ledger>>, at'.race = at.race,
           at' \in [race : 1..(Len(Walk) + 1), pick : Nat]
    PROVE  WalkInv'
<1>1. Stakes' = Stakes /\ Profits' = Profits /\ LimitsBind' = LimitsBind
  BY DEF Stakes, Profits, LimitsBind
<1> QED BY <1>1 DEF WalkInv

(* Whatever is picked, priced, filled and won, over any number of races and  *)
(* days: the limits bind on what the ledger says was staked and won.         *)
THEOREM LimitsAreKept == WalkSpec => []LimitsBind
<1>1. WalkInv /\ [WalkNext]_walkVars => WalkInv'
  <2> SUFFICES ASSUME WalkInv, [WalkNext]_walkVars PROVE WalkInv'
    OBVIOUS
  <2>1. CASE Pass \/ UNCHANGED walkVars
    <3>1. at'.race = at.race /\ at' \in [race : 1..(Len(Walk) + 1), pick : Nat]
      BY <2>1 DEF Pass, NextPick, WalkInv, walkVars
    <3> QED BY <2>1, <3>1, LimitsPass DEF Pass, walkVars
  <2>2. CASE NextRace
    BY <2>2, LimitsNextRace
  <2>3. ASSUME NEW kelly \in KellyStakes, NEW odds \in FillOdds,
               NEW result \in {"WIN", "LOSE", "VOID"}, Strike(kelly, odds, result)
        PROVE  WalkInv'
    BY <2>3, LimitsStrike
  <2> QED BY <2>1, <2>2, <2>3 DEF WalkNext
<1>2. WalkInv => LimitsBind
  BY DEF WalkInv
<1> QED BY <1>1, <1>2, LimitsInit, PTL DEF WalkSpec
===============================================================================
