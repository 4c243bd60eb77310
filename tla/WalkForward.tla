------------------------------ MODULE WalkForward ------------------------------
(***************************************************************************)
(* execution/simulator.py with execution/safeguards.py and                 *)
(* execution/frictions.py: one strategy is walked through the races in the *)
(* order of their offs; each pick is sized, passes the safeguards, may be  *)
(* filled, and is settled at once.  Amounts are whole steps of             *)
(* stake_rounding and percentages are of the bankroll.                     *)
(***************************************************************************)
EXTENDS Integers, Sequences, FiniteSets, FiniteSetsExt

CONSTANTS Walk,            \* the races in order: their day and number of picks
          Start,           \* the initial bankroll
          BetPct, RacePct, DayPct, LossPct, StopPct,   \* ceilings and limits
          LiabilityCap,    \* frictions.max_stake_per_bet
          Minimum,         \* staking.min_stake
          KellyStakes,     \* what Kelly may ask for; 0 is no edge
          FillOdds,        \* decimal odds a bet may be struck at
          Lead, OffBuffer, \* DECISION_LEAD_SECONDS, started_race_buffer_seconds
          Latency, SourceAge,  \* decision_latency_seconds, max_source_age_seconds
          MaxOpen          \* safeguards.max_open_tickets

ASSUME WalkAssumption ==
    /\ Walk \in Seq([day : Nat, picks : Nat]) /\ Start \in Nat \ {0}
    (* The picks are sorted by their offs. *)
    /\ \A i, j \in DOMAIN Walk : i <= j => Walk[i].day <= Walk[j].day
    /\ {BetPct, RacePct, DayPct, LossPct, StopPct} \subseteq 0..100
    /\ KellyStakes \cup FillOdds \subseteq Nat
    /\ LiabilityCap \in Nat /\ Minimum \in Nat

VARIABLES
    at,        \* the race and the pick the walk is at
    bankroll,
    counters,  \* staked in the race, staked and won on the day
    ledger     \* the bets struck

walkVars == <<at, bankroll, counters, ledger>>

Percent(pct, amount) == (pct * amount) \div 100
Zero == [race |-> 0, staked |-> 0, profit |-> 0]

WalkInit ==
    /\ at = [race |-> 1, pick |-> 1]
    /\ bankroll = Start
    /\ counters = Zero
    /\ ledger = <<>>

(* StakePlanner.plan with the ceilings of the bankroll as it is now.         *)
Room(ceiling, used) == Max({0, ceiling - used})
Sized(kelly) ==
    LET most == Min({kelly, Percent(BetPct, bankroll), LiabilityCap,
                     Room(Percent(RacePct, bankroll), counters.race),
                     Room(Percent(DayPct, bankroll), counters.staked)})
    IN  IF most < Minimum THEN 0 ELSE most

(* Safeguards.check judges by the initial bankroll.  The walk hands it no    *)
(* tickets, so the rules on duplicate and correlated bets never block.       *)
Blocks(stake) ==
    {code \in {"bankroll_stop_loss", "daily_loss_limit", "daily_exposure_limit",
               "race_started", "stale_source", "max_open_tickets"} :
       CASE code = "bankroll_stop_loss" -> bankroll <= Start - Percent(StopPct, Start)
         [] code = "daily_loss_limit" -> counters.profit <= 0 - Percent(LossPct, Start)
         [] code = "daily_exposure_limit" -> counters.staked + stake > Percent(DayPct, Start)
         [] code = "race_started" -> Lead <= OffBuffer
         [] code = "stale_source" -> Latency > SourceAge
         [] code = "max_open_tickets" -> 0 >= MaxOpen}

Profit(stake, odds, outcome) ==
    CASE outcome = "WIN" -> stake * (odds - 1)
      [] outcome = "LOSE" -> 0 - stake
      [] outcome = "VOID" -> 0

NextPick == at' = [at EXCEPT !.pick = @ + 1]
MorePicks == at.race <= Len(Walk) /\ at.pick <= Walk[at.race].picks

(* No edge, no room, a safeguard, no fill (no quote, a stale one, suspended, *)
(* rejected) or no result: nothing is counted.                               *)
Pass ==
    /\ MorePicks
    /\ NextPick
    /\ UNCHANGED <<bankroll, counters, ledger>>

(* The bet is filled, in full because the plan knows the book's limit, and   *)
(* its result counts before the next pick is sized.                          *)
Strike(kelly, odds, outcome) ==
    LET stake == Sized(kelly)
        profit == Profit(stake, odds, outcome)
    IN  /\ MorePicks
        /\ stake > 0 /\ Blocks(stake) = {}
        /\ NextPick
        /\ bankroll' = bankroll + profit
        /\ counters' = [race |-> counters.race + stake, staked |-> counters.staked + stake,
                        profit |-> counters.profit + profit]
        /\ ledger' = Append(ledger, [day |-> Walk[at.race].day, race |-> at.race,
                                     stake |-> stake, profit |-> profit])

(* Variant: the day's counters are those of the race.                        *)
NextRaceAnew ==
    /\ at.race <= Len(Walk) /\ ~MorePicks
    /\ at' = [race |-> at.race + 1, pick |-> 1]
    /\ counters' = Zero
    /\ UNCHANGED <<bankroll, ledger>>

(* The day's counters start again with the first race of a day.              *)
NextRace ==
    /\ at.race <= Len(Walk) /\ ~MorePicks
    /\ at' = [race |-> at.race + 1, pick |-> 1]
    /\ counters' = IF at.race < Len(Walk) /\ Walk[at.race + 1].day = Walk[at.race].day
                   THEN [counters EXCEPT !.race = 0] ELSE Zero
    /\ UNCHANGED <<bankroll, ledger>>

WalkNext ==
    \/ Pass \/ NextRace
    \/ \E kelly \in KellyStakes, odds \in FillOdds, outcome \in {"WIN", "LOSE", "VOID"} :
          Strike(kelly, odds, outcome)
WalkSpec == WalkInit /\ [][WalkNext]_walkVars

-------------------------------------------------------------------------------
(* Properties. *)

Stakes == [n \in DOMAIN ledger |-> ledger[n].stake]
Profits == [n \in DOMAIN ledger |-> ledger[n].profit]
Total(amounts, bets) == MapThenSumSet(LAMBDA n : amounts[n], bets)

(* As the ledger tells it, and not the counters: whenever a bet was struck,  *)
(* its day's stakes stayed within the ceiling of the initial bankroll and    *)
(* its race's within that of the bankroll of the moment, its day had not     *)
(* lost the daily limit, nor the walk the stop-loss; so that each limit is   *)
(* overshot by the one bet that reaches it at most.                          *)
LimitsBind ==
    \A n \in DOMAIN ledger :
        LET before == 1..(n - 1)
            day == {m \in before : ledger[m].day = ledger[n].day}
            race == {m \in before : ledger[m].race = ledger[n].race}
        IN  /\ Total(Stakes, day) + ledger[n].stake <= Percent(DayPct, Start)
            /\ Total(Stakes, race) + ledger[n].stake
                  <= Percent(RacePct, Start + Total(Profits, before))
            /\ Total(Profits, day) > 0 - Percent(LossPct, Start)
            /\ Start + Total(Profits, before) > Start - Percent(StopPct, Start)
===============================================================================
