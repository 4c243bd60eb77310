------------------------------ MODULE TicketStore ------------------------------
(***************************************************************************)
(* execution/tickets.py and execution/staking.py: the paper_tickets table, *)
(* the connection the daily loop writes it through, and the stake planner  *)
(* that sizes a candidate against what is staked already.                  *)
(*                                                                         *)
(* A ticket's identity is a hash of race, runner, bet type and the day it  *)
(* was issued, here the pair <<runner, day>>; a row is inserted once and   *)
(* settled once.  PaperLoop calls these operations in the order of the     *)
(* daily loop.                                                             *)
(***************************************************************************)
EXTENDS Integers, FiniteSets, FiniteSetsExt

CONSTANTS Runners,        \* (race, horse) pairs
          RaceOf,         \* the race of each runner
          RaceDay,        \* the date of each race
          TicketDays,     \* the days a ticket may be issued on
          BetCap,         \* max_stake_pct_bankroll of the bankroll
          RaceCap,        \* max_race_exposure_pct of the bankroll
          DayCap,         \* max_daily_exposure_pct of the bankroll
          MinStake        \* min_stake

ASSUME RacesAssumption == /\ RaceOf \in [Runners -> DOMAIN RaceDay]
                          /\ RaceDay \in [DOMAIN RaceDay -> Nat]
                          /\ TicketDays \subseteq Nat
ASSUME CapsAssumption == /\ BetCap \in Nat
                         /\ RaceCap \in Nat
                         /\ DayCap \in Nat
                         /\ MinStake \in Nat

VARIABLES
    tickets,    \* paper_tickets: the rows, by ticket id
    writer      \* the store's connection has an open write transaction

storeVars == <<tickets, writer>>

Races == DOMAIN RaceDay
TicketIds == Runners \X TicketDays
NoTickets == [id \in {} |-> {}]
Open == "open"
Outcomes == {"won", "lost", "void"}

StoreInit == tickets = NoTickets /\ writer = FALSE

(* Variant: a second row of the same id replaces the first. *)
ReplaceTicket(id, row) ==
    /\ tickets' = [i \in DOMAIN tickets \cup {id} |->
                      IF i = id THEN row ELSE tickets[i]]
    /\ writer' = FALSE

(* issue: the primary key refuses a second row of the same id.  The refused  *)
(* INSERT has begun a transaction that nothing commits or rolls back until   *)
(* the next write of the connection.                                         *)
IssueTicket(id, row) ==
    IF id \in DOMAIN tickets
    THEN writer' = TRUE /\ UNCHANGED tickets
    ELSE /\ tickets' = [i \in DOMAIN tickets \cup {id} |->
                          IF i = id THEN row ELSE tickets[i]]
         /\ writer' = FALSE

(* settle: refused once settled; the commit ends any open transaction. *)
SettleTicket(id, outcome) ==
    IF tickets[id].outcome # Open
    THEN UNCHANGED storeVars
    ELSE /\ tickets' = [tickets EXCEPT ![id] =
              [decision |-> tickets[id].decision, stake |-> tickets[id].stake,
               priced |-> tickets[id].priced, complete |-> tickets[id].complete,
               inputs |-> tickets[id].inputs, outcome |-> outcome]]
         /\ writer' = FALSE

(* open_tickets, unobserved_pass_tickets, all_tickets(decision=CANDIDATE) *)
Candidates == {id \in DOMAIN tickets : tickets[id].decision = "CANDIDATE"}
OpenTickets == {id \in Candidates : tickets[id].outcome = Open}
UnobservedPasses == {id \in DOMAIN tickets \ Candidates :
                        tickets[id].outcome = Open /\ tickets[id].priced}

-------------------------------------------------------------------------------
(* staking.py *)

(* ExposureState.from_tickets and with_stake: what the rows, settled or not, *)
(* put on a set of runners.                                                  *)
Staked(rows, runners) ==
    MapThenSumSet(LAMBDA id : rows[id].stake, {id \in DOMAIN rows : id[1] \in runners})
RunnersIn(race) == {r \in Runners : RaceOf[r] = race}
RunnersOn(d) == {r \in Runners : RaceDay[RaceOf[r]] = d}

AtLeastZero(n) == IF n < 0 THEN 0 ELSE n

(* StakePlanner.plan: the least of the Kelly stake and the three ceilings,   *)
(* dropped when it is below the smallest ticket.                             *)
PlannedStake(kelly, raceStaked, dayStaked) ==
    LET stake == Min({kelly, BetCap, AtLeastZero(RaceCap - raceStaked),
                      AtLeastZero(DayCap - dayStaked)})
    IN  IF stake < MinStake THEN 0 ELSE stake
===============================================================================
