----------------------------- MODULE BetSettlement -----------------------------
(***************************************************************************)
(* utils/bet_settlement.py: settling pending paper bets from the results   *)
(* dataset, by several callers at once (scripts/refresh.py, clv_live.py    *)
(* and the dashboard's paper-betting page), while fetches add races to the *)
(* dataset and fill in finishing positions (scraper/betsp/writer.py), each *)
(* reading the dataset, merging and replacing it without a lock.           *)
(*                                                                         *)
(* A pass reads the dataset, then the pending bets, and settles bet by     *)
(* bet; BetTracker.settle_bet looks at the bet's row before it takes the   *)
(* lock and updates the row whatever it has become, so both are steps.     *)
(* The money it books is the subject of module BetTracker.                 *)
(***************************************************************************)
EXTENDS Integers

CONSTANTS
    Races,       \* races of the results feed
    MeetingOf,   \* the (venue, day) of each race, aliases folded
    Runs,        \* declared (horse, race) pairs
    Bets,        \* bets that may be placed: [run, type, byId]
    EwPlaces,    \* places an each-way bet is paid for
    Passes,      \* callers of settle_from_storage
    MaxFetches   \* bound: fetches of a race

ASSUME RunsAssumption ==
    /\ \A run \in Runs : run[2] \in Races
    /\ \A a, b \in Runs :
          (a[1] = b[1] /\ MeetingOf[a[2]] = MeetingOf[b[2]]) => a = b
ASSUME BetsAssumption == /\ \A bet \in Bets : bet.run \in Runs
                         /\ EwPlaces \in Nat
                         /\ MaxFetches \in Nat

VARIABLES
    finish,    \* what happened to each run: a position, 0 for none, NonRunner
    feed,      \* rows of the dataset: [run, position (0: none), fetched]
    fetches,   \* fetches so far, the time of the last one
    merged,    \* datasets that fetches have merged and not yet written
    known,     \* races that have been in the dataset
    late,      \* runs whose row stood in the dataset without their position
    outcome,   \* per placed bet: its outcome in table bets
    todo,      \* per pass: the pending bets it has still to settle
    view,      \* per pass: the dataset as it read it, {} between two passes
    checked    \* per pass: the settlement it found pending, {} or one of them

feedVars == <<finish, feed, fetches, merged, known, late>>
betsVars == <<finish, feed, fetches, merged, known, late, outcome, todo, view, checked>>

Open == "pending"
NonRunner == -1
Positions == {0, 1, 2, EwPlaces + 1}

(* The runners of a race: they have a row in Betfair's day file. *)
HasRow(run) == finish[run] # NonRunner

(* _completeness_order: rows with a position come after those without, and   *)
(* later fetches after earlier ones.                                         *)
After(a, b) == \/ a.position # 0 /\ b.position = 0
               \/ (a.position # 0 <=> b.position # 0) /\ a.fetched > b.fetched
Lasts(rows) == {row \in rows : \A other \in rows : ~After(other, row)}
(* drop_duplicates(keep="last"), by start. *)
KeepLast(rows) ==
    {row \in rows : row \in Lasts({other \in rows : other.run = row.run})}

(* _outcome_for *)
OutcomeFor(bet, position) ==
    IF position <= 0 THEN "void"
    ELSE IF position = 1 THEN "win"
    ELSE IF bet.type = "each_way" /\ position <= EwPlaces THEN "place"
    ELSE "lose"

(* _index_results: by_id keeps the last row of a horse, whatever its race. *)
ById(rows, horse) == Lasts({row \in rows : row.run[1] = horse})

(* Variant: by_name is keyed on the name alone. *)
ByNameAnywhere(rows, bet) == Lasts({row \in rows : row.run[1] = bet.run[1]})

(* by_name is keyed on venue, name and day. *)
ByName(rows, bet) ==
    Lasts({row \in rows : /\ row.run[1] = bet.run[1]
                          /\ MeetingOf[row.run[2]] = MeetingOf[bet.run[2]]})

(* raced: the meetings with a row of any race. *)
Raced(rows) == {MeetingOf[row.run[2]] : row \in rows}

(* The row a bet is settled from: by id first, then by name. *)
Match(rows, bet) ==
    LET byId == IF bet.byId THEN ById(rows, bet.run[1]) ELSE {}
    IN  IF byId # {} THEN byId ELSE ByName(rows, bet)

(* What settle_from_results decides for a bet: nothing while its meeting is  *)
(* not in the feed, void when the meeting is and the horse is not.           *)
Decision(rows, bet) ==
    IF Match(rows, bet) # {}
    THEN {OutcomeFor(bet, row.position) : row \in Match(rows, bet)}
    ELSE IF MeetingOf[bet.run[2]] \in Raced(rows) THEN {"void"} ELSE {}

OwnRaceIn(rows, bet) == \E row \in rows : row.run[2] = bet.run[2]

-------------------------------------------------------------------------------
(* Some race is run. *)
BetsInit == /\ finish \in [Runs -> Positions \cup {NonRunner}]
            /\ \E run \in Runs : HasRow(run)
            /\ feed = {} /\ fetches = 0 /\ merged = {} /\ known = {} /\ late = {}
            /\ outcome = [b \in {} |-> Open]
            /\ todo = [p \in Passes |-> {}]
            /\ view = [p \in Passes |-> {}]
            /\ checked = [p \in Passes |-> {}]

(* A bet is placed before its race is run. *)
PlaceBet(bet) ==
    /\ bet \in Bets \ DOMAIN outcome
    /\ bet.run[2] \notin known /\ \A rows \in merged : ~OwnRaceIn(rows, bet)
    /\ outcome' = [b \in DOMAIN outcome \cup {bet} |->
                      IF b = bet THEN Open ELSE outcome[b]]
    /\ UNCHANGED <<feedVars, todo, view, checked>>

(* A fetch merges the rows of a race, for the first time or again, into what *)
(* it reads of the dataset: nothing, if reading fails.  The day file names   *)
(* all runners; the results sites have a position for some, and a row that   *)
(* has one is not replaced by one that has none.                             *)
FetchMerges(race, named, found) ==
    LET rows == {[run |-> run, fetched |-> fetches + 1,
                  position |-> IF run \in named THEN finish[run] ELSE 0] :
                    run \in {r \in Runs : r[2] = race /\ HasRow(r)}}
    IN  /\ fetches < MaxFetches /\ fetches' = fetches + 1
        /\ rows # {}
        /\ merged' = merged \cup {KeepLast(found \cup rows)}
        /\ UNCHANGED <<finish, feed, known, late, outcome, todo, view, checked>>

(* It replaces the dataset, whatever was written to it meanwhile. *)
FetchWrites(rows) ==
    /\ rows \in merged
    /\ feed' = rows /\ merged' = merged \ {rows}
    /\ known' = known \cup {row.run[2] : row \in rows}
    /\ late' = late \cup {row.run : row \in {r \in rows : r.position # finish[r.run]}}
    /\ UNCHANGED <<finish, fetches, outcome, todo, view, checked>>

PendingBets == {b \in DOMAIN outcome : outcome[b] = Open}

(* settle_from_storage: an empty dataset settles nothing. *)
StartPass(p) ==
    /\ view[p] = {} /\ feed # {}
    /\ view' = [view EXCEPT ![p] = feed]
    /\ UNCHANGED <<feedVars, outcome, todo, checked>>

(* The pass goes on with these bets, or is over. *)
GoOn(p, bets) ==
    /\ todo' = [todo EXCEPT ![p] = bets]
    /\ view' = [view EXCEPT ![p] = IF bets = {} THEN {} ELSE @]
    /\ UNCHANGED feedVars

ListPending(p) ==
    /\ view[p] # {} /\ todo[p] = {}
    /\ GoOn(p, PendingBets)
    /\ UNCHANGED <<outcome, checked>>

Looks(p, bet) == bet \in todo[p] /\ checked[p] = {}

(* Variant: the pass ends at the first bet without a result. *)
LeaveAll(p, bet) ==
    /\ Looks(p, bet) /\ Decision(view[p], bet) = {}
    /\ GoOn(p, {})
    /\ UNCHANGED <<outcome, checked>>

(* A bet without a result stays pending. *)
LeaveBet(p, bet) ==
    /\ Looks(p, bet) /\ Decision(view[p], bet) = {}
    /\ GoOn(p, todo[p] \ {bet})
    /\ UNCHANGED <<outcome, checked>>

(* settle_bet raises on a bet settled meanwhile, which ends the whole pass. *)
FindSettled(p, bet) ==
    /\ Looks(p, bet) /\ Decision(view[p], bet) # {} /\ outcome[bet] # Open
    /\ GoOn(p, {})
    /\ UNCHANGED <<outcome, checked>>

(* settle_bet reads the row and finds it pending. *)
FindPending(p, bet) ==
    /\ Looks(p, bet) /\ outcome[bet] = Open
    /\ \E o \in Decision(view[p], bet) :
          checked' = [checked EXCEPT ![p] = {[bet |-> bet, outcome |-> o]}]
    /\ UNCHANGED <<feedVars, outcome, todo, view>>

(* settle_bet writes the outcome, under the lock but whatever the row is by  *)
(* now.                                                                      *)
WriteOutcome(p, s) ==
    /\ s \in checked[p]
    /\ outcome' = [outcome EXCEPT ![s.bet] = s.outcome]
    /\ checked' = [checked EXCEPT ![p] = {}]
    /\ GoOn(p, todo[p] \ {s.bet})

PassStep(p) == \/ StartPass(p)
               \/ ListPending(p)
               \/ \E bet \in todo[p] : \/ LeaveBet(p, bet)
                                       \/ FindSettled(p, bet)
                                       \/ FindPending(p, bet)
               \/ \E s \in checked[p] : WriteOutcome(p, s)

BetsNext == \/ \E bet \in Bets : PlaceBet(bet)
            \/ \E race \in Races, found \in {feed, {}} :
                  \E named \in SUBSET {run \in Runs : run[2] = race /\ finish[run] > 0} :
                     FetchMerges(race, named, found)
            \/ \E rows \in merged : FetchWrites(rows)
            \/ \E p \in Passes : PassStep(p)

BetsSpec == BetsInit /\ [][BetsNext]_betsVars

(* Passes are run again and again, and a pass that is not ended goes on. *)
FairBetsSpec == BetsSpec /\ \A p \in Passes : WF_betsVars(PassStep(p))

-------------------------------------------------------------------------------
(* Properties. *)

TrueOutcome(bet) == IF HasRow(bet.run) THEN OutcomeFor(bet, finish[bet.run]) ELSE "void"

(* What happened to the horse, or that it may have been read without its     *)
(* position.                                                                 *)
AsRan(bet, o) == /\ bet.run[2] \in known
                 /\ \/ o = TrueOutcome(bet)
                    \/ o = "void" /\ bet.run \in late

(* "un-scraped races are never mis-settled": a settled bet's own race has    *)
(* been in the feed, and the bet is settled by what happened in it, by       *)
(* passes that overtake each other and fetches that fill in positions, or    *)
(* lose what others wrote.  What escapes is named: a horse whose row has     *)
(* been in the dataset without the position it finished in may be settled    *)
(* void, for good.                                                           *)
SettledAsRan ==
    \A bet \in DOMAIN outcome : outcome[bet] # Open => AsRan(bet, outcome[bet])

(* Settlement is final: although settle_bet overwrites what another pass has *)
(* written since it looked, both write the same, unless one of them may have *)
(* read the horse's row before its position was in it.                       *)
SettledForGood ==
    [][\A bet \in DOMAIN outcome :
         (outcome[bet] # Open /\ bet.run \notin late)
             => outcome'[bet] = outcome[bet]]_betsVars

(* Every bet whose race is in the feed is settled by some pass, although a   *)
(* pass that meets a bet settled under it gives up on all the others, unless *)
(* a fetch loses the race from the feed.                                     *)
ResultSettlesBet ==
    \A bet \in Bets :
        (bet \in PendingBets /\ OwnRaceIn(feed, bet))
            ~> (bet \notin PendingBets \/ ~OwnRaceIn(feed, bet))
===============================================================================
