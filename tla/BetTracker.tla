------------------------------ MODULE BetTracker ------------------------------
(***************************************************************************)
(* utils/bet_tracker.py over utils/storage/pool.py: the paper bankroll.    *)
(*                                                                         *)
(* A tracker object owns a ConnectionPool: every thread that uses it has a *)
(* SQLite connection of its own, and the pool's RLock serialises the       *)
(* writes of the threads that share the object.  Several tracker objects   *)
(* (one per dashboard module, one per command-line process) open the same  *)
(* database and share nothing but the rows.  A transaction becomes visible *)
(* at its commit, so [INSERT ... commit()] is one step; a SELECT made      *)
(* before it is a step of its own.                                         *)
(*                                                                         *)
(* Money is an integer number of units.                                    *)
(***************************************************************************)
EXTENDS Integers, Sequences, FiniteSets

CONSTANTS
    Threads,          \* threads that use a tracker
    Trackers,         \* tracker objects on the same database
    TrackerOf,        \* the object each thread uses
    Callers,          \* entry points in use: "place_paper_bet", "record_bet"
    Runners,          \* (race_id, horse_id) pairs
    FreeForm,         \* a bet without race or horse id
    BetTypes,         \* bet types asked for; "win" and "each_way" are accepted
    Odds,             \* decimal odds offered
    Stakes,           \* stakes asked for
    Bankrolls,        \* amounts set_bankroll may be given
    InitialBankroll,  \* configured initial_bankroll
    StopLossPct,      \* configured stop_loss_pct, as a percentage
    EwNum, EwDen,     \* ew_fraction = EwNum / EwDen
    NoThread,         \* a write lock nobody holds
    MaxLog            \* bound on bankroll_log rows (and so on bets)

ASSUME ThreadsAssumption == /\ TrackerOf \in [Threads -> Trackers]
                            /\ NoThread \notin Threads
                            /\ FreeForm \notin Runners
ASSUME MoneyAssumption ==
    /\ InitialBankroll \in Nat
    /\ Bankrolls \subseteq Nat
    /\ Stakes \subseteq Nat
    /\ Odds \subseteq Nat
    /\ StopLossPct \in 0..100
    /\ EwNum \in Nat
    /\ EwDen \in Nat \ {0}
    /\ MaxLog \in Nat

VARIABLES
    bets,      \* table bets: the row of bet id i at position i
    log,       \* table bankroll_log, in id order
    started,   \* runners whose race_time has passed
    opened,    \* per tracker: "new", "ensure" (saw an empty log), "open"
    lock,      \* per tracker: the thread holding the pool's write lock
    pc,        \* per thread: where it is in its call
    req,       \* per thread: the arguments and rows its call holds
    seen       \* per thread: the balance it read or computed

vars == <<bets, log, started, opened, lock, pc, req, seen>>

Pending == "pending"
Outcomes == {"win", "place", "lose", "void"}
AcceptedTypes == {"win", "each_way"}
Points == {"idle", "record", "permitted", "debit", "settle", "credit",
           "rebase", "adjust"}

BetRequest == [runner : Runners \cup {FreeForm}, type : BetTypes,
               odds : Odds, stake : Stakes]
BetRow == [runner : Runners \cup {FreeForm}, type : AcceptedTypes, odds : Odds,
           stake : Stakes, before : Int, outcome : Outcomes \cup {Pending},
           gross : Int]
LogRow == [event : {"init", "adjust", "bet_placed", "bet_settled"},
           bet : Nat, amount : Int, balance : Int]

-------------------------------------------------------------------------------
(* Reads. *)

(* bankroll: the balance of the newest row, the configured one without rows. *)
Bankroll == IF log = <<>> THEN InitialBankroll ELSE log[Len(log)].balance

(* initial_bankroll: the oldest "init" row (_ensure_bankroll makes it row 1). *)
Baseline == IF log = <<>> THEN InitialBankroll ELSE log[1].balance

(* is_stopped: strictly below initial * (1 - stop_loss_pct). *)
IsStopped == Bankroll * 100 < Baseline * (100 - StopLossPct)

(* Variant: only bets still pending are looked at. *)
HasPendingBet(b) == /\ b.runner # FreeForm
                    /\ \E i \in DOMAIN bets : /\ bets[i].runner = b.runner
                                              /\ bets[i].type = b.type
                                              /\ bets[i].outcome = Pending

(* has_open_bet: any bet of the pair and type, settled or not. *)
HasOpenBet(b) == /\ b.runner # FreeForm
                 /\ \E i \in DOMAIN bets : /\ bets[i].runner = b.runner
                                           /\ bets[i].type = b.type

(* _calc_gross_return, and the refund settle_bet makes of a void bet.        *)
(* Each-way stakes half on each leg, the place leg at                        *)
(* (odds - 1) * ew_fraction + 1.                                             *)
PlaceLeg(stake, odds) == (stake * ((odds - 1) * EwNum + EwDen)) \div (2 * EwDen)
Gross(b, outcome) ==
    IF outcome = "void" THEN b.stake
    ELSE IF b.type = "win"
         THEN IF outcome = "win" THEN b.stake * b.odds ELSE 0
         ELSE (IF outcome = "win" THEN (b.stake * b.odds) \div 2 ELSE 0)
              + (IF outcome \in {"win", "place"}
                 THEN PlaceLeg(b.stake, b.odds) ELSE 0)

-------------------------------------------------------------------------------
Init == /\ bets = <<>>
        /\ log = <<>>
        /\ started = {}
        /\ opened = [k \in Trackers |-> "new"]
        /\ lock = [k \in Trackers |-> NoThread]
        /\ pc = [t \in Threads |-> "idle"]
        /\ req = [t \in Threads |-> <<>>]
        /\ seen = [t \in Threads |-> 0]

Free(t) == lock[TrackerOf[t]] = NoThread
Acquire(t) == lock' = [lock EXCEPT ![TrackerOf[t]] = t]
Release(t) == lock' = [lock EXCEPT ![TrackerOf[t]] = NoThread]
Goto(t, where) == pc' = [pc EXCEPT ![t] = where]
Idle(t) == pc[t] = "idle" /\ opened[TrackerOf[t]] = "open"

(* The bound: every call in progress writes at most one more row. *)
Busy == {t \in Threads : pc[t] # "idle"}
Room == Len(log) + Cardinality(Busy) < MaxLog

LogEntry(event, i, amount, balance) ==
    log' = Append(log, [event |-> event, bet |-> i,
                        amount |-> amount, balance |-> balance])

InitRow(amount) == [event |-> "init", bet |-> 0, amount |-> amount,
                    balance |-> amount]
(* The row of bet b once settled. *)
PaidRow(b, outcome, gross) ==
    [runner |-> b.runner, type |-> b.type, odds |-> b.odds, stake |-> b.stake,
     before |-> b.before, outcome |-> outcome, gross |-> gross]

(* _ensure_bankroll looks for a row before it takes the lock, ... *)
EnsureRead(k) ==
    /\ opened[k] = "new"
    /\ opened' = [opened EXCEPT ![k] = IF log = <<>> THEN "ensure" ELSE "open"]
    /\ UNCHANGED <<bets, log, started, lock, pc, req, seen>>

(* ... and inserts the "init" row without looking again. *)
EnsureInsert(k) ==
    /\ opened[k] = "ensure"
    /\ opened' = [opened EXCEPT ![k] = "open"]
    /\ log' = Append(log, InitRow(InitialBankroll))
    /\ UNCHANGED <<bets, started, lock, pc, req, seen>>

(* Time passes a race's off. *)
RaceOff(r) ==
    /\ r \in Runners \ started
    /\ started' = started \cup {r}
    /\ UNCHANGED <<bets, log, opened, lock, pc, req, seen>>

(* place_paper_bet: the race must not have started and the pair must be new; *)
(* the call then goes on to record_bet.                                      *)
PlacePaperBet(t, b) ==
    /\ "place_paper_bet" \in Callers
    /\ Idle(t) /\ Room
    /\ b.runner \notin started
    /\ ~HasOpenBet(b)
    /\ Goto(t, "record")
    /\ req' = [req EXCEPT ![t] = b]
    /\ UNCHANGED <<bets, log, started, opened, lock, seen>>

(* Calls refused by their first read: RaceStartedError, DuplicateBetError,   *)
(* or settle_bet's "already settled".                                        *)
RefuseAtOnce(t) ==
    /\ Idle(t)
    /\ \/ \E b \in BetRequest : /\ "place_paper_bet" \in Callers
                                /\ (b.runner \in started \/ HasOpenBet(b))
       \/ \E i \in DOMAIN bets : bets[i].outcome # Pending
    /\ UNCHANGED vars

(* record_bet called directly, as the bet slip of ui/bet_placer.py does. *)
RecordBet(t, b) ==
    /\ "record_bet" \in Callers
    /\ Idle(t) /\ Room
    /\ Goto(t, "record")
    /\ req' = [req EXCEPT ![t] = b]
    /\ UNCHANGED <<bets, log, started, opened, lock, seen>>

(* record_bet refuses: StopLossError, or ValueError for an unknown type. *)
Refuse(t) ==
    /\ pc[t] = "record"
    /\ IsStopped \/ req[t].type \notin AcceptedTypes
    /\ Goto(t, "idle")
    /\ UNCHANGED <<bets, log, started, opened, lock, req, seen>>

(* Variant: the bet type is not checked. *)
PermitAnyType(t) ==
    /\ pc[t] = "record"
    /\ ~IsStopped
    /\ Goto(t, "permitted")
    /\ UNCHANGED <<bets, log, started, opened, lock, req, seen>>

(* Variant: the stop-loss is not checked. *)
PermitStopped(t) ==
    /\ pc[t] = "record"
    /\ req[t].type \in AcceptedTypes
    /\ Goto(t, "permitted")
    /\ UNCHANGED <<bets, log, started, opened, lock, req, seen>>

(* record_bet passes its checks and waits for the write lock. *)
Permit(t) ==
    /\ pc[t] = "record"
    /\ ~IsStopped
    /\ req[t].type \in AcceptedTypes
    /\ Goto(t, "permitted")
    /\ UNCHANGED <<bets, log, started, opened, lock, req, seen>>

(* Variant: the balance is read without the lock. *)
ReadUnlocked(t) ==
    /\ pc[t] = "permitted"
    /\ Goto(t, "debit")
    /\ seen' = [seen EXCEPT ![t] = Bankroll]
    /\ UNCHANGED <<bets, log, started, opened, lock, req>>

(* Variant: the debit starts from the initial bankroll. *)
ReadBaseline(t) ==
    /\ pc[t] = "permitted"
    /\ Free(t)
    /\ Acquire(t)
    /\ Goto(t, "debit")
    /\ seen' = [seen EXCEPT ![t] = Baseline]
    /\ UNCHANGED <<bets, log, started, opened, req>>

(* record_bet takes the lock and reads the balance inside it. *)
ReadBefore(t) ==
    /\ pc[t] = "permitted"
    /\ Free(t)
    /\ Acquire(t)
    /\ Goto(t, "debit")
    /\ seen' = [seen EXCEPT ![t] = Bankroll]
    /\ UNCHANGED <<bets, log, started, opened, req>>

(* record_bet inserts the bet and its debit, commits and releases. *)
CommitBet(t) ==
    /\ pc[t] = "debit"
    /\ bets' = Append(bets, [runner |-> req[t].runner, type |-> req[t].type,
                             odds |-> req[t].odds, stake |-> req[t].stake,
                             before |-> seen[t], outcome |-> Pending,
                             gross |-> 0])
    /\ LogEntry("bet_placed", Len(bets) + 1, 0 - req[t].stake,
                seen[t] - req[t].stake)
    /\ Release(t)
    /\ Goto(t, "idle")
    /\ UNCHANGED <<started, opened, req, seen>>

(* settle_bet reads the row outside the lock and refuses a settled one. *)
SettleRead(t, i, outcome) ==
    /\ Idle(t) /\ Room
    /\ i \in DOMAIN bets
    /\ bets[i].outcome = Pending
    /\ Goto(t, "settle")
    /\ req' = [req EXCEPT ![t] = [bet |-> i, outcome |-> outcome,
                                  gross |-> Gross(bets[i], outcome)]]
    /\ UNCHANGED <<bets, log, started, opened, lock, seen>>

(* settle_bet computes the new balance, still outside the lock. *)
SettleBalance(t) ==
    /\ pc[t] = "settle"
    /\ Goto(t, "credit")
    /\ seen' = [seen EXCEPT ![t] = Bankroll + req[t].gross]
    /\ UNCHANGED <<bets, log, started, opened, lock, req>>

(* Variant: the credit is committed and the bet's row is not. *)
CommitCreditOnly(t) ==
    /\ pc[t] = "credit"
    /\ Free(t)
    /\ LogEntry("bet_settled", req[t].bet, req[t].gross, seen[t])
    /\ Goto(t, "idle")
    /\ UNCHANGED <<bets, started, opened, lock, req, seen>>

(* settle_bet's locked section reads nothing, so taking the lock, writing    *)
(* both rows and releasing it is one step.                                   *)
CommitSettle(t) ==
    /\ pc[t] = "credit"
    /\ Free(t)
    /\ bets' = [bets EXCEPT ![req[t].bet] =
                   PaidRow(bets[req[t].bet], req[t].outcome, req[t].gross)]
    /\ LogEntry("bet_settled", req[t].bet, req[t].gross, seen[t])
    /\ Goto(t, "idle")
    /\ UNCHANGED <<started, opened, lock, req, seen>>

(* set_bankroll counts the bets and reads the balance inside the lock. *)
SetBankroll(t, amount) ==
    /\ Idle(t) /\ Room
    /\ amount > 0
    /\ Free(t)
    /\ Acquire(t)
    /\ Goto(t, IF bets = <<>> THEN "rebase" ELSE "adjust")
    /\ req' = [req EXCEPT ![t] = [amount |-> amount]]
    /\ seen' = [seen EXCEPT ![t] = Bankroll]
    /\ UNCHANGED <<bets, log, started, opened>>

(* Without bets, set_bankroll rewrites every "init" row. *)
CommitRebase(t) ==
    /\ pc[t] = "rebase"
    /\ log' = [i \in DOMAIN log |->
                 IF log[i].event = "init"
                 THEN InitRow(req[t].amount) ELSE log[i]]
    /\ Release(t)
    /\ Goto(t, "idle")
    /\ UNCHANGED <<bets, started, opened, req, seen>>

(* With bets, it appends the difference. *)
CommitAdjust(t) ==
    /\ pc[t] = "adjust"
    /\ LogEntry("adjust", 0, req[t].amount - seen[t], req[t].amount)
    /\ Release(t)
    /\ Goto(t, "idle")
    /\ UNCHANGED <<bets, started, opened, req, seen>>

ThreadStep(t) ==
    \/ \E b \in BetRequest : PlacePaperBet(t, b) \/ RecordBet(t, b)
    \/ RefuseAtOnce(t)
    \/ Refuse(t) \/ Permit(t) \/ ReadBefore(t) \/ CommitBet(t)
    \/ \E i \in DOMAIN bets, o \in Outcomes : SettleRead(t, i, o)
    \/ SettleBalance(t) \/ CommitSettle(t)
    \/ \E a \in Bankrolls : SetBankroll(t, a)
    \/ CommitRebase(t) \/ CommitAdjust(t)

Next == \/ \E k \in Trackers : EnsureRead(k) \/ EnsureInsert(k)
        \/ \E r \in Runners : RaceOff(r)
        \/ \E t \in Threads : ThreadStep(t)

Spec == Init /\ [][Next]_vars

-------------------------------------------------------------------------------
(* Properties. *)

(* Rows have the shape of their tables, and a call holds what it needs for   *)
(* the step it is about to take.                                             *)
TypeOK ==
    /\ bets \in Seq(BetRow)
    /\ log \in Seq(LogRow)
    /\ started \subseteq Runners
    /\ opened \in [Trackers -> {"new", "ensure", "open"}]
    /\ lock \in [Trackers -> Threads \cup {NoThread}]
    /\ pc \in [Threads -> Points]
    /\ DOMAIN req = Threads
    /\ seen \in [Threads -> Int]
    /\ \A t \in Threads :
         /\ pc[t] \in {"record", "permitted", "debit"} => req[t] \in BetRequest
         /\ pc[t] \in {"permitted", "debit"} => req[t].type \in AcceptedTypes
         /\ pc[t] \in {"settle", "credit"} =>
              /\ req[t] \in [bet : Nat, outcome : Outcomes, gross : Int]
              /\ req[t].bet \in DOMAIN bets
         /\ pc[t] \in {"rebase", "adjust"} => req[t] \in [amount : Bankrolls]

(* A row of the ledger continues the one before it: its balance is that      *)
(* row's balance plus its own amount.                                        *)
Continues(n) == log[n].balance = log[n - 1].balance + log[n].amount

(* Bets and resets never lose an update: their rows, whose balance is read   *)
(* under the write lock, continue the ledger whatever other threads of the   *)
(* same tracker do meanwhile ("two concurrent bets cannot both deduct from   *)
(* the same pre-bet bankroll").  The row of a settlement is not claimed here. *)
LockedEntriesFollow ==
    \A n \in 2..Len(log) :
        log[n].event \in {"bet_placed", "adjust"} => Continues(n)

(* The whole ledger, settlements included, is one unbroken running balance:  *)
(* no stake is forgotten and no return is paid on top of a stale balance.    *)
LedgerContinuity == \A n \in 2..Len(log) : Continues(n)

(* The guard of place_paper_bet: no two bets of one type on one runner. *)
NoDoubleBet ==
    \A i, j \in DOMAIN bets :
        /\ bets[i].runner = bets[j].runner
        /\ bets[i].type = bets[j].type
        /\ bets[i].runner # FreeForm
        => i = j

RowsOf(event, i) == {n \in DOMAIN log : log[n].event = event /\ log[n].bet = i}

(* The two tables tell the same story, even across processes: each bet was   *)
(* debited by exactly one row, for its stake, from the balance it recorded   *)
(* as bankroll_before, and a bet has an outcome exactly when a row paid it,  *)
(* the last such row paying the gross return the bet shows.                  *)
BooksAgree ==
    \A i \in DOMAIN bets :
        /\ \E n \in DOMAIN log :
              /\ RowsOf("bet_placed", i) = {n}
              /\ log[n].amount = 0 - bets[i].stake
              /\ log[n].balance = bets[i].before - bets[i].stake
        /\ LET paid == RowsOf("bet_settled", i) IN
              IF bets[i].outcome = Pending THEN paid = {}
              ELSE \E n \in paid : /\ \A m \in paid : m <= n
                                   /\ log[n].amount = bets[i].gross

(* No bet is written while the bankroll is below the stop-loss floor. *)
StopLossHonoured == [][Len(bets') > Len(bets) => ~IsStopped]_vars

(* The tables as an atomic account: calls in progress are stuttering, a      *)
(* commit is a stake, a payment or a reset.                                  *)
Account == INSTANCE PaperAccount WITH
    BetIds <- 1..MaxLog,
    Returns <- {Gross([type |-> ty, odds |-> o, stake |-> s], oc) :
                   ty \in AcceptedTypes, o \in Odds, s \in Stakes, oc \in Outcomes},
    Bankrolls <- Bankrolls \cup {InitialBankroll},
    balance <- Bankroll,
    pending <- {i \in DOMAIN bets : bets[i].outcome = Pending},
    settled <- {i \in DOMAIN bets : bets[i].outcome # Pending}

(* Used by one thread, the tracker implements the atomic account. *)
ImplementsAccount == Account!Spec

===============================================================================
