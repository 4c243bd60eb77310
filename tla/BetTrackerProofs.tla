--------------------------- MODULE BetTrackerProofs ---------------------------
(***************************************************************************)
(* What holds of BetTracker for every number of threads, trackers, bets    *)
(* and amounts.                                                            *)
(***************************************************************************)
EXTENDS BetTracker, SequenceTheorems, FiniteSetTheorems, TLAPS

USE DEF Pending, Outcomes, AcceptedTypes, Points

(* What settling pays is an integer number of units. *)
LEMMA GrossInt ==
    ASSUME NEW b, b.stake \in Nat, b.odds \in Nat, NEW o
    PROVE  Gross(b, o) \in Int
<1>1. PlaceLeg(b.stake, b.odds) \in Int
  <2>1. b.stake * ((b.odds - 1) * EwNum + EwDen) \in Int
    BY MoneyAssumption
  <2>2. 2 * EwDen \in Int /\ 2 * EwDen > 0
    BY MoneyAssumption
  <2> QED BY <2>1, <2>2 DEF PlaceLeg
<1>2. b.stake * b.odds \in Int /\ (b.stake * b.odds) \div 2 \in Int
  OBVIOUS
<1> QED BY <1>1, <1>2 DEF Gross

(* Amounts the user may set are integers. *)
LEMMA AmountInt == ASSUME NEW a \in Bankrolls PROVE a \in Int
<1> QED BY MoneyAssumption

(* A function on an initial segment of the naturals is a sequence. *)
LEMMA SeqOfFcn == ASSUME NEW S, NEW n \in Nat, NEW f \in [1..n -> S]
                  PROVE  f \in Seq(S)
<1> QED BY SeqDef

(* Appending leaves no sequence empty, whatever is appended. *)
LEMMA AppendNotEmpty == ASSUME NEW S, NEW s \in Seq(S), NEW e
                        PROVE  Append(s, e) # <<>>
<1>1. s \in Seq(S \cup {e})
  OBVIOUS
<1> QED BY <1>1, AppendProperties

(* The balance a thread reads is an integer number of units. *)
LEMMA BankrollInt == ASSUME TypeOK PROVE Bankroll \in Int
<1>1. log \in Seq(LogRow)
  BY DEF TypeOK
<1>2. ASSUME log # <<>> PROVE log[Len(log)] \in LogRow
  BY <1>1, <1>2
<1> QED BY <1>1, <1>2, MoneyAssumption DEF Bankroll, LogRow

(* Appending a well-formed row keeps the log well formed. *)
LEMMA LogEntryType ==
    ASSUME log \in Seq(LogRow), NEW e \in {"init", "adjust", "bet_placed", "bet_settled"},
           NEW i \in Nat, NEW a \in Int, NEW b \in Int, LogEntry(e, i, a, b)
    PROVE  log' \in Seq(LogRow)
<1>1. [event |-> e, bet |-> i, amount |-> a, balance |-> b] \in LogRow
  BY DEF LogRow
<1> QED BY <1>1 DEF LogEntry

-------------------------------------------------------------------------------
(* Type correctness. *)

(* The empty database and idle threads are well typed. *)
LEMMA TypeInit == Init => TypeOK
<1> SUFFICES ASSUME Init PROVE TypeOK
  OBVIOUS
<1>1. bets \in Seq(BetRow) /\ log \in Seq(LogRow)
  BY DEF Init
<1>2. /\ opened \in [Trackers -> {"new", "ensure", "open"}]
      /\ lock \in [Trackers -> Threads \cup {NoThread}]
      /\ DOMAIN req = Threads
      /\ seen \in [Threads -> Int]
  BY DEF Init
<1>3. /\ pc \in [Threads -> {"idle", "record", "permitted", "debit", "settle",
                             "credit", "rebase", "adjust"}]
      /\ \A t \in Threads : pc[t] = "idle"
  BY DEF Init
<1>4. started \subseteq Runners
  BY DEF Init
<1> QED BY <1>1, <1>2, <1>3, <1>4 DEF TypeOK

(* Every step of every thread keeps the state well typed. *)
LEMMA TypeStep == TypeOK /\ [Next]_vars => TypeOK'
<1> SUFFICES ASSUME TypeOK, [Next]_vars PROVE TypeOK'
  OBVIOUS
<1> USE DEF TypeOK
<1>1. ASSUME NEW k \in Trackers, EnsureRead(k) PROVE TypeOK'
  BY <1>1 DEF EnsureRead
<1>2. ASSUME NEW k \in Trackers, EnsureInsert(k) PROVE TypeOK'
  <2>1. InitRow(InitialBankroll) \in LogRow
    BY MoneyAssumption DEF InitRow, LogRow
  <2>2. log' \in Seq(LogRow)
    BY <1>2, <2>1 DEF EnsureInsert
  <2> QED BY <1>2, <2>2 DEF EnsureInsert
<1>3. ASSUME NEW r \in Runners, RaceOff(r) PROVE TypeOK'
  BY <1>3 DEF RaceOff
<1>4. ASSUME NEW t \in Threads, NEW b \in BetRequest,
             PlacePaperBet(t, b) \/ RecordBet(t, b)
      PROVE  TypeOK'
  <2>1. /\ pc' = [pc EXCEPT ![t] = "record"]
        /\ req' = [req EXCEPT ![t] = b]
        /\ UNCHANGED <<bets, log, started, opened, lock, seen>>
    BY <1>4 DEF PlacePaperBet, RecordBet, Goto
  <2> QED BY <2>1
<1>5. ASSUME NEW t \in Threads, RefuseAtOnce(t) PROVE TypeOK'
  BY <1>5 DEF RefuseAtOnce, vars
<1>6. ASSUME NEW t \in Threads, Refuse(t) \/ Permit(t) PROVE TypeOK'
  BY <1>6 DEF Refuse, Permit, Goto
<1>7. ASSUME NEW t \in Threads, ReadBefore(t) PROVE TypeOK'
  <2>1. Bankroll \in Int
    BY BankrollInt
  <2>2. lock' \in [Trackers -> Threads \cup {NoThread}]
    BY <1>7, ThreadsAssumption DEF ReadBefore, Acquire
  <2> QED BY <1>7, <2>1, <2>2 DEF ReadBefore, Goto
<1>8. ASSUME NEW t \in Threads, CommitBet(t) PROVE TypeOK'
  <2>1. req[t] \in BetRequest /\ req[t].type \in AcceptedTypes /\ seen[t] \in Int
    BY <1>8 DEF CommitBet
  <2>2. req[t].stake \in Nat
    BY <2>1, MoneyAssumption DEF BetRequest
  <2>3. bets' \in Seq(BetRow) /\ DOMAIN bets \subseteq DOMAIN bets'
    <3> DEFINE row == [runner |-> req[t].runner, type |-> req[t].type,
                       odds |-> req[t].odds, stake |-> req[t].stake,
                       before |-> seen[t], outcome |-> Pending, gross |-> 0]
    <3>1. row \in BetRow
      BY <2>1 DEF BetRequest, BetRow
    <3>2. bets' = Append(bets, row)
      BY <1>8 DEF CommitBet
    <3> HIDE DEF row
    <3> QED BY <3>1, <3>2
  <2>4. log' \in Seq(LogRow)
    <3>1. LogEntry("bet_placed", Len(bets) + 1, 0 - req[t].stake, seen[t] - req[t].stake)
      BY <1>8 DEF CommitBet
    <3>2. Len(bets) + 1 \in Nat /\ 0 - req[t].stake \in Int /\ seen[t] - req[t].stake \in Int
      BY <2>1, <2>2
    <3>3. log \in Seq(LogRow)
      OBVIOUS
    <3> QED BY <3>1, <3>2, <3>3, LogEntryType
  <2>5. lock' \in [Trackers -> Threads \cup {NoThread}]
    BY <1>8, ThreadsAssumption DEF CommitBet, Release
  <2> QED BY <1>8, <2>3, <2>4, <2>5 DEF CommitBet, Goto
<1>9. ASSUME NEW t \in Threads, NEW i \in DOMAIN bets, NEW o \in Outcomes,
             SettleRead(t, i, o)
      PROVE  TypeOK'
  <2>1. bets[i] \in BetRow /\ i \in Nat
    OBVIOUS
  <2>2. Gross(bets[i], o) \in Int
    BY <2>1, GrossInt, MoneyAssumption DEF BetRow
  <2> QED BY <1>9, <2>1, <2>2 DEF SettleRead, Goto
<1>10. ASSUME NEW t \in Threads, SettleBalance(t) PROVE TypeOK'
  <2>1. Bankroll \in Int
    BY BankrollInt
  <2>2. req[t].gross \in Int
    BY <1>10 DEF SettleBalance
  <2> QED BY <1>10, <2>1, <2>2 DEF SettleBalance, Goto
<1>11. ASSUME NEW t \in Threads, CommitSettle(t) PROVE TypeOK'
  <2>1. /\ req[t] \in [bet : Nat, outcome : Outcomes, gross : Int]
        /\ req[t].bet \in DOMAIN bets
        /\ seen[t] \in Int
    BY <1>11 DEF CommitSettle
  <2>2. bets' \in Seq(BetRow) /\ DOMAIN bets' = DOMAIN bets
    <3>1. bets[req[t].bet] \in BetRow
      BY <2>1
    <3> DEFINE row == PaidRow(bets[req[t].bet], req[t].outcome, req[t].gross)
    <3>2. row \in BetRow
      BY <2>1, <3>1 DEF BetRow, PaidRow
    <3>3. bets' = [bets EXCEPT ![req[t].bet] = row]
      BY <1>11 DEF CommitSettle
    <3> HIDE DEF row
    <3> QED BY <2>1, <3>2, <3>3
  <2>3. log' \in Seq(LogRow)
    <3>1. LogEntry("bet_settled", req[t].bet, req[t].gross, seen[t])
      BY <1>11 DEF CommitSettle
    <3>2. req[t].bet \in Nat /\ req[t].gross \in Int /\ seen[t] \in Int
      BY <2>1
    <3>3. log \in Seq(LogRow)
      OBVIOUS
    <3> QED BY <3>1, <3>2, <3>3, LogEntryType
  <2> QED BY <1>11, <2>2, <2>3 DEF CommitSettle, Goto
<1>12. ASSUME NEW t \in Threads, NEW a \in Bankrolls, SetBankroll(t, a)
       PROVE  TypeOK'
  <2>1. Bankroll \in Int
    BY BankrollInt
  <2>2. lock' \in [Trackers -> Threads \cup {NoThread}]
    BY <1>12, ThreadsAssumption DEF SetBankroll, Acquire
  <2> QED BY <1>12, <2>1, <2>2 DEF SetBankroll, Goto
<1>13. ASSUME NEW t \in Threads, CommitRebase(t) PROVE TypeOK'
  <2>1. req[t].amount \in Int
    <3>1. req[t] \in [amount : Bankrolls]
      BY <1>13 DEF CommitRebase
    <3>2. req[t].amount \in Bankrolls
      BY <3>1
    <3> HIDE DEF TypeOK
    <3> QED BY <3>2, AmountInt
  <2>2. \A i \in DOMAIN log : log[i] \in LogRow
    OBVIOUS
  <2>3. log' \in Seq(LogRow)
    <3>1. \A i \in DOMAIN log : log'[i] \in LogRow
      BY <1>13, <2>1, <2>2 DEF CommitRebase, LogRow, InitRow
    <3>2. DOMAIN log' = 1..Len(log) /\ Len(log) \in Nat /\ DOMAIN log = 1..Len(log)
      BY <1>13 DEF CommitRebase
    <3>3. log' \in [1..Len(log) -> LogRow]
      BY <1>13, <3>1, <3>2 DEF CommitRebase
    <3> QED BY <3>2, <3>3, SeqOfFcn
  <2>4. lock' \in [Trackers -> Threads \cup {NoThread}]
    BY <1>13, ThreadsAssumption DEF CommitRebase, Release
  <2> QED BY <1>13, <2>3, <2>4 DEF CommitRebase, Goto
<1>14. ASSUME NEW t \in Threads, CommitAdjust(t) PROVE TypeOK'
  <2>1. req[t].amount \in Int /\ seen[t] \in Int
    <3>1. req[t] \in [amount : Bankrolls]
      BY <1>14 DEF CommitAdjust
    <3>2. req[t].amount \in Bankrolls
      BY <3>1
    <3>3. seen[t] \in Int
      OBVIOUS
    <3> HIDE DEF TypeOK
    <3> QED BY <3>2, <3>3, AmountInt
  <2>2. log' \in Seq(LogRow)
    <3>1. LogEntry("adjust", 0, req[t].amount - seen[t], req[t].amount)
      BY <1>14 DEF CommitAdjust
    <3>2. 0 \in Nat /\ req[t].amount - seen[t] \in Int /\ req[t].amount \in Int
      BY <2>1
    <3>3. log \in Seq(LogRow)
      OBVIOUS
    <3> QED BY <3>1, <3>2, <3>3, LogEntryType
  <2>3. lock' \in [Trackers -> Threads \cup {NoThread}]
    BY <1>14, ThreadsAssumption DEF CommitAdjust, Release
  <2> QED BY <1>14, <2>2, <2>3 DEF CommitAdjust, Goto
<1>15. CASE UNCHANGED vars
  BY <1>15 DEF vars
<1> QED
  BY <1>1, <1>2, <1>3, <1>4, <1>5, <1>6, <1>7, <1>8, <1>9, <1>10, <1>11, <1>12,
     <1>13, <1>14, <1>15 DEF Next, ThreadStep

(* However many threads and trackers share the database, the tables keep     *)
(* their shape and a call in progress holds arguments it may use.            *)
THEOREM TypeCorrect == Spec => []TypeOK
<1> QED BY TypeInit, TypeStep, PTL DEF Spec

-------------------------------------------------------------------------------
(* Threads sharing one tracker: what the write lock protects. *)

OneTracker == \A j, k \in Trackers : j = k

(* The database is empty exactly until the tracker is open, and only then    *)
(* are there calls.                                                          *)
OpenInv == /\ \A k \in Trackers : opened[k] = "open" <=> log # <<>>
           /\ \A t \in Threads : pc[t] # "idle" => log # <<>>

(* A call between taking the lock and its commit holds it. *)
LockInv == \A t \in Threads :
    pc[t] \in {"debit", "rebase", "adjust"} => lock[TrackerOf[t]] = t

(* Before the first bet the ledger is its "init" row alone. *)
BaseInv == /\ bets = <<>> => Len(log) <= 1
           /\ \A t \in Threads : /\ pc[t] = "rebase" => bets = <<>>
                                 /\ pc[t] = "adjust" => bets # <<>>

(* What was read under the lock is still the balance at the commit. *)
SeenInv == \A t \in Threads :
    pc[t] \in {"debit", "adjust"} => seen[t] = Bankroll

SharedInv == TypeOK /\ OpenInv /\ LockInv /\ BaseInv /\ SeenInv

(* With one tracker, all threads use the same one. *)
LEMMA SameTracker == ASSUME OneTracker, NEW t \in Threads, NEW u \in Threads
                     PROVE  TrackerOf[t] = TrackerOf[u] /\ TrackerOf[t] \in Trackers
<1> QED BY ThreadsAssumption DEF OneTracker

(* The initial state satisfies the invariant: nothing is open, nothing runs. *)
LEMMA SharedInit == Init => SharedInv
<1> SUFFICES ASSUME Init PROVE SharedInv
  OBVIOUS
<1>1. TypeOK
  BY TypeInit
<1>2. \A t \in Threads : pc[t] = "idle"
  BY DEF Init
<1>3. OpenInv /\ LockInv /\ SeenInv
  BY <1>2 DEF Init, OpenInv, LockInv, SeenInv
<1>4. BaseInv
  BY <1>2 DEF Init, BaseInv
<1> QED BY <1>1, <1>3, <1>4 DEF SharedInv

(* Steps that touch neither table and do not move the lock. *)
LEMMA QuietStep ==
    ASSUME SharedInv, NEW t \in Threads, UNCHANGED <<bets, log, opened, lock>>,
           NEW where \in {"idle", "record", "permitted", "settle", "credit"},
           pc' = [pc EXCEPT ![t] = where],
           \A u \in Threads : u # t => seen'[u] = seen[u],
           where = "idle" \/ opened[TrackerOf[t]] = "open" \/ pc[t] # "idle"
    PROVE  OpenInv' /\ LockInv' /\ BaseInv' /\ SeenInv'
<1> USE DEF SharedInv
<1>1. pc \in [Threads -> Points] /\ TrackerOf[t] \in Trackers
  BY ThreadsAssumption DEF TypeOK
<1>2. OpenInv'
  BY <1>1 DEF OpenInv
<1>3. LockInv' /\ BaseInv'
  BY <1>1 DEF LockInv, BaseInv
<1>4. Bankroll' = Bankroll
  BY DEF Bankroll
<1>5. SeenInv'
  BY <1>1, <1>4 DEF SeenInv
<1> QED BY <1>2, <1>3, <1>5

(* With one tracker, a thread that finds the lock free or holds it itself    *)
(* knows that no other thread has a read of its own outstanding.             *)
LEMMA Alone ==
    ASSUME OneTracker, LockInv, NEW t \in Threads, NEW u \in Threads, u # t,
           lock[TrackerOf[t]] = t \/ lock[TrackerOf[t]] = NoThread
    PROVE  pc[u] \notin {"debit", "rebase", "adjust"}
<1>1. TrackerOf[t] = TrackerOf[u]
  BY SameTracker
<1> QED BY <1>1, ThreadsAssumption DEF LockInv

(* Every step keeps what the lock protects. *)
LEMMA SharedStep == OneTracker /\ SharedInv /\ [Next]_vars => SharedInv'
<1> SUFFICES ASSUME OneTracker, SharedInv, [Next]_vars
             PROVE  OpenInv' /\ LockInv' /\ BaseInv' /\ SeenInv'
  BY TypeStep DEF SharedInv
<1> DEFINE Goal == OpenInv' /\ LockInv' /\ BaseInv' /\ SeenInv'
<1> USE DEF SharedInv
<1>0. /\ pc \in [Threads -> Points]
      /\ \A t \in Threads : TrackerOf[t] \in Trackers
      /\ lock \in [Trackers -> Threads \cup {NoThread}]
      /\ opened \in [Trackers -> {"new", "ensure", "open"}]
      /\ bets \in Seq(BetRow) /\ log \in Seq(LogRow)
      /\ seen \in [Threads -> Int]
  BY ThreadsAssumption DEF TypeOK
<1>1. ASSUME NEW k \in Trackers, EnsureRead(k) PROVE Goal
  <2>1. log = <<>> /\ opened' = [opened EXCEPT ![k] = "ensure"]
    BY <1>1 DEF EnsureRead, OpenInv
  <2>2. OpenInv' /\ LockInv' /\ BaseInv'
    BY <1>0, <1>1, <2>1 DEF EnsureRead, OpenInv, LockInv, BaseInv
  <2>3. SeenInv'
    BY <1>1 DEF EnsureRead, SeenInv, Bankroll
  <2> QED BY <2>2, <2>3
<1>2. ASSUME NEW k \in Trackers, EnsureInsert(k) PROVE Goal
  <2>1. log = <<>> /\ \A t \in Threads : pc[t] = "idle"
    BY <1>2 DEF EnsureInsert, OpenInv
  <2>2. Len(log') = 1 /\ log' # <<>>
    BY <1>2, <2>1 DEF EnsureInsert
  <2>3. OpenInv'
    BY <1>0, <1>2, <2>2 DEF EnsureInsert, OpenInv, OneTracker
  <2>4. LockInv' /\ BaseInv' /\ SeenInv'
    BY <1>2, <2>1, <2>2 DEF EnsureInsert, LockInv, BaseInv, SeenInv
  <2> QED BY <2>3, <2>4
<1>3. ASSUME NEW r \in Runners, RaceOff(r) PROVE Goal
  BY <1>3 DEF RaceOff, OpenInv, LockInv, BaseInv, SeenInv, Bankroll
<1>4. ASSUME NEW t \in Threads, NEW b \in BetRequest,
             PlacePaperBet(t, b) \/ RecordBet(t, b)
      PROVE  Goal
  BY <1>4, QuietStep DEF PlacePaperBet, RecordBet, Goto, Idle
<1>5. ASSUME NEW t \in Threads, RefuseAtOnce(t) PROVE Goal
  BY <1>5 DEF RefuseAtOnce, vars, OpenInv, LockInv, BaseInv, SeenInv, Bankroll
<1>6. ASSUME NEW t \in Threads, Refuse(t) \/ Permit(t) PROVE Goal
  BY <1>6, QuietStep DEF Refuse, Permit, Goto
<1>7. ASSUME NEW t \in Threads, ReadBefore(t) PROVE Goal
  <2>1. pc' = [pc EXCEPT ![t] = "debit"] /\ lock' = [lock EXCEPT ![TrackerOf[t]] = t]
    BY <1>7 DEF ReadBefore, Goto, Acquire
  <2>2. OpenInv' /\ BaseInv'
    BY <1>0, <1>7, <2>1 DEF ReadBefore, OpenInv, BaseInv
  <2>3. \A u \in Threads : u # t => pc[u] \notin {"debit", "rebase", "adjust"}
    BY <1>7, Alone DEF ReadBefore, Free
  <2>4. LockInv'
    BY <1>0, <2>1, <2>3 DEF LockInv
  <2>5. SeenInv'
    BY <1>0, <1>7, <2>1, <2>3 DEF ReadBefore, SeenInv, Bankroll
  <2> QED BY <2>2, <2>4, <2>5
<1>8. ASSUME NEW t \in Threads, CommitBet(t) PROVE Goal
  <2>1. /\ pc' = [pc EXCEPT ![t] = "idle"] /\ lock' = [lock EXCEPT ![TrackerOf[t]] = NoThread]
        /\ pc[t] = "debit" /\ opened' = opened
    BY <1>8 DEF CommitBet, Goto, Release
  <2>2. log' # <<>> /\ log # <<>> /\ bets' # <<>>
    <3>1. log # <<>>
      BY <2>1 DEF OpenInv
    <3>2. log' # <<>>
      <4>1. \E e : log' = Append(log, e)
        BY <1>8 DEF CommitBet, LogEntry
      <4> QED BY <1>0, <4>1, AppendNotEmpty
    <3>3. bets' # <<>>
      <4>1. \E e : bets' = Append(bets, e)
        BY <1>8 DEF CommitBet
      <4> QED BY <1>0, <4>1, AppendNotEmpty
    <3> QED BY <3>1, <3>2, <3>3
  <2>3. \A u \in Threads : u # t => pc[u] \notin {"debit", "rebase", "adjust"}
    BY <2>1, Alone DEF LockInv
  <2>4. \A u \in Threads : pc'[u] \notin {"debit", "rebase", "adjust"}
    BY <1>0, <2>1, <2>3
  <2>5. OpenInv'
    BY <2>1, <2>2 DEF OpenInv
  <2> QED BY <2>2, <2>4, <2>5 DEF LockInv, BaseInv, SeenInv
<1>9. ASSUME NEW t \in Threads, NEW i \in DOMAIN bets, NEW o \in Outcomes,
             SettleRead(t, i, o)
      PROVE  Goal
  BY <1>9, QuietStep DEF SettleRead, Goto, Idle
<1>10. ASSUME NEW t \in Threads, SettleBalance(t) PROVE Goal
  <2>1. \A u \in Threads : u # t => seen'[u] = seen[u]
    BY <1>0, <1>10 DEF SettleBalance
  <2> QED BY <1>10, <2>1, QuietStep DEF SettleBalance, Goto
<1>11. ASSUME NEW t \in Threads, CommitSettle(t) PROVE Goal
  <2>1. /\ pc' = [pc EXCEPT ![t] = "idle"] /\ lock' = lock
        /\ pc[t] = "credit" /\ opened' = opened
    BY <1>11 DEF CommitSettle, Goto
  <2>2. req[t].bet \in DOMAIN bets
    BY <1>11 DEF CommitSettle, TypeOK
  <2>3. log' # <<>> /\ log # <<>> /\ bets' # <<>>
    <3>1. log # <<>> /\ bets # <<>>
      BY <1>0, <2>1, <2>2 DEF OpenInv
    <3>2. bets' # <<>>
      <4>1. DOMAIN bets' = DOMAIN bets
        BY <1>11 DEF CommitSettle
      <4> QED BY <2>2, <4>1
    <3>3. log' # <<>>
      <4>1. \E e : log' = Append(log, e)
        BY <1>11 DEF CommitSettle, LogEntry
      <4> QED BY <1>0, <4>1, AppendNotEmpty
    <3> QED BY <3>1, <3>2, <3>3
  <2>4. \A u \in Threads : u # t => pc[u] \notin {"debit", "rebase", "adjust"}
    BY <1>11, Alone DEF CommitSettle, Free
  <2>5. \A u \in Threads : pc'[u] \notin {"debit", "rebase", "adjust"}
    BY <1>0, <2>1, <2>4
  <2>6. OpenInv'
    BY <2>1, <2>3 DEF OpenInv
  <2> QED BY <2>3, <2>5, <2>6 DEF LockInv, BaseInv, SeenInv
<1>12. ASSUME NEW t \in Threads, NEW a \in Bankrolls, SetBankroll(t, a)
       PROVE  Goal
  <2> DEFINE where == IF bets = <<>> THEN "rebase" ELSE "adjust"
  <2>1. /\ pc' = [pc EXCEPT ![t] = where] /\ lock' = [lock EXCEPT ![TrackerOf[t]] = t]
        /\ opened[TrackerOf[t]] = "open" /\ UNCHANGED <<bets, log, opened>>
        /\ seen' = [seen EXCEPT ![t] = Bankroll]
    BY <1>12 DEF SetBankroll, Goto, Acquire, Idle
  <2>2. OpenInv' /\ BaseInv'
    BY <1>0, <2>1 DEF OpenInv, BaseInv
  <2>3. \A u \in Threads : u # t => pc[u] \notin {"debit", "rebase", "adjust"}
    BY <1>12, Alone DEF SetBankroll, Free
  <2>4. LockInv'
    BY <1>0, <2>1, <2>3 DEF LockInv
  <2>5. SeenInv'
    BY <1>0, <2>1, <2>3 DEF SeenInv, Bankroll
  <2> QED BY <2>2, <2>4, <2>5
<1>13. ASSUME NEW t \in Threads, CommitRebase(t) PROVE Goal
  <2>1. /\ pc' = [pc EXCEPT ![t] = "idle"] /\ lock' = [lock EXCEPT ![TrackerOf[t]] = NoThread]
        /\ pc[t] = "rebase" /\ UNCHANGED <<bets, opened>>
    BY <1>13 DEF CommitRebase, Goto, Release
  <2>2. Len(log') = Len(log) /\ log # <<>> /\ log' # <<>>
    <3>1. DOMAIN log' = 1..Len(log) /\ Len(log) \in Nat
      BY <1>0, <1>13 DEF CommitRebase
    <3>2. log' \in Seq(LogRow)
      BY TypeStep DEF TypeOK
    <3>3. log # <<>>
      BY <2>1 DEF OpenInv
    <3> QED BY <1>0, <3>1, <3>2, <3>3
  <2>3. \A u \in Threads : u # t => pc[u] \notin {"debit", "rebase", "adjust"}
    BY <2>1, Alone DEF LockInv
  <2>4. \A u \in Threads : pc'[u] \notin {"debit", "rebase", "adjust"}
    BY <1>0, <2>1, <2>3
  <2>5. OpenInv' /\ BaseInv'
    BY <2>1, <2>2, <2>4 DEF OpenInv, BaseInv
  <2> QED BY <2>4, <2>5 DEF LockInv, SeenInv
<1>14. ASSUME NEW t \in Threads, CommitAdjust(t) PROVE Goal
  <2>1. /\ pc' = [pc EXCEPT ![t] = "idle"] /\ lock' = [lock EXCEPT ![TrackerOf[t]] = NoThread]
        /\ pc[t] = "adjust" /\ UNCHANGED <<bets, opened>>
    BY <1>14 DEF CommitAdjust, Goto, Release
  <2>2. log' # <<>> /\ log # <<>> /\ bets # <<>>
    <3>1. log # <<>> /\ bets # <<>>
      BY <2>1 DEF OpenInv, BaseInv
    <3>2. log' # <<>>
      BY <1>0, <1>14 DEF CommitAdjust, LogEntry
    <3> QED BY <3>1, <3>2
  <2>3. \A u \in Threads : u # t => pc[u] \notin {"debit", "rebase", "adjust"}
    BY <2>1, Alone DEF LockInv
  <2>4. \A u \in Threads : pc'[u] \notin {"debit", "rebase", "adjust"}
    BY <1>0, <2>1, <2>3
  <2>5. OpenInv'
    BY <2>1, <2>2 DEF OpenInv
  <2> QED BY <2>1, <2>2, <2>4, <2>5 DEF LockInv, BaseInv, SeenInv
<1>15. CASE UNCHANGED vars
  BY <1>15 DEF vars, OpenInv, LockInv, BaseInv, SeenInv, Bankroll
<1> QED
  BY <1>1, <1>2, <1>3, <1>4, <1>5, <1>6, <1>7, <1>8, <1>9, <1>10, <1>11, <1>12,
     <1>13, <1>14, <1>15 DEF Next, ThreadStep

-------------------------------------------------------------------------------
(* The ledger. *)

(* A new row that starts from the current balance continues the ledger, and  *)
(* the rows before it are untouched.                                         *)
LEMMA Extends ==
    ASSUME log \in Seq(LogRow), log # <<>>, NEW row \in LogRow,
           log' = Append(log, row)
    PROVE  /\ \A n \in 2..Len(log) : Continues(n)' <=> Continues(n)
           /\ \A n \in 2..Len(log) : log'[n] = log[n]
           /\ Len(log') = Len(log) + 1 /\ Len(log) >= 1 /\ Len(log) \in Nat
           /\ log'[Len(log')] = row
           /\ \A n : n = Len(log) + 1 =>
                (Continues(n)' <=> row.balance = Bankroll + row.amount)
<1>1. /\ Len(log) \in Nat /\ Len(log) >= 1 /\ Len(log') = Len(log) + 1
      /\ \A n \in 1..Len(log) : log'[n] = log[n]
      /\ log'[Len(log) + 1] = row
  OBVIOUS
<1>2. \A n \in 2..Len(log) : n - 1 \in 1..Len(log) /\ n \in 1..Len(log)
  BY <1>1
<1>3. Len(log') - 1 = Len(log) /\ log'[Len(log)] = log[Len(log)]
  BY <1>1
<1>4. Bankroll = log[Len(log)].balance
  BY DEF Bankroll
<1>5. ASSUME NEW n \in 2..Len(log) PROVE Continues(n)' <=> Continues(n)
  <2>1. log'[n] = log[n] /\ log'[n - 1] = log[n - 1]
    BY <1>1, <1>2
  <2> QED BY <2>1 DEF Continues
<1>6. ASSUME NEW n, n = Len(log) + 1
      PROVE  Continues(n)' <=> row.balance = Bankroll + row.amount
  <2>1. log'[n] = row /\ log'[n - 1].balance = Bankroll
    BY <1>1, <1>3, <1>4, <1>6
  <2> QED BY <2>1 DEF Continues
<1> QED BY <1>1, <1>2, <1>5, <1>6

(* The commits that append a row, and the balance each starts from. *)
LEMMA AppendingSteps ==
    ASSUME OneTracker, SharedInv, NEW t \in Threads
    PROVE  /\ CommitBet(t) => \E row \in LogRow :
                /\ log' = Append(log, row) /\ log # <<>>
                /\ row.balance = Bankroll + row.amount
           /\ CommitAdjust(t) => \E row \in LogRow :
                /\ log' = Append(log, row) /\ log # <<>>
                /\ row.balance = Bankroll + row.amount
           /\ CommitSettle(t) => \E row \in LogRow :
                /\ log' = Append(log, row) /\ log # <<>>
                /\ row.event = "bet_settled"
                /\ row.amount = req[t].gross /\ row.balance = seen[t]
<1> USE DEF SharedInv
<1>0. log \in Seq(LogRow) /\ Bankroll \in Int /\ bets \in Seq(BetRow)
  BY BankrollInt DEF TypeOK
<1>1. ASSUME CommitBet(t)
      PROVE  \E row \in LogRow : /\ log' = Append(log, row) /\ log # <<>>
                                 /\ row.balance = Bankroll + row.amount
  <2>1. pc[t] = "debit" /\ log # <<>> /\ seen[t] = Bankroll
    BY <1>1 DEF CommitBet, OpenInv, SeenInv
  <2>2. req[t] \in BetRequest
    BY <2>1 DEF TypeOK
  <2>3. req[t].stake \in Nat
    BY <2>2, MoneyAssumption DEF BetRequest
  <2> DEFINE row == [event |-> "bet_placed", bet |-> Len(bets) + 1,
                     amount |-> 0 - req[t].stake, balance |-> seen[t] - req[t].stake]
  <2>4. row \in LogRow /\ row.balance = Bankroll + row.amount
    <3>1. /\ seen[t] \in Int /\ Len(bets) + 1 \in Nat
          /\ seen[t] - req[t].stake = Bankroll + (0 - req[t].stake)
      BY <1>0, <2>1, <2>3
    <3> QED BY <2>3, <3>1 DEF LogRow
  <2>5. log' = Append(log, row)
    BY <1>1 DEF CommitBet, LogEntry
  <2> QED BY <2>1, <2>4, <2>5
<1>2. ASSUME CommitAdjust(t)
      PROVE  \E row \in LogRow : /\ log' = Append(log, row) /\ log # <<>>
                                 /\ row.balance = Bankroll + row.amount
  <2>1. pc[t] = "adjust" /\ log # <<>> /\ seen[t] = Bankroll
    BY <1>2 DEF CommitAdjust, OpenInv, SeenInv
  <2>2. req[t] \in [amount : Bankrolls]
    BY <2>1 DEF TypeOK
  <2>3. req[t].amount \in Int
    BY <2>2, AmountInt
  <2> DEFINE row == [event |-> "adjust", bet |-> 0,
                     amount |-> req[t].amount - seen[t], balance |-> req[t].amount]
  <2>4. row \in LogRow /\ row.balance = Bankroll + row.amount
    <3>1. seen[t] \in Int /\ req[t].amount = Bankroll + (req[t].amount - seen[t])
      BY <1>0, <2>1, <2>3
    <3> QED BY <2>3, <3>1 DEF LogRow
  <2>5. log' = Append(log, row)
    BY <1>2 DEF CommitAdjust, LogEntry
  <2> QED BY <2>1, <2>4, <2>5
<1>3. ASSUME CommitSettle(t)
      PROVE  \E row \in LogRow :
                /\ log' = Append(log, row) /\ log # <<>>
                /\ row.event = "bet_settled"
                /\ row.amount = req[t].gross /\ row.balance = seen[t]
  <2>1. pc[t] = "credit" /\ log # <<>>
    BY <1>3 DEF CommitSettle, OpenInv
  <2>2. req[t] \in [bet : Nat, outcome : Outcomes, gross : Int] /\ seen[t] \in Int
    BY <2>1 DEF TypeOK
  <2> DEFINE row == [event |-> "bet_settled", bet |-> req[t].bet,
                     amount |-> req[t].gross, balance |-> seen[t]]
  <2>3. row \in LogRow
    BY <2>2 DEF LogRow
  <2>4. log' = Append(log, row)
    BY <1>3 DEF CommitSettle, LogEntry
  <2> QED BY <2>1, <2>3, <2>4
<1> QED BY <1>1, <1>2, <1>3

(* The other steps either leave the log alone or leave it with one row. *)
LEMMA OtherSteps ==
    ASSUME OneTracker, SharedInv, [Next]_vars,
           \A t \in Threads : ~(CommitBet(t) \/ CommitAdjust(t) \/ CommitSettle(t))
    PROVE  log' = log \/ Len(log') <= 1
<1> USE DEF SharedInv
<1>1. ASSUME NEW k \in Trackers, EnsureInsert(k) PROVE Len(log') <= 1
  BY <1>1 DEF EnsureInsert, OpenInv
<1>2. ASSUME NEW t \in Threads, CommitRebase(t) PROVE Len(log') <= 1
  <2>1. pc[t] = "rebase" /\ bets' = bets
    BY <1>2 DEF CommitRebase
  <2>2. bets' = <<>>
    <3>1. pc[t] = "rebase" => bets = <<>>
      BY DEF BaseInv
    <3> QED BY <2>1, <3>1
  <2> QED BY <2>2, SharedStep DEF BaseInv
<1>3. ASSUME NEW t \in Threads, ThreadStep(t), ~CommitRebase(t) PROVE log' = log
  BY <1>3 DEF ThreadStep, PlacePaperBet, RecordBet, RefuseAtOnce, Refuse, Permit,
     ReadBefore, SettleRead, SettleBalance, SetBankroll, vars
<1>4. ASSUME NEW k \in Trackers, EnsureRead(k) PROVE log' = log
  BY <1>4 DEF EnsureRead
<1>5. ASSUME NEW r \in Runners, RaceOff(r) PROVE log' = log
  BY <1>5 DEF RaceOff
<1> QED BY <1>1, <1>2, <1>3, <1>4, <1>5 DEF Next, vars

(* A step of the ledger: the rows that were there are still there, and a row *)
(* added by a bet or a reset continues it.                                   *)
LEMMA FollowStep ==
    OneTracker /\ SharedInv /\ LockedEntriesFollow /\ [Next]_vars
        => LockedEntriesFollow'
<1> SUFFICES ASSUME OneTracker, SharedInv, LockedEntriesFollow, [Next]_vars
             PROVE  LockedEntriesFollow'
  OBVIOUS
<1>0. log \in Seq(LogRow) /\ log' \in Seq(LogRow)
  BY TypeStep DEF SharedInv, TypeOK
<1>1. ASSUME NEW row \in LogRow, log' = Append(log, row), log # <<>>,
             \/ row.balance = Bankroll + row.amount
             \/ row.event = "bet_settled"
      PROVE  LockedEntriesFollow'
  <2> SUFFICES ASSUME NEW n \in 2..Len(log'),
                      log'[n].event \in {"bet_placed", "adjust"}
               PROVE  Continues(n)'
    BY DEF LockedEntriesFollow
  <2>1. CASE n \in 2..Len(log)
    <3>1. log'[n] = log[n] /\ (Continues(n)' <=> Continues(n))
      BY <1>0, <1>1, <2>1, Extends
    <3> QED BY <2>1, <3>1 DEF LockedEntriesFollow
  <2>2. CASE n = Len(log) + 1
    <3>1. log'[n] = row /\ (Continues(n)' <=> row.balance = Bankroll + row.amount)
      BY <1>0, <1>1, <2>2, Extends
    <3> QED BY <1>1, <3>1
  <2>3. n \in 2..Len(log) \/ n = Len(log) + 1
    BY <1>0, <1>1, Extends
  <2> QED BY <2>1, <2>2, <2>3
<1>2. CASE log' = log
  BY <1>2 DEF LockedEntriesFollow, Continues
<1>3. CASE Len(log') <= 1
  BY <1>0, <1>3 DEF LockedEntriesFollow
<1>4. CASE \E t \in Threads : CommitBet(t) \/ CommitAdjust(t) \/ CommitSettle(t)
  BY <1>1, <1>4, AppendingSteps
<1> QED BY <1>2, <1>3, <1>4, OtherSteps

(* The comment on record_bet's lock, for any number of threads sharing a     *)
(* tracker: no bet and no reset ever starts from a balance another thread    *)
(* has already moved.                                                        *)
THEOREM DebitsNeverLost ==
    ASSUME OneTracker
    PROVE  Spec => []LockedEntriesFollow
<1>1. Init => SharedInv /\ LockedEntriesFollow
  <2>1. Init => LockedEntriesFollow
    BY DEF Init, LockedEntriesFollow
  <2> QED BY <2>1, SharedInit
<1>2. SharedInv /\ LockedEntriesFollow /\ [Next]_vars
        => (SharedInv /\ LockedEntriesFollow)'
  BY SharedStep, FollowStep
<1> QED BY <1>1, <1>2, PTL DEF Spec

-------------------------------------------------------------------------------
(* One thread: settlements too start from the current balance. *)

OneThread == \A t, u \in Threads : t = u

(* The balance settle_bet computed is still the one it should write. *)
CreditInv == \A t \in Threads :
    pc[t] = "credit" => seen[t] = Bankroll + req[t].gross

SoloInv == SharedInv /\ CreditInv /\ LedgerContinuity

(* With one thread nothing moves the balance between the read and the write. *)
LEMMA CreditStep ==
    OneThread /\ OneTracker /\ SharedInv /\ CreditInv /\ [Next]_vars => CreditInv'
<1> SUFFICES ASSUME OneThread, SharedInv, CreditInv, [Next]_vars,
                    NEW t \in Threads, pc'[t] = "credit"
             PROVE  seen'[t] = Bankroll' + req'[t].gross
  BY DEF CreditInv
<1>0. /\ pc \in [Threads -> Points] /\ seen \in [Threads -> Int]
      /\ \A u \in Threads : u = t
  BY DEF SharedInv, TypeOK, OneThread
<1>1. CASE SettleBalance(t)
  BY <1>0, <1>1 DEF SettleBalance, Bankroll
<1>2. CASE UNCHANGED <<log, pc, req, seen>>
  BY <1>2 DEF CreditInv, Bankroll
<1>3. ASSUME NEW k \in Trackers, EnsureInsert(k) PROVE FALSE
  BY <1>0, <1>3 DEF EnsureInsert, SharedInv, OpenInv
<1>4. ASSUME ThreadStep(t), ~SettleBalance(t), ~RefuseAtOnce(t) PROVE FALSE
  BY <1>0, <1>4 DEF ThreadStep, PlacePaperBet, RecordBet, Refuse, Permit, ReadBefore,
     CommitBet, SettleRead, CommitSettle, SetBankroll, CommitRebase, CommitAdjust, Goto
<1> QED
  BY <1>0, <1>1, <1>2, <1>3, <1>4
  DEF Next, EnsureRead, RaceOff, RefuseAtOnce, vars

(* With one thread every row continues the ledger. *)
LEMMA ContinuityStep ==
    OneTracker /\ SoloInv /\ [Next]_vars => LedgerContinuity'
<1> SUFFICES ASSUME OneTracker, SoloInv, [Next]_vars PROVE LedgerContinuity'
  OBVIOUS
<1> USE DEF SoloInv
<1>0. log \in Seq(LogRow) /\ log' \in Seq(LogRow)
  BY TypeStep DEF SharedInv, TypeOK
<1>1. ASSUME NEW row \in LogRow, log' = Append(log, row), log # <<>>,
             row.balance = Bankroll + row.amount
      PROVE  LedgerContinuity'
  <2> SUFFICES ASSUME NEW n \in 2..Len(log') PROVE Continues(n)'
    BY DEF LedgerContinuity
  <2>1. CASE n \in 2..Len(log)
    <3>1. Continues(n)' <=> Continues(n)
      BY <1>0, <1>1, <2>1, Extends
    <3> QED BY <2>1, <3>1 DEF LedgerContinuity
  <2>2. CASE n = Len(log) + 1
    BY <1>0, <1>1, <2>2, Extends
  <2>3. n \in 2..Len(log) \/ n = Len(log) + 1
    BY <1>0, <1>1, Extends
  <2> QED BY <2>1, <2>2, <2>3
<1>2. ASSUME NEW t \in Threads, CommitSettle(t) PROVE LedgerContinuity'
  <2>1. PICK row \in LogRow : /\ log' = Append(log, row) /\ log # <<>>
                             /\ row.amount = req[t].gross /\ row.balance = seen[t]
    BY <1>2, AppendingSteps
  <2>2. seen[t] = Bankroll + req[t].gross
    BY <1>2 DEF CommitSettle, CreditInv
  <2> QED BY <1>1, <2>1, <2>2
<1>3. ASSUME NEW t \in Threads, CommitBet(t) \/ CommitAdjust(t) PROVE LedgerContinuity'
  BY <1>1, <1>3, AppendingSteps
<1>4. CASE log' = log
  BY <1>4 DEF LedgerContinuity, Continues
<1>5. CASE Len(log') <= 1
  BY <1>0, <1>5 DEF LedgerContinuity
<1> QED BY <1>2, <1>3, <1>4, <1>5, OtherSteps

(* Used by one thread, the bankroll is one unbroken running balance: no      *)
(* stake is forgotten and no return is paid on a stale balance.              *)
THEOREM SoloLedger ==
    ASSUME OneThread, OneTracker
    PROVE  Spec => []LedgerContinuity
<1>1. Init => SoloInv
  <2>1. Init => CreditInv /\ LedgerContinuity
    BY DEF Init, CreditInv, LedgerContinuity
  <2> QED BY <2>1, SharedInit DEF SoloInv
<1>2. SoloInv /\ [Next]_vars => SoloInv'
  BY SharedStep, CreditStep, ContinuityStep DEF SoloInv
<1>3. SoloInv => LedgerContinuity
  BY DEF SoloInv
<1> QED BY <1>1, <1>2, <1>3, PTL DEF Spec

-------------------------------------------------------------------------------
(* The two tables, for any number of threads and of tracker objects. *)

(* The rows of the ledger are about bets there are.                          *)
Recorded == \A n \in DOMAIN log :
    log[n].event \in {"bet_placed", "bet_settled"} => log[n].bet \in DOMAIN bets

(* The two halves of BooksAgree, for one bet.                                *)
Debited(i) ==
    \E n \in DOMAIN log : /\ RowsOf("bet_placed", i) = {n}
                          /\ log[n].amount = 0 - bets[i].stake
                          /\ log[n].balance = bets[i].before - bets[i].stake
PaidUp(i) ==
    IF bets[i].outcome = Pending THEN RowsOf("bet_settled", i) = {}
    ELSE \E n \in RowsOf("bet_settled", i) :
            /\ \A m \in RowsOf("bet_settled", i) : m <= n
            /\ log[n].amount = bets[i].gross
BooksInv == /\ TypeOK /\ Recorded
            /\ \A i \in DOMAIN bets : Debited(i) /\ PaidUp(i)

(* What a new row adds to the rows of a bet.                                 *)
LEMMA RowsOfAppend ==
    ASSUME log \in Seq(LogRow), NEW row, row \in LogRow, log' = Append(log, row)
    PROVE  /\ Len(log) \in Nat /\ DOMAIN log = 1..Len(log)
           /\ DOMAIN log' = DOMAIN log \cup {Len(log) + 1}
           /\ \A n \in DOMAIN log : log'[n] = log[n] /\ n <= Len(log) + 1
           /\ log'[Len(log) + 1] = row
           /\ \A e, i : RowsOf(e, i)' =
                 IF row.event = e /\ row.bet = i THEN RowsOf(e, i) \cup {Len(log) + 1}
                                                 ELSE RowsOf(e, i)
<1>1. /\ Len(log) \in Nat /\ DOMAIN log = 1..Len(log)
      /\ DOMAIN log' = 1..Len(log) + 1
      /\ \A n \in DOMAIN log : log'[n] = log[n]
      /\ log'[Len(log) + 1] = row
  OBVIOUS
<1>2. DOMAIN log' = DOMAIN log \cup {Len(log) + 1} /\ Len(log) + 1 \notin DOMAIN log
      /\ \A n \in DOMAIN log : n <= Len(log) + 1
  BY <1>1
<1>3. ASSUME NEW e, NEW i
      PROVE  RowsOf(e, i)' =
                IF row.event = e /\ row.bet = i THEN RowsOf(e, i) \cup {Len(log) + 1}
                                                ELSE RowsOf(e, i)
  BY <1>1, <1>2 DEF RowsOf
<1> QED BY <1>1, <1>2, <1>3

(* A row about no bet leaves the story as it is.                             *)
LEMMA OtherRow ==
    ASSUME BooksInv, NEW row \in LogRow, log' = Append(log, row), UNCHANGED bets,
           row.event \notin {"bet_placed", "bet_settled"}
    PROVE  Recorded' /\ \A i \in DOMAIN bets' : (Debited(i) /\ PaidUp(i))'
<1>1. log \in Seq(LogRow)
  BY DEF BooksInv, TypeOK
<1>2. /\ DOMAIN log' = DOMAIN log \cup {Len(log) + 1}
      /\ \A n \in DOMAIN log : log'[n] = log[n]
      /\ log'[Len(log) + 1] = row
      /\ \A i : RowsOf("bet_placed", i)' = RowsOf("bet_placed", i)
      /\ \A i : RowsOf("bet_settled", i)' = RowsOf("bet_settled", i)
  BY <1>1, RowsOfAppend
<1>3. Recorded'
  BY <1>2 DEF BooksInv, Recorded
<1>4. ASSUME NEW i \in DOMAIN bets PROVE Debited(i)' /\ PaidUp(i)'
  <2>1. RowsOf("bet_settled", i) \subseteq DOMAIN log
    BY DEF RowsOf
  <2>2. Debited(i) /\ PaidUp(i)
    BY DEF BooksInv
  <2>3. Debited(i)'
    BY <1>2, <2>2 DEF Debited
  <2>4. PaidUp(i)'
    BY <1>2, <2>1, <2>2 DEF PaidUp
  <2> QED BY <2>3, <2>4
<1> QED BY <1>3, <1>4

(* Every commit changes both tables or neither.                              *)
LEMMA BooksStep == BooksInv /\ [Next]_vars => BooksInv'
<1> SUFFICES ASSUME BooksInv, [Next]_vars
             PROVE  Recorded' /\ \A i \in DOMAIN bets' : (Debited(i) /\ PaidUp(i))'
  BY TypeStep DEF BooksInv
<1> DEFINE Goal == Recorded' /\ \A i \in DOMAIN bets' : (Debited(i) /\ PaidUp(i))'
<1>0. /\ TypeOK /\ log \in Seq(LogRow) /\ bets \in Seq(BetRow)
      /\ seen \in [Threads -> Int]
      /\ Recorded /\ \A i \in DOMAIN bets : Debited(i) /\ PaidUp(i)
  BY DEF BooksInv, TypeOK
<1>1. CASE UNCHANGED <<bets, log>>
  <2>1. bets' = bets /\ log' = log
    BY <1>1
  <2>2. \A e, i : RowsOf(e, i)' = RowsOf(e, i)
    BY <2>1 DEF RowsOf
  <2>3. Recorded'
    BY <1>0, <2>1 DEF Recorded
  <2>4. ASSUME NEW i \in DOMAIN bets PROVE Debited(i)' /\ PaidUp(i)'
    <3>1. Debited(i) /\ PaidUp(i)
      BY <1>0, <2>4
    <3>2. Debited(i)'
      BY <2>1, <2>2, <3>1 DEF Debited
    <3>3. PaidUp(i)'
      BY <2>1, <2>2, <3>1 DEF PaidUp
    <3> QED BY <3>2, <3>3
  <2> QED BY <2>1, <2>3, <2>4
<1>2. ASSUME NEW k \in Trackers, EnsureInsert(k) PROVE Goal
  <2>1. InitRow(InitialBankroll) \in LogRow /\ InitRow(InitialBankroll).event = "init"
    BY MoneyAssumption DEF InitRow, LogRow
  <2>2. PICK row \in LogRow : row = InitRow(InitialBankroll)
    BY <2>1
  <2>3. row.event \notin {"bet_placed", "bet_settled"}
    BY <2>1, <2>2
  <2>4. log' = Append(log, row) /\ UNCHANGED bets
    BY <1>2, <2>2 DEF EnsureInsert
  <2> QED BY <2>3, <2>4, OtherRow
<1>3. ASSUME NEW t \in Threads, CommitAdjust(t) PROVE Goal
  <2>1. req[t] \in [amount : Bankrolls]
    BY <1>0, <1>3 DEF CommitAdjust, TypeOK
  <2>2. req[t].amount \in Int /\ seen[t] \in Int
    BY <1>0, <2>1, AmountInt
  <2> DEFINE row == [event |-> "adjust", bet |-> 0,
                     amount |-> req[t].amount - seen[t], balance |-> req[t].amount]
  <2>3. row \in LogRow /\ row.event = "adjust"
    BY <2>2 DEF LogRow
  <2>4. log' = Append(log, row) /\ UNCHANGED bets
    BY <1>3 DEF CommitAdjust, LogEntry
  <2> HIDE DEF row
  <2> QED BY <2>3, <2>4, OtherRow
<1>4. ASSUME NEW t \in Threads, CommitRebase(t) PROVE Goal
  <2>1. /\ DOMAIN log' = DOMAIN log /\ UNCHANGED bets
        /\ \A n \in DOMAIN log : IF log[n].event = "init"
                                 THEN log'[n].event = "init" ELSE log'[n] = log[n]
    BY <1>4 DEF CommitRebase, InitRow
  <2>2. /\ \A i : RowsOf("bet_placed", i)' = RowsOf("bet_placed", i)
        /\ \A i : RowsOf("bet_settled", i)' = RowsOf("bet_settled", i)
    BY <2>1 DEF RowsOf
  <2>3. \A i : \A n \in RowsOf("bet_placed", i) \cup RowsOf("bet_settled", i) :
                  n \in DOMAIN log /\ log'[n] = log[n]
    BY <2>1 DEF RowsOf
  <2>4. Recorded'
    BY <1>0, <2>1 DEF Recorded
  <2>5. ASSUME NEW i \in DOMAIN bets PROVE Debited(i)' /\ PaidUp(i)'
    <3>0. Debited(i) /\ PaidUp(i)
      BY <1>0, <2>1, <2>5
    <3>1. Debited(i)'
      <4>1. PICK n \in DOMAIN log : /\ RowsOf("bet_placed", i) = {n}
                                    /\ log[n].amount = 0 - bets[i].stake
                                    /\ log[n].balance = bets[i].before - bets[i].stake
        BY <3>0 DEF Debited
      <4>2. log'[n] = log[n]
        BY <2>3, <4>1
      <4> QED BY <2>1, <2>2, <4>1, <4>2 DEF Debited
    <3>2. PaidUp(i)'
      BY <2>1, <2>2, <2>3, <3>0 DEF PaidUp
    <3> QED BY <3>1, <3>2
  <2> QED BY <2>1, <2>4, <2>5
<1>5. ASSUME NEW t \in Threads, CommitBet(t) PROVE Goal
  <2>1. req[t] \in BetRequest /\ seen[t] \in Int
    BY <1>0, <1>5 DEF CommitBet, TypeOK
  <2>2. req[t].stake \in Nat
    BY <2>1, MoneyAssumption DEF BetRequest
  <2>4. Len(bets) \in Nat
    BY <1>0
  <2>14. PICK new \in Nat : new = Len(bets) + 1
    BY <2>4
  <2> DEFINE row == [event |-> "bet_placed", bet |-> Len(bets) + 1,
                     amount |-> 0 - req[t].stake, balance |-> seen[t] - req[t].stake]
  <2> DEFINE bet == [runner |-> req[t].runner, type |-> req[t].type,
                     odds |-> req[t].odds, stake |-> req[t].stake,
                     before |-> seen[t], outcome |-> Pending, gross |-> 0]
  <2>3. bets' = Append(bets, bet) /\ log' = Append(log, row)
    BY <1>5 DEF CommitBet, LogEntry
  <2>5. row \in LogRow /\ row.event = "bet_placed" /\ row.bet = new
        /\ row.amount = 0 - bet.stake /\ row.balance = bet.before - bet.stake
    BY <2>1, <2>2, <2>4, <2>14 DEF LogRow
  <2>6. bet.outcome = Pending
    OBVIOUS
  <2> HIDE DEF row, bet
  <2>7. /\ DOMAIN bets' = DOMAIN bets \cup {new} /\ new \notin DOMAIN bets
        /\ \A i \in DOMAIN bets : bets'[i] = bets[i]
        /\ bets'[new] = bet
    <3>1. /\ DOMAIN bets = 1..Len(bets) /\ DOMAIN bets' = 1..new
          /\ \A i \in DOMAIN bets : bets'[i] = bets[i]
          /\ bets'[new] = bet
      BY <1>0, <2>3, <2>14
    <3> QED BY <2>4, <2>14, <3>1
  <2>8. /\ DOMAIN log' = DOMAIN log \cup {Len(log) + 1}
        /\ \A n \in DOMAIN log : log'[n] = log[n]
        /\ log'[Len(log) + 1] = row
        /\ \A i : RowsOf("bet_placed", i)' =
              IF i = new THEN RowsOf("bet_placed", i) \cup {Len(log) + 1}
                         ELSE RowsOf("bet_placed", i)
        /\ \A i : RowsOf("bet_settled", i)' = RowsOf("bet_settled", i)
    <3>1. /\ DOMAIN log' = DOMAIN log \cup {Len(log) + 1}
          /\ \A n \in DOMAIN log : log'[n] = log[n]
          /\ log'[Len(log) + 1] = row
          /\ \A e, i : RowsOf(e, i)' =
                IF row.event = e /\ row.bet = i THEN RowsOf(e, i) \cup {Len(log) + 1}
                                                ELSE RowsOf(e, i)
      BY <1>0, <2>3, <2>5, RowsOfAppend
    <3> QED BY <2>5, <3>1
  <2>9. RowsOf("bet_placed", new) = {} /\ RowsOf("bet_settled", new) = {}
    BY <1>0, <2>7 DEF Recorded, RowsOf
  <2>10. Recorded'
    BY <1>0, <2>5, <2>7, <2>8 DEF Recorded
  <2>11. Debited(new)'
    BY <2>5, <2>7, <2>8, <2>9 DEF Debited
  <2>12. PaidUp(new)'
    BY <2>6, <2>7, <2>8, <2>9 DEF PaidUp
  <2>13. ASSUME NEW i \in DOMAIN bets PROVE Debited(i)' /\ PaidUp(i)'
    <3>1. i # new /\ bets'[i] = bets[i]
      BY <2>7
    <3>2. RowsOf("bet_settled", i) \subseteq DOMAIN log
      BY DEF RowsOf
    <3>3. Debited(i)'
      BY <1>0, <2>8, <3>1 DEF Debited
    <3>4. PaidUp(i)'
      BY <1>0, <2>8, <3>1, <3>2 DEF PaidUp
    <3> QED BY <3>3, <3>4
  <2> QED BY <2>7, <2>10, <2>11, <2>12, <2>13
<1>6. ASSUME NEW t \in Threads, CommitSettle(t) PROVE Goal
  <2>1. /\ req[t] \in [bet : Nat, outcome : Outcomes, gross : Int]
        /\ req[t].bet \in DOMAIN bets /\ seen[t] \in Int
    BY <1>0, <1>6 DEF CommitSettle, TypeOK
  <2>13. PICK b \in DOMAIN bets : b = req[t].bet
    BY <2>1
  <2> DEFINE row == [event |-> "bet_settled", bet |-> req[t].bet,
                     amount |-> req[t].gross, balance |-> seen[t]]
  <2> DEFINE paid == PaidRow(bets[req[t].bet], req[t].outcome, req[t].gross)
  <2>2. bets' = [bets EXCEPT ![b] = paid] /\ log' = Append(log, row)
    BY <1>6, <2>13 DEF CommitSettle, LogEntry
  <2>3. row \in LogRow /\ row.event = "bet_settled" /\ row.bet = b
    BY <2>1, <2>13 DEF LogRow
  <2>4. /\ paid.outcome # Pending /\ paid.gross = row.amount
        /\ paid.stake = bets[b].stake /\ paid.before = bets[b].before
    BY <2>1, <2>13 DEF PaidRow
  <2> HIDE DEF row, paid
  <2>5. /\ DOMAIN bets' = DOMAIN bets /\ b \in DOMAIN bets
        /\ \A i \in DOMAIN bets : i # b => bets'[i] = bets[i]
        /\ bets'[b] = paid
    BY <2>2, <2>13
  <2>6. /\ DOMAIN log' = DOMAIN log \cup {Len(log) + 1}
        /\ \A n \in DOMAIN log : log'[n] = log[n] /\ n <= Len(log) + 1
        /\ log'[Len(log) + 1] = row /\ Len(log) \in Nat
        /\ \A i : RowsOf("bet_settled", i)' =
              IF i = b THEN RowsOf("bet_settled", i) \cup {Len(log) + 1}
                       ELSE RowsOf("bet_settled", i)
        /\ \A i : RowsOf("bet_placed", i)' = RowsOf("bet_placed", i)
    <3>1. /\ DOMAIN log' = DOMAIN log \cup {Len(log) + 1}
          /\ \A n \in DOMAIN log : log'[n] = log[n] /\ n <= Len(log) + 1
          /\ log'[Len(log) + 1] = row /\ Len(log) \in Nat
          /\ \A e, i : RowsOf(e, i)' =
                IF row.event = e /\ row.bet = i THEN RowsOf(e, i) \cup {Len(log) + 1}
                                                ELSE RowsOf(e, i)
      BY <1>0, <2>2, <2>3, RowsOfAppend
    <3> QED BY <2>3, <3>1
  <2>7. Recorded'
    BY <1>0, <2>3, <2>5, <2>6 DEF Recorded
  <2>8. \A i \in DOMAIN bets : bets'[i].stake = bets[i].stake
                               /\ bets'[i].before = bets[i].before
    BY <2>4, <2>5
  <2>9. ASSUME NEW i \in DOMAIN bets PROVE Debited(i)'
    BY <1>0, <2>6, <2>8 DEF Debited
  <2>10. RowsOf("bet_settled", b) \subseteq DOMAIN log
    BY DEF RowsOf
  <2>11. PaidUp(b)'
    <3>1. Len(log) + 1 \in RowsOf("bet_settled", b)'
          /\ \A m \in RowsOf("bet_settled", b)' : m <= Len(log) + 1
      BY <2>6, <2>10
    <3> QED BY <2>4, <2>5, <2>6, <3>1 DEF PaidUp
  <2>12. ASSUME NEW i \in DOMAIN bets, i # b PROVE PaidUp(i)'
    <3>1. RowsOf("bet_settled", i) \subseteq DOMAIN log
      BY DEF RowsOf
    <3>2. bets'[i] = bets[i] /\ RowsOf("bet_settled", i)' = RowsOf("bet_settled", i)
      BY <2>5, <2>6, <2>12
    <3> QED BY <1>0, <2>6, <3>1, <3>2 DEF PaidUp
  <2> QED BY <2>5, <2>7, <2>9, <2>11, <2>12
<1>7. ASSUME NEW t \in Threads, ThreadStep(t),
             ~(CommitBet(t) \/ CommitSettle(t) \/ CommitRebase(t) \/ CommitAdjust(t))
      PROVE  UNCHANGED <<bets, log>>
  BY <1>7 DEF ThreadStep, PlacePaperBet, RecordBet, RefuseAtOnce, Refuse, Permit,
     ReadBefore, SettleRead, SettleBalance, SetBankroll, vars
<1>8. ASSUME \/ \E k \in Trackers : EnsureRead(k)
             \/ \E r \in Runners : RaceOff(r)
             \/ UNCHANGED vars
      PROVE  UNCHANGED <<bets, log>>
  BY <1>8 DEF EnsureRead, RaceOff, vars
<1> QED BY <1>1, <1>2, <1>3, <1>4, <1>5, <1>6, <1>7, <1>8 DEF Next

(* The two tables tell the same story, for any number of threads of any      *)
(* number of tracker objects: each bet was debited by exactly one row, and   *)
(* has an outcome exactly when a row paid it, the last one paying the gross  *)
(* return the bet shows.                                                     *)
THEOREM TablesAgree == Spec => []BooksAgree
<1>1. Init => BooksInv
  <2>1. Init => bets = <<>> /\ log = <<>>
    BY DEF Init
  <2> QED BY <2>1, TypeInit DEF BooksInv, Recorded
<1>2. BooksInv => BooksAgree
  BY DEF BooksInv, BooksAgree, Debited, PaidUp
<1> QED BY <1>1, <1>2, BooksStep, PTL DEF Spec

-------------------------------------------------------------------------------
(* One thread, every bet through place_paper_bet: the duplicate guard. *)

(* The answer of has_open_bet is still right when the bet is written.        *)
GuardInv == \A t \in Threads :
    pc[t] \in {"record", "permitted", "debit"} => ~HasOpenBet(req[t])

(* A step other than a commit keeps what the guard found.                    *)
LEMMA GuardCarried ==
    ASSUME GuardInv, UNCHANGED bets,
           \A t \in Threads :
              pc'[t] \in {"record", "permitted", "debit"} =>
                 \/ ~HasOpenBet(req'[t])
                 \/ /\ pc[t] \in {"record", "permitted", "debit"}
                    /\ req'[t] = req[t]
    PROVE  GuardInv'
<1>1. \A b : HasOpenBet(b)' <=> HasOpenBet(b)
  BY DEF HasOpenBet
<1>2. ASSUME NEW t \in Threads, pc'[t] \in {"record", "permitted", "debit"}
      PROVE  ~HasOpenBet(req[t])'
  <2>1. ~HasOpenBet(req'[t])
    BY <1>2 DEF GuardInv
  <2> QED BY <2>1 DEF HasOpenBet
<1> QED BY <1>2 DEF GuardInv

(* The bet that commits is of a pair and type no row has.                    *)
LEMMA NewPair ==
    ASSUME TypeOK, NoDoubleBet, GuardInv, NEW t \in Threads, CommitBet(t)
    PROVE  NoDoubleBet'
<1> DEFINE bet == [runner |-> req[t].runner, type |-> req[t].type,
                   odds |-> req[t].odds, stake |-> req[t].stake,
                   before |-> seen[t], outcome |-> Pending, gross |-> 0]
<1>1. bets \in Seq(BetRow) /\ bets' = Append(bets, bet)
  BY DEF TypeOK, CommitBet
<1>2. bet.runner = req[t].runner /\ bet.type = req[t].type
  OBVIOUS
<1> HIDE DEF bet
<1>3. /\ Len(bets) \in Nat /\ DOMAIN bets = 1..Len(bets)
      /\ DOMAIN bets' = 1..Len(bets) + 1
      /\ \A i \in DOMAIN bets : bets'[i] = bets[i]
      /\ bets'[Len(bets) + 1] = bet
  BY <1>1
<1>4. ~HasOpenBet(req[t])
  BY DEF GuardInv, CommitBet
<1>5. ASSUME bet.runner # FreeForm, NEW i \in DOMAIN bets
      PROVE  ~(bets[i].runner = bet.runner /\ bets[i].type = bet.type)
  BY <1>2, <1>4, <1>5 DEF HasOpenBet
<1> SUFFICES ASSUME NEW i \in DOMAIN bets', NEW j \in DOMAIN bets',
                    bets'[i].runner = bets'[j].runner,
                    bets'[i].type = bets'[j].type, bets'[i].runner # FreeForm
             PROVE  i = j
  BY DEF NoDoubleBet
<1>6. /\ i \in DOMAIN bets \/ i = Len(bets) + 1
      /\ j \in DOMAIN bets \/ j = Len(bets) + 1
  BY <1>3
<1>7. CASE i \in DOMAIN bets /\ j \in DOMAIN bets
  BY <1>3, <1>7 DEF NoDoubleBet
<1>8. CASE i = Len(bets) + 1 /\ j \in DOMAIN bets
  BY <1>3, <1>5, <1>8
<1>9. CASE i \in DOMAIN bets /\ j = Len(bets) + 1
  BY <1>3, <1>5, <1>9
<1> QED BY <1>6, <1>7, <1>8, <1>9

(* With one thread and no other entry point, no step makes a double.         *)
LEMMA GuardStep ==
    ASSUME OneThread, "record_bet" \notin Callers,
           TypeOK, NoDoubleBet, GuardInv, [Next]_vars
    PROVE  NoDoubleBet' /\ GuardInv'
<1>0. pc \in [Threads -> Points] /\ DOMAIN req = Threads /\ bets \in Seq(BetRow)
  BY DEF TypeOK
<1>1. CASE UNCHANGED <<bets, pc, req>>
  BY <1>1, GuardCarried DEF GuardInv, NoDoubleBet
<1>2. ASSUME NEW t \in Threads, NEW b \in BetRequest, PlacePaperBet(t, b)
      PROVE  NoDoubleBet' /\ GuardInv'
  <2>1. /\ UNCHANGED bets /\ ~HasOpenBet(b)
        /\ pc' = [pc EXCEPT ![t] = "record"] /\ req' = [req EXCEPT ![t] = b]
    BY <1>2 DEF PlacePaperBet, Goto
  <2>2. \A u \in Threads : u = t /\ req'[u] = b
    BY <1>0, <2>1 DEF OneThread
  <2>3. \A u \in Threads : ~HasOpenBet(req'[u])
    BY <2>1, <2>2
  <2> QED BY <2>1, <2>3, GuardCarried DEF NoDoubleBet
<1>3. ASSUME NEW t \in Threads, CommitBet(t) PROVE NoDoubleBet' /\ GuardInv'
  <2>1. \A u \in Threads : pc'[u] = "idle"
    BY <1>0, <1>3 DEF CommitBet, Goto, OneThread
  <2> QED BY <1>3, <2>1, NewPair DEF GuardInv
<1>4. ASSUME NEW t \in Threads, CommitSettle(t) PROVE NoDoubleBet' /\ GuardInv'
  <2>1. \A u \in Threads : pc'[u] = "idle"
    BY <1>0, <1>4 DEF CommitSettle, Goto, OneThread
  <2>2. /\ DOMAIN bets' = DOMAIN bets
        /\ \A i \in DOMAIN bets : /\ bets'[i].runner = bets[i].runner
                                  /\ bets'[i].type = bets[i].type
    BY <1>0, <1>4 DEF CommitSettle, PaidRow
  <2> QED BY <2>1, <2>2 DEF NoDoubleBet, GuardInv
<1>5. ASSUME NEW t \in Threads,
             \/ Permit(t) \/ ReadBefore(t)
      PROVE  NoDoubleBet' /\ GuardInv'
  <2>1. /\ UNCHANGED <<bets, req>> /\ pc[t] \in {"record", "permitted"}
    BY <1>5 DEF Permit, ReadBefore
  <2>2. \A u \in Threads : u = t
    BY DEF OneThread
  <2> QED BY <2>1, <2>2, GuardCarried DEF NoDoubleBet
<1>6. ASSUME NEW t \in Threads,
             \/ \E i \in DOMAIN bets, o \in Outcomes : SettleRead(t, i, o)
             \/ Refuse(t) \/ SettleBalance(t)
             \/ \E a \in Bankrolls : SetBankroll(t, a)
             \/ CommitRebase(t) \/ CommitAdjust(t)
      PROVE  NoDoubleBet' /\ GuardInv'
  <2>1. UNCHANGED bets
    BY <1>6 DEF SettleRead, Refuse, SettleBalance, SetBankroll, CommitRebase, CommitAdjust
  <2>2. \A u \in Threads : pc'[u] \notin {"record", "permitted", "debit"}
    BY <1>0, <1>6 DEF SettleRead, Refuse, SettleBalance, SetBankroll, CommitRebase,
       CommitAdjust, Goto, OneThread
  <2> QED BY <2>1, <2>2 DEF NoDoubleBet, GuardInv
<1>7. ASSUME NEW k \in Trackers, EnsureRead(k) \/ EnsureInsert(k)
      PROVE  UNCHANGED <<bets, pc, req>>
  BY <1>7 DEF EnsureRead, EnsureInsert
<1>8. ASSUME NEW r \in Runners, RaceOff(r) PROVE UNCHANGED <<bets, pc, req>>
  BY <1>8 DEF RaceOff
<1>9. ASSUME NEW t \in Threads, ThreadStep(t) PROVE NoDoubleBet' /\ GuardInv'
  <2>1. ~\E b \in BetRequest : RecordBet(t, b)
    BY DEF RecordBet
  <2>2. CASE RefuseAtOnce(t)
    BY <1>1, <2>2 DEF RefuseAtOnce, vars
  <2> QED BY <1>2, <1>3, <1>4, <1>5, <1>6, <1>9, <2>1, <2>2 DEF ThreadStep
<1> QED BY <1>1, <1>7, <1>8, <1>9 DEF Next, vars

(* has_open_bet's answer holds until the row is written: one thread that     *)
(* bets through place_paper_bet never backs a runner twice in one way.       *)
THEOREM PairsAreBetOnce ==
    ASSUME OneThread, "record_bet" \notin Callers
    PROVE  Spec => []NoDoubleBet
<1>1. Init => TypeOK /\ NoDoubleBet /\ GuardInv
  <2>1. Init => NoDoubleBet /\ GuardInv
    BY DEF Init, NoDoubleBet, GuardInv
  <2> QED BY <2>1, TypeInit
<1>2. TypeOK /\ NoDoubleBet /\ GuardInv /\ [Next]_vars
        => (TypeOK /\ NoDoubleBet /\ GuardInv)'
  BY TypeStep, GuardStep
<1> QED BY <1>1, <1>2, PTL DEF Spec

-------------------------------------------------------------------------------
(* One thread, one tracker: the stop-loss. *)

(* The stop-loss checked by record_bet still stands when the bet is written. *)
FloorInv == \A t \in Threads : pc[t] \in {"permitted", "debit"} => ~IsStopped

(* Nothing moves the balance between the check and the commit.               *)
LEMMA FloorStep ==
    ASSUME OneThread, OneTracker, SharedInv, FloorInv, [Next]_vars
    PROVE  FloorInv'
<1> SUFFICES ASSUME NEW t \in Threads, pc'[t] \in {"permitted", "debit"}
             PROVE  ~IsStopped'
  BY DEF FloorInv
<1>0. pc \in [Threads -> Points] /\ \A u \in Threads : u = t
  BY DEF SharedInv, TypeOK, OneThread
<1>1. CASE Permit(t)
  BY <1>1 DEF Permit, IsStopped, Bankroll, Baseline
<1>2. CASE pc[t] \in {"permitted", "debit"} /\ log' = log
  BY <1>2 DEF FloorInv, IsStopped, Bankroll, Baseline
<1>3. ASSUME NEW k \in Trackers, EnsureInsert(k) PROVE FALSE
  BY <1>0, <1>3 DEF EnsureInsert, SharedInv, OpenInv
<1>4. ASSUME ThreadStep(t), ~Permit(t)
      PROVE  pc[t] \in {"permitted", "debit"} /\ log' = log
  BY <1>0, <1>4 DEF ThreadStep, PlacePaperBet, RecordBet, RefuseAtOnce, Refuse,
     ReadBefore, CommitBet, SettleRead, SettleBalance, CommitSettle, SetBankroll,
     CommitRebase, CommitAdjust, Goto, vars
<1>5. ASSUME \/ \E k \in Trackers : EnsureRead(k)
             \/ \E r \in Runners : RaceOff(r)
             \/ UNCHANGED vars
      PROVE  pc[t] \in {"permitted", "debit"} /\ log' = log
  BY <1>5 DEF EnsureRead, RaceOff, vars
<1> QED BY <1>0, <1>1, <1>2, <1>3, <1>4, <1>5 DEF Next

(* No bet is written below the floor: with one thread of one tracker the     *)
(* check of record_bet, made before the lock is taken, cannot go stale.      *)
THEOREM FloorIsKept ==
    ASSUME OneThread, OneTracker
    PROVE  Spec => StopLossHonoured
<1>1. Init => SharedInv /\ FloorInv
  <2>1. Init => FloorInv
    BY DEF Init, FloorInv
  <2> QED BY <2>1, SharedInit
<1>2. SharedInv /\ FloorInv /\ [Next]_vars => (SharedInv /\ FloorInv)'
  BY SharedStep, FloorStep
<1>3. SharedInv /\ FloorInv /\ [Next]_vars
        => [Len(bets') > Len(bets) => ~IsStopped]_vars
  <2> SUFFICES ASSUME SharedInv, FloorInv, [Next]_vars, Len(bets') > Len(bets)
               PROVE  ~IsStopped
    OBVIOUS
  <2>1. bets \in Seq(BetRow) /\ Len(bets) \in Nat
    BY DEF SharedInv, TypeOK
  <2>2. ASSUME bets' = bets PROVE FALSE
    BY <2>1, <2>2
  <2>3. ASSUME NEW t \in Threads, CommitSettle(t) PROVE FALSE
    <3>1. Len(bets') = Len(bets)
      BY <2>1, <2>3 DEF CommitSettle
    <3> QED BY <2>1, <3>1
  <2>4. PICK t \in Threads : CommitBet(t)
    BY <2>2, <2>3 DEF Next, ThreadStep, EnsureRead, EnsureInsert, RaceOff,
       PlacePaperBet, RecordBet, RefuseAtOnce, Refuse, Permit, ReadBefore, SettleRead,
       SettleBalance, SetBankroll, CommitRebase, CommitAdjust, vars
  <2> QED BY <2>4 DEF CommitBet, FloorInv
<1> QED BY <1>1, <1>2, <1>3, PTL DEF Spec, StopLossHonoured

-------------------------------------------------------------------------------
(* One thread, one tracker: the tables are an atomic account. *)

(* A call in progress has room for its row.                                  *)
RoomInv == \A t \in Threads : pc[t] # "idle" => Len(log) < MaxLog

(* Every bet has a row of the ledger, whose oldest row is an "init" row.     *)
RowsInv == /\ Len(bets) <= Len(log)
           /\ log # <<>> => log[1].event = "init"

(* What settle_bet read of a bet is still so when it writes the bet's row.   *)
OwedInv == \A t \in Threads :
    pc[t] \in {"settle", "credit"} =>
        /\ bets[req[t].bet].outcome = Pending
        /\ req[t].gross = Gross(bets[req[t].bet], req[t].outcome)

AccountInv == SharedInv /\ CreditInv /\ RoomInv /\ RowsInv /\ OwedInv

(* An idle thread alone leaves room for one row.                             *)
LEMMA RoomAlone ==
    ASSUME OneThread, TypeOK, NEW t \in Threads, Idle(t), Room
    PROVE  Len(log) < MaxLog
<1>1. Busy = {}
  BY DEF Busy, Idle, OneThread
<1>2. Cardinality(Busy) = 0
  BY <1>1, FS_EmptySet
<1>3. log \in Seq(LogRow) /\ Len(log) \in Nat
  BY DEF TypeOK
<1> QED BY <1>2, <1>3 DEF Room

(* A call starts with room, and only its own last step adds a row.           *)
LEMMA RoomStep ==
    ASSUME OneThread, OneTracker, AccountInv, [Next]_vars
    PROVE  RoomInv'
<1> SUFFICES ASSUME NEW t \in Threads, pc'[t] # "idle" PROVE Len(log') < MaxLog
  BY DEF RoomInv
<1>0. TypeOK /\ pc \in [Threads -> Points] /\ \A u \in Threads : u = t
  BY DEF AccountInv, SharedInv, TypeOK, OneThread
<1>1. ASSUME \/ \E b \in BetRequest : PlacePaperBet(t, b) \/ RecordBet(t, b)
             \/ \E i \in DOMAIN bets, o \in Outcomes : SettleRead(t, i, o)
             \/ \E a \in Bankrolls : SetBankroll(t, a)
      PROVE  Len(log') < MaxLog
  <2>1. Idle(t) /\ Room /\ log' = log
    BY <1>1 DEF PlacePaperBet, RecordBet, SettleRead, SetBankroll
  <2> QED BY <1>0, <2>1, RoomAlone
<1>2. CASE pc[t] # "idle" /\ log' = log
  BY <1>2 DEF AccountInv, RoomInv
<1>3. ASSUME NEW k \in Trackers, EnsureInsert(k) PROVE FALSE
  BY <1>0, <1>3 DEF EnsureInsert, AccountInv, SharedInv, OpenInv
<1>4. ASSUME \/ Permit(t) \/ ReadBefore(t) \/ SettleBalance(t)
             \/ RefuseAtOnce(t) \/ UNCHANGED vars
             \/ \E k \in Trackers : EnsureRead(k)
             \/ \E r \in Runners : RaceOff(r)
      PROVE  pc[t] # "idle" /\ log' = log
  BY <1>4 DEF Permit, ReadBefore, SettleBalance, RefuseAtOnce, EnsureRead, RaceOff, vars
<1>5. ASSUME \/ Refuse(t) \/ CommitBet(t) \/ CommitSettle(t) \/ CommitRebase(t)
             \/ CommitAdjust(t)
      PROVE  FALSE
  BY <1>0, <1>5 DEF Refuse, CommitBet, CommitSettle, CommitRebase, CommitAdjust, Goto
<1> QED BY <1>0, <1>1, <1>2, <1>3, <1>4, <1>5 DEF Next, ThreadStep

(* A row is appended, rewritten in place, or neither.                        *)
LEMMA RowsStep ==
    ASSUME OneTracker, AccountInv, [Next]_vars
    PROVE  RowsInv'
<1>0. /\ TypeOK /\ bets \in Seq(BetRow) /\ log \in Seq(LogRow)
      /\ Len(bets) \in Nat /\ Len(log) \in Nat /\ Len(bets) <= Len(log)
      /\ log # <<>> => log[1].event = "init"
  BY DEF AccountInv, SharedInv, TypeOK, RowsInv
<1>1. ASSUME NEW row \in LogRow, log' = Append(log, row), log # <<>>,
             Len(bets') <= Len(bets) + 1
      PROVE  RowsInv'
  <2>1. /\ Len(log') = Len(log) + 1 /\ log'[1] = log[1]
    BY <1>0, <1>1
  <2>2. Len(bets') \in Nat
    BY <1>0, TypeStep DEF TypeOK
  <2>3. Len(bets') <= Len(log')
    BY <1>0, <1>1, <2>1, <2>2
  <2>4. log'[1].event = "init"
    BY <1>0, <1>1, <2>1
  <2> QED BY <2>3, <2>4 DEF RowsInv
<1>2. CASE UNCHANGED <<bets, log>>
  BY <1>0, <1>2 DEF RowsInv
<1>3. ASSUME NEW k \in Trackers, EnsureInsert(k) PROVE RowsInv'
  <2>1. log = <<>> /\ bets' = bets
    BY <1>3 DEF EnsureInsert, AccountInv, SharedInv, OpenInv
  <2>7. InitRow(InitialBankroll) \in LogRow
    BY MoneyAssumption DEF InitRow, LogRow
  <2>2. PICK row \in LogRow : row = InitRow(InitialBankroll)
    BY <2>7
  <2>3. log' = Append(<<>>, row)
    BY <1>3, <2>1, <2>2 DEF EnsureInsert
  <2>4. Len(log') = 1 /\ log'[1] = row
    BY <2>3
  <2>5. Len(bets') <= Len(log')
    <3>1. Len(log) = 0
      BY <2>1
    <3> QED BY <1>0, <2>1, <2>4, <3>1
  <2>6. row.event = "init"
    BY <2>2 DEF InitRow
  <2> QED BY <2>4, <2>5, <2>6 DEF RowsInv
<1>4. ASSUME NEW t \in Threads, CommitRebase(t) PROVE RowsInv'
  <2>1. /\ bets' = bets /\ DOMAIN log' = DOMAIN log
        /\ \A n \in DOMAIN log : log[n].event = "init" => log'[n].event = "init"
    BY <1>4 DEF CommitRebase, InitRow
  <2>2. log # <<>> /\ 1 \in DOMAIN log
    <3>1. log # <<>>
      BY <1>4 DEF CommitRebase, AccountInv, SharedInv, OpenInv
    <3> QED BY <1>0, <3>1
  <2>3. log' \in Seq(LogRow)
    BY <1>0, TypeStep DEF TypeOK
  <2>4. Len(log') = Len(log)
    BY <1>0, <2>1, <2>3
  <2>5. log'[1].event = "init"
    BY <1>0, <2>1, <2>2
  <2> QED BY <1>0, <2>1, <2>4, <2>5 DEF RowsInv
<1>5. ASSUME NEW t \in Threads, CommitBet(t) \/ CommitAdjust(t) \/ CommitSettle(t)
      PROVE  RowsInv'
  <2>1. Len(bets') <= Len(bets) + 1
    <3>1. CASE CommitBet(t)
      BY <1>0, <3>1 DEF CommitBet
    <3>2. CASE CommitAdjust(t)
      BY <1>0, <3>2 DEF CommitAdjust
    <3>3. CASE CommitSettle(t)
      <4>1. Len(bets') = Len(bets)
        BY <1>0, <3>3 DEF CommitSettle
      <4> QED BY <1>0, <4>1
    <3> QED BY <1>5, <3>1, <3>2, <3>3
  <2>2. \E row \in LogRow : log' = Append(log, row) /\ log # <<>>
    BY <1>5, AppendingSteps DEF AccountInv
  <2> QED BY <1>1, <2>1, <2>2
<1>6. ASSUME NEW t \in Threads, ThreadStep(t), ~CommitRebase(t),
             ~(CommitBet(t) \/ CommitAdjust(t) \/ CommitSettle(t))
      PROVE  UNCHANGED <<bets, log>>
  BY <1>6 DEF ThreadStep, PlacePaperBet, RecordBet, RefuseAtOnce, Refuse, Permit,
     ReadBefore, SettleRead, SettleBalance, SetBankroll, vars
<1>7. ASSUME \/ \E k \in Trackers : EnsureRead(k)
             \/ \E r \in Runners : RaceOff(r)
             \/ UNCHANGED vars
      PROVE  UNCHANGED <<bets, log>>
  BY <1>7 DEF EnsureRead, RaceOff, vars
<1> QED BY <1>2, <1>3, <1>4, <1>5, <1>6, <1>7 DEF Next

(* With one thread nobody settles the bet in between.                        *)
LEMMA OwedStep ==
    ASSUME OneThread, AccountInv, [Next]_vars
    PROVE  OwedInv'
<1> SUFFICES ASSUME NEW t \in Threads, pc'[t] \in {"settle", "credit"}
             PROVE  /\ bets'[req'[t].bet].outcome = Pending
                    /\ req'[t].gross = Gross(bets'[req'[t].bet], req'[t].outcome)
  BY DEF OwedInv, Gross, PlaceLeg
<1>0. /\ TypeOK /\ pc \in [Threads -> Points] /\ DOMAIN req = Threads
      /\ \A u \in Threads : u = t
  BY DEF AccountInv, SharedInv, TypeOK, OneThread
<1>1. ASSUME NEW i \in DOMAIN bets, NEW o \in Outcomes, SettleRead(t, i, o)
      PROVE  /\ bets'[req'[t].bet].outcome = Pending
             /\ req'[t].gross = Gross(bets'[req'[t].bet], req'[t].outcome)
  <2>1. /\ bets' = bets /\ bets[i].outcome = Pending
        /\ req'[t] = [bet |-> i, outcome |-> o, gross |-> Gross(bets[i], o)]
    BY <1>0, <1>1 DEF SettleRead
  <2>2. /\ req'[t].bet = i /\ req'[t].outcome = o
        /\ req'[t].gross = Gross(bets[i], o)
    BY <2>1
  <2> QED BY <2>1, <2>2
<1>2. CASE pc[t] \in {"settle", "credit"} /\ bets' = bets /\ req' = req
  BY <1>2 DEF AccountInv, OwedInv
<1>3. ASSUME ThreadStep(t),
             ~\E i \in DOMAIN bets, o \in Outcomes : SettleRead(t, i, o)
      PROVE  pc[t] \in {"settle", "credit"} /\ bets' = bets /\ req' = req
  BY <1>0, <1>3 DEF ThreadStep, PlacePaperBet, RecordBet, RefuseAtOnce, Refuse, Permit,
     ReadBefore, CommitBet, SettleBalance, CommitSettle, SetBankroll,
     CommitRebase, CommitAdjust, Goto, vars
<1>4. ASSUME \/ \E k \in Trackers : EnsureRead(k) \/ EnsureInsert(k)
             \/ \E r \in Runners : RaceOff(r)
             \/ UNCHANGED vars
      PROVE  pc[t] \in {"settle", "credit"} /\ bets' = bets /\ req' = req
  BY <1>4 DEF EnsureRead, EnsureInsert, RaceOff, vars
<1> QED BY <1>0, <1>1, <1>2, <1>3, <1>4 DEF Next

(* The invariant the refinement rests on.                                    *)
LEMMA AccountStep ==
    ASSUME OneThread, OneTracker, AccountInv, [Next]_vars
    PROVE  AccountInv'
<1> QED BY SharedStep, CreditStep, RoomStep, RowsStep, OwedStep DEF AccountInv

PendingBets == {i \in DOMAIN bets : bets[i].outcome = Pending}
SettledBets == {i \in DOMAIN bets : bets[i].outcome # Pending}

(* Writing a bet stakes it, out of the current balance.                      *)
LEMMA BetIsStake ==
    ASSUME OneTracker, AccountInv, NEW t \in Threads, CommitBet(t)
    PROVE  Account!Next
<1>0. /\ bets \in Seq(BetRow) /\ log \in Seq(LogRow)
      /\ Len(bets) \in Nat /\ Len(log) \in Nat /\ Len(bets) <= Len(log)
      /\ Len(log) < MaxLog /\ MaxLog \in Nat
  BY MoneyAssumption DEF AccountInv, SharedInv, TypeOK, RowsInv, RoomInv, CommitBet
<1>1. req[t] \in BetRequest /\ seen[t] = Bankroll
  BY DEF CommitBet, AccountInv, SharedInv, TypeOK, SeenInv
<1>2. req[t].stake \in Stakes
  BY <1>1 DEF BetRequest
<1> DEFINE row == [event |-> "bet_placed", bet |-> Len(bets) + 1,
                   amount |-> 0 - req[t].stake, balance |-> seen[t] - req[t].stake]
<1> DEFINE bet == [runner |-> req[t].runner, type |-> req[t].type,
                   odds |-> req[t].odds, stake |-> req[t].stake,
                   before |-> seen[t], outcome |-> Pending, gross |-> 0]
<1>3. bets' = Append(bets, bet) /\ log' = Append(log, row)
  BY DEF CommitBet, LogEntry
<1>4. bet.outcome = Pending /\ row.balance = Bankroll - req[t].stake
  BY <1>1
<1> HIDE DEF row, bet
<1>5. Bankroll' = Bankroll - req[t].stake
  <2>1. Len(log') = Len(log) + 1 /\ log'[Len(log) + 1] = row
    BY <1>0, <1>3
  <2>2. log' # <<>>
    BY <1>0, <1>3, AppendNotEmpty
  <2> QED BY <1>4, <2>1, <2>2 DEF Bankroll
<1>6. PICK new \in 1..MaxLog : new = Len(bets) + 1
  BY <1>0
<1>7. /\ DOMAIN bets' = DOMAIN bets \cup {new} /\ new \notin DOMAIN bets
      /\ \A i \in DOMAIN bets : bets'[i] = bets[i]
      /\ bets'[new] = bet
  <2>1. /\ DOMAIN bets = 1..Len(bets) /\ DOMAIN bets' = 1..new
        /\ \A i \in DOMAIN bets : bets'[i] = bets[i]
        /\ bets'[new] = bet
    BY <1>0, <1>3, <1>6
  <2> QED BY <1>0, <1>6, <2>1
<1>8. /\ new \notin PendingBets \cup SettledBets
      /\ PendingBets' = PendingBets \cup {new} /\ SettledBets' = SettledBets
  BY <1>4, <1>7 DEF PendingBets, SettledBets
<1>9. Account!Stake(new)
  BY <1>2, <1>5, <1>8 DEF Account!Stake, PendingBets, SettledBets
<1> QED BY <1>6, <1>9 DEF Account!Next

(* Writing a settlement pays a pending bet what its odds promise.            *)
LEMMA SettlementIsPayment ==
    ASSUME OneTracker, AccountInv, NEW t \in Threads, CommitSettle(t)
    PROVE  Account!Next
<1>0. /\ bets \in Seq(BetRow) /\ log \in Seq(LogRow) /\ pc[t] = "credit"
      /\ Len(bets) \in Nat /\ Len(log) \in Nat /\ Len(bets) <= Len(log)
      /\ Len(log) < MaxLog /\ MaxLog \in Nat
  BY MoneyAssumption DEF AccountInv, SharedInv, TypeOK, RowsInv, RoomInv, CommitSettle
<1>1. /\ req[t] \in [bet : Nat, outcome : Outcomes, gross : Int]
      /\ req[t].bet \in DOMAIN bets
  BY <1>0 DEF AccountInv, SharedInv, TypeOK
<1>2. PICK i \in 1..MaxLog : i = req[t].bet /\ i \in DOMAIN bets
  BY <1>0, <1>1
<1>3. /\ bets[i].outcome = Pending
      /\ req[t].gross = Gross(bets[i], req[t].outcome)
      /\ req[t].outcome \in Outcomes
  BY <1>0, <1>1, <1>2 DEF AccountInv, OwedInv
<1>4. Bankroll' = Bankroll + req[t].gross
  <2>1. PICK row \in LogRow : log' = Append(log, row) /\ row.balance = seen[t]
    BY AppendingSteps DEF AccountInv
  <2>2. /\ Len(log') = Len(log) + 1 /\ log'[Len(log) + 1] = row
    BY <1>0, <2>1
  <2>3. log' # <<>>
    BY <1>0, <2>1, AppendNotEmpty
  <2>4. seen[t] = Bankroll + req[t].gross
    BY <1>0 DEF AccountInv, CreditInv
  <2> QED BY <2>1, <2>2, <2>3, <2>4 DEF Bankroll
<1>5. /\ DOMAIN bets' = DOMAIN bets
      /\ \A j \in DOMAIN bets : j # i => bets'[j] = bets[j]
      /\ bets'[i].outcome = req[t].outcome
  BY <1>0, <1>2 DEF CommitSettle, PaidRow
<1>6. /\ i \in PendingBets
      /\ PendingBets' = PendingBets \ {i} /\ SettledBets' = SettledBets \cup {i}
  BY <1>2, <1>3, <1>5 DEF PendingBets, SettledBets
<1>7. req[t].gross \in
        {Gross([type |-> ty, odds |-> o, stake |-> s], oc) :
            ty \in AcceptedTypes, o \in Odds, s \in Stakes, oc \in Outcomes}
  <2>1. bets[i] \in BetRow
    BY <1>0, <1>2
  <2>2. /\ bets[i].type \in AcceptedTypes /\ bets[i].odds \in Odds
        /\ bets[i].stake \in Stakes
    BY <2>1 DEF BetRow
  <2>3. Gross(bets[i], req[t].outcome)
          = Gross([type |-> bets[i].type, odds |-> bets[i].odds,
                   stake |-> bets[i].stake], req[t].outcome)
    BY DEF Gross
  <2> QED BY <1>3, <2>2, <2>3
<1>8. Account!Pay(i)
  BY <1>4, <1>6, <1>7 DEF Account!Pay, PendingBets, SettledBets
<1> QED BY <1>2, <1>8 DEF Account!Next

(* set_bankroll resets the balance and touches no bet.                       *)
LEMMA SettingIsReset ==
    ASSUME OneTracker, AccountInv, NEW t \in Threads, CommitRebase(t) \/ CommitAdjust(t)
    PROVE  Account!Next
<1>0. /\ bets' = bets /\ log \in Seq(LogRow) /\ log # <<>>
      /\ req[t] \in [amount : Bankrolls]
  BY DEF CommitRebase, CommitAdjust, AccountInv, SharedInv, TypeOK, OpenInv
<1>1. req[t].amount \in Bankrolls
  BY <1>0
<1>2. Bankroll' = req[t].amount
  <2>1. CASE CommitRebase(t)
    <3>1. Len(log) = 1 /\ log[1].event = "init"
      <4>1. bets = <<>> /\ Len(log) <= 1
        BY <2>1 DEF CommitRebase, AccountInv, SharedInv, BaseInv
      <4>2. Len(log) \in Nat /\ Len(log) # 0
        BY <1>0
      <4>3. Len(log) = 1
        <5>1. \A n \in Nat : n <= 1 /\ n # 0 => n = 1
          OBVIOUS
        <5> QED BY <4>1, <4>2, <5>1
      <4>4. log[1].event = "init"
        BY <1>0 DEF AccountInv, RowsInv
      <4> QED BY <4>3, <4>4
    <3>2. DOMAIN log = {1} /\ DOMAIN log' = {1} /\ log'[1] = InitRow(req[t].amount)
      BY <1>0, <2>1, <3>1 DEF CommitRebase
    <3>3. Len(log') = 1 /\ log' # <<>>
      BY <3>2
    <3> QED BY <3>2, <3>3 DEF Bankroll, InitRow
  <2>2. CASE CommitAdjust(t)
    <3> DEFINE row == [event |-> "adjust", bet |-> 0,
                       amount |-> req[t].amount - seen[t], balance |-> req[t].amount]
    <3>1. log' = Append(log, row) /\ row.balance = req[t].amount
      BY <2>2 DEF CommitAdjust, LogEntry
    <3> HIDE DEF row
    <3>2. Len(log') = Len(log) + 1 /\ log'[Len(log) + 1] = row /\ log' # <<>>
      BY <1>0, <3>1, AppendNotEmpty
    <3> QED BY <3>1, <3>2 DEF Bankroll
  <2> QED BY <2>1, <2>2
<1>3. Account!Reset
  BY <1>0, <1>1, <1>2 DEF Account!Reset
<1> QED BY <1>3 DEF Account!Next

(* Every step is a step of the account or leaves it as it is.                *)
LEMMA AccountRefined ==
    ASSUME OneTracker, AccountInv, [Next]_vars
    PROVE  [Account!Next]_(Account!vars)
<1>1. CASE UNCHANGED <<bets, log>>
  BY <1>1 DEF Account!vars, Bankroll
<1>2. ASSUME NEW k \in Trackers, EnsureInsert(k) PROVE UNCHANGED Account!vars
  <2>1. log = <<>> /\ bets' = bets
    BY <1>2 DEF EnsureInsert, AccountInv, SharedInv, OpenInv
  <2>2. log' = <<InitRow(InitialBankroll)>>
    BY <1>2, <2>1 DEF EnsureInsert
  <2>3. Bankroll' = InitialBankroll /\ Bankroll = InitialBankroll
    BY <2>1, <2>2 DEF Bankroll, InitRow
  <2> QED BY <2>1, <2>3 DEF Account!vars
<1>3. ASSUME NEW t \in Threads, ThreadStep(t),
             ~(CommitBet(t) \/ CommitSettle(t) \/ CommitRebase(t) \/ CommitAdjust(t))
      PROVE  UNCHANGED <<bets, log>>
  BY <1>3 DEF ThreadStep, PlacePaperBet, RecordBet, RefuseAtOnce, Refuse, Permit,
     ReadBefore, SettleRead, SettleBalance, SetBankroll, vars
<1>4. ASSUME \/ \E k \in Trackers : EnsureRead(k)
             \/ \E r \in Runners : RaceOff(r)
             \/ UNCHANGED vars
      PROVE  UNCHANGED <<bets, log>>
  BY <1>4 DEF EnsureRead, RaceOff, vars
<1> QED BY <1>1, <1>2, <1>3, <1>4, BetIsStake, SettlementIsPayment, SettingIsReset DEF Next

(* Used by one thread, the tracker's steps, reads before writes and all, are *)
(* those of the atomic account: a stake, a single payment of what the odds   *)
(* promise, a reset, and nothing else.                                       *)
THEOREM TrackerImplementsAccount ==
    ASSUME OneThread, OneTracker
    PROVE  Spec => ImplementsAccount
<1>1. Init => AccountInv /\ Account!Init
  <2> SUFFICES ASSUME Init PROVE AccountInv /\ Account!Init
    OBVIOUS
  <2>1. /\ bets = <<>> /\ log = <<>> /\ \A t \in Threads : pc[t] = "idle"
    BY DEF Init
  <2>2. CreditInv /\ RoomInv /\ RowsInv /\ OwedInv
    BY <2>1 DEF CreditInv, RoomInv, RowsInv, OwedInv
  <2>3. Account!Init
    BY <2>1 DEF Account!Init, Bankroll
  <2> QED BY <2>2, <2>3, SharedInit DEF AccountInv
<1>2. AccountInv /\ [Next]_vars => AccountInv' /\ [Account!Next]_(Account!vars)
  BY AccountStep, AccountRefined
<1> QED BY <1>1, <1>2, PTL DEF Spec, ImplementsAccount, Account!Spec
===============================================================================
