---------------------------- MODULE PaperLoopProofs ----------------------------
(***************************************************************************)
(* The forward window and the daily loop over it, for any inputs, runners, *)
(* races, days and stakes and any number of killed runs.                   *)
(*                                                                         *)
(* The window and the gap ledger by themselves: their files keep their     *)
(* type, a captured day is backed by snapshot rows and stays captured, and *)
(* the window only ever moves to the current day and the current inputs.   *)
(*                                                                         *)
(* The loop: tickets are never re-decided or settled twice, and none is    *)
(* settled against the results; the weeks a run counts are evidence; no    *)
(* day of a running window goes unrecorded; and the stakes of a race and   *)
(* of a day stay within their ceilings.                                    *)
(***************************************************************************)
EXTENDS PaperLoop, SumProofs, TLAPS

(* A file written by RecordDay or ReconcileGaps still holds recorded days    *)
(* with known statuses, and its captured days are days with snapshot rows.   *)
LedgerOK(ledger) ==
    /\ DOMAIN ledger \subseteq 1..today
    /\ ledger \in [DOMAIN ledger -> {Captured} \cup Causes]
    /\ \A d \in DOMAIN ledger : ledger[d] = Captured => d \in snapDays

(* The invariants say so of the file as it is.                               *)
LEMMA LedgerUnpacks ==
    ASSUME WindowTypeOK, CapturedIsEvidence
    PROVE  LedgerOK(days)
BY DEF WindowTypeOK, CapturedIsEvidence, LedgerOK

(* Putting today's status keeps the ledger well formed. *)
LEMMA PutKeepsLedger ==
    ASSUME LedgerOK(days), today \in Days,
           NEW status \in {Captured} \cup Causes,
           status = Captured => today \in snapDays
    PROVE  LedgerOK(Put(today, status))
<1>1. today \in 1..today
  BY MaxDayAssumption DEF Days
<1>2. DOMAIN Put(today, status) = DOMAIN days \cup {today}
  BY DEF Put
<1>3. ASSUME NEW d \in DOMAIN days \cup {today}
      PROVE  Put(today, status)[d] = IF d = today THEN status ELSE days[d]
  BY <1>3 DEF Put
<1> QED
  BY <1>1, <1>2, <1>3 DEF LedgerOK, Put

(* So does filling in the days before today. *)
LEMMA ReconcileKeepsLedger ==
    ASSUME LedgerOK(days), today \in Days, NEW start \in 1..today
    PROVE  LedgerOK(Reconciled(start, today))
<1>1. DOMAIN Reconciled(start, today) = DOMAIN days \cup Missing(start, today)
  BY DEF Reconciled
<1>2. Missing(start, today) \subseteq 1..today
  BY MaxDayAssumption DEF Missing, Days
<1>3. ASSUME NEW d \in DOMAIN days \cup Missing(start, today)
      PROVE  Reconciled(start, today)[d] =
                IF d \in DOMAIN days THEN days[d]
                ELSE IF d \in snapDays THEN Captured ELSE "no_run_recorded"
  BY <1>3 DEF Reconciled
<1>4. "no_run_recorded" # Captured /\ "no_run_recorded" \in Causes
  BY DEF Captured, Causes
<1> QED
  BY <1>1, <1>2, <1>3, <1>4 DEF LedgerOK, Reconciled

-------------------------------------------------------------------------------
(* The inductive invariant: the two invariants together.  The captured days  *)
(* are not inductive without the type, which bounds the recorded days.       *)
WindowInv == WindowTypeOK /\ CapturedIsEvidence

(* It holds of the fresh files.                                              *)
LEMMA WindowInvInit == WindowInit => WindowInv
BY MaxDayAssumption DEF WindowInit, WindowInv, WindowTypeOK, CapturedIsEvidence,
   FreshWindow, Running, NoDay, Days, Captured, Causes

(* Every operation on the two files, and the world around them, keeps it.    *)
LEMMA WindowInvNext == WindowInv /\ [WindowNext]_windowVars => WindowInv'
<1> SUFFICES ASSUME WindowInv, [WindowNext]_windowVars
             PROVE  WindowInv'
  OBVIOUS
<1> USE DEF WindowInv
<1>a. today \in Nat /\ today >= 1 /\ today \in Days
  BY MaxDayAssumption DEF WindowTypeOK, Days
<1>1. CASE UNCHANGED windowVars
  BY <1>1 DEF windowVars, WindowTypeOK, CapturedIsEvidence, Running
<1>2. CASE NextDay
  <2>1. today' \in Days /\ \A d \in Int : d \in 1..today => d \in 1..today'
    BY <1>2, <1>a, MaxDayAssumption DEF NextDay, Days
  <2> QED
    BY <1>2, <2>1, <1>a DEF NextDay, WindowTypeOK, CapturedIsEvidence, Running
<1>3. CASE ChangeInputs
  BY <1>3 DEF ChangeInputs, WindowTypeOK, CapturedIsEvidence, Running
<1>4. CASE Poll
  BY <1>4, <1>a DEF Poll, WindowTypeOK, CapturedIsEvidence, Running
<1>5. CASE LoseWindow
  BY <1>5, <1>a DEF LoseWindow, WindowTypeOK, CapturedIsEvidence, Running,
     FreshWindow, NoDay
<1>6. CASE LoseLedger
  BY <1>6 DEF LoseLedger, WindowTypeOK, CapturedIsEvidence, Running
<1>7. CASE StartWindow
  <2>1. window' = [status |-> "running", start |-> today, hashes |-> {frozen}]
    BY <1>7 DEF StartWindow
  <2>2. Running' /\ (window.start # NoDay)'
    BY <2>1, <1>a DEF Running, NoDay
  <2> QED
    BY <1>7, <2>1, <2>2, <1>a DEF StartWindow, WindowTypeOK, CapturedIsEvidence
<1>8. CASE VerifyWindow(today)
  <2>1. CASE Running /\ window.hashes # {frozen}
    <3>1. window' = [status |-> "reset", start |-> today, hashes |-> {frozen}]
      BY <1>8, <2>1 DEF VerifyWindow, Verified
    <3>2. Running' /\ (window.start # NoDay)'
      BY <3>1, <1>a DEF Running, NoDay
    <3> QED
      BY <1>8, <3>1, <3>2, <1>a DEF VerifyWindow, WindowTypeOK, CapturedIsEvidence
  <2>2. CASE ~(Running /\ window.hashes # {frozen})
    <3>1. window' = window
      BY <1>8, <2>2 DEF VerifyWindow, Verified
    <3> QED
      BY <1>8, <3>1 DEF VerifyWindow, WindowTypeOK, CapturedIsEvidence, Running
  <2> QED
    BY <2>1, <2>2
<1>b. ASSUME LedgerOK(days'), UNCHANGED <<today, frozen, snapDays, window>>
      PROVE  WindowInv'
  BY <1>b DEF LedgerOK, WindowTypeOK, CapturedIsEvidence, Running
<1>9. CASE \E listed \in BOOLEAN : RecordDay(today, listed)
  <2> PICK listed \in BOOLEAN : RecordDay(today, listed)
    BY <1>9
  <2>1. CASE days' = days
    BY <2>1, <1>b, LedgerUnpacks DEF RecordDay
  <2>2. CASE days' = Put(today, Captured) /\ today \in snapDays
    BY <2>2, <1>a, <1>b, LedgerUnpacks, PutKeepsLedger DEF RecordDay
  <2>3. CASE days' = Put(today, IF listed THEN "scraper_outage" ELSE "no_racing")
    <3> DEFINE cause == IF listed THEN "scraper_outage" ELSE "no_racing"
    <3>1. cause \in Causes /\ cause # Captured
      BY DEF Causes, Captured
    <3> HIDE DEF cause
    <3>2. LedgerOK(Put(today, cause))
      BY <3>1, <1>a, LedgerUnpacks, PutKeepsLedger
    <3> QED
      BY <2>3, <3>2, <1>b DEF RecordDay, cause
  <2> QED
    BY <2>1, <2>2, <2>3 DEF RecordDay
<1>10. CASE Running /\ ReconcileGaps(window.start, today)
  <2>1. window.start \in 1..today
    BY <1>10, <1>a DEF WindowTypeOK, NoDay
  <2> QED
    BY <1>10, <2>1, <1>a, <1>b, LedgerUnpacks, ReconcileKeepsLedger DEF ReconcileGaps
<1> QED
  BY <1>1, <1>2, <1>3, <1>4, <1>5, <1>6, <1>7, <1>8, <1>9, <1>10
     DEF WindowNext, WindowWorld

(* So it always holds.                                                       *)
LEMMA WindowInvariant == WindowSpec => []WindowInv
BY WindowInvInit, WindowInvNext, PTL DEF WindowSpec

(* window.py and gap_ledger.py write nothing else to their files. *)
THEOREM WindowTypeCorrect == WindowSpec => []WindowTypeOK
<1>1. WindowInv => WindowTypeOK
  BY DEF WindowInv
<1> QED
  BY <1>1, WindowInvariant, PTL

(* The qualifying days are never more than the days with snapshot rows,      *)
(* however the files are rewritten, reconciled, lost and rebuilt.            *)
THEOREM EvidenceIsReal == WindowSpec => []CapturedIsEvidence
<1>1. WindowInv => CapturedIsEvidence
  BY DEF WindowInv
<1> QED
  BY <1>1, WindowInvariant, PTL

-------------------------------------------------------------------------------
(* A captured day is never taken back by a later write of the ledger. *)
THEOREM CapturedStays == WindowSpec => CapturedIsSticky
<1> DEFINE Sticky == DOMAIN days' # {} =>
                       \A d \in DOMAIN days : days[d] = Captured =>
                           d \in DOMAIN days' /\ days'[d] = Captured
<1>1. WindowInv /\ [WindowNext]_windowVars => [Sticky]_windowVars
  <2> SUFFICES ASSUME WindowInv, WindowNext, DOMAIN days' # {},
                      NEW d \in DOMAIN days, days[d] = Captured
               PROVE  d \in DOMAIN days' /\ days'[d] = Captured
    OBVIOUS
  <2>1. CASE days' = days
    BY <2>1
  <2>2. CASE LoseLedger
    BY <2>2 DEF LoseLedger
  <2>3. CASE \E listed \in BOOLEAN : RecordDay(today, listed)
    <3> PICK listed \in BOOLEAN : RecordDay(today, listed)
      BY <2>3
    <3>1. ASSUME NEW status, days' = Put(today, status), d # today \/ status = Captured
          PROVE  d \in DOMAIN days' /\ days'[d] = Captured
      BY <3>1 DEF Put
    <3> QED
      BY <3>1, <2>1 DEF RecordDay
  <2>4. CASE Running /\ ReconcileGaps(window.start, today)
    BY <2>4 DEF ReconcileGaps, Reconciled
  <2> QED
    BY <2>1, <2>2, <2>3, <2>4 DEF WindowNext, WindowWorld, NextDay, ChangeInputs,
       Poll, LoseWindow, StartWindow, VerifyWindow
<1> QED
  BY <1>1, WindowInvariant, PTL DEF WindowSpec, CapturedIsSticky

(* The window is frozen: it is lost, or restarts today on today's inputs, or *)
(* stays as it is.                                                           *)
THEOREM WindowIsFrozen == WindowSpec => WindowMovesToToday
<1> DEFINE Moves == window' # window =>
                      \/ window' = FreshWindow
                      \/ window'.start = today /\ window'.hashes = {frozen}
<1>1. [WindowNext]_windowVars => [Moves]_windowVars
  BY DEF WindowNext, WindowWorld, NextDay, ChangeInputs, Poll, LoseWindow,
     LoseLedger, StartWindow, VerifyWindow, Verified, RecordDay, ReconcileGaps,
     windowVars
<1> QED
  BY <1>1, PTL DEF WindowSpec, WindowMovesToToday

-------------------------------------------------------------------------------
(* No step of a run or of the world changes a ticket, but for the outcome of *)
(* an open one.                                                              *)
THEOREM AuditTrail == Spec => TicketsAppendOnly
<1> DEFINE Keeps == \A id \in DOMAIN tickets :
                      /\ id \in DOMAIN tickets'
                      /\ Decided(tickets'[id]) = Decided(tickets[id])
                      /\ tickets[id].outcome # Open =>
                           tickets'[id].outcome = tickets[id].outcome
<1>1. [Next]_vars => [Keeps]_vars
  <2> SUFFICES ASSUME Next PROVE Keeps
    OBVIOUS
  <2>1. CASE UNCHANGED tickets
    BY <2>1
  <2>2. ASSUME NEW id, NEW row, IssueTicket(id, row) PROVE Keeps
    BY <2>2 DEF IssueTicket, Decided
  <2>3. ASSUME NEW id, NEW outcome, SettleTicket(id, outcome) PROVE Keeps
    <3>1. CASE tickets[id].outcome # Open
      BY <2>3, <3>1 DEF SettleTicket, storeVars
    <3>2. CASE tickets[id].outcome = Open
      <4>1. \A i \in DOMAIN tickets : i # id => tickets'[i] = tickets[i]
        BY <2>3, <3>2 DEF SettleTicket
      <4>2. id \in DOMAIN tickets => Decided(tickets'[id]) = Decided(tickets[id])
        BY <2>3, <3>2 DEF SettleTicket, Decided
      <4>3. DOMAIN tickets' = DOMAIN tickets
        BY <2>3, <3>2 DEF SettleTicket
      <4> QED
        BY <3>2, <4>1, <4>2, <4>3
    <3> QED
      BY <3>1, <3>2
  <2>4. ASSUME NEW id, Resolve(id) PROVE Keeps
    BY <2>1, <2>3, <2>4 DEF Resolve, storeVars
  <2>5. ASSUME NEW id, Issue(id) PROVE Keeps
    BY <2>2, <2>5 DEF Issue
  <2>6. CASE World
    BY <2>1, <2>6 DEF World, Midnight, Retrain, Start, PollBoard, Predict, RaceOff,
       Publish, storeVars
  <2>7. CASE Begin \/ Crash
    BY <2>1, <2>7 DEF Begin, Crash, storeVars
  <2>8. CASE RunStep
    <3>1. ASSUME NEW r, PlanRunner(r) PROVE Keeps
      BY <2>1, <3>1 DEF PlanRunner, storeVars
    <3>2. ASSUME NEW id, Issue(id) \/ Settle(id) \/ Observe(id) PROVE Keeps
      BY <2>4, <2>5, <3>2 DEF Settle, Observe
    <3>3. CASE Capture \/ Record \/ Verify \/ Reconcile \/ Gate \/ EndPlan
               \/ EndIssue \/ EndRefresh \/ EndSettle \/ EndObserve \/ Report
      BY <2>1, <3>3 DEF Capture, Record, Verify, Reconcile, Gate, EndPlan,
         EndIssue, EndRefresh, EndSettle, EndObserve, Report, storeVars
    <3> QED
      BY <2>8, <3>1, <3>2, <3>3 DEF RunStep
  <2> QED
    BY <2>6, <2>7, <2>8 DEF Next
<1> QED
  BY <1>1, PTL DEF Spec, TicketsAppendOnly

-------------------------------------------------------------------------------
(* How the results on disk may have moved on since a settling step read them *)
(* as e: a first place may have been disputed, a missing position filled in. *)
Follows(e, f) == \/ e = "absent"
                 \/ f = e
                 \/ e \in {"first", "beaten"} /\ f = "ambiguous"
                 \/ e = "placeholder" /\ f \in {"first", "beaten", "ambiguous"}

(* The inductive invariant.  SettledOnEvidence alone is not inductive: the   *)
(* results are read once and used ticket by ticket while they change, and a  *)
(* planned ticket must enter the table open.                                 *)
EvidenceInv ==
    /\ feed \in [Runners -> Evidence]
    /\ view \in [Runners -> Evidence]
    /\ \A r \in Runners : Follows(view[r], feed[r])
    /\ \A id \in DOMAIN planned : planned[id].outcome = Open
    /\ DOMAIN tickets \subseteq TicketIds
    /\ SettledOnEvidence

(* Evidence keeps supporting an outcome as it moves on. *)
LEMMA SupportsMovesOn ==
    ASSUME NEW e \in Evidence, NEW f \in Evidence, NEW g \in NextEvidence(f), NEW result
    PROVE  /\ g \in Evidence
           /\ Supports(f, result) => Supports(g, result)
           /\ Follows(e, f) => Follows(e, g)
<1>1. CASE f = "absent"
  BY <1>1 DEF Evidence, NextEvidence, Supports, Follows
<1>2. CASE f = "placeholder"
  BY <1>2 DEF Evidence, NextEvidence, Supports, Follows
<1>3. CASE f \in {"first", "beaten"}
  BY <1>3 DEF Evidence, NextEvidence, Supports, Follows
<1>4. CASE f \in {"ambiguous", "withdrawn"}
  BY <1>4 DEF Evidence, NextEvidence
<1> QED
  BY <1>1, <1>2, <1>3, <1>4 DEF Evidence

(* What a settling step concludes from what it read is still supported.      *)
LEMMA OutcomeSupported ==
    ASSUME NEW e \in Evidence, NEW f \in Evidence, Settles(e), Follows(e, f)
    PROVE  Supports(f, Outcome(e))
<1>1. CASE e = "first"
  BY <1>1 DEF Follows, Supports, Outcome
<1>2. CASE e \in {"beaten", "placeholder"}
  BY <1>2 DEF Follows, Supports, Outcome
<1>3. CASE e = "withdrawn"
  BY <1>3 DEF Follows, Supports, Outcome
<1> QED
  BY <1>1, <1>2, <1>3 DEF Settles

(* It holds before the first run.                                            *)
LEMMA EvidenceInit == Init => EvidenceInv
BY DEF Init, StoreInit, EvidenceInv, NoEvidence, Evidence, Follows, NoTickets,
   SettledOnEvidence, TicketIds

(* The two writes of the ticket table. *)
LEMMA IssueKeepsEvidence ==
    ASSUME EvidenceInv, NEW id \in TicketIds, NEW row, row.outcome = Open,
           IssueTicket(id, row)
    PROVE  /\ DOMAIN tickets' \subseteq TicketIds
           /\ \A i \in DOMAIN tickets' : Supports(feed[i[1]], tickets'[i].outcome)
<1>1. \A e : Supports(e, Open)
  BY DEF Supports, Open
<1> QED
  BY <1>1 DEF IssueTicket, EvidenceInv, SettledOnEvidence

(* Settling on what the run has read keeps it.                               *)
LEMMA SettleKeepsEvidence ==
    ASSUME EvidenceInv, NEW id \in TicketIds, Settles(view[id[1]]),
           SettleTicket(id, Outcome(view[id[1]]))
    PROVE  /\ DOMAIN tickets' \subseteq TicketIds
           /\ \A i \in DOMAIN tickets' : Supports(feed[i[1]], tickets'[i].outcome)
<1>1. id[1] \in Runners
  BY DEF TicketIds
<1>2. Supports(feed[id[1]], Outcome(view[id[1]]))
  BY <1>1, OutcomeSupported DEF EvidenceInv
<1>3. CASE UNCHANGED tickets
  BY <1>3 DEF EvidenceInv, SettledOnEvidence
<1>4. CASE tickets[id].outcome = Open
  <2> DEFINE new == Outcome(view[id[1]])
  <2> HIDE DEF new
  <2>1. DOMAIN tickets' = DOMAIN tickets
    BY <1>4 DEF SettleTicket
  <2>2. \A i \in DOMAIN tickets : tickets'[i].outcome =
                                     IF i = id THEN new ELSE tickets[i].outcome
    BY <1>4 DEF SettleTicket, new
  <2>3. Supports(feed[id[1]], new)
    BY <1>2 DEF new
  <2> QED
    BY <2>1, <2>2, <2>3 DEF EvidenceInv, SettledOnEvidence
<1> QED
  BY <1>3, <1>4 DEF SettleTicket, storeVars

(* Every step of a run and of the world keeps it.                            *)
LEMMA EvidenceNext == EvidenceInv /\ [Next]_vars => EvidenceInv'
<1> SUFFICES ASSUME EvidenceInv, [Next]_vars PROVE EvidenceInv'
  OBVIOUS
<1>1. ASSUME UNCHANGED <<tickets, feed, view, planned>> PROVE EvidenceInv'
  BY <1>1 DEF EvidenceInv, SettledOnEvidence
<1>2. CASE UNCHANGED vars
  BY <1>1, <1>2 DEF vars, storeVars, loopVars
<1>3. CASE World
  <2>1. ASSUME NEW r \in Runners, Publish(r) PROVE EvidenceInv'
    <3> PICK e \in NextEvidence(feed[r]) : feed' = [feed EXCEPT ![r] = e]
      BY <2>1 DEF Publish
    <3>1. feed[r] \in Evidence /\ view[r] \in Evidence
      BY DEF EvidenceInv
    <3>2. e \in Evidence /\ Follows(view[r], e)
      BY <3>1, SupportsMovesOn DEF EvidenceInv
    <3>3. \A result : Supports(feed[r], result) => Supports(e, result)
      BY <3>1, SupportsMovesOn
    <3>4. \A s \in Runners : feed'[s] = IF s = r THEN e ELSE feed[s]
      BY DEF EvidenceInv
    <3>5. UNCHANGED <<tickets, view, planned>>
      BY <2>1 DEF Publish, storeVars
    <3>6. feed' \in [Runners -> Evidence]
      BY <3>2 DEF EvidenceInv
    <3>7. \A s \in Runners : Follows(view[s], feed'[s])
      BY <3>2, <3>4 DEF EvidenceInv
    <3>8. SettledOnEvidence'
      <4> SUFFICES ASSUME NEW id \in DOMAIN tickets
                   PROVE  Supports(feed'[id[1]], tickets[id].outcome)
        BY <3>5 DEF SettledOnEvidence
      <4>1. id[1] \in Runners
        BY DEF EvidenceInv, TicketIds
      <4>2. Supports(feed[id[1]], tickets[id].outcome)
        BY DEF EvidenceInv, SettledOnEvidence
      <4> QED
        BY <3>3, <3>4, <4>1, <4>2
    <3> QED
      BY <3>5, <3>6, <3>7, <3>8 DEF EvidenceInv
  <2> QED
    BY <1>1, <1>3, <2>1 DEF World, Midnight, Retrain, Start, PollBoard, Predict,
       RaceOff, storeVars, loopVars
<1>4. CASE Begin
  BY <1>1, <1>4 DEF Begin, storeVars
<1>5. CASE Crash
  BY <1>5 DEF Crash, EvidenceInv, SettledOnEvidence, NoEvidence, Evidence, Follows,
     NoTickets
<1>6. CASE RunStep
  <2>1. CASE Capture \/ Record \/ Verify \/ Reconcile \/ Gate \/ EndPlan \/ EndIssue
             \/ Report
    BY <1>1, <2>1 DEF Capture, Record, Verify, Reconcile, Gate, EndPlan, EndIssue,
       Report, storeVars
  <2>2. CASE EndRefresh \/ EndSettle
    BY <2>2 DEF EndRefresh, EndSettle, storeVars, EvidenceInv, SettledOnEvidence,
       Follows
  <2>3. CASE EndObserve
    BY <2>3 DEF EndObserve, storeVars, EvidenceInv, SettledOnEvidence, NoEvidence,
       Evidence, Follows
  <2>4. ASSUME NEW r \in Runners, PlanRunner(r) PROVE EvidenceInv'
    <3>1. ASSUME NEW row, row.outcome = Open, Add(r, row)
          PROVE  \A id \in DOMAIN planned' : planned'[id].outcome = Open
      BY <3>1 DEF Add, EvidenceInv
    <3>2. \A decision, stake, priced : Row(r, decision, stake, priced).outcome = Open
      BY DEF Row
    <3>3. \A id \in DOMAIN planned' : planned'[id].outcome = Open
      BY <2>4, <3>1, <3>2 DEF PlanRunner
    <3> QED
      BY <2>4, <3>3 DEF PlanRunner, storeVars, EvidenceInv, SettledOnEvidence
  <2>5. ASSUME NEW id \in TicketIds, Issue(id) PROVE EvidenceInv'
    <3>1. planned[id].outcome = Open
      BY <2>5 DEF Issue, EvidenceInv
    <3>2. \A i \in DOMAIN planned' : planned'[i].outcome = Open
      BY <2>5 DEF Issue, EvidenceInv
    <3>3. IssueTicket(id, planned[id]) /\ UNCHANGED <<feed, view>>
      BY <2>5 DEF Issue
    <3>4. SettledOnEvidence' /\ (DOMAIN tickets \subseteq TicketIds)'
      BY <3>1, <3>3, IssueKeepsEvidence DEF SettledOnEvidence
    <3> QED
      BY <3>2, <3>3, <3>4 DEF EvidenceInv
  <2>6. ASSUME NEW id \in TicketIds, Settle(id) \/ Observe(id) PROVE EvidenceInv'
    <3>1. Resolve(id)
      BY <2>6 DEF Settle, Observe
    <3>2. UNCHANGED <<feed, view, planned>>
      BY <3>1 DEF Resolve
    <3>3. SettledOnEvidence' /\ (DOMAIN tickets \subseteq TicketIds)'
      <4>1. CASE Settles(view[id[1]])
        BY <3>1, <3>2, <4>1, SettleKeepsEvidence DEF Resolve, SettledOnEvidence
      <4>2. CASE ~Settles(view[id[1]])
        BY <3>1, <3>2, <4>2 DEF Resolve, storeVars, EvidenceInv, SettledOnEvidence
      <4> QED
        BY <4>1, <4>2
    <3> QED
      BY <3>2, <3>3 DEF EvidenceInv
  <2> QED
    BY <1>6, <2>1, <2>2, <2>3, <2>4, <2>5, <2>6 DEF RunStep
<1> QED
  BY <1>2, <1>3, <1>4, <1>5, <1>6 DEF Next

(* No ticket is ever settled as won, lost or void but on a result of its own *)
(* race that still says so, whatever is published while the loop settles.    *)
THEOREM SettlementsHaveEvidence == Spec => []SettledOnEvidence
<1>1. EvidenceInv => SettledOnEvidence
  BY DEF EvidenceInv
<1> QED
  BY <1>1, EvidenceInit, EvidenceNext, PTL DEF Spec

-------------------------------------------------------------------------------
(* The weeks a report claims, and the days nothing ran on. *)

RunFields == {"day", "off", "win", "weeks", "card", "seeds"}

(* What the ledger and a run say of the days.  A run may sleep past midnight *)
(* and its day may be over when it writes, so what it knows is bounded by    *)
(* its own day and the ledger by that of the last run.                       *)
WeeksInv ==
    /\ today \in Nat \ {0} /\ window.start \in Nat /\ CapturedIsEvidence
    /\ DOMAIN run = RunFields /\ run.day \in Nat /\ run.win.start \in Nat
    /\ pc # "idle" => run.day \in 1..today
    /\ \A d \in DOMAIN days :
          d \in 1..today /\ (pc # "idle" => d <= run.day)
    /\ \A d \in run.weeks :
          d \in Nat /\ d \in snapDays /\ run.win.start <= d /\ d <= run.day
    /\ pc \in {"capture", "record", "verify"} => run.weeks = {}
    /\ WeeksAreEvidence

(* It holds before the first run.                                            *)
LEMMA WeeksInit == Init => WeeksInv
<1> SUFFICES ASSUME Init PROVE WeeksInv
  OBVIOUS
<1>1. /\ run = NoRun /\ report = NoReport /\ pc = "idle" /\ today = 1
      /\ window = FreshWindow /\ days = [d \in {} |-> Captured]
  BY DEF Init, WindowInit
<1>2. /\ DOMAIN run = RunFields /\ run.day = 0 /\ run.win.start = 0 /\ run.weeks = {}
      /\ window.start = 0 /\ report.weeks = {} /\ DOMAIN days = {}
  BY <1>1 DEF NoRun, NoReport, FreshWindow, NoDay, RunFields
<1> QED BY <1>1, <1>2 DEF WeeksInv, CapturedIsEvidence, WeeksAreEvidence

(* Steps that write neither the ledger, the run nor the report.              *)
LEMMA WeeksCarried ==
    ASSUME WeeksInv, UNCHANGED <<days, run, report>>,
           today' \in Nat, today' >= today, window'.start \in Nat,
           snapDays \subseteq snapDays',
           \/ pc' = pc
           \/ pc # "idle" /\ pc' \notin {"capture", "record", "verify"}
           \/ pc \in {"capture", "record", "verify"} /\ pc' # "idle"
           \/ pc' = "idle"
    PROVE  WeeksInv'
<1> USE DEF WeeksInv
<1>1. CapturedIsEvidence' /\ WeeksAreEvidence'
  BY DEF CapturedIsEvidence, WeeksAreEvidence
<1>2. \A d \in DOMAIN days' :
         d \in 1..today' /\ (pc' # "idle" => d <= run'.day)
  OBVIOUS
<1>3. pc' # "idle" => run'.day \in 1..today'
  OBVIOUS
<1>4. pc' \in {"capture", "record", "verify"} => run'.weeks = {}
  OBVIOUS
<1>5. \A d \in run'.weeks :
         d \in Nat /\ d \in snapDays' /\ run'.win.start <= d /\ d <= run'.day
  OBVIOUS
<1> QED BY <1>1, <1>2, <1>3, <1>4, <1>5

(* The gap ledger gets the run's day, or the days before it.                 *)
LEMMA WeeksLedger ==
    ASSUME WeeksInv, pc # "idle", UNCHANGED <<today, window, snapDays, report>>,
           \A d \in DOMAIN days' :
              \/ d \in DOMAIN days /\ days'[d] = days[d]
              \/ /\ d \in 1..run.day
                 /\ days'[d] = Captured => d \in snapDays
    PROVE  /\ today' \in Nat \ {0} /\ window'.start \in Nat
           /\ CapturedIsEvidence' /\ WeeksAreEvidence'
           /\ \A d \in DOMAIN days' : d \in 1..today' /\ d <= run.day
<1> USE DEF WeeksInv
<1>1. CapturedIsEvidence'
  BY DEF CapturedIsEvidence
<1>2. \A d \in DOMAIN days' : d \in 1..today' /\ d <= run.day
  OBVIOUS
<1> QED BY <1>1, <1>2 DEF WeeksAreEvidence

(* Every step keeps it: weeks are counted at Reconcile and carried after it. *)
LEMMA WeeksNext == WeeksInv /\ [Next]_vars => WeeksInv'
<1> SUFFICES ASSUME WeeksInv, [Next]_vars PROVE WeeksInv'
  OBVIOUS
<1>1. CASE UNCHANGED vars
  BY <1>1, WeeksCarried DEF vars, windowVars, loopVars, WeeksInv
<1>2. CASE World
  <2>1. UNCHANGED <<days, run, report, pc>>
    BY <1>2 DEF World, Midnight, Retrain, Start, PollBoard, Predict, RaceOff, Publish,
       NextDay, ChangeInputs, StartWindow, Poll, windowVars, loopVars
  <2>2. today' \in Nat /\ today' >= today /\ snapDays \subseteq snapDays'
    BY <1>2 DEF World, Midnight, Retrain, Start, PollBoard, Predict, RaceOff, Publish,
       NextDay, ChangeInputs, StartWindow, Poll, windowVars, WeeksInv
  <2>3. window'.start \in Nat
    BY <1>2 DEF World, Midnight, Retrain, Start, PollBoard, Predict, RaceOff, Publish,
       NextDay, ChangeInputs, StartWindow, Poll, windowVars, WeeksInv
  <2> QED BY <2>1, <2>2, <2>3, WeeksCarried
<1>3. CASE Begin
  <2>1. run' = [NoRun EXCEPT !.day = today, !.off = {x \in Races : HasStarted(x)}]
    BY <1>3 DEF Begin
  <2>2. /\ DOMAIN run' = RunFields /\ run'.day = today /\ run'.win.start = 0
        /\ run'.weeks = {}
    BY <2>1 DEF NoRun, RunFields, FreshWindow, NoDay
  <2>3. UNCHANGED <<today, window, snapDays, days, report>>
    BY <1>3 DEF Begin, windowVars
  <2>4. CapturedIsEvidence' /\ WeeksAreEvidence'
    BY <2>3 DEF WeeksInv, CapturedIsEvidence, WeeksAreEvidence
  <2>5. \A d \in DOMAIN days' : d \in 1..today' /\ d <= run'.day
    BY <2>2, <2>3 DEF WeeksInv
  <2>6. run'.day \in 1..today' /\ today' \in Nat \ {0} /\ window'.start \in Nat
    BY <2>2, <2>3 DEF WeeksInv
  <2> QED BY <2>2, <2>4, <2>5, <2>6 DEF WeeksInv
<1>4. CASE Crash \/ Report
  <2>1. /\ run' = NoRun /\ pc' = "idle"
        /\ UNCHANGED <<today, window, snapDays, days>>
    BY <1>4 DEF Crash, Report, Goto, windowVars
  <2>2. DOMAIN run' = RunFields /\ run'.day = 0 /\ run'.win.start = 0 /\ run'.weeks = {}
    BY <2>1 DEF NoRun, RunFields, FreshWindow, NoDay
  <2>3. WeeksAreEvidence'
    <3>1. CASE report' = report
      BY <2>1, <3>1 DEF WeeksInv, WeeksAreEvidence
    <3>2. CASE Report
      <4>1. /\ report'.weeks = run.weeks /\ report'.win = run.win
            /\ report'.day = run.day
        BY <3>2 DEF Report
      <4> QED BY <2>1, <4>1 DEF WeeksInv, WeeksAreEvidence
    <3> QED BY <1>4, <3>1, <3>2 DEF Crash
  <2>4. CapturedIsEvidence'
    BY <2>1 DEF WeeksInv, CapturedIsEvidence
  <2> QED BY <2>1, <2>2, <2>3, <2>4 DEF WeeksInv
<1>5. CASE Capture
  <2>1. /\ UNCHANGED <<days, run, report, today, window>>
        /\ pc = "capture" /\ pc' = "record" /\ snapDays \subseteq snapDays'
    BY <1>5 DEF Capture, Goto, Poll, windowVars
  <2> QED BY <2>1, WeeksCarried DEF WeeksInv
<1>6. CASE Record
  <2>1. /\ UNCHANGED <<today, window, snapDays, report, run>>
        /\ pc = "record" /\ pc' = "verify"
    BY <1>6 DEF Record, Goto, RecordDay
  <2>2. run.day \in 1..run.day \/ run.day = 0
    BY DEF WeeksInv
  <2>3. ASSUME NEW d \in DOMAIN days'
        PROVE  \/ d \in DOMAIN days /\ days'[d] = days[d]
               \/ /\ d = run.day
                  /\ days'[d] = Captured => d \in snapDays
    BY <1>6, <2>3 DEF Record, RecordDay, Put, Captured
  <2>4. ASSUME run.day = 0 PROVE FALSE
    BY <2>1, <2>4 DEF WeeksInv
  <2>5. \A d \in DOMAIN days' : d \in 1..today' /\ d <= run.day
    BY <2>1, <2>2, <2>3, <2>4, WeeksLedger
  <2>6. CapturedIsEvidence' /\ WeeksAreEvidence'
    BY <2>1, <2>2, <2>3, <2>4, WeeksLedger
  <2> QED BY <2>1, <2>5, <2>6 DEF WeeksInv
<1>7. CASE Verify
  <2>1. /\ UNCHANGED <<today, snapDays, days, report>>
        /\ pc = "verify" /\ pc' = "reconcile"
        /\ window' = Verified(run.day) /\ run' = [run EXCEPT !.win = Verified(run.day)]
    BY <1>7 DEF Verify, Goto, VerifyWindow
  <2>2. Verified(run.day).start \in Nat
    BY DEF WeeksInv, Verified
  <2>3. /\ DOMAIN run' = RunFields /\ run'.day = run.day /\ run'.weeks = {}
        /\ run'.win.start \in Nat
    BY <2>1, <2>2 DEF WeeksInv, RunFields
  <2>4. CapturedIsEvidence' /\ WeeksAreEvidence'
    BY <2>1 DEF WeeksInv, CapturedIsEvidence, WeeksAreEvidence
  <2> QED BY <2>1, <2>2, <2>3, <2>4 DEF WeeksInv
<1>8. CASE Reconcile
  <2>1. /\ UNCHANGED <<today, window, snapDays, report>>
        /\ pc = "reconcile" /\ pc' = "gate"
    BY <1>8 DEF Reconcile, Goto, ReconcileGaps, windowVars
  <2>2. ASSUME NEW d \in DOMAIN days'
        PROVE  \/ d \in DOMAIN days /\ days'[d] = days[d]
               \/ /\ d \in (run.win.start)..(run.day - 1) /\ run.win.start # 0
                  /\ days'[d] = Captured => d \in snapDays
    BY <1>8, <2>2 DEF Reconcile, ReconcileGaps, Reconciled, Missing, Captured, NoDay,
       windowVars
  <2>3. ASSUME NEW d \in (run.win.start)..(run.day - 1), run.win.start # 0
        PROVE  d \in 1..run.day
    BY <2>3 DEF WeeksInv
  <2>4. /\ CapturedIsEvidence' /\ WeeksAreEvidence'
        /\ \A d \in DOMAIN days' : d \in 1..today' /\ d <= run.day
    BY <2>1, <2>2, <2>3, WeeksLedger
  <2>5. /\ DOMAIN run' = RunFields /\ run'.day = run.day /\ run'.win = run.win
        /\ run'.weeks = {d \in DOMAIN days' : days'[d] = Captured /\ d >= run.win.start}
    BY <1>8 DEF Reconcile, WeeksInv, RunFields
  <2>6. \A d \in run'.weeks :
           d \in Nat /\ d \in snapDays' /\ run'.win.start <= d /\ d <= run'.day
    BY <2>1, <2>4, <2>5 DEF CapturedIsEvidence, WeeksInv
  <2> QED BY <2>1, <2>4, <2>5, <2>6 DEF WeeksInv
<1>9. CASE Gate \/ EndPlan
  <2>1. /\ UNCHANGED <<today, window, snapDays, days, report>>
        /\ pc \in {"gate", "plan"} /\ pc' \in {"plan", "issue"}
    BY <1>9 DEF Gate, EndPlan, Goto, windowVars
  <2>2. /\ DOMAIN run' = RunFields /\ run'.day = run.day /\ run'.win = run.win
        /\ run'.weeks = run.weeks
    BY <1>9 DEF Gate, EndPlan, WeeksInv, RunFields
  <2>3. CapturedIsEvidence' /\ WeeksAreEvidence'
    BY <2>1 DEF WeeksInv, CapturedIsEvidence, WeeksAreEvidence
  <2> QED BY <2>1, <2>2, <2>3 DEF WeeksInv
<1>10. ASSUME \/ \E r \in Runners : PlanRunner(r)
              \/ \E id \in TicketIds : Issue(id) \/ Settle(id) \/ Observe(id)
              \/ EndIssue \/ EndRefresh \/ EndSettle \/ EndObserve
       PROVE  WeeksInv'
  <2>1. UNCHANGED <<today, window, snapDays, days, run, report>>
    BY <1>10 DEF PlanRunner, Issue, Settle, Observe, Resolve, EndIssue, EndRefresh,
       EndSettle, EndObserve, windowVars
  <2>2. pc' = pc \/ (pc # "idle" /\ pc' \notin {"capture", "record", "verify"})
    BY <1>10 DEF PlanRunner, Issue, Settle, Observe, Resolve, EndIssue, EndRefresh,
       EndSettle, EndObserve, Goto
  <2> QED BY <2>1, <2>2, WeeksCarried DEF WeeksInv
<1> QED
  BY <1>1, <1>2, <1>3, <1>4, <1>5, <1>6, <1>7, <1>8, <1>9, <1>10 DEF Next, RunStep

(* Whenever a run is killed, sleeps past midnight or runs twice, the weeks   *)
(* its report claims are days of its window with rows in the snapshot store. *)
THEOREM WeeksAreReal == Spec => []WeeksAreEvidence
<1>1. WeeksInv => WeeksAreEvidence
  BY DEF WeeksInv
<1> QED BY <1>1, WeeksInit, WeeksNext, PTL DEF Spec

Before == {"idle", "capture", "record"}

(* Once recorded, a run's day is in the ledger; once reconciled, so is every *)
(* day of its window.                                                        *)
GapInv ==
    /\ pc \notin Before => run.day \in DOMAIN days
    /\ pc \notin Before \cup {"verify", "reconcile"} /\ run.win.start # NoDay =>
          \A d \in (run.win.start)..(run.day) : d \in DOMAIN days

(* The ledger forgets no day, and a step that keeps the run's day and window *)
(* and reconciles nothing keeps what is known of it.                         *)
LEMMA GapCarried ==
    ASSUME GapInv, DOMAIN days \subseteq DOMAIN days',
           run'.day = run.day, run'.win = run.win,
           pc' \in Before \/ (pc \notin Before /\ pc' = pc)
              \/ pc \notin Before \cup {"verify", "reconcile"}
    PROVE  GapInv'
<1> QED BY DEF GapInv

(* Every step keeps it: a run records its day before it verifies the window, *)
(* and fills the gaps before it goes on.                                     *)
LEMMA GapNext == WeeksInv /\ GapInv /\ [Next]_vars => GapInv'
<1> SUFFICES ASSUME WeeksInv, GapInv, [Next]_vars PROVE GapInv'
  OBVIOUS
<1>0. DOMAIN run = RunFields /\ run.day \in Nat /\ run.win.start \in Nat
  BY DEF WeeksInv
<1>1. ASSUME pc' \in Before PROVE GapInv'
  BY <1>1 DEF GapInv, Before
<1>2. CASE World \/ UNCHANGED vars
  <2>1. UNCHANGED <<days, run, pc>>
    BY <1>2 DEF World, Midnight, Retrain, Start, PollBoard, Predict, RaceOff, Publish,
       NextDay, ChangeInputs, StartWindow, Poll, vars, windowVars, loopVars
  <2> QED BY <2>1 DEF GapInv
<1>3. CASE Begin \/ Crash \/ Report \/ Capture
  <2>1. pc' \in Before
    BY <1>3 DEF Begin, Crash, Report, Capture, Goto, Before
  <2> QED BY <1>1, <2>1
<1>4. CASE Record
  <2>1. run.day \in DOMAIN days' /\ run' = run /\ pc' = "verify"
    BY <1>4 DEF Record, RecordDay, Put, Goto
  <2> QED BY <2>1 DEF GapInv
<1>5. CASE Verify
  <2>1. /\ days' = days /\ pc = "verify" /\ pc' = "reconcile"
        /\ run'.day = run.day
    BY <1>0, <1>5 DEF Verify, VerifyWindow, Goto, RunFields
  <2> QED BY <2>1 DEF GapInv, Before
<1>6. CASE Reconcile
  <2>1. pc = "reconcile" /\ pc' = "gate" /\ run'.day = run.day /\ run'.win = run.win
    BY <1>0, <1>6 DEF Reconcile, Goto, RunFields
  <2>2. run.day \in DOMAIN days
    BY <2>1 DEF GapInv, Before
  <2>3. CASE run.win.start = NoDay
    <3>1. days' = days
      BY <1>6, <2>3 DEF Reconcile, windowVars
    <3> QED BY <2>1, <2>2, <2>3, <3>1 DEF GapInv
  <2>4. CASE run.win.start # NoDay
    <3>1. DOMAIN days' = DOMAIN days \cup Missing(run.win.start, run.day)
      BY <1>6, <2>4 DEF Reconcile, ReconcileGaps, Reconciled
    <3>2. ASSUME NEW d \in (run.win.start)..(run.day) PROVE d \in DOMAIN days'
      <4>1. d = run.day \/ d \in (run.win.start)..(run.day - 1)
        BY <1>0, <3>2
      <4> QED BY <2>2, <3>1, <4>1 DEF Missing
    <3> QED BY <2>1, <2>2, <3>1, <3>2 DEF GapInv
  <2> QED BY <2>3, <2>4
<1>7. CASE Gate \/ EndPlan
  <2>1. /\ UNCHANGED days /\ pc \in {"gate", "plan"}
        /\ run'.day = run.day /\ run'.win = run.win
    BY <1>0, <1>7 DEF Gate, EndPlan, Goto, windowVars, RunFields
  <2> QED BY <2>1, GapCarried DEF Before
<1>8. ASSUME \/ \E r \in Runners : PlanRunner(r)
             \/ \E id \in TicketIds : Issue(id) \/ Settle(id) \/ Observe(id)
             \/ EndIssue \/ EndRefresh \/ EndSettle \/ EndObserve
      PROVE  GapInv'
  <2>1. UNCHANGED <<days, run>>
    BY <1>8 DEF PlanRunner, Issue, Settle, Observe, Resolve, EndIssue, EndRefresh,
       EndSettle, EndObserve, windowVars
  <2>2. pc \notin Before \cup {"verify", "reconcile"}
    BY <1>8 DEF PlanRunner, Issue, Settle, Observe, Resolve, EndIssue, EndRefresh,
       EndSettle, EndObserve, Goto, Before
  <2> QED BY <2>1, <2>2, GapCarried
<1> QED BY <1>2, <1>3, <1>4, <1>5, <1>6, <1>7, <1>8 DEF Next, RunStep

(* A run that reports has an entry for every day of its window up to its     *)
(* own: days on which no run happened are recorded gaps.                     *)
THEOREM GapsAreRecorded == Spec => []NoSilentGap
<1>1. Init => GapInv
  BY DEF Init, GapInv, Before
<1>2. WeeksInv /\ GapInv => NoSilentGap
  BY DEF WeeksInv, GapInv, NoSilentGap, Before
<1> QED BY <1>1, <1>2, WeeksInit, WeeksNext, GapNext, PTL DEF Spec

-------------------------------------------------------------------------------
(* The exposure ceilings. *)

(* Rows of either table: finitely many, with stakes in whole units, and none *)
(* on a PASS.                                                                *)
RowsOK(rows) ==
    /\ IsFiniteSet(DOMAIN rows)
    /\ \A id \in DOMAIN rows :
          /\ rows[id].stake \in Nat
          /\ rows[id].decision # "CANDIDATE" => rows[id].stake = 0

StakeOf(rows) == [id \in DOMAIN rows |-> rows[id].stake]
OnThem(rows, R) == {id \in DOMAIN rows : id[1] \in R}

(* What is staked on a set of runners is a sum, in any order.                *)
LEMMA StakedIsSum ==
    ASSUME NEW rows, RowsOK(rows), NEW R
    PROVE  /\ IsFiniteSet(OnThem(rows, R)) /\ OnThem(rows, R) \subseteq DOMAIN rows
           /\ \A id \in DOMAIN rows : StakeOf(rows)[id] \in Nat
           /\ Staked(rows, R) = Sum(StakeOf(rows), OnThem(rows, R))
           /\ Staked(rows, R) \in Nat
<1> DEFINE S == OnThem(rows, R)
<1> DEFINE it == CHOOSE h : h = [s \in SUBSET S |->
                    IF s = {} THEN 0
                    ELSE rows[CHOOSE x \in s : TRUE].stake
                         + h[s \ {CHOOSE x \in s : TRUE}]]
<1>1. IsFiniteSet(S) /\ S \subseteq DOMAIN rows
  BY FS_Subset DEF RowsOK, OnThem
<1>2. \A id \in DOMAIN rows : StakeOf(rows)[id] = rows[id].stake /\ rows[id].stake \in Nat
  BY DEF RowsOK, StakeOf
<1>3. Staked(rows, R) = it[S]
  BY DEF Staked, MapThenSumSet, MapThenFoldSet, OnThem
<1> HIDE DEF S
<1>4. PICK g : Solves(StakeOf(rows), S, g)
  <2>1. \A x \in S : StakeOf(rows)[x] \in Int
    BY <1>1, <1>2
  <2> QED BY <1>1, <2>1, SumSolves
<1>5. ASSUME NEW h
      PROVE  Sums(StakeOf(rows), S, h)
                <=> h = [s \in SUBSET S |->
                    IF s = {} THEN 0
                    ELSE rows[CHOOSE x \in s : TRUE].stake
                         + h[s \ {CHOOSE x \in s : TRUE}]]
  <2>1. \A s \in SUBSET S : s # {} => StakeOf(rows)[Picked(s)] = rows[Picked(s)].stake
    BY <1>1, <1>2, PickedIn
  <2>2. \A s \in SUBSET S :
           Adds(StakeOf(rows), h, s) = IF s = {} THEN 0
                                       ELSE rows[Picked(s)].stake + h[s \ {Picked(s)}]
    BY <2>1 DEF Adds
  <2>3. [s \in SUBSET S |-> Adds(StakeOf(rows), h, s)]
           = [s \in SUBSET S |-> IF s = {} THEN 0
                                 ELSE rows[Picked(s)].stake + h[s \ {Picked(s)}]]
    BY <2>2
  <2> QED BY <2>3 DEF Sums, Picked
<1>6. Sums(StakeOf(rows), S, it)
  BY <1>4, <1>5 DEF Solves
<1> HIDE DEF it
<1>7. it[S] = g[S] /\ Sum(StakeOf(rows), S) = g[S]
  BY <1>1, <1>4, <1>6, SumsAgree DEF Solves
<1>8. Sum(StakeOf(rows), S) \in Nat
  <2>1. \A x \in S : StakeOf(rows)[x] \in Nat
    BY <1>1, <1>2
  <2> QED BY <1>1, <2>1, SumGrows
<1> QED BY <1>1, <1>2, <1>3, <1>7, <1>8 DEF S

(* One row more puts its stake on its runner.                                *)
LEMMA StakedOneMore ==
    ASSUME NEW less, RowsOK(less), NEW more, RowsOK(more), NEW id, id \notin DOMAIN less,
           DOMAIN more = DOMAIN less \cup {id},
           \A i \in DOMAIN less : more[i].stake = less[i].stake, NEW R
    PROVE  Staked(more, R) = Staked(less, R) + (IF id[1] \in R THEN more[id].stake ELSE 0)
<1>1. /\ IsFiniteSet(OnThem(less, R)) /\ Staked(less, R) = Sum(StakeOf(less), OnThem(less, R))
      /\ OnThem(less, R) \subseteq DOMAIN less
      /\ \A i \in DOMAIN less : StakeOf(less)[i] \in Int
  BY StakedIsSum
<1>2. Staked(more, R) = Sum(StakeOf(more), OnThem(more, R))
  BY StakedIsSum
<1>3. \A i \in DOMAIN more : StakeOf(more)[i] \in Int /\ StakeOf(more)[i] = more[i].stake
  BY DEF RowsOK, StakeOf
<1>4. \A i \in OnThem(less, R) : StakeOf(less)[i] \in Int
                                 /\ StakeOf(more)[i] = StakeOf(less)[i]
  BY <1>1, <1>3 DEF StakeOf
<1>5. Sum(StakeOf(more), OnThem(less, R)) = Staked(less, R)
  BY <1>1, <1>4, SumSame
<1>6. CASE id[1] \in R
  <2>1. OnThem(more, R) = OnThem(less, R) \cup {id} /\ id \notin OnThem(less, R)
    BY <1>6 DEF OnThem
  <2>2. \A i \in OnThem(less, R) \cup {id} : StakeOf(more)[i] \in Int
    BY <1>1, <1>3
  <2>3. Sum(StakeOf(more), OnThem(less, R) \cup {id})
          = Sum(StakeOf(more), OnThem(less, R)) + StakeOf(more)[id]
    BY <1>1, <2>1, <2>2, SumAdd
  <2>4. StakeOf(more)[id] = more[id].stake
    BY <1>3
  <2> QED BY <1>2, <1>5, <1>6, <2>1, <2>3, <2>4
<1>7. CASE id[1] \notin R
  <2>1. OnThem(more, R) = OnThem(less, R)
    BY <1>7 DEF OnThem
  <2>2. Staked(less, R) \in Int
    BY StakedIsSum
  <2> QED BY <1>2, <1>5, <1>7, <2>1, <2>2
<1> QED BY <1>6, <1>7

(* Rows without a stake can be left out, and outcomes do not count.          *)
LEMMA StakedPart ==
    ASSUME NEW rows, RowsOK(rows), NEW part, RowsOK(part),
           DOMAIN part \subseteq DOMAIN rows,
           \A i \in DOMAIN part : part[i].stake = rows[i].stake,
           \A i \in DOMAIN rows \ DOMAIN part : rows[i].stake = 0, NEW R
    PROVE  Staked(part, R) = Staked(rows, R)
<1>1. /\ IsFiniteSet(OnThem(rows, R)) /\ Staked(rows, R) = Sum(StakeOf(rows), OnThem(rows, R))
      /\ \A i \in OnThem(rows, R) : StakeOf(rows)[i] \in Int
  BY StakedIsSum
<1>2. /\ IsFiniteSet(OnThem(part, R)) /\ Staked(part, R) = Sum(StakeOf(part), OnThem(part, R))
      /\ \A i \in OnThem(part, R) : StakeOf(part)[i] \in Int
  BY StakedIsSum
<1>3. OnThem(part, R) \in SUBSET OnThem(rows, R)
  BY DEF OnThem
<1>4. \A i \in OnThem(rows, R) \ OnThem(part, R) : StakeOf(rows)[i] = 0
  BY DEF OnThem, StakeOf
<1>5. Sum(StakeOf(rows), OnThem(rows, R)) = Sum(StakeOf(rows), OnThem(part, R))
  BY <1>1, <1>3, <1>4, SumZeros
<1>6. \A i \in OnThem(part, R) : StakeOf(part)[i] \in Int
                                 /\ StakeOf(rows)[i] = StakeOf(part)[i]
  BY <1>2 DEF OnThem, StakeOf
<1>7. Sum(StakeOf(rows), OnThem(part, R)) = Sum(StakeOf(part), OnThem(part, R))
  BY <1>2, <1>6, SumSame
<1> QED BY <1>1, <1>2, <1>5, <1>7

(* No rows stake nothing.                                                    *)
LEMMA StakedNothing == RowsOK(NoTickets) /\ \A R : Staked(NoTickets, R) = 0
<1>1. DOMAIN NoTickets = {}
  BY DEF NoTickets
<1>2. RowsOK(NoTickets)
  BY <1>1, FS_EmptySet DEF RowsOK
<1>3. ASSUME NEW R PROVE Staked(NoTickets, R) = 0
  <2>1. OnThem(NoTickets, R) = {}
    BY <1>1 DEF OnThem
  <2> QED BY <1>2, <2>1, StakedIsSum, SumEmpty
<1> QED BY <1>2, <1>3

(* A planned stake fits under both ceilings.                                 *)
LEMMA PlannedFits ==
    ASSUME NEW kelly \in Nat, NEW a \in Nat, NEW b \in Nat
    PROVE  /\ PlannedStake(kelly, a, b) \in Nat
           /\ a <= RaceCap => a + PlannedStake(kelly, a, b) <= RaceCap
           /\ b <= DayCap => b + PlannedStake(kelly, a, b) <= DayCap
<1> DEFINE ra == AtLeastZero(RaceCap - a)
<1> DEFINE da == AtLeastZero(DayCap - b)
<1>1. /\ ra \in Nat /\ (a <= RaceCap => a + ra = RaceCap)
      /\ da \in Nat /\ (b <= DayCap => b + da = DayCap)
  BY CapsAssumption DEF AtLeastZero
<1>2. BetCap \in Nat
  BY CapsAssumption
<1> DEFINE m == Min({kelly, BetCap, ra, da})
<1>3. PlannedStake(kelly, a, b) = IF m < MinStake THEN 0 ELSE m
  BY DEF PlannedStake
<1> HIDE DEF ra, da
<1>4. \E x \in {kelly, BetCap, ra, da} : \A y \in {kelly, BetCap, ra, da} : x <= y
  <2>1. \A p, q \in Nat : \E x \in {p, q} : x <= p /\ x <= q
    OBVIOUS
  <2>2. PICK x \in {kelly, BetCap} : x <= kelly /\ x <= BetCap
    BY <1>2, <2>1
  <2>3. PICK y \in {ra, da} : y <= ra /\ y <= da
    BY <1>1, <2>1
  <2>4. PICK z \in {x, y} : z <= x /\ z <= y
    BY <1>1, <1>2, <2>1
  <2>5. z \in {kelly, BetCap, ra, da} /\ z <= kelly /\ z <= BetCap /\ z <= ra /\ z <= da
    BY <1>1, <1>2, <2>2, <2>3, <2>4
  <2> QED BY <2>5
<1>5. m \in {kelly, BetCap, ra, da} /\ m <= ra /\ m <= da
  BY <1>4 DEF Min
<1> HIDE DEF m
<1>6. m \in Nat
  BY <1>1, <1>2, <1>5
<1>7. PlannedStake(kelly, a, b) \in Nat /\ PlannedStake(kelly, a, b) <= ra
      /\ PlannedStake(kelly, a, b) <= da
  BY <1>1, <1>3, <1>5, <1>6
<1> QED BY <1>1, <1>7, CapsAssumption

(* What a set of runners has in the table and in the plan of the run.        *)
Within(R, cap) == Staked(tickets, R) + Staked(planned, R) <= cap

BooksOK == RowsOK(tickets) /\ RowsOK(planned)

(* The ceilings hold of the table and the plan together: what is planned is  *)
(* only ever moved into the table.  While the run plans, its seeds are the   *)
(* candidates of the table, and no runner is planned twice.                  *)
CeilingInv ==
    /\ BooksOK
    /\ pc \notin {"plan", "issue"} => planned = NoTickets
    /\ pc = "plan" =>
          /\ run.seeds = [id \in Candidates |-> tickets[id]]
          /\ \A r \in todo : <<r, run.day>> \notin DOMAIN planned
    /\ \A race \in Races : Within(RunnersIn(race), RaceCap)
    /\ \A d \in Nat : Within(RunnersOn(d), DayCap)

(* It holds before the first run.                                            *)
LEMMA CeilingInit == Init => CeilingInv
<1> SUFFICES ASSUME Init PROVE CeilingInv
  OBVIOUS
<1>1. tickets = NoTickets /\ planned = NoTickets /\ pc = "idle"
  BY DEF Init, StoreInit
<1>2. \A R : Staked(tickets, R) = 0 /\ Staked(planned, R) = 0
  BY <1>1, StakedNothing
<1>3. BooksOK
  BY <1>1, StakedNothing DEF BooksOK
<1> QED BY <1>1, <1>2, <1>3, CapsAssumption DEF CeilingInv, Within

(* What is said of the rows alone stays true while the rows stay.            *)
LEMMA BooksStay ==
    ASSUME BooksOK, UNCHANGED <<tickets, planned>>
    PROVE  BooksOK' /\ \A R, cap : Within(R, cap)' <=> Within(R, cap)
<1>1. tickets' = tickets /\ planned' = planned
  OBVIOUS
<1>2. BooksOK'
  BY <1>1 DEF BooksOK
<1>3. ASSUME NEW R, NEW cap PROVE Within(R, cap)' <=> Within(R, cap)
  BY <1>1 DEF Within
<1> QED BY <1>2, <1>3

(* Steps that touch neither the table nor the plan.                          *)
LEMMA CeilingCarried ==
    ASSUME CeilingInv, UNCHANGED <<tickets, planned>>,
           \/ UNCHANGED <<pc, todo>> /\ run'.seeds = run.seeds /\ run'.day = run.day
           \/ pc' \notin {"plan", "issue"} /\ planned = NoTickets
           \/ pc = "plan" /\ pc' = "issue"
    PROVE  CeilingInv'
<1>1. BooksOK' /\ \A R, cap : Within(R, cap)' <=> Within(R, cap)
  BY BooksStay DEF CeilingInv
<1>2. Candidates' = Candidates
  BY DEF Candidates
<1> QED BY <1>1, <1>2 DEF CeilingInv

(* Planning a candidate, or a PASS.                                          *)
LEMMA PlanHolds ==
    ASSUME CeilingInv, NEW r \in Runners, PlanRunner(r)
    PROVE  CeilingInv'
<1> DEFINE id == <<r, run.day>>
<1>0. /\ pc = "plan" /\ r \in todo /\ pc' = "plan" /\ todo' = todo \ {r}
      /\ UNCHANGED <<tickets, run>>
  BY DEF PlanRunner, storeVars
<1>1. /\ RowsOK(tickets) /\ RowsOK(planned) /\ id \notin DOMAIN planned
      /\ run.seeds = [i \in Candidates |-> tickets[i]]
  BY <1>0 DEF CeilingInv, BooksOK
<1>2. RaceOf[r] \in Races /\ RaceDay[RaceOf[r]] \in Nat
  BY RacesAssumption DEF Races
<1>3. \A R : Staked(run.seeds, R) = Staked(tickets, R)
  <2>1. /\ DOMAIN run.seeds = Candidates /\ Candidates \subseteq DOMAIN tickets
        /\ \A i \in Candidates : run.seeds[i] = tickets[i]
        /\ \A i \in DOMAIN tickets \ Candidates : tickets[i].stake = 0
    BY <1>1 DEF Candidates, RowsOK
  <2>2. RowsOK(run.seeds)
    <3>1. IsFiniteSet(Candidates)
      BY <1>1, <2>1, FS_Subset DEF RowsOK
    <3> QED BY <1>1, <2>1, <3>1 DEF RowsOK
  <2> QED BY <1>1, <2>1, <2>2, StakedPart
<1>4. PICK row : /\ Add(r, row) /\ row.stake \in Nat
                 /\ row.decision # "CANDIDATE" => row.stake = 0
                 /\ Staked(tickets, RunnersIn(RaceOf[r]))
                      + Staked(planned, RunnersIn(RaceOf[r])) + row.stake <= RaceCap
                 /\ Staked(tickets, RunnersOn(RaceDay[RaceOf[r]]))
                      + Staked(planned, RunnersOn(RaceDay[RaceOf[r]])) + row.stake <= DayCap
  <2> DEFINE a == Exposure(RunnersIn(RaceOf[r]))
  <2> DEFINE b == Exposure(RunnersOn(RaceDay[RaceOf[r]]))
  <2>1. /\ a = Staked(tickets, RunnersIn(RaceOf[r])) + Staked(planned, RunnersIn(RaceOf[r]))
        /\ b = Staked(tickets, RunnersOn(RaceDay[RaceOf[r]]))
                 + Staked(planned, RunnersOn(RaceDay[RaceOf[r]]))
    BY <1>3 DEF Exposure
  <2>2. a \in Nat /\ b \in Nat
    <3>1. \A R : Staked(tickets, R) \in Nat /\ Staked(planned, R) \in Nat
      BY <1>1, StakedIsSum
    <3> QED BY <2>1, <3>1
  <2>3. a <= RaceCap /\ b <= DayCap
    BY <1>2, <2>1 DEF CeilingInv, Within
  <2>4. ASSUME NEW decision, NEW stake \in Nat, NEW priced,
               decision # "CANDIDATE" => stake = 0
        PROVE  /\ Row(r, decision, stake, priced).stake = stake
               /\ Row(r, decision, stake, priced).decision = decision
    BY DEF Row
  <2>5. CASE \E priced \in PassPrices : Add(r, Row(r, "PASS", 0, priced))
    <3>1. PICK priced \in PassPrices : Add(r, Row(r, "PASS", 0, priced))
      BY <2>5
    <3>2. Row(r, "PASS", 0, priced).stake = 0
      BY <2>4
    <3>3. a + 0 <= RaceCap /\ b + 0 <= DayCap
      BY <2>2, <2>3
    <3> HIDE DEF a, b
    <3> QED BY <2>1, <3>1, <3>2, <3>3
  <2>6. CASE \E kelly \in Kellys :
                Add(r, Row(r, "CANDIDATE", PlannedStake(kelly, a, b), TRUE))
    <3>1. PICK kelly \in Kellys :
                Add(r, Row(r, "CANDIDATE", PlannedStake(kelly, a, b), TRUE))
      BY <2>6
    <3>2. kelly \in Nat
      BY LoopAssumption
    <3> HIDE DEF a, b
    <3>3. /\ PlannedStake(kelly, a, b) \in Nat
          /\ a + PlannedStake(kelly, a, b) <= RaceCap
          /\ b + PlannedStake(kelly, a, b) <= DayCap
      BY <2>2, <2>3, <3>2, PlannedFits
    <3>4. /\ Row(r, "CANDIDATE", PlannedStake(kelly, a, b), TRUE).stake
               = PlannedStake(kelly, a, b)
          /\ Row(r, "CANDIDATE", PlannedStake(kelly, a, b), TRUE).decision = "CANDIDATE"
      BY <2>4, <3>3
    <3> QED BY <2>1, <3>1, <3>3, <3>4
  <2> QED BY <2>5, <2>6 DEF PlanRunner
<1>5. /\ DOMAIN planned' = DOMAIN planned \cup {id} /\ planned'[id] = row
      /\ \A i \in DOMAIN planned : planned'[i] = planned[i]
  BY <1>1, <1>4 DEF Add
<1>6. PICK new : new = planned'
  OBVIOUS
<1>7. RowsOK(new)
  <2>1. IsFiniteSet(DOMAIN new)
    BY <1>1, <1>5, <1>6, FS_AddElement DEF RowsOK
  <2> QED BY <1>1, <1>4, <1>5, <1>6, <2>1 DEF RowsOK
<1>8. \A R : Staked(new, R) = Staked(planned, R) + (IF r \in R THEN row.stake ELSE 0)
  <2>1. PICK key : key = id
    OBVIOUS
  <2>2. /\ DOMAIN new = DOMAIN planned \cup {key} /\ key \notin DOMAIN planned
        /\ \A i \in DOMAIN planned : new[i].stake = planned[i].stake
        /\ key[1] = r /\ new[key].stake = row.stake
    BY <1>1, <1>5, <1>6, <2>1
  <2> QED BY <1>1, <1>7, <2>2, StakedOneMore
<1>9. ASSUME NEW R, NEW cap \in Nat, Within(R, cap),
             r \in R => Staked(tickets, R) + Staked(planned, R) + row.stake <= cap
      PROVE  Within(R, cap)'
  <2>1. /\ Staked(tickets, R) \in Nat /\ Staked(planned, R) \in Nat
        /\ Staked(new, R) = Staked(planned, R) + (IF r \in R THEN row.stake ELSE 0)
    BY <1>1, <1>8, StakedIsSum
  <2>2. Staked(tickets, R) + Staked(new, R) <= cap
    BY <1>4, <1>9, <2>1 DEF Within
  <2> QED BY <1>0, <1>6, <2>2 DEF Within
<1>10. ASSUME NEW race \in Races PROVE Within(RunnersIn(race), RaceCap)'
  <2>1. Within(RunnersIn(race), RaceCap) /\ (r \in RunnersIn(race) => race = RaceOf[r])
    BY DEF CeilingInv, RunnersIn
  <2> QED BY <1>4, <1>9, <2>1, CapsAssumption
<1>11. ASSUME NEW d \in Nat PROVE Within(RunnersOn(d), DayCap)'
  <2>1. Within(RunnersOn(d), DayCap)
        /\ (r \in RunnersOn(d) => d = RaceDay[RaceOf[r]])
    BY DEF CeilingInv, RunnersOn
  <2> QED BY <1>4, <1>9, <2>1, CapsAssumption
<1>12. BooksOK'
  BY <1>0, <1>1, <1>6, <1>7 DEF BooksOK
<1>13. \A s \in todo' : <<s, run'.day>> \notin DOMAIN planned'
  <2>1. \A s \in todo' : s # r /\ <<s, run.day>> \notin DOMAIN planned
    BY <1>0 DEF CeilingInv
  <2> QED BY <1>0, <1>5, <2>1
<1>14. Candidates' = Candidates /\ tickets' = tickets /\ run' = run
  BY <1>0 DEF Candidates
<1> QED BY <1>0, <1>1, <1>10, <1>11, <1>12, <1>13, <1>14 DEF CeilingInv

(* Issuing a planned ticket, or finding it issued already.                   *)
LEMMA IssueHolds ==
    ASSUME CeilingInv, NEW id \in TicketIds, Issue(id)
    PROVE  CeilingInv'
<1>0. /\ pc = "issue" /\ pc' = "issue" /\ id \in DOMAIN planned
      /\ RowsOK(tickets) /\ RowsOK(planned)
      /\ planned' = [i \in DOMAIN planned \ {id} |-> planned[i]]
      /\ IssueTicket(id, planned[id])
  BY DEF Issue, CeilingInv, BooksOK
<1>1. PICK left : left = [i \in DOMAIN planned \ {id} |-> planned[i]]
  OBVIOUS
<1>2. RowsOK(left)
  <2>1. IsFiniteSet(DOMAIN planned \ {id})
    BY <1>0, FS_RemoveElement DEF RowsOK
  <2> QED BY <1>0, <1>1, <2>1 DEF RowsOK
<1>3. \A R : Staked(planned, R)
               = Staked(left, R) + (IF id[1] \in R THEN planned[id].stake ELSE 0)
  <2>1. /\ DOMAIN planned = DOMAIN left \cup {id} /\ id \notin DOMAIN left
        /\ \A i \in DOMAIN left : planned[i].stake = left[i].stake
    BY <1>0, <1>1
  <2> QED BY <1>0, <1>2, <2>1, StakedOneMore
<1>4. planned[id].stake \in Nat
  BY <1>0 DEF RowsOK
<1>5. \A R : Staked(left, R) \in Nat /\ Staked(tickets, R) \in Nat
  BY <1>0, <1>2, StakedIsSum
<1>6. PICK table : table = tickets'
  OBVIOUS
<1>7. RowsOK(table) /\ \A R : Staked(table, R) + Staked(left, R)
                                 <= Staked(tickets, R) + Staked(planned, R)
  <2>1. CASE id \in DOMAIN tickets
    <3>1. table = tickets
      BY <1>0, <1>6, <2>1 DEF IssueTicket
    <3>2. \A R : Staked(tickets, R) + Staked(left, R)
                    <= Staked(tickets, R) + Staked(planned, R)
      BY <1>3, <1>4, <1>5
    <3> QED BY <1>0, <3>1, <3>2
  <2>2. CASE id \notin DOMAIN tickets
    <3>1. /\ DOMAIN table = DOMAIN tickets \cup {id} /\ table[id] = planned[id]
          /\ \A i \in DOMAIN tickets : table[i] = tickets[i]
      BY <1>0, <1>6, <2>2 DEF IssueTicket
    <3>2. RowsOK(table)
      <4>1. IsFiniteSet(DOMAIN table)
        BY <1>0, <3>1, FS_AddElement DEF RowsOK
      <4> QED BY <1>0, <3>1, <4>1 DEF RowsOK
    <3>3. \A R : Staked(table, R)
                   = Staked(tickets, R) + (IF id[1] \in R THEN planned[id].stake ELSE 0)
      BY <1>0, <2>2, <3>1, <3>2, StakedOneMore
    <3>4. \A R : Staked(table, R) + Staked(left, R)
                    <= Staked(tickets, R) + Staked(planned, R)
      BY <1>3, <1>4, <1>5, <3>3
    <3> QED BY <3>2, <3>4
  <2> QED BY <2>1, <2>2
<1>8. ASSUME NEW R, NEW cap \in Nat, Within(R, cap) PROVE Within(R, cap)'
  <2>1. /\ Staked(table, R) \in Nat /\ Staked(left, R) \in Nat
        /\ Staked(tickets, R) \in Nat /\ Staked(planned, R) \in Nat
    BY <1>0, <1>2, <1>7, StakedIsSum
  <2>2. Staked(table, R) + Staked(left, R) <= cap
    BY <1>7, <1>8, <2>1 DEF Within
  <2> QED BY <1>0, <1>1, <1>6, <2>2 DEF Within
<1>9. BooksOK'
  BY <1>0, <1>1, <1>2, <1>6, <1>7 DEF BooksOK
<1> QED BY <1>0, <1>8, <1>9, CapsAssumption DEF CeilingInv

(* Settling a ticket keeps its stake.                                        *)
LEMMA SettleHolds ==
    ASSUME CeilingInv, pc \notin {"plan", "issue"}, NEW id \in TicketIds, Resolve(id)
    PROVE  CeilingInv'
<1>0. /\ UNCHANGED <<pc, planned>> /\ RowsOK(tickets) /\ RowsOK(planned)
  BY DEF Resolve, CeilingInv, BooksOK
<1>1. PICK table : table = tickets'
  OBVIOUS
<1>2. /\ DOMAIN table = DOMAIN tickets
      /\ \A i \in DOMAIN tickets : /\ table[i].stake = tickets[i].stake
                                   /\ table[i].decision = tickets[i].decision
  <2>1. CASE tickets' = tickets
    BY <1>1, <2>1
  <2>2. ASSUME NEW outcome, SettleTicket(id, outcome), tickets' # tickets
        PROVE  /\ DOMAIN table = DOMAIN tickets
               /\ \A i \in DOMAIN tickets : /\ table[i].stake = tickets[i].stake
                                            /\ table[i].decision = tickets[i].decision
    BY <1>1, <2>2 DEF SettleTicket, storeVars
  <2> QED BY <2>1, <2>2 DEF Resolve, storeVars
<1>3. RowsOK(table)
  BY <1>0, <1>2 DEF RowsOK
<1>4. \A R : Staked(table, R) = Staked(tickets, R)
  BY <1>0, <1>2, <1>3, StakedPart
<1>5. \A R, cap : Within(R, cap) => Within(R, cap)'
  BY <1>0, <1>1, <1>4 DEF Within
<1>6. BooksOK'
  BY <1>0, <1>1, <1>3 DEF BooksOK
<1> QED BY <1>0, <1>5, <1>6 DEF CeilingInv

(* Every step keeps it: the plan is sized once the seeds have been read.     *)
LEMMA CeilingNext ==
    ASSUME ~SeedingMayFail, WeeksInv, CeilingInv, [Next]_vars
    PROVE  CeilingInv'
<1>0. DOMAIN run = RunFields
  BY DEF WeeksInv
<1>1. CASE World \/ UNCHANGED vars
  <2>1. UNCHANGED <<tickets, planned, pc, todo, run>>
    BY <1>1 DEF World, Midnight, Retrain, Start, PollBoard, Predict, RaceOff, Publish,
       vars, storeVars, loopVars
  <2> QED BY <2>1, CeilingCarried
<1>2. CASE Begin \/ Capture \/ Record \/ Verify \/ Reconcile \/ EndRefresh
           \/ EndSettle \/ EndObserve \/ Report
  <2>1. /\ UNCHANGED <<tickets, planned>>
        /\ pc \notin {"plan", "issue"} /\ pc' \notin {"plan", "issue"}
    BY <1>2 DEF Begin, Capture, Record, Verify, Reconcile, EndRefresh, EndSettle,
       EndObserve, Report, Goto, storeVars
  <2>2. planned = NoTickets
    BY <2>1 DEF CeilingInv
  <2> QED BY <2>1, <2>2, CeilingCarried
<1>3. CASE EndIssue
  <2>1. /\ UNCHANGED <<tickets, planned>> /\ planned = NoTickets
        /\ pc' \notin {"plan", "issue"}
    BY <1>3 DEF EndIssue, Goto, storeVars
  <2> QED BY <2>1, CeilingCarried
<1>4. CASE EndPlan
  <2>1. UNCHANGED <<tickets, planned>> /\ pc = "plan" /\ pc' = "issue"
    BY <1>4 DEF EndPlan, Goto, storeVars
  <2> QED BY <2>1, CeilingCarried
<1>5. CASE Gate
  <2>1. /\ UNCHANGED <<tickets, planned>> /\ pc = "gate" /\ pc' = "plan"
        /\ run' = [run EXCEPT !.card = card,
                              !.seeds = [id \in Candidates |-> tickets[id]]]
    BY <1>5 DEF Gate, Goto, storeVars
  <2>2. run'.seeds = [id \in Candidates |-> tickets[id]]
    BY <1>0, <2>1 DEF RunFields
  <2>3. DOMAIN planned' = {}
    BY <2>1 DEF CeilingInv, NoTickets
  <2>4. BooksOK' /\ \A R, cap : Within(R, cap)' <=> Within(R, cap)
    BY <2>1, BooksStay DEF CeilingInv
  <2>5. Candidates' = Candidates
    BY <2>1 DEF Candidates
  <2> QED BY <2>1, <2>2, <2>3, <2>4, <2>5 DEF CeilingInv
<1>6. CASE Crash
  <2>1. /\ UNCHANGED tickets /\ planned' = NoTickets /\ pc' = "idle"
    BY <1>6 DEF Crash
  <2>2. \A R : /\ Staked(tickets, R) \in Nat /\ Staked(planned, R) \in Nat
               /\ Staked(NoTickets, R) = 0
    BY StakedIsSum, StakedNothing DEF CeilingInv, BooksOK
  <2>3. ASSUME NEW R, NEW cap \in Nat, Within(R, cap) PROVE Within(R, cap)'
    <3>1. Staked(tickets, R) + Staked(NoTickets, R) <= cap
      BY <2>2, <2>3 DEF Within
    <3> QED BY <2>1, <3>1 DEF Within
  <2>4. BooksOK'
    BY <2>1, StakedNothing DEF CeilingInv, BooksOK
  <2> QED BY <2>1, <2>3, <2>4, CapsAssumption DEF CeilingInv
<1>7. ASSUME NEW id \in TicketIds, Settle(id) \/ Observe(id) PROVE CeilingInv'
  BY <1>7, SettleHolds DEF Settle, Observe
<1> QED
  BY <1>1, <1>2, <1>3, <1>4, <1>5, <1>6, <1>7, PlanHolds, IssueHolds DEF Next, RunStep

(* Whatever runs were killed, repeated or interrupted halfway through their  *)
(* tickets, and whatever was issued before: what the table holds on a race   *)
(* and on a day stays within the ceilings, as long as reading the stored     *)
(* stakes does not fail.                                                     *)
THEOREM CeilingsAreKept ==
    ASSUME ~SeedingMayFail
    PROVE  Spec => []CeilingsHold
<1>1. CeilingInv => CeilingsHold
  <2> SUFFICES ASSUME CeilingInv PROVE CeilingsHold
    OBVIOUS
  <2>1. \A R : Staked(tickets, R) \in Nat /\ Staked(planned, R) \in Nat
    BY StakedIsSum DEF CeilingInv, BooksOK
  <2>2. \A R : \A cap \in Nat : Within(R, cap) => Staked(tickets, R) <= cap
    BY <2>1 DEF Within
  <2>3. Days \subseteq Nat
    BY DEF Days
  <2> QED BY <2>2, <2>3, CapsAssumption DEF CeilingInv, CeilingsHold
<1> QED BY <1>1, WeeksInit, WeeksNext, CeilingInit, CeilingNext, PTL DEF Spec
===============================================================================
