------------------------------- MODULE PaperLoop -------------------------------
(***************************************************************************)
(* scripts/daily_paper_loop.py: one run of the daily loop, step by step,   *)
(* over the forward window and the gap ledger (ForwardWindow) and the      *)
(* ticket table (TicketStore), while days pass, cards are predicted, races *)
(* go off, results are published, models are retrained, and the run may be *)
(* killed between any two steps and started again.                         *)
(*                                                                         *)
(* The steps of a run, in pc order: capture, record, verify, reconcile,    *)
(* gate, plan, issue, refresh, settle, observe, report.                    *)
(***************************************************************************)
EXTENDS ForwardWindow, TicketStore

CONSTANTS Kellys,         \* fractional Kelly stakes of the candidates
          SeedingMayFail, \* whether reading the stored stakes may fail
          MaxCrashes,     \* bound on the runs that are killed
          PollDays,       \* days on which a poll of the board can succeed
          StartDays,      \* days on which somebody starts the window
          Reported,       \* runners whose results arrive
          Provenance,     \* whether a card records its inputs: subset of BOOLEAN
          PassPrices      \* whether a PASS has a price: subset of BOOLEAN

ASSUME LoopAssumption == /\ TicketDays = Days
                         /\ PollDays \subseteq Days
                         /\ StartDays \subseteq Days
                         /\ Reported \subseteq Runners
                         /\ Provenance \subseteq BOOLEAN
                         /\ PassPrices \subseteq BOOLEAN
                         /\ Kellys \subseteq Nat
                         /\ SeedingMayFail \in BOOLEAN
                         /\ MaxCrashes \in Nat

VARIABLES
    card,      \* predictions.json: the day it was generated for, its runners,
               \* the inputs it was predicted with, whether all are recorded
    started,   \* races that have gone off
    feed,      \* per runner: the results on disk
    pc,        \* the step the loop is at
    run,       \* what the run read at its earlier steps
    todo,      \* runners still to plan, or tickets still to settle
    planned,   \* the tickets built and not yet issued
    view,      \* the results as the settling step read them
    report,    \* the last forward_validation report
    crashes    \* runs killed so far

loopVars == <<card, started, feed, pc, run, todo, planned, view, report, crashes>>
vars == <<windowVars, storeVars, loopVars>>

NoCard == [day |-> NoDay, runners |-> {}, inputs |-> {}, complete |-> FALSE]
(* betsp rows (a position may be missing at first, and a second fetch may    *)
(* disagree with the first) and the archive's explicit non-runners.          *)
Evidence == {"absent", "placeholder", "first", "beaten", "ambiguous", "withdrawn"}
NoEvidence == [r \in Runners |-> "absent"]
NoRun == [day |-> NoDay, off |-> {}, win |-> FreshWindow, weeks |-> {},
          card |-> NoCard, seeds |-> NoTickets]
NoReport == [day |-> NoDay, win |-> FreshWindow, weeks |-> {}, counted |-> {}]

Init == /\ WindowInit
        /\ StoreInit
        /\ card = NoCard
        /\ started = {}
        /\ feed = NoEvidence
        /\ pc = "idle"
        /\ run = NoRun
        /\ todo = {}
        /\ planned = NoTickets
        /\ view = NoEvidence
        /\ report = NoReport
        /\ crashes = 0

HasStarted(race) == RaceDay[race] < today \/ race \in started

-------------------------------------------------------------------------------
(* The world around the loop. *)

Midnight == NextDay /\ UNCHANGED <<storeVars, loopVars>>
Retrain == ChangeInputs /\ UNCHANGED <<storeVars, loopVars>>
Start == today \in StartDays /\ StartWindow /\ UNCHANGED <<storeVars, loopVars>>

(* Another process polls the board: its rows go to the same database, so it  *)
(* needs the write lock.                                                     *)
PollBoard == today \in PollDays /\ ~writer /\ Poll /\ UNCHANGED <<storeVars, loopVars>>

(* The prediction pipeline replaces predictions.json with today's card. *)
Predict ==
    /\ card' \in [day : {today}, runners : {RunnersOn(today)},
                  inputs : {{frozen}}, complete : Provenance]
    /\ card' # card
    /\ UNCHANGED <<windowVars, storeVars, started, feed, pc, run, todo, planned,
                   view, report, crashes>>

RaceOff(race) ==
    /\ race \in Races \ started
    /\ RaceDay[race] = today
    /\ started' = started \cup {race}
    /\ UNCHANGED <<windowVars, storeVars, card, feed, pc, run, todo, planned,
                   view, report, crashes>>

(* A result arrives; a missing position is filled in; a re-fetch disagrees.  *)
NextEvidence(e) == CASE e = "absent" -> {"placeholder", "first", "beaten", "withdrawn"}
                     [] e = "placeholder" -> {"first", "beaten"}
                     [] e \in {"first", "beaten"} -> {"ambiguous"}
                     [] OTHER -> {}
Publish(r) ==
    /\ r \in Reported
    /\ HasStarted(RaceOf[r])
    /\ \E e \in NextEvidence(feed[r]) : feed' = [feed EXCEPT ![r] = e]
    /\ UNCHANGED <<windowVars, storeVars, card, started, pc, run, todo, planned,
                   view, report, crashes>>

World == \/ Midnight \/ Retrain \/ Start \/ PollBoard \/ Predict
         \/ \E race \in Races : RaceOff(race)
         \/ \E r \in Runners : Publish(r)

-------------------------------------------------------------------------------
(* The run. *)

Goto(from, to) == pc = from /\ pc' = to

(* run takes its timestamp, the decision instant of the whole run, first. *)
Begin ==
    /\ Goto("idle", "capture")
    /\ run' = [NoRun EXCEPT !.day = today, !.off = {x \in Races : HasStarted(x)}]
    /\ UNCHANGED <<windowVars, storeVars, card, started, feed, todo, planned,
                   view, report, crashes>>

(* _capture: rows reach the snapshot store or do not; never an error. *)
Capture ==
    /\ Goto("capture", "record")
    /\ \/ today \in PollDays /\ Poll
       \/ UNCHANGED windowVars
    /\ UNCHANGED <<storeVars, card, started, feed, run, todo, planned, view,
                   report, crashes>>

(* _record_gap_ledger; _today_has_races does not ask which day's card it is. *)
Record ==
    /\ Goto("record", "verify")
    /\ RecordDay(run.day, card.runners # {})
    /\ UNCHANGED <<storeVars, card, started, feed, run, todo, planned, view,
                   report, crashes>>

Verify ==
    /\ Goto("verify", "reconcile")
    /\ VerifyWindow(run.day)
    /\ run' = [run EXCEPT !.win = Verified(run.day)]
    /\ UNCHANGED <<storeVars, card, started, feed, todo, planned, view, report,
                   crashes>>

(* Variant: the days before the start of the window count. *)
ReconcileAllWeeks ==
    /\ Goto("reconcile", "gate")
    /\ IF run.win.start # NoDay THEN ReconcileGaps(run.win.start, run.day)
                                ELSE UNCHANGED windowVars
    /\ run' = [run EXCEPT !.weeks = {d \in DOMAIN days' : days'[d] = Captured}]
    /\ UNCHANGED <<storeVars, card, started, feed, todo, planned, view, report,
                   crashes>>

(* The gaps are reconciled once a window runs; the days that count are those *)
(* of the ledger from its start on, all of them without a start.             *)
Reconcile ==
    /\ Goto("reconcile", "gate")
    /\ IF run.win.start # NoDay THEN ReconcileGaps(run.win.start, run.day)
                                ELSE UNCHANGED windowVars
    /\ run' = [run EXCEPT !.weeks =
                  {d \in DOMAIN days' : days'[d] = Captured /\ d >= run.win.start}]
    /\ UNCHANGED <<storeVars, card, started, feed, todo, planned, view, report,
                   crashes>>

(* _today_tickets reads the card, rejects it when it is not of the run's     *)
(* day, and seeds the exposure with every candidate stored; a failure to     *)
(* read them seeds it with nothing.                                          *)
Gate ==
    /\ Goto("gate", "plan")
    /\ todo' = IF card.day = run.day THEN card.runners ELSE {}
    /\ \/ run' = [run EXCEPT !.card = card,
                              !.seeds = [id \in Candidates |-> tickets[id]]]
       \/ SeedingMayFail /\ run' = [run EXCEPT !.card = card]
    /\ UNCHANGED <<windowVars, storeVars, card, started, feed, planned, view,
                   report, crashes>>

(* Variant: the stakes planned before in this run are forgotten. *)
ExposureSeedsOnly(runners) == Staked(run.seeds, runners)

(* Verdict, price, edge and the like decide CANDIDATE or PASS; a race that   *)
(* is off at the decision instant is never a candidate.  A candidate's stake *)
(* is planned on top of the seeds and of the stakes planned before it.       *)
Exposure(runners) == Staked(run.seeds, runners) + Staked(planned, runners)
Row(r, decision, stake, priced) ==
    [decision |-> decision, stake |-> stake, priced |-> priced,
     complete |-> run.card.complete, inputs |-> run.card.inputs, outcome |-> Open]
Add(r, row) ==
    planned' = [i \in DOMAIN planned \cup {<<r, run.day>>} |->
                   IF i = <<r, run.day>> THEN row ELSE planned[i]]
PlanRunner(r) ==
    /\ pc = "plan" /\ r \in todo
    /\ todo' = todo \ {r}
    /\ \/ \E priced \in PassPrices : Add(r, Row(r, "PASS", 0, priced))
       \/ /\ RaceOf[r] \notin run.off
          /\ \E kelly \in Kellys :
                Add(r, Row(r, "CANDIDATE",
                           PlannedStake(kelly,
                                        Exposure(RunnersIn(RaceOf[r])),
                                        Exposure(RunnersOn(RaceDay[RaceOf[r]]))),
                           TRUE))
    /\ UNCHANGED <<windowVars, storeVars, card, started, feed, pc, run, view,
                   report, crashes>>
EndPlan ==
    /\ todo = {}
    /\ Goto("plan", "issue")
    /\ run' = [run EXCEPT !.card = NoCard, !.seeds = NoTickets]
    /\ UNCHANGED <<windowVars, storeVars, card, started, feed, todo, planned,
                   view, report, crashes>>

(* _issue_tickets: one row at a time, a duplicate is counted and skipped. *)
Issue(id) ==
    /\ pc = "issue" /\ id \in DOMAIN planned
    /\ IssueTicket(id, planned[id])
    /\ planned' = [i \in DOMAIN planned \ {id} |-> planned[i]]
    /\ UNCHANGED <<windowVars, card, started, feed, pc, run, todo, view, report,
                   crashes>>
EndIssue ==
    /\ planned = NoTickets
    /\ Goto("issue", "refresh")
    /\ UNCHANGED <<windowVars, storeVars, card, started, feed, run, todo, planned,
                   view, report, crashes>>

(* Variant: only tickets of earlier days are settled. *)
EndRefreshYesterday ==
    /\ Goto("refresh", "settle")
    /\ todo' = {id \in OpenTickets : id[2] < run.day}
    /\ view' = feed
    /\ UNCHANGED <<windowVars, storeVars, card, started, feed, run, planned,
                   report, crashes>>

(* _refresh_results_archive waits for the network (results arrive meanwhile  *)
(* by Publish); then the open tickets and the results are read, once.        *)
EndRefresh ==
    /\ Goto("refresh", "settle")
    /\ todo' = OpenTickets
    /\ view' = feed
    /\ UNCHANGED <<windowVars, storeVars, card, started, feed, run, planned,
                   report, crashes>>

(* Variant: a missing position refunds the stake. *)
OutcomeRefund(e) == CASE e = "first" -> "won"
                      [] e = "beaten" -> "lost"
                      [] e \in {"placeholder", "withdrawn"} -> "void"

Outcome(e) == CASE e = "first" -> "won"
                [] e \in {"beaten", "placeholder"} -> "lost"
                [] e = "withdrawn" -> "void"
Settles(e) == e \in {"first", "beaten", "placeholder", "withdrawn"}

(* _settle_open_tickets and _observe_pass_tickets, one ticket: nothing is    *)
(* settled without a result or from two that disagree.                       *)
Resolve(id) ==
    /\ todo' = todo \ {id}
    /\ IF Settles(view[id[1]]) THEN SettleTicket(id, Outcome(view[id[1]]))
                               ELSE UNCHANGED storeVars
    /\ UNCHANGED <<windowVars, card, started, feed, pc, run, planned, view,
                   report, crashes>>
Settle(id) == pc = "settle" /\ id \in todo /\ Resolve(id)
EndSettle ==
    /\ todo = {}
    /\ Goto("settle", "observe")
    /\ todo' = UnobservedPasses
    /\ view' = feed
    /\ UNCHANGED <<windowVars, storeVars, card, started, feed, run, planned,
                   report, crashes>>
Observe(id) == pc = "observe" /\ id \in todo /\ Resolve(id)
EndObserve ==
    /\ todo = {}
    /\ Goto("observe", "report")
    /\ view' = NoEvidence
    /\ UNCHANGED <<windowVars, storeVars, card, started, feed, run, todo, planned,
                   report, crashes>>

(* _forward_ledger: every settled candidate whose provenance is complete. *)
Qualified == {id \in Candidates : tickets[id].outcome # Open /\ tickets[id].complete}

(* The stores are closed, which rolls an open transaction back. *)
Report ==
    /\ Goto("report", "idle")
    /\ report' = [day |-> run.day, win |-> run.win, weeks |-> run.weeks,
                  counted |-> Qualified]
    /\ run' = NoRun
    /\ writer' = FALSE
    /\ UNCHANGED <<windowVars, tickets, card, started, feed, todo, planned, view,
                   crashes>>

(* The run is killed; what it committed stays. *)
Crash ==
    /\ pc # "idle" /\ crashes < MaxCrashes
    /\ crashes' = crashes + 1
    /\ pc' = "idle"
    /\ run' = NoRun
    /\ todo' = {}
    /\ planned' = NoTickets
    /\ view' = NoEvidence
    /\ writer' = FALSE
    /\ UNCHANGED <<windowVars, tickets, card, started, feed, report>>

RunStep == \/ Capture \/ Record \/ Verify \/ Reconcile \/ Gate
           \/ \E r \in Runners : PlanRunner(r)
           \/ EndPlan
           \/ \E id \in TicketIds : Issue(id) \/ Settle(id) \/ Observe(id)
           \/ EndIssue \/ EndRefresh \/ EndSettle \/ EndObserve \/ Report

Next == World \/ Begin \/ RunStep \/ Crash

Spec == Init /\ [][Next]_vars

(* daily_paper_loop.cmd is scheduled, and a run that is not killed goes on.  *)
FairSpec == Spec /\ WF_vars(Begin) /\ WF_vars(RunStep)

-------------------------------------------------------------------------------
(* Properties. *)

(* Whatever runs were killed, repeated or gated differently, what the table  *)
(* holds on one race and on one day stays within the frozen ceilings.        *)
CeilingsHold ==
    /\ \A race \in Races : Staked(tickets, RunnersIn(race)) <= RaceCap
    /\ \A d \in Days : Staked(tickets, RunnersOn(d)) <= DayCap

(* The audit trail is append-only: a ticket is never removed or re-decided,  *)
(* and its outcome, once written, never changes.                             *)
Decided(row) == <<row.decision, row.stake, row.priced, row.complete, row.inputs>>
TicketsAppendOnly ==
    [][\A id \in DOMAIN tickets :
         /\ id \in DOMAIN tickets'
         /\ Decided(tickets'[id]) = Decided(tickets[id])
         /\ tickets[id].outcome # Open =>
              tickets'[id].outcome = tickets[id].outcome]_vars

(* No ticket is settled without a result of its own race: a win was a first  *)
(* place (a later fetch may dispute it), a void was an explicit non-runner,  *)
(* and a runner missing from the results stays pending.                      *)
Supports(e, result) ==
    /\ result = "won"  => e \in {"first", "ambiguous"}
    /\ result = "void" => e = "withdrawn"
    /\ result = "lost" => e \notin {"absent", "withdrawn"}
SettledOnEvidence ==
    \A id \in DOMAIN tickets : Supports(feed[id[1]], tickets[id].outcome)

(* A bet whose race has a result is settled by one of the scheduled runs,    *)
(* unless a second fetch disputes the result first.                          *)
SettledEventually ==
    \A id \in TicketIds :
        (id \in OpenTickets /\ Settles(feed[id[1]]))
        ~> (id \notin OpenTickets \/ feed[id[1]] = "ambiguous")

(* The weeks a report claims are days with rows in the snapshot store, none  *)
(* before the start of its window and none after it was written.             *)
WeeksAreEvidence ==
    report.weeks \subseteq snapDays \cap (report.win.start)..report.day

(* When a run reports, every day of its window up to its own has an entry:   *)
(* a day nothing ran on is a recorded gap, not a silent quiet day.           *)
NoSilentGap ==
    (pc = "report" /\ run.win.start # NoDay)
        => (run.win.start)..(run.day) \subseteq DOMAIN days

(* "a retrain ... invalidates prior evidence mechanically": the bets counted *)
(* under a running window were all predicted with its frozen inputs.         *)
EvidenceUnderOneInput ==
    report.win.start # NoDay =>
        \A id \in report.counted : tickets[id].inputs = report.win.hashes
===============================================================================
