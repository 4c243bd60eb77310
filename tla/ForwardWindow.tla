----------------------------- MODULE ForwardWindow -----------------------------
(***************************************************************************)
(* execution/window.py and execution/gap_ledger.py: the forward-validation *)
(* window, frozen against the hashes of its inputs, and the day-by-day     *)
(* record of which days had capture.  Both are JSON files replaced whole.  *)
(*                                                                         *)
(* The module gives the state, the operations on it and a specification in *)
(* which they are called in any order; PaperLoop calls them in the order   *)
(* of the daily loop.                                                      *)
(***************************************************************************)
EXTENDS Integers, FiniteSets

CONSTANTS Inputs,     \* combinations of model files, selection lock and config
          MaxDay      \* bound on the days that pass

ASSUME InputsAssumption == Inputs # {}
ASSUME MaxDayAssumption == MaxDay \in Nat \ {0}

VARIABLES
    today,       \* the current date
    frozen,      \* the inputs on disk now
    snapDays,    \* days with at least one row in odds_snapshots
    window,      \* forward_window.json
    days         \* gap_ledger.json: the recorded days and their status

windowVars == <<today, frozen, snapDays, window, days>>

Days == 1..MaxDay
NoDay == 0                       \* a window_start of None
Captured == "captured"
Causes == {"no_racing", "scraper_outage", "no_run_recorded"}

(* What load_window returns for a missing or unreadable file. *)
FreshWindow == [status |-> "not_started", start |-> NoDay, hashes |-> {}]
(* WindowState.running *)
Running == window.status \in {"running", "reset"}

WindowInit ==
    /\ today = 1
    /\ frozen \in Inputs
    /\ snapDays = {}
    /\ window = FreshWindow
    /\ days = [d \in {} |-> Captured]

-------------------------------------------------------------------------------
(* The world around the two files. *)

(* Midnight, whether or not anything ran that day. *)
NextDay ==
    /\ today < MaxDay
    /\ today' = today + 1
    /\ UNCHANGED <<frozen, snapDays, window, days>>

(* A retrain, a new selection lock, or an edit of the execution config. *)
ChangeInputs ==
    /\ frozen' \in Inputs \ {frozen}
    /\ UNCHANGED <<today, snapDays, window, days>>

(* A poll of the board leaves snapshot rows. *)
Poll ==
    /\ snapDays' = snapDays \cup {today}
    /\ UNCHANGED <<today, frozen, window, days>>

(* Either file goes missing or turns unreadable. *)
LoseWindow ==
    /\ window # FreshWindow
    /\ window' = FreshWindow
    /\ UNCHANGED <<today, frozen, snapDays, days>>
LoseLedger ==
    /\ days' = [d \in {} |-> Captured]
    /\ days # days'
    /\ UNCHANGED <<today, frozen, snapDays, window>>

-------------------------------------------------------------------------------
(* window.py *)

(* start_window: a no-op once a window runs. *)
StartWindow ==
    /\ ~Running
    /\ window' = [status |-> "running", start |-> today, hashes |-> {frozen}]
    /\ UNCHANGED <<today, frozen, snapDays, days>>

(* Variant: a reset clears the start. *)
VerifiedNoStart(d) == IF Running /\ window.hashes # {frozen}
                      THEN [status |-> "reset", start |-> NoDay, hashes |-> {frozen}]
                      ELSE window

(* Variant: a change of inputs keeps the start. *)
VerifiedKeepStart(d) == IF Running /\ window.hashes # {frozen}
                        THEN [status |-> "reset", start |-> window.start,
                              hashes |-> {frozen}]
                        ELSE window

(* verify_window on day d: nothing to do before the start or when the hashes *)
(* agree; any difference restarts the window on that day.                    *)
Verified(d) == IF Running /\ window.hashes # {frozen}
               THEN [status |-> "reset", start |-> d, hashes |-> {frozen}]
               ELSE window
VerifyWindow(d) ==
    /\ window' = Verified(d)
    /\ UNCHANGED <<today, frozen, snapDays, days>>

-------------------------------------------------------------------------------
(* gap_ledger.py *)

Put(d, status) == [e \in DOMAIN days \cup {d} |-> IF e = d THEN status ELSE days[e]]

(* Variant: a day counts as captured because the step ran with a card. *)
RecordDayUnproved(d, racesListed) ==
    /\ days' = IF d \in DOMAIN days /\ days[d] = Captured THEN days
               ELSE Put(d, IF racesListed THEN Captured ELSE "no_racing")
    /\ UNCHANGED <<today, frozen, snapDays, window>>

(* record_day: captured is sticky, anything else is overwritten.  The day    *)
(* counts as captured when the snapshot store has a row for it, else the     *)
(* cause says whether predictions.json listed any race.                      *)
RecordDay(d, racesListed) ==
    /\ days' = IF d \in DOMAIN days /\ days[d] = Captured THEN days
               ELSE IF d \in snapDays THEN Put(d, Captured)
               ELSE Put(d, IF racesListed THEN "scraper_outage" ELSE "no_racing")
    /\ UNCHANGED <<today, frozen, snapDays, window>>

(* Variant: the first day of the window is skipped. *)
MissingAfterStart(start, d) == {e \in (start + 1)..(d - 1) : e \notin DOMAIN days}

(* reconcile_gaps: days of the window before d without an entry get one. *)
Missing(start, d) == {e \in start..(d - 1) : e \notin DOMAIN days}
(* Variant: only the days of the window are written back. *)
ReconciledWindowOnly(start, d) ==
    [e \in start..(d - 1) |->
        IF e \in DOMAIN days THEN days[e]
        ELSE IF e \in snapDays THEN Captured ELSE "no_run_recorded"]

Reconciled(start, d) ==
    [e \in DOMAIN days \cup Missing(start, d) |->
        IF e \in DOMAIN days THEN days[e]
        ELSE IF e \in snapDays THEN Captured ELSE "no_run_recorded"]
ReconcileGaps(start, d) ==
    /\ days' = Reconciled(start, d)
    /\ UNCHANGED <<today, frozen, snapDays, window>>

(* qualifying_dates from window_start on; without a start, all of them. *)
QualifyingDays(start) == {d \in DOMAIN days : days[d] = Captured /\ d >= start}

-------------------------------------------------------------------------------
WindowWorld == NextDay \/ ChangeInputs \/ Poll \/ LoseWindow \/ LoseLedger \/ StartWindow

(* The files on their own: every operation, in any order. *)
WindowNext == \/ WindowWorld
              \/ VerifyWindow(today)
              \/ \E listed \in BOOLEAN : RecordDay(today, listed)
              \/ Running /\ ReconcileGaps(window.start, today)

WindowSpec == WindowInit /\ [][WindowNext]_windowVars

-------------------------------------------------------------------------------
(* Properties. *)

(* The files hold what the code writes to them. *)
WindowTypeOK ==
    /\ today \in Days
    /\ frozen \in Inputs
    /\ snapDays \subseteq 1..today
    /\ window \in [status : {"not_started", "running", "reset"},
                   start : 0..today, hashes : SUBSET Inputs]
    /\ Running <=> window.start # NoDay
    /\ DOMAIN days \subseteq 1..today
    /\ days \in [DOMAIN days -> {Captured} \cup Causes]

(* Only a day with snapshot rows is ever evidence, whatever order the files  *)
(* were written, reconciled, lost and rebuilt in: an outage never inflates   *)
(* the qualifying weeks.                                                     *)
CapturedIsEvidence == \A d \in DOMAIN days : days[d] = Captured => d \in snapDays

(* The window never moves to another day or other inputs silently: it stays  *)
(* as it is, is lost, or restarts today against the inputs of today.         *)
WindowMovesToToday ==
    [][window' # window =>
         \/ window' = FreshWindow
         \/ window'.start = today /\ window'.hashes = {frozen}]_windowVars

(* One successful poll makes the day evidence for good: a later failed run   *)
(* or a reconciliation does not take it back (losing the file does).         *)
CapturedIsSticky ==
    [][DOMAIN days' # {} =>
         \A d \in DOMAIN days : days[d] = Captured =>
             d \in DOMAIN days' /\ days'[d] = Captured]_windowVars
===============================================================================
