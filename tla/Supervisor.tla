------------------------------ MODULE Supervisor ------------------------------
(***************************************************************************)
(* tools/improvement_runner.py over tools/improvement_memory.py: the       *)
(* sequential supervisor of the improvement programme.  It launches one    *)
(* CLI session per stage, judges what the session left in the shared       *)
(* memory, and keeps in status.json the checkpoint a later run resumes     *)
(* from when this one is killed.                                           *)
(*                                                                         *)
(* The OS lock admits one supervisor at a time, so there is one of them    *)
(* here; pc "off" is the free lock.  The stop and reconfigure commands are *)
(* processes of their own.  A session may write anything anywhere.         *)
(***************************************************************************)
EXTENDS Integers, FiniteSets, FiniteSetsExt

CONSTANTS NumStages,     \* stages of the manifest, in order
          Depends,       \* per stage: the stages it depends on
          AllowDeferred, \* per stage: the dependencies that may be deferred
          ReviewOf,      \* per stage: the optional stages it reviews
          MaxAttempts,   \* max_attempts_per_stage
          OneOperator,   \* nobody starts a run while reconfigure works
          MaxRuns,       \* bound on the runs started
          MaxNotes,      \* how many texts an evidence note may have
          MaxEdits       \* bound on edits outside a session's own work

Stages == 1..NumStages
None == 0

ASSUME StagesAssumption ==
    /\ NumStages \in Nat \ {0}
    /\ \A f \in {Depends, AllowDeferred, ReviewOf} :
          /\ f \in [Stages -> SUBSET Stages]
          /\ \A s \in Stages : \A d \in f[s] : d < s
ASSUME BoundsAssumption == /\ MaxAttempts \in Nat \ {0}
                           /\ OneOperator \in BOOLEAN
                           /\ {MaxRuns, MaxNotes, MaxEdits} \subseteq Nat

VARIABLES
    rows,      \* STATE.md: the status of each stage
    queued,    \* STATE.md: "Next step"
    notes,     \* stages/NN.md: the text of each evidence note, 0 for none
    files,     \* version of the protected supervisor files
    disk,      \* status.json
    stop,      \* stop.json: the run it names
    sup,       \* the supervisor process
    session,   \* the CLI session: "none", "working", "exited", "failed"
    rc,        \* the reconfigure command: what it read of status.json
    edits      \* edits outside a session's own work so far

vars == <<rows, queued, notes, files, disk, stop, sup, session, rc, edits>>
memory == <<rows, queued, notes>>

(* PENDING stands for ACTIVE and NEEDS_FIX too, DONE for EVALUATED_NO_GAIN. *)
Statuses == {"PENDING", "BLOCKED", "DEFERRED_DATA", "DONE"}
Terminal == {"DONE", "DEFERRED_DATA"}
NoFlight == [stage |-> None, before |-> [s \in Stages |-> "PENDING"],
             previous |-> 0, protected |-> 0]
NoStatus == [run |-> 0, status |-> "", flight |-> NoFlight]
Off(run) == [pc |-> "off", run |-> run, stage |-> None, attempt |-> 0, seen |-> 0,
             flight |-> NoFlight, recovery |-> FALSE]

Init == /\ rows = [s \in Stages |-> "PENDING"]
        /\ queued = 1
        /\ notes = [s \in Stages |-> 0]
        /\ files = 0
        /\ disk = NoStatus
        /\ stop = 0
        /\ sup = Off(0)
        /\ session = "none"
        /\ rc = NoStatus
        /\ edits = 0

-------------------------------------------------------------------------------
(* What the shared memory must satisfy. *)

Unfinished == {s \in Stages : rows[s] \notin Terminal}
FirstUnfinished == IF Unfinished = {} THEN None ELSE Min(Unfinished)

(* readiness_errors: prerequisites of finished stages and of the queued one. *)
MemoryValid ==
    /\ \A s \in Stages : rows[s] = "DONE" => \A d \in Depends[s] : rows[d] = "DONE"
    /\ \A s \in Stages : (rows[s] = "DONE" \/ s = queued) =>
                            \A d \in ReviewOf[s] : rows[d] \in Terminal
    /\ \A s \in Stages : rows[s] \in Terminal => notes[s] # 0
    /\ queued # None =>
         /\ rows[queued] # "DONE"
         /\ \A d \in Depends[queued] :
              \/ rows[d] = "DONE"
              \/ d \in AllowDeferred[queued] /\ rows[d] = "DEFERRED_DATA"

(* next_stage raises on a deferred stage nobody reviews, on a queue that     *)
(* skips a stage, and on a blocked stage.                                    *)
QueueValid ==
    /\ \A s \in Stages : rows[s] = "DEFERRED_DATA" => \E r \in Stages : s \in ReviewOf[r]
    /\ queued = FirstUnfinished
    /\ queued # None => rows[queued] # "BLOCKED"

Differs(before, s) == \E o \in Stages \ {s} : rows[o] # before[o]

(* Variant: the other stages' rows are not looked at. *)
CompletedOwnRow ==
    /\ rows[sup.stage] \in Terminal
    /\ notes[sup.stage] \notin {0, sup.seen}
    /\ MemoryValid
    /\ QueueValid

(* validate_completion *)
Completed ==
    /\ ~Differs(sup.flight.before, sup.stage)
    /\ rows[sup.stage] \in Terminal
    /\ notes[sup.stage] \notin {0, sup.seen}
    /\ MemoryValid
    /\ QueueValid

-------------------------------------------------------------------------------
(* The supervisor. *)

Emit(run, status, flight) == disk' = [run |-> run, status |-> status, flight |-> flight]

(* The run ends with a last status; the session's process tree is gone. *)
Finish(status) == /\ Emit(sup.run, status, sup.flight)
                  /\ sup' = Off(sup.run)
                  /\ session' = "none"
                  /\ UNCHANGED <<memory, files, stop, rc, edits>>

(* Variant: only the protected files are compared with the checkpoint. *)
MayResumeAnyRows == disk.flight.stage # None => files = disk.flight.protected

(* What a run that finds a checkpoint insists on before it does anything. *)
MayResume == disk.flight.stage # None =>
                /\ ~Differs(disk.flight.before, disk.flight.stage)
                /\ files = disk.flight.protected

(* run takes the lock and reads the last status; when that run was killed it *)
(* says so, which replaces status.json.                                      *)
TakeLock ==
    /\ sup.pc = "off" /\ sup.run < MaxRuns
    /\ OneOperator => rc = NoStatus
    /\ MayResume
    /\ sup' = [pc |-> "locked", run |-> sup.run + 1, stage |-> None, attempt |-> 0,
               seen |-> 0, flight |-> disk.flight,
               recovery |-> disk.flight.stage # None]
    /\ IF disk.status = "running" THEN Emit(sup.run + 1, "starting", disk.flight)
                                  ELSE UNCHANGED disk
    /\ UNCHANGED <<memory, files, stop, session, rc, edits>>

(* The memory check runs in a process of its own; a failure leaves no status. *)
Begin ==
    /\ sup.pc = "locked"
    /\ IF MemoryValid
       THEN /\ Emit(sup.run, "running", sup.flight)
            /\ sup' = [sup EXCEPT !.pc = "top"]
       ELSE sup' = Off(sup.run) /\ UNCHANGED disk
    /\ UNCHANGED <<memory, files, stop, session, rc, edits>>

Top ==
    /\ sup.pc = "top" /\ stop # sup.run
    /\ sup' = [sup EXCEPT !.pc = "choose"]
    /\ UNCHANGED <<memory, files, disk, stop, session, rc, edits>>

(* The stage of the checkpoint unless it is blocked, else the first           *)
(* unfinished one (next_stage).                                              *)
Choice == IF sup.recovery THEN sup.flight.stage ELSE queued
ChoiceValid == IF sup.recovery THEN rows[Choice] # "BLOCKED" ELSE QueueValid

(* The loop's ways out before a stage is launched: stop, a bad choice,       *)
(* nothing left, --max-steps or --dry-run, the run's time limit.             *)
Leave ==
    \/ sup.pc = "top" /\ stop = sup.run /\ Finish("stopped")
    \/ sup.pc = "choose" /\ ~ChoiceValid /\ Finish("failed")
    \/ /\ sup.pc = "choose" /\ ChoiceValid
       /\ IF Choice = None THEN Finish("complete")
                           ELSE Finish("paused") \/ Finish("failed")

(* Variant: a resumed stage takes its baseline anew. *)
BaselineAnew == [stage |-> Choice, before |-> rows, previous |-> notes[Choice],
                 protected |-> files]

Baseline == IF sup.recovery THEN sup.flight
            ELSE [stage |-> Choice, before |-> rows, previous |-> notes[Choice],
                  protected |-> files]

(* The baseline is on disk before anything is launched. *)
Choose ==
    /\ sup.pc = "choose" /\ ChoiceValid /\ Choice # None
    /\ sup' = [sup EXCEPT !.pc = "attempt", !.stage = Choice, !.attempt = 1,
                          !.flight = Baseline]
    /\ Emit(sup.run, "running", Baseline)
    /\ UNCHANGED <<memory, files, stop, session, rc, edits>>

(* run_process; freshness is measured from the start of the attempt. *)
Launch ==
    /\ sup.pc = "attempt"
    /\ Emit(sup.run, "running", sup.flight)
    /\ sup' = [sup EXCEPT !.pc = "wait", !.seen = notes[sup.stage]]
    /\ session' = "working"
    /\ UNCHANGED <<memory, files, stop, rc, edits>>

(* The time limit of the stage, of the run or of the memory check: whatever  *)
(* runs is killed.                                                           *)
Timeout == sup.pc \in {"attempt", "wait"} /\ Finish("failed")

(* A failed session is never repaired. *)
SessionFailed == sup.pc = "wait" /\ session = "failed" /\ Finish("failed")

Judging == sup.pc = "wait" /\ session = "exited"
Rejected == Judging /\ (files # sup.flight.protected \/ ~Completed)

Accept ==
    /\ Judging /\ files = sup.flight.protected /\ Completed
    /\ Emit(sup.run, "running", NoFlight)
    /\ sup' = [sup EXCEPT !.pc = "top", !.stage = None, !.attempt = 0, !.seen = 0,
                          !.flight = NoFlight, !.recovery = FALSE]
    /\ session' = "none"
    /\ UNCHANGED <<memory, files, stop, rc, edits>>

Hopeless == \/ files # sup.flight.protected
            \/ rows[sup.stage] \in {"BLOCKED", "DEFERRED_DATA"}
            \/ Differs(sup.flight.before, sup.stage)
            \/ sup.attempt >= MaxAttempts
            \/ stop = sup.run
GiveUp == Rejected /\ Hopeless /\ Finish("failed")

(* Variant: attempts are not counted. *)
RepairUncounted ==
    /\ Rejected /\ ~Hopeless
    /\ Emit(sup.run, "running", sup.flight)
    /\ sup' = [sup EXCEPT !.pc = "attempt"]
    /\ session' = "none"
    /\ UNCHANGED <<memory, files, stop, rc, edits>>

Repair ==
    /\ Rejected /\ ~Hopeless
    /\ Emit(sup.run, "running", sup.flight)
    /\ sup' = [sup EXCEPT !.pc = "attempt", !.attempt = @ + 1]
    /\ session' = "none"
    /\ UNCHANGED <<memory, files, stop, rc, edits>>

(* Ctrl+C within the loop is answered with a status. *)
Interrupt == sup.pc \notin {"off", "locked"} /\ Finish("interrupted")

(* A kill is not answered; the session dies with the supervisor              *)
(* (kill-on-close job).                                                      *)
Kill ==
    /\ sup.pc # "off"
    /\ sup' = Off(sup.run)
    /\ session' = "none"
    /\ UNCHANGED <<memory, files, disk, stop, rc, edits>>

-------------------------------------------------------------------------------
(* The session, the other commands, and the person who repairs by hand. *)

Working == session = "working"
MayEdit == edits < MaxEdits /\ edits' = edits + 1

(* A note is written, put back as it was before, or deleted, by a session or *)
(* by a person between the runs; only the session's own is its to write.     *)
WriteNote(s, note) ==
    /\ Working \/ sup.pc = "off"
    /\ note # notes[s]
    /\ notes' = [notes EXCEPT ![s] = note]
    /\ IF Working /\ s = sup.stage THEN UNCHANGED edits ELSE MayEdit
    /\ UNCHANGED <<rows, queued, files, disk, stop, sup, session, rc>>

(* The session's own row and the stage that is due are its to write; another *)
(* stage's row, or a queue that skips or repeats one, is an edit outside.    *)
SetRow(s, status) ==
    /\ Working /\ status # rows[s]
    /\ rows' = [rows EXCEPT ![s] = status]
    /\ IF s = sup.stage THEN UNCHANGED edits ELSE MayEdit
    /\ UNCHANGED <<queued, notes, files, disk, stop, sup, session, rc>>
SetQueue(q) ==
    /\ Working /\ q # queued
    /\ queued' = q
    /\ IF q = FirstUnfinished THEN UNCHANGED edits ELSE MayEdit
    /\ UNCHANGED <<rows, notes, files, disk, stop, sup, session, rc>>

(* Supervised repair between runs: a stage is reopened, or a recorded block  *)
(* is lifted, and the queue made to match.                                   *)
RepairByHand(s) ==
    /\ sup.pc = "off" /\ rows[s] # "PENDING"
    /\ rows' = [rows EXCEPT ![s] = "PENDING"]
    /\ queued' = FirstUnfinished'
    /\ MayEdit
    /\ UNCHANGED <<notes, files, disk, stop, sup, session, rc>>

EditFiles ==
    /\ Working \/ sup.pc = "off"
    /\ MayEdit
    /\ files' = files + 1
    /\ UNCHANGED <<memory, disk, stop, sup, session, rc>>

SessionEnds ==
    /\ Working
    /\ session' \in {"exited", "failed"}
    /\ UNCHANGED <<memory, files, disk, stop, sup, rc, edits>>

(* stop: while the lock is held, for the run status.json names. *)
RequestStop ==
    /\ sup.pc # "off" /\ disk.run # 0
    /\ stop' = disk.run
    /\ UNCHANGED <<memory, files, disk, sup, session, rc, edits>>

(* reconfigure: looks that no runner holds the lock and that the stage in    *)
(* flight left no trace, checks the memory, and writes status.json back with *)
(* the protected files of now.                                               *)
ReconfigureRead ==
    /\ rc = NoStatus
    /\ sup.pc = "off"
    /\ disk.status = "failed" /\ disk.flight.stage # None
    /\ rows = disk.flight.before
    /\ notes[disk.flight.stage] = disk.flight.previous
    /\ rc' = disk
    /\ UNCHANGED <<memory, files, disk, stop, sup, session, edits>>
ReconfigureWrite ==
    /\ rc # NoStatus
    /\ rc' = NoStatus
    /\ IF MemoryValid
       THEN Emit(rc.run, rc.status, [rc.flight EXCEPT !.protected = files])
       ELSE UNCHANGED disk
    /\ UNCHANGED <<memory, files, stop, sup, session, edits>>

SupervisorStep == \/ Begin \/ Top \/ Leave \/ Choose \/ Launch \/ Timeout
                  \/ SessionFailed \/ Accept \/ GiveUp \/ Repair
Others == \/ \E s \in Stages : \/ RepairByHand(s)
                              \/ \E note \in 0..MaxNotes : WriteNote(s, note)
                              \/ \E status \in Statuses : SetRow(s, status)
          \/ \E q \in Stages \cup {None} : SetQueue(q)
          \/ EditFiles \/ SessionEnds \/ RequestStop
          \/ ReconfigureRead \/ ReconfigureWrite

Next == TakeLock \/ SupervisorStep \/ Interrupt \/ Kill \/ Others

Spec == Init /\ [][Next]_vars

(* A supervisor that is not killed goes on, and its sessions end: by         *)
(* themselves or at the time limit.                                          *)
FairSpec == Spec /\ WF_vars(SupervisorStep) /\ WF_vars(SessionEnds \/ Timeout)

-------------------------------------------------------------------------------
(* Properties. *)

(* "A restart resumes from the saved stage evidence": while a stage has been *)
(* launched and not accepted, its baseline is on disk as it was before its   *)
(* first launch, over any kills, interruptions and runs; only reconfigure    *)
(* changes it, and only in the protected files.                              *)
CheckpointKept ==
    [][disk.flight.stage # None /\ disk'.flight # disk.flight =>
         \/ disk'.flight = NoFlight /\ Accept
         \/ disk'.flight = [disk.flight EXCEPT !.protected = files]]_vars

(* "Failed/interrupted workers cannot advance the programme": a stage is     *)
(* accepted with its checkpoint on disk, all earlier stages disposed of, and *)
(* no other stage's row changed since its first launch in whatever run that  *)
(* was.                                                                      *)
HandoffVerified ==
    [][Accept =>
         /\ disk.flight = sup.flight
         /\ sup.stage = disk.flight.stage
         /\ \A s \in Stages : s < sup.stage => rows[s] \in Terminal
         /\ ~Differs(disk.flight.before, sup.stage)]_vars

(* No session is ever launched for a stage that is blocked or has an         *)
(* unfinished stage before it, first launches, repairs and resumptions alike. *)
LaunchesInOrder ==
    [][Launch => /\ rows[sup.stage] # "BLOCKED"
                 /\ \A s \in Stages : s < sup.stage => rows[s] \in Terminal]_vars

(* Every run ends: repairs are bounded, and a stage is not run again in it.  *)
RunEnds == sup.pc # "off" ~> sup.pc = "off"
===============================================================================
