---------------------------- MODULE SupervisorProofs ----------------------------
(***************************************************************************)
(* What holds of the supervisor's checkpoints, launches and acceptances,   *)
(* for any manifest and any number of runs, kills and edits.               *)
(***************************************************************************)
EXTENDS Supervisor, WellFoundedInduction, TLAPS

(* A set of stages has a first one, and Min is it.                           *)
LEMMA FirstOfSet ==
    ASSUME NEW T, T \subseteq Stages, T # {}
    PROVE  Min(T) \in T /\ \A y \in T : Min(T) <= y
<1> DEFINE R == OpToRel(<, Nat)
<1>0. T \subseteq Nat
  BY StagesAssumption DEF Stages
<1>1. IsWellFoundedOn(R, Nat)
  BY NatLessThanWellFounded
<1>2. \A x, y \in Nat : y < x => <<y, x>> \in R
  BY DEF OpToRel
<1> HIDE DEF R
<1>3. PICK x \in T : \A y \in T : <<y, x>> \notin R
  BY <1>0, <1>1, WFMin
<1>4. ASSUME NEW y \in T PROVE x <= y
  <2>1. x \in Nat /\ y \in Nat
    BY <1>0
  <2>2. ~(y < x)
    BY <1>2, <1>3, <2>1
  <2> QED BY <2>1, <2>2
<1>5. \E m \in T : \A y \in T : m <= y
  BY <1>4
<1> QED BY <1>5 DEF Min

(* So the queue, when it is valid, names a stage and none before it is       *)
(* unfinished.                                                               *)
LEMMA FirstUnfinishedIsFirst ==
    /\ FirstUnfinished \in Stages \cup {None}
    /\ FirstUnfinished # None =>
          \A s \in Stages : s < FirstUnfinished => rows[s] \in Terminal
<1>1. Unfinished \subseteq Stages
  BY DEF Unfinished
<1>2. CASE Unfinished = {}
  BY <1>2 DEF FirstUnfinished
<1>3. CASE Unfinished # {}
  <2>1. /\ FirstUnfinished \in Unfinished
        /\ \A y \in Unfinished : FirstUnfinished <= y
    BY <1>1, <1>3, FirstOfSet DEF FirstUnfinished
  <2>2. ASSUME NEW s \in Stages, s < FirstUnfinished PROVE rows[s] \in Terminal
    <3>1. s \in Int /\ FirstUnfinished \in Int
      BY <1>1, <2>1 DEF Stages
    <3>2. s \notin Unfinished
      BY <2>1, <2>2, <3>1
    <3> QED BY <3>2 DEF Unfinished
  <2> QED BY <1>1, <2>1, <2>2
<1> QED BY <1>2, <1>3

(* The queue computed from the rows is a stage or none.                      *)
LEMMA QueueTyped == FirstUnfinished \in Stages \cup {None}
BY FirstUnfinishedIsFirst

-------------------------------------------------------------------------------
(* The inductive invariant. *)

Flight == [stage : Stages \cup {None}, before : [Stages -> Statuses],
           previous : Nat, protected : Nat]
Running == {"locked", "top", "choose", "attempt", "wait"}
SupTyped ==
    sup \in [pc : Running \cup {"off"}, run : Nat, stage : Stages \cup {None},
             attempt : Nat, seen : Nat, flight : Flight, recovery : BOOLEAN]

MemoryTyped ==
    /\ rows \in [Stages -> Statuses]
    /\ queued \in Stages \cup {None}
    /\ notes \in [Stages -> Nat]
    /\ files \in Nat

(* What a checkpoint says, wherever a copy of it is: when it was taken every *)
(* earlier stage was disposed of.                                            *)
Sound(f) ==
    /\ f \in Flight
    /\ f.stage # None =>
          \A s \in Stages : s < f.stage => f.before[s] \in Terminal

(* No session works but in the supervisor's wait, so the memory is at rest   *)
(* from the comparison with the checkpoint to the launch.                    *)
AtRest ==
    /\ sup.pc # "wait" => session = "none"
    /\ sup.pc \in {"locked", "top", "choose"} =>
          /\ sup.recovery <=> sup.flight.stage # None
          /\ sup.recovery => ~Differs(sup.flight.before, sup.flight.stage)
    /\ sup.pc \in {"attempt", "wait"} =>
          sup.stage = sup.flight.stage /\ sup.stage # None
    /\ sup.pc = "attempt" =>
          ~Differs(sup.flight.before, sup.stage) /\ rows[sup.stage] # "BLOCKED"

SupInv == /\ MemoryTyped /\ SupTyped
          /\ Sound(disk.flight) /\ Sound(sup.flight) /\ Sound(rc.flight)
          /\ AtRest

(* Nothing has run.                                                          *)
LEMMA SupBegins == Init => SupInv
<1> SUFFICES ASSUME Init PROVE SupInv
  OBVIOUS
<1>1. NoFlight \in Flight /\ NoFlight.stage = None
  BY DEF NoFlight, Flight, Statuses
<1>2. MemoryTyped
  <2>1. 1 \in Stages
    BY StagesAssumption DEF Stages
  <2> QED BY <2>1 DEF Init, MemoryTyped, Statuses
<1>3. SupTyped
  BY <1>1 DEF Init, SupTyped, Off, Running
<1>4. disk.flight = NoFlight /\ sup.flight = NoFlight /\ rc.flight = NoFlight
  BY DEF Init, NoStatus, Off
<1>5. AtRest
  BY DEF Init, Off, AtRest
<1> QED BY <1>1, <1>2, <1>3, <1>4, <1>5 DEF SupInv, Sound

(* The ways a run ends: with a last status, or killed without one.           *)
LEMMA RunOver ==
    ASSUME SupInv, sup' = Off(sup.run), session' = "none",
           UNCHANGED <<memory, files, rc>>, disk'.flight \in {disk.flight, sup.flight}
    PROVE  SupInv'
<1>1. MemoryTyped'
  BY DEF SupInv, MemoryTyped, memory
<1>2. SupTyped'
  BY DEF SupInv, SupTyped, Off, NoFlight, Flight, Statuses, Running
<1>3. Sound(disk.flight)' /\ Sound(rc.flight)'
  BY DEF SupInv, Sound, memory
<1>4. Sound(sup.flight)'
  BY DEF Sound, Off, NoFlight, Flight, Statuses
<1>5. AtRest'
  BY DEF AtRest, Off
<1> QED BY <1>1, <1>2, <1>3, <1>4, <1>5 DEF SupInv

(* The supervisor goes on with the memory as it is.                          *)
LEMMA RunGoesOn ==
    ASSUME SupInv, UNCHANGED <<memory, files, rc>>,
           Sound(sup'.flight), disk'.flight \in {disk.flight, sup'.flight},
           SupTyped', AtRest'
    PROVE  SupInv'
<1>1. MemoryTyped'
  BY DEF SupInv, MemoryTyped, memory
<1>2. Sound(disk.flight)' /\ Sound(rc.flight)' /\ Sound(sup.flight)'
  BY DEF SupInv, Sound, memory
<1> QED BY <1>1, <1>2 DEF SupInv

(* The baseline a stage is launched from.                                    *)
LEMMA BaselineIsSound ==
    ASSUME SupInv, sup.pc = "choose", ChoiceValid, Choice # None
    PROVE  /\ Sound(Baseline)
           /\ Baseline.stage = Choice
           /\ ~Differs(Baseline.before, Choice)
           /\ rows[Choice] # "BLOCKED"
<1>1. CASE sup.recovery
  BY <1>1 DEF SupInv, AtRest, Baseline, Choice, ChoiceValid
<1>2. CASE ~sup.recovery
  <2>1. Choice = queued /\ queued = FirstUnfinished /\ rows[Choice] # "BLOCKED"
    BY <1>2 DEF Choice, ChoiceValid, QueueValid
  <2>2. Choice \in Stages /\ \A s \in Stages : s < Choice => rows[s] \in Terminal
    BY <2>1, FirstUnfinishedIsFirst
  <2>3. Baseline = [stage |-> Choice, before |-> rows, previous |-> notes[Choice],
                    protected |-> files]
    BY <1>2 DEF Baseline
  <2>4. MemoryTyped
    BY DEF SupInv
  <2>5. Baseline \in Flight
    BY <2>2, <2>3, <2>4 DEF Flight, MemoryTyped
  <2>7. ~Differs(Baseline.before, Choice)
    BY <2>3 DEF Differs
  <2> QED BY <2>1, <2>2, <2>3, <2>5, <2>7 DEF Sound
<1> QED BY <1>1, <1>2

(* The supervisor's own steps. *)
LEMMA SupervisorKeeps ==
    ASSUME SupInv, TakeLock \/ SupervisorStep \/ Interrupt \/ Kill
    PROVE  SupInv'
<1> USE DEF memory
<1>0. SupTyped /\ AtRest /\ MemoryTyped /\ Sound(sup.flight) /\ Sound(disk.flight)
  BY DEF SupInv
<1>1. ASSUME NEW status, Finish(status) PROVE SupInv'
  BY <1>1, RunOver DEF Finish, Emit
<1>2. CASE TakeLock
  <2>1. /\ sup'.pc = "locked" /\ sup'.flight = disk.flight
        /\ sup'.recovery = (disk.flight.stage # None)
        /\ disk'.flight = disk.flight
    BY <1>2 DEF TakeLock, Emit
  <2>2. SupTyped'
    BY <1>0, <1>2 DEF TakeLock, SupTyped, Sound, Running
  <2>3. AtRest'
    BY <1>0, <1>2, <2>1 DEF TakeLock, AtRest, MayResume, Differs
  <2> QED BY <1>0, <1>2, <2>1, <2>2, <2>3, RunGoesOn DEF TakeLock
<1>3. CASE Begin
  <2>1. CASE MemoryValid
    <3>1. sup' = [sup EXCEPT !.pc = "top"] /\ disk'.flight = sup.flight
      BY <1>3, <2>1 DEF Begin, Emit
    <3>2. SupTyped'
      BY <1>0, <3>1 DEF SupTyped, Running
    <3>3. sup'.flight = sup.flight /\ sup'.pc = "top" /\ sup'.recovery = sup.recovery
      BY <1>0, <3>1 DEF SupTyped
    <3>4. AtRest'
      BY <1>0, <1>3, <3>3 DEF Begin, AtRest, Differs
    <3> QED BY <1>0, <1>3, <3>1, <3>2, <3>3, <3>4, RunGoesOn DEF Begin
  <2>2. CASE ~MemoryValid
    BY <1>0, <1>3, <2>2, RunOver DEF Begin, AtRest
  <2> QED BY <2>1, <2>2
<1>4. CASE Top
  <2>1. sup' = [sup EXCEPT !.pc = "choose"]
    BY <1>4 DEF Top
  <2>2. SupTyped'
    BY <1>0, <2>1 DEF SupTyped, Running
  <2>3. sup'.flight = sup.flight /\ sup'.pc = "choose" /\ sup'.recovery = sup.recovery
    BY <1>0, <2>1 DEF SupTyped
  <2>4. AtRest'
    BY <1>0, <1>4, <2>3 DEF Top, AtRest, Differs
  <2> QED BY <1>0, <1>4, <2>2, <2>3, <2>4, RunGoesOn DEF Top
<1>5. CASE Leave \/ Timeout \/ SessionFailed \/ GiveUp \/ Interrupt
  BY <1>1, <1>5 DEF Leave, Timeout, SessionFailed, GiveUp, Interrupt
<1>6. CASE Kill
  BY <1>6, RunOver DEF Kill
<1>7. CASE Choose
  <2>1. /\ Sound(Baseline) /\ Baseline.stage = Choice /\ Choice # None
        /\ ~Differs(Baseline.before, Choice) /\ rows[Choice] # "BLOCKED"
    BY <1>7, BaselineIsSound DEF Choose
  <2>2. Baseline \in Flight /\ Choice \in Stages
    BY <2>1 DEF Sound, Flight
  <2> HIDE DEF Baseline, Choice
  <2>3. /\ sup' = [sup EXCEPT !.pc = "attempt", !.stage = Choice, !.attempt = 1,
                              !.flight = Baseline]
        /\ disk'.flight = Baseline
    BY <1>7 DEF Choose, Emit
  <2>4. SupTyped'
    BY <1>0, <2>2, <2>3 DEF SupTyped, Running
  <2>5. sup'.flight = Baseline /\ sup'.pc = "attempt" /\ sup'.stage = Choice
    BY <1>0, <2>3 DEF SupTyped
  <2>6. AtRest'
    BY <1>0, <1>7, <2>1, <2>5 DEF Choose, AtRest, Differs
  <2> QED BY <1>7, <2>1, <2>3, <2>4, <2>5, <2>6, RunGoesOn DEF Choose
<1>8. CASE Launch
  <2>1. /\ sup' = [sup EXCEPT !.pc = "wait", !.seen = notes[sup.stage]]
        /\ disk'.flight = sup.flight
    BY <1>8 DEF Launch, Emit
  <2>2. sup.stage \in Stages /\ sup.stage = sup.flight.stage
    BY <1>0, <1>8 DEF Launch, AtRest, SupTyped
  <2>3. notes[sup.stage] \in Nat
    BY <1>0, <2>2 DEF MemoryTyped
  <2>4. SupTyped'
    BY <1>0, <2>1, <2>3 DEF SupTyped, Running
  <2>5. /\ sup'.flight = sup.flight /\ sup'.pc = "wait" /\ sup'.stage = sup.stage
        /\ sup'.seen = notes[sup.stage]
    BY <1>0, <2>1 DEF SupTyped
  <2>6. AtRest'
    BY <1>0, <1>8, <2>2, <2>5 DEF Launch, AtRest, Stages, None
  <2> QED BY <1>0, <1>8, <2>1, <2>4, <2>5, <2>6, RunGoesOn DEF Launch
<1>9. CASE Accept
  <2>1. /\ sup' = [sup EXCEPT !.pc = "top", !.stage = None, !.attempt = 0, !.seen = 0,
                              !.flight = NoFlight, !.recovery = FALSE]
        /\ disk'.flight = NoFlight
    BY <1>9 DEF Accept, Emit
  <2>2. NoFlight \in Flight /\ NoFlight.stage = None
    BY DEF NoFlight, Flight, Statuses
  <2>3. SupTyped'
    BY <1>0, <2>1, <2>2 DEF SupTyped, Running
  <2>4. sup'.flight = NoFlight /\ sup'.pc = "top" /\ sup'.recovery = FALSE
    BY <1>0, <2>1 DEF SupTyped
  <2>5. AtRest'
    BY <1>9, <2>2, <2>4 DEF Accept, AtRest
  <2>6. Sound(NoFlight)
    BY <2>2 DEF Sound
  <2> QED BY <1>9, <2>1, <2>3, <2>4, <2>5, <2>6, RunGoesOn DEF Accept
<1>10. CASE Repair
  <2>1. /\ sup' = [sup EXCEPT !.pc = "attempt", !.attempt = sup.attempt + 1]
        /\ disk'.flight = sup.flight
    BY <1>10 DEF Repair, Emit
  <2>0. sup.attempt + 1 \in Nat
    BY <1>0 DEF SupTyped
  <2>2. SupTyped'
    BY <1>0, <2>1, <2>0 DEF SupTyped, Running
  <2>3. sup'.flight = sup.flight /\ sup'.pc = "attempt" /\ sup'.stage = sup.stage
    BY <1>0, <2>1 DEF SupTyped
  <2>4. AtRest'
    BY <1>0, <1>10, <2>3 DEF Repair, Rejected, Judging, Hopeless, AtRest, Differs
  <2> QED BY <1>0, <1>10, <2>1, <2>2, <2>3, <2>4, RunGoesOn DEF Repair
<1> QED
  BY <1>2, <1>3, <1>4, <1>5, <1>6, <1>7, <1>8, <1>9, <1>10 DEF SupervisorStep

(* What the session, the operator and the other commands do.  A session      *)
(* works only while the supervisor waits, and a person repairs only when     *)
(* there is none, so neither disturbs what the supervisor has compared.      *)
LEMMA OthersKeep == ASSUME SupInv, Others \/ UNCHANGED vars PROVE SupInv'
<1> USE DEF memory
<1>0. SupTyped /\ AtRest /\ MemoryTyped /\ Sound(sup.flight) /\ Sound(disk.flight)
      /\ Sound(rc.flight)
  BY DEF SupInv
<1>1. ASSUME UNCHANGED <<disk, sup, rc>>, MemoryTyped', AtRest' PROVE SupInv'
  <2>1. Sound(sup.flight)' /\ Sound(disk.flight)' /\ Sound(rc.flight)'
    BY <1>0, <1>1 DEF Sound
  <2> QED BY <1>0, <1>1, <2>1 DEF SupInv, SupTyped
<1>3. ASSUME Working PROVE sup.pc = "wait" /\ sup.stage \in Stages
  BY <1>0, <1>3 DEF Working, AtRest, SupTyped
<1>4. ASSUME NEW s \in Stages, NEW note \in 0..MaxNotes, WriteNote(s, note)
      PROVE  SupInv'
  <2>1. note \in Nat
    OBVIOUS
  <2>2. MemoryTyped'
    BY <1>0, <1>4, <2>1 DEF WriteNote, MemoryTyped
  <2>3. AtRest'
    BY <1>0, <1>4 DEF WriteNote, AtRest, Differs
  <2> QED BY <1>1, <1>4, <2>2, <2>3 DEF WriteNote
<1>5. ASSUME NEW s \in Stages, NEW status \in Statuses, SetRow(s, status)
      PROVE  SupInv'
  <2>1. MemoryTyped'
    BY <1>0, <1>5 DEF SetRow, MemoryTyped
  <2>2. AtRest'
    BY <1>0, <1>3, <1>5 DEF SetRow, AtRest
  <2> QED BY <1>1, <1>5, <2>1, <2>2 DEF SetRow
<1>6. ASSUME NEW q \in Stages \cup {None}, SetQueue(q) PROVE SupInv'
  <2>1. MemoryTyped'
    BY <1>0, <1>6 DEF SetQueue, MemoryTyped
  <2>2. AtRest'
    BY <1>0, <1>6 DEF SetQueue, AtRest, Differs
  <2> QED BY <1>1, <1>6, <2>1, <2>2 DEF SetQueue
<1>7. ASSUME NEW s \in Stages, RepairByHand(s) PROVE SupInv'
  <2>1. queued' \in Stages \cup {None}
    <3>1. (FirstUnfinished \in Stages \cup {None})'
      BY QueueTyped, PTL
    <3> QED BY <1>7, <3>1 DEF RepairByHand
  <2>2. MemoryTyped'
    BY <1>0, <1>7, <2>1 DEF RepairByHand, MemoryTyped, Statuses
  <2>3. AtRest'
    BY <1>0, <1>7 DEF RepairByHand, AtRest
  <2> QED BY <1>1, <1>7, <2>2, <2>3 DEF RepairByHand
<1>8. CASE EditFiles
  <2>1. MemoryTyped' /\ AtRest'
    BY <1>0, <1>8 DEF EditFiles, MemoryTyped, AtRest, Differs
  <2> QED BY <1>1, <1>8, <2>1 DEF EditFiles
<1>9. CASE SessionEnds
  <2>1. MemoryTyped' /\ AtRest'
    BY <1>0, <1>3, <1>9 DEF SessionEnds, MemoryTyped, AtRest
  <2> QED BY <1>1, <1>9, <2>1 DEF SessionEnds
<1>10. CASE RequestStop \/ UNCHANGED vars
  <2>1. UNCHANGED <<memory, files, disk, sup, session, rc>>
    BY <1>10 DEF RequestStop, vars
  <2>2. MemoryTyped' /\ AtRest'
    BY <1>0, <2>1 DEF MemoryTyped, AtRest, Differs
  <2> QED BY <1>1, <2>1, <2>2
<1>11. ASSUME UNCHANGED <<memory, files, sup, session>>,
              Sound(disk'.flight), Sound(rc'.flight)
       PROVE  SupInv'
  <2>1. MemoryTyped' /\ AtRest' /\ SupTyped'
    BY <1>0, <1>11 DEF MemoryTyped, AtRest, SupTyped, Differs
  <2>2. Sound(disk.flight)' /\ Sound(rc.flight)' /\ Sound(sup.flight)'
    BY <1>0, <1>11 DEF Sound
  <2> QED BY <2>1, <2>2 DEF SupInv
<1>12. CASE ReconfigureRead
  BY <1>0, <1>11, <1>12 DEF ReconfigureRead
<1>13. CASE ReconfigureWrite
  <2>1. Sound(NoFlight)
    BY DEF Sound, NoFlight, Flight, Statuses
  <2>2. Sound([rc.flight EXCEPT !.protected = files])
    BY <1>0 DEF Sound, Flight, MemoryTyped
  <2>3. Sound(rc'.flight)
    BY <1>13, <2>1 DEF ReconfigureWrite, NoStatus
  <2>4. CASE MemoryValid
    BY <1>11, <1>13, <2>2, <2>3, <2>4 DEF ReconfigureWrite, Emit
  <2>5. CASE ~MemoryValid
    BY <1>0, <1>11, <1>13, <2>3, <2>5 DEF ReconfigureWrite
  <2> QED BY <2>4, <2>5
<1> QED
  BY <1>4, <1>5, <1>6, <1>7, <1>8, <1>9, <1>10, <1>12, <1>13 DEF Others

(* Hence the invariant.                                                      *)
LEMMA SupInvariant == Spec => []SupInv
<1>1. SupInv /\ [Next]_vars => SupInv'
  BY SupervisorKeeps, OthersKeep DEF Next
<1> QED BY <1>1, SupBegins, PTL DEF Spec

-------------------------------------------------------------------------------
(* Launches. *)

(* A checkpoint that the rows agree with: every stage before is disposed of. *)
LEMMA EarlierDisposed ==
    ASSUME Sound(sup.flight), sup.flight.stage # None,
           ~Differs(sup.flight.before, sup.flight.stage)
    PROVE  \A s \in Stages : s < sup.flight.stage => rows[s] \in Terminal
<1> SUFFICES ASSUME NEW s \in Stages, s < sup.flight.stage PROVE rows[s] \in Terminal
  OBVIOUS
<1>1. s # sup.flight.stage
  BY StagesAssumption DEF Stages
<1>2. rows[s] = sup.flight.before[s]
  BY <1>1 DEF Differs
<1> QED BY <1>2 DEF Sound

(* No session is ever launched for a stage that is blocked or has an         *)
(* unfinished stage before it: not at first, not to repair, and not by a run *)
(* that resumes after a kill, with reconfigure at work or without.           *)
THEOREM LaunchesAreInOrder == Spec => LaunchesInOrder
<1>1. SupInv /\ [Next]_vars =>
        [Launch => /\ rows[sup.stage] # "BLOCKED"
                   /\ \A s \in Stages : s < sup.stage => rows[s] \in Terminal]_vars
  <2> SUFFICES ASSUME SupInv, Launch
               PROVE  /\ rows[sup.stage] # "BLOCKED"
                      /\ \A s \in Stages : s < sup.stage => rows[s] \in Terminal
    OBVIOUS
  <2>1. /\ Sound(sup.flight) /\ sup.stage = sup.flight.stage /\ sup.stage # None
        /\ ~Differs(sup.flight.before, sup.stage) /\ rows[sup.stage] # "BLOCKED"
    BY DEF SupInv, AtRest, Launch
  <2> QED BY <2>1, EarlierDisposed
<1> QED BY <1>1, SupInvariant, PTL DEF Spec, LaunchesInOrder

-------------------------------------------------------------------------------
(* Checkpoints and acceptances. *)

(* While a run holds the lock its checkpoint is the one on disk; and what    *)
(* reconfigure has read is still there when it writes.  This is what the two *)
(* commands not being used at once is needed for.                            *)
LockInv ==
    /\ sup.pc # "off" => disk.flight = sup.flight /\ rc = NoStatus
    /\ rc # NoStatus => rc = disk

(* Every step keeps it. *)
LEMMA LockStep ==
    ASSUME OneOperator, SupInv, LockInv, [Next]_vars PROVE LockInv'
<1>0. SupTyped
  BY DEF SupInv
<1>1. ASSUME NEW status, Finish(status), sup.pc # "off" PROVE LockInv'
  BY <1>1 DEF LockInv, Finish, Off
<1>2. CASE TakeLock
  <2>1. rc' = NoStatus /\ sup'.flight = disk.flight /\ disk'.flight = disk.flight
    BY <1>2 DEF TakeLock, Emit
  <2> QED BY <2>1 DEF LockInv
<1>3. CASE Begin
  <2>1. CASE MemoryValid
    <3>1. disk'.flight = sup.flight /\ sup' = [sup EXCEPT !.pc = "top"] /\ rc' = NoStatus
      BY <1>3, <2>1 DEF Begin, Emit, LockInv
    <3>2. sup'.flight = sup.flight
      BY <1>0, <3>1 DEF SupTyped
    <3> QED BY <3>1, <3>2 DEF LockInv
  <2>2. CASE ~MemoryValid
    BY <1>3, <2>2 DEF Begin, LockInv, Off
  <2> QED BY <2>1, <2>2
<1>4. CASE Top
  <2>1. sup'.flight = sup.flight
    BY <1>0, <1>4 DEF Top, SupTyped
  <2> QED BY <1>4, <2>1 DEF Top, LockInv
<1>5. CASE Leave \/ Timeout \/ SessionFailed \/ GiveUp \/ Interrupt
  BY <1>1, <1>5 DEF Leave, Timeout, SessionFailed, GiveUp, Rejected, Judging, Interrupt
<1>6. CASE Kill
  BY <1>6 DEF Kill, LockInv, Off
<1>7. CASE Choose
  <2> HIDE DEF Baseline, Choice
  <2>1. sup'.flight = Baseline /\ disk'.flight = Baseline /\ rc' = NoStatus
    BY <1>0, <1>7 DEF Choose, Emit, SupTyped, LockInv
  <2> QED BY <2>1 DEF LockInv
<1>8. CASE Launch \/ Repair
  <2>1. disk'.flight = sup.flight /\ rc' = NoStatus
    BY <1>8 DEF Launch, Repair, Rejected, Judging, Emit, LockInv
  <2>2. CASE Launch
    BY <1>0, <2>1, <2>2 DEF Launch, SupTyped, LockInv
  <2>3. CASE Repair
    BY <1>0, <2>1, <2>3 DEF Repair, SupTyped, LockInv
  <2> QED BY <1>8, <2>2, <2>3
<1>9. CASE Accept
  <2>1. sup'.flight = NoFlight /\ disk'.flight = NoFlight /\ rc' = NoStatus
    BY <1>0, <1>9 DEF Accept, Judging, Emit, SupTyped, LockInv
  <2> QED BY <2>1 DEF LockInv
<1>10. CASE ReconfigureRead
  BY <1>10 DEF ReconfigureRead, LockInv
<1>11. CASE ReconfigureWrite
  BY <1>11 DEF ReconfigureWrite, LockInv
<1>12. CASE UNCHANGED <<disk, sup, rc>>
  BY <1>12 DEF LockInv
<1>13. CASE Others
  BY <1>10, <1>11, <1>12, <1>13
  DEF Others, WriteNote, RepairByHand, SetRow, SetQueue, EditFiles, SessionEnds,
      RequestStop
<1>14. CASE UNCHANGED vars
  BY <1>12, <1>14 DEF vars
<1> QED
  BY <1>2, <1>3, <1>4, <1>5, <1>6, <1>7, <1>8, <1>9, <1>13, <1>14
  DEF Next, SupervisorStep

(* Hence both invariants.                                                    *)
LEMMA LockInvariant == ASSUME OneOperator PROVE Spec => []LockInv
<1>1. Init => LockInv
  BY DEF Init, LockInv, Off
<1>2. SupInv /\ LockInv /\ [Next]_vars => LockInv'
  BY LockStep
<1> QED BY <1>1, <1>2, SupInvariant, PTL DEF Spec

(* A stage is accepted with its checkpoint on disk, all earlier stages       *)
(* disposed of, and no row but its own changed since its first launch, over  *)
(* any number of runs.                                                       *)
THEOREM HandoffsAreVerified == ASSUME OneOperator PROVE Spec => HandoffVerified
<1>1. SupInv /\ LockInv /\ [Next]_vars =>
        [Accept => /\ disk.flight = sup.flight
                   /\ sup.stage = disk.flight.stage
                   /\ \A s \in Stages : s < sup.stage => rows[s] \in Terminal
                   /\ ~Differs(disk.flight.before, sup.stage)]_vars
  <2> SUFFICES ASSUME SupInv, LockInv, Accept
               PROVE  /\ disk.flight = sup.flight
                      /\ sup.stage = disk.flight.stage
                      /\ \A s \in Stages : s < sup.stage => rows[s] \in Terminal
                      /\ ~Differs(disk.flight.before, sup.stage)
    OBVIOUS
  <2>1. disk.flight = sup.flight
    BY DEF LockInv, Accept, Judging
  <2>2. /\ Sound(sup.flight) /\ sup.stage = sup.flight.stage /\ sup.stage # None
    BY DEF SupInv, AtRest, Accept, Judging
  <2>3. ~Differs(sup.flight.before, sup.stage)
    BY DEF Accept, Completed
  <2>4. \A s \in Stages : s < sup.stage => rows[s] \in Terminal
    BY <2>2, <2>3, EarlierDisposed
  <2> QED BY <2>1, <2>2, <2>3, <2>4
<1> QED BY <1>1, SupInvariant, LockInvariant, PTL DEF Spec, HandoffVerified

(* While a stage has been launched and not accepted its baseline stays on    *)
(* disk, over any kills, interruptions and runs; only reconfigure changes    *)
(* it, and only in the protected files.                                      *)
THEOREM CheckpointsAreKept == ASSUME OneOperator PROVE Spec => CheckpointKept
<1>1. SupInv /\ LockInv /\ [Next]_vars =>
        [disk.flight.stage # None /\ disk'.flight # disk.flight =>
           \/ disk'.flight = NoFlight /\ Accept
           \/ disk'.flight = [disk.flight EXCEPT !.protected = files]]_vars
  <2> SUFFICES ASSUME SupInv, LockInv, Next, disk.flight.stage # None
               PROVE  \/ disk'.flight = disk.flight
                      \/ disk'.flight = NoFlight /\ Accept
                      \/ disk'.flight = [disk.flight EXCEPT !.protected = files]
    OBVIOUS
  <2>1. ASSUME NEW status, Finish(status), sup.pc # "off" PROVE disk'.flight = disk.flight
    BY <2>1 DEF Finish, Emit, LockInv
  <2>2. CASE TakeLock
    BY <2>2 DEF TakeLock, Emit
  <2>3. CASE Begin \/ Launch \/ Repair
    BY <2>3 DEF Begin, Launch, Repair, Rejected, Judging, Emit, LockInv
  <2>4. CASE Leave \/ Timeout \/ SessionFailed \/ GiveUp \/ Interrupt
    BY <2>1, <2>4 DEF Leave, Timeout, SessionFailed, GiveUp, Rejected, Judging, Interrupt
  <2>5. CASE Choose
    <3>1. sup.pc = "choose" /\ sup.flight = disk.flight
      BY <2>5 DEF Choose, LockInv
    <3>2. Baseline = sup.flight
      BY <3>1 DEF SupInv, AtRest, Baseline
    <3> QED BY <2>5, <3>1, <3>2 DEF Choose, Emit
  <2>6. CASE Accept
    BY <2>6 DEF Accept, Emit
  <2>7. CASE ReconfigureWrite
    BY <2>7 DEF ReconfigureWrite, Emit, LockInv
  <2>8. CASE Top \/ Kill \/ (Others /\ ~ReconfigureWrite)
    BY <2>8
    DEF Top, Kill, Others, WriteNote, RepairByHand, SetRow, SetQueue, EditFiles,
        SessionEnds, RequestStop, ReconfigureRead
  <2> QED
    BY <2>2, <2>3, <2>4, <2>5, <2>6, <2>7, <2>8 DEF Next, SupervisorStep
<1> QED BY <1>1, SupInvariant, LockInvariant, PTL DEF Spec, CheckpointKept
===============================================================================
