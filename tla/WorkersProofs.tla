------------------------------ MODULE WorkersProofs ------------------------------
(***************************************************************************)
(* What holds of the work done around the daily loop, for any number of    *)
(* repetitions, kills and workers: the full rebuild, the retrains, the     *)
(* capped extraction by a hosted model and the way of a page through the   *)
(* rate limiter.  They share no state.                                     *)
(***************************************************************************)
EXTENDS Rebuild, RetrainTrigger, HostedExtraction, FetchPath, FiniteSetTheorems, TLAPS

-------------------------------------------------------------------------------
(* The full rebuild. *)

TrainerSteps == {"none", "skipped", "launched", "fitting", "saved", "ok", "failed"}
RebuildSteps == {"none", "features", "build", "matrix", "launch", "train", "predict"}
Processes == [step : TrainerSteps, data : Int, late : BOOLEAN]
Crews == [Lines -> Processes]
ModelFiles == {"won", "others", "lgbm"}
RebuildTyped ==
    /\ raw \in Nat /\ best \in Int /\ rebuildKills \in 0..MaxRebuildKills
    /\ file \in [Files -> Int]
    /\ rebuild \in [step : RebuildSteps, resume : BOOLEAN]
    /\ trainer \in [0..MaxRebuildKills -> Crews]
    /\ refresh \in [step : {"none", "merged"}, data : Int]

(* Nothing is of a later scrape than the last, and the matrix is of none     *)
(* that the dataset has not held; a refresh may put the dataset back.        *)
DataInOrder ==
    /\ file["training"] <= best /\ file["unified"] <= best
    /\ best <= raw /\ refresh.data <= raw

(* What a model newer than the matrix on disk stems from, unless an orphan   *)
(* wrote it or a refresh interfered.                                         *)
OfMatrix(f) == file[f] = Useless \/ file[f] >= file["training"] \/ f \in astray
LgbmIsOfMatrix == file["lgbm"] \in {file["training"], Useless} \/ "lgbm" \in astray
NewerIsOfMatrix ==
    /\ <<"won", "training">> \in newer => OfMatrix("won")
    /\ <<"lgbm", "training">> \in newer => LgbmIsOfMatrix

(* The run's own trainers work only while it leaves the matrix alone, and a  *)
(* line that is skipped or saved has a model newer than the matrix.          *)
Own == trainer[rebuildKills]
TrainersInv ==
    /\ \A run \in 0..MaxRebuildKills : run > rebuildKills => trainer[run] = NoTrainer
    /\ rebuild.step # "train" => Own = NoTrainer
    /\ Own["catboost"].step \in {"fitting", "saved"} =>
          Own["catboost"].late \/ Own["catboost"].data >= file["training"]
    /\ Own["lgbm"].step = "fitting" => Own["lgbm"].data = file["training"]
    /\ Own["lgbm"].step # "saved"
    /\ \A line \in Lines : Own[line].step \in {"skipped", "saved", "ok"} =>
          <<ModelOf[line], "training">> \in newer
    /\ Own["catboost"].step = "ok" => OfMatrix("others")

(* What the run has made of the scrape it began with.                        *)
RunInv ==
    /\ rebuild.step \in {"build", "matrix"} => best = raw
    /\ rebuild.step \in {"launch", "train", "predict"} /\ ~rebuild.resume =>
          file["training"] >= raw
    /\ ~rebuild.resume => \A line \in Lines : Own[line].step # "skipped"
    /\ rebuild.step = "predict" =>
          /\ {<<"won", "training">>, <<"lgbm", "training">>} \subseteq newer
          /\ ~rebuild.resume => OfMatrix("others")

RebuildInv == /\ RebuildTyped /\ DataInOrder /\ NewerIsOfMatrix
              /\ TrainersInv /\ RunInv

LEMMA MaxOfTwo ==
    ASSUME NEW a \in Int, NEW b \in Int
    PROVE  Max({a, b}) \in {a, b} /\ Max({a, b}) >= a /\ Max({a, b}) >= b
BY DEF Max

(* A write changes one file, makes it newer than its input and makes what is *)
(* made from it older than it.                                               *)
LEMMA WriteEffect ==
    ASSUME RebuildTyped, NEW f \in Files, NEW g \in Int, Writes(f, g)
    PROVE  /\ file' \in [Files -> Int]
           /\ file'[f] = g
           /\ \A o \in Files \ {f} : file'[o] = file[o]
           /\ <<"won", "training">> \in newer' <=>
                 f = "won" \/ (f # "training" /\ <<"won", "training">> \in newer)
           /\ <<"lgbm", "training">> \in newer' <=>
                 f = "lgbm" \/ (f # "training" /\ <<"lgbm", "training">> \in newer)
<1>1. file' = [file EXCEPT ![f] = g]
  BY DEF Writes
<1>2. newer' = {pair \in newer : pair[2] # f} \cup {pair \in Compared : pair[1] = f}
  BY DEF Writes
<1>3. <<"won", "training">> \in newer' <=>
         f = "won" \/ (f # "training" /\ <<"won", "training">> \in newer)
  BY <1>2 DEF Compared
<1>4. <<"lgbm", "training">> \in newer' <=>
         f = "lgbm" \/ (f # "training" /\ <<"lgbm", "training">> \in newer)
  BY <1>2 DEF Compared
<1>5. file' \in [Files -> Int] /\ file'[f] = g /\ \A o \in Files \ {f} : file'[o] = file[o]
  BY <1>1 DEF RebuildTyped
<1> QED BY <1>3, <1>4, <1>5

LEMMA NoTrainerTyped ==
    NoTrainer \in Crews /\ \A line \in Lines : NoTrainer[line].step = "none"
BY DEF NoTrainer, Crews, Processes, Process, TrainerSteps, Absent

(* Everything is built from the first scrape, or nothing is.                 *)
LEMMA RebuildBegins == RebuildInit => RebuildInv
<1> SUFFICES ASSUME RebuildInit PROVE RebuildInv
  OBVIOUS
<1> USE RebuildAssumption DEF RebuildInit, Lines, Files, Absent, Useless
<1>1. rebuildKills = 0 /\ 0 \in 0..MaxRebuildKills /\ Own = NoTrainer
  BY DEF Own
<1>2. RebuildTyped
  <2>1. file \in [Files -> Int] /\ best \in Int
    OBVIOUS
  <2>2. trainer \in [0..MaxRebuildKills -> Crews]
    BY NoTrainerTyped
  <2> QED BY <1>1, <2>1, <2>2 DEF RebuildTyped, RebuildSteps, NoRun, NoRefresh
<1>3. DataInOrder /\ NewerIsOfMatrix
  BY DEF DataInOrder, NewerIsOfMatrix, OfMatrix, LgbmIsOfMatrix, NoRefresh
<1>4. TrainersInv /\ RunInv
  BY <1>1, NoTrainerTyped DEF TrainersInv, RunInv, NoRun
<1> QED BY <1>2, <1>3, <1>4 DEF RebuildInv

(* The steps of the run that write nothing.                                  *)
LEMMA RunStep ==
    ASSUME RebuildInv, UNCHANGED <<file, newer, best, astray, refresh>>,
           raw' \in Nat, raw <= raw', rebuildKills' \in 0..MaxRebuildKills,
           rebuild' \in [step : RebuildSteps, resume : BOOLEAN],
           trainer' \in [0..MaxRebuildKills -> Crews],
           TrainersInv', RunInv'
    PROVE  RebuildInv'
<1>1. RebuildTyped' /\ NewerIsOfMatrix'
  BY DEF RebuildInv, RebuildTyped, NewerIsOfMatrix, OfMatrix, LgbmIsOfMatrix
<1>2. DataInOrder'
  <2>1. best \in Int /\ raw \in Nat /\ refresh.data \in Int
    BY DEF RebuildInv, RebuildTyped
  <2> QED BY <2>1 DEF RebuildInv, DataInOrder
<1> QED BY <1>1, <1>2 DEF RebuildInv

(* Beginning, going on, ending and being killed.                             *)
LEMMA RunKeeps ==
    ASSUME RebuildInv,
           \/ \E resume \in BOOLEAN : BeginRebuild(resume)
           \/ SkipFeatures \/ Launch \/ EndTraining \/ Predict \/ KillRebuild
    PROVE  RebuildInv'
<1> USE DEF Lines, Files
<1>0. /\ raw \in Nat /\ best \in Int /\ file \in [Files -> Int]
      /\ rebuildKills \in 0..MaxRebuildKills
      /\ rebuild \in [step : RebuildSteps, resume : BOOLEAN]
      /\ trainer \in [0..MaxRebuildKills -> Crews]
      /\ Own \in Crews
      /\ best <= raw
  BY DEF RebuildInv, RebuildTyped, DataInOrder, Own
<1>1. /\ NoTrainer \in Crews /\ \A line \in Lines : NoTrainer[line].step = "none"
      /\ NoRun \in [step : RebuildSteps, resume : BOOLEAN]
      /\ NoRun.step = "none" /\ NoRun.resume = FALSE
  BY NoTrainerTyped DEF NoRun, RebuildSteps
<1>2. ASSUME NEW step \in RebuildSteps, rebuild' = At(step)
      PROVE  /\ rebuild'.step = step /\ rebuild'.resume = rebuild.resume
             /\ rebuild' \in [step : RebuildSteps, resume : BOOLEAN]
  BY <1>0, <1>2 DEF At
<1>3. ASSUME NEW resume \in BOOLEAN, BeginRebuild(resume) PROVE RebuildInv'
  <2>1. /\ raw' \in Nat /\ raw <= raw'
        /\ rebuild' = [step |-> "features", resume |-> resume]
        /\ Own = NoTrainer
        /\ UNCHANGED <<file, newer, best, astray, trainer, refresh, rebuildKills>>
    BY <1>0, <1>3 DEF BeginRebuild, RebuildInv, TrainersInv
  <2>2. TrainersInv' /\ RunInv'
    BY <1>1, <2>1 DEF RebuildInv, TrainersInv, RunInv, Own
  <2>3. /\ rebuild' \in [step : RebuildSteps, resume : BOOLEAN]
        /\ rebuildKills' \in 0..MaxRebuildKills
        /\ trainer' \in [0..MaxRebuildKills -> Crews]
    BY <1>0, <2>1 DEF RebuildSteps
  <2>4. /\ raw' \in Nat /\ raw <= raw'
        /\ UNCHANGED <<file, newer, best, astray, refresh>>
    BY <2>1
  <2> QED BY <2>2, <2>3, <2>4, RunStep
<1>4. CASE SkipFeatures
  <2>1. rebuild' = At("launch") /\ "launch" \in RebuildSteps /\ rebuild.resume
        /\ Own = NoTrainer
        /\ UNCHANGED <<raw, file, newer, best, astray, trainer, refresh, rebuildKills>>
    BY <1>4 DEF SkipFeatures, RebuildSteps, RebuildInv, TrainersInv
  <2>2. TrainersInv' /\ RunInv'
    BY <1>1, <1>2, <2>1 DEF RebuildInv, TrainersInv, RunInv, Own
  <2>3. rebuild' \in [step : RebuildSteps, resume : BOOLEAN]
    BY <1>2, <2>1
  <2> QED BY <1>0, <2>1, <2>2, <2>3, RunStep
<1>5. CASE Launch
  <2> DEFINE crew == [line \in Lines |-> Process(
                         IF rebuild.resume /\ Fresh(ModelOf[line], "training")
                         THEN "skipped" ELSE "launched")]
  <2>1. /\ trainer' = [trainer EXCEPT ![rebuildKills] = crew]
        /\ rebuild' = At("train") /\ "train" \in RebuildSteps
        /\ UNCHANGED <<raw, file, newer, best, astray, refresh, rebuildKills>>
        /\ ~rebuild.resume => file["training"] >= raw
    BY <1>5 DEF Launch, RebuildSteps, RebuildInv, RunInv
  <2>2. /\ crew \in Crews
        /\ \A line \in Lines :
              /\ crew[line].step \in {"skipped", "launched"}
              /\ crew[line].step = "skipped" =>
                    rebuild.resume /\ <<ModelOf[line], "training">> \in newer
    BY DEF Crews, Processes, Process, TrainerSteps, Absent, Fresh
  <2> HIDE DEF crew
  <2>3. /\ trainer' \in [0..MaxRebuildKills -> Crews] /\ Own' = crew
        /\ \A run \in 0..MaxRebuildKills : run # rebuildKills => trainer'[run] = trainer[run]
    BY <1>0, <2>1, <2>2 DEF Own
  <2>4. TrainersInv'
    <3>1. \A run \in 0..MaxRebuildKills : run > rebuildKills' => trainer'[run] = NoTrainer
      BY <1>0, <2>1, <2>3 DEF RebuildInv, TrainersInv
    <3> QED BY <1>2, <2>1, <2>2, <2>3, <3>1 DEF TrainersInv
  <2>5. RunInv'
    BY <1>2, <2>1, <2>2, <2>3 DEF RunInv
  <2> QED BY <1>0, <1>2, <2>1, <2>3, <2>4, <2>5, RunStep
<1>6. CASE EndTraining
  <2>1. /\ trainer' = [trainer EXCEPT ![rebuildKills] = NoTrainer]
        /\ UNCHANGED <<raw, file, newer, best, astray, refresh, rebuildKills>>
        /\ rebuild.step = "train"
        /\ \A line \in Lines : Own[line].step \in {"ok", "failed", "skipped"}
        /\ ~rebuild.resume => file["training"] >= raw
    BY <1>6 DEF EndTraining, RebuildInv, RunInv, Own
  <2>2. /\ trainer' \in [0..MaxRebuildKills -> Crews] /\ Own' = NoTrainer
        /\ \A run \in 0..MaxRebuildKills : run # rebuildKills => trainer'[run] = trainer[run]
    BY <1>0, <1>1, <2>1 DEF Own
  <2>3. \/ rebuild' = NoRun
        \/ rebuild' = At("predict") /\ \A line \in Lines : Own[line].step # "failed"
    BY <1>6 DEF EndTraining, Own
  <2>4. rebuild' = At("predict") =>
           /\ {<<"won", "training">>, <<"lgbm", "training">>} \subseteq newer
           /\ ~rebuild.resume => OfMatrix("others")
    <3> SUFFICES ASSUME \A line \in Lines : Own[line].step # "failed" PROVE
           /\ {<<"won", "training">>, <<"lgbm", "training">>} \subseteq newer
           /\ ~rebuild.resume => OfMatrix("others")
      BY <1>1, <1>2, <2>3 DEF RebuildSteps
    <3>1. \A line \in Lines : Own[line].step \in {"ok", "skipped"}
      BY <2>1
    <3>2. \A line \in Lines : <<ModelOf[line], "training">> \in newer
      BY <3>1 DEF RebuildInv, TrainersInv
    <3>3. ASSUME ~rebuild.resume PROVE OfMatrix("others")
      BY <3>1, <3>3 DEF RebuildInv, RunInv, TrainersInv
    <3> QED BY <3>2, <3>3 DEF ModelOf
  <2>5. TrainersInv'
    <3>1. \A run \in 0..MaxRebuildKills : run > rebuildKills' => trainer'[run] = NoTrainer
      BY <1>0, <2>1, <2>2 DEF RebuildInv, TrainersInv
    <3> QED BY <1>1, <2>2, <3>1 DEF TrainersInv
  <2>6. OfMatrix("others")' = OfMatrix("others")
    BY <2>1 DEF OfMatrix
  <2>7. RunInv' /\ rebuild' \in [step : RebuildSteps, resume : BOOLEAN]
    BY <1>1, <1>2, <2>1, <2>2, <2>3, <2>4, <2>6 DEF RunInv, RebuildSteps
  <2> QED BY <1>0, <2>1, <2>2, <2>5, <2>7, RunStep
<1>7. CASE Predict
  <2>1. rebuild' = NoRun /\ Own = NoTrainer
        /\ UNCHANGED <<raw, file, newer, best, astray, trainer, refresh, rebuildKills>>
    BY <1>7 DEF Predict, RebuildInv, TrainersInv
  <2>2. TrainersInv' /\ RunInv'
    BY <1>1, <2>1 DEF RebuildInv, TrainersInv, RunInv, Own
  <2> QED BY <1>0, <1>1, <2>1, <2>2, RunStep
<1>8. CASE KillRebuild
  <2> DEFINE left == [line \in Lines |->
                IF trainer[rebuildKills][line].step \in {"launched", "fitting", "saved"}
                THEN trainer[rebuildKills][line] ELSE Process("none")]
  <2>1. /\ rebuild' = NoRun /\ rebuildKills < MaxRebuildKills
        /\ rebuildKills' = rebuildKills + 1 /\ rebuildKills' \in 0..MaxRebuildKills
        /\ trainer' = [trainer EXCEPT ![rebuildKills] = left]
        /\ UNCHANGED <<raw, file, newer, best, astray, refresh>>
    BY <1>0, <1>8, RebuildAssumption DEF KillRebuild
  <2>2. Process("none") \in Processes
    BY DEF Process, Processes, TrainerSteps, Absent
  <2>3. left \in Crews
    BY <1>0, <2>2 DEF Crews
  <2> HIDE DEF left
  <2>4. /\ trainer' \in [0..MaxRebuildKills -> Crews]
        /\ \A run \in 0..MaxRebuildKills : run # rebuildKills => trainer'[run] = trainer[run]
    BY <1>0, <2>1, <2>3
  <2>5. \A run \in 0..MaxRebuildKills : run > rebuildKills => trainer'[run] = NoTrainer
    BY <1>0, <2>4 DEF RebuildInv, TrainersInv
  <2>6. Own' = NoTrainer
    BY <1>0, <2>1, <2>5 DEF Own
  <2>7. \A run \in 0..MaxRebuildKills : run > rebuildKills' => trainer'[run] = NoTrainer
    BY <1>0, <2>1, <2>5
  <2>8. TrainersInv' /\ RunInv'
    BY <1>1, <2>1, <2>6, <2>7 DEF TrainersInv, RunInv
  <2> QED BY <1>0, <1>1, <2>1, <2>4, <2>8, RunStep
<1> QED BY <1>3, <1>4, <1>5, <1>6, <1>7, <1>8

(* What a refresh is to write is of no later scrape than the last.           *)
LEMMA RefreshKeeps ==
    ASSUME RebuildInv, RefreshMerges
    PROVE  RebuildInv'
<1>0. raw \in Nat /\ file["unified"] \in Int /\ file["unified"] <= raw /\ best \in Int
  BY DEF RebuildInv, RebuildTyped, DataInOrder, Files
<1>1. PICK sources \in 1..raw, found \in {file["unified"], Absent} :
         refresh' = [step |-> "merged", data |-> Max({sources, found})]
  BY DEF RefreshMerges
<1>2. UNCHANGED <<raw, file, newer, best, astray, rebuild, trainer, rebuildKills>>
  BY DEF RefreshMerges
<1>3. Max({sources, found}) \in Int /\ Max({sources, found}) <= raw
  <2>1. sources \in Int /\ sources <= raw /\ found \in Int /\ found <= raw
    BY <1>0 DEF Absent
  <2> QED BY <1>0, <2>1, MaxOfTwo
<1>4. RebuildTyped' /\ DataInOrder'
  BY <1>0, <1>1, <1>2, <1>3 DEF RebuildInv, RebuildTyped, DataInOrder
<1>5. NewerIsOfMatrix' /\ TrainersInv' /\ RunInv'
  BY <1>2 DEF RebuildInv, NewerIsOfMatrix, OfMatrix, LgbmIsOfMatrix, TrainersInv, RunInv, Own
<1> QED BY <1>4, <1>5 DEF RebuildInv

(* A write of the dataset: by a refresh, or by the run before it builds the  *)
(* matrix.  No matrix or model gets newer than what it is made from.         *)
LEMMA DatasetKeeps ==
    ASSUME RebuildInv, NEW g \in Int, g <= raw, WritesDataset(g),
           UNCHANGED <<raw, astray, trainer, rebuildKills>>,
           refresh' \in {refresh, NoRefresh},
           \/ UNCHANGED rebuild
           \/ rebuild' = At("build") /\ rebuild.step = "features" /\ g = raw
    PROVE  RebuildInv'
<1> USE DEF Lines, Files
<1>0. RebuildTyped /\ raw \in Nat /\ best \in Int
  BY DEF RebuildInv, RebuildTyped
<1>1. "unified" \in Files /\ Writes("unified", g) /\ best' = Max({best, g})
  BY DEF WritesDataset
<1>2. /\ file' \in [Files -> Int]
      /\ file'["unified"] = g
      /\ \A o \in Files \ {"unified"} : file'[o] = file[o]
      /\ <<"won", "training">> \in newer' <=> <<"won", "training">> \in newer
      /\ <<"lgbm", "training">> \in newer' <=> <<"lgbm", "training">> \in newer
  BY <1>0, <1>1, WriteEffect
<1>3. best' \in {best, g} /\ best' >= best /\ best' >= g
  BY <1>0, <1>1, MaxOfTwo
<1>4. RebuildTyped'
  BY <1>0, <1>2, <1>3 DEF RebuildTyped, At, RebuildSteps, NoRefresh, Absent
<1>5. DataInOrder'
  <2>1. /\ file["training"] <= best /\ file["unified"] <= best /\ best <= raw
        /\ refresh.data <= raw
    BY DEF RebuildInv, DataInOrder
  <2>2. file["training"] \in Int /\ file["unified"] \in Int /\ refresh.data \in Int
    BY <1>0 DEF RebuildTyped
  <2>3. refresh'.data <= raw
    BY <1>0, <2>1 DEF NoRefresh, Absent
  <2> QED BY <1>0, <1>2, <1>3, <2>1, <2>2, <2>3 DEF DataInOrder
<1>6. NewerIsOfMatrix' /\ OfMatrix("others")' = OfMatrix("others") /\ Own' = Own
  BY <1>2 DEF RebuildInv, NewerIsOfMatrix, OfMatrix, LgbmIsOfMatrix, Own
<1>7. CASE UNCHANGED rebuild
  <2>1. TrainersInv'
    BY <1>2, <1>6, <1>7 DEF RebuildInv, TrainersInv, ModelOf
  <2>2. best = raw => best' = raw
    BY <1>0, <1>3
  <2>3. RunInv'
    BY <1>2, <1>6, <1>7, <2>2 DEF RebuildInv, RunInv
  <2> QED BY <1>4, <1>5, <1>6, <2>1, <2>3 DEF RebuildInv
<1>8. CASE rebuild' = At("build") /\ rebuild.step = "features" /\ g = raw
  <2>1. /\ rebuild'.step = "build" /\ rebuild'.resume = rebuild.resume
        /\ Own = NoTrainer
        /\ best <= raw
    BY <1>0, <1>8 DEF At, RebuildTyped, RebuildInv, TrainersInv, DataInOrder
  <2>2. \A line \in Lines : Own[line].step = "none"
    BY <2>1, NoTrainerTyped
  <2>3. best' = raw
    BY <1>0, <1>3, <1>8, <2>1
  <2>4. TrainersInv'
    BY <1>6, <2>1, <2>2 DEF RebuildInv, TrainersInv
  <2>5. RunInv'
    BY <1>6, <2>1, <2>2, <2>3 DEF RunInv
  <2> QED BY <1>4, <1>5, <1>6, <2>4, <2>5 DEF RebuildInv
<1> QED BY <1>7, <1>8

(* A write of the matrix: no model is newer than it until one is trained on  *)
(* it.                                                                       *)
LEMMA MatrixKeeps ==
    ASSUME RebuildInv, BuildMatrix \/ MatrixBuilt
    PROVE  RebuildInv'
<1> USE DEF Lines, Files
<1>0. RebuildTyped /\ raw \in Nat /\ best \in Int
  BY DEF RebuildInv, RebuildTyped
<1>1. PICK g \in {Useless, raw} :
         /\ Writes("training", g)
         /\ \/ rebuild' \in {At("matrix"), NoRun}
            \/ rebuild' = At("launch") /\ g = raw
  BY DEF BuildMatrix, MatrixBuilt
<1>2. UNCHANGED <<raw, best, astray, trainer, refresh, rebuildKills>>
  BY DEF BuildMatrix, MatrixBuilt
<1>3. raw \in Int /\ g \in Int /\ g <= raw /\ "training" \in Files
  BY <1>0 DEF Useless
<1>4. /\ file' \in [Files -> Int]
      /\ file'["training"] = g
      /\ \A o \in Files \ {"training"} : file'[o] = file[o]
      /\ <<"won", "training">> \notin newer'
      /\ <<"lgbm", "training">> \notin newer'
  BY <1>0, <1>1, <1>3, WriteEffect
<1>5. Own = NoTrainer /\ best = raw /\ Own' = Own
  BY <1>2 DEF RebuildInv, TrainersInv, RunInv, BuildMatrix, MatrixBuilt, Own
<1>6. /\ rebuild' \in [step : RebuildSteps, resume : BOOLEAN]
      /\ rebuild'.step \in {"matrix", "launch", "none"}
      /\ rebuild'.step = "launch" => g = raw
  <2>1. /\ At("matrix") \in [step : RebuildSteps, resume : BOOLEAN]
        /\ At("matrix").step = "matrix"
    BY <1>0 DEF At, RebuildTyped, RebuildSteps
  <2>2. /\ At("launch") \in [step : RebuildSteps, resume : BOOLEAN]
        /\ At("launch").step = "launch"
    BY <1>0 DEF At, RebuildTyped, RebuildSteps
  <2>3. NoRun \in [step : RebuildSteps, resume : BOOLEAN] /\ NoRun.step = "none"
    BY DEF NoRun, RebuildSteps
  <2> QED BY <1>1, <2>1, <2>2, <2>3
<1>7. \A line \in Lines : Own[line].step = "none"
  BY <1>5, NoTrainerTyped
<1>8. RebuildTyped'
  BY <1>0, <1>2, <1>4, <1>6 DEF RebuildTyped
<1>9. DataInOrder' /\ NewerIsOfMatrix'
  BY <1>0, <1>2, <1>3, <1>4, <1>5 DEF RebuildInv, DataInOrder, NewerIsOfMatrix
<1>10. TrainersInv'
  BY <1>2, <1>5, <1>6, <1>7 DEF RebuildInv, TrainersInv
<1>11. RunInv'
  BY <1>2, <1>3, <1>4, <1>5, <1>6, <1>7 DEF RunInv
<1> QED BY <1>8, <1>9, <1>10, <1>11 DEF RebuildInv

(* What a trainer changes: its own record, and a model.                      *)
LEMMA TrainerMoves ==
    ASSUME RebuildTyped, NEW run \in 0..MaxRebuildKills, NEW line \in Lines,
           NEW process \in Processes,
           trainer' = [trainer EXCEPT ![run][line] = process]
    PROVE  /\ trainer' \in [0..MaxRebuildKills -> Crews]
           /\ trainer'[run][line] = process
           /\ \A other \in Lines \ {line} : trainer'[run][other] = trainer[run][other]
           /\ \A other \in 0..MaxRebuildKills : other # run => trainer'[other] = trainer[other]
BY DEF RebuildTyped, Crews

LEMMA TrainerSaves ==
    ASSUME RebuildTyped, NEW run \in 0..MaxRebuildKills, NEW line \in Lines,
           NEW f \in ModelFiles, NEW g \in Int, WritesModel(run, line, f, g)
    PROVE  /\ file' \in [Files -> Int] /\ file'[f] = g
           /\ \A o \in Files \ {f} : file'[o] = file[o]
           /\ <<"won", "training">> \in newer' <=> f = "won" \/ <<"won", "training">> \in newer
           /\ <<"lgbm", "training">> \in newer' <=> f = "lgbm" \/ <<"lgbm", "training">> \in newer
           /\ \A o \in ModelFiles \ {f} : o \in astray' <=> o \in astray
           /\ Orphan(run) \/ trainer[run][line].late => f \in astray'
           /\ UNCHANGED <<raw, best, rebuild, refresh, rebuildKills>>
<1>1. f \in Files /\ f # "training" /\ Writes(f, g)
  BY DEF ModelFiles, Files, WritesModel
<1>2. /\ file' \in [Files -> Int] /\ file'[f] = g
      /\ \A o \in Files \ {f} : file'[o] = file[o]
      /\ <<"won", "training">> \in newer' <=> f = "won" \/ <<"won", "training">> \in newer
      /\ <<"lgbm", "training">> \in newer' <=> f = "lgbm" \/ <<"lgbm", "training">> \in newer
  BY <1>1, WriteEffect
<1>3. \A o \in ModelFiles \ {f} : o \in astray' <=> o \in astray
  BY DEF WritesModel
<1>4. Orphan(run) \/ trainer[run][line].late => f \in astray'
  BY DEF WritesModel
<1>5. UNCHANGED <<raw, best, rebuild, refresh, rebuildKills>>
  BY DEF WritesModel
<1> QED BY <1>2, <1>3, <1>4, <1>5

(* What a trainer does: it reads, ends, or writes a model and goes on.       *)
Reads(run, line, process) ==
    /\ process = [step |-> "fitting", data |-> file[DataOf[line]],
                  late |-> DataOf[line] = "unified" /\ PutBack]
    /\ UNCHANGED <<raw, file, newer, best, astray, rebuild, refresh, rebuildKills>>
GivesUp(run, process) ==
    /\ process.step = (IF Orphan(run) THEN "none" ELSE "failed")
    /\ UNCHANGED <<raw, file, newer, best, astray, rebuild, refresh, rebuildKills>>
SavesModel(run, line, process, g) ==
    /\ trainer[run][line].step = "fitting"
    /\ g \in {trainer[run][line].data, Useless}
    /\ WritesModel(run, line, ModelOf[line], g)
    /\ \/ process.step \in {"none", "failed"}
       \/ line = "lgbm" /\ process.step = "ok"
       \/ /\ line = "catboost" /\ process.step = "saved"
          /\ process.data = trainer[run][line].data
          /\ process.late = trainer[run][line].late
SavesOthers(run, line, process, g) ==
    /\ trainer[run][line].step = "saved"
    /\ g \in {trainer[run][line].data, Useless}
    /\ WritesModel(run, line, "others", g)
    /\ process.step \in {"none", "failed", "ok"}
Does(run, line, process) ==
    \/ Reads(run, line, process)
    \/ GivesUp(run, process)
    \/ \E g \in Int : SavesModel(run, line, process, g) \/ SavesOthers(run, line, process, g)

LEMMA TrainerDoes ==
    ASSUME RebuildInv, NEW run \in 0..MaxRebuildKills, NEW line \in Lines,
           TrainerStep(run, line) \/ (line = "catboost" /\ Finish(run))
    PROVE  /\ trainer[run][line].step \in {"launched", "fitting", "saved"}
           /\ \E process \in Processes :
                 /\ trainer' = [trainer EXCEPT ![run][line] = process]
                 /\ Does(run, line, process)
<1> DEFINE old == trainer[run][line]
<1>0. /\ file \in [Files -> Int] /\ trainer \in [0..MaxRebuildKills -> Crews]
      /\ old \in Processes /\ Useless \in Int
  BY DEF RebuildInv, RebuildTyped, Crews, Useless
<1>1. old.step \in {"launched", "fitting", "saved"}
  BY DEF TrainerStep, ReadData, SaveModel, SpoilModel, Finish, Fail
<1>2. ASSUME NEW step \in {"ok", "failed"}, Ends(run, line, step)
      PROVE  \E process \in Processes :
                /\ trainer' = [trainer EXCEPT ![run][line] = process]
                /\ process.step = (IF Orphan(run) THEN "none" ELSE step)
  <2>1. Process(IF Orphan(run) THEN "none" ELSE step) \in Processes
        /\ Process(IF Orphan(run) THEN "none" ELSE step).step
              = (IF Orphan(run) THEN "none" ELSE step)
    BY DEF Process, Processes, TrainerSteps, Absent
  <2> QED BY <1>2, <2>1 DEF Ends
<1>3. ASSUME GoesOn(run, line)
      PROVE  \E process \in Processes :
                /\ trainer' = [trainer EXCEPT ![run][line] = process]
                /\ IF line = "catboost" /\ old.step = "fitting"
                   THEN /\ process.step = "saved" /\ process.data = old.data
                        /\ process.late = old.late
                   ELSE process.step \in {"none", "ok"}
  <2>1. CASE line = "catboost" /\ old.step = "fitting"
    <3>1. trainer' = [trainer EXCEPT ![run][line] = [old EXCEPT !.step = "saved"]]
      BY <1>0, <1>3, <2>1 DEF GoesOn
    <3>2. [old EXCEPT !.step = "saved"] \in Processes
          /\ [old EXCEPT !.step = "saved"].step = "saved"
          /\ [old EXCEPT !.step = "saved"].data = old.data
          /\ [old EXCEPT !.step = "saved"].late = old.late
      BY <1>0 DEF Processes, TrainerSteps
    <3> QED BY <2>1, <3>1, <3>2
  <2>2. CASE ~(line = "catboost" /\ old.step = "fitting")
    BY <1>2, <1>3, <2>2 DEF GoesOn
  <2> QED BY <2>1, <2>2
<1>4. CASE ReadData(run, line)
  <2>1. DataOf[line] \in Files /\ PutBack \in BOOLEAN
    BY DEF DataOf, Files, Lines, PutBack
  <2> DEFINE process == [step |-> "fitting", data |-> file[DataOf[line]],
                         late |-> DataOf[line] = "unified" /\ PutBack]
  <2>2. process \in Processes
    BY <1>0, <2>1 DEF Processes, TrainerSteps
  <2>3. trainer' = [trainer EXCEPT ![run][line] = process] /\ Reads(run, line, process)
    BY <1>4 DEF ReadData, Reads
  <2> QED BY <1>1, <2>2, <2>3 DEF Does
<1>5. CASE Fail(run, line)
  BY <1>1, <1>2, <1>5 DEF Fail, Does, GivesUp
<1>6. CASE SaveModel(run, line)
  <2>1. old.step = "fitting" /\ WritesModel(run, line, ModelOf[line], old.data)
        /\ old.data \in Int /\ line \in {"catboost", "lgbm"}
    BY <1>0, <1>6 DEF SaveModel, Processes, Lines
  <2>2. PICK process \in Processes :
           /\ trainer' = [trainer EXCEPT ![run][line] = process]
           /\ \/ process.step \in {"none", "failed"}
              \/ line = "lgbm" /\ process.step = "ok"
              \/ /\ line = "catboost" /\ process.step = "saved"
                 /\ process.data = old.data /\ process.late = old.late
    <3>1. CASE GoesOn(run, line)
      BY <1>3, <2>1, <3>1
    <3>2. CASE Ends(run, line, "failed")
      BY <1>2, <3>2
    <3> QED BY <1>6, <3>1, <3>2 DEF SaveModel
  <2>3. SavesModel(run, line, process, old.data)
    BY <2>1, <2>2 DEF SavesModel
  <2> QED BY <1>1, <2>1, <2>2, <2>3 DEF Does
<1>7. CASE line = "catboost" /\ Finish(run)
  <2>1. old.step = "saved" /\ WritesModel(run, line, "others", old.data)
        /\ old.data \in Int
    BY <1>0, <1>7 DEF Finish, Processes
  <2>2. PICK process \in Processes :
           /\ trainer' = [trainer EXCEPT ![run][line] = process]
           /\ process.step \in {"none", "ok"}
    BY <1>3, <1>7, <2>1 DEF Finish
  <2>3. SavesOthers(run, line, process, old.data)
    BY <2>1, <2>2 DEF SavesOthers
  <2> QED BY <1>1, <2>1, <2>2, <2>3 DEF Does
<1>8. CASE SpoilModel(run, line)
  <2>1. PICK process \in Processes :
           /\ trainer' = [trainer EXCEPT ![run][line] = process]
           /\ \/ process.step \in {"none", "failed"}
              \/ IF line = "catboost" /\ old.step = "fitting"
                 THEN /\ process.step = "saved" /\ process.data = old.data
                      /\ process.late = old.late
                 ELSE process.step \in {"none", "ok"}
    <3>1. CASE Ends(run, line, "failed")
      BY <1>2, <3>1
    <3>2. CASE GoesOn(run, line)
      BY <1>3, <3>2
    <3> QED BY <1>8, <3>1, <3>2 DEF SpoilModel
  <2>2. CASE old.step = "fitting" /\ WritesModel(run, line, ModelOf[line], Useless)
    <3>1. SavesModel(run, line, process, Useless)
      BY <2>1, <2>2 DEF SavesModel, Lines
    <3> QED BY <1>0, <1>1, <2>1, <3>1 DEF Does
  <2>3. CASE old.step = "saved" /\ WritesModel(run, line, "others", Useless)
    <3>1. SavesOthers(run, line, process, Useless)
      BY <2>1, <2>3 DEF SavesOthers
    <3> QED BY <1>0, <1>1, <2>1, <3>1 DEF Does
  <2> QED BY <1>8, <2>2, <2>3 DEF SpoilModel
<1> QED BY <1>4, <1>5, <1>6, <1>7, <1>8 DEF TrainerStep

(* Nothing but models and trainers is touched.                               *)
LEMMA ModelKeeps ==
    ASSUME RebuildInv, NEW run \in 0..MaxRebuildKills, NEW line \in Lines,
           NEW f \in ModelFiles, NEW g \in Int, WritesModel(run, line, f, g),
           trainer' \in [0..MaxRebuildKills -> Crews],
           TrainersInv', RunInv',
           \/ f \in astray' \/ f = "others"
           \/ f = "won" /\ OfMatrix("won")'
           \/ f = "lgbm" /\ LgbmIsOfMatrix'
    PROVE  RebuildInv'
<1> USE DEF Files, ModelFiles
<1>0. /\ file' \in [Files -> Int]
      /\ \A o \in Files \ {f} : file'[o] = file[o]
      /\ <<"won", "training">> \in newer' <=> f = "won" \/ <<"won", "training">> \in newer
      /\ <<"lgbm", "training">> \in newer' <=> f = "lgbm" \/ <<"lgbm", "training">> \in newer
      /\ \A o \in ModelFiles \ {f} : o \in astray' <=> o \in astray
      /\ UNCHANGED <<raw, best, rebuild, refresh, rebuildKills>>
  BY TrainerSaves DEF RebuildInv
<1>1. RebuildTyped' /\ DataInOrder'
  BY <1>0 DEF RebuildInv, RebuildTyped, DataInOrder
<1>2. <<"won", "training">> \in newer' => OfMatrix("won")'
  <2>1. CASE f = "won"
    BY <2>1 DEF OfMatrix
  <2>2. CASE f # "won"
    BY <1>0, <2>2 DEF RebuildInv, NewerIsOfMatrix, OfMatrix
  <2> QED BY <2>1, <2>2
<1>3. <<"lgbm", "training">> \in newer' => LgbmIsOfMatrix'
  <2>1. CASE f = "lgbm"
    BY <2>1 DEF LgbmIsOfMatrix
  <2>2. CASE f # "lgbm"
    BY <1>0, <2>2 DEF RebuildInv, NewerIsOfMatrix, LgbmIsOfMatrix
  <2> QED BY <2>1, <2>2
<1> QED BY <1>1, <1>2, <1>3 DEF RebuildInv, NewerIsOfMatrix

(* The trainers of a run that was killed: a model they write is astray.      *)
LEMMA OrphanKeeps ==
    ASSUME RebuildInv, NEW run \in 0..MaxRebuildKills, NEW line \in Lines,
           NEW process \in Processes, Does(run, line, process),
           trainer' = [trainer EXCEPT ![run][line] = process], Orphan(run)
    PROVE  RebuildInv'
<1> USE DEF Lines, Files, ModelFiles
<1>0. /\ RebuildTyped /\ raw \in Nat /\ rebuildKills \in 0..MaxRebuildKills
      /\ rebuild \in [step : RebuildSteps, resume : BOOLEAN]
      /\ run < rebuildKills
  BY DEF RebuildInv, RebuildTyped, Orphan
<1>1. /\ trainer' \in [0..MaxRebuildKills -> Crews]
      /\ \A other \in 0..MaxRebuildKills : other # run => trainer'[other] = trainer[other]
  BY <1>0, TrainerMoves
<1>2. CASE Reads(run, line, process) \/ GivesUp(run, process)
  <2>1. UNCHANGED <<raw, file, newer, best, astray, rebuild, refresh, rebuildKills>>
    BY <1>2 DEF Reads, GivesUp
  <2>2. Own' = Own
    BY <1>0, <1>1, <2>1 DEF Own
  <2>3. TrainersInv'
    BY <1>0, <1>1, <2>1, <2>2 DEF RebuildInv, TrainersInv, OfMatrix
  <2>4. RunInv'
    BY <2>1, <2>2 DEF RebuildInv, RunInv, OfMatrix
  <2> QED BY <1>0, <1>1, <2>1, <2>3, <2>4, RunStep
<1>3. CASE \E g \in Int : SavesModel(run, line, process, g) \/ SavesOthers(run, line, process, g)
  <2>1. PICK f \in ModelFiles, g \in Int : WritesModel(run, line, f, g)
    BY <1>3 DEF SavesModel, SavesOthers, ModelOf
  <2>2. /\ file' \in [Files -> Int]
        /\ \A o \in Files \ {f} : file'[o] = file[o]
        /\ <<"won", "training">> \in newer => <<"won", "training">> \in newer'
        /\ <<"lgbm", "training">> \in newer => <<"lgbm", "training">> \in newer'
        /\ \A o \in ModelFiles \ {f} : o \in astray' <=> o \in astray
        /\ f \in astray'
        /\ UNCHANGED <<raw, best, rebuild, refresh, rebuildKills>>
    BY <1>0, <2>1, TrainerSaves
  <2>3. Own' = Own /\ file'["training"] = file["training"]
    BY <1>0, <1>1, <2>2 DEF Own
  <2>4. OfMatrix("others") => OfMatrix("others")'
    BY <2>2, <2>3 DEF OfMatrix
  <2>5. TrainersInv'
    BY <1>0, <1>1, <2>2, <2>3, <2>4 DEF RebuildInv, TrainersInv, ModelOf
  <2>6. RunInv'
    BY <2>2, <2>3, <2>4 DEF RebuildInv, RunInv
  <2> QED BY <1>1, <2>1, <2>2, <2>5, <2>6, ModelKeeps
<1> QED BY <1>2, <1>3 DEF Does

(* The run's own trainers: what a line reads, it writes, and the matrix      *)
(* stays.                                                                    *)
LEMMA OwnKeeps ==
    ASSUME RebuildInv, NEW line \in Lines,
           NEW process \in Processes, Does(rebuildKills, line, process),
           trainer' = [trainer EXCEPT ![rebuildKills][line] = process],
           Own[line].step \in {"launched", "fitting", "saved"}
    PROVE  RebuildInv'
<1> USE DEF Lines, Files, ModelFiles
<1>0. /\ RebuildTyped /\ raw \in Nat /\ rebuildKills \in 0..MaxRebuildKills
      /\ best \in Int /\ file \in [Files -> Int]
      /\ file["training"] \in Int /\ file["unified"] \in Int
      /\ rebuild \in [step : RebuildSteps, resume : BOOLEAN]
      /\ ~Orphan(rebuildKills)
      /\ Own[line] \in Processes /\ Own[line].data \in Int
  <2>1. RebuildTyped
    BY DEF RebuildInv
  <2>2. Own[line] \in Processes
    BY <2>1 DEF RebuildTyped, Crews, Own
  <2> QED BY <2>1, <2>2 DEF RebuildTyped, Orphan, Processes
<1>1. /\ trainer' \in [0..MaxRebuildKills -> Crews]
      /\ trainer'[rebuildKills][line] = process
      /\ \A other \in Lines \ {line} : trainer'[rebuildKills][other] = Own[other]
      /\ \A other \in 0..MaxRebuildKills :
            other # rebuildKills => trainer'[other] = trainer[other]
  <2>1. PICK run \in 0..MaxRebuildKills : run = rebuildKills
    BY <1>0
  <2>2. /\ trainer' \in [0..MaxRebuildKills -> Crews]
        /\ trainer'[run][line] = process
        /\ \A other \in Lines \ {line} : trainer'[run][other] = trainer[run][other]
        /\ \A other \in 0..MaxRebuildKills : other # run => trainer'[other] = trainer[other]
    <3>1. trainer' = [trainer EXCEPT ![run][line] = process]
      BY <2>1
    <3>2. RebuildTyped /\ line \in Lines /\ process \in Processes
      BY <1>0
    <3> HIDE DEF Lines, Files, ModelFiles
    <3> QED
      BY ONLY <3>1, <3>2, run \in 0..MaxRebuildKills, TrainerMoves
  <2> QED BY <2>1, <2>2 DEF Own
<1>2. UNCHANGED <<raw, best, rebuild, refresh, rebuildKills>>
  <2>1. CASE Reads(rebuildKills, line, process) \/ GivesUp(rebuildKills, process)
    BY <2>1 DEF Reads, GivesUp
  <2>2. CASE \E g \in Int : \/ SavesModel(rebuildKills, line, process, g)
                            \/ SavesOthers(rebuildKills, line, process, g)
    BY <2>2 DEF SavesModel, SavesOthers, WritesModel
  <2> QED BY <2>1, <2>2 DEF Does
<1>3. /\ Own'[line] = process
      /\ \A other \in Lines \ {line} : Own'[other] = Own[other]
  BY <1>1, <1>2 DEF Own
<1>4. rebuild.step = "train"
  BY NoTrainerTyped DEF RebuildInv, TrainersInv
<1>5. /\ \A run \in 0..MaxRebuildKills : run > rebuildKills' => trainer'[run] = NoTrainer
      /\ rebuild'.step = "train"
  BY <1>0, <1>1, <1>2, <1>4 DEF RebuildInv, TrainersInv
<1>6. CASE Reads(rebuildKills, line, process)
  <2>1. UNCHANGED <<file, newer, astray>>
    BY <1>6 DEF Reads
  <2>2. process = [step |-> "fitting", data |-> file[DataOf[line]],
                   late |-> DataOf[line] = "unified" /\ PutBack]
    BY <1>6 DEF Reads
  <2>3. /\ line = "catboost" => process.late \/ process.data >= file["training"]
        /\ line = "lgbm" => process.data = file["training"]
        /\ process.step = "fitting"
    <3>1. process.late \/ file["unified"] >= best \/ DataOf[line] # "unified"
      <4>1. process.late = (DataOf[line] = "unified" /\ PutBack)
        BY <2>2
      <4>2. ~PutBack => file["unified"] >= best
        BY <1>0 DEF PutBack
      <4> QED BY <4>1, <4>2
    <3>2. process.data = file[DataOf[line]] /\ process.step = "fitting"
      BY <2>2
    <3>3. file["training"] <= best
      BY DEF RebuildInv, DataInOrder
    <3> QED BY <1>0, <3>1, <3>2, <3>3 DEF DataOf
  <2>4. TrainersInv'
    BY <1>2, <1>3, <1>5, <2>1, <2>3 DEF RebuildInv, TrainersInv, OfMatrix
  <2>5. RunInv'
    BY <1>2, <1>3, <1>4, <2>1, <2>3 DEF RebuildInv, RunInv
  <2> QED BY <1>0, <1>1, <1>2, <2>1, <2>4, <2>5, RunStep
<1>7. CASE GivesUp(rebuildKills, process)
  <2>1. UNCHANGED <<file, newer, astray>> /\ process.step = "failed"
    BY <1>0, <1>7 DEF GivesUp
  <2>2. TrainersInv'
    BY <1>2, <1>3, <1>5, <2>1 DEF RebuildInv, TrainersInv, OfMatrix
  <2>3. RunInv'
    BY <1>2, <1>3, <1>4, <2>1 DEF RebuildInv, RunInv
  <2> QED BY <1>0, <1>1, <1>2, <2>1, <2>2, <2>3, RunStep
<1>8. ASSUME NEW g \in Int, SavesModel(rebuildKills, line, process, g) PROVE RebuildInv'
  <2>1. /\ Own[line].step = "fitting" /\ g \in {Own[line].data, Useless}
        /\ WritesModel(rebuildKills, line, ModelOf[line], g)
        /\ ModelOf[line] \in ModelFiles
        /\ \/ process.step \in {"none", "failed"}
           \/ line = "lgbm" /\ process.step = "ok"
           \/ /\ line = "catboost" /\ process.step = "saved"
              /\ process.data = Own[line].data /\ process.late = Own[line].late
    BY <1>8 DEF SavesModel, Own, ModelOf
  <2>2. /\ file' \in [Files -> Int] /\ file'[ModelOf[line]] = g
        /\ \A o \in Files \ {ModelOf[line]} : file'[o] = file[o]
        /\ <<"won", "training">> \in newer' <=>
              ModelOf[line] = "won" \/ <<"won", "training">> \in newer
        /\ <<"lgbm", "training">> \in newer' <=>
              ModelOf[line] = "lgbm" \/ <<"lgbm", "training">> \in newer
        /\ \A o \in ModelFiles \ {ModelOf[line]} : o \in astray' <=> o \in astray
        /\ Own[line].late => ModelOf[line] \in astray'
    BY <1>0, <2>1, TrainerSaves DEF Own
  <2>3. /\ line = "catboost" => Own[line].late \/ Own[line].data >= file["training"]
        /\ line = "lgbm" => Own[line].data = file["training"]
        /\ file'["training"] = file["training"]
    BY <2>1, <2>2 DEF RebuildInv, TrainersInv, ModelOf
  <2>4. /\ line = "catboost" => OfMatrix("won")'
        /\ line = "lgbm" => LgbmIsOfMatrix'
    BY <2>1, <2>2, <2>3 DEF OfMatrix, LgbmIsOfMatrix, ModelOf
  <2>5. OfMatrix("others") => OfMatrix("others")'
    BY <2>2, <2>3 DEF OfMatrix, ModelOf
  <2>6. TrainersInv'
    <3>1. \A other \in Lines : Own'[other].step \in {"skipped", "saved", "ok"} =>
             <<ModelOf[other], "training">> \in newer'
      BY <1>3, <2>1, <2>2 DEF RebuildInv, TrainersInv, ModelOf
    <3>2. /\ Own'["catboost"].step \in {"fitting", "saved"} =>
                Own'["catboost"].late \/ Own'["catboost"].data >= file'["training"]
          /\ Own'["lgbm"].step = "fitting" => Own'["lgbm"].data = file'["training"]
          /\ Own'["lgbm"].step # "saved"
          /\ Own'["catboost"].step = "ok" => OfMatrix("others")'
      BY <1>3, <2>1, <2>3, <2>5 DEF RebuildInv, TrainersInv
    <3> QED BY <1>2, <1>5, <3>1, <3>2 DEF TrainersInv
  <2>7. RunInv'
    BY <1>2, <1>3, <1>4, <2>1, <2>3 DEF RebuildInv, RunInv
  <2> QED BY <1>0, <1>1, <2>1, <2>4, <2>6, <2>7, ModelKeeps DEF ModelOf
<1>9. ASSUME NEW g \in Int, SavesOthers(rebuildKills, line, process, g) PROVE RebuildInv'
  <2>1. /\ Own[line].step = "saved" /\ g \in {Own[line].data, Useless}
        /\ WritesModel(rebuildKills, line, "others", g)
        /\ process.step \in {"none", "failed", "ok"}
    BY <1>9 DEF SavesOthers, Own
  <2>2. /\ file' \in [Files -> Int] /\ file'["others"] = g
        /\ \A o \in Files \ {"others"} : file'[o] = file[o]
        /\ <<"won", "training">> \in newer' <=> <<"won", "training">> \in newer
        /\ <<"lgbm", "training">> \in newer' <=> <<"lgbm", "training">> \in newer
        /\ Own[line].late => "others" \in astray'
    BY <1>0, <2>1, TrainerSaves DEF Own
  <2>3. line = "catboost" /\ (Own[line].late \/ Own[line].data >= file["training"])
        /\ file'["training"] = file["training"]
    BY <2>1, <2>2 DEF RebuildInv, TrainersInv
  <2>4. OfMatrix("others")'
    BY <2>1, <2>2, <2>3 DEF OfMatrix
  <2>5. <<ModelOf[line], "training">> \in newer'
    BY <2>1, <2>2 DEF RebuildInv, TrainersInv, ModelOf
  <2>6. TrainersInv'
    BY <1>2, <1>3, <1>5, <2>1, <2>2, <2>3, <2>4, <2>5 DEF RebuildInv, TrainersInv, ModelOf
  <2>7. RunInv'
    BY <1>2, <1>3, <1>4, <2>1, <2>3 DEF RebuildInv, RunInv
  <2> QED BY <1>0, <1>1, <2>1, <2>6, <2>7, ModelKeeps
<1> QED BY <1>6, <1>7, <1>8, <1>9 DEF Does

LEMMA TrainerKeeps ==
    ASSUME RebuildInv, NEW run \in 0..MaxRebuildKills, NEW line \in Lines,
           TrainerStep(run, line) \/ (line = "catboost" /\ Finish(run))
    PROVE  RebuildInv'
<1>1. PICK process \in Processes :
         /\ trainer' = [trainer EXCEPT ![run][line] = process]
         /\ Does(run, line, process)
  BY TrainerDoes
<1>2. trainer[run][line].step \in {"launched", "fitting", "saved"}
  BY TrainerDoes
<1>3. rebuildKills \in 0..MaxRebuildKills
  BY DEF RebuildInv, RebuildTyped
<1>4. CASE run < rebuildKills
  BY <1>1, <1>4, OrphanKeeps DEF Orphan
<1>5. CASE run = rebuildKills
  BY <1>1, <1>2, <1>5, OwnKeeps DEF Own
<1>6. ~(run > rebuildKills)
  BY <1>2, NoTrainerTyped DEF RebuildInv, TrainersInv
<1> QED BY <1>3, <1>4, <1>5, <1>6

(* Hence the invariant.                                                      *)
LEMMA RebuildInvariant == RebuildSpec => []RebuildInv
<1>1. RebuildInv /\ RebuildNext => RebuildInv'
  <2> SUFFICES ASSUME RebuildInv, RebuildNext PROVE RebuildInv'
    OBVIOUS
  <2>1. raw \in Int /\ refresh.data \in Int /\ refresh.data <= raw
    BY DEF RebuildInv, RebuildTyped, DataInOrder
  <2>2. CASE Normalize
    BY <2>1, <2>2, DatasetKeeps DEF Normalize
  <2>3. CASE RefreshWrites
    BY <2>1, <2>3, DatasetKeeps DEF RefreshWrites
  <2>4. ASSUME NEW run \in 0..MaxRebuildKills, Finish(run) PROVE RebuildInv'
    BY <2>4, TrainerKeeps DEF Lines
  <2> QED BY <2>2, <2>3, <2>4, RefreshKeeps, RunKeeps, MatrixKeeps, TrainerKeeps
          DEF RebuildNext
<1>2. RebuildInv /\ UNCHANGED rebuildVars => RebuildInv'
  BY DEF RebuildInv, RebuildTyped, DataInOrder, NewerIsOfMatrix, OfMatrix,
     LgbmIsOfMatrix, TrainersInv, RunInv, Own, rebuildVars
<1> QED BY <1>1, <1>2, RebuildBegins, PTL DEF RebuildSpec

(* Whatever was killed or failed before, whatever is refreshed and whatever  *)
(* orphans go on meanwhile, the predictions are made with a win model no     *)
(* older than the matrix on disk and a LightGBM line of that matrix or none, *)
(* and by a run that skips nothing with models of its own scrape, but for    *)
(* the model files the property names.                                       *)
THEOREM ServesNoStaleModel == RebuildSpec => []NoStaleModelServed
<1>1. RebuildInv => NoStaleModelServed
  <2> SUFFICES ASSUME RebuildInv, rebuild.step = "predict", Loads
               PROVE  /\ "won" \notin astray => file["won"] >= file["training"]
                      /\ "lgbm" \notin astray => file["lgbm"] \in {file["training"], Useless}
                      /\ ~rebuild.resume =>
                            /\ file["training"] >= raw
                            /\ "others" \notin astray => file["others"] >= raw
    BY DEF NoStaleModelServed
  <2>1. file["others"] \in Int /\ file["training"] \in Int /\ raw \in Int
    BY DEF RebuildInv, RebuildTyped, Files
  <2> QED
    BY <2>1 DEF RebuildInv, RunInv, NewerIsOfMatrix, OfMatrix, LgbmIsOfMatrix, Loads
<1> QED BY <1>1, RebuildInvariant, PTL

-------------------------------------------------------------------------------
(* The budget of the hosted extraction. *)

(* The run is always a record of these fields, so a step may change some.    *)
BatchShape ==
    /\ batch = [step |-> batch.step, todo |-> batch.todo, attempts |-> batch.attempts,
                bill |-> batch.bill, named |-> batch.named]
    /\ batch.named \in Models

LEMMA ShapeStep == BatchShape /\ [HostedNext]_hostedVars => BatchShape'
<1> SUFFICES ASSUME BatchShape, [HostedNext]_hostedVars PROVE BatchShape'
  OBVIOUS
<1> USE DEF BatchShape
<1>1. ASSUME NEW step, NEW todo, batch' = Batch(step, todo) PROVE BatchShape'
  BY <1>1, HostedAssumption DEF Batch
<1>2. CASE \/ StartBatch \/ Replay \/ Reserve \/ AnswerUnreadable \/ RecordAnswer
           \/ LoseAnswer \/ EndBatch \/ KillBatch
  <2>1. batch' = batch \/ \E step, todo : batch' = Batch(step, todo)
    BY <1>2 DEF StartBatch, Replay, Reserve, AnswerUnreadable, RecordAnswer, RecordRow,
                LoseAnswer, EndBatch, KillBatch, NoBatch
  <2> QED BY <1>1, <2>1
<1>3. CASE Answer
  <2>1. PICK bill \in Bills, model \in Models :
           batch' = [Batch("answered", batch.todo) EXCEPT !.bill = bill, !.named = model]
    BY <1>3 DEF Answer
  <2> QED BY <2>1 DEF Batch
<1>4. CASE RequestFails
  BY <1>1, <1>4 DEF RequestFails, RecordRow
<1>5. CASE Commit
  BY <1>1, <1>5 DEF Commit, NoBatch
<1>6. CASE CacheAnswer
  BY <1>6 DEF CacheAnswer
<1>7. CASE FetchComment \/ (\E t \in Texts : Expire(t)) \/ UNCHANGED hostedVars
  BY <1>7 DEF FetchComment, Expire, hostedVars
<1> QED
  BY <1>2, <1>3, <1>4, <1>5, <1>6, <1>7 DEF HostedNext, BatchStep

(* What the ledger counts for, and what escapes it.                          *)
Held == ledger.reserved * Reservation
Counted == ledger.committed + Held + unseen
HostedTyped ==
    /\ ledger \in [cap : CostCaps, committed : Nat, requests : Nat, reserved : Nat]
    /\ spent \in Nat /\ unseen \in Nat
    /\ batch.step = "answered" => batch.bill \in Nat
    /\ BatchShape

(* While a request is out its whole reservation is still to be spent, and    *)
(* once it is answered the rest of it is: of a bill above it all, for such a *)
(* bill is unseen.                                                           *)
BudgetInv ==
    /\ HostedTyped
    /\ \E cap \in CostCaps : ledger.committed + Held <= cap
    /\ ledger.requests + ledger.reserved <= RequestCap
    /\ batch.step \in {"post", "answered"} => ledger.reserved >= 1
    /\ spent <= Counted
    /\ batch.step = "post" => spent + Reservation <= Counted
    /\ batch.step = "answered" =>
          spent + (IF batch.bill <= Reservation THEN Reservation - batch.bill
                                                ELSE Reservation) <= Counted

(* The arithmetic of reservations. *)
LEMMA ReservationArithmetic ==
    /\ Reservation \in Nat
    /\ \A r \in Nat : /\ r * Reservation \in Nat
                      /\ (r + 1) * Reservation = r * Reservation + Reservation
                      /\ (r - 1) * Reservation = r * Reservation - Reservation
<1>1. \A x \in Nat : x + 1 \in Nat
  OBVIOUS
<1>2. Reservation \in Nat
  BY HostedAssumption, <1>1 DEF Reservation
<1>3. \A r, R \in Nat : /\ r * R \in Nat
                        /\ (r + 1) * R = r * R + R
                        /\ (r - 1) * R = r * R - R
  OBVIOUS
<1> QED BY <1>2, <1>3

(* An empty ledger. *)
LEMMA BudgetBegins == HostedInit => BudgetInv
<1> SUFFICES ASSUME HostedInit PROVE BudgetInv
  OBVIOUS
<1>1. PICK cap \in CostCaps : ledger = Ledger(cap, 0, 0, 0)
  BY DEF HostedInit
<1>2. 0 * Reservation = 0
  BY ReservationArithmetic
<1> QED
  BY <1>1, <1>2, HostedAssumption
  DEF HostedInit, Ledger, NoBatch, Batch, BatchShape, BudgetInv, HostedTyped, Held, Counted

(* Every step keeps the ledger ahead of the bill and below the cap: a run    *)
(* that adopts a lower cap reserves nothing more until it is affordable.     *)
LEMMA BudgetStep == BudgetInv /\ [HostedNext]_hostedVars => BudgetInv'
<1> SUFFICES ASSUME BudgetInv, [HostedNext]_hostedVars PROVE BudgetInv'
  OBVIOUS
<1> USE DEF Batch, Ledger
<1>0. /\ Reservation \in Nat /\ WorstCost \in Nat /\ Bills \subseteq Nat
      /\ CostCaps \subseteq Nat /\ RequestCap \in Nat
      /\ ledger \in [cap : CostCaps, committed : Nat, requests : Nat, reserved : Nat]
      /\ ledger.committed \in Nat /\ ledger.requests \in Nat /\ ledger.reserved \in Nat
      /\ Held \in Nat /\ spent \in Nat /\ unseen \in Nat
  BY ReservationArithmetic, HostedAssumption DEF BudgetInv, HostedTyped, Held
<1>s. BatchShape /\ BatchShape'
  BY ShapeStep DEF BudgetInv, HostedTyped
<1> USE <1>s
<1>1. CASE UNCHANGED <<ledger, spent, unseen>> /\ batch'.step \notin {"post", "answered"}
  BY <1>1 DEF BudgetInv, HostedTyped, Held, Counted
<1>2. CASE StartBatch
  <2>1. PICK cap \in CostCaps :
           ledger' = Ledger(cap, ledger.committed, ledger.requests, ledger.reserved)
    BY <1>2 DEF StartBatch
  <2>2. batch'.step = "row" /\ UNCHANGED <<spent, unseen>>
    BY <1>2 DEF StartBatch
  <2>3. /\ ledger' \in [cap : CostCaps, committed : Nat, requests : Nat, reserved : Nat]
        /\ ledger'.committed = ledger.committed /\ ledger'.requests = ledger.requests
        /\ ledger'.reserved = ledger.reserved
    BY <1>0, <2>1
  <2>4. Held' = Held /\ Counted' = Counted
    BY <2>2, <2>3 DEF Held, Counted
  <2> QED BY <2>2, <2>3, <2>4 DEF BudgetInv, HostedTyped
<1>3. CASE Reserve
  <2>1. CASE Affordable
    <3>1. /\ ledger' = Ledger(ledger.cap, ledger.committed, ledger.requests,
                              ledger.reserved + 1)
          /\ batch'.step = "post" /\ UNCHANGED <<spent, unseen>>
      BY <1>3, <2>1 DEF Reserve
    <3>2. /\ ledger' \in [cap : CostCaps, committed : Nat, requests : Nat, reserved : Nat]
          /\ ledger'.committed = ledger.committed /\ ledger'.requests = ledger.requests
          /\ ledger'.reserved = ledger.reserved + 1
      BY <1>0, <3>1
    <3>3. Held' = Held + Reservation
      BY <1>0, <3>2, ReservationArithmetic DEF Held
    <3>4. ledger.cap \in CostCaps /\ ledger.cap \in Nat
      BY <1>0
    <3>5. /\ Reservation <= ledger.cap - ledger.committed - Held
          /\ 1 <= RequestCap - ledger.requests - ledger.reserved
      BY <2>1 DEF Affordable, RemainingCost, RemainingRequests, Held
    <3>6. ledger'.committed + Held' <= ledger.cap
      BY <1>0, <3>2, <3>3, <3>4, <3>5
    <3>7. ledger'.requests + ledger'.reserved <= RequestCap /\ ledger'.reserved >= 1
      BY <1>0, <3>2, <3>5
    <3>8. spent' + Reservation <= Counted' /\ spent' <= Counted'
      BY <1>0, <3>1, <3>2, <3>3 DEF BudgetInv, Counted
    <3> QED BY <1>0, <3>1, <3>2, <3>4, <3>6, <3>7, <3>8 DEF BudgetInv, HostedTyped
  <2>2. CASE ~Affordable
    BY <1>1, <1>3, <2>2 DEF Reserve, NoBatch
  <2> QED BY <2>1, <2>2
<1>4. ASSUME ledger' = Released, batch'.step \notin {"post", "answered"},
             ledger.reserved >= 1, spent' \in Nat, unseen' \in Nat,
             spent' + Reservation <= ledger.committed + Held + unseen'
      PROVE  BudgetInv'
  <2>1. /\ ledger' \in [cap : CostCaps, committed : Nat, requests : Nat, reserved : Nat]
        /\ ledger'.committed = ledger.committed /\ ledger'.requests = ledger.requests
        /\ ledger'.reserved = ledger.reserved - 1
    BY <1>0, <1>4 DEF Released
  <2>2. Held' = Held - Reservation
    BY <1>0, <2>1, ReservationArithmetic DEF Held
  <2>3. \E cap \in CostCaps : ledger'.committed + Held' <= cap
    BY <1>0, <2>1, <2>2 DEF BudgetInv
  <2>4. ledger'.requests + ledger'.reserved <= RequestCap
    BY <1>0, <2>1 DEF BudgetInv
  <2>5. spent' <= Counted'
    BY <1>0, <1>4, <2>1, <2>2 DEF Counted
  <2> QED BY <1>4, <2>1, <2>3, <2>4, <2>5 DEF BudgetInv, HostedTyped
<1>5. CASE RequestFails
  <2>1. PICK bill \in {0, WorstCost} : spent' = spent + bill /\ unseen' = unseen + bill
    BY <1>5 DEF RequestFails, Unseen
  <2>2. ledger.reserved >= 1 /\ spent + Reservation <= ledger.committed + Held + unseen
    BY <1>5 DEF RequestFails, BudgetInv, Counted
  <2>3. spent' \in Nat /\ unseen' \in Nat
        /\ spent' + Reservation <= ledger.committed + Held + unseen'
        /\ spent' <= ledger.committed + Held + unseen'
    BY <1>0, <2>1, <2>2
  <2>4. CASE batch.attempts < MaxRetries
    <3>1. batch'.step = "post" /\ UNCHANGED ledger
      BY <1>5, <2>4 DEF RequestFails, BatchShape
    <3> QED BY <2>3, <3>1, <1>5 DEF RequestFails, BudgetInv, HostedTyped, Held, Counted
  <2>5. CASE ~(batch.attempts < MaxRetries)
    <3>1. batch'.step = "row" /\ ledger' = Released
      BY <1>5, <2>5 DEF RequestFails, RecordRow
    <3> QED BY <1>4, <2>2, <2>3, <3>1
  <2> QED BY <2>4, <2>5
<1>6. CASE Answer
  <2>1. PICK bill \in Bills :
           /\ batch'.step = "answered" /\ batch'.bill = bill
           /\ IF bill <= Reservation
              THEN spent' = spent + bill /\ UNCHANGED unseen
              ELSE spent' = spent + bill /\ unseen' = unseen + bill
    <3>1. PICK bill \in Bills, model \in Models :
             /\ batch' = [Batch("answered", batch.todo) EXCEPT !.bill = bill,
                                                               !.named = model]
             /\ IF bill <= Reservation
                THEN spent' = spent + bill /\ UNCHANGED unseen
                ELSE spent' = spent + bill /\ unseen' = unseen + bill
      BY <1>6 DEF Answer, Unseen
    <3>2. batch'.step = "answered" /\ batch'.bill = bill
      BY <3>1
    <3> QED BY <3>1, <3>2
  <2>2. batch'.step = "answered" /\ batch'.bill = bill /\ bill \in Nat /\ UNCHANGED ledger
    BY <1>0, <1>6, <2>1 DEF Answer
  <2>3. ledger.reserved >= 1 /\ spent + Reservation <= ledger.committed + Held + unseen
    BY <1>6 DEF Answer, BudgetInv, Counted
  <2>4. Held' = Held /\ Counted' = ledger.committed + Held + unseen'
    BY <2>2 DEF Held, Counted
  <2>5. /\ spent' \in Nat /\ unseen' \in Nat /\ spent' <= Counted'
        /\ spent' + (IF bill <= Reservation THEN Reservation - bill ELSE Reservation)
              <= Counted'
    BY <1>0, <2>1, <2>2, <2>3, <2>4
  <2> QED BY <2>2, <2>3, <2>4, <2>5 DEF BudgetInv, HostedTyped
<1>7. CASE AnswerUnreadable
  <2>1. PICK bill \in Nat : bill <= Reservation /\ spent' = spent + bill
    BY <1>0, <1>7 DEF AnswerUnreadable
  <2>2. batch'.step = "row" /\ UNCHANGED <<ledger, unseen>>
    BY <1>7 DEF AnswerUnreadable
  <2>3. spent' \in Nat /\ spent' <= Counted
    BY <1>0, <1>7, <2>1 DEF AnswerUnreadable, BudgetInv, Counted
  <2> QED BY <2>2, <2>3 DEF BudgetInv, HostedTyped, Held, Counted
<1>8. CASE Commit
  <2>1. /\ ledger.reserved >= 1 /\ batch.bill \in Nat /\ UNCHANGED <<spent, unseen>>
        /\ spent + (IF batch.bill <= Reservation THEN Reservation - batch.bill
                                                 ELSE Reservation)
              <= ledger.committed + Held + unseen
    BY <1>8 DEF Commit, BudgetInv, HostedTyped, Counted
  <2>2. CASE batch.bill <= Reservation
    <3>1. /\ ledger' = Ledger(ledger.cap, ledger.committed + batch.bill,
                              ledger.requests + 1, ledger.reserved - 1)
          /\ batch'.step = "store"
      BY <1>8, <2>2 DEF Commit, BatchShape
    <3>2. /\ ledger' \in [cap : CostCaps, committed : Nat, requests : Nat, reserved : Nat]
          /\ ledger'.committed = ledger.committed + batch.bill
          /\ ledger'.requests = ledger.requests + 1
          /\ ledger'.reserved = ledger.reserved - 1
      BY <1>0, <2>1, <3>1
    <3>3. Held' = Held - Reservation
      BY <1>0, <3>2, ReservationArithmetic DEF Held
    <3>4. \E cap \in CostCaps : ledger'.committed + Held' <= cap
      BY <1>0, <2>1, <2>2, <3>2, <3>3 DEF BudgetInv
    <3>5. ledger'.requests + ledger'.reserved <= RequestCap
      BY <1>0, <3>2 DEF BudgetInv
    <3>6. spent' <= Counted'
      BY <1>0, <2>1, <2>2, <3>2, <3>3 DEF Counted
    <3> QED BY <1>0, <2>1, <3>1, <3>2, <3>4, <3>5, <3>6 DEF BudgetInv, HostedTyped
  <2>3. CASE ~(batch.bill <= Reservation)
    BY <1>0, <1>4, <1>8, <2>1, <2>3 DEF Commit, NoBatch
  <2> QED BY <2>2, <2>3
<1>9. CASE \/ FetchComment \/ Replay \/ CacheAnswer \/ RecordAnswer \/ LoseAnswer
           \/ EndBatch \/ KillBatch \/ \E t \in Texts : Expire(t)
  <2>1. UNCHANGED <<ledger, spent, unseen>>
    BY <1>9 DEF FetchComment, Replay, CacheAnswer, RecordAnswer, LoseAnswer, EndBatch,
                KillBatch, Expire
  <2>0. ASSUME NEW m, RecordRow(m) PROVE batch'.step = "row"
    BY <2>0 DEF RecordRow
  <2>2. UNCHANGED batch \/ batch'.step \notin {"post", "answered"}
    <3>1. CASE Replay
      BY <2>0, <3>1 DEF Replay
    <3>2. CASE RecordAnswer
      BY <2>0, <3>2 DEF RecordAnswer
    <3>3. CASE CacheAnswer
      BY <3>3, <1>s DEF CacheAnswer, BatchShape
    <3>4. CASE LoseAnswer \/ EndBatch \/ KillBatch
      BY <3>4 DEF LoseAnswer, EndBatch, KillBatch, NoBatch
    <3>5. CASE FetchComment \/ \E t \in Texts : Expire(t)
      BY <3>5 DEF FetchComment, Expire
    <3> QED BY <1>9, <3>1, <3>2, <3>3, <3>4, <3>5
  <2> QED BY <1>1, <2>1, <2>2 DEF BudgetInv, HostedTyped, Held, Counted
<1>10. CASE UNCHANGED hostedVars
  BY <1>10 DEF hostedVars, BudgetInv, HostedTyped, Held, Counted
<1> QED
  BY <1>2, <1>3, <1>5, <1>6, <1>7, <1>8, <1>9, <1>10 DEF HostedNext, BatchStep

(* What the ledger counts never exceeds the highest cap configured, and it   *)
(* counts everything billed but what failed requests were billed and what a  *)
(* bill above its reservation came to, over any kills and any changes of the *)
(* cap.                                                                      *)
THEOREM BudgetIsHeld == HostedSpec => []BudgetHeld
<1>1. BudgetInv => BudgetHeld
  BY DEF BudgetInv, BudgetHeld, Held, Counted
<1> QED BY <1>1, BudgetBegins, BudgetStep, PTL DEF HostedSpec

-------------------------------------------------------------------------------
(* What the extraction pays for. *)

(* A text that is not cached has been paid for only by answers that are      *)
(* lost, and by the run that is about to cache one; and one that is asked    *)
(* for is not cached.                                                        *)
PaidInv ==
    /\ paid \in [Texts -> Nat] /\ lost \in [Texts -> Nat]
    /\ \A t \in Texts :
          /\ paid[t] <= 1 + lost[t]
          /\ ~Cached(t) =>
                paid[t] <= lost[t] + (IF batch.step = "store" /\ Text = t THEN 1 ELSE 0)
    /\ batch.step \in {"post", "answered"} => ~Cached(Text)
    /\ BatchShape

(* A loss is counted for its text. *)
LEMMA LossCounted ==
    ASSUME PaidInv, NEW text, lost' = [lost EXCEPT ![text] = @ + 1]
    PROVE  /\ lost' \in [Texts -> Nat]
           /\ \A t \in Texts : lost'[t] = IF t = text THEN lost[t] + 1 ELSE lost[t]
<1>1. \A t \in Texts : lost[t] \in Nat /\ lost[t] + 1 \in Nat
  BY DEF PaidInv
<1>2. \A t \in Texts : lost'[t] = IF t = text THEN lost[t] + 1 ELSE lost[t]
  BY DEF PaidInv
<1>3. lost' = [t \in Texts |-> lost'[t]]
  BY DEF PaidInv
<1> QED BY <1>1, <1>2, <1>3

(* Every step keeps it. *)
LEMMA PaidStep == PaidInv /\ [HostedNext]_hostedVars => PaidInv'
<1> SUFFICES ASSUME PaidInv, [HostedNext]_hostedVars PROVE PaidInv'
  OBVIOUS
<1> USE DEF Batch
<1>s. BatchShape /\ BatchShape'
  BY ShapeStep DEF PaidInv
<1>c. cache' = cache => \A t : Cached(t)' = Cached(t)
  BY DEF Cached
<1>t. \A t \in Texts : paid[t] \in Nat /\ lost[t] \in Nat
  BY DEF PaidInv
<1>1. CASE /\ UNCHANGED <<paid, lost, cache>>
           /\ batch.step # "store" /\ batch'.step \notin {"post", "answered"}
  BY <1>1, <1>c, <1>s DEF PaidInv
<1>2. CASE /\ UNCHANGED <<paid, lost, cache>>
           /\ batch.step # "store" /\ batch'.step # "store"
           /\ batch'.todo = batch.todo /\ ~Cached(Text)
  <2>1. Text' = Text
    BY <1>2 DEF Text
  <2> QED BY <1>2, <1>c, <1>s, <2>1 DEF PaidInv
<1>3. CASE \/ StartBatch \/ Replay \/ AnswerUnreadable \/ RecordAnswer \/ EndBatch
           \/ Reserve /\ ~Affordable
  <2>1. UNCHANGED <<paid, lost, cache>> /\ batch.step # "store"
    BY <1>3 DEF Reserve, StartBatch, Replay, AnswerUnreadable, RecordAnswer, EndBatch,
                NoBatch
  <2>0. ASSUME NEW m, RecordRow(m) PROVE batch'.step = "row"
    BY <2>0 DEF RecordRow
  <2>2. batch'.step \notin {"post", "answered"}
    <3>1. CASE Replay
      BY <2>0, <3>1 DEF Replay
    <3>2. CASE RecordAnswer
      BY <2>0, <3>2 DEF RecordAnswer
    <3>3. CASE \/ StartBatch \/ AnswerUnreadable \/ EndBatch
               \/ Reserve /\ ~Affordable
      BY <3>3 DEF Reserve, StartBatch, AnswerUnreadable, EndBatch, NoBatch
    <3> QED BY <1>3, <3>1, <3>2, <3>3
  <2> QED BY <1>1, <2>1, <2>2
<1>4. CASE Reserve /\ Affordable
  BY <1>2, <1>4 DEF Reserve
<1>5. CASE RequestFails
  <2>1. UNCHANGED <<paid, lost, cache>> /\ batch.step = "post" /\ ~Cached(Text)
    BY <1>5 DEF RequestFails, PaidInv
  <2>2. (batch'.step = "post" /\ batch'.todo = batch.todo) \/ batch'.step = "row"
    BY <1>5, <1>s, <2>1 DEF RequestFails, RecordRow, BatchShape
  <2> QED BY <1>1, <1>2, <2>1, <2>2
<1>6. CASE Answer
  <2>1. /\ UNCHANGED <<paid, lost, cache>> /\ batch.step = "post" /\ ~Cached(Text)
    BY <1>6 DEF Answer, PaidInv
  <2>2. PICK bill \in Bills, model \in Models :
           batch' = [Batch("answered", batch.todo) EXCEPT !.bill = bill, !.named = model]
    BY <1>6 DEF Answer
  <2>3. batch'.step = "answered" /\ batch'.todo = batch.todo
    BY <2>2
  <2> QED BY <1>2, <2>1, <2>3
<1>7. CASE Commit
  <2>1. UNCHANGED <<lost, cache>> /\ batch.step = "answered" /\ ~Cached(Text)
    BY <1>7 DEF Commit, PaidInv
  <2>2. CASE batch.bill <= Reservation
    <3>1. /\ paid' = [paid EXCEPT ![Text] = @ + 1]
          /\ batch'.step = "store" /\ batch'.todo = batch.todo
      BY <1>7, <1>s, <2>2 DEF Commit, BatchShape
    <3>2. Text' = Text
      BY <3>1 DEF Text
    <3>3. \A t \in Texts : ~Cached(t) => paid[t] <= lost[t]
      BY <1>t, <2>1 DEF PaidInv
    <3>4. \A t \in Texts : paid'[t] = IF t = Text THEN paid[t] + 1 ELSE paid[t]
      BY <3>1 DEF PaidInv
    <3>5. paid' \in [Texts -> Nat]
      <4>1. \A t \in Texts : paid[t] \in Nat /\ paid'[t] \in Nat
        BY <3>4 DEF PaidInv
      <4>2. paid' = [t \in Texts |-> paid'[t]]
        BY <3>1 DEF PaidInv
      <4> QED BY <4>1, <4>2
    <3>6. \A t \in Texts :
             /\ paid'[t] <= 1 + lost[t]
             /\ ~Cached(t) => paid'[t] <= lost[t] + (IF Text = t THEN 1 ELSE 0)
      BY <1>t, <2>1, <3>3, <3>4 DEF PaidInv
    <3> QED BY <1>c, <1>s, <2>1, <3>1, <3>2, <3>5, <3>6 DEF PaidInv
  <2>3. CASE ~(batch.bill <= Reservation)
    BY <1>1, <1>7, <2>1, <2>3 DEF Commit, NoBatch
  <2> QED BY <2>2, <2>3
<1>8. ASSUME UNCHANGED <<paid, cache>>, batch.step = "store",
             batch'.step \notin {"post", "answered", "store"}, Loses(Text)
      PROVE  PaidInv'
  <2>1. PICK text : text = Text
    OBVIOUS
  <2>2. lost' = [lost EXCEPT ![text] = @ + 1]
    BY <1>8, <2>1 DEF Loses
  <2>3. /\ lost' \in [Texts -> Nat]
        /\ \A t \in Texts : lost'[t] = IF t = text THEN lost[t] + 1 ELSE lost[t]
    BY <2>2, LossCounted
  <2>4. \A t \in Texts : /\ paid[t] <= 1 + lost'[t]
                         /\ ~Cached(t) => paid[t] <= lost'[t]
    BY <1>8, <1>t, <2>1, <2>3 DEF PaidInv
  <2> QED BY <1>8, <1>c, <1>s, <2>3, <2>4 DEF PaidInv
<1>9. CASE CacheAnswer
  <2>1. UNCHANGED paid /\ batch.step = "store" /\ batch'.step = "record"
    BY <1>9, <1>s DEF CacheAnswer, BatchShape
  <2>2. CASE cache' = cache \cup {<<Text, batch.named>>} /\ UNCHANGED lost
    <3>1. \A t : Cached(t) => Cached(t)'
      BY <2>2 DEF Cached
    <3>2. \A t : t = Text => Cached(t)'
      BY <1>s, <2>2 DEF Cached, BatchShape
    <3> QED BY <1>s, <1>t, <2>1, <2>2, <3>1, <3>2 DEF PaidInv
  <2>3. CASE Loses(Text) /\ UNCHANGED cache
    BY <1>8, <2>1, <2>3
  <2> QED BY <1>9, <2>2, <2>3 DEF CacheAnswer
<1>10. CASE LoseAnswer
  BY <1>8, <1>10 DEF LoseAnswer
<1>11. CASE KillBatch
  <2>1. CASE batch.step = "store"
    BY <1>8, <1>11, <2>1 DEF KillBatch, NoBatch
  <2>2. CASE batch.step # "store"
    BY <1>1, <1>11, <2>2 DEF KillBatch, NoBatch
  <2> QED BY <2>1, <2>2
<1>12. ASSUME NEW text \in Texts, Expire(text) PROVE PaidInv'
  <2>1. /\ lost' = [lost EXCEPT ![text] = @ + 1] /\ UNCHANGED <<paid, batch>>
        /\ cache' = {answer \in cache : answer[1] # text}
    BY <1>12 DEF Expire, Loses
  <2>2. /\ lost' \in [Texts -> Nat]
        /\ \A t \in Texts : lost'[t] = IF t = text THEN lost[t] + 1 ELSE lost[t]
    BY <2>1, LossCounted
  <2>3. \A t \in Texts : t # text => Cached(t)' = Cached(t)
    BY <2>1 DEF Cached
  <2>4. \A t : Cached(t)' => Cached(t)
    BY <2>1 DEF Cached
  <2>5. Text' = Text
    BY <2>1 DEF Text
  <2>6. \A t \in Texts :
           /\ paid[t] <= 1 + lost'[t]
           /\ ~Cached(t)' =>
                 paid[t] <= lost'[t] + (IF batch.step = "store" /\ Text = t THEN 1 ELSE 0)
    BY <1>t, <2>2, <2>3 DEF PaidInv
  <2> QED BY <1>s, <2>1, <2>2, <2>4, <2>5, <2>6 DEF PaidInv
<1>13. CASE FetchComment \/ UNCHANGED hostedVars
  BY <1>13 DEF FetchComment, hostedVars, PaidInv, Cached, Text, BatchShape
<1> QED
  BY <1>3, <1>4, <1>5, <1>6, <1>7, <1>9, <1>10, <1>11, <1>12, <1>13
  DEF HostedNext, BatchStep

(* No second answer to a text is committed, in however many comments, runs   *)
(* and repetitions it comes up, but for the answers that are gone: expired,  *)
(* not cached because of an error, or lost with the run or the comment.      *)
THEOREM AnswersArePaidOnce == HostedSpec => []PaidForOnce
<1>1. HostedInit => PaidInv
  BY HostedAssumption DEF HostedInit, PaidInv, NoBatch, Batch, BatchShape
<1>2. PaidInv => PaidForOnce
  BY DEF PaidInv, PaidForOnce
<1> QED BY <1>1, <1>2, PaidStep, PTL DEF HostedSpec

-------------------------------------------------------------------------------
(* The rate limiter. *)

(* What a domain was sent over the last seconds and what its bucket holds is *)
(* never more than a full bucket and the refills of those seconds.           *)
BucketInv ==
    /\ tokens \in [Domains -> Nat]
    /\ sent \in [Domains -> [0..Span -> Nat]]
    /\ \A d \in Domains, k \in 0..Span :
          sent[d][k] + tokens[d] <= Capacity(d) + Rate[d] * k

(* A domain's slots are held by no more workers than there are.              *)
SlotsInv ==
    /\ DOMAIN worker = Workers
    /\ \A d \in Domains : Cardinality(HoldsDomain(d)) <= Slots[d]

(* Every step keeps the buckets within their bound: time moves what was sent *)
(* one second back and adds a refill for it.                                 *)
LEMMA BucketStep == BucketInv /\ [FetchNext]_fetchVars => BucketInv'
<1> SUFFICES ASSUME BucketInv, [FetchNext]_fetchVars PROVE BucketInv'
  OBVIOUS
<1>0. Rate \in [Domains -> Nat] /\ Span \in Nat
  BY FetchAssumption
<1>1. CASE UNCHANGED <<tokens, sent>>
  BY <1>1 DEF BucketInv, Capacity
<1>2. CASE Second
  <2>1. /\ tokens' = [d \in Domains |-> Refilled(d)]
        /\ sent' = [d \in Domains |->
              [k \in 0..Span |-> IF k = 0 THEN 0 ELSE sent[d][k - 1]]]
    BY <1>2 DEF Second
  <2>2. \A d \in Domains : Refilled(d) \in Nat /\ Refilled(d) <= Rate[d]
                           /\ Refilled(d) <= tokens[d] + Rate[d]
    BY <1>0 DEF Refilled, Least, Capacity, BucketInv
  <2>3. \A k \in 0..Span : k = 0 \/ k - 1 \in 0..Span
    BY <1>0
  <2>4. tokens' \in [Domains -> Nat] /\ sent' \in [Domains -> [0..Span -> Nat]]
    BY <2>1, <2>2, <2>3 DEF BucketInv
  <2>5. ASSUME NEW d \in Domains, NEW k \in 0..Span
        PROVE  sent'[d][k] + tokens'[d] <= Rate[d] + Rate[d] * k
    <3>1. Rate[d] \in Nat /\ tokens[d] \in Nat /\ k \in Nat /\ tokens'[d] \in Nat
          /\ tokens'[d] <= Rate[d] /\ tokens'[d] <= tokens[d] + Rate[d]
      BY <1>0, <2>1, <2>2 DEF BucketInv
    <3>2. CASE k = 0
      <4>1. sent'[d][k] = 0
        BY <2>1, <3>2
      <4>2. Rate[d] * 0 = 0
        BY <3>1
      <4> QED BY <3>1, <3>2, <4>1, <4>2
    <3>3. CASE k # 0
      <4>1. k - 1 \in 0..Span /\ sent'[d][k] = sent[d][k - 1]
        BY <2>1, <2>3, <3>3
      <4>2. sent[d][k - 1] \in Nat
            /\ sent[d][k - 1] + tokens[d] <= Rate[d] + Rate[d] * (k - 1)
        BY <4>1 DEF BucketInv, Capacity
      <4>3. \A r, j \in Int : r * (j - 1) = r * j - r /\ r * j \in Int
        OBVIOUS
      <4>4. Rate[d] * (k - 1) = Rate[d] * k - Rate[d] /\ Rate[d] * k \in Int
        BY <3>1, <4>3
      <4>5. \A now, held, left, r, m \in Int :
               now + held <= r + (m - r) /\ left <= held + r => now + left <= r + m
        OBVIOUS
      <4> QED BY <3>1, <4>1, <4>2, <4>4, <4>5
    <3> QED BY <3>2, <3>3
  <2> QED BY <2>4, <2>5 DEF BucketInv, Capacity
<1>3. ASSUME NEW w \in Workers, TakeToken(w) PROVE BucketInv'
  <2>1. DomainOf[w] \in Domains
    BY DEF Domains
  <2>2. PICK e \in Domains :
           /\ tokens[e] >= 1
           /\ tokens' = [tokens EXCEPT ![e] = @ - 1]
           /\ sent' = [sent EXCEPT ![e] = [k \in 0..Span |-> sent[e][k] + 1]]
    BY <1>3, <2>1 DEF TakeToken
  <2>3. tokens[e] \in Nat /\ tokens[e] - 1 \in Nat
    BY <2>2 DEF BucketInv
  <2>4. tokens' \in [Domains -> Nat]
    BY <2>2, <2>3 DEF BucketInv
  <2>5. sent' \in [Domains -> [0..Span -> Nat]]
    <3>1. ASSUME NEW k \in 0..Span PROVE sent[e][k] + 1 \in Nat
      <4>1. sent[e][k] \in Nat
        BY <2>2 DEF BucketInv
      <4> QED BY <4>1
    <3>2. [k \in 0..Span |-> sent[e][k] + 1] \in [0..Span -> Nat]
      BY <3>1
    <3> QED BY <2>2, <3>2 DEF BucketInv
  <2>6. ASSUME NEW d \in Domains, NEW k \in 0..Span
        PROVE  sent'[d][k] + tokens'[d] = sent[d][k] + tokens[d]
    <3>1. CASE d = e
      <4>1. sent'[d][k] = sent[d][k] + 1 /\ tokens'[d] = tokens[d] - 1
        BY <2>2, <3>1 DEF BucketInv
      <4>2. sent[d][k] \in Nat /\ tokens[d] \in Nat
        BY DEF BucketInv
      <4> QED BY <4>1, <4>2
    <3>2. CASE d # e
      BY <2>2, <3>2 DEF BucketInv
    <3> QED BY <3>1, <3>2
  <2>7. \A d \in Domains, k \in 0..Span :
           sent'[d][k] + tokens'[d] <= Capacity(d) + Rate[d] * k
    BY <2>6 DEF BucketInv
  <2> QED BY <2>4, <2>5, <2>7 DEF BucketInv, Capacity
<1>4. ASSUME NEW w \in Workers, WorkerStep(w) PROVE BucketInv'
  BY <1>1, <1>3, <1>4
  DEF WorkerStep, PickProxy, Moves, TakeGlobal, TakeDomain, Page, Blocked
<1>5. ASSUME NEW p \in Proxies, Probe(p) PROVE BucketInv'
  BY <1>1, <1>5 DEF Probe
<1> QED BY <1>1, <1>2, <1>4, <1>5 DEF FetchNext, fetchVars

(* A step of a worker that takes no slot of its domain leaves no more        *)
(* holders.                                                                  *)
LEMMA NoMoreHolders ==
    ASSUME SlotsInv, NEW w, NEW step, NEW attempts, NEW via,
           worker' = [worker EXCEPT ![w] = Worker(step, attempts, via)],
           step \in {"token", "request"} => worker[w].step \in {"token", "request"}
    PROVE  SlotsInv'
<1>1. DOMAIN worker' = Workers
  BY DEF SlotsInv
<1>2. ASSUME NEW d \in Domains PROVE Cardinality(HoldsDomain(d)') <= Slots[d]
  <2>1. HoldsDomain(d)' \subseteq HoldsDomain(d)
    BY DEF HoldsDomain, Worker, SlotsInv
  <2>2. IsFiniteSet(HoldsDomain(d))
    BY FetchAssumption, FS_Subset DEF HoldsDomain
  <2>3. /\ Cardinality(HoldsDomain(d)') <= Cardinality(HoldsDomain(d))
        /\ IsFiniteSet(HoldsDomain(d)')
    BY <2>1, <2>2, FS_Subset
  <2>4. Cardinality(HoldsDomain(d)') \in Nat /\ Cardinality(HoldsDomain(d)) \in Nat
    BY <2>2, <2>3, FS_CardinalityType
  <2>5. Slots[d] \in Nat /\ Cardinality(HoldsDomain(d)) <= Slots[d]
    BY FetchAssumption DEF SlotsInv
  <2> QED BY <2>3, <2>4, <2>5
<1> QED BY <1>1, <1>2 DEF SlotsInv

(* Every step keeps the slots.                                               *)
LEMMA SlotsStep == SlotsInv /\ [FetchNext]_fetchVars => SlotsInv'
<1> SUFFICES ASSUME SlotsInv, [FetchNext]_fetchVars PROVE SlotsInv'
  OBVIOUS
<1>1. CASE UNCHANGED worker
  BY <1>1 DEF SlotsInv, HoldsDomain
<1>2. ASSUME NEW w \in Workers, TakeDomain(w) PROVE SlotsInv'
  <2>1. /\ worker' = [worker EXCEPT ![w] = Worker("token", worker[w].attempts, worker[w].via)]
        /\ Cardinality(HoldsDomain(DomainOf[w])) < Slots[DomainOf[w]]
        /\ DomainOf[w] \in Domains
    BY <1>2 DEF TakeDomain, Moves, Domains
  <2>2. DOMAIN worker' = Workers
    BY <2>1 DEF SlotsInv
  <2>3. ASSUME NEW d \in Domains PROVE Cardinality(HoldsDomain(d)') <= Slots[d]
    <3>1. IsFiniteSet(HoldsDomain(d))
      BY FetchAssumption, FS_Subset DEF HoldsDomain
    <3>2. Cardinality(HoldsDomain(d)) \in Nat /\ Slots[d] \in Nat
      BY <3>1, FS_CardinalityType, FetchAssumption
    <3>3. CASE d = DomainOf[w]
      <4>1. HoldsDomain(d)' = HoldsDomain(d) \cup {w}
        BY <2>1, <3>3 DEF HoldsDomain, Worker, SlotsInv
      <4>2. Cardinality(HoldsDomain(d) \cup {w}) <= Cardinality(HoldsDomain(d)) + 1
        BY <3>1, <3>2, FS_AddElement
      <4>3. Cardinality(HoldsDomain(d) \cup {w}) \in Nat
        BY <3>1, FS_AddElement, FS_CardinalityType
      <4> QED BY <2>1, <3>2, <3>3, <4>1, <4>2, <4>3
    <3>4. CASE d # DomainOf[w]
      <4>1. HoldsDomain(d)' = HoldsDomain(d)
        BY <2>1, <3>4 DEF HoldsDomain, Worker, SlotsInv
      <4> QED BY <4>1 DEF SlotsInv
    <3> QED BY <3>3, <3>4
  <2> QED BY <2>2, <2>3 DEF SlotsInv
<1>3. ASSUME NEW w \in Workers, WorkerStep(w) PROVE SlotsInv'
  <2>1. CASE PickProxy(w)
    <3>1. \E step \in {"unavailable", "global"} : \E attempts, via :
             worker' = [worker EXCEPT ![w] = Worker(step, attempts, via)]
      BY <2>1 DEF PickProxy, Moves
    <3> QED BY <3>1, NoMoreHolders
  <2>2. CASE TakeGlobal(w)
    BY <2>2, NoMoreHolders DEF TakeGlobal, Moves
  <2>3. CASE TakeToken(w)
    BY <2>3, NoMoreHolders DEF TakeToken, Moves
  <2>4. CASE Page(w)
    BY <2>4, NoMoreHolders DEF Page, Moves
  <2>5. CASE Blocked(w)
    BY <2>5, NoMoreHolders DEF Blocked, Moves
  <2> QED BY <1>2, <1>3, <2>1, <2>2, <2>3, <2>4, <2>5 DEF WorkerStep
<1>4. CASE Second \/ \E p \in Proxies : Probe(p)
  BY <1>1, <1>4 DEF Second, Probe
<1> QED BY <1>1, <1>3, <1>4 DEF FetchNext, fetchVars

(* No domain is sent more than its bucket's capacity and its rate allow over *)
(* any stretch of time, nor more at once than it has slots, for any number   *)
(* of workers, domains and proxies and any limits.                           *)
THEOREM RateIsHeld == FetchSpec => []RateHeld
<1> USE FetchAssumption
<1>1. FetchInit => BucketInv
  <2> SUFFICES ASSUME FetchInit PROVE BucketInv
    OBVIOUS
  <2>1. /\ tokens \in [Domains -> Nat]
        /\ sent \in [Domains -> [0..Span -> Nat]]
    BY DEF FetchInit, Capacity
  <2>2. ASSUME NEW d \in Domains, NEW k \in 0..Span
        PROVE  sent[d][k] + tokens[d] <= Capacity(d) + Rate[d] * k
    <3>1. sent[d][k] = 0 /\ tokens[d] = Rate[d] /\ Rate[d] \in Nat /\ k \in Nat
      BY DEF FetchInit, Capacity
    <3>2. \A r, j \in Nat : r * j \in Nat
      OBVIOUS
    <3>3. Rate[d] * k \in Nat
      BY <3>1, <3>2
    <3> QED BY <3>1, <3>3 DEF Capacity
  <2> QED BY <2>1, <2>2 DEF BucketInv
<1>2. FetchInit => SlotsInv
  <2> SUFFICES ASSUME FetchInit PROVE SlotsInv
    OBVIOUS
  <2>1. \A d \in Domains : HoldsDomain(d) = {}
    BY DEF FetchInit, Worker, HoldsDomain
  <2>2. \A d \in Domains : Cardinality(HoldsDomain(d)) = 0
    BY <2>1, FS_EmptySet
  <2> QED BY <2>2 DEF SlotsInv, FetchInit
<1>3. BucketInv /\ SlotsInv => RateHeld
  <2> SUFFICES ASSUME BucketInv, SlotsInv, NEW d \in Domains
      PROVE /\ \A k \in 0..Span : sent[d][k] <= Capacity(d) + Rate[d] * k
            /\ Cardinality({w \in Workers : DomainOf[w] = d /\ worker[w].step = "request"})
                  <= Slots[d]
    BY DEF RateHeld
  <2>1. ASSUME NEW k \in 0..Span PROVE sent[d][k] <= Capacity(d) + Rate[d] * k
    <3>1. sent[d][k] \in Nat /\ tokens[d] \in Nat /\ Rate[d] \in Nat /\ k \in Nat
          /\ sent[d][k] + tokens[d] <= Rate[d] + Rate[d] * k
      BY DEF BucketInv, Capacity
    <3>2. \A r, j \in Nat : r * j \in Nat
      OBVIOUS
    <3>3. Rate[d] * k \in Nat
      BY <3>1, <3>2
    <3> QED BY <3>1, <3>3 DEF Capacity
  <2>2. DEFINE sending == {w \in Workers : DomainOf[w] = d /\ worker[w].step = "request"}
  <2>3. sending \subseteq HoldsDomain(d)
    BY DEF HoldsDomain
  <2>4. IsFiniteSet(HoldsDomain(d))
    BY FS_Subset DEF HoldsDomain
  <2>5. /\ Cardinality(sending) <= Cardinality(HoldsDomain(d)) /\ IsFiniteSet(sending)
    BY <2>3, <2>4, FS_Subset
  <2>6. Cardinality(sending) \in Nat /\ Cardinality(HoldsDomain(d)) \in Nat
    BY <2>4, <2>5, FS_CardinalityType
  <2>7. Cardinality(sending) <= Slots[d]
    BY <2>5, <2>6 DEF SlotsInv
  <2> QED BY <2>1, <2>7
<1> QED BY <1>1, <1>2, <1>3, BucketStep, SlotsStep, PTL DEF FetchSpec

-------------------------------------------------------------------------------
(* The retrains. *)

RetrainSteps == {"none", "archive", "train"}
RetrainTyped ==
    /\ generation \in Generations
    /\ killed \in Nat
    /\ live \in [Copied \cup {"calib"} -> Generations]
    /\ DOMAIN archive \subseteq 1..generation
    /\ retrain.step \in RetrainSteps
    /\ retrain.step = "archive" => retrain.left = Written
    /\ retrain.step # "none" => generation \in DOMAIN archive

(* The live files are of one generation, or a directory at least so recent   *)
(* holds such files.                                                         *)
LiveWhole == \E g \in Generations : \A f \in Copied : live[f] = g
Archived(low) == \E d \in DOMAIN archive :
                d >= low /\ \E g \in Generations : Complete(archive[d], g)

(* What is left to write is a rest of what train writes, and what is written *)
(* is of this generation.                                                    *)
Rest == {<<"calib", "bin", "meta", "reference">>, <<"bin", "meta", "reference">>,
         <<"meta", "reference">>, <<"reference">>, <<>>}
LeftInv ==
    retrain.step = "train" =>
        /\ retrain.left \in Rest
        /\ retrain.left \in {<<"meta", "reference">>, <<"reference">>, <<>>} =>
              live["bin"] = generation
        /\ retrain.left \in {<<"reference">>, <<>>} => live["meta"] = generation
        /\ retrain.left = <<>> => live["reference"] = generation

(* As long as fewer retrains in a row failed than the archive keeps, the     *)
(* last files that belong together are live, or archived by the first of     *)
(* those that failed or later; and a retrain does not touch the live ones    *)
(* before they are copied.                                                   *)
LastFiles ==
    killed < ArchiveKeep =>
        /\ retrain.step = "none" => LiveWhole \/ Archived(generation - killed + 1)
        /\ retrain.step = "archive" => LiveWhole \/ Archived(generation - killed)
        /\ retrain.step = "train" => Archived(generation - killed)
Copies ==
    retrain.step = "archive" =>
        archive[generation] \subseteq {<<f, live[f]>> : f \in Copied}

RetrainInv == RetrainTyped /\ LeftInv /\ LastFiles /\ Copies

(* The models at first are of one generation.                                *)
LEMMA RetrainBegins == RetrainInit => RetrainInv
<1> SUFFICES ASSUME RetrainInit PROVE RetrainInv
  OBVIOUS
<1>1. 0 \in Generations
  BY RetrainAssumption DEF Generations
<1>2. live \in [Copied \cup {"calib"} -> Generations] /\ DOMAIN archive = {}
  BY <1>1 DEF RetrainInit
<1>3. RetrainTyped
  BY <1>1, <1>2 DEF RetrainInit, NoRetrain, RetrainTyped, RetrainSteps
<1>4. LiveWhole
  BY <1>1 DEF RetrainInit, LiveWhole
<1> QED BY <1>3, <1>4 DEF RetrainInit, NoRetrain, RetrainInv, LeftInv, LastFiles, Copies

(* The newest directories are kept: one that at most ArchiveKeep - 1 others  *)
(* were started after.                                                       *)
LEMMA NewestKept ==
    ASSUME RetrainTyped, killed < ArchiveKeep, NEW d \in DOMAIN archive,
           d >= generation - killed
    PROVE  d \in Kept(DOMAIN archive)
<1> DEFINE later == {h \in DOMAIN archive : h >= d}
<1>1. generation \in Nat /\ d \in Nat /\ d <= generation /\ killed \in Nat
      /\ ArchiveKeep \in Nat
  BY RetrainAssumption DEF RetrainTyped, Generations
<1>2. later \subseteq d..generation
  BY <1>1 DEF RetrainTyped
<1>3. IsFiniteSet(d..generation) /\ Cardinality(d..generation) = generation - d + 1
  BY <1>1, FS_Interval
<1>4. IsFiniteSet(later) /\ Cardinality(later) <= Cardinality(d..generation)
  BY <1>2, <1>3, FS_Subset
<1>5. Cardinality(later) \in Nat
  BY <1>4, FS_CardinalityType
<1>6. Cardinality(later) <= ArchiveKeep
  BY <1>1, <1>3, <1>4, <1>5
<1> QED BY <1>6 DEF Kept

(* Every step keeps the last files that belong together.                     *)
LEMMA RetrainStep == RetrainInv /\ [RetrainNext]_retrainVars => RetrainInv'
<1> SUFFICES ASSUME RetrainInv, [RetrainNext]_retrainVars PROVE RetrainInv'
  OBVIOUS
<1>0. /\ generation \in Nat /\ killed \in Nat /\ ArchiveKeep \in Nat
      /\ generation \in Generations
      /\ live \in [Copied \cup {"calib"} -> Generations]
      /\ DOMAIN archive \subseteq 1..generation
      /\ MaxRetrains \in Nat
  BY RetrainAssumption DEF RetrainInv, RetrainTyped, Generations
<1>1. CASE StartRetrain
  <2>1. /\ generation' = generation + 1 /\ generation' \in Generations
        /\ retrain' = [step |-> "archive", left |-> Written]
        /\ archive' = [g \in DOMAIN archive \cup {generation'} |->
                          IF g = generation' THEN {} ELSE archive[g]]
        /\ UNCHANGED <<live, killed>> /\ retrain.step = "none"
    BY <1>0, <1>1 DEF StartRetrain, Generations, NoRetrain
  <2>2. /\ DOMAIN archive' \subseteq 1..generation'
        /\ \A d \in DOMAIN archive : d \in DOMAIN archive' /\ archive'[d] = archive[d]
    BY <1>0, <2>1
  <2>3. RetrainTyped'
    BY <1>0, <2>1, <2>2 DEF RetrainTyped, RetrainSteps
  <2>4. archive'[generation'] = {}
    BY <2>1
  <2>5. Archived(generation - killed + 1) => Archived(generation - killed)'
    <3>1. generation - killed + 1 = generation' - killed'
      BY <1>0, <2>1
    <3> QED BY <2>2, <3>1 DEF Archived
  <2>6. LastFiles'
    BY <2>1, <2>5 DEF RetrainInv, LastFiles, LiveWhole
  <2> QED BY <2>1, <2>3, <2>4, <2>6 DEF RetrainInv, LeftInv, Copies
<1>2. CASE ArchiveFile
  <2>1. PICK f \in Copied :
           archive' = [archive EXCEPT ![generation] = @ \cup {<<f, live[f]>>}]
    BY <1>2 DEF ArchiveFile
  <2>2. /\ UNCHANGED <<live, retrain, generation, killed>> /\ retrain.step = "archive"
        /\ generation \in DOMAIN archive
    BY <1>2 DEF ArchiveFile, RetrainInv, RetrainTyped
  <2>3. /\ DOMAIN archive' = DOMAIN archive
        /\ \A d \in DOMAIN archive : archive[d] \subseteq archive'[d]
        /\ archive'[generation] = archive[generation] \cup {<<f, live[f]>>}
    BY <2>1, <2>2
  <2>4. RetrainTyped' /\ LeftInv'
    BY <2>2, <2>3 DEF RetrainInv, RetrainTyped, LeftInv
  <2>5. Archived(generation - killed) => Archived(generation - killed)'
    BY <2>2, <2>3 DEF Archived, Complete
  <2>6. LastFiles'
    BY <2>2, <2>5 DEF RetrainInv, LastFiles, LiveWhole
  <2>7. Copies'
    BY <2>2, <2>3 DEF RetrainInv, Copies
  <2> QED BY <2>4, <2>6, <2>7 DEF RetrainInv
<1>3. CASE PruneArchive
  <2>1. /\ retrain.step = "archive" /\ retrain' = [step |-> "train", left |-> retrain.left]
        /\ \A f \in Copied : HasCopied(f)
        /\ archive' = [g \in Kept(DOMAIN archive) |-> archive[g]]
        /\ UNCHANGED <<live, generation, killed>>
        /\ generation \in DOMAIN archive /\ retrain.left = Written
    BY <1>3 DEF PruneArchive, RetrainInv, RetrainTyped
  <2>2. Kept(DOMAIN archive) \subseteq DOMAIN archive
    BY DEF Kept
  <2>3. LeftInv'
    BY <2>1 DEF LeftInv, Rest, Written
  <2>4. \A f \in Copied : <<f, live[f]>> \in archive[generation]
    BY <2>1 DEF HasCopied, RetrainInv, Copies
  <2>5. CASE killed < ArchiveKeep
    <3>1. LiveWhole => Archived(generation - killed)
      <4> SUFFICES ASSUME LiveWhole PROVE Archived(generation - killed)
        OBVIOUS
      <4>1. PICK g \in Generations : \A f \in Copied : live[f] = g
        BY DEF LiveWhole
      <4>2. Complete(archive[generation], g)
        BY <2>4, <4>1 DEF Complete
      <4>3. generation >= generation - killed
        BY <1>0
      <4> QED BY <2>1, <4>1, <4>2, <4>3 DEF Archived
    <3>2. Archived(generation - killed)
      BY <2>1, <2>5, <3>1 DEF RetrainInv, LastFiles
    <3>3. PICK d \in DOMAIN archive :
             d >= generation - killed /\ \E g \in Generations : Complete(archive[d], g)
      BY <3>2 DEF Archived
    <3>4. d \in DOMAIN archive' /\ archive'[d] = archive[d]
      BY <2>1, <2>5, <3>3, NewestKept DEF RetrainInv
    <3>5. Archived(generation - killed)'
      BY <2>1, <3>3, <3>4 DEF Archived
    <3>6. generation \in DOMAIN archive'
      <4>1. generation >= generation - killed
        BY <1>0
      <4> QED BY <2>1, <2>5, <4>1, NewestKept DEF RetrainInv
    <3>7. RetrainTyped'
      BY <2>1, <2>2, <3>6 DEF RetrainInv, RetrainTyped, RetrainSteps
    <3> QED BY <2>1, <2>3, <3>5, <3>7 DEF RetrainInv, LastFiles, Copies
  <2>6. CASE ~(killed < ArchiveKeep)
    <3>1. generation \in Kept(DOMAIN archive)
      <4> DEFINE later == {h \in DOMAIN archive : h >= generation}
      <4>1. later = {generation}
        BY <1>0, <2>1
      <4>2. Cardinality(later) = 1
        BY <4>1, FS_Singleton
      <4>3. Cardinality(later) <= ArchiveKeep
        BY <4>2, RetrainAssumption
      <4> QED BY <2>1, <4>3 DEF Kept
    <3>2. RetrainTyped'
      BY <2>1, <2>2, <3>1 DEF RetrainInv, RetrainTyped, RetrainSteps
    <3> QED BY <2>1, <2>3, <2>6, <3>2 DEF RetrainInv, LastFiles, Copies
  <2> QED BY <2>5, <2>6
<1>4. CASE WriteFile
  <2>1. /\ retrain.step = "train" /\ retrain.left # <<>>
        /\ retrain' = [step |-> "train", left |-> Tail(retrain.left)]
        /\ \/ live' = [live EXCEPT ![Head(retrain.left)] = generation]
           \/ Head(retrain.left) = "calib" /\ UNCHANGED live
        /\ UNCHANGED <<archive, generation, killed>>
    BY <1>4 DEF WriteFile
  <2>2. retrain.left \in Rest \ {<<>>}
    BY <2>1 DEF RetrainInv, LeftInv
  <2>3. CASE retrain.left = <<"calib", "bin", "meta", "reference">>
    <3>1. Head(retrain.left) = "calib" /\ Tail(retrain.left) = <<"bin", "meta", "reference">>
      BY <2>3
    <3>2. live' \in [Copied \cup {"calib"} -> Generations]
      BY <1>0, <2>1, <3>1
    <3> QED BY <2>1, <3>1, <3>2 DEF RetrainInv, RetrainTyped, LeftInv, Rest, LastFiles,
            Copies, Archived, RetrainSteps
  <2>4. CASE retrain.left = <<"bin", "meta", "reference">>
    <3>1. Head(retrain.left) = "bin" /\ Tail(retrain.left) = <<"meta", "reference">>
      BY <2>4
    <3>2. live' \in [Copied \cup {"calib"} -> Generations] /\ live'["bin"] = generation
      BY <1>0, <2>1, <3>1 DEF Copied
    <3> QED BY <2>1, <3>1, <3>2 DEF RetrainInv, RetrainTyped, LeftInv, Rest, LastFiles,
            Copies, Archived, RetrainSteps
  <2>5. CASE retrain.left = <<"meta", "reference">>
    <3>1. Head(retrain.left) = "meta" /\ Tail(retrain.left) = <<"reference">>
      BY <2>5
    <3>2. live' \in [Copied \cup {"calib"} -> Generations]
          /\ live'["bin"] = generation /\ live'["meta"] = generation
      BY <1>0, <2>1, <2>5, <3>1 DEF Copied, RetrainInv, LeftInv
    <3> QED BY <2>1, <3>1, <3>2 DEF RetrainInv, RetrainTyped, LeftInv, Rest, LastFiles,
            Copies, Archived, RetrainSteps
  <2>6. CASE retrain.left = <<"reference">>
    <3>1. Head(retrain.left) = "reference" /\ Tail(retrain.left) = <<>>
      BY <2>6
    <3>2. live' \in [Copied \cup {"calib"} -> Generations] /\ live'["bin"] = generation
          /\ live'["meta"] = generation /\ live'["reference"] = generation
      BY <1>0, <2>1, <2>6, <3>1 DEF Copied, RetrainInv, LeftInv
    <3> QED BY <2>1, <3>1, <3>2 DEF RetrainInv, RetrainTyped, LeftInv, Rest, LastFiles,
            Copies, Archived, RetrainSteps
  <2> QED BY <2>2, <2>3, <2>4, <2>5, <2>6 DEF Rest
<1>5. CASE EndRetrain
  <2>1. /\ retrain.step = "train" /\ retrain.left = <<>> /\ retrain'.step = "none"
        /\ killed' = 0 /\ UNCHANGED <<live, archive, generation>>
    BY <1>5 DEF EndRetrain, NoRetrain
  <2>2. \A f \in Copied : live[f] = generation
    BY <2>1 DEF RetrainInv, LeftInv, Copied
  <2>3. LiveWhole'
    BY <1>0, <2>1, <2>2 DEF LiveWhole
  <2>4. RetrainTyped'
    BY <2>1 DEF RetrainInv, RetrainTyped, RetrainSteps
  <2> QED BY <2>1, <2>3, <2>4 DEF RetrainInv, LeftInv, LastFiles, Copies
<1>6. CASE RetrainFails
  <2>1. /\ retrain.step # "none" \/ retrain.step = "none"
        /\ retrain'.step = "none" /\ killed' = killed + 1
        /\ UNCHANGED <<live, archive, generation>>
    BY <1>6 DEF RetrainFails, NoRetrain
  <2>2. RetrainTyped'
    BY <1>0, <2>1 DEF RetrainInv, RetrainTyped, RetrainSteps
  <2>3. generation - killed = generation' - killed' + 1
        /\ generation - killed + 1 >= generation - killed
    BY <1>0, <2>1
  <2>4. Archived(generation - killed + 1) => Archived(generation - killed)
    <3>1. \A d \in DOMAIN archive : d >= generation - killed + 1 => d >= generation - killed
      BY <1>0
    <3> QED BY <3>1 DEF Archived
  <2>5. killed' < ArchiveKeep => killed < ArchiveKeep
    BY <1>0, <2>1
  <2>6. Archived(generation - killed) => Archived(generation - killed + 1)'
    BY <2>1, <2>3 DEF Archived
  <2>7. LastFiles'
    BY <2>1, <2>4, <2>5, <2>6 DEF RetrainInv, RetrainTyped, RetrainSteps, LastFiles, LiveWhole
  <2> QED BY <2>1, <2>2, <2>7 DEF RetrainInv, LeftInv, Copies
<1>7. CASE UNCHANGED retrainVars
  BY <1>7 DEF retrainVars, RetrainInv, RetrainTyped, LeftInv, LastFiles, LiveWhole,
     Archived, Copies
<1> QED BY <1>1, <1>2, <1>3, <1>4, <1>5, <1>6, <1>7 DEF RetrainNext

(* A model, its metadata and its reference features of one generation are    *)
(* live or archived, however retrains fail and for any number of archives    *)
(* kept, as long as fewer than that failed in a row.                         *)
THEOREM ModelsAreNotLost == RetrainSpec => []ModelsSurvive
<1>1. RetrainInv => ModelsSurvive
  <2> SUFFICES ASSUME RetrainInv, killed < ArchiveKeep
               PROVE  \E g \in Generations :
                         \/ Complete({<<f, live[f]>> : f \in Copied}, g)
                         \/ \E d \in DOMAIN archive : Complete(archive[d], g)
    BY DEF ModelsSurvive
  <2>1. LiveWhole \/ \E d \in DOMAIN archive : \E g \in Generations : Complete(archive[d], g)
    BY DEF RetrainInv, RetrainTyped, RetrainSteps, LastFiles, Archived
  <2>2. CASE LiveWhole
    BY <2>2 DEF LiveWhole, Complete
  <2> QED BY <2>1, <2>2
<1> QED BY <1>1, RetrainBegins, RetrainStep, PTL DEF RetrainSpec
===============================================================================
