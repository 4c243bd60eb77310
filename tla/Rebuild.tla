-------------------------------- MODULE Rebuild --------------------------------
(***************************************************************************)
(* pipeline_full.py: the full rebuild, from a scrape to the predictions,   *)
(* with the two model lines trained at the same time, each by a process of *)
(* its own.  A run may be killed anywhere; its trainers are plain child    *)
(* processes that go on without it.  A run with --resume skips what its    *)
(* comparison of file times calls fresh.  Data is known by its generation, *)
(* the number of the scrape it stems from.  The daily refresh normalises   *)
(* into the same dataset at any time, by an unlocked read-merge-write.     *)
(***************************************************************************)
EXTENDS Integers, FiniteSetsExt

CONSTANTS MaxScrapes,       \* bound on the generations
          MaxRebuildKills   \* bound on the kills

ASSUME RebuildAssumption == MaxScrapes \in Nat \ {0} /\ MaxRebuildKills \in Nat

VARIABLES
    raw,        \* generation of the scraped sources
    file,       \* per file, the generation it holds
    newer,      \* the pairs of Compared whose first is the newer file
    best,       \* the newest generation the dataset has held
    astray,     \* the model files an orphan wrote, or made of data put back
    rebuild,    \* the run: its step, and --resume
    trainer,    \* per run killed so far and the last, per line: a process
    refresh,    \* a refresh: its step, and the data it is to write
    rebuildKills

rebuildVars == <<raw, file, newer, best, astray, rebuild, trainer, refresh, rebuildKills>>

Absent == 0
Useless == -1      \* cut off in the middle, or without a labelled row
Lines == {"catboost", "lgbm"}
Files == {"unified", "training", "won", "others", "lgbm"}
Compared == {<<"training", "unified">>, <<"won", "training">>, <<"lgbm", "training">>}

(* models.train derives its own matrix; train_lgbm reads the one on disk.    *)
DataOf == [line \in Lines |-> IF line = "catboost" THEN "unified" ELSE "training"]
ModelOf == [line \in Lines |-> IF line = "catboost" THEN "won" ELSE "lgbm"]

At(step) == [rebuild EXCEPT !.step = step]
NoRun == [step |-> "none", resume |-> FALSE]
Process(step) == [step |-> step, data |-> Absent, late |-> FALSE]
NoTrainer == [line \in Lines |-> Process("none")]
NoRefresh == [step |-> "none", data |-> Absent]

(* Everything is built, or nothing is yet.                                   *)
RebuildInit ==
    /\ raw = 1
    /\ \/ file = [f \in Files |-> 1] /\ newer = Compared
       \/ file = [f \in Files |-> Absent] /\ newer = {}
    /\ best = file["unified"]
    /\ astray = {}
    /\ rebuild = NoRun
    /\ trainer = [run \in 0..MaxRebuildKills |-> NoTrainer]
    /\ refresh = NoRefresh
    /\ rebuildKills = 0

Writes(f, generation) ==
    /\ file' = [file EXCEPT ![f] = generation]
    /\ newer' = {pair \in newer : pair[2] # f} \cup {pair \in Compared : pair[1] = f}

WritesDataset(generation) ==
    /\ Writes("unified", generation)
    /\ best' = Max({best, generation})

(* A refresh that read before another one wrote, or could not read, has put  *)
(* older data back.                                                          *)
PutBack == file["unified"] < best

(* Variant: a file that exists is fresh.                                     *)
ExistsOnly(output, input) == file[output] # Absent

(* _is_fresh: times are compared, content is not.                            *)
Fresh(output, input) == file[output] # Absent /\ <<output, input>> \in newer

(* stage_scrape, or --skip-scrape.                                           *)
BeginRebuild(resume) ==
    /\ rebuild.step = "none"
    /\ \/ raw < MaxScrapes /\ raw' = raw + 1
       \/ UNCHANGED raw
    /\ rebuild' = [step |-> "features", resume |-> resume]
    /\ UNCHANGED <<file, newer, best, astray, trainer, refresh, rebuildKills>>

SkipFeatures ==
    /\ rebuild.step = "features"
    /\ rebuild.resume /\ Fresh("training", "unified")
    /\ rebuild' = At("launch")
    /\ UNCHANGED <<raw, file, newer, best, astray, trainer, refresh, rebuildKills>>

(* What is on disk is merged in, but nothing there is newer than the sources *)
(* of this run; the dataset is swapped in whole.                             *)
Normalize ==
    /\ rebuild.step = "features"
    /\ ~(rebuild.resume /\ Fresh("training", "unified"))
    /\ WritesDataset(raw)
    /\ rebuild' = At("build")
    /\ UNCHANGED <<raw, astray, trainer, refresh, rebuildKills>>

(* The matrix is written in place, from the rows this run normalised; one    *)
(* without a labelled row is written all the same, and ends the run.         *)
BuildMatrix ==
    /\ rebuild.step = "build"
    /\ Writes("training", Useless)
    /\ rebuild' \in {At("matrix"), NoRun}
    /\ UNCHANGED <<raw, best, astray, trainer, refresh, rebuildKills>>

MatrixBuilt ==
    /\ rebuild.step = "matrix"
    /\ Writes("training", raw)
    /\ rebuild' = At("launch")
    /\ UNCHANGED <<raw, best, astray, trainer, refresh, rebuildKills>>

(* stage_train: both lines are compared with the matrix.                     *)
Launch ==
    /\ rebuild.step = "launch"
    /\ trainer' = [trainer EXCEPT ![rebuildKills] =
           [line \in Lines |-> Process(
               IF rebuild.resume /\ Fresh(ModelOf[line], "training")
               THEN "skipped" ELSE "launched")]]
    /\ rebuild' = At("train")
    /\ UNCHANGED <<raw, file, newer, best, astray, refresh, rebuildKills>>

(* The trainers: of the run, and those of runs that were killed.             *)
Orphan(run) == run < rebuildKills
Ends(run, line, step) == trainer' = [trainer EXCEPT ![run][line] =
                             Process(IF Orphan(run) THEN "none" ELSE step)]

ReadData(run, line) ==
    /\ trainer[run][line].step = "launched"
    /\ file[DataOf[line]] \notin {Absent, Useless}
    /\ trainer' = [trainer EXCEPT ![run][line] =
           [step |-> "fitting", data |-> file[DataOf[line]],
            late |-> DataOf[line] = "unified" /\ PutBack]]
    /\ UNCHANGED <<raw, file, newer, best, astray, rebuild, refresh, rebuildKills>>

WritesModel(run, line, f, generation) ==
    /\ Writes(f, generation)
    /\ astray' = IF Orphan(run) \/ trainer[run][line].late
                 THEN astray \cup {f} ELSE astray \ {f}
    /\ UNCHANGED <<raw, best, rebuild, refresh, rebuildKills>>

(* Of the CatBoost line the other targets follow the first.                  *)
GoesOn(run, line) ==
    IF line = "catboost" /\ trainer[run][line].step = "fitting"
    THEN trainer' = [trainer EXCEPT ![run][line].step = "saved"]
    ELSE Ends(run, line, "ok")

(* The LightGBM line judges what it has saved on a holdout.                  *)
SaveModel(run, line) ==
    /\ trainer[run][line].step = "fitting"
    /\ WritesModel(run, line, ModelOf[line], trainer[run][line].data)
    /\ \/ GoesOn(run, line)
       \/ line = "lgbm" /\ Ends(run, line, "failed")

Finish(run) ==
    /\ trainer[run]["catboost"].step = "saved"
    /\ WritesModel(run, "catboost", "others", trainer[run]["catboost"].data)
    /\ GoesOn(run, "catboost")

(* A save fails in the middle, or two processes write one file at once.      *)
SpoilModel(run, line) ==
    /\ \/ /\ trainer[run][line].step = "fitting"
          /\ WritesModel(run, line, ModelOf[line], Useless)
       \/ /\ trainer[run][line].step = "saved"
          /\ WritesModel(run, line, "others", Useless)
    /\ \/ Ends(run, line, "failed")
       \/ /\ \E other \in DOMAIN trainer \ {run} :
                trainer[other][line].step = trainer[run][line].step
          /\ GoesOn(run, line)

Fail(run, line) ==
    /\ trainer[run][line].step \in {"launched", "fitting", "saved"}
    /\ Ends(run, line, "failed")
    /\ UNCHANGED <<raw, file, newer, best, astray, rebuild, refresh, rebuildKills>>

(* Both are waited for, and a failure of either ends the run.                *)
EndTraining ==
    /\ rebuild.step = "train"
    /\ \A line \in Lines : trainer[rebuildKills][line].step \in {"ok", "failed", "skipped"}
    /\ rebuild' = IF \E line \in Lines : trainer[rebuildKills][line].step = "failed"
                  THEN NoRun ELSE At("predict")
    /\ trainer' = [trainer EXCEPT ![rebuildKills] = NoTrainer]
    /\ UNCHANGED <<raw, file, newer, best, astray, refresh, rebuildKills>>

(* The predictions are made with the models on disk: without a CatBoost one  *)
(* that cannot be loaded the old ones stay, a LightGBM one is done without.  *)
Predict ==
    /\ rebuild.step = "predict"
    /\ rebuild' = NoRun
    /\ UNCHANGED <<raw, file, newer, best, astray, trainer, refresh, rebuildKills>>

(* scripts/refresh.py and the dashboard normalise whenever they are run:     *)
(* they read the sources, merge in what the dataset then holds, or nothing   *)
(* if it cannot be read, and write it back; the sources may have changed     *)
(* since they were read.                                                     *)
RefreshMerges ==
    /\ refresh.step = "none"
    /\ \E sources \in 1..raw, found \in {file["unified"], Absent} :
          refresh' = [step |-> "merged", data |-> Max({sources, found})]
    /\ UNCHANGED <<raw, file, newer, best, astray, rebuild, trainer, rebuildKills>>

RefreshWrites ==
    /\ refresh.step = "merged"
    /\ WritesDataset(refresh.data)
    /\ refresh' = NoRefresh
    /\ UNCHANGED <<raw, astray, rebuild, trainer, rebuildKills>>

(* Killed, a run leaves behind the trainers that have not ended; one that    *)
(* is killed with it fails at once.                                          *)
KillRebuild ==
    /\ rebuild.step # "none"
    /\ rebuildKills < MaxRebuildKills
    /\ rebuildKills' = rebuildKills + 1
    /\ rebuild' = NoRun
    /\ trainer' = [trainer EXCEPT ![rebuildKills] = [line \in Lines |->
           IF trainer[rebuildKills][line].step \in {"launched", "fitting", "saved"}
           THEN trainer[rebuildKills][line] ELSE Process("none")]]
    /\ UNCHANGED <<raw, file, newer, best, astray, refresh>>

TrainerStep(run, line) ==
    \/ ReadData(run, line) \/ SaveModel(run, line) \/ SpoilModel(run, line)
    \/ Fail(run, line)
RebuildNext ==
    \/ \E resume \in BOOLEAN : BeginRebuild(resume)
    \/ SkipFeatures \/ Normalize \/ BuildMatrix \/ MatrixBuilt \/ Launch
    \/ \E run \in 0..MaxRebuildKills : \E line \in Lines : TrainerStep(run, line)
    \/ \E run \in 0..MaxRebuildKills : Finish(run)
    \/ EndTraining \/ Predict \/ KillRebuild
    \/ RefreshMerges \/ RefreshWrites
RebuildSpec == RebuildInit /\ [][RebuildNext]_rebuildVars

-------------------------------------------------------------------------------
(* Properties. *)

Loads == Useless \notin {file["won"], file["others"]}

(* Whatever was killed or failed before, and whatever is refreshed and goes  *)
(* on meanwhile, a rebuild that gets to its predictions makes them with a    *)
(* win model no older than the matrix on disk, and with a LightGBM line of   *)
(* that very matrix or none; one that skips nothing makes them with models   *)
(* of its own scrape.  What escapes is named: a model file that was last     *)
(* written by a trainer whose run is dead, or made of a dataset in which a   *)
(* refresh, overlapping or blind, had put older data back.                   *)
NoStaleModelServed ==
    rebuild.step = "predict" /\ Loads =>
        /\ "won" \notin astray => file["won"] >= file["training"]
        /\ "lgbm" \notin astray => file["lgbm"] \in {file["training"], Useless}
        /\ ~rebuild.resume =>
              /\ file["training"] >= raw
              /\ "others" \notin astray => file["others"] >= raw
===============================================================================
