---------------------------- MODULE RetrainTrigger -----------------------------
(***************************************************************************)
(* models/retrain_trigger.py and what models/train.py writes: a retrain    *)
(* archives the files of the live models, prunes the archive, and replaces *)
(* the live files one by one.  It may be killed between any two of them.   *)
(***************************************************************************)
EXTENDS Integers, Sequences, FiniteSets

CONSTANTS MaxRetrains, \* bound on the retrains that are started
          ArchiveKeep  \* retrain.archive_keep

ASSUME RetrainAssumption == MaxRetrains \in Nat /\ ArchiveKeep \in Nat \ {0}

VARIABLES
    live,        \* the generation of each file of the models directory
    archive,     \* archive/<timestamp>: per retrain, the files copied
    retrain,     \* the retrain at work: its step and the files still to write
    generation,  \* retrains started; the models at first are generation 0
    killed       \* history: retrains in a row that did not finish

retrainVars == <<live, archive, retrain, generation, killed>>

(* In the order train writes them, one target standing for all: calibrator,  *)
(* model, metadata, and the features the drift is measured against.          *)
Written == <<"calib", "bin", "meta", "reference">>
(* .bin, .json and .parquet; a calibrator is a .pkl and is not copied.       *)
Copied == {"bin", "meta", "reference"}
Generations == 0..MaxRetrains
NoRetrain == [step |-> "none", left |-> <<>>]

RetrainInit ==
    /\ live = [file \in Copied \cup {"calib"} |-> 0]
    /\ archive = [g \in {} |-> {}]
    /\ retrain = NoRetrain
    /\ generation = 0
    /\ killed = 0

(* check_and_retrain finds drift, or is forced.  (Without drift it writes    *)
(* its report and nothing else.)                                             *)
StartRetrain ==
    /\ retrain = NoRetrain
    /\ generation < MaxRetrains
    /\ generation' = generation + 1
    /\ retrain' = [step |-> "archive", left |-> Written]
    /\ archive' = [g \in DOMAIN archive \cup {generation'} |->
                      IF g = generation' THEN {} ELSE archive[g]]
    /\ UNCHANGED <<live, killed>>

(* _archive_current, one file after the other in any order. *)
HasCopied(file) == \E g \in Generations : <<file, g>> \in archive[generation]
ArchiveFile ==
    /\ retrain.step = "archive"
    /\ \E file \in Copied :
          /\ ~HasCopied(file)
          /\ archive' = [archive EXCEPT ![generation] = @ \cup {<<file, live[file]>>}]
    /\ UNCHANGED <<live, retrain, generation, killed>>

(* Variant: training begins while the files are still being copied.          *)
PruneWhileCopying ==
    /\ retrain.step = "archive"
    /\ retrain' = [step |-> "train", left |-> retrain.left]
    /\ UNCHANGED <<live, archive, generation, killed>>

(* _prune_archive keeps the newest directories, whole or not. *)
Kept(dirs) == {g \in dirs : Cardinality({h \in dirs : h >= g}) <= ArchiveKeep}
PruneArchive ==
    /\ retrain.step = "archive"
    /\ \A file \in Copied : HasCopied(file)
    /\ archive' = [g \in Kept(DOMAIN archive) |-> archive[g]]
    /\ retrain' = [step |-> "train", left |-> retrain.left]
    /\ UNCHANGED <<live, generation, killed>>

(* train; a calibrator is fitted only when its slice allows it.              *)
WriteFile ==
    /\ retrain.step = "train" /\ retrain.left # <<>>
    /\ \/ live' = [live EXCEPT ![Head(retrain.left)] = generation]
       \/ Head(retrain.left) = "calib" /\ UNCHANGED live
    /\ retrain' = [step |-> "train", left |-> Tail(retrain.left)]
    /\ UNCHANGED <<archive, generation, killed>>
EndRetrain ==
    /\ retrain.step = "train" /\ retrain.left = <<>>
    /\ retrain' = NoRetrain
    /\ killed' = 0
    /\ UNCHANGED <<live, archive, generation>>

(* The process dies, training raises, or the training matrix is empty. *)
RetrainFails ==
    /\ retrain # NoRetrain
    /\ retrain' = NoRetrain
    /\ killed' = killed + 1
    /\ UNCHANGED <<live, archive, generation>>

RetrainNext == \/ StartRetrain \/ ArchiveFile \/ PruneArchive \/ WriteFile
               \/ EndRetrain \/ RetrainFails

RetrainSpec == RetrainInit /\ [][RetrainNext]_retrainVars

-------------------------------------------------------------------------------
(* A model, its metadata and its reference features of one generation are    *)
(* live or archived, as long as fewer retrains in a row failed than the      *)
(* archive keeps: neither a half-written generation nor the pruning of old   *)
(* ones takes the last files that belong together.                           *)
Complete(files, g) == \A file \in Copied : <<file, g>> \in files
ModelsSurvive ==
    killed < ArchiveKeep =>
        \E g \in Generations :
           \/ Complete({<<file, live[file]>> : file \in Copied}, g)
           \/ \E d \in DOMAIN archive : Complete(archive[d], g)
===============================================================================
