----------------------------- MODULE AdvisoryLock ------------------------------
(***************************************************************************)
(* utils/storage/locks.py: advisory locks with expiry in the locks table,  *)
(* as Storage.append_parquet takes them around its read, merge and write   *)
(* of a partitioned dataset (utils/storage/__init__.py, parquet_store.py), *)
(* which is written beside the old one and swapped in by two renames.      *)
(* A holder may be killed, fail, or be held up until its row has expired,  *)
(* and a read that fails is taken for a dataset without rows.              *)
(***************************************************************************)
EXTENDS Integers, FiniteSets

CONSTANTS Holders,      \* threads that append to the dataset, each once
          OwnerOf,      \* what each writes as owner: by default its process
          Ttl,          \* what a row lasts
          Patience      \* attempts before a waiter gives up

ASSUME LockAssumption == /\ Ttl \in Nat \ {0} /\ Patience \in Nat \ {0}
                         /\ DOMAIN OwnerOf = Holders

VARIABLES
    row,        \* the lock's row, if any: its inserter, and the time it has left
    holder,     \* per thread: its step, its attempts, and what it read
    disk,       \* the rows, by thread, in the dataset, its .tmp and its .bak
    appended,   \* history: the threads whose dataset was swapped in
    missed,     \* history: rows on disk that a read did not return
    overstayed  \* history: the threads that outlived their rows

lockVars == <<row, holder, disk, appended, missed, overstayed>>

NoRow == {}
RowOf(h) == {r \in row : r.by = h}
Inside(h) == holder[h].step \in {"read", "write", "aside", "swap", "release"}
Goes(h, step, tries, read) ==
    holder' = [holder EXCEPT ![h] = [step |-> step, tries |-> tries, read |-> read]]

LockInit ==
    /\ row = NoRow
    /\ holder = [h \in Holders |-> [step |-> "acquire", tries |-> 0, read |-> {}]]
    /\ disk = [path |-> {}, tmp |-> {}, bak |-> {}]
    /\ appended = {}
    /\ missed = {}
    /\ overstayed = {}

LockTick ==
    /\ \E r \in row :
          /\ r.left > 0
          /\ row' = {[by |-> r.by, left |-> r.left - 1]}
          /\ overstayed' = IF r.left = 1 /\ Inside(r.by) THEN overstayed \cup {r.by}
                                                         ELSE overstayed
    /\ UNCHANGED <<holder, disk, appended, missed>>

(* Variant: the row is taken to be a leftover. *)
TryAcquireAnyway(h) ==
    /\ holder[h].step = "acquire"
    /\ row' = {[by |-> h, left |-> Ttl]}
    /\ Goes(h, "read", 0, {})
    /\ UNCHANGED <<disk, appended, missed, overstayed>>

(* _try_acquire: an expired row is deleted, a live one refuses the insert;   *)
(* advisory_lock tries again until its timeout, then raises LockHeldError.   *)
TryAcquire(h) ==
    /\ holder[h].step = "acquire"
    /\ IF \A r \in row : r.left = 0
       THEN row' = {[by |-> h, left |-> Ttl]} /\ Goes(h, "read", 0, {})
       ELSE /\ UNCHANGED row
            /\ IF holder[h].tries + 1 < Patience
               THEN Goes(h, "acquire", holder[h].tries + 1, {})
               ELSE Goes(h, "refused", 0, {})
    /\ UNCHANGED <<disk, appended, missed, overstayed>>

(* read_parquet: what cannot be read, or is not there, has no rows.          *)
ReadDataset(h) ==
    /\ holder[h].step = "read"
    /\ \E found \in {disk.path, {}} :
          /\ Goes(h, "write", 0, found)
          /\ missed' = missed \cup ((disk.path \cup disk.bak) \ found)
    /\ UNCHANGED <<row, disk, appended, overstayed>>

(* write_partitioned_parquet: what was read, with the new rows, is written   *)
(* beside the dataset; nothing asks whether the lock is still held.          *)
WriteBeside(h) ==
    /\ holder[h].step = "write"
    /\ disk' = [disk EXCEPT !.tmp = holder[h].read \cup {h}]
    /\ Goes(h, "aside", 0, holder[h].read)
    /\ UNCHANGED <<row, appended, missed, overstayed>>

(* _atomic_replace_dir: an older .bak is deleted, the dataset becomes it ... *)
PutAside(h) ==
    /\ holder[h].step = "aside"
    /\ disk' = [disk EXCEPT !.bak = disk.path, !.path = {}]
    /\ Goes(h, "swap", 0, {})
    /\ UNCHANGED <<row, appended, missed, overstayed>>
(* ... and the new one takes its place; the .bak may outlive its deletion.   *)
SwapIn(h) ==
    /\ holder[h].step = "swap"
    /\ disk.path = {} /\ disk.tmp # {}
    /\ \E bak \in {{}, disk.bak} :
          disk' = [path |-> disk.tmp, tmp |-> {}, bak |-> bak]
    /\ appended' = appended \cup {h}
    /\ Goes(h, "release", 0, {})
    /\ UNCHANGED <<row, missed, overstayed>>

(* An error before the swap leaves the dataset where it is, one within the   *)
(* swap puts it back; either removes the .tmp and releases the lock.         *)
AppendFails(h) ==
    /\ holder[h].step \in {"write", "aside", "swap"}
    /\ disk' = IF holder[h].step = "swap" /\ disk.path = {}
               THEN [path |-> disk.bak, tmp |-> {}, bak |-> {}]
               ELSE [disk EXCEPT !.tmp = {}]
    /\ Goes(h, "release", 0, {})
    /\ UNCHANGED <<row, appended, missed, overstayed>>

(* Variant: the row is deleted whoever owns it. *)
ReleaseAny(h) ==
    /\ holder[h].step = "release"
    /\ row' = NoRow
    /\ Goes(h, "done", 0, {})
    /\ UNCHANGED <<disk, appended, missed, overstayed>>

(* The row of that name and owner is deleted, whoever inserted it.           *)
Release(h) ==
    /\ holder[h].step = "release"
    /\ row' = {r \in row : OwnerOf[r.by] # OwnerOf[h]}
    /\ Goes(h, "done", 0, {})
    /\ UNCHANGED <<disk, appended, missed, overstayed>>

(* The thread's process is killed; its row stays until it expires.           *)
KillHolder(h) ==
    /\ Inside(h)
    /\ Goes(h, "killed", 0, {})
    /\ UNCHANGED <<row, disk, appended, missed, overstayed>>

LockNext == \/ LockTick
            \/ \E h \in Holders : \/ TryAcquire(h) \/ ReadDataset(h) \/ WriteBeside(h)
                                  \/ PutAside(h) \/ SwapIn(h) \/ AppendFails(h)
                                  \/ Release(h) \/ KillHolder(h)

LockSpec == LockInit /\ [][LockNext]_lockVars

-------------------------------------------------------------------------------
(* While nobody outlives a row, what was appended is on disk, as the dataset *)
(* or its .bak, but for rows a later read did not return: one that failed,   *)
(* or one of a dataset that a kill between the renames had left aside.  Once *)
(* somebody has, the row of a later holder is still its own, and keeps       *)
(* everybody else out, unless a thread of the same owner overstayed.         *)
LockProtects ==
    /\ overstayed = {} => appended \subseteq disk.path \cup disk.bak \cup missed
    /\ \A h \in Holders \ overstayed :
          Inside(h) => \/ RowOf(h) # {}
                       \/ \E g \in overstayed \ {h} : OwnerOf[g] = OwnerOf[h]
===============================================================================
