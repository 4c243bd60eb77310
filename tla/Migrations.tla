------------------------------ MODULE Migrations -------------------------------
(***************************************************************************)
(* utils/storage/migrations.py: every store that opens a database brings   *)
(* its schema to the newest version first.  The lock it takes is that of   *)
(* its own connection pool, so two pools may migrate one database at once, *)
(* and any of them may be killed.  executescript runs each statement in a  *)
(* transaction of its own.                                                 *)
(***************************************************************************)
EXTENDS Integers, Sequences, FiniteSets

CONSTANTS Pools,          \* connection pools that open the database
          Script,         \* per migration, the kinds of its statements
          MaxPoolKills    \* bound on the kills

Kinds == {"create",   \* CREATE TABLE, ADD COLUMN: fails on what exists
          "ensure",   \* IF NOT EXISTS
          "column"}   \* _add_column_if_missing: a look, then ADD COLUMN

ASSUME MigrationsAssumption == Script \in Seq(Seq(Kinds)) /\ MaxPoolKills \in Nat

VARIABLES
    version,    \* PRAGMA user_version
    schema,     \* what exists: per statement carried out, <<migration, place>>
    upgrade,    \* per pool, where its apply_migrations stands
    poolKills

migrationVars == <<version, schema, upgrade, poolKills>>

Target == Len(Script)
StatementsOf(m) == {<<m, i>> : i \in 1..Len(Script[m])}
Closed == [step |-> "closed", at |-> 0, next |-> 0]
Stands(p, step, at, next) ==
    upgrade' = [upgrade EXCEPT ![p] = [step |-> step, at |-> at, next |-> next]]

(* A database of any shipped version. *)
MigrationsInit ==
    /\ version \in 0..Target
    /\ schema = UNION {StatementsOf(m) : m \in 1..version}
    /\ upgrade = [p \in Pools |-> Closed]
    /\ poolKills = 0

(* apply_migrations reads the version once.                                  *)
OpenPool(p) ==
    /\ upgrade[p].step = "closed"
    /\ IF version = Target THEN Stands(p, "open", Target, 0)
                           ELSE Stands(p, "run", version + 1, 1)
    /\ UNCHANGED <<version, schema, poolKills>>

AtStatement(p, kinds) ==
    /\ upgrade[p].next \in DOMAIN Script[upgrade[p].at]
    /\ Script[upgrade[p].at][upgrade[p].next] \in kinds
Statement(p) == <<upgrade[p].at, upgrade[p].next>>

(* Variant: the column is added without a look at the table.                 *)
LookNever(p) ==
    /\ upgrade[p].step = "run" /\ AtStatement(p, {"column"})
    /\ Stands(p, "add", upgrade[p].at, upgrade[p].next)
    /\ UNCHANGED <<version, schema, poolKills>>

(* _add_column_if_missing: PRAGMA table_info.                                *)
Look(p) ==
    /\ upgrade[p].step = "run" /\ AtStatement(p, {"column"})
    /\ IF Statement(p) \in schema THEN Stands(p, "run", upgrade[p].at, upgrade[p].next + 1)
                                  ELSE Stands(p, "add", upgrade[p].at, upgrade[p].next)
    /\ UNCHANGED <<version, schema, poolKills>>

(* A statement commits, or is refused: the error leaves apply_migrations,    *)
(* the store is not opened, and its caller may try again.                    *)
Execute(p) ==
    /\ \/ upgrade[p].step = "run" /\ AtStatement(p, {"create", "ensure"})
       \/ upgrade[p].step = "add"
    /\ IF Statement(p) \in schema /\ ~AtStatement(p, {"ensure"})
       THEN upgrade' = [upgrade EXCEPT ![p] = Closed]
       ELSE Stands(p, "run", upgrade[p].at, upgrade[p].next + 1)
    /\ schema' = IF upgrade'[p] = Closed THEN schema ELSE schema \cup {Statement(p)}
    /\ UNCHANGED <<version, poolKills>>

(* Variant: the version is set before the statements are carried out.        *)
BumpFirst(p) ==
    /\ upgrade[p].step = "run" /\ upgrade[p].next = 1 /\ version < upgrade[p].at
    /\ version' = upgrade[p].at
    /\ UNCHANGED <<schema, upgrade, poolKills>>

(* The version follows the last statement, in the transaction that fills the *)
(* new columns of the eighth migration, and the next migration begins,       *)
(* whatever another pool has made of the version meanwhile.                  *)
Bump(p) ==
    /\ upgrade[p].step = "run" /\ upgrade[p].next > Len(Script[upgrade[p].at])
    /\ version' = upgrade[p].at
    /\ IF upgrade[p].at = Target THEN Stands(p, "open", Target, 0)
                              ELSE Stands(p, "run", upgrade[p].at + 1, 1)
    /\ UNCHANGED <<schema, poolKills>>

ClosePool(p) ==
    /\ upgrade[p].step = "open"
    /\ upgrade' = [upgrade EXCEPT ![p] = Closed]
    /\ UNCHANGED <<version, schema, poolKills>>

KillPool(p) ==
    /\ upgrade[p].step \in {"run", "add"}
    /\ poolKills < MaxPoolKills
    /\ poolKills' = poolKills + 1
    /\ upgrade' = [upgrade EXCEPT ![p] = Closed]
    /\ UNCHANGED <<version, schema>>

PoolStep(p) == OpenPool(p) \/ Look(p) \/ Execute(p) \/ Bump(p)
MigrationsNext == \E p \in Pools : PoolStep(p) \/ ClosePool(p) \/ KillPool(p)
MigrationsSpec == MigrationsInit /\ [][MigrationsNext]_migrationVars

(* Stores are opened again and again, and SQLite lets every pool proceed.    *)
FairMigrationsSpec == MigrationsSpec /\ \A p \in Pools : WF_migrationVars(PoolStep(p))

-------------------------------------------------------------------------------
(* Properties. *)

(* Whichever pools migrate at once and wherever they are killed, everything  *)
(* the version stands for exists, and a store is never used on less than the *)
(* whole schema.                                                             *)
VersionIsEarned ==
    /\ \A m \in 1..version : StatementsOf(m) \subseteq schema
    /\ \A p \in Pools : upgrade[p].step = "open" => \A m \in 1..Target :
           StatementsOf(m) \subseteq schema

(* A kill inside a migration whose statements fail on what exists leaves it  *)
(* half done for good.                                                       *)
Wedged ==
    /\ version < Target
    /\ \E i \in DOMAIN Script[version + 1] :
          Script[version + 1][i] = "create" /\ <<version + 1, i>> \in schema

(* "a partially-applied prior attempt ... must be resumable": every other    *)
(* database reaches the newest version in the end, although a slower pool    *)
(* may have set its version back for a while.                                *)
UpgradeCompletes == <>[](version = Target) \/ <>[](poolKills > 0 /\ Wedged)
===============================================================================
