------------------------------- MODULE MCWorkers -------------------------------
(***************************************************************************)
(* Instances for TLC of the workers that must come to an end: they share   *)
(* no state, and a behaviour is one of any single one of them.             *)
(*                                                                         *)
(*   hosted  three comments, two of one text; a request may cost more than *)
(*           what is reserved for it, and the cap may be raised            *)
(*   fetch   three workers for one domain that has one slot, with two      *)
(*           global slots and one proxy                                    *)
(*   migrations  two pools of processes that upgrade one database, from    *)
(*           any version, through a migration of each kind                 *)
(***************************************************************************)
EXTENDS HostedExtraction, FetchPath, Migrations

CONSTANTS ta, tb, ma, mb, w1, w2, w3, da

TwoAlike == [c \in 1..3 |-> IF c = 2 THEN tb ELSE ta]
OneDomain == [w \in {w1, w2, w3} |-> da]
OnePerDomain == [d \in {da} |-> 1]

ThreeKinds == << <<"create", "create">>, <<"ensure", "ensure">>, <<"column", "ensure">> >>

VARIABLE service
vars == <<hostedVars, fetchVars, migrationVars, service>>

(* The variables of a service a behaviour is not of have one initial value. *)
Only(name, init, still) == init /\ (service # name => still)
Init == /\ service \in {"hosted", "fetch", "migrations"}
        /\ Only("hosted", HostedInit, ledger.cap = CHOOSE cap \in CostCaps : TRUE)
        /\ FetchInit /\ \A w \in Workers : worker[w].step = "pick" <=> service = "fetch"
        /\ Only("migrations", MigrationsInit, version = Target)

Is(name, others) == service = name /\ UNCHANGED <<service, others>>
IsHosted == Is("hosted", <<fetchVars, migrationVars>>)
IsFetch == Is("fetch", <<hostedVars, migrationVars>>)
IsMigrations == Is("migrations", <<hostedVars, fetchVars>>)

Next == \/ IsHosted /\ HostedNext
        \/ IsFetch /\ FetchNext
        \/ IsMigrations /\ MigrationsNext

(* The fairness of FairHostedSpec, FairFetchSpec and FairMigrationsSpec.     *)
Spec == /\ Init /\ [][Next]_vars
        /\ WF_vars(IsHosted /\ BatchStep)
        /\ WF_vars(IsFetch /\ Second)
        /\ WF_vars(IsFetch /\ \E w \in Workers : WorkerStep(w))
        /\ \A p \in Pools : WF_vars(IsMigrations /\ PoolStep(p))
===============================================================================
