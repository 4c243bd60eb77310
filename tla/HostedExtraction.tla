--------------------------- MODULE HostedExtraction ----------------------------
(***************************************************************************)
(* The capped extraction of features from archived comments by a hosted    *)
(* model: the batch of a daily run (llm/shadow_extraction.py), one call    *)
(* with its retries (llm/hosted_adapter.py) and the budget ledger on disk  *)
(* (llm/hosted_budget.py).  The ledger is written by one process at a      *)
(* time; it may be killed anywhere, and the next run reads what it left.   *)
(*                                                                         *)
(* A run whose configuration, key or price check refuses ends before it    *)
(* reads the ledger and changes nothing; it is left out.                   *)
(***************************************************************************)
EXTENDS Integers, Sequences, FiniteSets

CONSTANTS Comments,   \* archived comments, numbered as they were fetched
          TextOf,     \* the text of each; two comments may have the same
          Models,     \* the models the provider may name in an answer
          Model,      \* the one that is configured
          WorstCost,  \* worst case of one request
          MaxRetries, \* requests after the first for one text
          Bills,      \* what an answered request may cost
          CostCaps,   \* the values max_cost_usd is configured to
          RequestCap, \* max_requests
          BatchSize,  \* batch_size_per_run
          MaxKills,   \* bound on the runs that are killed
          MaxUnseen   \* bound on what is billed without the ledger knowing

ASSUME HostedAssumption ==
    /\ Comments = 1..Cardinality(Comments) /\ DOMAIN TextOf = Comments
    /\ Model \in Models
    /\ WorstCost \in Nat /\ MaxRetries \in Nat /\ RequestCap \in Nat
    /\ Bills \subseteq Nat /\ CostCaps \subseteq Nat /\ CostCaps # {}
    /\ BatchSize \in Nat \ {0} /\ MaxKills \in Nat /\ MaxUnseen \in Nat

VARIABLES
    fetched,   \* how many comments the archive holds
    rows,      \* llm_shadow_extractions: comments, each with a model
    cache,     \* the texts whose answer is cached, with the model it names
    ledger,    \* hosted_budget_ledger.json
    batch,     \* the run: its step, the comments left, and of the request
               \* the failed attempts, the bill and the model named
    spent,     \* history: what was billed
    unseen,    \* history: what was billed without the ledger knowing
    paid,      \* history: per text, the answers paid for
    kills,     \* runs killed
    lost       \* history: per text, the answers that are cached no more

hostedVars == <<fetched, rows, cache, ledger, batch, spent, unseen, paid, kills, lost>>

Texts == {TextOf[c] : c \in Comments}
Text == TextOf[Head(batch.todo)]
Cached(t) == \E m \in Models : <<t, m>> \in cache
Batch(step, todo) ==
    [step |-> step, todo |-> todo, attempts |-> 0, bill |-> 0, named |-> Model]
NoBatch == Batch("none", <<>>)

(* Every reservation is the worst case of all the attempts, as one request.  *)
Reservation == WorstCost * (1 + MaxRetries)
Ledger(cap, committed, requests, reserved) ==
    [cap |-> cap, committed |-> committed, requests |-> requests, reserved |-> reserved]
RemainingCost == ledger.cap - ledger.committed - ledger.reserved * Reservation
RemainingRequests == RequestCap - ledger.requests - ledger.reserved
Affordable == Reservation <= RemainingCost /\ 1 <= RemainingRequests

HostedInit ==
    /\ fetched = 0
    /\ rows = {}
    /\ cache = {}
    /\ \E cap \in CostCaps : ledger = Ledger(cap, 0, 0, 0)
    /\ batch = NoBatch
    /\ spent = 0
    /\ unseen = 0
    /\ paid = [t \in Texts |-> 0]
    /\ kills = 0
    /\ lost = [t \in Texts |-> 0]

(* The spotlight scrape archives a comment. *)
FetchComment ==
    /\ fetched + 1 \in Comments
    /\ fetched' = fetched + 1
    /\ UNCHANGED <<rows, cache, ledger, batch, spent, unseen, paid, kills, lost>>

(* select_unprocessed: no row under the configured model, oldest first, one  *)
(* batch.                                                                    *)
Oldest(set) == {c \in set : Cardinality({d \in set : d <= c}) <= BatchSize}
Unprocessed == Oldest({c \in 1..fetched : <<c, Model>> \notin rows})
Chosen == SelectSeq([c \in Comments |-> c], LAMBDA c : c \in Unprocessed)

(* Variant: reservations of dead runs are dropped with the old process.      *)
StartBatchAnew ==
    /\ batch = NoBatch /\ Unprocessed # {}
    /\ \E cap \in CostCaps :
          ledger' = Ledger(cap, ledger.committed, ledger.requests, 0)
    /\ batch' = Batch("row", Chosen)
    /\ UNCHANGED <<fetched, rows, cache, spent, unseen, paid, kills, lost>>

(* _load keeps the spend and the reservations, and adopts the cap configured *)
(* now, be it higher or lower.                                               *)
StartBatch ==
    /\ batch = NoBatch /\ Unprocessed # {}
    /\ \E cap \in CostCaps :
          ledger' = Ledger(cap, ledger.committed, ledger.requests, ledger.reserved)
    /\ batch' = Batch("row", Chosen)
    /\ UNCHANGED <<fetched, rows, cache, spent, unseen, paid, kills, lost>>

(* record: INSERT OR IGNORE under the model named, and the next comment.     *)
RecordRow(model) == /\ rows' = rows \cup {<<Head(batch.todo), model>>}
                    /\ batch' = Batch("row", Tail(batch.todo))

(* extract: an answer to the same text is replayed; otherwise the worst case *)
(* is reserved, or the run ends.                                             *)
Replay ==
    /\ batch.step = "row" /\ batch.todo # <<>>
    /\ \E m \in Models : <<Text, m>> \in cache /\ RecordRow(m)
    /\ UNCHANGED <<fetched, cache, ledger, spent, unseen, paid, kills, lost>>
Reserve ==
    /\ batch.step = "row" /\ batch.todo # <<>>
    /\ ~Cached(Text)
    /\ IF Affordable
       THEN /\ ledger' = Ledger(ledger.cap, ledger.committed, ledger.requests,
                                ledger.reserved + 1)
            /\ batch' = Batch("post", batch.todo)
       ELSE batch' = NoBatch /\ UNCHANGED ledger
    /\ UNCHANGED <<fetched, rows, cache, spent, unseen, paid, kills, lost>>

(* A request fails; it may have been billed.  After the last one the         *)
(* reservation is released and the failure is the comment's row.             *)
Released == Ledger(ledger.cap, ledger.committed, ledger.requests, ledger.reserved - 1)
Unseen(bill) == /\ unseen + bill <= MaxUnseen
                /\ unseen' = unseen + bill
                /\ spent' = spent + bill


RequestFails ==
    /\ batch.step = "post"
    /\ \E bill \in {0, WorstCost} : Unseen(bill)
    /\ IF batch.attempts < MaxRetries
       THEN /\ batch' = [batch EXCEPT !.attempts = @ + 1]
            /\ UNCHANGED <<rows, ledger>>
       ELSE ledger' = Released /\ RecordRow(Model)
    /\ UNCHANGED <<fetched, cache, paid, kills, lost>>

Answer ==
    /\ batch.step = "post"
    /\ \E bill \in Bills, model \in Models :
          /\ batch' = [Batch("answered", batch.todo) EXCEPT !.bill = bill, !.named = model]
          /\ IF bill <= Reservation
             THEN spent' = spent + bill /\ UNCHANGED unseen
             ELSE Unseen(bill)
    /\ UNCHANGED <<fetched, rows, cache, ledger, paid, kills, lost>>

(* An answer whose usage cannot be read raises after the reservation: the    *)
(* run leaves it standing and goes on with the next comment.                 *)
AnswerUnreadable ==
    /\ batch.step = "post"
    /\ \E bill \in {b \in Bills : b <= Reservation} : spent' = spent + bill
    /\ batch' = Batch("row", Tail(batch.todo))
    /\ UNCHANGED <<fetched, rows, cache, ledger, unseen, paid, kills, lost>>

(* commit: a bill above the reservation is refused, the reservation released *)
(* and the run ended; the comment stays unprocessed.                         *)
Commit ==
    /\ batch.step = "answered"
    /\ IF batch.bill <= Reservation
       THEN /\ ledger' = Ledger(ledger.cap, ledger.committed + batch.bill,
                                ledger.requests + 1, ledger.reserved - 1)
            /\ paid' = [paid EXCEPT ![Text] = @ + 1]
            /\ batch' = [batch EXCEPT !.step = "store", !.bill = 0]
       ELSE ledger' = Released /\ batch' = NoBatch /\ UNCHANGED paid
    /\ UNCHANGED <<fetched, rows, cache, spent, unseen, kills, lost>>

(* Variant: only an answer of the right shape is cached. *)
CacheSomeAnswers ==
    /\ batch.step = "store"
    /\ cache' \in {cache, cache \cup {<<Text, batch.named>>}}
    /\ batch' = [batch EXCEPT !.step = "record"]
    /\ UNCHANGED <<fetched, rows, ledger, spent, unseen, paid, kills, lost>>

(* The answer is cached whether or not it has the right shape; an error of   *)
(* the write is only logged ...                                              *)
Loses(t) == lost' = [lost EXCEPT ![t] = @ + 1]
CacheAnswer ==
    /\ batch.step = "store"
    /\ \/ cache' = cache \cup {<<Text, batch.named>>} /\ UNCHANGED lost
       \/ Loses(Text) /\ UNCHANGED cache
    /\ batch' = [batch EXCEPT !.step = "record"]
    /\ UNCHANGED <<fetched, rows, ledger, spent, unseen, paid, kills>>

(* ... and then becomes the comment's row.                                   *)
RecordAnswer ==
    /\ batch.step = "record"
    /\ RecordRow(batch.named)
    /\ UNCHANGED <<fetched, cache, ledger, spent, unseen, paid, kills, lost>>

(* Content that cannot be hashed raises before the answer is cached: the run *)
(* goes on with the next comment.                                            *)
LoseAnswer ==
    /\ batch.step = "store"
    /\ Loses(Text)
    /\ batch' = Batch("row", Tail(batch.todo))
    /\ UNCHANGED <<fetched, rows, cache, ledger, spent, unseen, paid, kills>>

(* An answer is kept for thirty days. *)
Expire(t) ==
    /\ Cached(t)
    /\ cache' = {answer \in cache : answer[1] # t}
    /\ Loses(t)
    /\ UNCHANGED <<fetched, rows, ledger, batch, spent, unseen, paid, kills>>

EndBatch ==
    /\ batch.step = "row" /\ batch.todo = <<>>
    /\ batch' = NoBatch
    /\ UNCHANGED <<fetched, rows, cache, ledger, spent, unseen, paid, kills, lost>>

KillBatch ==
    /\ batch # NoBatch /\ kills < MaxKills
    /\ batch' = NoBatch
    /\ kills' = kills + 1
    /\ IF batch.step = "store" THEN Loses(Text) ELSE UNCHANGED lost
    /\ UNCHANGED <<fetched, rows, cache, ledger, spent, unseen, paid>>

BatchStep == \/ StartBatch \/ Replay \/ Reserve \/ RequestFails \/ Answer
             \/ AnswerUnreadable \/ Commit \/ CacheAnswer \/ LoseAnswer
             \/ RecordAnswer \/ EndBatch
HostedNext == \/ BatchStep \/ FetchComment \/ KillBatch
              \/ \E t \in Texts : Expire(t)

HostedSpec == HostedInit /\ [][HostedNext]_hostedVars
(* The daily refresh runs the step again every day. *)
FairHostedSpec == HostedSpec /\ WF_hostedVars(BatchStep)

-------------------------------------------------------------------------------
(* Properties. *)

(* What the ledger counts never exceeds the highest cap ever configured, and *)
(* it counts everything that was billed: an answer that could not be read,   *)
(* or whose run was killed, is covered by the reservation it leaves.  Only   *)
(* the bill of a failed request, or one above its reservation, escapes it.   *)
BudgetHeld ==
    /\ \E cap \in CostCaps : ledger.committed + ledger.reserved * Reservation <= cap
    /\ ledger.requests + ledger.reserved <= RequestCap
    /\ spent <= ledger.committed + ledger.reserved * Reservation + unseen

(* A second answer to a text is committed only when the one before it is     *)
(* gone: in however many comments, runs and repetitions a text comes up, it  *)
(* is paid for once and once more for every answer that expired, could not   *)
(* be cached, or was lost when its run was killed or raised.                 *)
PaidForOnce == \A t \in Texts : paid[t] <= 1 + lost[t]

(* Every comment gets a row, whatever the provider answers or fails to,      *)
(* unless the budget no longer covers the worst case of one, or a batch of   *)
(* older comments has rows, but none under the configured model: these are   *)
(* selected again by every run.                                              *)
HasRow(c) == \E m \in Models : <<c, m>> \in rows
Misnamed == {c \in Comments : HasRow(c) /\ <<c, Model>> \notin rows}
InTheWay(c) == Cardinality({d \in Misnamed : d < c}) >= BatchSize
===============================================================================
