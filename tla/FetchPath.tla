------------------------------- MODULE FetchPath -------------------------------
(***************************************************************************)
(* The way of a page through the proxy pool (utils/proxy_manager.py) and   *)
(* the rate limiter (utils/rate_limiter.py), as the workers of a scrape    *)
(* use them (scraper/boylesports.py, _curl_cffi_get_html): a proxy is      *)
(* picked, then the slots and the token are waited for, then the page is   *)
(* requested and the proxy credited or blamed; a bounded number of times.  *)
(* Time is in the seconds of one token.                                    *)
(***************************************************************************)
EXTENDS Integers, FiniteSets

CONSTANTS Workers,     \* threads of the scrapes, each after one page
          DomainOf,    \* the domain of each one's page
          Rate,        \* tokens a second of each domain's bucket
          Slots,       \* max_concurrent of each domain
          GlobalSlots, \* global.max_concurrent
          Proxies,     \* 0..n-1: the entries of the pool, in their order
          Rotating,    \* rotating_gateway
          Attempts,    \* curl_attempts
          MaxFailures, \* failures in a row that blacklist a proxy
          Cooldown,    \* seconds it stays so
          Span         \* the seconds RateHeld looks back

Domains == {DomainOf[w] : w \in Workers}
ASSUME FetchAssumption ==
    /\ IsFiniteSet(Workers) /\ DOMAIN DomainOf = Workers
    /\ Rate \in [Domains -> Nat \ {0}] /\ Slots \in [Domains -> Nat \ {0}]
    /\ GlobalSlots \in Nat \ {0} /\ Proxies = 0..Cardinality(Proxies) - 1
    /\ Attempts \in Nat \ {0} /\ MaxFailures \in Nat \ {0} /\ Cooldown \in Nat
    /\ Span \in Nat /\ Rotating \in BOOLEAN

VARIABLES
    pool,      \* per proxy: failures in a row, seconds it stays blacklisted
    index,     \* the entry next() tries first
    worker,    \* per worker: its step (none when no scrape runs), the attempts
               \* it made, the proxy it picked
    tokens,    \* per domain: what its bucket holds
    sent       \* history: per domain, requests of the last 0, 1, .. seconds

fetchVars == <<pool, index, worker, tokens, sent>>

Capacity(d) == Rate[d]
Least(m, n) == IF m < n THEN m ELSE n
Most(m, n) == IF m > n THEN m ELSE n
Entry(failures, cool) == [failures |-> failures, cool |-> cool]
Worker(step, attempts, via) == [step |-> step, attempts |-> attempts, via |-> via]
Moves(w, step) ==
    worker' = [worker EXCEPT ![w] = Worker(step, worker[w].attempts, worker[w].via)]

FetchInit ==
    /\ pool = [p \in Proxies |-> Entry(0, 0)]
    /\ index = 0
    /\ \E step \in {"none", "pick"} : worker = [w \in Workers |-> Worker(step, 0, 0)]
    /\ tokens = [d \in Domains |-> Capacity(d)]
    /\ sent = [d \in Domains |-> [k \in 0..Span |-> 0]]

-------------------------------------------------------------------------------
(* proxy_manager.py *)

(* next(required=True): from index on, the first entry that is not           *)
(* blacklisted, whichever it is with a rotating gateway; of none, an error.  *)
Usable(p) == Rotating \/ pool[p].cool = 0
Nth(i) == i % Cardinality(Proxies)
PickProxy(w) ==
    /\ worker[w].step = "pick"
    /\ IF \A p \in Proxies : ~Usable(p)
       THEN Moves(w, "unavailable") /\ UNCHANGED index
       ELSE \E i \in Proxies :
               /\ Usable(Nth(index + i))
               /\ \A j \in 0..i - 1 : ~Usable(Nth(index + j))
               /\ index' = Nth(index + i + 1)
               /\ worker' = [worker EXCEPT ![w] = Worker("global", worker[w].attempts,
                                                         Nth(index + i))]
    /\ UNCHANGED <<pool, tokens, sent>>

Blamed(p) ==
    LET failures == Least(pool[p].failures + 1, MaxFailures)
    IN  IF ~Rotating /\ failures = MaxFailures THEN Entry(failures, Cooldown)
                                               ELSE Entry(failures, pool[p].cool)

(* health_check, by the background thread. *)
Probe(p) ==
    /\ \/ pool' = [pool EXCEPT ![p] = Entry(0, 0)]
       \/ ~Rotating /\ pool' = [pool EXCEPT ![p] = Entry(MaxFailures, Cooldown)]
    /\ UNCHANGED <<index, worker, tokens, sent>>

-------------------------------------------------------------------------------
(* rate_limiter.py: the global slot, the slot of the domain, a token of the  *)
(* domain; whoever waits for the next keeps what it has.                     *)

HoldsGlobal == {w \in Workers : worker[w].step \in {"domain", "token", "request"}}
HoldsDomain(d) == {w \in Workers : /\ DomainOf[w] = d
                                   /\ worker[w].step \in {"token", "request"}}
TakeGlobal(w) ==
    /\ worker[w].step = "global"
    /\ Cardinality(HoldsGlobal) < GlobalSlots
    /\ Moves(w, "domain")
    /\ UNCHANGED <<pool, index, tokens, sent>>
TakeDomain(w) ==
    /\ worker[w].step = "domain"
    /\ Cardinality(HoldsDomain(DomainOf[w])) < Slots[DomainOf[w]]
    /\ Moves(w, "token")
    /\ UNCHANGED <<pool, index, tokens, sent>>
TakeToken(w) ==
    LET d == DomainOf[w] IN
    /\ worker[w].step = "token"
    /\ tokens[d] >= 1
    /\ tokens' = [tokens EXCEPT ![d] = @ - 1]
    /\ sent' = [sent EXCEPT ![d] = [k \in 0..Span |-> sent[d][k] + 1]]
    /\ Moves(w, "request")
    /\ UNCHANGED <<pool, index>>

(* Variant: the bucket fills without a limit. *)
RefilledUnbounded(d) == tokens[d] + Rate[d]

Refilled(d) == Least(Capacity(d), tokens[d] + Rate[d])

Second ==
    /\ tokens' = [d \in Domains |-> Refilled(d)]
    /\ pool' = [p \in Proxies |-> Entry(pool[p].failures, Most(pool[p].cool - 1, 0))]
    /\ sent' = [d \in Domains |-> [k \in 0..Span |-> IF k = 0 THEN 0 ELSE sent[d][k - 1]]]
    /\ UNCHANGED <<index, worker>>

-------------------------------------------------------------------------------
(* _curl_cffi_get_html *)

(* Leaving the request, by an answer or an exception, gives back both slots. *)
(* A page credits the proxy; a block, a timeout or a broken connection       *)
(* blames it and is tried again; another error status ends the fetch.        *)
Page(w) ==
    /\ worker[w].step = "request"
    /\ pool' = [pool EXCEPT ![worker[w].via] = Entry(0, 0)]
    /\ Moves(w, "page")
    /\ UNCHANGED <<index, tokens, sent>>

(* Variant: an attempt through another proxy is not counted. *)
BlockedUncounted(w) ==
    /\ worker[w].step = "request"
    /\ pool' = [pool EXCEPT ![worker[w].via] = Blamed(worker[w].via)]
    /\ \/ worker' = [worker EXCEPT ![w] = Worker("pick", worker[w].attempts, 0)]
       \/ Moves(w, "error")
    /\ UNCHANGED <<index, tokens, sent>>

Blocked(w) ==
    /\ worker[w].step = "request"
    /\ pool' = [pool EXCEPT ![worker[w].via] = Blamed(worker[w].via)]
    /\ \/ /\ worker[w].attempts + 1 < Attempts
          /\ worker' = [worker EXCEPT ![w] = Worker("pick", worker[w].attempts + 1, 0)]
       \/ Moves(w, "error")
    /\ UNCHANGED <<index, tokens, sent>>

WorkerStep(w) == \/ PickProxy(w) \/ TakeGlobal(w) \/ TakeDomain(w) \/ TakeToken(w)
                 \/ Page(w) \/ Blocked(w)
FetchNext == \/ Second
             \/ \E p \in Proxies : Probe(p)
             \/ \E w \in Workers : WorkerStep(w)

FetchSpec == FetchInit /\ [][FetchNext]_fetchVars
(* Time passes, and while some worker can go on, some worker does.           *)
FairFetchSpec == /\ FetchSpec
                 /\ WF_fetchVars(Second)
                 /\ WF_fetchVars(\E w \in Workers : WorkerStep(w))

-------------------------------------------------------------------------------
(* Properties. *)

(* No domain is sent more than its bucket's capacity and its rate allow over *)
(* any stretch of time, nor more at once than it has slots, however many     *)
(* workers wait, retry and give up in between.                               *)
RateHeld ==
    \A d \in Domains :
        /\ \A k \in 0..Span : sent[d][k] <= Capacity(d) + Rate[d] * k
        /\ Cardinality({w \in Workers : DomainOf[w] = d /\ worker[w].step = "request"})
             <= Slots[d]

(* Every fetch ends, with a page or an error: no worker waits forever for a  *)
(* proxy, a slot or a token, although a slot is held while the next is       *)
(* awaited and every proxy may be blacklisted.                               *)
FetchEnds ==
    \A w \in Workers :
        worker[w].step = "pick" ~> worker[w].step \in {"page", "error", "unavailable"}
===============================================================================
