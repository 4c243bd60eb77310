----------------------------- MODULE PriceEvidence -----------------------------
(***************************************************************************)
(* The price a paper bet is decided on.  Processes poll the bookmakers and *)
(* merge the rows into one shared file, note the health of each source in  *)
(* another, and append the file to the odds_snapshots table                *)
(* (scraper/boylesports.py, utils/source_health.py,                        *)
(* execution/snapshots.py); the daily loop reads the table as of its       *)
(* decision instant and the gates decide (scripts/daily_paper_loop.py,     *)
(* execution/gates.py).  No process locks the two files.                   *)
(***************************************************************************)
EXTENDS Integers, FiniteSets

CONSTANTS Books,        \* bookmakers, each one source
          Meets,        \* races: a venue and an off-time
          Horses,       \* horse keys; one name may be declared in two races
          Off,          \* Off[race] is the off-time, all that race_uid keeps
          Prices,       \* decimal odds
          CardSources,  \* the sets of books a card may name as its sources
          Procs,        \* processes that poll: the loop, the dashboard, a task
          MaxTime,      \* bound on the clock
          MaxPolls,     \* bound on the polls and probes that are started
          MaxPage,      \* bound on the runners one poll prices
          MaxAge,       \* snapshots.max_age_seconds
          MaxSourceAge, \* safeguards.max_source_age_seconds
          Buffer        \* safeguards.started_race_buffer_seconds

ASSUME PriceAssumption == /\ Off \in [Meets -> Nat]
                          /\ Prices \subseteq Nat
                          /\ CardSources \subseteq SUBSET Books
                          /\ MaxTime \in Nat /\ MaxPolls \in Nat /\ MaxPage \in Nat
                          /\ MaxAge \in Nat /\ MaxSourceAge \in Nat /\ Buffer \in Nat

VARIABLES
    now,        \* the clock
    board,      \* live_odds.parquet: the rows of every book's last poll
    health,     \* source_health.json: per book, whether ok and the last success
    proc,       \* per process: its step, its book and its copies of the files
    snapshots,  \* the table odds_snapshots
    evaluated,  \* the decision instant of the loop's last run
    decisions,  \* the CANDIDATEs of the loop's runs
    offered,    \* history: what the books displayed in valid WIN markets
    succeeded,  \* history: when a poll of a book succeeded
    polls       \* polls and probes started

priceVars == <<now, board, health, proc, snapshots, evaluated, decisions,
               offered, succeeded, polls>>

NoTime == -1
Times == 0..MaxTime
Price == [race : Meets, horse : Horses, book : Books, odds : Prices, at : Times]
BoardRow == [price : Price, valid : BOOLEAN]
NoHealth == [book \in Books |-> [ok |-> FALSE, at |-> NoTime]]
Health == [Books -> [ok : BOOLEAN, at : Times \cup {NoTime}]]
Idle == [pc |-> "idle", book |-> {}, board |-> {}, health |-> NoHealth]

PriceInit ==
    /\ now = 0
    /\ board = {}
    /\ health = NoHealth
    /\ proc = [p \in Procs |-> Idle]
    /\ snapshots = {}
    /\ evaluated = NoTime
    /\ decisions = {}
    /\ offered = {}
    /\ succeeded = {}
    /\ polls = 0

Tick ==
    /\ now < MaxTime
    /\ now' = now + 1
    /\ UNCHANGED <<board, health, proc, snapshots, evaluated, decisions, offered,
                   succeeded, polls>>

-------------------------------------------------------------------------------
(* One poll of one book by one process. *)

(* The pages are fetched and stamped; a race whose market fails validation   *)
(* is kept as INVALID.  The rows of the other books are read from the shared *)
(* file before it is replaced.                                               *)
SameRunner(r, s) == r.race = s.race /\ r.horse = s.horse
RowsOfOthers(book) == {r \in board : r.price.book # book}
Pages(book) ==
    {page \in SUBSET [race : Meets, horse : Horses, book : {book}, odds : Prices, at : {now}] :
        /\ Cardinality(page) \in 1..MaxPage
        /\ \A r, s \in page : SameRunner(r, s) => r = s}
Fetch(p, book) ==
    /\ proc[p].pc = "idle" /\ polls < MaxPolls
    /\ \E page \in Pages(book) : \E invalid \in SUBSET {price.race : price \in page} :
          /\ proc' = [proc EXCEPT ![p] =
                 [pc |-> "merge", book |-> {book}, health |-> NoHealth,
                  board |-> RowsOfOthers(book)
                              \cup {[price |-> price, valid |-> price.race \notin invalid] :
                                       price \in page}]]
          /\ offered' = offered \cup {price \in page : price.race \notin invalid}
    /\ polls' = polls + 1
    /\ UNCHANGED <<now, board, health, snapshots, evaluated, decisions, succeeded>>

Merge(p) ==
    /\ proc[p].pc = "merge"
    /\ board' = proc[p].board
    /\ proc' = [proc EXCEPT ![p] = [Idle EXCEPT !.pc = "success", !.book = proc[p].book]]
    /\ UNCHANGED <<now, health, snapshots, evaluated, decisions, offered,
                   succeeded, polls>>

(* Every tier is blocked: the cached rows are merged again with the stamp    *)
(* they had, which is what the file holds, and a failure is recorded.        *)
FetchFails(p, book) ==
    /\ proc[p].pc = "idle" /\ polls < MaxPolls
    /\ proc' = [proc EXCEPT ![p] = [Idle EXCEPT !.pc = "failure", !.book = {book}]]
    /\ polls' = polls + 1
    /\ UNCHANGED <<now, board, health, snapshots, evaluated, decisions, offered,
                   succeeded>>

(* _check_destination_health rewrites a record without its status.           *)
Probe(p) ==
    /\ proc[p].pc = "idle" /\ polls < MaxPolls
    /\ proc' = [proc EXCEPT ![p] = [Idle EXCEPT !.pc = "probe"]]
    /\ polls' = polls + 1
    /\ UNCHANGED <<now, board, health, snapshots, evaluated, decisions, offered,
                   succeeded>>

(* Variant: every attempt counts as a success.                               *)
RecordAttempts(pc, old) ==
    CASE pc = "success" -> [ok |-> TRUE, at |-> now]
      [] pc = "failure" -> [ok |-> TRUE, at |-> now]
      [] OTHER -> old

(* record_success, _record_failure_like, set_proxy_reachable. *)
Record(pc, old) ==
    CASE pc = "success" -> [ok |-> TRUE, at |-> now]
      [] pc = "failure" -> [ok |-> FALSE, at |-> old.at]
      [] OTHER -> old

(* The health file is read as a whole, changed in one record ...             *)
ReadHealth(p) ==
    /\ proc[p].pc \in {"success", "failure", "probe"}
    /\ proc' = [proc EXCEPT ![p] =
                  [pc |-> "health", book |-> proc[p].book, board |-> {},
                   health |-> [b \in Books |-> IF b \in proc[p].book
                                               THEN Record(proc[p].pc, health[b])
                                               ELSE health[b]]]]
    /\ succeeded' = IF proc[p].pc = "success"
                    THEN succeeded \cup {<<b, now>> : b \in proc[p].book}
                    ELSE succeeded
    /\ UNCHANGED <<now, board, health, snapshots, evaluated, decisions, offered,
                   polls>>

(* ... and replaced as a whole, over whatever was written since.  Two writes *)
(* at once share one temporary file and may leave one that cannot be read,   *)
(* which readers take for an empty one.                                      *)
WriteHealth(p) ==
    /\ proc[p].pc = "health"
    /\ \/ health' = proc[p].health
       \/ /\ \E q \in Procs \ {p} : proc[q].pc = "health"
          /\ health' = NoHealth
    /\ proc' = [proc EXCEPT ![p] = Idle]
    /\ UNCHANGED <<now, board, snapshots, evaluated, decisions, offered, succeeded,
                   polls>>

-------------------------------------------------------------------------------
(* The table. *)

SameKey(r, s) == /\ Off[r.race] = Off[s.race]
                 /\ r.horse = s.horse /\ r.book = s.book /\ r.at = s.at

(* Variant: a second observation under a key replaces the first.             *)
InsertOrReplace(rows, kept) ==
    /\ kept \subseteq rows
    /\ \A r, s \in kept : SameKey(r, s) => r = s
    /\ \A r \in rows : \E s \in kept : SameKey(r, s)
    /\ snapshots' = kept \cup {s \in snapshots : \A r \in kept : ~SameKey(r, s)}

(* INSERT OR IGNORE on (race_uid, horse_key, bookmaker, market, fetched_at): *)
(* of several new rows under one key the first is kept, and one that is      *)
(* stored stays as first observed.  The key knows no venue.                  *)
Insert(rows, kept) ==
    /\ kept \subseteq {r \in rows : \A s \in snapshots : ~SameKey(r, s)}
    /\ \A r, s \in kept : SameKey(r, s) => r = s
    /\ \A r \in rows : \E s \in kept \cup snapshots : SameKey(r, s)
    /\ snapshots' = snapshots \cup kept

(* ingest_live_odds_parquet: the VALID rows of the file, whoever polled them *)
(* and whenever.                                                             *)
Ingest ==
    /\ \E kept \in SUBSET {r.price : r \in board} :
          Insert({r.price : r \in {b \in board : b.valid}}, kept)
    /\ snapshots' # snapshots
    /\ UNCHANGED <<now, board, health, proc, evaluated, decisions, offered,
                   succeeded, polls>>

(* Variant: the venue does not narrow the lookup.                            *)
QuotesAnyVenue(race, horse, asOf) ==
    {r \in snapshots : Off[r.race] = Off[race] /\ r.horse = horse /\ r.at <= asOf}

(* quotes_as_of, narrowed by race_key to the venue.                          *)
Quotes(race, horse, asOf) ==
    {r \in snapshots : r.race = race /\ r.horse = horse /\ r.at <= asOf}

(* latest_quote: the newest, and of those the lowest price; of none if the   *)
(* newest is stale.                                                          *)
IsLatest(r, quotes) ==
    \A s \in quotes : s.at < r.at \/ (s.at = r.at /\ r.odds <= s.odds)
IsFresh(r, asOf) == asOf - r.at <= MaxAge
IsQuote(r, race, horse, asOf) ==
    /\ r \in Quotes(race, horse, asOf)
    /\ IsLatest(r, Quotes(race, horse, asOf))
    /\ IsFresh(r, asOf)

(* closing_quote of a ticket: the newest row of the runner at the ticket's   *)
(* book, whenever it was fetched, by off-time without venue.                 *)
IsClosing(r, d) ==
    LET rows == {s \in snapshots : /\ Off[s.race] = Off[d.race]
                                   /\ s.horse = d.price.horse
                                   /\ s.book = d.price.book}
    IN r \in rows /\ \A s \in rows : s.at <= r.at

-------------------------------------------------------------------------------
(* The loop's runs.  A run takes its decision instant first; its own capture *)
(* is the polls between Begin and its decisions, and may be none.            *)

Begin ==
    /\ evaluated # now
    /\ evaluated' = now
    /\ UNCHANGED <<now, board, health, proc, snapshots, decisions, offered,
                   succeeded, polls>>

(* Every source the card or the quote leans on is ok, and its last success   *)
(* is recent when the file is read.                                          *)
Healthy(book) == health[book].ok /\ now - health[book].at <= MaxSourceAge
BeforeCutoff(race) == Off[race] - evaluated > Buffer

(* evaluate_candidate.  A race ruled out, a runner without form, probability,*)
(* reference market or edge, or a NO-GO model is a PASS, and so is a runner  *)
(* without a quote: the price the card remembers has no fetch time.  What is *)
(* left to decide is the price, the sources and the time.                    *)
Candidate(race, horse, sources) ==
    \E r \in snapshots :
       /\ IsQuote(r, race, horse, evaluated)
       /\ \A book \in sources \cup {r.book} : Healthy(book)
       /\ BeforeCutoff(race)
       /\ decisions' = decisions \cup
             {[race |-> race, price |-> r, evaluated |-> evaluated, decided |-> now,
               sources |-> sources \cup {r.book}]}

Gate(race, horse, sources) ==
    /\ evaluated # NoTime
    /\ \A d \in decisions : d.race # race \/ d.price.horse # horse
    /\ Candidate(race, horse, sources)
    /\ UNCHANGED <<now, board, health, proc, snapshots, evaluated, offered,
                   succeeded, polls>>

ProcStep(p) ==
    \/ \E book \in Books : Fetch(p, book)
    \/ Merge(p)
    \/ \E book \in Books : FetchFails(p, book)
    \/ Probe(p) \/ ReadHealth(p) \/ WriteHealth(p)

PriceNext ==
    \/ Tick \/ Ingest \/ Begin
    \/ \E p \in Procs : ProcStep(p)
    \/ \E race \in Meets, horse \in Horses, sources \in CardSources :
         Gate(race, horse, sources)

PriceSpec == PriceInit /\ [][PriceNext]_priceVars

-------------------------------------------------------------------------------
(* Properties. *)

(* What a bet is decided on was really displayed: by its book, for its horse *)
(* in its own race and not in another of the same minute, in a market that   *)
(* was valid, not later than the decision instant, at most MaxAge before it, *)
(* and outside the buffer before the off.                                    *)
PricedFromTheBoard ==
    \A d \in decisions :
        /\ d.price \in offered
        /\ d.price.race = d.race
        /\ d.price.at <= d.evaluated
        /\ d.evaluated - d.price.at <= MaxAge
        /\ d.evaluated + Buffer < Off[d.race]

(* The table can be asked again.  Rows of before the decision may be         *)
(* ingested after it, so another quote may answer, but never an older one    *)
(* and never a higher price of the same instant; and the closing price it is *)
(* measured against is never older than the price it was decided on.         *)
ReplayNeverFlatters ==
    \A d \in decisions :
        /\ \E r \in snapshots :
              IsQuote(r, d.race, d.price.horse, d.evaluated)
        /\ \A r \in snapshots :
              IsQuote(r, d.race, d.price.horse, d.evaluated) =>
                 r.at > d.price.at \/ (r.at = d.price.at /\ r.odds <= d.price.odds)
        /\ \A r \in snapshots : IsClosing(r, d) => r.at >= d.price.at

(* Whatever updates of the health file are lost or torn, every source a bet  *)
(* leans on has really succeeded within MaxSourceAge of the decision.        *)
SourceWasWorking ==
    \A d \in decisions : \A book \in d.sources :
        \E t \in Times : <<book, t>> \in succeeded /\ d.decided - t <= MaxSourceAge
===============================================================================
