-------------------------- MODULE PriceEvidenceProofs --------------------------
(***************************************************************************)
(* What holds of the price a paper bet is decided on, for any bookmakers,  *)
(* races, prices, polling processes and limits.                            *)
(***************************************************************************)
EXTENDS PriceEvidence, SumProofs, TLAPS

-------------------------------------------------------------------------------
(* Where a row comes from. *)

(* The clock and the decision instant.                                       *)
ClockInv == now \in Times /\ evaluated \in Times \cup {NoTime}

(* A valid row, wherever it is on its way from a page to the table, is one   *)
(* that a book displayed.  A process that merges replaces the whole file by  *)
(* its copy of it, so the copies are part of the invariant.                  *)
Shown(rows) == \A r \in rows : r.valid => r.price \in offered
RowsInv ==
    /\ offered \subseteq Price
    /\ Shown(board)
    /\ DOMAIN proc = Procs
    /\ \A p \in Procs : Shown(proc[p].board)
    /\ snapshots \subseteq offered

(* A decision rests on a row of the table that was there and fresh.          *)
DecidedOn(d) ==
    /\ d.price \in snapshots
    /\ d.price.race = d.race
    /\ d.evaluated \in Times
    /\ d.price.at <= d.evaluated
    /\ d.evaluated - d.price.at <= MaxAge
    /\ d.evaluated + Buffer < Off[d.race]
DecisionsInv == \A d \in decisions : DecidedOn(d)

(* The clock starts at zero and stops at its bound.                          *)
LEMMA ClockStep == ClockInv /\ [PriceNext]_priceVars => ClockInv'
<1> SUFFICES ASSUME ClockInv, [PriceNext]_priceVars PROVE ClockInv'
  OBVIOUS
<1> USE PriceAssumption DEF ClockInv, Times, NoTime
<1>1. CASE Tick
  BY <1>1 DEF Tick
<1>2. CASE Begin
  BY <1>2 DEF Begin
<1>3. CASE Ingest \/ UNCHANGED priceVars
  BY <1>3 DEF Ingest, priceVars
<1>4. ASSUME NEW p \in Procs, ProcStep(p) PROVE ClockInv'
  BY <1>4 DEF ProcStep, Fetch, Merge, FetchFails, Probe, ReadHealth, WriteHealth
<1>5. ASSUME NEW race \in Meets, NEW horse \in Horses, NEW sources \in CardSources,
             Gate(race, horse, sources)
      PROVE  ClockInv'
  BY <1>5 DEF Gate
<1> QED BY <1>1, <1>2, <1>3, <1>4, <1>5 DEF PriceNext

(* Empty files, no decisions. *)
LEMMA PriceBegin == PriceInit => ClockInv /\ RowsInv /\ DecisionsInv
<1> SUFFICES ASSUME PriceInit PROVE ClockInv /\ RowsInv /\ DecisionsInv
  OBVIOUS
<1>1. ClockInv /\ DecisionsInv
  BY PriceAssumption DEF PriceInit, ClockInv, DecisionsInv, Times
<1>2. \A p \in Procs : proc[p].board = {}
  BY DEF PriceInit, Idle
<1> QED BY <1>1, <1>2 DEF PriceInit, RowsInv, Shown

(* One poll: what is added to the copy of the file is what the book shows,   *)
(* and a race whose market fails validation is not marked valid.             *)
LEMMA FetchShows ==
    ASSUME ClockInv, RowsInv, NEW p \in Procs, NEW book \in Books, Fetch(p, book)
    PROVE  RowsInv'
<1> PICK page \in Pages(book) : \E invalid \in SUBSET {price.race : price \in page} :
      /\ proc' = [proc EXCEPT ![p] =
             [pc |-> "merge", book |-> {book}, health |-> NoHealth,
              board |-> RowsOfOthers(book)
                          \cup {[price |-> price, valid |-> price.race \notin invalid] :
                                   price \in page}]]
      /\ offered' = offered \cup {price \in page : price.race \notin invalid}
  BY DEF Fetch
<1> PICK invalid \in SUBSET {price.race : price \in page} :
      /\ proc' = [proc EXCEPT ![p] =
             [pc |-> "merge", book |-> {book}, health |-> NoHealth,
              board |-> RowsOfOthers(book)
                          \cup {[price |-> price, valid |-> price.race \notin invalid] :
                                   price \in page}]]
      /\ offered' = offered \cup {price \in page : price.race \notin invalid}
  OBVIOUS
<1>1. page \subseteq Price
  BY DEF Pages, Price, ClockInv
<1>2. \A r \in proc'[p].board : r.valid => r.price \in offered'
  <2>1. proc'[p].board = RowsOfOthers(book)
           \cup {[price |-> price, valid |-> price.race \notin invalid] : price \in page}
    BY DEF RowsInv
  <2>2. \A r \in RowsOfOthers(book) : r.valid => r.price \in offered'
    BY DEF RowsOfOthers, RowsInv, Shown
  <2>3. ASSUME NEW price \in page, price.race \notin invalid PROVE price \in offered'
    BY <2>3
  <2>4. ASSUME NEW r \in proc'[p].board, r.valid PROVE r.price \in offered'
    <3>1. CASE r \in RowsOfOthers(book)
      BY <2>2, <2>4, <3>1
    <3>2. ASSUME NEW price \in page,
                 r = [price |-> price, valid |-> price.race \notin invalid]
          PROVE  r.price \in offered'
      <4>1. r.price = price /\ (r.valid <=> price.race \notin invalid)
        BY <3>2
      <4> QED BY <2>3, <2>4, <4>1
    <3> QED BY <2>1, <3>1, <3>2
  <2> QED BY <2>4
<1>3. \A q \in Procs \ {p} : proc'[q] = proc[q]
  BY DEF RowsInv
<1>4. UNCHANGED <<board, snapshots>> /\ offered \subseteq offered' /\ DOMAIN proc' = Procs
  BY DEF Fetch, RowsInv
<1>5. offered' \subseteq Price
  BY <1>1 DEF RowsInv
<1>6. \A q \in Procs : Shown(proc[q].board)'
  <2>1. \A q \in Procs \ {p} : \A r \in proc'[q].board : r.valid => r.price \in offered'
    BY <1>3, <1>4 DEF RowsInv, Shown
  <2> QED BY <1>2, <2>1 DEF Shown
<1>7. Shown(board)' /\ (snapshots \subseteq offered)'
  BY <1>4 DEF RowsInv, Shown
<1> QED BY <1>4, <1>5, <1>6, <1>7 DEF RowsInv

(* Every step of every process keeps the provenance of the rows.             *)
LEMMA RowsStep == ClockInv /\ RowsInv /\ [PriceNext]_priceVars => RowsInv'
<1> SUFFICES ASSUME ClockInv, RowsInv, [PriceNext]_priceVars PROVE RowsInv'
  OBVIOUS
<1>1. CASE Tick \/ Begin \/ UNCHANGED priceVars
  BY <1>1 DEF Tick, Begin, priceVars, RowsInv, Shown
<1>2. CASE Ingest
  <2>1. PICK kept : Insert({r.price : r \in {b \in board : b.valid}}, kept)
    BY <1>2 DEF Ingest
  <2>2. kept \subseteq {r.price : r \in {b \in board : b.valid}}
        /\ snapshots' = snapshots \cup kept
    BY <2>1 DEF Insert
  <2>3. snapshots' \subseteq offered
    BY <2>2 DEF RowsInv, Shown
  <2> QED BY <1>2, <2>3 DEF Ingest, RowsInv, Shown
<1>3. ASSUME NEW p \in Procs, Merge(p) PROVE RowsInv'
  <2>1. /\ board' = proc[p].board /\ UNCHANGED <<snapshots, offered>>
        /\ proc' = [proc EXCEPT ![p] = [Idle EXCEPT !.pc = "success", !.book = proc[p].book]]
    BY <1>3 DEF Merge
  <2>2. proc'[p].board = {} /\ DOMAIN proc' = Procs
        /\ \A q \in Procs \ {p} : proc'[q] = proc[q]
    BY <2>1 DEF RowsInv, Idle
  <2> QED BY <2>1, <2>2 DEF RowsInv, Shown
<1>4. ASSUME NEW p \in Procs, DOMAIN proc' = Procs, proc'[p].board = {},
             \A q \in Procs \ {p} : proc'[q] = proc[q],
             UNCHANGED <<board, snapshots, offered>>
      PROVE  RowsInv'
  BY <1>4 DEF RowsInv, Shown
<1>5. ASSUME NEW p \in Procs, NEW book \in Books, FetchFails(p, book) PROVE RowsInv'
  BY <1>4, <1>5 DEF FetchFails, RowsInv, Idle
<1>6. ASSUME NEW p \in Procs, Probe(p) PROVE RowsInv'
  BY <1>4, <1>6 DEF Probe, RowsInv, Idle
<1>7. ASSUME NEW p \in Procs, ReadHealth(p) PROVE RowsInv'
  <2>1. \E h : proc' = [proc EXCEPT ![p] =
                           [pc |-> "health", book |-> proc[p].book, board |-> {}, health |-> h]]
    BY <1>7 DEF ReadHealth
  <2>2. UNCHANGED <<board, snapshots, offered>>
    BY <1>7 DEF ReadHealth
  <2> QED BY <1>4, <2>1, <2>2 DEF RowsInv
<1>8. ASSUME NEW p \in Procs, WriteHealth(p) PROVE RowsInv'
  BY <1>4, <1>8 DEF WriteHealth, RowsInv, Idle
<1>9. ASSUME NEW race \in Meets, NEW horse \in Horses, NEW sources \in CardSources,
             Gate(race, horse, sources)
      PROVE  RowsInv'
  BY <1>9 DEF Gate, RowsInv, Shown
<1> QED
  BY <1>1, <1>2, <1>3, <1>5, <1>6, <1>7, <1>8, <1>9, FetchShows DEF PriceNext, ProcStep

(* The table is never changed but by inserting rows.                         *)
LEMMA TableGrows == [PriceNext]_priceVars => snapshots \subseteq snapshots'
BY DEF PriceNext, priceVars, Tick, Ingest, Insert, Begin, Gate, ProcStep, Fetch, Merge,
   FetchFails, Probe, ReadHealth, WriteHealth

(* A decision once taken still rests on the row it was taken on, and a new   *)
(* one is taken on the quote of its own runner.                              *)
LEMMA DecisionsStep ==
    ClockInv /\ RowsInv /\ DecisionsInv /\ [PriceNext]_priceVars => DecisionsInv'
<1> SUFFICES ASSUME ClockInv, RowsInv, DecisionsInv, [PriceNext]_priceVars
             PROVE  DecisionsInv'
  OBVIOUS
<1>1. \A d \in decisions : DecidedOn(d)'
  BY TableGrows DEF DecisionsInv, DecidedOn
<1>2. ASSUME NEW race \in Meets, NEW horse \in Horses, NEW sources \in CardSources,
             Gate(race, horse, sources)
      PROVE  DecisionsInv'
  <2>1. PICK r \in snapshots :
           /\ IsQuote(r, race, horse, evaluated)
           /\ BeforeCutoff(race)
           /\ decisions' = decisions \cup
                 {[race |-> race, price |-> r, evaluated |-> evaluated, decided |-> now,
                   sources |-> sources \cup {r.book}]}
    BY <1>2 DEF Gate, Candidate
  <2>2. evaluated \in Times /\ evaluated \in Int /\ Off[race] \in Int /\ Buffer \in Int
    BY <1>2, PriceAssumption DEF Gate, ClockInv, Times
  <2>3. r.race = race /\ r.at <= evaluated /\ evaluated - r.at <= MaxAge
    BY <2>1 DEF IsQuote, Quotes, IsFresh
  <2>4. evaluated + Buffer < Off[race]
    BY <2>1, <2>2 DEF BeforeCutoff
  <2>5. UNCHANGED snapshots
    BY <1>2 DEF Gate
  <2> QED BY <1>1, <2>1, <2>2, <2>3, <2>4, <2>5 DEF DecisionsInv, DecidedOn
<1>3. ASSUME UNCHANGED decisions PROVE DecisionsInv'
  BY <1>1, <1>3 DEF DecisionsInv
<1> QED
  BY <1>2, <1>3 DEF PriceNext, priceVars, Tick, Ingest, Begin, ProcStep, Fetch, Merge,
     FetchFails, Probe, ReadHealth, WriteHealth

(* However many processes poll, merge and ingest over each other: a bet is   *)
(* decided on a price its own book displayed for its own runner, in a valid  *)
(* market, not after the decision instant, fresh, and before the cut-off.    *)
THEOREM PricesAreReal == PriceSpec => []PricedFromTheBoard
<1>1. RowsInv /\ DecisionsInv => PricedFromTheBoard
  BY DEF RowsInv, DecisionsInv, DecidedOn, PricedFromTheBoard
<1> QED BY <1>1, PriceBegin, ClockStep, RowsStep, DecisionsStep, PTL DEF PriceSpec

-------------------------------------------------------------------------------
(* The table asked again. *)

(* Of the rows that answer a question there is a newest, and of the newest   *)
(* a cheapest.                                                               *)
LEMMA SomeRowIsLatest ==
    ASSUME NEW quotes, quotes \subseteq Price, quotes # {}
    PROVE  \E r \in quotes : IsLatest(r, quotes)
<1>0. ASSUME NEW r \in quotes
      PROVE  r.at \in Nat /\ r.at <= MaxTime /\ r.odds \in Nat
  <2>1. r.at \in 0..MaxTime /\ r.odds \in Prices
    BY DEF Price, Times
  <2>2. Prices \subseteq Nat /\ MaxTime \in Nat
    BY PriceAssumption
  <2>3. \A t \in 0..MaxTime : t \in Nat /\ t <= MaxTime
    BY <2>2
  <2>4. r.odds \in Nat
    BY <2>1, <2>2
  <2>5. r.at \in Nat /\ r.at <= MaxTime
    BY <2>1, <2>3
  <2> QED BY <2>4, <2>5
<1>1. PICK newest \in quotes : \A s \in quotes : s.at <= newest.at
  <2> DEFINE ages == {MaxTime - r.at : r \in quotes}
  <2>1. ages \subseteq Nat /\ ages # {}
    BY <1>0, PriceAssumption
  <2>2. PICK age \in ages : \A other \in ages : age <= other
    BY <2>1, LeastNat
  <2>3. PICK r \in quotes : age = MaxTime - r.at
    BY <2>2
  <2>4. ASSUME NEW s \in quotes PROVE s.at <= r.at
    <3>1. MaxTime - r.at <= MaxTime - s.at
      BY <2>2, <2>3
    <3> QED BY <1>0, <3>1, PriceAssumption
  <2> QED BY <2>4
<1>2. PICK r \in quotes : /\ r.at = newest.at
                          /\ \A s \in quotes : s.at = newest.at => r.odds <= s.odds
  <2> DEFINE odds == {s.odds : s \in {q \in quotes : q.at = newest.at}}
  <2>1. odds \subseteq Nat /\ odds # {}
    BY <1>0
  <2>2. PICK low \in odds : \A other \in odds : low <= other
    BY <2>1, LeastNat
  <2> QED BY <2>2
<1>3. ASSUME NEW s \in quotes
      PROVE  s.at < r.at \/ (s.at = r.at /\ r.odds <= s.odds)
  <2>1. s.at <= newest.at /\ r.at = newest.at /\ s.at \in Nat /\ newest.at \in Nat
    BY <1>0, <1>1, <1>2
  <2>2. s.at = newest.at => r.odds <= s.odds
    BY <1>2
  <2> QED BY <2>1, <2>2
<1> QED BY <1>3 DEF IsLatest

(* What a decision rests on is among the rows that answer its question       *)
(* again, so the quote that answers is no older and not less fresh.          *)
LEMMA ReplayAnswers ==
    ASSUME RowsInv, NEW d \in decisions, DecidedOn(d)
    PROVE  \E r \in snapshots : IsQuote(r, d.race, d.price.horse, d.evaluated)
<1> DEFINE quotes == Quotes(d.race, d.price.horse, d.evaluated)
<1>1. d.price \in quotes /\ quotes \subseteq snapshots /\ quotes \subseteq Price
  BY DEF DecidedOn, Quotes, RowsInv
<1>2. PICK r \in quotes : IsLatest(r, quotes)
  BY <1>1, SomeRowIsLatest
<1>3. IsFresh(r, d.evaluated)
  <2>1. d.price.at < r.at \/ d.price.at = r.at
    BY <1>1, <1>2 DEF IsLatest
  <2>2. d.price.at \in Int /\ r.at \in Int /\ d.evaluated \in Int /\ MaxAge \in Int
    BY <1>1, PriceAssumption DEF Price, Times, DecidedOn
  <2> QED BY <2>1, <2>2 DEF IsFresh, DecidedOn
<1> QED BY <1>1, <1>2, <1>3 DEF IsQuote

(* Whatever is ingested after a decision, the table asked again gives an     *)
(* answer, never an older one and never a higher price of the same instant,  *)
(* and the closing price is never older than the decision's.                 *)
THEOREM ReplayIsHonest == PriceSpec => []ReplayNeverFlatters
<1>1. RowsInv /\ DecisionsInv => ReplayNeverFlatters
  <2> SUFFICES ASSUME RowsInv, DecisionsInv, NEW d \in decisions
               PROVE  /\ \E r \in snapshots :
                            IsQuote(r, d.race, d.price.horse, d.evaluated)
                      /\ \A r \in snapshots :
                            IsQuote(r, d.race, d.price.horse, d.evaluated) =>
                               \/ r.at > d.price.at
                               \/ (r.at = d.price.at /\ r.odds <= d.price.odds)
                      /\ \A r \in snapshots : IsClosing(r, d) => r.at >= d.price.at
    BY DEF ReplayNeverFlatters
  <2>1. DecidedOn(d)
    BY DEF DecisionsInv
  <2>2. ASSUME NEW r \in snapshots, IsQuote(r, d.race, d.price.horse, d.evaluated)
        PROVE  r.at > d.price.at \/ (r.at = d.price.at /\ r.odds <= d.price.odds)
    <3>1. d.price \in Quotes(d.race, d.price.horse, d.evaluated)
      BY <2>1 DEF DecidedOn, Quotes
    <3>2. d.price.at < r.at \/ (d.price.at = r.at /\ r.odds <= d.price.odds)
      BY <2>2, <3>1 DEF IsQuote, IsLatest
    <3>3. d.price.at \in Int /\ r.at \in Int
      BY <2>1, PriceAssumption DEF DecidedOn, RowsInv, Price, Times
    <3> QED BY <3>2, <3>3
  <2>3. ASSUME NEW r \in snapshots, IsClosing(r, d) PROVE r.at >= d.price.at
    <3>1. d.price.at <= r.at
      BY <2>1, <2>3 DEF IsClosing, DecidedOn
    <3>2. d.price.at \in Int /\ r.at \in Int
      BY <2>1, PriceAssumption DEF DecidedOn, RowsInv, Price, Times
    <3> QED BY <3>1, <3>2
  <2> QED BY <2>1, <2>2, <2>3, ReplayAnswers
<1> QED BY <1>1, PriceBegin, ClockStep, RowsStep, DecisionsStep, PTL DEF PriceSpec

-------------------------------------------------------------------------------
(* The health of a source. *)

(* A record that says ok, in the file or in the copy a process is about to   *)
(* replace it with, tells of a success there really was.  Lost updates only  *)
(* bring an older record back, and a torn file says nothing is ok.           *)
Backed(book, rec) == rec.ok => rec.at \in Times /\ <<book, rec.at>> \in succeeded
HealthInv ==
    /\ DOMAIN proc = Procs
    /\ \A book \in Books : Backed(book, health[book])
    /\ \A p \in Procs, book \in Books : Backed(book, proc[p].health[book])

(* No record is ok at first. *)
LEMMA HealthBegin == PriceInit => HealthInv /\ SourceWasWorking
<1> SUFFICES ASSUME PriceInit PROVE HealthInv /\ SourceWasWorking
  OBVIOUS
<1>1. \A book \in Books : ~NoHealth[book].ok
  BY DEF NoHealth
<1>2. \A p \in Procs : proc[p].health = NoHealth
  BY DEF PriceInit, Idle
<1> QED BY <1>1, <1>2 DEF PriceInit, HealthInv, Backed, SourceWasWorking

(* Successes are never forgotten, so what is backed stays so.                *)
LEMMA SuccessesStay == [PriceNext]_priceVars => succeeded \subseteq succeeded'
BY DEF PriceNext, priceVars, Tick, Ingest, Begin, Gate, ProcStep, Fetch, Merge,
   FetchFails, Probe, ReadHealth, WriteHealth

(* What a process makes of a record it has read is backed by what it knows.  *)
LEMMA ReadIsBacked ==
    ASSUME ClockInv, HealthInv, NEW p \in Procs, ReadHealth(p), NEW book \in Books
    PROVE  Backed(book, proc[p].health[book])'
<1> DEFINE old == health[book]
           new == IF book \in proc[p].book THEN Record(proc[p].pc, old) ELSE old
<1>1. proc'[p].health[book] = new
  BY DEF ReadHealth, HealthInv
<1>2. CASE book \in proc[p].book /\ proc[p].pc = "success"
  <2>1. new = [ok |-> TRUE, at |-> now] /\ <<book, now>> \in succeeded'
    BY <1>2 DEF ReadHealth, Record
  <2> QED BY <1>1, <2>1 DEF Backed, ClockInv
<1>3. CASE book \in proc[p].book /\ proc[p].pc = "failure"
  BY <1>1, <1>3 DEF Record, Backed
<1>4. CASE ~(book \in proc[p].book /\ proc[p].pc \in {"success", "failure"})
  <2>1. new = old
    BY <1>4 DEF Record
  <2>2. Backed(book, old) /\ succeeded \subseteq succeeded'
    BY SuccessesStay DEF HealthInv, ReadHealth
  <2> QED BY <1>1, <2>1, <2>2 DEF Backed
<1> QED BY <1>2, <1>3, <1>4

(* Every step keeps the records backed. *)
LEMMA HealthStep == ClockInv /\ HealthInv /\ [PriceNext]_priceVars => HealthInv'
<1> SUFFICES ASSUME ClockInv, HealthInv, [PriceNext]_priceVars PROVE HealthInv'
  OBVIOUS
<1>0. /\ DOMAIN proc = Procs
      /\ \A book \in Books : health[book].ok =>
            health[book].at \in Times /\ <<book, health[book].at>> \in succeeded'
      /\ \A p \in Procs, book \in Books : proc[p].health[book].ok =>
            /\ proc[p].health[book].at \in Times
            /\ <<book, proc[p].health[book].at>> \in succeeded'
  BY SuccessesStay DEF HealthInv, Backed
<1>1. CASE UNCHANGED <<health, proc>>
  BY <1>0, <1>1 DEF HealthInv, Backed
<1>2. \A book \in Books : ~NoHealth[book].ok
  BY DEF NoHealth
<1>3. ASSUME NEW p \in Procs, UNCHANGED health, DOMAIN proc' = Procs,
             proc'[p].health = NoHealth, \A q \in Procs \ {p} : proc'[q] = proc[q]
      PROVE  HealthInv'
  BY <1>0, <1>2, <1>3 DEF HealthInv, Backed
<1>4. ASSUME NEW p \in Procs, NEW book \in Books, Fetch(p, book) PROVE HealthInv'
  <2>1. UNCHANGED health /\ \E rows :
           proc' = [proc EXCEPT ![p] = [pc |-> "merge", book |-> {book},
                                        health |-> NoHealth, board |-> rows]]
    BY <1>4 DEF Fetch
  <2> QED BY <1>0, <1>3, <2>1
<1>5. ASSUME NEW p \in Procs,
             Merge(p) \/ Probe(p) \/ \E book \in Books : FetchFails(p, book)
      PROVE  HealthInv'
  <2>1. UNCHANGED health /\ \E rec :
           rec.health = NoHealth /\ proc' = [proc EXCEPT ![p] = rec]
    BY <1>5 DEF Merge, FetchFails, Probe, Idle
  <2> QED BY <1>0, <1>3, <2>1
<1>6. ASSUME NEW p \in Procs, ReadHealth(p) PROVE HealthInv'
  <2>1. UNCHANGED health /\ \E h :
           proc' = [proc EXCEPT ![p] = [pc |-> "health", book |-> proc[p].book,
                                        board |-> {}, health |-> h]]
    BY <1>6 DEF ReadHealth
  <2>2. \A book \in Books : Backed(book, proc[p].health[book])'
    BY <1>6, ReadIsBacked
  <2>3. DOMAIN proc' = Procs /\ \A q \in Procs \ {p} : proc'[q] = proc[q]
    BY <1>0, <2>1
  <2>4. \A book \in Books : Backed(book, health[book])'
    BY <1>0, <2>1 DEF Backed
  <2>5. \A q \in Procs, book \in Books : Backed(book, proc[q].health[book])'
    BY <1>0, <2>2, <2>3 DEF Backed
  <2> QED BY <2>3, <2>4, <2>5 DEF HealthInv
<1>7. ASSUME NEW p \in Procs, WriteHealth(p) PROVE HealthInv'
  <2>1. /\ health' \in {proc[p].health, NoHealth}
        /\ proc' = [proc EXCEPT ![p] = Idle]
    BY <1>7 DEF WriteHealth
  <2>2. \A book \in Books : Backed(book, health[book])'
    BY <1>0, <1>2, <2>1 DEF Backed
  <2>3. proc'[p].health = NoHealth /\ DOMAIN proc' = Procs
        /\ \A q \in Procs \ {p} : proc'[q] = proc[q]
    BY <1>0, <2>1 DEF Idle
  <2>4. \A q \in Procs, book \in Books : Backed(book, proc[q].health[book])'
    BY <1>0, <1>2, <2>3 DEF Backed
  <2> QED BY <2>2, <2>3, <2>4 DEF HealthInv
<1>8. CASE Tick \/ Ingest \/ Begin \/ UNCHANGED priceVars
           \/ \E race \in Meets, horse \in Horses, sources \in CardSources :
                 Gate(race, horse, sources)
  BY <1>1, <1>8 DEF Tick, Ingest, Begin, Gate, priceVars
<1> QED BY <1>4, <1>5, <1>6, <1>7, <1>8 DEF PriceNext, ProcStep

(* The gate reads the file at the moment it decides, and the books of a      *)
(* decision are among the sources it has checked.                            *)
LEMMA SourcesStep ==
    ClockInv /\ RowsInv /\ HealthInv /\ SourceWasWorking /\ [PriceNext]_priceVars
        => SourceWasWorking'
<1> SUFFICES ASSUME ClockInv, RowsInv, HealthInv, SourceWasWorking, [PriceNext]_priceVars
             PROVE  SourceWasWorking'
  OBVIOUS
<1>1. ASSUME UNCHANGED decisions PROVE SourceWasWorking'
  BY <1>1, SuccessesStay DEF SourceWasWorking
<1>2. ASSUME NEW race \in Meets, NEW horse \in Horses, NEW sources \in CardSources,
             Gate(race, horse, sources)
      PROVE  SourceWasWorking'
  <2>1. PICK r \in snapshots :
           /\ \A book \in sources \cup {r.book} : Healthy(book)
           /\ decisions' = decisions \cup
                 {[race |-> race, price |-> r, evaluated |-> evaluated, decided |-> now,
                   sources |-> sources \cup {r.book}]}
    BY <1>2 DEF Gate, Candidate
  <2>2. sources \cup {r.book} \subseteq Books
    BY PriceAssumption DEF RowsInv, Price
  <2>3. \A book \in sources \cup {r.book} :
           \E t \in Times : <<book, t>> \in succeeded /\ now - t <= MaxSourceAge
    BY <2>1, <2>2 DEF Healthy, HealthInv, Backed
  <2>4. UNCHANGED succeeded
    BY <1>2 DEF Gate
  <2>5. SUFFICES ASSUME NEW d \in decisions', NEW book \in d.sources
                 PROVE  \E t \in Times : <<book, t>> \in succeeded /\ d.decided - t <= MaxSourceAge
    BY <2>4 DEF SourceWasWorking
  <2>6. CASE d \in decisions
    BY <2>6 DEF SourceWasWorking
  <2>7. CASE d \notin decisions
    <3>1. d.sources = sources \cup {r.book} /\ d.decided = now
      BY <2>1, <2>7
    <3> QED BY <2>3, <3>1
  <2> QED BY <2>6, <2>7
<1> QED
  BY <1>1, <1>2 DEF PriceNext, priceVars, Tick, Ingest, Begin, ProcStep, Fetch, Merge,
     FetchFails, Probe, ReadHealth, WriteHealth

(* No process locks the health file, and still: every source a bet leans on  *)
(* has succeeded within MaxSourceAge of the decision.                        *)
THEOREM SourcesWork == PriceSpec => []SourceWasWorking
<1> QED
  BY PriceBegin, ClockStep, RowsStep, HealthBegin, HealthStep, SourcesStep, PTL
  DEF PriceSpec
===============================================================================
