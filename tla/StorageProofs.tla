----------------------------- MODULE StorageProofs -----------------------------
(***************************************************************************)
(* What holds of the schema migrations and of the advisory locks for every *)
(* number of processes, migrations and statements, and every lifetime of a *)
(* row.                                                                    *)
(***************************************************************************)
EXTENDS Migrations, AdvisoryLock, TLAPS

-------------------------------------------------------------------------------
(* Migrations. *)

(* A pool at a statement of a migration has everything before it behind it:  *)
(* the statements before it, its own or those another pool carried out, and  *)
(* all earlier migrations, whatever the version says meanwhile.  What the    *)
(* version alone promises is not inductive, for a pool raises it on the      *)
(* strength of what it has done since it read it.                            *)
Behind(at, next) ==
    /\ \A m \in 1..at - 1 : StatementsOf(m) \subseteq schema
    /\ \A i \in 1..next - 1 : <<at, i>> \in schema
Stage(p) ==
    /\ upgrade[p].step \in {"closed", "open", "run", "add"}
    /\ upgrade[p].step \in {"run", "add"} =>
          /\ upgrade[p].at \in 1..Target
          /\ upgrade[p].next \in 1..Len(Script[upgrade[p].at]) + 1
          /\ Behind(upgrade[p].at, upgrade[p].next)
    /\ upgrade[p].step = "add" => upgrade[p].next <= Len(Script[upgrade[p].at])
MigrationsInv ==
    /\ version \in 0..Target
    /\ DOMAIN upgrade = Pools
    /\ \A p \in Pools : Stage(p)
    /\ VersionIsEarned

(* A script is a finite sequence of finite sequences of statements.          *)
LEMMA ScriptLengths ==
    /\ Target \in Nat
    /\ \A m \in 1..Target : Len(Script[m]) \in Nat /\ DOMAIN Script[m] = 1..Len(Script[m])
<1>1. Script \in Seq(Seq(Kinds))
  BY MigrationsAssumption
<1>2. \A m \in 1..Len(Script) : Script[m] \in Seq(Kinds)
  BY <1>1
<1> QED BY <1>1, <1>2 DEF Target

(* A database of any shipped version holds what that version stands for.     *)
LEMMA MigrationsBegin == MigrationsInit => MigrationsInv
<1> SUFFICES ASSUME MigrationsInit PROVE MigrationsInv
  OBVIOUS
<1>1. \A p \in Pools : upgrade[p] = Closed
  BY DEF MigrationsInit
<1>2. \A p \in Pools : Stage(p) /\ upgrade[p].step = "closed"
  BY <1>1 DEF Stage, Closed
<1>3. \A m \in 1..version : StatementsOf(m) \subseteq schema
  BY DEF MigrationsInit
<1> QED BY <1>2, <1>3 DEF MigrationsInit, MigrationsInv, VersionIsEarned

(* Nothing is ever dropped, so what is behind a pool stays behind it.        *)
LEMMA StageStays ==
    ASSUME NEW p, Stage(p), upgrade'[p] = upgrade[p], schema \subseteq schema'
    PROVE  Stage(p)'
<1> QED BY DEF Stage, Behind

(* A pool that moves on, and the version with it, keeps the invariant when   *)
(* its new place and the new version are earned.                             *)
LEMMA PoolMoves ==
    ASSUME MigrationsInv, NEW p \in Pools,
           DOMAIN upgrade' = Pools, \A q \in Pools \ {p} : upgrade'[q] = upgrade[q],
           schema \subseteq schema', Stage(p)',
           version' \in 0..Target,
           \A m \in 1..version' : StatementsOf(m) \subseteq schema',
           upgrade'[p].step = "open" => \A m \in 1..Target : StatementsOf(m) \subseteq schema'
    PROVE  MigrationsInv'
<1>1. \A q \in Pools : Stage(q)'
  BY StageStays DEF MigrationsInv
<1>2. \A q \in Pools : upgrade'[q].step = "open" =>
          \A m \in 1..Target : StatementsOf(m) \subseteq schema'
  BY DEF MigrationsInv, VersionIsEarned
<1>3. VersionIsEarned'
  BY <1>2 DEF VersionIsEarned, Target, StatementsOf
<1> QED BY <1>1, <1>3 DEF MigrationsInv, Target

(* Every step of every pool, and every kill, keeps the invariant.            *)
LEMMA MigrationsStep == MigrationsInv /\ [MigrationsNext]_migrationVars => MigrationsInv'
<1> SUFFICES ASSUME MigrationsInv, [MigrationsNext]_migrationVars PROVE MigrationsInv'
  OBVIOUS
<1> USE ScriptLengths
<1>0. /\ version \in 0..Target /\ DOMAIN upgrade = Pools
      /\ \A p \in Pools : Stage(p)
      /\ \A m \in 1..version : StatementsOf(m) \subseteq schema
      /\ \A p \in Pools : upgrade[p].step = "open" =>
            \A m \in 1..Target : StatementsOf(m) \subseteq schema
  BY DEF MigrationsInv, VersionIsEarned
<1>1. CASE UNCHANGED migrationVars
  BY <1>0, <1>1 DEF migrationVars, MigrationsInv, VersionIsEarned, Stage, Behind
<1>2. ASSUME NEW p \in Pools, OpenPool(p) PROVE MigrationsInv'
  <2>1. CASE version = Target
    <3>1. /\ upgrade' = [upgrade EXCEPT ![p] = [step |-> "open", at |-> Target, next |-> 0]]
          /\ UNCHANGED <<version, schema>>
      BY <1>2, <2>1 DEF OpenPool, Stands
    <3>2. Stage(p)'
      BY <1>0, <3>1 DEF Stage
    <3> QED BY <1>0, <2>1, <3>1, <3>2, PoolMoves
  <2>2. CASE version # Target
    <3>1. /\ upgrade' = [upgrade EXCEPT ![p] = [step |-> "run", at |-> version + 1, next |-> 1]]
          /\ UNCHANGED <<version, schema>>
      BY <1>2, <2>2 DEF OpenPool, Stands
    <3>2. version + 1 \in 1..Target /\ (version + 1) - 1 = version /\ 1..1 - 1 = {}
      BY <1>0, <2>2
    <3>3. Behind(version + 1, 1)'
      BY <1>0, <3>1, <3>2 DEF Behind, StatementsOf
    <3>4. Stage(p)'
      BY <1>0, <3>1, <3>2, <3>3 DEF Stage, Target
    <3> QED BY <1>0, <3>1, <3>4, PoolMoves
  <2> QED BY <2>1, <2>2
<1>3. ASSUME NEW p \in Pools, upgrade' = [upgrade EXCEPT ![p] = Closed],
             UNCHANGED <<version, schema>>
      PROVE  MigrationsInv'
  <2>1. Stage(p)' /\ upgrade'[p].step # "open"
    BY <1>0, <1>3 DEF Stage, Closed
  <2> QED BY <1>0, <1>3, <2>1, PoolMoves
<1>4. ASSUME NEW p \in Pools, upgrade[p].step \in {"run", "add"},
             upgrade[p].next \in DOMAIN Script[upgrade[p].at],
             upgrade' = [upgrade EXCEPT ![p] =
                 [step |-> "run", at |-> upgrade[p].at, next |-> upgrade[p].next + 1]],
             schema' = schema \cup {Statement(p)},
             UNCHANGED version
      PROVE  MigrationsInv'
  <2> PICK m, n : m = upgrade[p].at /\ n = upgrade[p].next
    OBVIOUS
  <2>1. m \in 1..Target /\ n \in 1..Len(Script[m]) /\ Behind(m, n)
    BY <1>0, <1>4 DEF Stage
  <2>2. Behind(m, n + 1)'
    <3>1. \A i \in 1..(n + 1) - 1 : i \in 1..n - 1 \/ i = n
      BY <2>1
    <3> QED BY <1>4, <2>1, <3>1 DEF Behind, Statement, StatementsOf
  <2>3. n + 1 \in 1..Len(Script[m]) + 1
    BY <2>1
  <2>4. /\ upgrade'[p].step = "run" /\ upgrade'[p].at = m /\ upgrade'[p].next = n + 1
        /\ DOMAIN upgrade' = Pools
    BY <1>0, <1>4
  <2>5. Stage(p)'
    BY <2>1, <2>2, <2>3, <2>4 DEF Stage, Target
  <2> QED BY <1>0, <1>4, <2>4, <2>5, PoolMoves
<1>5. ASSUME NEW p \in Pools, Look(p) PROVE MigrationsInv'
  <2>1. CASE Statement(p) \in schema
    <3>1. schema \cup {Statement(p)} = schema
      BY <2>1
    <3> QED BY <1>4, <1>5, <2>1, <3>1 DEF Look, Stands, AtStatement
  <2>2. CASE Statement(p) \notin schema
    <3>1. /\ upgrade' = [upgrade EXCEPT ![p] =
                 [step |-> "add", at |-> upgrade[p].at, next |-> upgrade[p].next]]
          /\ upgrade[p].step = "run" /\ UNCHANGED <<version, schema>>
          /\ upgrade[p].next \in DOMAIN Script[upgrade[p].at]
      BY <1>5, <2>2 DEF Look, Stands, AtStatement
    <3>2. /\ upgrade[p].at \in 1..Target /\ upgrade[p].next <= Len(Script[upgrade[p].at])
          /\ upgrade[p].next \in 1..Len(Script[upgrade[p].at]) + 1
          /\ Behind(upgrade[p].at, upgrade[p].next)
      BY <1>0, <3>1 DEF Stage
    <3>3. Stage(p)'
      BY <1>0, <3>1, <3>2 DEF Stage, Behind, Target
    <3> QED BY <1>0, <3>1, <3>3, PoolMoves
  <2> QED BY <2>1, <2>2
<1>6. ASSUME NEW p \in Pools, Execute(p) PROVE MigrationsInv'
  <2>1. /\ upgrade[p].step \in {"run", "add"} /\ UNCHANGED version
        /\ upgrade[p].next \in DOMAIN Script[upgrade[p].at]
    BY <1>0, <1>6 DEF Execute, AtStatement, Stage
  <2>2. CASE Statement(p) \in schema /\ ~AtStatement(p, {"ensure"})
    <3>1. upgrade' = [upgrade EXCEPT ![p] = Closed]
      BY <1>6, <2>2 DEF Execute
    <3>2. schema' = schema
      BY <1>0, <1>6, <3>1 DEF Execute
    <3> QED BY <1>3, <2>1, <3>1, <3>2
  <2>3. CASE ~(Statement(p) \in schema /\ ~AtStatement(p, {"ensure"}))
    <3>1. upgrade' = [upgrade EXCEPT ![p] =
                 [step |-> "run", at |-> upgrade[p].at, next |-> upgrade[p].next + 1]]
      BY <1>6, <2>3 DEF Execute, Stands
    <3>2. upgrade'[p].step = "run" /\ Closed.step = "closed"
      BY <1>0, <3>1 DEF Closed
    <3>3. schema' = schema \cup {Statement(p)}
      BY <1>6, <3>2 DEF Execute
    <3> QED BY <1>4, <2>1, <3>1, <3>3
  <2> QED BY <2>2, <2>3
<1>7. ASSUME NEW p \in Pools, Bump(p) PROVE MigrationsInv'
  <2> PICK m : m = upgrade[p].at
    OBVIOUS
  <2>1. /\ upgrade[p].step = "run" /\ upgrade[p].next > Len(Script[m])
        /\ version' = m /\ schema' = schema
    BY <1>7 DEF Bump
  <2>2. m \in 1..Target /\ upgrade[p].next = Len(Script[m]) + 1 /\ Behind(m, upgrade[p].next)
    BY <1>0, <2>1 DEF Stage
  <2>3. \A k \in 1..m : StatementsOf(k) \subseteq schema
    <3>1. StatementsOf(m) \subseteq schema
      <4>1. 1..upgrade[p].next - 1 = 1..Len(Script[m])
        BY <2>2
      <4> QED BY <2>2, <4>1 DEF Behind, StatementsOf
    <3>2. \A k \in 1..m : k \in 1..m - 1 \/ k = m
      BY <2>2
    <3> QED BY <2>2, <3>1, <3>2 DEF Behind
  <2>4. CASE m = Target
    <3>1. upgrade' = [upgrade EXCEPT ![p] = [step |-> "open", at |-> Target, next |-> 0]]
      BY <1>7, <2>4 DEF Bump, Stands
    <3>2. Stage(p)'
      BY <1>0, <3>1 DEF Stage
    <3> QED BY <1>0, <2>1, <2>2, <2>3, <2>4, <3>1, <3>2, PoolMoves
  <2>5. CASE m # Target
    <3>1. upgrade' = [upgrade EXCEPT ![p] = [step |-> "run", at |-> m + 1, next |-> 1]]
      BY <1>7, <2>5 DEF Bump, Stands
    <3>2. m + 1 \in 1..Target /\ (m + 1) - 1 = m /\ 1..1 - 1 = {}
      BY <2>2, <2>5
    <3>3. Behind(m + 1, 1)'
      BY <2>1, <2>3, <3>2 DEF Behind, StatementsOf
    <3>4. /\ upgrade'[p].step = "run" /\ upgrade'[p].at = m + 1 /\ upgrade'[p].next = 1
          /\ DOMAIN upgrade' = Pools
      BY <1>0, <3>1
    <3>5. Stage(p)'
      BY <3>2, <3>3, <3>4 DEF Stage, Target
    <3>6. version' \in 0..Target /\ \A k \in 1..version' : StatementsOf(k) \subseteq schema'
      BY <2>1, <2>2, <2>3
    <3> QED BY <3>1, <2>1, <3>4, <3>5, <3>6, PoolMoves
  <2> QED BY <2>4, <2>5
<1>8. ASSUME NEW p \in Pools, ClosePool(p) \/ KillPool(p) PROVE MigrationsInv'
  BY <1>3, <1>8 DEF ClosePool, KillPool
<1> QED BY <1>1, <1>2, <1>5, <1>6, <1>7, <1>8 DEF MigrationsNext, PoolStep

(* However many pools migrate one database at once, through whatever         *)
(* migrations, and wherever they are killed: what user_version stands for is *)
(* there, and no store works on less than the whole schema.                  *)
THEOREM SchemaIsWhole == MigrationsSpec => []VersionIsEarned
<1>1. MigrationsInv => VersionIsEarned
  BY DEF MigrationsInv
<1> QED BY <1>1, MigrationsBegin, MigrationsStep, PTL DEF MigrationsSpec

-------------------------------------------------------------------------------
(* Advisory locks. *)

(* The row of a holder that has not overstayed is alive, which is what keeps *)
(* the next thread from deleting it, unless a thread of its owner has        *)
(* overstayed and may have released it.                                      *)
Vouched(h) ==
    \/ \E r \in row : r.by = h /\ r.left > 0
    \/ \E g \in overstayed \ {h} : OwnerOf[g] = OwnerOf[h]
RowInv ==
    /\ row \subseteq [by : Holders, left : 0..Ttl]
    /\ \A r, s \in row : r = s
    /\ DOMAIN holder = Holders
    /\ \A h \in Holders \ overstayed : Inside(h) => Vouched(h)

(* As long as nobody has overstayed, a holder has read whatever is not       *)
(* missed, and what it is about to swap in has its own rows as well.         *)
OnDisk == disk.path \cup disk.bak
ReadInv ==
    /\ disk = [path |-> disk.path, tmp |-> disk.tmp, bak |-> disk.bak]
    /\ overstayed = {} =>
        /\ appended \subseteq OnDisk \cup missed
        /\ \A h \in Holders :
              /\ holder[h].step \in {"write", "aside"} =>
                    /\ holder[h].read \subseteq disk.path
                    /\ appended \subseteq holder[h].read \cup missed
              /\ holder[h].step = "aside" => disk.tmp = holder[h].read \cup {h}
              /\ holder[h].step = "swap" =>
                    h \in disk.tmp /\ appended \subseteq disk.tmp \cup missed

(* Without rows and holders there is nothing to vouch for.                   *)
LEMMA LockBegin == LockInit => RowInv /\ ReadInv
BY DEF LockInit, NoRow, RowInv, ReadInv, OnDisk, Inside

(* A thread that moves without touching rows.                                *)
LEMMA HolderMoves ==
    ASSUME RowInv, NEW h \in Holders, NEW step, NEW tries, NEW read,
           Goes(h, step, tries, read), UNCHANGED <<row, overstayed>>,
           step \in {"read", "write", "aside", "swap", "release"} => Inside(h)
    PROVE  RowInv'
<1>1. /\ DOMAIN holder' = Holders /\ holder'[h].step = step
      /\ \A g \in Holders \ {h} : holder'[g] = holder[g]
  BY DEF Goes, RowInv
<1>2. \A g \in Holders : Inside(g)' => Inside(g)
  BY <1>1 DEF Inside
<1> QED BY <1>1, <1>2 DEF RowInv, Vouched

(* Every step keeps the rows vouched for. *)
LEMMA RowStep == RowInv /\ [LockNext]_lockVars => RowInv'
<1> SUFFICES ASSUME RowInv, [LockNext]_lockVars PROVE RowInv'
  OBVIOUS
<1>0. /\ row \subseteq [by : Holders, left : 0..Ttl]
      /\ \A r, s \in row : r = s
      /\ DOMAIN holder = Holders
      /\ \A h \in Holders \ overstayed : Inside(h) => Vouched(h)
      /\ Ttl \in Nat \ {0}
  BY LockAssumption DEF RowInv
<1>1. CASE LockTick
  <2>1. PICK r \in row :
           /\ r.left > 0
           /\ row' = {[by |-> r.by, left |-> r.left - 1]}
           /\ overstayed' = IF r.left = 1 /\ Inside(r.by) THEN overstayed \cup {r.by}
                                                          ELSE overstayed
    BY <1>1 DEF LockTick
  <2>2. r.by \in Holders /\ r.left \in 1..Ttl /\ r.left - 1 \in 0..Ttl
    BY <1>0, <2>1
  <2>3. holder' = holder
    BY <1>1 DEF LockTick
  <2>4. ASSUME NEW h \in Holders, h \notin overstayed', Inside(h)' PROVE Vouched(h)'
    <3>1. Inside(h) /\ h \notin overstayed /\ Vouched(h) /\ overstayed \subseteq overstayed'
      BY <1>0, <2>1, <2>3, <2>4 DEF Inside
    <3>2. CASE r.by = h /\ r.left > 0
      <4>1. r.left # 1
        BY <2>1, <2>4, <3>1, <3>2
      <4> QED BY <2>1, <2>2, <3>2, <4>1 DEF Vouched
    <3> QED BY <1>0, <3>1, <3>2 DEF Vouched
  <2>5. row' \subseteq [by : Holders, left : 0..Ttl]
    BY <2>1, <2>2
  <2> QED BY <1>0, <2>1, <2>3, <2>4, <2>5 DEF RowInv
<1>2. ASSUME NEW h \in Holders, TryAcquire(h) PROVE RowInv'
  <2>1. CASE \A r \in row : r.left = 0
    <3>1. /\ row' = {[by |-> h, left |-> Ttl]} /\ overstayed' = overstayed
          /\ holder' = [holder EXCEPT ![h] = [step |-> "read", tries |-> 0, read |-> {}]]
      BY <1>2, <2>1 DEF TryAcquire, Goes
    <3>2. Vouched(h)'
      BY <1>0, <3>1 DEF Vouched
    <3>3. ASSUME NEW g \in Holders \ overstayed, g # h, Inside(g)' PROVE Vouched(g)'
      <4>1. Vouched(g)
        BY <1>0, <3>1, <3>3 DEF Inside
      <4> QED BY <2>1, <3>1, <4>1 DEF Vouched
    <3>4. row' \subseteq [by : Holders, left : 0..Ttl]
      BY <1>0, <3>1
    <3> QED BY <1>0, <3>1, <3>2, <3>3, <3>4 DEF RowInv
  <2>2. CASE ~\A r \in row : r.left = 0
    <3>1. UNCHANGED <<row, overstayed>>
      BY <1>2, <2>2 DEF TryAcquire
    <3>2. \/ Goes(h, "acquire", holder[h].tries + 1, {})
          \/ Goes(h, "refused", 0, {})
      BY <1>2, <2>2 DEF TryAcquire
    <3> QED BY <3>1, <3>2, HolderMoves
  <2> QED BY <2>1, <2>2
<1>3. ASSUME NEW h \in Holders,
             \/ ReadDataset(h) \/ WriteBeside(h) \/ PutAside(h)
             \/ SwapIn(h) \/ AppendFails(h) \/ KillHolder(h)
      PROVE  RowInv'
  <2>1. Inside(h) /\ UNCHANGED <<row, overstayed>>
    BY <1>3 DEF ReadDataset, WriteBeside, PutAside, SwapIn, AppendFails, KillHolder, Inside
  <2>2. \E step, tries, read : Goes(h, step, tries, read)
    BY <1>3 DEF ReadDataset, WriteBeside, PutAside, SwapIn, AppendFails, KillHolder
  <2> QED BY <2>1, <2>2, HolderMoves
<1>4. ASSUME NEW h \in Holders, Release(h) PROVE RowInv'
  <2>1. /\ row' = {r \in row : OwnerOf[r.by] # OwnerOf[h]} /\ overstayed' = overstayed
        /\ holder' = [holder EXCEPT ![h] = [step |-> "done", tries |-> 0, read |-> {}]]
        /\ Inside(h)
    BY <1>4 DEF Release, Goes, Inside
  <2>2. ASSUME NEW g \in Holders \ overstayed, Inside(g)' PROVE Vouched(g)'
    <3>1. g # h /\ Inside(g) /\ Vouched(g)
      BY <1>0, <2>1, <2>2 DEF Inside
    <3>2. CASE OwnerOf[g] # OwnerOf[h]
      BY <2>1, <3>1, <3>2 DEF Vouched
    <3>3. CASE OwnerOf[g] = OwnerOf[h] /\ h \in overstayed
      BY <2>1, <3>1, <3>3 DEF Vouched
    <3>4. CASE OwnerOf[g] = OwnerOf[h] /\ h \notin overstayed
      <4>1. Vouched(h)
        BY <1>0, <2>1, <3>4
      <4>2. CASE \E r \in row : r.by = h
        BY <1>0, <2>1, <3>1, <4>2 DEF Vouched
      <4>3. CASE \E k \in overstayed \ {h} : OwnerOf[k] = OwnerOf[h]
        BY <2>1, <2>2, <3>4, <4>3 DEF Vouched
      <4> QED BY <4>1, <4>2, <4>3 DEF Vouched
    <3> QED BY <3>2, <3>3, <3>4
  <2> QED BY <1>0, <2>1, <2>2 DEF RowInv
<1>5. CASE UNCHANGED lockVars
  BY <1>5 DEF lockVars, RowInv, Vouched, Inside
<1> QED BY <1>1, <1>2, <1>3, <1>4, <1>5 DEF LockNext

(* Before anybody has overstayed, only one thread is between acquiring and   *)
(* releasing.                                                                *)
LEMMA OneInside ==
    ASSUME RowInv, overstayed = {}, NEW g \in Holders, NEW h \in Holders,
           Inside(g), Inside(h)
    PROVE  g = h
<1> QED BY DEF RowInv, Vouched

(* Nobody but the holder changes what it has read or written.                *)
LEMMA ReadStep == RowInv /\ ReadInv /\ [LockNext]_lockVars => ReadInv'
<1> SUFFICES ASSUME RowInv, ReadInv, [LockNext]_lockVars PROVE ReadInv'
  OBVIOUS
<1>0. /\ DOMAIN holder = Holders
      /\ disk = [path |-> disk.path, tmp |-> disk.tmp, bak |-> disk.bak]
  BY DEF RowInv, ReadInv
<1>1. disk' = [path |-> disk'.path, tmp |-> disk'.tmp, bak |-> disk'.bak]
  <2>1. ASSUME NEW h \in Holders, WriteBeside(h) \/ PutAside(h)
        PROVE  \E path, tmp, bak : disk' = [path |-> path, tmp |-> tmp, bak |-> bak]
    BY <1>0, <2>1, Zenon DEF WriteBeside, PutAside
  <2>2. ASSUME NEW h \in Holders, SwapIn(h) \/ AppendFails(h)
        PROVE  \E path, tmp, bak : disk' = [path |-> path, tmp |-> tmp, bak |-> bak]
    BY <1>0, <2>2 DEF SwapIn, AppendFails
  <2>3. \/ disk' = disk
        \/ \E path, tmp, bak : disk' = [path |-> path, tmp |-> tmp, bak |-> bak]
    BY <2>1, <2>2 DEF LockNext, LockTick, TryAcquire, ReadDataset, Release,
       KillHolder, lockVars
  <2> QED BY <1>0, <2>3
<1> SUFFICES ASSUME overstayed' = {} PROVE ReadInv'
  BY <1>1 DEF ReadInv
<1>2. overstayed = {}
  BY DEF LockNext, LockTick, TryAcquire, ReadDataset, WriteBeside, PutAside, SwapIn,
     AppendFails, Release, KillHolder, lockVars
<1>3. appended \subseteq OnDisk \cup missed
  BY <1>2 DEF ReadInv
<1>4. \A h \in Holders :
        /\ holder[h].step \in {"write", "aside"} =>
              /\ holder[h].read \subseteq disk.path
              /\ appended \subseteq holder[h].read \cup missed
        /\ holder[h].step = "aside" => disk.tmp = holder[h].read \cup {h}
        /\ holder[h].step = "swap" =>
              h \in disk.tmp /\ appended \subseteq disk.tmp \cup missed
  BY <1>2 DEF ReadInv
<1>5. ASSUME NEW h \in Holders, Inside(h), NEW step, NEW tries, NEW read,
             Goes(h, step, tries, read),
             appended' \subseteq OnDisk' \cup missed',
             step \in {"write", "aside"} =>
                read \subseteq disk'.path /\ appended' \subseteq read \cup missed',
             step = "aside" => disk'.tmp = read \cup {h},
             step = "swap" => h \in disk'.tmp /\ appended' \subseteq disk'.tmp \cup missed'
      PROVE  ReadInv'
  <2>1. /\ holder'[h].step = step /\ holder'[h].read = read
        /\ \A g \in Holders \ {h} : holder'[g] = holder[g]
    BY <1>0, <1>5 DEF Goes
  <2>2. \A g \in Holders \ {h} : holder'[g].step \notin {"write", "aside", "swap"}
    BY <1>2, <1>5, <2>1, OneInside DEF Inside
  <2> QED BY <1>1, <1>5, <2>1, <2>2 DEF ReadInv
<1>6. ASSUME NEW h \in Holders, ReadDataset(h) PROVE ReadInv'
  <2>1. PICK found \in {disk.path, {}} :
           /\ Goes(h, "write", 0, found)
           /\ missed' = missed \cup (OnDisk \ found)
           /\ UNCHANGED <<disk, appended>>
    BY <1>6 DEF ReadDataset, OnDisk
  <2>2. found \subseteq disk'.path /\ appended' \subseteq found \cup missed'
    BY <1>3, <2>1
  <2>3. appended' \subseteq OnDisk' \cup missed'
    BY <1>3, <2>1 DEF OnDisk
  <2>4. Inside(h)
    BY <1>6 DEF ReadDataset, Inside
  <2> QED BY <1>5, <2>1, <2>2, <2>3, <2>4
<1>7. ASSUME NEW h \in Holders, WriteBeside(h) PROVE ReadInv'
  <2>1. /\ Inside(h) /\ Goes(h, "aside", 0, holder[h].read)
        /\ disk'.tmp = holder[h].read \cup {h}
        /\ disk'.path = disk.path /\ disk'.bak = disk.bak
        /\ UNCHANGED <<appended, missed>> /\ holder[h].step = "write"
    BY <1>0, <1>7 DEF WriteBeside, Inside
  <2>2. appended' \subseteq OnDisk' \cup missed'
    BY <1>3, <2>1 DEF OnDisk
  <2>3. /\ holder[h].read \subseteq disk'.path
        /\ appended' \subseteq holder[h].read \cup missed'
    BY <1>4, <2>1
  <2> QED BY <1>5, <2>1, <2>2, <2>3
<1>8. ASSUME NEW h \in Holders, PutAside(h) PROVE ReadInv'
  <2>1. /\ Inside(h) /\ Goes(h, "swap", 0, {})
        /\ disk'.tmp = disk.tmp /\ disk'.path = {} /\ disk'.bak = disk.path
        /\ UNCHANGED <<appended, missed>> /\ holder[h].step = "aside"
    BY <1>0, <1>8 DEF PutAside, Inside
  <2>2. /\ disk.tmp = holder[h].read \cup {h} /\ holder[h].read \subseteq disk.path
        /\ appended \subseteq holder[h].read \cup missed
    BY <1>4, <2>1
  <2>3. appended' \subseteq OnDisk' \cup missed'
    BY <2>1, <2>2 DEF OnDisk
  <2>4. h \in disk'.tmp /\ appended' \subseteq disk'.tmp \cup missed'
    BY <2>1, <2>2
  <2> QED BY <1>5, <2>1, <2>3, <2>4
<1>9. ASSUME NEW h \in Holders, SwapIn(h) PROVE ReadInv'
  <2>1. /\ Inside(h) /\ Goes(h, "release", 0, {}) /\ holder[h].step = "swap"
        /\ disk'.path = disk.tmp /\ appended' = appended \cup {h}
        /\ UNCHANGED missed
    BY <1>9 DEF SwapIn, Inside
  <2>2. h \in disk.tmp /\ appended \subseteq disk.tmp \cup missed
    BY <1>4, <2>1
  <2>3. appended' \subseteq OnDisk' \cup missed'
    BY <2>1, <2>2 DEF OnDisk
  <2> QED BY <1>5, <2>1, <2>3
<1>10. ASSUME NEW h \in Holders, AppendFails(h) PROVE ReadInv'
  <2>1. /\ Inside(h) /\ Goes(h, "release", 0, {}) /\ UNCHANGED <<appended, missed>>
    BY <1>10 DEF AppendFails, Inside
  <2>2. OnDisk \subseteq OnDisk'
    BY <1>0, <1>10 DEF AppendFails, OnDisk
  <2> QED BY <1>3, <1>5, <2>1, <2>2
<1>11. ASSUME NEW h \in Holders, TryAcquire(h) \/ Release(h) \/ KillHolder(h)
       PROVE  ReadInv'
  <2>1. UNCHANGED <<disk, appended, missed>>
    BY <1>11 DEF TryAcquire, Release, KillHolder
  <2>2. \E step \in {"read", "acquire", "refused", "done", "killed"} : \E tries, read :
           Goes(h, step, tries, read)
    BY <1>11 DEF TryAcquire, Release, KillHolder
  <2>3. \A g \in Holders : \/ holder'[g] = holder[g]
                           \/ holder'[g].step \notin {"write", "aside", "swap"}
    BY <1>0, <2>2 DEF Goes
  <2> QED BY <1>1, <1>3, <1>4, <2>1, <2>3 DEF ReadInv, OnDisk
<1>12. CASE LockTick \/ UNCHANGED lockVars
  <2>1. UNCHANGED <<holder, disk, appended, missed>>
    BY <1>12 DEF LockTick, lockVars
  <2> QED BY <1>1, <1>3, <1>4, <2>1 DEF ReadInv, OnDisk
<1> QED BY <1>6, <1>7, <1>8, <1>9, <1>10, <1>11, <1>12 DEF LockNext

(* For any number of threads and processes, any lifetime of a row and any    *)
(* patience: before somebody outlives a row only what a read did not return  *)
(* is ever lost, and afterwards a later holder still has its own row, unless *)
(* a thread of its own process overstayed.                                   *)
THEOREM AppendsAreKept == LockSpec => []LockProtects
<1>1. RowInv /\ ReadInv => LockProtects
  BY DEF RowInv, ReadInv, OnDisk, LockProtects, Vouched, RowOf
<1> QED BY <1>1, LockBegin, RowStep, ReadStep, PTL DEF LockSpec
===============================================================================
