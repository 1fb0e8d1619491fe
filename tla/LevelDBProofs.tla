---------------------------- MODULE LevelDBProofs ----------------------------
(***************************************************************************)
(* That LevelDB keeps what it has acknowledged: the invariants of LevelDB  *)
(* for any number of threads, any triggers and any bounds of the model.    *)
(*                                                                         *)
(* Inv follows a write from its group to the log and the memtable, from    *)
(* the memtable to imm and to a table, and through a crash and what        *)
(* recovery replays.  Its parts are about the queue of writers (QueueInv), *)
(* the names and numbers of files (DiskInv, NumbersInv), what the MANIFEST *)
(* and the version that is current say of each other (VersionInv), the     *)
(* background thread and the edit it has under way (BgInv, EditInv), the   *)
(* sequence numbers (SeqInv) and where each write can be found (SafeInv,   *)
(* GroupInv).                                                              *)
(***************************************************************************)
EXTENDS LevelDB, SequenceTheorems, FiniteSetTheorems, WellFoundedInduction, TLAPS

-----------------------------------------------------------------------------
(* The inductive invariant.                                                *)

(* The files a version or the MANIFEST names, and what is in them.         *)
Files(v) == v.l0 \cup v.l1
ContentIn(tb, files) == UNION {tb[n] : n \in files}
Flushed == UNION imm
Firm(entries) == {e \in entries : e.id \notin risky}

(* What the logs from number first on hold.                                *)
InLogs(lg, first) == UNION {Records(lg[n]) : n \in {m \in DOMAIN lg : m >= first}}

Leading    == {"front", "delay", "wait", "woken"}
Busy       == {"sync", "insert", "finish"}
WritingPcs == {"append"} \cup Busy
Outside    == {"idle", "waitImm", "wokenImm"}

LogsType ==
  /\ DOMAIN logs \subseteq Nat
  /\ \A n \in DOMAIN logs : logs[n] \in LogFile /\ logs[n].synced <= Len(logs[n].recs)
  /\ \E b \in Nat : \A n \in DOMAIN logs : \A e \in Records(logs[n]) : e.seq <= b
TablesType ==
  DOMAIN tables \subseteq Nat /\ \A n \in DOMAIN tables : tables[n] \subseteq Entry
MemType ==
  mem \subseteq Entry /\ (imm = {} \/ \E m \in SUBSET Entry : imm = {m})
StateType ==
  /\ manifest \in Snapshot /\ version \in Version
  /\ log \in Nat /\ next \in Nat /\ lastSeq \in Nat /\ pending \subseteq 1 .. next - 1
  /\ next > 0
FlagsType ==
  /\ phase \in {"closed", "replay", "switch", "clean", "open"}
  /\ bgError \in BOOLEAN /\ shutting \in BOOLEAN /\ scheduled \in BOOLEAN
BgType == bg \in Background /\ (bg.pc # "idle" => scheduled)
PastType ==
  /\ writes \in Nat /\ events \in Nat
  /\ acked \subseteq Nat /\ risky \subseteq Nat /\ promised \subseteq 1 .. writes
OpeningType == opening \in [todo : SUBSET Nat, made : SUBSET Nat]
ReaderType ==
  reader \in [on : BOOLEAN, snapshot : Nat, mem : SUBSET Entry,
              files : SUBSET Nat, expect : SUBSET Entry]
TypeInv ==
  /\ LogsType /\ TablesType /\ MemType /\ StateType /\ FlagsType
  /\ BgType /\ PastType /\ OpeningType /\ ReaderType

(* The threads: those that queue, the one at the front, and its group.     *)
Line(queue, threads, w) ==
  /\ queue \in Seq(Threads) /\ threads \in [Threads -> Thread]
  /\ \A i, j \in 1 .. Len(queue) : queue[i] = queue[j] => i = j
  /\ \A i \in 2 .. Len(queue) : threads[queue[i]].pc = "queued"
  /\ \A t \in Threads : (\A i \in 1 .. Len(queue) : queue[i] # t)
                           => threads[t].pc \in Outside
  /\ \A t \in Threads : threads[t].id <= w
Grouped(queue, threads, t) ==
  threads[t].pc \in WritingPcs =>
    /\ threads[t].group \in 1 .. Len(queue)
    /\ \A i \in 1 .. threads[t].group :
         threads[queue[i]].sync => threads[t].sync
Order(queue, threads, w) ==
  /\ Line(queue, threads, w)
  /\ Len(queue) > 0 => threads[queue[1]].pc \in Leading \cup WritingPcs
  /\ \A t \in Threads : Grouped(queue, threads, t)
QueueInv == Order(writers, thread, writes)

(* Until a database is open, its process has only what it reads.           *)
RestInv ==
  phase # "open" =>
    /\ mem = {} /\ imm = {} /\ pending = {} /\ reader = Idle
    /\ bgError = FALSE /\ shutting = FALSE /\ scheduled = FALSE
    /\ writers = << >> /\ thread = [t \in Threads |-> Resting] /\ bg = BgIdle

(* Names and numbers on disk, and of the process.                          *)
DiskInv ==
  /\ Files(manifest) \subseteq DOMAIN tables
  /\ \A n \in Files(manifest) \cup {manifest.log} : n < manifest.next
  /\ \A e \in Content(Files(manifest)) : e.seq <= manifest.seq
NumbersInv ==
  phase # "closed" =>
    /\ manifest.next <= next /\ manifest.seq <= lastSeq
    /\ Files(version) \subseteq DOMAIN tables
    /\ \A n \in Files(version) : n < next

(* Recovery.                                                               *)
ReplayInv ==
  /\ phase \in {"replay", "switch"} =>
       /\ Files(version) = Files(manifest)
       /\ opening.made \subseteq DOMAIN tables
       /\ \A n \in opening.made : manifest.next <= n /\ n < next
       /\ Content(opening.made) \subseteq Recoverable(logs)
       /\ \A e \in Content(opening.made) : e.seq <= lastSeq
       /\ opening.todo \subseteq {n \in DOMAIN logs : n >= manifest.log}
       /\ \A n \in DOMAIN logs \ opening.todo :
            /\ n < next
            /\ n >= manifest.log => Records(logs[n]) \subseteq Content(opening.made)
  /\ phase = "switch" =>
       /\ opening.todo = {} /\ log \in DOMAIN logs /\ manifest.log <= log

(* The MANIFEST against the version that is current.                       *)
Running == phase \in {"clean", "open"}
SameFiles(m, v) == m.l0 = v.l0 /\ m.l1 = v.l1 /\ m.log = v.log
VersionInv ==
  Running =>
    /\ log \in DOMAIN logs /\ \A n \in DOMAIN logs : n < next
    /\ version.log <= manifest.log /\ manifest.log <= log
    /\ Content(Files(version)) \subseteq Content(Files(manifest))
    /\ manifest.log = version.log \/ Flushed \subseteq Content(Files(manifest))
    /\ ~bgError => SameFiles(manifest, IF bg.pc = "install" THEN Edited(version)
                                       ELSE version)

(* The background thread.                                                  *)
Fresh(n) == n \notin Files(version) \cup Files(manifest) \cup reader.files
Unbuilt == bg.merging /\ bg.output # 0 /\ (bg.pc = "merge" \/ bg.flushing)
BgInv ==
  /\ bg.pc = "idle" => bg = BgIdle
  /\ bg.pc = "merge" => bg.merging /\ ~bg.flushing
  /\ bg.pc = "build" => bg.flushing
  /\ bg.pc # "idle" => bg.flushing \/ bg.merging
  /\ bg.flushing => imm # {}
  /\ bg.inputs \subseteq Files(version)
  /\ Unbuilt => Fresh(bg.output) /\ bg.output < next /\ bg.output # bg.out
                /\ bg.output \in pending
  /\ bg.pc = "build" => Fresh(bg.out) /\ bg.out < next
  /\ ~bg.merging => bg.inputs = {} /\ bg.output = 0
  /\ ~bg.flushing => bg.out = 0
EditInv ==
  bg.pc \in {"log", "install"} =>
    /\ manifest.next <= bg.edit.next /\ bg.edit.next <= next
    /\ manifest.seq <= bg.edit.seq /\ bg.edit.seq <= lastSeq
    /\ bg.edit.log = (IF bg.flushing THEN log ELSE version.log)
    /\ bg.edit.log < bg.edit.next
    /\ bg.flushing =>
         /\ bg.out < bg.edit.next
         /\ \A e \in Flushed : e.seq <= bg.edit.seq
         /\ imm # {{}} => bg.out \in DOMAIN tables /\ tables[bg.out] = Flushed
    /\ ~bg.flushing =>
         /\ bg.output # 0 /\ bg.output < bg.edit.next
         /\ bg.output \in DOMAIN tables /\ tables[bg.output] = Content(bg.inputs)
    /\ bg.pc = "install" =>
         /\ manifest.log = bg.edit.log
         /\ bg.flushing /\ imm # {{}} => bg.out \in manifest.l0

(* Sequence numbers: those used are up to lastSeq, or of the group being   *)
(* written.                                                                *)
Unique(entries) == \A e, f \in entries : e.seq = f.seq => e = f
Current(pcs) == UNION {GroupEntries(t) : t \in {u \in Threads : thread[u].pc \in pcs}}
Known == mem \cup Flushed \cup Content(Files(manifest)) \cup InLogs(logs, version.log)
SeqInv ==
  /\ ~Running => Unique(Recoverable(logs))
  /\ Running =>
       /\ Unique(Known)
       /\ \A e \in Flushed : e.seq <= lastSeq
       /\ \A e \in mem : e.seq <= lastSeq \/ e \in Current({"finish"})
       /\ \A e \in InLogs(logs, version.log) :
            e.seq <= lastSeq \/ e \in Current({"sync", "insert", "finish"})

(* Where the writes are.                                                   *)
Durable(id) ==
  \E e \in mem \cup Flushed \cup Content(Files(version)) :
    /\ e.id = id /\ e.seq <= lastSeq
    /\ \/ e \in Content(Files(version))
       \/ e \in Flushed \cap InLogs(Synced(logs), version.log)
       \/ e \in mem \cap Records(Synced(logs)[log])
SafeInv ==
  /\ ~Running => SyncedSurvive /\ AckedSurvive
  /\ phase \in {"replay", "switch"} => ~manifest.dead
  /\ Running =>
       /\ acked \ risky \subseteq
            Ids(Visible(mem \cup Flushed \cup Content(Files(version)), lastSeq))
       /\ Firm(mem) \subseteq Records(logs[log])
       /\ Firm(Flushed) \subseteq InLogs(logs, version.log)
       /\ \A id \in promised \ risky : Durable(id)
GroupInv ==
  \A t \in Threads :
    /\ thread[t].pc \in {"sync", "insert"} \/ (thread[t].pc = "finish" /\ thread[t].ok)
         => Firm(GroupEntries(t)) \subseteq Records(logs[log])
    /\ thread[t].pc = "insert" /\ thread[t].sync
         => Firm(GroupEntries(t)) \subseteq Records(Synced(logs)[log])
    /\ thread[t].pc = "finish" /\ thread[t].ok /\ thread[t].sync
         => Firm(GroupEntries(t)) \subseteq Records(Synced(logs)[log])
    /\ thread[t].pc = "finish" /\ thread[t].ok => GroupEntries(t) \subseteq mem

ReaderInv ==
  /\ ~reader.on => reader = Idle
  /\ reader.on =>
       /\ phase = "open" /\ \A n \in reader.files : n < next
       /\ GetsSeeTheirSnapshot

Inv ==
  /\ TypeInv /\ QueueInv /\ RestInv /\ DiskInv /\ NumbersInv /\ ReplayInv
  /\ VersionInv /\ BgInv /\ EditInv /\ SeqInv /\ SafeInv /\ GroupInv /\ ReaderInv
-----------------------------------------------------------------------------
(* Numbers and sets.                                                       *)

LEMMA EntryIs ==
  /\ \A e \in Entry : e.id \in Nat /\ e.seq \in Nat
  /\ \A i, s \in Nat : [id |-> i, seq |-> s] \in Entry
BY DEF Entry

LEMMA LogFileIs ==
  /\ \A f \in LogFile : f.recs \in Seq(SUBSET Entry) /\ f.synced \in Nat /\ f.torn \in BOOLEAN
  /\ \A r \in Seq(SUBSET Entry), s \in Nat, b \in BOOLEAN :
       [recs |-> r, synced |-> s, torn |-> b] \in LogFile
BY DEF LogFile

(* A bounded set of numbers has a greatest element, and a set of numbers a *)
(* least one.                                                              *)
LEMMA MaxExists ==
  ASSUME NEW n \in Nat, NEW S \in SUBSET (0 .. n), S # {}
  PROVE  Max(S) \in S /\ \A m \in S : m <= Max(S)
<1> DEFINE Above(m) == {k \in S : k > m}
           T == {Above(m) : m \in S}
<1>0. IsFiniteSet(0 .. n)
  BY FS_Interval
<1>1. IsFiniteSet(S)
  BY <1>0, FS_Subset
<1>2. \A U \in SUBSET S : IsFiniteSet(U)
  BY <1>1, FS_Subset
<1>3. T \subseteq FiniteSubsetsOf(S) /\ T # {}
  BY <1>2 DEF FiniteSubsetsOf
<1>4. PICK U \in T : \A V \in T : ~(<<V, U>> \in StrictSubsetOrdering(S))
  BY <1>3, <1>1, FS_StrictSubsetOrderingWellFounded, WFMin
<1>5. PICK m \in S : U = Above(m)
  OBVIOUS
<1>6. ASSUME NEW k \in S, ~(k <= m) PROVE FALSE
  <2>1. k \in Int /\ m \in Int /\ k > m /\ \A x \in S : x \in Int
    BY <1>6
  <2>2. \A x \in S : x > k => x > m
    BY <2>1
  <2>3. k \in Above(m) /\ k \notin Above(k)
    BY <2>1
  <2>4. k \in U /\ k \notin Above(k) /\ Above(k) \subseteq U
    BY <1>5, <2>2, <2>3
  <2>5. <<Above(k), U>> \in StrictSubsetOrdering(S)
    BY <1>5, <2>4 DEF StrictSubsetOrdering
  <2> QED BY <1>4, <2>5
<1>7. \A k \in S : k <= m /\ m >= k
  BY <1>6
<1>8. Max(S) \in S /\ \A k \in S : Max(S) >= k
  BY <1>7 DEF Max
<1>9. \A k \in S : Max(S) >= k => k <= Max(S)
  BY <1>8
<1> QED BY <1>8, <1>9

LEMMA MinExists ==
  ASSUME NEW S \in SUBSET Nat, S # {}
  PROVE  Min(S) \in S
<1>1. PICK s \in S : TRUE
  OBVIOUS
<1> DEFINE T == {s - m : m \in {k \in S : k <= s}}
<1>2. T \in SUBSET (0 .. s) /\ T # {} /\ s \in Nat
  <2>1. s \in Nat /\ s - s \in T
    OBVIOUS
  <2> QED BY <2>1
<1>3. Max(T) \in T /\ \A m \in T : m <= Max(T)
  BY <1>2, MaxExists
<1> HIDE DEF T
<1>4. PICK m \in S : m <= s /\ Max(T) = s - m
  BY <1>3 DEF T
<1>5. \A k \in S : m <= k
  <2> SUFFICES ASSUME NEW k \in S, k < m PROVE FALSE
    OBVIOUS
  <2>1. k <= s /\ s - k \in T
    BY <1>4 DEF T
  <2> QED BY <1>3, <1>4, <2>1
<1> QED BY <1>5 DEF Min

(* The place of an element among a set of numbers.                         *)
Rank(S, i) == Cardinality(S \cap 1 .. i)

LEMMA RankIs ==
  ASSUME NEW n \in Nat, NEW S \in SUBSET (1 .. n)
  PROVE  /\ Cardinality(S) \in Nat
         /\ \A i \in S : Rank(S, i) \in 1 .. Cardinality(S)
         /\ \A i, j \in S : i < j => Rank(S, i) < Rank(S, j)
<1>0. IsFiniteSet(1 .. n)
  BY FS_Interval
<1>1. IsFiniteSet(S) /\ Cardinality(S) \in Nat
  BY <1>0, FS_Subset, FS_CardinalityType
<1>2. \A i : /\ IsFiniteSet(S \cap 1 .. i) /\ Rank(S, i) \in Nat
             /\ Rank(S, i) <= Cardinality(S)
  <2> SUFFICES ASSUME NEW i
               PROVE  /\ IsFiniteSet(S \cap 1 .. i) /\ Rank(S, i) \in Nat
                      /\ Rank(S, i) <= Cardinality(S)
    OBVIOUS
  <2>1. S \cap 1 .. i \in SUBSET S
    OBVIOUS
  <2>2. IsFiniteSet(S \cap 1 .. i) /\ Cardinality(S \cap 1 .. i) <= Cardinality(S)
    BY <1>1, <2>1, FS_Subset
  <2> QED BY <2>2, FS_CardinalityType DEF Rank
<1>3. ASSUME NEW i \in S PROVE Rank(S, i) >= 1
  <2>1. i \in S \cap 1 .. i
    OBVIOUS
  <2>2. Cardinality(S \cap 1 .. i) # 0
    BY <1>2, <2>1, FS_EmptySet
  <2> QED BY <1>2, <2>2 DEF Rank
<1>4. ASSUME NEW i \in S, NEW j \in S, i < j PROVE Rank(S, i) < Rank(S, j)
  <2>1. S \cap 1 .. i \in SUBSET (S \cap 1 .. j)
    BY <1>4
  <2>2. j \in S \cap 1 .. j /\ j \notin S \cap 1 .. i
    BY <1>4
  <2>3. /\ Cardinality(S \cap 1 .. i) <= Cardinality(S \cap 1 .. j)
        /\ Cardinality(S \cap 1 .. i) # Cardinality(S \cap 1 .. j)
    BY <1>2, <2>1, <2>2, FS_Subset
  <2>4. Rank(S, i) \in Nat /\ Rank(S, j) \in Nat
    BY <1>2
  <2>5. Rank(S, i) <= Rank(S, j) /\ Rank(S, i) # Rank(S, j)
    BY <2>3 DEF Rank
  <2> QED BY <2>4, <2>5
<1>5. ASSUME NEW i \in S PROVE Rank(S, i) \in 1 .. Cardinality(S)
  <2>1. Rank(S, i) \in Nat /\ Rank(S, i) <= Cardinality(S) /\ Rank(S, i) >= 1
    BY <1>2, <1>3
  <2> QED BY <1>1, <2>1
<1> QED BY <1>1, <1>4, <1>5

(* Finite maps.                                                            *)
LEMMA WithIs ==
  ASSUME NEW f, NEW n, NEW v
  PROVE  /\ DOMAIN With(f, n, v) = DOMAIN f \cup {n}
         /\ With(f, n, v)[n] = v
         /\ \A m \in DOMAIN f : m # n => With(f, n, v)[m] = f[m]
BY DEF With

LEMMA RestrictToIs ==
  ASSUME NEW f, NEW S
  PROVE  /\ DOMAIN RestrictTo(f, S) = DOMAIN f \cap S
         /\ \A m \in DOMAIN f \cap S : RestrictTo(f, S)[m] = f[m]
BY DEF RestrictTo

LEMMA ContentIs ==
  \A files : Content(files) = ContentIn(tables, files)
BY DEF Content, ContentIn

LEMMA ContentInKept ==
  ASSUME NEW f, NEW g, NEW S, \A n \in S : f[n] = g[n]
  PROVE  ContentIn(f, S) = ContentIn(g, S)
BY DEF ContentIn

(* Records of a log.                                                       *)
LEMMA PrefixIs ==
  ASSUME NEW S, NEW s \in Seq(S), NEW n \in 0 .. Len(s)
  PROVE  /\ SubSeq(s, 1, n) \in Seq(S) /\ Len(SubSeq(s, 1, n)) = n
         /\ \A i \in 1 .. n : SubSeq(s, 1, n)[i] = s[i]
<1>1. Len(s) \in Nat /\ n \in Int /\ 1 \in Int /\ \A i \in 1 .. n : s[i] \in S
  OBVIOUS
<1>2. /\ SubSeq(s, 1, n) \in Seq(S)
      /\ Len(SubSeq(s, 1, n)) = IF 1 <= n THEN n - 1 + 1 ELSE 0
      /\ \A i \in 1 .. n - 1 + 1 : SubSeq(s, 1, n)[i] = s[1 + i - 1]
  BY <1>1, SubSeqProperties
<1>3. Len(SubSeq(s, 1, n)) = n
  BY <1>1, <1>2
<1>4. ASSUME NEW i \in 1 .. n PROVE SubSeq(s, 1, n)[i] = s[i]
  <2>1. i \in 1 .. n - 1 + 1 /\ 1 + i - 1 = i
    OBVIOUS
  <2> QED BY <1>2, <2>1
<1> QED BY <1>2, <1>3, <1>4

LEMMA AppendRecord ==
  ASSUME NEW f \in LogFile, NEW r \in SUBSET Entry, NEW g \in LogFile,
         g.recs = Append(f.recs, r), g.synced = f.synced, f.synced <= Len(f.recs)
  PROVE  /\ g.synced <= Len(g.recs) /\ Records(g) = Records(f) \cup r
         /\ \A i \in 1 .. f.synced : g.recs[i] = f.recs[i]
<1>1. f.recs \in Seq(SUBSET Entry) /\ f.synced \in Nat
  BY DEF LogFile
<1>2. /\ Len(g.recs) = Len(f.recs) + 1 /\ Len(f.recs) \in Nat
      /\ g.recs[Len(f.recs) + 1] = r
      /\ DOMAIN g.recs = 1 .. Len(f.recs) + 1 /\ DOMAIN f.recs = 1 .. Len(f.recs)
      /\ \A i \in 1 .. Len(f.recs) : g.recs[i] = f.recs[i]
  BY <1>1
<1>3. Records(g) = Records(f) \cup r
  <2>1. \A i \in DOMAIN g.recs : g.recs[i] \subseteq Records(f) \cup r
    BY <1>2 DEF Records
  <2>2. \A i \in DOMAIN f.recs : f.recs[i] \subseteq Records(g)
    BY <1>2 DEF Records
  <2>3. r \subseteq Records(g)
    BY <1>2 DEF Records
  <2> QED BY <2>1, <2>2, <2>3 DEF Records
<1> QED BY <1>1, <1>2, <1>3

(* What is left of a log that is cut.                                      *)
LEMMA CutLog ==
  ASSUME NEW f \in LogFile, NEW n \in 0 .. Len(f.recs)
  PROVE  LET g == Truncated(f, n) IN
         /\ g \in LogFile /\ g.synced = n /\ Len(g.recs) = n
         /\ Records(g) = UNION {f.recs[i] : i \in 1 .. n}
         /\ Records(g) \subseteq Records(f)
<1> DEFINE g == Truncated(f, n)
           s == SubSeq(f.recs, 1, n)
<1>1. f.recs \in Seq(SUBSET Entry) /\ Len(f.recs) \in Nat /\ n \in Nat
      /\ DOMAIN f.recs = 1 .. Len(f.recs)
  BY DEF LogFile
<1>2. s \in Seq(SUBSET Entry) /\ Len(s) = n /\ \A i \in 1 .. n : s[i] = f.recs[i]
  BY <1>1, PrefixIs
<1>3. g = [f EXCEPT !.recs = s, !.synced = n]
  BY DEF Truncated
<1> HIDE DEF s, g
<1>4. g \in LogFile /\ g.synced = n /\ g.recs = s
  BY <1>1, <1>2, <1>3 DEF LogFile
<1>5. DOMAIN g.recs = 1 .. n /\ \A i \in 1 .. n : g.recs[i] = f.recs[i]
  BY <1>2, <1>4
<1>6. Records(g) = UNION {f.recs[i] : i \in 1 .. n}
  BY <1>5 DEF Records
<1>7. Records(g) \subseteq Records(f)
  <2>1. Records(f) = UNION {f.recs[i] : i \in 1 .. Len(f.recs)}
    BY <1>1 DEF Records
  <2>2. 1 .. n \subseteq 1 .. Len(f.recs)
    BY <1>1
  <2> QED BY <1>6, <2>1, <2>2
<1> QED BY <1>2, <1>4, <1>6, <1>7 DEF g

-----------------------------------------------------------------------------
(* Groups and the queue.                                                   *)

LEMMA ThreadIs ==
  /\ \A s \in Thread : /\ s.id \in Nat /\ s.group \in Nat /\ s.sync \in BOOLEAN
                       /\ s.ok \in BOOLEAN /\ s.syncError \in BOOLEAN
                       /\ s.force \in BOOLEAN /\ s.delay \in BOOLEAN
  /\ Resting \in Thread /\ Resting.pc = "idle" /\ Resting.id = 0
BY DEF Thread, Resting

LEMMA LineIs ==
  ASSUME NEW queue, NEW threads, NEW w, Line(queue, threads, w)
  PROVE  /\ Len(queue) \in Nat /\ DOMAIN queue = 1 .. Len(queue)
         /\ \A i \in 1 .. Len(queue) : queue[i] \in Threads
         /\ \A t \in Threads : threads[t] \in Thread
         /\ \A t \in Threads : threads[t].pc \in WritingPcs
              => Len(queue) > 0 /\ queue[1] = t
<1>1. queue \in Seq(Threads) /\ threads \in [Threads -> Thread]
  BY DEF Line
<1>2. /\ Len(queue) \in Nat /\ DOMAIN queue = 1 .. Len(queue)
      /\ \A i \in 1 .. Len(queue) : queue[i] \in Threads
      /\ \A t \in Threads : threads[t] \in Thread
  BY <1>1
<1>3. ASSUME NEW t \in Threads, threads[t].pc \in WritingPcs
      PROVE  Len(queue) > 0 /\ queue[1] = t
  <2>1. threads[t].pc \notin Outside /\ threads[t].pc # "queued"
    BY <1>3 DEF WritingPcs, Busy, Outside
  <2>2. PICK i \in 1 .. Len(queue) : queue[i] = t
    BY <2>1 DEF Line
  <2>3. i \notin 2 .. Len(queue)
    BY <2>1, <2>2 DEF Line
  <2>4. i = 1
    BY <1>2, <2>3
  <2> QED BY <1>2, <2>2, <2>4
<1> QED BY <1>2, <1>3

(* What a group appends: an entry for each write, numbered from lastSeq on.*)
LEMMA GroupIs ==
  ASSUME TypeInv, QueueInv, NEW t \in Threads, thread[t].pc \in WritingPcs
  PROVE  /\ Count(t) \in Nat /\ GroupEntries(t) \subseteq Entry
         /\ \A e \in GroupEntries(t) : lastSeq < e.seq /\ e.seq <= lastSeq + Count(t)
         /\ \A e, f \in GroupEntries(t) : e.seq = f.seq => e = f
         /\ \A i \in 1 .. thread[t].group : thread[writers[i]].id # 0 =>
              \E e \in GroupEntries(t) : e.id = thread[writers[i]].id
<1>1. /\ Line(writers, thread, writes) /\ thread[t].group \in 1 .. Len(writers)
      /\ lastSeq \in Nat
  BY DEF QueueInv, Order, Grouped, TypeInv, StateType
<1>2. /\ Len(writers) \in Nat /\ thread[t].group \in Nat
      /\ \A i \in 1 .. Len(writers) : writers[i] \in Threads /\ thread[writers[i]].id \in Nat
  BY <1>1, LineIs, ThreadIs
<1>3. \A i \in 1 .. thread[t].group : thread[writers[i]].id \in Nat
  BY <1>1, <1>2
<1> DEFINE S == Batches(t)
<1>4. S \in SUBSET (1 .. thread[t].group)
  BY DEF Batches
<1>5. /\ Cardinality(S) \in Nat
      /\ \A i \in S : Rank(S, i) \in 1 .. Cardinality(S)
      /\ \A i, j \in S : i < j => Rank(S, i) < Rank(S, j)
  BY <1>2, <1>4, RankIs
<1>6. Count(t) = Cardinality(S)
  BY DEF Count
<1> DEFINE E(i) == [id |-> thread[writers[i]].id, seq |-> lastSeq + Rank(S, i)]
<1>7. GroupEntries(t) = {E(i) : i \in S}
  BY DEF GroupEntries, Rank
<1>8. \A i \in S : /\ i \in 1 .. thread[t].group /\ i \in Nat
                   /\ thread[writers[i]].id \in Nat
                   /\ Rank(S, i) \in Nat /\ lastSeq + Rank(S, i) \in Nat
                   /\ lastSeq < lastSeq + Rank(S, i)
                   /\ lastSeq + Rank(S, i) <= lastSeq + Cardinality(S)
  <2> HIDE DEF S
  <2> SUFFICES ASSUME NEW i \in S
               PROVE  /\ i \in 1 .. thread[t].group /\ i \in Nat
                      /\ thread[writers[i]].id \in Nat
                      /\ Rank(S, i) \in Nat /\ lastSeq + Rank(S, i) \in Nat
                      /\ lastSeq < lastSeq + Rank(S, i)
                      /\ lastSeq + Rank(S, i) <= lastSeq + Cardinality(S)
    OBVIOUS
  <2>1. i \in 1 .. thread[t].group /\ Rank(S, i) \in 1 .. Cardinality(S)
    BY <1>4, <1>5
  <2> QED BY <1>1, <1>2, <1>3, <1>5, <2>1
<1> HIDE DEF S
<1>9. \A i \in S : E(i).id = thread[writers[i]].id /\ E(i).seq = lastSeq + Rank(S, i)
  OBVIOUS
<1>10. ASSUME NEW e \in GroupEntries(t)
       PROVE  e \in Entry /\ lastSeq < e.seq /\ e.seq <= lastSeq + Count(t)
  <2>1. PICK i \in S : e = E(i)
    BY <1>7
  <2>2. E(i) \in Entry
    BY <1>8, EntryIs
  <2> QED BY <1>6, <1>8, <1>9, <2>1, <2>2
<1>11. ASSUME NEW e \in GroupEntries(t), NEW f \in GroupEntries(t), e.seq = f.seq
       PROVE  e = f
  <2>1. PICK i \in S : e = E(i)
    BY <1>7
  <2>2. PICK j \in S : f = E(j)
    BY <1>7
  <2>3. lastSeq + Rank(S, i) = lastSeq + Rank(S, j)
    BY <1>9, <1>11, <2>1, <2>2
  <2>4. Rank(S, i) = Rank(S, j) /\ i \in Nat /\ j \in Nat
    BY <1>1, <1>8, <2>3
  <2>5. ~(i < j) /\ ~(j < i)
    BY <1>5, <1>8, <2>4
  <2>6. i = j
    BY <2>4, <2>5
  <2> QED BY <2>1, <2>2, <2>6
<1>12. ASSUME NEW i \in 1 .. thread[t].group, thread[writers[i]].id # 0
       PROVE  \E e \in GroupEntries(t) : e.id = thread[writers[i]].id
  <2>1. i \in S
    BY <1>12 DEF S, Batches
  <2> QED BY <1>7, <1>9, <2>1
<1> QED BY <1>5, <1>6, <1>10, <1>11, <1>12

(* The groups that are being written stay as they are.                     *)
Steady ==
  \A u \in Threads :
    thread[u].pc \in Busy \/ thread'[u].pc \in Busy =>
      thread'[u] = thread[u] /\ GroupEntries(u)' = GroupEntries(u)
Quiet == \A u \in Threads : thread[u].pc \notin Busy

LEMMA QuietIsSteady ==
  ASSUME Quiet, Quiet'
  PROVE  Steady
BY DEF Quiet, Steady

(* A group depends on its leader and the members in front of the queue.    *)
LEMMA SameGroup ==
  ASSUME NEW t \in Threads, thread'[t].group = thread[t].group, lastSeq' = lastSeq,
         \A i \in 1 .. thread[t].group :
            thread'[writers'[i]].id = thread[writers[i]].id
  PROVE  GroupEntries(t)' = GroupEntries(t)
<1>1. Batches(t)' = Batches(t)
  BY DEF Batches
<1>2. \A i \in Batches(t) : thread'[writers'[i]].id = thread[writers[i]].id
  BY DEF Batches
<1> QED BY <1>1, <1>2 DEF GroupEntries

LEMMA SuffixIs ==
  ASSUME NEW S, NEW s \in Seq(S), NEW n \in 0 .. Len(s)
  PROVE  LET r == SubSeq(s, n + 1, Len(s)) IN
         /\ r \in Seq(S) /\ Len(r) = Len(s) - n
         /\ \A i \in 1 .. Len(s) - n : r[i] = s[n + i]
<1> DEFINE r == SubSeq(s, n + 1, Len(s))
<1>1. Len(s) \in Nat /\ n + 1 \in Int /\ Len(s) \in Int
      /\ \A i \in n + 1 .. Len(s) : s[i] \in S
  OBVIOUS
<1>2. /\ r \in Seq(S)
      /\ Len(r) = IF n + 1 <= Len(s) THEN Len(s) - (n + 1) + 1 ELSE 0
      /\ \A i \in 1 .. Len(s) - (n + 1) + 1 : r[i] = s[n + 1 + i - 1]
  BY <1>1, SubSeqProperties
<1> HIDE DEF r
<1>3. Len(r) = Len(s) - n
  BY <1>1, <1>2
<1>4. ASSUME NEW i \in 1 .. Len(s) - n PROVE r[i] = s[n + i]
  <2>1. i \in 1 .. Len(s) - (n + 1) + 1 /\ n + 1 + i - 1 = n + i
    BY <1>1
  <2> QED BY <1>2, <2>1
<1> QED BY <1>2, <1>3, <1>4 DEF r

LEMMA EmptySeqIs ==
  ASSUME NEW S, NEW s \in Seq(S)
  PROVE  s = << >> <=> Len(s) = 0
OBVIOUS

(* Writers that leave rest, and the next one leads.                        *)
LEMMA LeaveOrders ==
  ASSUME NEW queue, NEW threads, NEW w \in Nat, Line(queue, threads, w),
         NEW n \in 1 .. Len(queue), NEW ok \in BOOLEAN,
         Leave(n, ok, queue, threads)
  PROVE  /\ Order(writers, thread, w)' /\ \A u \in Threads : thread'[u].pc \notin WritingPcs
         /\ acked' = acked \cup {threads[queue[i]].id : i \in
                        {j \in 1 .. n : ok /\ threads[queue[j]].id # 0}}
         /\ promised' = promised \cup {threads[queue[i]].id : i \in
              {j \in 1 .. n : ok /\ threads[queue[j]].id # 0 /\ threads[queue[j]].sync}}
<1> DEFINE rest == SubSeq(queue, n + 1, Len(queue))
           In(u) == \E i \in 1 .. n : queue[i] = u
           Next1(u) == Len(rest) > 0 /\ rest[1] = u
<1>1. /\ queue \in Seq(Threads) /\ threads \in [Threads -> Thread] /\ Len(queue) \in Nat
      /\ \A i \in 1 .. Len(queue) : queue[i] \in Threads
      /\ \A t \in Threads : threads[t] \in Thread
  BY LineIs DEF Line
<1>2. n \in 0 .. Len(queue)
  BY <1>1
<1>3. rest \in Seq(Threads) /\ Len(rest) = Len(queue) - n
      /\ \A i \in 1 .. Len(queue) - n : rest[i] = queue[n + i]
  BY <1>1, <1>2, SuffixIs
<1>4. rest # << >> <=> Len(rest) > 0
  <2> HIDE DEF rest
  <2>1. Len(rest) \in Nat
    BY <1>3
  <2>2. rest = << >> <=> Len(rest) = 0
    BY <1>3, EmptySeqIs
  <2> QED BY <2>1, <2>2
<1>5. writers' = rest
  BY DEF Leave
<1>6. thread' = [u \in Threads |->
        IF In(u)
        THEN IF threads[u].id = 0 /\ ok THEN [Resting EXCEPT !.pc = "wokenImm"] ELSE Resting
        ELSE IF rest # << >> /\ Head(rest) = u
        THEN [threads[u] EXCEPT !.pc = "front"]
        ELSE threads[u]]
  BY DEF Leave
<1>7. \A u \in Threads : (rest # << >> /\ Head(rest) = u) <=> Next1(u)
  BY <1>3, <1>4
<1> HIDE DEF rest
<1>8. ASSUME NEW u \in Threads
      PROVE  /\ In(u) => /\ thread'[u] \in Thread /\ thread'[u].pc \in Outside
                         /\ thread'[u].id = 0
             /\ ~In(u) /\ Next1(u) =>
                  /\ thread'[u] \in Thread /\ thread'[u].pc = "front"
                  /\ thread'[u].id = threads[u].id
             /\ ~In(u) /\ ~Next1(u) => thread'[u] = threads[u]
  <2>1. CASE In(u)
    <3>1. thread'[u] = [Resting EXCEPT !.pc = "wokenImm"] \/ thread'[u] = Resting
      BY <1>6, <2>1
    <3>2. /\ [Resting EXCEPT !.pc = "wokenImm"] \in Thread
          /\ [Resting EXCEPT !.pc = "wokenImm"].pc = "wokenImm"
          /\ [Resting EXCEPT !.pc = "wokenImm"].id = 0
      BY DEF Resting, Thread
    <3> QED BY <2>1, <3>1, <3>2, ThreadIs DEF Outside
  <2>2. CASE ~In(u) /\ Next1(u)
    <3> HIDE DEF In, Next1
    <3>1. thread'[u] = [threads[u] EXCEPT !.pc = "front"]
      BY <1>6, <1>7, <2>2
    <3> QED BY <1>1, <2>2, <3>1 DEF Thread
  <2>3. CASE ~In(u) /\ ~Next1(u)
    <3> HIDE DEF In, Next1
    <3> QED BY <1>6, <1>7, <2>3
  <2> QED BY <2>1, <2>2, <2>3
<1>9. ASSUME NEW i \in 1 .. Len(queue), ~(i \in 1 .. n)
      PROVE  ~In(queue[i])
  <2>1. \A j \in 1 .. n : j \in 1 .. Len(queue) /\ j # i
    BY <1>1, <1>9
  <2> QED BY <2>1 DEF Line
<1> HIDE DEF In, Next1
<1>10. thread' \in [Threads -> Thread]
  <2>1. \A u \in Threads : thread'[u] \in Thread
    BY <1>1, <1>8
  <2> QED BY <1>6, <2>1
<1>11. \A i, j \in 1 .. Len(rest) : rest[i] = rest[j] => i = j
  <2> SUFFICES ASSUME NEW i \in 1 .. Len(rest), NEW j \in 1 .. Len(rest), rest[i] = rest[j]
               PROVE  i = j
    OBVIOUS
  <2>1. n + i \in 1 .. Len(queue) /\ n + j \in 1 .. Len(queue)
        /\ queue[n + i] = queue[n + j]
    BY <1>1, <1>3
  <2>2. n + i = n + j
    BY <2>1 DEF Line
  <2> QED BY <1>1, <2>2
<1>12. ASSUME NEW i \in 2 .. Len(rest)
       PROVE  thread'[rest[i]] = threads[rest[i]] /\ threads[rest[i]].pc = "queued"
              /\ rest[i] \in Threads
  <2>a. i \in 2 .. Len(queue) - n /\ Len(rest) = Len(queue) - n
    BY <1>3
  <2>b. /\ n + i \in 2 .. Len(queue) /\ ~(n + i \in 1 .. n) /\ n + i \in 1 .. Len(queue)
        /\ i \in 1 .. Len(queue) - n /\ 1 \in 1 .. Len(queue) - n
    BY <1>1, <2>a
  <2>1. /\ n + i \in 2 .. Len(queue) /\ rest[i] = queue[n + i] /\ ~(n + i \in 1 .. n)
        /\ n + i \in 1 .. Len(queue) /\ i \in 1 .. Len(rest) /\ 1 \in 1 .. Len(rest)
    BY <1>3, <2>a, <2>b
  <2>2. threads[rest[i]].pc = "queued" /\ rest[i] \in Threads
    BY <1>1, <2>1 DEF Line
  <2>3. ~In(rest[i])
    BY <1>9, <2>1
  <2>4. rest[1] # rest[i]
    BY <1>11, <2>1
  <2> QED BY <1>8, <2>2, <2>3, <2>4 DEF Next1
<1>13. ASSUME NEW u \in Threads, \A i \in 1 .. Len(rest) : rest[i] # u
       PROVE  thread'[u].pc \in Outside
  <2>1. CASE In(u)
    BY <1>8, <2>1
  <2>2. CASE ~In(u)
    <3>1. ~Next1(u)
      <4>1. Len(rest) > 0 => 1 \in 1 .. Len(rest)
        BY <1>1, <1>3
      <4> QED BY <1>13, <4>1 DEF Next1
    <3>2. ASSUME NEW i \in 1 .. Len(queue) PROVE queue[i] # u
      <4>1. CASE i \in 1 .. n
        BY <2>2, <4>1 DEF In
      <4>2. CASE ~(i \in 1 .. n)
        <5>1. i - n \in 1 .. Len(rest) /\ n + (i - n) = i /\ i - n \in 1 .. Len(queue) - n
          BY <1>1, <1>3, <4>2
        <5> QED BY <1>3, <1>13, <5>1
      <4> QED BY <4>1, <4>2
    <3>3. threads[u].pc \in Outside
      BY <3>2 DEF Line
    <3> QED BY <1>8, <2>2, <3>1, <3>3
  <2> QED BY <2>1, <2>2
<1>14. \A u \in Threads : thread'[u].id <= w
  <2>1. \A u \in Threads : threads[u].id <= w
    BY DEF Line
  <2> QED BY <1>8, <2>1
<1>15. Line(rest, thread', w)
  <2>1. \A i \in 2 .. Len(rest) : thread'[rest[i]].pc = "queued"
    BY <1>12
  <2> QED BY <1>3, <1>10, <1>11, <1>13, <1>14, <2>1 DEF Line
<1>16. Len(rest) > 0 => thread'[rest[1]].pc = "front"
  <2> SUFFICES ASSUME Len(rest) > 0 PROVE thread'[rest[1]].pc = "front"
    OBVIOUS
  <2>1. 1 \in 1 .. Len(queue) - n /\ n + 1 \in 1 .. Len(queue) /\ ~(n + 1 \in 1 .. n)
    BY <1>1, <1>3
  <2>2. rest[1] = queue[n + 1] /\ rest[1] \in Threads
    BY <1>1, <1>3, <2>1
  <2>3. ~In(rest[1]) /\ Next1(rest[1])
    BY <1>9, <2>1, <2>2 DEF Next1
  <2> QED BY <1>8, <2>2, <2>3
<1>17. ASSUME NEW u \in Threads PROVE thread'[u].pc \notin WritingPcs
  <2>1. CASE \A i \in 1 .. Len(rest) : rest[i] # u
    BY <1>13, <2>1 DEF Outside, WritingPcs, Busy
  <2>2. ASSUME NEW i \in 1 .. Len(rest), rest[i] = u PROVE thread'[u].pc \notin WritingPcs
    <3>1. CASE i = 1
      <4>1. Len(rest) > 0
        BY <2>2, <1>1, <1>3
      <4> QED BY <1>16, <2>2, <3>1, <4>1 DEF WritingPcs, Busy
    <3>2. CASE i # 1
      <4>1. i \in 2 .. Len(rest)
        BY <3>2, <1>1, <1>3
      <4> QED BY <1>12, <2>2, <4>1 DEF WritingPcs, Busy
    <3> QED BY <3>1, <3>2
  <2> QED BY <2>1, <2>2
<1>18. Order(rest, thread', w)
  BY <1>15, <1>16, <1>17 DEF Order, Grouped, Leading
<1>19. Order(writers, thread, w)'
  BY <1>5, <1>18 DEF Order, Line, Grouped
<1>20. /\ acked' = acked \cup {threads[queue[i]].id : i \in
                        {j \in 1 .. n : ok /\ threads[queue[j]].id # 0}}
       /\ promised' = promised \cup {threads[queue[i]].id : i \in
              {j \in 1 .. n : ok /\ threads[queue[j]].id # 0 /\ threads[queue[j]].sync}}
  BY DEF Leave
<1> QED BY <1>17, <1>19, <1>20

(* What the loop of MakeRoomForWrite makes of the queue: its first writer  *)
(* t leaves, waits, or fixes a group to append.                            *)
Advanced(t, queue, threads) ==
  \/ \E ok \in BOOLEAN :
       /\ ok => threads[t].id = 0
       /\ Leave(1, ok, queue, threads)
  \/ /\ writers' = queue /\ acked' = acked /\ promised' = promised
     /\ \E s \in Thread :
          /\ thread' = [threads EXCEPT ![t] = s]
          /\ s.id = threads[t].id /\ s.sync = threads[t].sync
          /\ \/ s.pc \in {"delay", "wait"}
             \/ s.pc = "append" /\ s.group \in BatchGroups(queue, threads)

LEMMA AdvancedOrders ==
  ASSUME NEW queue, NEW threads, NEW w \in Nat, Line(queue, threads, w),
         NEW t \in Threads, Len(queue) > 0, queue[1] = t, Advanced(t, queue, threads)
  PROVE  /\ Order(writers, thread, w)' /\ Quiet'
         /\ acked' = acked /\ promised' = promised
<1>1. /\ queue \in Seq(Threads) /\ threads \in [Threads -> Thread] /\ Len(queue) \in Nat
      /\ \A i \in 1 .. Len(queue) : queue[i] \in Threads
      /\ \A u \in Threads : threads[u] \in Thread
      /\ \A u \in Threads : threads[u].pc \in WritingPcs => u = t
  <2>1. /\ Len(queue) \in Nat
        /\ \A i \in 1 .. Len(queue) : queue[i] \in Threads
        /\ \A u \in Threads : threads[u] \in Thread
        /\ \A u \in Threads : threads[u].pc \in WritingPcs
             => Len(queue) > 0 /\ queue[1] = u
    BY LineIs
  <2> QED BY <2>1 DEF Line
<1>2. 1 \in 1 .. Len(queue)
  BY <1>1
<1>3. ASSUME NEW ok \in BOOLEAN, ok => threads[t].id = 0, Leave(1, ok, queue, threads)
      PROVE  /\ Order(writers, thread, w)' /\ Quiet'
             /\ acked' = acked /\ promised' = promised
  <2>1. /\ Order(writers, thread, w)' /\ \A u \in Threads : thread'[u].pc \notin WritingPcs
        /\ acked' = acked \cup {threads[queue[i]].id : i \in
                        {j \in 1 .. 1 : ok /\ threads[queue[j]].id # 0}}
        /\ promised' = promised \cup {threads[queue[i]].id : i \in
              {j \in 1 .. 1 : ok /\ threads[queue[j]].id # 0 /\ threads[queue[j]].sync}}
    BY <1>2, <1>3, LeaveOrders
  <2>2. \A j \in 1 .. 1 : ~(ok /\ threads[queue[j]].id # 0)
    BY <1>3
  <2>3. acked' = acked /\ promised' = promised
    BY <2>1, <2>2
  <2> QED BY <2>1, <2>3 DEF Quiet, WritingPcs
<1>4. ASSUME writers' = queue, NEW s \in Thread, thread' = [threads EXCEPT ![t] = s],
             s.id = threads[t].id, s.sync = threads[t].sync,
             s.pc \in {"delay", "wait", "append"},
             s.pc = "append" => s.group \in BatchGroups(queue, threads)
      PROVE  Order(writers, thread, w)' /\ Quiet'
  <2>1. /\ thread' \in [Threads -> Thread] /\ thread'[t] = s
        /\ \A u \in Threads : u # t => thread'[u] = threads[u]
    BY <1>1, <1>4
  <2>2. ASSUME NEW i \in 2 .. Len(queue)
        PROVE  queue[i] # t /\ thread'[queue[i]] = threads[queue[i]]
    <3>1. i \in 1 .. Len(queue) /\ i # 1
      BY <1>1
    <3>2. queue[i] # queue[1]
      BY <1>2, <3>1 DEF Line
    <3> QED BY <1>1, <2>1, <3>1, <3>2
  <2>3. Line(queue, thread', w)
    <3>1. \A i \in 2 .. Len(queue) : thread'[queue[i]].pc = "queued"
      BY <2>2 DEF Line
    <3>2. ASSUME NEW u \in Threads, \A i \in 1 .. Len(queue) : queue[i] # u
          PROVE  thread'[u].pc \in Outside
      <4>1. u # t
        BY <1>2, <3>2
      <4> QED BY <2>1, <3>2, <4>1 DEF Line
    <3>3. \A u \in Threads : thread'[u].id <= w
      BY <1>4, <2>1 DEF Line
    <3> QED BY <2>1, <3>1, <3>2, <3>3 DEF Line
  <2>4. thread'[queue[1]].pc \in Leading \cup WritingPcs
    BY <1>4, <2>1 DEF Leading, WritingPcs
  <2>5. ASSUME NEW u \in Threads PROVE Grouped(queue, thread', u)
    <3>1. CASE u # t
      BY <1>1, <2>1, <3>1 DEF Grouped
    <3>2. CASE u = t /\ s.pc = "append"
      <4>1. /\ s.group \in 1 .. Len(queue)
            /\ \A i \in 2 .. s.group : threads[queue[i]].sync => threads[queue[1]].sync
        BY <1>4, <3>2 DEF BatchGroups
      <4>2. ASSUME NEW i \in 1 .. s.group, thread'[queue[i]].sync PROVE thread'[t].sync
        <5>1. CASE i = 1
          BY <4>2, <5>1
        <5>2. CASE i # 1
          <6>1. i \in 2 .. s.group /\ i \in 2 .. Len(queue)
            BY <1>1, <4>1, <5>2
          <6>2. threads[queue[i]].sync
            BY <2>2, <4>2, <6>1
          <6> QED BY <1>4, <2>1, <4>1, <6>1, <6>2
        <5> QED BY <5>1, <5>2
      <4> QED BY <2>1, <3>2, <4>1, <4>2 DEF Grouped
    <3>3. CASE u = t /\ s.pc # "append"
      BY <1>4, <2>1, <3>3 DEF Grouped, WritingPcs, Busy
    <3> QED BY <3>1, <3>2, <3>3
  <2>6. Order(queue, thread', w)
    BY <2>3, <2>4, <2>5 DEF Order
  <2>7. Quiet'
    <3> SUFFICES ASSUME NEW u \in Threads PROVE thread'[u].pc \notin Busy
      BY DEF Quiet
    <3> QED BY <1>1, <1>4, <2>1 DEF WritingPcs, Busy
  <2>8. Order(writers, thread, w)'
    BY <1>4, <2>6 DEF Order, Line, Grouped
  <2> QED BY <2>7, <2>8
<1>5. CASE \E ok \in BOOLEAN : /\ ok => threads[t].id = 0
                               /\ Leave(1, ok, queue, threads)
  BY <1>3, <1>5
<1>6. CASE /\ writers' = queue /\ acked' = acked /\ promised' = promised
           /\ \E s \in Thread :
                /\ thread' = [threads EXCEPT ![t] = s]
                /\ s.id = threads[t].id /\ s.sync = threads[t].sync
                /\ \/ s.pc \in {"delay", "wait"}
                   \/ s.pc = "append" /\ s.group \in BatchGroups(queue, threads)
  BY <1>4, <1>6
<1> QED BY <1>5, <1>6 DEF Advanced

(* The data that a client's step up to the end of MakeRoomForWrite changes.*)
Switched ==
  /\ ~bgError /\ imm = {} /\ SwitchMemTable
  /\ version' = version /\ lastSeq' = lastSeq /\ pending' = pending
Unswitched == UNCHANGED <<logs, state>>
MoreEvents == events' \in Nat /\ scheduled' \in BOOLEAN /\ (scheduled => scheduled')

LEMMA ProceedAdvances ==
  ASSUME NEW queue, NEW threads, threads \in [Threads -> Thread], NEW t \in Threads,
         NEW force \in BOOLEAN, Len(queue) \in Nat,
         Proceed(t, queue, [threads EXCEPT ![t].force = force])
  PROVE  Advanced(t, queue, [threads EXCEPT ![t].force = force])
<1> DEFINE th == [threads EXCEPT ![t].force = force]
<1>1. th \in [Threads -> Thread]
  BY DEF Thread
<1> HIDE DEF th
<1>2. CASE th[t].id = 0
  BY <1>2 DEF Proceed, Advanced, th
<1>3. CASE th[t].id # 0
  <2>1. /\ writers' = queue /\ acked' = acked /\ promised' = promised
        /\ \E n \in BatchGroups(queue, th) :
             thread' = [th EXCEPT ![t].pc = "append", ![t].group = n]
    BY <1>3 DEF Proceed, th
  <2>2. PICK n \in BatchGroups(queue, th) :
             thread' = [th EXCEPT ![t].pc = "append", ![t].group = n]
    BY <2>1
  <2>3. n \in Nat
    BY DEF BatchGroups
  <2> DEFINE s == [th[t] EXCEPT !.pc = "append", !.group = n]
  <2>4. th[t] \in Thread
    BY <1>1
  <2>5. s \in Thread /\ s.pc = "append" /\ s.group = n /\ s.id = th[t].id
        /\ s.sync = th[t].sync
    BY <2>3, <2>4 DEF Thread
  <2>6. thread' = [th EXCEPT ![t] = s]
    BY <1>1, <2>2, <2>4 DEF Thread
  <2> HIDE DEF s
  <2> QED BY <2>1, <2>2, <2>5, <2>6 DEF Advanced, th
<1> QED BY <1>2, <1>3

LEMMA ForceKeepsLine ==
  ASSUME NEW queue, NEW threads, NEW w \in Nat, Line(queue, threads, w),
         NEW t \in Threads, NEW force \in BOOLEAN
  PROVE  Line(queue, [threads EXCEPT ![t].force = force], w)
<1> DEFINE th == [threads EXCEPT ![t].force = force]
<1>1. threads \in [Threads -> Thread] /\ \A u \in Threads : threads[u] \in Thread
      /\ \A i \in 1 .. Len(queue) : queue[i] \in Threads
  BY LineIs DEF Line
<1>2. /\ th \in [Threads -> Thread]
      /\ \A u \in Threads : th[u].pc = threads[u].pc /\ th[u].id = threads[u].id
  BY <1>1 DEF Thread
<1> HIDE DEF th
<1>3. \A i \in 2 .. Len(queue) : queue[i] \in Threads
  BY <1>1, LineIs
<1>4. Line(queue, th, w)
  BY <1>2, <1>3 DEF Line
<1> QED BY <1>4 DEF th

LEMMA MakeRoomAdvances ==
  ASSUME NEW queue, NEW threads, NEW w \in Nat, Line(queue, threads, w),
         Len(queue) > 0, NEW t \in Threads, queue[1] = t,
         MakeRoomForWrite(t, queue, threads),
         bgError \in BOOLEAN, scheduled \in BOOLEAN, events \in Nat
  PROVE  /\ \E th : Line(queue, th, w) /\ Advanced(t, queue, th)
         /\ Unswitched \/ Switched
         /\ MoreEvents
<1> DEFINE crowded == Cardinality(version.l0)
           Goal == /\ \E th : Line(queue, th, w) /\ Advanced(t, queue, th)
                   /\ Unswitched \/ Switched
                   /\ MoreEvents
           freed == [threads EXCEPT ![t].force = FALSE]
<1>1. /\ threads \in [Threads -> Thread] /\ Len(queue) \in Nat /\ threads[t] \in Thread
      /\ Line(queue, freed, w)
  <2>1. FALSE \in BOOLEAN /\ Line(queue, threads, w)
    OBVIOUS
  <2>2. Line(queue, freed, w)
    BY ONLY <2>1, ForceKeepsLine, w \in Nat, t \in Threads
  <2>3. threads \in [Threads -> Thread] /\ queue \in Seq(Threads)
    BY DEF Line
  <2> QED BY <2>2, <2>3
<1>2. ASSUME UNCHANGED <<logs, state, scheduled, events>> PROVE Unswitched /\ MoreEvents
  BY <1>2 DEF Unswitched, MoreEvents
<1>3. ASSUME Leave(1, FALSE, queue, threads) PROVE Advanced(t, queue, threads)
  BY <1>3 DEF Advanced
<1>4. CASE /\ bgError
           /\ Leave(1, FALSE, queue, threads)
           /\ UNCHANGED <<logs, state, scheduled, events>>
  BY <1>2, <1>3, <1>4
<1>5. CASE /\ thread' = [threads EXCEPT ![t].pc = "delay", ![t].delay = FALSE]
           /\ writers' = queue
           /\ UNCHANGED <<logs, state, scheduled, events, acked, promised>>
  <2> DEFINE s == [threads[t] EXCEPT !.pc = "delay", !.delay = FALSE]
  <2>1. s \in Thread /\ s.pc = "delay" /\ s.id = threads[t].id /\ s.sync = threads[t].sync
    BY <1>1 DEF Thread
  <2>2. thread' = [threads EXCEPT ![t] = s]
    BY <1>1, <1>5 DEF Thread
  <2> HIDE DEF s
  <2>3. Advanced(t, queue, threads)
    BY <1>5, <2>1, <2>2 DEF Advanced
  <2> QED BY <1>2, <1>5, <2>3
<1>6. CASE /\ Proceed(t, queue, threads)
           /\ UNCHANGED <<logs, state, scheduled, events>>
  <2>1. threads[t].force \in BOOLEAN
    BY <1>1, ThreadIs
  <2>2. [threads EXCEPT ![t].force = threads[t].force] = threads
    BY <1>1 DEF Thread
  <2>3. Advanced(t, queue, threads)
    BY <1>1, <1>6, <2>1, <2>2, ProceedAdvances
  <2> QED BY <1>2, <1>6, <2>3
<1>7. CASE /\ thread' = [threads EXCEPT ![t].pc = "wait"] /\ writers' = queue
           /\ UNCHANGED <<logs, state, scheduled, events, acked, promised>>
  <2> DEFINE s == [threads[t] EXCEPT !.pc = "wait"]
  <2>1. s \in Thread /\ s.pc = "wait" /\ s.id = threads[t].id /\ s.sync = threads[t].sync
    BY <1>1 DEF Thread
  <2>2. thread' = [threads EXCEPT ![t] = s]
    BY <1>1, <1>7 DEF Thread
  <2> HIDE DEF s
  <2>3. Advanced(t, queue, threads)
    BY <1>7, <2>1, <2>2 DEF Advanced
  <2> QED BY <1>2, <1>7, <2>3
<1>8. CASE /\ ~bgError /\ imm = {}
           /\ SwitchMemTable
           /\ MaybeScheduleCompaction(scheduled, bgError, imm', version)
           /\ Proceed(t, queue, freed)
           /\ UNCHANGED <<version, lastSeq, pending, events>>
  <2>1. Advanced(t, queue, freed)
    BY <1>1, <1>8, ProceedAdvances
  <2>2. Switched
    BY <1>8 DEF Switched
  <2>3. scheduled' \in BOOLEAN /\ (scheduled => scheduled')
    BY <1>8 DEF MaybeScheduleCompaction
  <2>4. MoreEvents
    BY <1>8, <2>3 DEF MoreEvents
  <2> QED BY <1>1, <2>1, <2>2, <2>4
<1>9. CASE /\ Event
           /\ Leave(1, FALSE, queue, threads)
           /\ UNCHANGED <<logs, state, scheduled>>
  <2>1. Unswitched /\ MoreEvents
    BY <1>9 DEF Event, Unswitched, MoreEvents
  <2> QED BY <1>3, <1>9, <2>1
<1>10. \/ /\ bgError
          /\ Leave(1, FALSE, queue, threads)
          /\ UNCHANGED <<logs, state, scheduled, events>>
       \/ /\ thread' = [threads EXCEPT ![t].pc = "delay", ![t].delay = FALSE]
          /\ writers' = queue
          /\ UNCHANGED <<logs, state, scheduled, events, acked, promised>>
       \/ /\ Proceed(t, queue, threads)
          /\ UNCHANGED <<logs, state, scheduled, events>>
       \/ /\ thread' = [threads EXCEPT ![t].pc = "wait"] /\ writers' = queue
          /\ UNCHANGED <<logs, state, scheduled, events, acked, promised>>
       \/ /\ ~bgError /\ imm = {}
          /\ SwitchMemTable
          /\ MaybeScheduleCompaction(scheduled, bgError, imm', version)
          /\ Proceed(t, queue, freed)
          /\ UNCHANGED <<version, lastSeq, pending, events>>
       \/ /\ Event
          /\ Leave(1, FALSE, queue, threads)
          /\ UNCHANGED <<logs, state, scheduled>>
  BY DEF MakeRoomForWrite
<1> QED BY <1>10, <1>4, <1>5, <1>6, <1>7, <1>8, <1>9

(* A step of a client that does not write to the log or the memtable.      *)
ClientStep ==
  /\ QueueInv' /\ Steady /\ acked' = acked /\ promised' = promised
  /\ Unswitched \/ (Switched /\ Quiet /\ Quiet')
  /\ MoreEvents

LEMMA LeadSteps ==
  ASSUME TypeInv, QueueInv, NEW t \in Threads, writes' = writes,
         thread[t].pc \in {"front", "delay", "woken"},
         MakeRoomForWrite(t, writers, thread)
  PROVE  ClientStep
<1>1. /\ Line(writers, thread, writes) /\ writes \in Nat
      /\ bgError \in BOOLEAN /\ scheduled \in BOOLEAN /\ events \in Nat
  BY DEF QueueInv, Order, TypeInv, PastType, FlagsType
<1>2. Len(writers) \in Nat /\ \A u \in Threads : thread[u].pc \in WritingPcs
                                   => Len(writers) > 0 /\ writers[1] = u
  BY <1>1, LineIs
<1>3. PICK i \in 1 .. Len(writers) : writers[i] = t
  BY <1>1 DEF Line, Outside
<1>4. i \notin 2 .. Len(writers)
  BY <1>1, <1>3 DEF Line
<1>5. Len(writers) > 0 /\ writers[1] = t
  BY <1>2, <1>3, <1>4
<1>6. /\ \E th : Line(writers, th, writes) /\ Advanced(t, writers, th)
      /\ Unswitched \/ Switched
      /\ MoreEvents
  BY <1>1, <1>5, MakeRoomAdvances
<1>7. Order(writers, thread, writes)' /\ Quiet' /\ acked' = acked /\ promised' = promised
  <2>1. PICK th : Line(writers, th, writes) /\ Advanced(t, writers, th)
    BY <1>6
  <2>2. Order(writers, thread, writes)' /\ Quiet' /\ acked' = acked /\ promised' = promised
    BY <1>1, <1>5, <2>1, AdvancedOrders
  <2> QED BY <2>2
<1>8. Quiet
  BY <1>2, <1>5 DEF Quiet, WritingPcs, Busy
<1> QED BY <1>6, <1>7, <1>8, QuietIsSteady DEF ClientStep, QueueInv

LEMMA EnterSteps ==
  ASSUME TypeInv, QueueInv, NEW t \in Threads, thread[t].pc = "idle",
         NEW s \in Thread, s.pc = "idle", s.id <= writes + 1, writes' = writes + 1,
         Enter(t, s)
  PROVE  ClientStep
<1> DEFINE queue == Append(writers, t)
           th == [thread EXCEPT ![t] = s]
           n == Len(writers)
<1>1. /\ Line(writers, thread, writes) /\ writes \in Nat /\ writes + 1 \in Nat
      /\ bgError \in BOOLEAN /\ scheduled \in BOOLEAN /\ events \in Nat /\ lastSeq \in Nat
  BY DEF QueueInv, Order, TypeInv, PastType, FlagsType, StateType
<1>2. /\ writers \in Seq(Threads) /\ thread \in [Threads -> Thread]
      /\ n \in Nat /\ \A i \in 1 .. n : writers[i] \in Threads
  BY <1>1, LineIs DEF Line
<1>3. \A u \in Threads : thread[u].pc \in WritingPcs => n > 0 /\ writers[1] = u
  BY <1>1, LineIs
<1>4. ASSUME NEW i \in 1 .. n PROVE writers[i] # t
  <2>1. CASE i = 1
    <3>1. thread[writers[1]].pc \in Leading \cup WritingPcs
      BY <1>2, <2>1 DEF QueueInv, Order
    <3> QED BY <2>1, <3>1 DEF Leading, WritingPcs, Busy
  <2>2. CASE i # 1
    <3>1. i \in 2 .. n
      BY <1>2, <2>2
    <3>2. thread[writers[i]].pc = "queued"
      BY <1>1, <3>1 DEF Line
    <3> QED BY <3>2
  <2> QED BY <2>1, <2>2
<1>5. /\ queue \in Seq(Threads) /\ Len(queue) = n + 1 /\ queue[n + 1] = t
      /\ \A i \in 1 .. n : queue[i] = writers[i]
  BY <1>2
<1> HIDE DEF queue
<1>6. ASSUME NEW r \in Thread, r.id = s.id, NEW i \in 1 .. n + 1, NEW j \in 1 .. n + 1,
             queue[i] = queue[j]
      PROVE  i = j
  <2>1. CASE i \in 1 .. n /\ j \in 1 .. n
    BY <1>1, <1>5, <1>6, <2>1 DEF Line
  <2>2. CASE i \notin 1 .. n /\ j \in 1 .. n
    <3>1. i = n + 1
      BY <1>2, <1>6, <2>2
    <3> QED BY <1>4, <1>5, <1>6, <2>2, <3>1
  <2>3. CASE i \in 1 .. n /\ j \notin 1 .. n
    <3>1. j = n + 1
      BY <1>2, <1>6, <2>3
    <3> QED BY <1>4, <1>5, <1>6, <2>3, <3>1
  <2>4. CASE i \notin 1 .. n /\ j \notin 1 .. n
    BY <1>2, <1>6, <2>4
  <2> QED BY <2>1, <2>2, <2>3, <2>4
<1>7. ASSUME NEW r \in Thread, r.id = s.id,
             n > 0 => r.pc = "queued"
      PROVE  LET f == [thread EXCEPT ![t] = r] IN Line(queue, f, writes + 1)
  <2> DEFINE f == [thread EXCEPT ![t] = r]
  <2>1. /\ f \in [Threads -> Thread] /\ f[t] = r
        /\ \A u \in Threads : u # t => f[u] = thread[u]
    BY <1>2, <1>7
  <2> HIDE DEF f
  <2>2. ASSUME NEW i \in 2 .. n + 1 PROVE f[queue[i]].pc = "queued"
    <3>1. CASE i = n + 1
      <4>1. n > 0
        BY <1>2, <3>1
      <4> QED BY <1>5, <1>7, <2>1, <3>1, <4>1
    <3>2. CASE i # n + 1
      <4>1. i \in 2 .. n /\ i \in 1 .. n
        BY <1>2, <3>2
      <4>2. queue[i] = writers[i] /\ writers[i] # t /\ writers[i] \in Threads
        BY <1>2, <1>4, <1>5, <4>1
      <4>3. thread[writers[i]].pc = "queued"
        BY <1>1, <4>1 DEF Line
      <4> QED BY <2>1, <4>2, <4>3
    <3> QED BY <3>1, <3>2
  <2>3. ASSUME NEW u \in Threads, \A i \in 1 .. n + 1 : queue[i] # u
        PROVE  f[u].pc \in Outside
    <3>1. u # t
      <4>1. n + 1 \in 1 .. n + 1
        BY <1>2
      <4> QED BY <1>5, <2>3, <4>1
    <3>2. \A i \in 1 .. n : writers[i] # u
      <4>1. \A i \in 1 .. n : i \in 1 .. n + 1
        BY <1>2
      <4> QED BY <1>5, <2>3, <4>1
    <3> QED BY <1>1, <2>1, <3>1, <3>2 DEF Line
  <2>4. ASSUME NEW u \in Threads PROVE f[u].id <= writes + 1
    <3>1. CASE u = t
      BY <1>7, <2>1, <3>1
    <3>2. CASE u # t
      <4>1. thread[u].id <= writes /\ thread[u].id \in Nat
        BY <1>1, <1>2, ThreadIs DEF Line
      <4> QED BY <1>1, <2>1, <3>2, <4>1
    <3> QED BY <3>1, <3>2
  <2>5. \A i, j \in 1 .. n + 1 : queue[i] = queue[j] => i = j
    BY <1>6, <1>7
  <2>6. Line(queue, f, writes + 1)
    BY <1>5, <2>1, <2>2, <2>3, <2>4, <2>5 DEF Line
  <2> QED BY <2>6 DEF f
<1>8. CASE writers = << >>
  <2>1. n = 0 /\ Len(queue) > 0 /\ queue[1] = t
    BY <1>2, <1>5, <1>8
  <2>2. Line(queue, th, writes + 1)
    BY <1>7, <2>1
  <2>3. MakeRoomForWrite(t, queue, th)
    BY <1>8 DEF Enter, queue
  <2> HIDE DEF th
  <2>4. /\ \E g : Line(queue, g, writes + 1) /\ Advanced(t, queue, g)
        /\ Unswitched \/ Switched
        /\ MoreEvents
    BY <1>1, <2>1, <2>2, <2>3, MakeRoomAdvances
  <2>5. PICK g : Line(queue, g, writes + 1) /\ Advanced(t, queue, g)
    BY <2>4
  <2>6. Order(writers', thread', writes + 1) /\ Quiet' /\ acked' = acked
        /\ promised' = promised
    BY <1>1, <2>1, <2>5, AdvancedOrders
  <2>7. Quiet
    BY <1>3, <2>1 DEF Quiet, WritingPcs, Busy
  <2> QED BY <2>4, <2>6, <2>7, QuietIsSteady DEF ClientStep, QueueInv
<1>9. CASE writers # << >>
  <2> DEFINE r == [s EXCEPT !.pc = "queued"]
  <2>1. n > 0 /\ 1 \in 1 .. n
    <3>1. n # 0
      BY <1>2, <1>9, EmptySeqIs
    <3> QED BY <1>2, <3>1
  <2>2. r \in Thread /\ r.id = s.id /\ r.pc = "queued"
    BY DEF Thread
  <2>3. /\ writers' = queue /\ thread' = [thread EXCEPT ![t] = r]
        /\ UNCHANGED <<logs, state, scheduled, events, acked, promised>>
    BY <1>9 DEF Enter, queue
  <2> HIDE DEF r
  <2>4. Line(queue, thread', writes + 1)
    BY <1>7, <2>2, <2>3
  <2>5. /\ \A u \in Threads : u # t => thread'[u] = thread[u]
        /\ thread'[t] = r
    BY <1>2, <2>3
  <2>6. \A i \in 1 .. n : writers'[i] = writers[i] /\ thread'[writers'[i]] = thread[writers[i]]
                          /\ i \in 1 .. n + 1
    BY <1>2, <1>4, <1>5, <2>3, <2>5
  <2>7. \A u \in Threads : Grouped(queue, thread', u)
    <3> SUFFICES ASSUME NEW u \in Threads, thread'[u].pc \in WritingPcs
                 PROVE  /\ thread'[u].group \in 1 .. n + 1
                        /\ \A i \in 1 .. thread'[u].group :
                             thread'[queue[i]].sync => thread'[u].sync
      BY <1>5 DEF Grouped
    <3>1. u # t
      BY <2>2, <2>5 DEF WritingPcs, Busy
    <3>2. /\ thread[u].group \in 1 .. n /\ thread'[u] = thread[u]
          /\ \A i \in 1 .. thread[u].group : thread[writers[i]].sync => thread[u].sync
      BY <2>5, <3>1 DEF QueueInv, Order, Grouped
    <3>3. \A i \in 1 .. thread[u].group : i \in 1 .. n /\ thread[u].group \in 1 .. n + 1
      BY <1>2, <3>2
    <3>4. thread[u].group \in 1 .. n + 1
      BY <1>2, <3>2
    <3> QED BY <2>3, <2>6, <3>2, <3>3, <3>4
  <2>8. thread'[queue[1]].pc \in Leading \cup WritingPcs
    BY <2>1, <2>3, <2>6 DEF QueueInv, Order
  <2>9. Order(queue, thread', writes + 1)
    BY <2>4, <2>7, <2>8 DEF Order
  <2>10. Steady
    <3> SUFFICES ASSUME NEW u \in Threads, thread[u].pc \in Busy \/ thread'[u].pc \in Busy
                 PROVE  thread'[u] = thread[u] /\ GroupEntries(u)' = GroupEntries(u)
      BY DEF Steady
    <3>1. u # t
      BY <2>2, <2>5 DEF Busy
    <3>2. thread'[u] = thread[u] /\ thread[u].pc \in WritingPcs
      BY <2>5, <3>1 DEF WritingPcs
    <3>3. thread[u].group \in 1 .. n
      BY <3>2 DEF QueueInv, Order, Grouped
    <3>4. \A i \in 1 .. thread[u].group : i \in 1 .. n
      BY <1>2, <3>3
    <3>5. /\ thread'[u].group = thread[u].group /\ lastSeq' = lastSeq
          /\ \A i \in 1 .. thread[u].group : thread'[writers'[i]].id = thread[writers[i]].id
      BY <2>3, <2>6, <3>2, <3>4 DEF state
    <3> QED BY <3>2, <3>5, SameGroup
  <2>11. Unswitched /\ MoreEvents
    BY <1>1, <2>3 DEF Unswitched, MoreEvents
  <2>12. QueueInv'
    BY <2>3, <2>9 DEF QueueInv
  <2> QED BY <2>3, <2>10, <2>11, <2>12 DEF ClientStep
<1> QED BY <1>8, <1>9

(* Signals move only those that wait.                                      *)
LEMMA SignalIs ==
  ASSUME NEW threads \in [Threads -> Thread]
  PROVE  /\ SignalAll(threads) \in [Threads -> Thread]
         /\ \A u \in Threads :
              LET s == SignalAll(threads)[u] IN
              /\ s.id = threads[u].id /\ s.sync = threads[u].sync
              /\ s.group = threads[u].group
              /\ threads[u].pc = "wait" => s.pc = "woken"
              /\ threads[u].pc = "waitImm" => s.pc = "wokenImm"
              /\ threads[u].pc \notin {"wait", "waitImm"} => s = threads[u]
<1>1. SignalAll(threads) = [u \in Threads |->
        [threads[u] EXCEPT !.pc = IF threads[u].pc = "wait" THEN "woken"
                                  ELSE IF threads[u].pc = "waitImm" THEN "wokenImm"
                                  ELSE threads[u].pc]]
  BY DEF SignalAll
<1>2. ASSUME NEW u \in Threads
      PROVE  LET s == SignalAll(threads)[u] IN
              /\ s \in Thread
              /\ s.id = threads[u].id /\ s.sync = threads[u].sync
              /\ s.group = threads[u].group
              /\ threads[u].pc = "wait" => s.pc = "woken"
              /\ threads[u].pc = "waitImm" => s.pc = "wokenImm"
              /\ threads[u].pc \notin {"wait", "waitImm"} => s = threads[u]
  <2> DEFINE p == IF threads[u].pc = "wait" THEN "woken"
                  ELSE IF threads[u].pc = "waitImm" THEN "wokenImm"
                  ELSE threads[u].pc
             s == [threads[u] EXCEPT !.pc = p]
  <2>1. SignalAll(threads)[u] = s
    BY <1>1
  <2>2. /\ threads[u] \in Thread
        /\ threads[u].pc = "wait" => p = "woken"
        /\ threads[u].pc = "waitImm" => p = "wokenImm"
        /\ threads[u].pc \notin {"wait", "waitImm"} => p = threads[u].pc
    OBVIOUS
  <2>3. p \in {"idle", "queued", "front", "delay", "wait", "woken", "append",
               "sync", "insert", "finish", "waitImm", "wokenImm"}
    BY <2>2 DEF Thread
  <2> HIDE DEF p
  <2>4. /\ s \in Thread /\ s.pc = p
        /\ s.id = threads[u].id /\ s.sync = threads[u].sync
        /\ s.group = threads[u].group
        /\ p = threads[u].pc => s = threads[u]
    BY <2>2, <2>3 DEF Thread
  <2> HIDE DEF s
  <2> QED BY <2>1, <2>2, <2>4
<1>3. \A u \in Threads : SignalAll(threads)[u] \in Thread
  BY <1>2
<1>4. SignalAll(threads) \in [Threads -> Thread]
  BY <1>1, <1>3
<1> QED BY <1>2, <1>4

LEMMA SignalOrders ==
  ASSUME NEW queue, NEW threads, NEW w \in Nat, Line(queue, threads, w)
  PROVE  /\ Line(queue, SignalAll(threads), w)
         /\ Order(queue, threads, w) => Order(queue, SignalAll(threads), w)
<1> DEFINE f == SignalAll(threads)
<1>1. threads \in [Threads -> Thread] /\ Len(queue) \in Nat
      /\ \A i \in 1 .. Len(queue) : queue[i] \in Threads
  BY LineIs DEF Line
<1>2. /\ f \in [Threads -> Thread]
      /\ \A u \in Threads :
              /\ f[u].id = threads[u].id /\ f[u].sync = threads[u].sync
              /\ f[u].group = threads[u].group
              /\ threads[u].pc = "wait" => f[u].pc = "woken"
              /\ threads[u].pc = "waitImm" => f[u].pc = "wokenImm"
              /\ threads[u].pc \notin {"wait", "waitImm"} => f[u] = threads[u]
  BY <1>1, SignalIs
<1> HIDE DEF f
<1>3. \A i \in 2 .. Len(queue) : f[queue[i]].pc = "queued"
  <2> SUFFICES ASSUME NEW i \in 2 .. Len(queue) PROVE f[queue[i]].pc = "queued"
    OBVIOUS
  <2>1. threads[queue[i]].pc = "queued" /\ queue[i] \in Threads
    BY <1>1 DEF Line
  <2> QED BY <1>2, <2>1
<1>4. ASSUME NEW u \in Threads, \A i \in 1 .. Len(queue) : queue[i] # u
      PROVE  f[u].pc \in Outside
  <2>1. threads[u].pc \in Outside
    BY <1>4 DEF Line
  <2> QED BY <1>2, <2>1 DEF Outside
<1>5. \A u \in Threads : f[u].id <= w
  BY <1>2 DEF Line
<1>6. Line(queue, f, w)
  BY <1>2, <1>3, <1>4, <1>5 DEF Line
<1>7. ASSUME Order(queue, threads, w) PROVE Order(queue, f, w)
  <2>1. ASSUME Len(queue) > 0 PROVE f[queue[1]].pc \in Leading \cup WritingPcs
    <3>1. 1 \in 1 .. Len(queue)
      BY <1>1, <2>1
    <3>2. threads[queue[1]].pc \in Leading \cup WritingPcs /\ queue[1] \in Threads
      BY <1>1, <1>7, <2>1, <3>1 DEF Order
    <3> QED BY <1>2, <3>2 DEF Leading, WritingPcs, Busy
  <2>2. ASSUME NEW u \in Threads PROVE Grouped(queue, f, u)
    <3> SUFFICES ASSUME f[u].pc \in WritingPcs
                 PROVE  /\ f[u].group \in 1 .. Len(queue)
                        /\ \A i \in 1 .. f[u].group : f[queue[i]].sync => f[u].sync
      BY DEF Grouped
    <3>1. threads[u].pc \in WritingPcs
      BY <1>2 DEF WritingPcs, Busy
    <3>2. /\ threads[u].group \in 1 .. Len(queue)
          /\ \A i \in 1 .. threads[u].group : threads[queue[i]].sync => threads[u].sync
      BY <1>7, <3>1 DEF Order, Grouped
    <3>3. \A i \in 1 .. threads[u].group : queue[i] \in Threads
      BY <1>1, <3>2
    <3> QED BY <1>2, <3>2, <3>3
  <2> QED BY <1>6, <2>1, <2>2 DEF Order
<1> QED BY <1>6, <1>7 DEF f

(* The background thread may signal.                                       *)
LEMMA SignalSteps ==
  ASSUME TypeInv, QueueInv, writers' = writers, writes' = writes, lastSeq' = lastSeq,
         thread' = thread \/ thread' = SignalAll(thread)
  PROVE  QueueInv' /\ Steady
<1>1. Line(writers, thread, writes) /\ writes \in Nat
  BY DEF QueueInv, Order, TypeInv, PastType
<1>2. thread \in [Threads -> Thread] /\ \A i \in 1 .. Len(writers) : writers[i] \in Threads
      /\ Len(writers) \in Nat
  BY <1>1, LineIs DEF Line
<1>3. Order(writers, thread', writes)
  BY <1>1, SignalOrders DEF QueueInv
<1>4. ASSUME NEW u \in Threads
      PROVE  /\ thread'[u].id = thread[u].id /\ thread'[u].group = thread[u].group
             /\ thread[u].pc \in Busy \/ thread'[u].pc \in Busy => thread'[u] = thread[u]
  <2>1. CASE thread' = thread
    BY <2>1
  <2>2. CASE thread' = SignalAll(thread)
    <3>1. /\ thread'[u].id = thread[u].id /\ thread'[u].group = thread[u].group
          /\ thread[u].pc = "wait" => thread'[u].pc = "woken"
          /\ thread[u].pc = "waitImm" => thread'[u].pc = "wokenImm"
          /\ thread[u].pc \notin {"wait", "waitImm"} => thread'[u] = thread[u]
      BY <1>2, <2>2, SignalIs
    <3> QED BY <3>1 DEF Busy
  <2> QED BY <2>1, <2>2
<1>5. ASSUME NEW u \in Threads, thread[u].pc \in Busy \/ thread'[u].pc \in Busy
      PROVE  thread'[u] = thread[u] /\ GroupEntries(u)' = GroupEntries(u)
  <2>1. thread'[u] = thread[u] /\ thread[u].pc \in WritingPcs
    BY <1>4, <1>5 DEF WritingPcs
  <2>2. thread[u].group \in 1 .. Len(writers)
    BY <2>1 DEF QueueInv, Order, Grouped
  <2>3. \A i \in 1 .. thread[u].group : writers[i] \in Threads
    BY <1>2, <2>2
  <2>4. \A i \in 1 .. thread[u].group : thread'[writers'[i]].id = thread[writers[i]].id
    BY <1>4, <2>3
  <2> QED BY <1>4, <2>1, <2>4, SameGroup
<1> QED BY <1>3, <1>5 DEF QueueInv, Steady

LEMMA WaitForImmSteps ==
  ASSUME TypeInv, QueueInv, NEW t \in Threads, WaitForImm(t)
  PROVE  QueueInv' /\ Steady
<1>1. Line(writers, thread, writes) /\ writes \in Nat /\ lastSeq' = lastSeq
      /\ writers' = writers /\ writes' = writes
  BY DEF QueueInv, Order, TypeInv, PastType, WaitForImm, state
<1>2. /\ thread \in [Threads -> Thread] /\ Len(writers) \in Nat
      /\ \A i \in 1 .. Len(writers) : writers[i] \in Threads
      /\ thread[t].pc = "wokenImm" /\ thread[t] \in Thread
  BY <1>1, LineIs DEF Line, WaitForImm
<1>3. PICK s \in Thread : /\ thread' = [thread EXCEPT ![t] = s]
                          /\ s.pc \in {"waitImm", "idle"} /\ s.id <= writes
  <2>1. CASE thread' = [thread EXCEPT ![t] = [@ EXCEPT !.pc = "waitImm"]]
    <3> DEFINE s == [thread[t] EXCEPT !.pc = "waitImm"]
    <3>1. s \in Thread /\ s.pc = "waitImm" /\ s.id = thread[t].id
      BY <1>2 DEF Thread
    <3>2. thread' = [thread EXCEPT ![t] = s]
      BY <2>1
    <3> HIDE DEF s
    <3>3. s.id <= writes
      BY <1>1, <3>1 DEF Line
    <3> QED BY <3>1, <3>2, <3>3
  <2>2. CASE thread' = [thread EXCEPT ![t] = Resting]
    <3>1. Resting.id <= writes
      BY <1>1, ThreadIs
    <3> QED BY <2>2, <3>1, ThreadIs
  <2> QED BY <2>1, <2>2 DEF WaitForImm
<1>4. /\ thread' \in [Threads -> Thread] /\ thread'[t] = s
      /\ \A u \in Threads : u # t => thread'[u] = thread[u]
  BY <1>2, <1>3
<1>5. ASSUME NEW i \in 1 .. Len(writers) PROVE writers[i] # t
  <2>1. CASE i = 1
    BY <1>2, <2>1 DEF QueueInv, Order, Leading, WritingPcs, Busy
  <2>2. CASE i # 1
    <3>1. i \in 2 .. Len(writers)
      BY <1>2, <2>2
    <3>2. thread[writers[i]].pc = "queued"
      BY <1>1, <3>1 DEF Line
    <3> QED BY <1>2, <3>2
  <2> QED BY <2>1, <2>2
<1>6. \A i \in 1 .. Len(writers) : thread'[writers[i]] = thread[writers[i]]
  BY <1>2, <1>4, <1>5
<1>7. Line(writers, thread', writes)
  <2>1. ASSUME NEW i \in 2 .. Len(writers) PROVE thread'[writers[i]].pc = "queued"
    <3>1. i \in 1 .. Len(writers)
      BY <1>2
    <3> QED BY <1>1, <1>6, <3>1 DEF Line
  <2>2. ASSUME NEW u \in Threads, \A i \in 1 .. Len(writers) : writers[i] # u
        PROVE  thread'[u].pc \in Outside
    <3>1. CASE u = t
      BY <1>3, <1>4, <3>1 DEF Outside
    <3>2. CASE u # t
      BY <1>1, <1>4, <2>2, <3>2 DEF Line
    <3> QED BY <3>1, <3>2
  <2>3. \A u \in Threads : thread'[u].id <= writes
    BY <1>1, <1>3, <1>4 DEF Line
  <2> QED BY <1>1, <1>4, <2>1, <2>2, <2>3 DEF Line
<1>8. ASSUME NEW u \in Threads, thread[u].pc \in WritingPcs \/ thread'[u].pc \in WritingPcs
      PROVE  /\ u # t /\ thread'[u] = thread[u] /\ thread[u].pc \in WritingPcs
             /\ thread[u].group \in 1 .. Len(writers)
             /\ \A i \in 1 .. thread[u].group : i \in 1 .. Len(writers)
  <2>1. u # t
    BY <1>2, <1>3, <1>4, <1>8 DEF WritingPcs, Busy
  <2>2. thread'[u] = thread[u] /\ thread[u].pc \in WritingPcs
    BY <1>4, <1>8, <2>1
  <2>3. thread[u].group \in 1 .. Len(writers)
    BY <2>2 DEF QueueInv, Order, Grouped
  <2>4. \A i \in 1 .. thread[u].group : i \in 1 .. Len(writers)
    BY <1>2, <2>3
  <2> QED BY <2>1, <2>2, <2>3, <2>4
<1>9. ASSUME NEW u \in Threads PROVE Grouped(writers, thread', u)
  <2> SUFFICES ASSUME thread'[u].pc \in WritingPcs
               PROVE  /\ thread'[u].group \in 1 .. Len(writers)
                      /\ \A i \in 1 .. thread'[u].group :
                           thread'[writers[i]].sync => thread'[u].sync
    BY DEF Grouped
  <2>1. /\ thread'[u] = thread[u] /\ thread[u].pc \in WritingPcs
        /\ thread[u].group \in 1 .. Len(writers)
        /\ \A i \in 1 .. thread[u].group : i \in 1 .. Len(writers)
    BY <1>8
  <2>2. \A i \in 1 .. thread[u].group : thread[writers[i]].sync => thread[u].sync
    BY <2>1 DEF QueueInv, Order, Grouped
  <2> QED BY <1>6, <2>1, <2>2
<1>10. ASSUME Len(writers) > 0 PROVE thread'[writers[1]].pc \in Leading \cup WritingPcs
  <2>1. 1 \in 1 .. Len(writers)
    BY <1>2, <1>10
  <2> QED BY <1>6, <1>10, <2>1 DEF QueueInv, Order
<1>11. Order(writers, thread', writes)
  BY <1>7, <1>9, <1>10 DEF Order
<1>12. ASSUME NEW u \in Threads, thread[u].pc \in Busy \/ thread'[u].pc \in Busy
       PROVE  thread'[u] = thread[u] /\ GroupEntries(u)' = GroupEntries(u)
  <2>1. /\ thread'[u] = thread[u]
        /\ \A i \in 1 .. thread[u].group : i \in 1 .. Len(writers)
    BY <1>8, <1>12 DEF WritingPcs
  <2>2. \A i \in 1 .. thread[u].group : thread'[writers'[i]].id = thread[writers[i]].id
    BY <1>1, <1>6, <2>1
  <2> QED BY <1>1, <2>1, <2>2, SameGroup
<1> QED BY <1>1, <1>11, <1>12 DEF QueueInv, Steady

-----------------------------------------------------------------------------
(* What depends on what: each part of the invariant, when the variables it *)
(* reads stay as they are.                                                 *)

LEMMA FrameSeq ==
  ASSUME SeqInv, Steady,
         UNCHANGED <<phase, mem, imm, logs, tables, manifest, version, lastSeq>>
  PROVE  SeqInv'
<1>1. ASSUME NEW pcs \in SUBSET Busy PROVE Current(pcs)' = Current(pcs)
  <2>1. \A u \in Threads : thread'[u].pc \in pcs \/ thread[u].pc \in pcs
          => thread'[u] = thread[u] /\ GroupEntries(u)' = GroupEntries(u)
    BY DEF Steady
  <2> QED BY <2>1 DEF Current
<1>2. {"finish"} \in SUBSET Busy /\ {"sync", "insert", "finish"} \in SUBSET Busy
  BY DEF Busy
<1>3. /\ Current({"finish"})' = Current({"finish"})
      /\ Current({"sync", "insert", "finish"})' = Current({"sync", "insert", "finish"})
  BY <1>1, <1>2
<1>4. /\ Known' = Known /\ Recoverable(logs)' = Recoverable(logs) /\ Flushed' = Flushed
      /\ InLogs(logs, version.log)' = InLogs(logs, version.log)
      /\ (Running <=> Running')
  BY DEF Known, Recoverable, Flushed, InLogs, Records, Content, Files, Running
<1>5. Unique(Known)' <=> Unique(Known)
  BY <1>4 DEF Unique
<1>6. Unique(Recoverable(logs))' <=> Unique(Recoverable(logs))
  BY <1>4 DEF Unique
<1> QED BY <1>3, <1>4, <1>5, <1>6 DEF SeqInv

LEMMA FrameSafe ==
  ASSUME SafeInv, UNCHANGED <<phase, mem, imm, logs, tables, manifest, version, lastSeq,
                              log, acked, promised, risky>>
  PROVE  SafeInv'
<1>1. /\ Recoverable(logs)' = Recoverable(logs)
      /\ Recoverable(Synced(logs))' = Recoverable(Synced(logs))
      /\ Content(Files(version))' = Content(Files(version))
      /\ (Running <=> Running')
  BY DEF Recoverable, Synced, Records, Content, Files, Running
<1>2. /\ Flushed' = Flushed /\ InLogs(logs, version.log)' = InLogs(logs, version.log)
      /\ InLogs(Synced(logs), version.log)' = InLogs(Synced(logs), version.log)
      /\ Records(Synced(logs)[log])' = Records(Synced(logs)[log])
      /\ Records(logs[log])' = Records(logs[log])
      /\ Firm(mem)' = Firm(mem) /\ Firm(Flushed)' = Firm(Flushed)
  BY DEF Flushed, InLogs, Records, Synced, Firm
<1>3. \A id : Durable(id)' <=> Durable(id)
  BY <1>1, <1>2 DEF Durable
<1>4. (SyncedSurvive' <=> SyncedSurvive) /\ (AckedSurvive' <=> AckedSurvive)
  BY <1>1 DEF SyncedSurvive, AckedSurvive
<1>5. Visible(mem \cup Flushed \cup Content(Files(version)), lastSeq)'
        = Visible(mem \cup Flushed \cup Content(Files(version)), lastSeq)
  BY <1>1, <1>2 DEF Visible
<1> QED BY <1>1, <1>2, <1>3, <1>4, <1>5 DEF SafeInv

LEMMA GroupOfLog ==
  ASSUME GroupInv, Steady, UNCHANGED <<mem, log, risky>>,
         Records(logs'[log]) = Records(logs[log]),
         Records(Synced(logs')[log]) = Records(Synced(logs)[log])
  PROVE  GroupInv'
<1> SUFFICES ASSUME NEW t \in Threads, thread'[t].pc \in Busy
             PROVE  (/\ thread[t].pc \in {"sync", "insert"} \/ (thread[t].pc = "finish" /\ thread[t].ok)
                          => Firm(GroupEntries(t)) \subseteq Records(logs[log])
                     /\ thread[t].pc = "insert" /\ thread[t].sync
                          => Firm(GroupEntries(t)) \subseteq Records(Synced(logs)[log])
                     /\ thread[t].pc = "finish" /\ thread[t].ok /\ thread[t].sync
                          => Firm(GroupEntries(t)) \subseteq Records(Synced(logs)[log])
                     /\ thread[t].pc = "finish" /\ thread[t].ok => GroupEntries(t) \subseteq mem)'
  BY DEF GroupInv, Busy
<1>1. thread'[t] = thread[t] /\ GroupEntries(t)' = GroupEntries(t)
  BY DEF Steady
<1>2. /\ Firm(GroupEntries(t))' = Firm(GroupEntries(t))
      /\ Records(logs[log])' = Records(logs[log])
      /\ Records(Synced(logs)[log])' = Records(Synced(logs)[log])
  BY <1>1 DEF Firm
<1> QED BY <1>1, <1>2 DEF GroupInv

LEMMA FrameGroup ==
  ASSUME GroupInv, Steady, UNCHANGED <<mem, logs, log, risky>>
  PROVE  GroupInv'
<1>1. /\ Records(logs'[log]) = Records(logs[log])
      /\ Records(Synced(logs')[log]) = Records(Synced(logs)[log])
  OBVIOUS
<1> QED BY <1>1, GroupOfLog

LEMMA FrameDisk ==
  ASSUME DiskInv, UNCHANGED <<manifest, tables>>
  PROVE  DiskInv'
BY DEF DiskInv, Files, Content

LEMMA FrameNumbers ==
  ASSUME TypeInv, NumbersInv, UNCHANGED <<phase, manifest, tables, version>>,
         next' \in Nat, next <= next', lastSeq' \in Nat, lastSeq <= lastSeq'
  PROVE  NumbersInv'
<1>1. next \in Nat /\ lastSeq \in Nat /\ manifest.next \in Nat /\ manifest.seq \in Nat
      /\ Files(version) \subseteq Nat
  BY DEF TypeInv, StateType, Snapshot, Version, Files
<1>2. Files(version)' = Files(version)
  BY DEF Files
<1> SUFFICES ASSUME phase # "closed"
             PROVE  /\ manifest.next <= next' /\ manifest.seq <= lastSeq'
                    /\ Files(version) \subseteq DOMAIN tables
                    /\ \A n \in Files(version) : n < next'
  BY <1>2 DEF NumbersInv
<1> QED BY <1>1 DEF NumbersInv

LEMMA FrameVersion ==
  ASSUME VersionInv, UNCHANGED <<phase, manifest, tables, version, imm, log, bg>>,
         DOMAIN logs' = DOMAIN logs, bgError => bgError',
         next \in Nat, next' \in Nat, next <= next', DOMAIN logs \subseteq Nat
  PROVE  VersionInv'
<1>1. /\ Files(version)' = Files(version) /\ Flushed' = Flushed
      /\ Content(Files(version))' = Content(Files(version))
      /\ Content(Files(manifest))' = Content(Files(manifest))
      /\ Edited(version)' = Edited(version)
  BY DEF Files, Content, Flushed, Edited
<1>2. (\A n \in DOMAIN logs : n < next) => \A n \in DOMAIN logs : n < next'
  OBVIOUS
<1>3. SameFiles(manifest, IF bg.pc = "install" THEN Edited(version) ELSE version)'
        <=> SameFiles(manifest, IF bg.pc = "install" THEN Edited(version) ELSE version)
  BY <1>1 DEF SameFiles
<1> QED BY <1>1, <1>2, <1>3 DEF VersionInv, Running

LEMMA FrameBg ==
  ASSUME TypeInv, BgInv, UNCHANGED <<bg, version, manifest, reader, pending>>,
         bg.flushing => imm' # {}, next' \in Nat, next <= next'
  PROVE  BgInv'
<1>1. /\ Files(version)' = Files(version) /\ (Unbuilt' <=> Unbuilt)
      /\ \A n : Fresh(n)' <=> Fresh(n)
  BY DEF Files, Unbuilt, Fresh
<1>2. /\ next \in Nat /\ bg.output \in Nat /\ bg.out \in Nat
  BY DEF TypeInv, StateType, BgType, Background
<1>3. /\ bg.output < next => bg.output < next'
      /\ bg.out < next => bg.out < next'
  BY <1>2
<1> QED BY <1>1, <1>3 DEF BgInv

LEMMA FrameEdit ==
  ASSUME TypeInv, EditInv, UNCHANGED <<bg, version, manifest>>,
         bg.pc \in {"log", "install"} =>
           /\ bg.flushing => log' = log /\ imm' = imm
           /\ \A n \in DOMAIN tables : n \in DOMAIN tables' /\ tables'[n] = tables[n]
           /\ bg.inputs \subseteq DOMAIN tables,
         next' \in Nat, next <= next', lastSeq' \in Nat, lastSeq <= lastSeq'
  PROVE  EditInv'
<1> SUFFICES ASSUME bg.pc \in {"log", "install"} PROVE EditInv'
  BY DEF EditInv
<1>1. /\ next \in Nat /\ lastSeq \in Nat /\ bg.edit.next \in Nat /\ bg.edit.seq \in Nat
  BY DEF TypeInv, StateType, BgType, Background, Edit
<1>2. /\ bg.edit.next <= next => bg.edit.next <= next'
      /\ bg.edit.seq <= lastSeq => bg.edit.seq <= lastSeq'
  BY <1>1
<1>3. Content(bg.inputs)' = Content(bg.inputs)
  BY DEF Content
<1>4. bg.flushing => Flushed' = Flushed
  BY DEF Flushed
<1>5. /\ manifest.next <= bg.edit.next /\ bg.edit.next <= next'
      /\ manifest.seq <= bg.edit.seq /\ bg.edit.seq <= lastSeq'
      /\ bg.edit.log = (IF bg.flushing THEN log' ELSE version.log)
      /\ bg.edit.log < bg.edit.next
  BY <1>2 DEF EditInv
<1>6. bg.flushing =>
         /\ bg.out < bg.edit.next
         /\ \A e \in Flushed' : e.seq <= bg.edit.seq
         /\ imm' # {{}} => bg.out \in DOMAIN tables' /\ tables'[bg.out] = Flushed'
  BY <1>4 DEF EditInv
<1>7. ~bg.flushing =>
         /\ bg.output # 0 /\ bg.output < bg.edit.next
         /\ bg.output \in DOMAIN tables' /\ tables'[bg.output] = Content(bg.inputs)'
  BY <1>3 DEF EditInv
<1>8. bg.pc = "install" =>
         /\ manifest.log = bg.edit.log
         /\ bg.flushing /\ imm' # {{}} => bg.out \in manifest.l0
  BY DEF EditInv
<1> QED BY <1>5, <1>6, <1>7, <1>8 DEF EditInv

LEMMA FrameReader ==
  ASSUME TypeInv, ReaderInv, reader' = reader, phase' = phase,
         next' \in Nat, next <= next',
         reader.on => \A n \in reader.files : n \in DOMAIN tables =>
                        n \in DOMAIN tables' /\ tables'[n] = tables[n]
  PROVE  ReaderInv'
<1> SUFFICES ASSUME reader.on
             PROVE  /\ phase = "open" /\ \A n \in reader.files : n < next'
                    /\ GetsSeeTheirSnapshot'
  BY DEF ReaderInv
<1>1. /\ phase = "open" /\ (\A n \in reader.files : n < next)
      /\ reader.files \subseteq DOMAIN tables
      /\ Visible(reader.mem \cup Content(reader.files), reader.snapshot) = reader.expect
  BY DEF ReaderInv, GetsSeeTheirSnapshot
<1>2. reader.files \subseteq Nat /\ next \in Nat
  BY DEF TypeInv, ReaderType, StateType
<1>3. \A n \in reader.files : n < next'
  BY <1>1, <1>2
<1>4. Content(reader.files)' = Content(reader.files)
  BY <1>1 DEF Content
<1> QED BY <1>1, <1>3, <1>4 DEF GetsSeeTheirSnapshot, Visible

LEMMA FrameOpen ==
  ASSUME phase = "open", phase' = phase
  PROVE  RestInv' /\ ReplayInv'
BY DEF RestInv, ReplayInv

(* Before a database is open, no thread and nothing in the background runs.*)
LEMMA AtRest ==
  ASSUME TypeInv', RestInv', phase' # "open"
  PROVE  QueueInv' /\ BgInv' /\ EditInv' /\ GroupInv' /\ ReaderInv'
<1>1. /\ mem' = {} /\ imm' = {} /\ pending' = {} /\ reader' = Idle
      /\ writers' = << >> /\ thread' = [t \in Threads |-> Resting] /\ bg' = BgIdle
  BY DEF RestInv
<1>2. Len(writers') = 0 /\ writers' \in Seq(Threads) /\ writes' \in Nat
  BY <1>1 DEF TypeInv, PastType
<1>3. /\ thread' \in [Threads -> Thread]
      /\ \A t \in Threads : thread'[t].pc = "idle" /\ thread'[t].id = 0
  BY <1>1, ThreadIs
<1>4. \A t \in Threads : thread'[t].id <= writes'
  BY <1>2, <1>3
<1>5. Line(writers', thread', writes')
  BY <1>2, <1>3, <1>4 DEF Line, Outside
<1>6. QueueInv'
  BY <1>2, <1>3, <1>5 DEF QueueInv, Order, Grouped, WritingPcs, Busy
<1>7. GroupInv'
  BY <1>3 DEF GroupInv
<1>8. /\ bg'.pc = "idle" /\ ~bg'.flushing /\ ~bg'.merging /\ bg'.inputs = {}
      /\ bg'.output = 0 /\ bg'.out = 0
  BY <1>1 DEF BgIdle
<1>9. BgInv' /\ EditInv'
  BY <1>1, <1>8 DEF BgInv, EditInv, Unbuilt
<1>10. ReaderInv'
  BY <1>1 DEF ReaderInv, Idle
<1> QED BY <1>6, <1>7, <1>9, <1>10

-----------------------------------------------------------------------------
(* The steps of a client.                                                  *)

LEMMA StillKeeps ==
  ASSUME Inv, phase = "open", ClientStep, Unswitched,
         writes' \in Nat, writes <= writes', UNCHANGED Unwritten
  PROVE  Inv'
<1>1. /\ UNCHANGED <<logs, tables, manifest, phase, mem, imm, log, version, next, lastSeq,
                     pending, bgError, shutting, bg, opening, reader, risky, acked, promised>>
      /\ events' \in Nat /\ scheduled' \in BOOLEAN /\ (scheduled => scheduled')
      /\ Steady /\ QueueInv'
  BY DEF ClientStep, Unswitched, Unwritten, MoreEvents, state
<1>2. TypeInv
  BY DEF Inv
<1>3. TypeInv'
  <2>1. LogsType' /\ TablesType'
    <3>1. LogsType /\ TablesType /\ logs' = logs /\ tables' = tables
      BY <1>1, <1>2 DEF TypeInv
    <3>2. LogsType'
      BY ONLY <3>1 DEF LogsType
    <3> QED BY <3>1, <3>2 DEF TablesType
  <2>2. MemType' /\ StateType' /\ OpeningType' /\ ReaderType'
    BY <1>1, <1>2 DEF TypeInv, MemType, StateType, OpeningType, ReaderType
  <2>3. FlagsType'
    BY <1>1, <1>2 DEF TypeInv, FlagsType
  <2>4. BgType'
    BY <1>1, <1>2 DEF TypeInv, BgType
  <2>5. PastType'
    <3>1. writes \in Nat /\ promised \subseteq 1 .. writes
      BY <1>2 DEF TypeInv, PastType
    <3>2. promised \subseteq 1 .. writes'
      BY <3>1
    <3> QED BY <1>1, <1>2, <3>2 DEF TypeInv, PastType
  <2> QED BY <2>1, <2>2, <2>3, <2>4, <2>5 DEF TypeInv
<1>4. /\ next \in Nat /\ lastSeq \in Nat /\ DOMAIN logs \subseteq Nat
      /\ next <= next' /\ lastSeq <= lastSeq' /\ next' \in Nat /\ lastSeq' \in Nat
  BY <1>1, <1>2 DEF TypeInv, StateType, LogsType
<1>5. RestInv' /\ ReplayInv'
  BY <1>1, FrameOpen
<1>6. DiskInv'
  BY <1>1, FrameDisk DEF Inv
<1>7. NumbersInv'
  BY <1>1, <1>4, FrameNumbers DEF Inv
<1>8. VersionInv'
  BY <1>1, <1>4, FrameVersion DEF Inv
<1>9. BgInv'
  <2>1. bg.flushing => imm' # {}
    BY <1>1 DEF Inv, BgInv
  <2> QED BY <1>1, <1>4, <2>1, FrameBg DEF Inv
<1>10. EditInv'
  <2>1. bg.inputs \subseteq DOMAIN tables
    BY DEF Inv, BgInv, NumbersInv
  <2> QED BY <1>1, <1>4, <2>1, FrameEdit DEF Inv
<1>11. SeqInv' /\ SafeInv' /\ GroupInv'
  BY <1>1, FrameSeq, FrameSafe, FrameGroup DEF Inv
<1>12. ReaderInv'
  BY <1>1, <1>4, FrameReader DEF Inv
<1> QED BY <1>1, <1>3, <1>5, <1>6, <1>7, <1>8, <1>9, <1>10, <1>11, <1>12 DEF Inv

(* The empty log that a new memtable gets holds nothing.                   *)
EmptyLog == [recs |-> << >>, synced |-> 0, torn |-> FALSE]

LEMMA EmptyLogIs ==
  /\ EmptyLog \in LogFile /\ EmptyLog.synced <= Len(EmptyLog.recs)
  /\ Records(EmptyLog) = {}
BY DEF EmptyLog, LogFile, Records

LEMMA NewLogHolds ==
  ASSUME NEW lg, NEW n \in Nat, n \notin DOMAIN lg, NEW first \in Nat,
         DOMAIN lg \subseteq Nat
  PROVE  InLogs(With(lg, n, EmptyLog), first) = InLogs(lg, first)
<1> DEFINE g == With(lg, n, EmptyLog)
<1>1. /\ DOMAIN g = DOMAIN lg \cup {n} /\ g[n] = EmptyLog
      /\ \A m \in DOMAIN lg : g[m] = lg[m]
  BY DEF With
<1> HIDE DEF g
<1>2. ASSUME NEW e PROVE e \in InLogs(g, first) <=> e \in InLogs(lg, first)
  <2>1. ASSUME NEW m \in DOMAIN g, m >= first, e \in Records(g[m])
        PROVE  e \in InLogs(lg, first)
    <3>1. m # n
      BY <1>1, <2>1, EmptyLogIs
    <3>2. m \in DOMAIN lg /\ g[m] = lg[m]
      BY <1>1, <3>1
    <3> QED BY <2>1, <3>2 DEF InLogs
  <2>2. ASSUME NEW m \in DOMAIN lg, m >= first, e \in Records(lg[m])
        PROVE  e \in InLogs(g, first)
    <3>1. m \in DOMAIN g /\ g[m] = lg[m]
      BY <1>1
    <3> QED BY <2>2, <3>1 DEF InLogs
  <2>3. e \in InLogs(g, first) => \E m \in DOMAIN g : m >= first /\ e \in Records(g[m])
    BY DEF InLogs
  <2>4. e \in InLogs(lg, first) => \E m \in DOMAIN lg : m >= first /\ e \in Records(lg[m])
    BY DEF InLogs
  <2> QED BY <2>1, <2>2, <2>3, <2>4
<1> QED BY <1>2 DEF g

(* The logs when all that is not synced is gone.                           *)
LEMMA SyncedIs ==
  ASSUME NEW lg, \A n \in DOMAIN lg : lg[n] \in LogFile /\ lg[n].synced <= Len(lg[n].recs)
  PROVE  /\ DOMAIN Synced(lg) = DOMAIN lg
         /\ \A n \in DOMAIN lg :
              /\ Synced(lg)[n] = Truncated(lg[n], lg[n].synced)
              /\ Synced(lg)[n] \in LogFile
              /\ Records(Synced(lg)[n]) \subseteq Records(lg[n])
              /\ Records(Synced(lg)[n]) = UNION {lg[n].recs[i] : i \in 1 .. lg[n].synced}
<1>1. DOMAIN Synced(lg) = DOMAIN lg
      /\ \A n \in DOMAIN lg : Synced(lg)[n] = Truncated(lg[n], lg[n].synced)
  BY DEF Synced
<1>2. ASSUME NEW n \in DOMAIN lg
      PROVE  /\ Truncated(lg[n], lg[n].synced) \in LogFile
             /\ Records(Truncated(lg[n], lg[n].synced)) \subseteq Records(lg[n])
             /\ Records(Truncated(lg[n], lg[n].synced))
                  = UNION {lg[n].recs[i] : i \in 1 .. lg[n].synced}
  <2>1. lg[n] \in LogFile /\ lg[n].synced \in 0 .. Len(lg[n].recs)
    <3>1. lg[n].synced \in Nat /\ Len(lg[n].recs) \in Nat
      BY DEF LogFile
    <3> QED BY <3>1
  <2> QED BY <2>1, CutLog
<1> QED BY <1>1, <1>2

LEMMA SyncedNewLog ==
  ASSUME NEW lg, NEW n \in Nat, n \notin DOMAIN lg,
         \A m \in DOMAIN lg : lg[m] \in LogFile /\ lg[m].synced <= Len(lg[m].recs)
  PROVE  LET g == With(lg, n, EmptyLog) IN
         /\ DOMAIN Synced(g) = DOMAIN lg \cup {n}
         /\ \A m \in DOMAIN lg : Synced(g)[m] = Synced(lg)[m]
<1> DEFINE g == With(lg, n, EmptyLog)
<1>1. /\ DOMAIN g = DOMAIN lg \cup {n}
      /\ \A m \in DOMAIN lg : g[m] = lg[m]
  BY DEF With
<1> HIDE DEF g
<1>2. DOMAIN Synced(g) = DOMAIN lg \cup {n} /\ \A m \in DOMAIN lg : Synced(g)[m] = Synced(lg)[m]
  BY <1>1 DEF Synced
<1> QED BY <1>2 DEF g

(* The edit under way when there is nothing to flush.                      *)
LEMMA SameLogUnflushed ==
  ASSUME Inv, phase = "open", imm = {}, ~bgError
  PROVE  manifest.log = version.log /\ ~bg.flushing
<1>1. ~bg.flushing
  BY DEF Inv, BgInv
<1>2. CASE bg.pc = "install"
  <2>1. manifest.log = bg.edit.log /\ bg.edit.log = version.log
    BY <1>1, <1>2 DEF Inv, EditInv
  <2> QED BY <1>1, <2>1
<1>3. CASE bg.pc # "install"
  BY <1>1, <1>3 DEF Inv, VersionInv, Running, SameFiles
<1> QED BY <1>2, <1>3

(* What holds of the numbers and files of a running process.               *)
LEMMA RunningIs ==
  ASSUME Inv
  PROVE  /\ next \in Nat /\ lastSeq \in Nat /\ log \in Nat
         /\ version.log \in Nat /\ manifest.log \in Nat
         /\ manifest.next \in Nat /\ manifest.seq \in Nat
         /\ DOMAIN logs \subseteq Nat /\ DOMAIN tables \subseteq Nat
         /\ Files(version) \subseteq Nat /\ Files(manifest) \subseteq Nat
         /\ \A n \in DOMAIN logs : logs[n] \in LogFile /\ logs[n].synced <= Len(logs[n].recs)
         /\ Running => /\ log \in DOMAIN logs /\ \A n \in DOMAIN logs : n < next
                       /\ version.log <= manifest.log /\ manifest.log <= log
                       /\ manifest.seq <= lastSeq /\ manifest.next <= next
                       /\ Files(version) \subseteq DOMAIN tables
                       /\ \A e \in Content(Files(manifest)) : e.seq <= lastSeq
<1>1. TypeInv /\ VersionInv /\ NumbersInv /\ DiskInv
  BY DEF Inv
<1>2. /\ next \in Nat /\ lastSeq \in Nat /\ log \in Nat
      /\ manifest \in Snapshot /\ version \in Version
  BY <1>1 DEF TypeInv, StateType
<1>3. /\ version.log \in Nat /\ manifest.log \in Nat
      /\ manifest.next \in Nat /\ manifest.seq \in Nat
      /\ Files(version) \subseteq Nat /\ Files(manifest) \subseteq Nat
  BY <1>2 DEF Snapshot, Version, Files
<1>4. /\ DOMAIN logs \subseteq Nat /\ DOMAIN tables \subseteq Nat
      /\ \A n \in DOMAIN logs : logs[n] \in LogFile /\ logs[n].synced <= Len(logs[n].recs)
      /\ \A n \in DOMAIN tables : tables[n] \subseteq Entry
  BY <1>1 DEF TypeInv, LogsType, TablesType
<1>5. ASSUME Running
      PROVE  /\ log \in DOMAIN logs /\ \A n \in DOMAIN logs : n < next
             /\ version.log <= manifest.log /\ manifest.log <= log
             /\ manifest.seq <= lastSeq /\ manifest.next <= next
             /\ Files(version) \subseteq DOMAIN tables
  BY <1>1, <1>5 DEF VersionInv, NumbersInv, Running
<1>6. ASSUME Running, NEW e \in Content(Files(manifest)) PROVE e.seq <= lastSeq
  <2>1. e.seq <= manifest.seq /\ manifest.seq <= lastSeq
    BY <1>1, <1>5, <1>6 DEF DiskInv
  <2>2. e \in Entry
    BY <1>1, <1>4, <1>6 DEF Content, DiskInv
  <2>3. e.seq \in Nat
    BY <2>2, EntryIs
  <2> QED BY <1>2, <1>3, <2>1, <2>3
<1> QED BY <1>2, <1>3, <1>4, <1>5, <1>6

LEMMA SwitchKeeps ==
  ASSUME Inv, phase = "open", ClientStep, Switched, Quiet, Quiet',
         writes' \in Nat, writes <= writes', UNCHANGED Unwritten
  PROVE  Inv'
<1>1. /\ UNCHANGED <<tables, manifest, phase, version, lastSeq, pending, bgError,
                     shutting, bg, opening, reader, risky, acked, promised>>
      /\ events' \in Nat /\ scheduled' \in BOOLEAN /\ (scheduled => scheduled')
      /\ Steady /\ QueueInv' /\ imm = {} /\ ~bgError
      /\ next' = next + 1 /\ log' = next /\ logs' = With(logs, next, EmptyLog)
      /\ imm' = {mem} /\ mem' = {}
  BY DEF ClientStep, Switched, SwitchMemTable, EmptyLog, Unwritten, MoreEvents
<1>2. TypeInv
  BY DEF Inv
<1>r. Running /\ Running'
  BY <1>1 DEF Running
<1>3. /\ next \in Nat /\ lastSeq \in Nat /\ log \in Nat
      /\ version.log \in Nat /\ manifest.log \in Nat
      /\ DOMAIN logs \subseteq Nat
      /\ \A n \in DOMAIN logs : logs[n] \in LogFile /\ logs[n].synced <= Len(logs[n].recs)
      /\ log \in DOMAIN logs /\ \A n \in DOMAIN logs : n < next
      /\ version.log <= manifest.log /\ manifest.log <= log
      /\ \A e \in Content(Files(manifest)) : e.seq <= lastSeq
  BY <1>r, RunningIs
<1>4. next \notin DOMAIN logs /\ next' \in Nat /\ next <= next' /\ log < next
      /\ lastSeq' \in Nat /\ lastSeq <= lastSeq'
  <2>1. ~(next < next)
    BY <1>3
  <2> QED BY <1>1, <1>3, <2>1
<1>5. /\ DOMAIN logs' = DOMAIN logs \cup {next} /\ logs'[next] = EmptyLog
      /\ \A n \in DOMAIN logs : logs'[n] = logs[n]
  BY <1>1, <1>4 DEF With
<1>6. manifest.log = version.log /\ ~bg.flushing
  BY <1>1, SameLogUnflushed
<1>7. InLogs(logs', version.log) = InLogs(logs, version.log)
  BY <1>1, <1>3, <1>4, NewLogHolds
<1>8. Flushed' = mem /\ Flushed = {}
  BY <1>1 DEF Flushed
<1>9. TypeInv'
  <2>1. LogsType'
    <3>1. PICK b \in Nat : \A n \in DOMAIN logs : \A e \in Records(logs[n]) : e.seq <= b
      BY <1>2 DEF TypeInv, LogsType
    <3>2. \A n \in DOMAIN logs' : \A e \in Records(logs'[n]) : e.seq <= b
      BY <1>5, <3>1, EmptyLogIs
    <3>3. \A n \in DOMAIN logs' : logs'[n] \in LogFile /\ logs'[n].synced <= Len(logs'[n].recs)
      BY <1>3, <1>5, EmptyLogIs
    <3>4. DOMAIN logs' \subseteq Nat
      BY <1>3, <1>5
    <3> QED BY <3>2, <3>3, <3>4 DEF LogsType
  <2>2. TablesType' /\ OpeningType' /\ ReaderType'
    BY <1>1, <1>2 DEF TypeInv, TablesType, OpeningType, ReaderType
  <2>3. MemType'
    BY <1>1, <1>2 DEF TypeInv, MemType
  <2>4. StateType'
    <3>1. pending \subseteq 1 .. next - 1
      BY <1>2 DEF TypeInv, StateType
    <3>2. pending \subseteq 1 .. next' - 1
      BY <1>1, <1>3, <3>1
    <3>3. next' > 0
      BY <1>1, <1>3
    <3> QED BY <1>1, <1>2, <1>4, <3>2, <3>3 DEF TypeInv, StateType
  <2>5. FlagsType'
    BY <1>1, <1>2 DEF TypeInv, FlagsType
  <2>6. BgType'
    BY <1>1, <1>2 DEF TypeInv, BgType
  <2>7. PastType'
    <3>1. writes \in Nat /\ promised \subseteq 1 .. writes
      BY <1>2 DEF TypeInv, PastType
    <3>2. promised \subseteq 1 .. writes'
      BY <3>1
    <3> QED BY <1>1, <1>2, <3>2 DEF TypeInv, PastType
  <2> QED BY <2>1, <2>2, <2>3, <2>4, <2>5, <2>6, <2>7 DEF TypeInv
<1>10. RestInv' /\ ReplayInv'
  BY <1>1, FrameOpen
<1>11. DiskInv'
  BY <1>1, FrameDisk DEF Inv
<1>12. NumbersInv'
  BY <1>1, <1>4, FrameNumbers DEF Inv
<1>13. VersionInv'
  <2>1. /\ log' \in DOMAIN logs' /\ \A n \in DOMAIN logs' : n < next'
    BY <1>1, <1>3, <1>5
  <2>2. /\ version.log <= manifest.log /\ manifest.log <= log'
    BY <1>1, <1>3
  <2>3. /\ Content(Files(version)) \subseteq Content(Files(manifest))
        /\ SameFiles(manifest, IF bg.pc = "install" THEN Edited(version) ELSE version)
    BY <1>1, <1>r DEF Inv, VersionInv
  <2>4. /\ Content(Files(version))' = Content(Files(version))
        /\ Content(Files(manifest))' = Content(Files(manifest))
    BY <1>1 DEF Content, Files
  <2>5. Edited(version)' = Edited(version)
    BY <1>1, <1>6 DEF Edited
  <2>6. SameFiles(manifest, IF bg.pc = "install" THEN Edited(version) ELSE version)'
    BY <1>1, <2>3, <2>5 DEF SameFiles
  <2> QED BY <1>1, <1>6, <2>1, <2>2, <2>3, <2>4, <2>6 DEF VersionInv
<1>14. BgInv'
  BY <1>1, <1>2, <1>4, <1>6, FrameBg DEF Inv
<1>15. EditInv'
  <2>1. bg.inputs \subseteq DOMAIN tables
    BY <1>1 DEF Inv, BgInv, NumbersInv
  <2> QED BY <1>1, <1>2, <1>4, <1>6, <2>1, FrameEdit DEF Inv
<1>16. \A pcs \in SUBSET Busy : Current(pcs) = {}
  BY DEF Current, Quiet
<1>17. /\ {"finish"} \in SUBSET Busy /\ {"sync", "insert", "finish"} \in SUBSET Busy
  BY DEF Busy
<1>18. SeqInv'
  <2>1. /\ Unique(Known)
        /\ \A e \in mem : e.seq <= lastSeq
        /\ \A e \in InLogs(logs, version.log) : e.seq <= lastSeq
    BY <1>16, <1>17, <1>r DEF Inv, SeqInv
  <2>2. Content(Files(manifest))' = Content(Files(manifest))
    BY <1>1 DEF Content, Files
  <2>3. Known' \subseteq Known
    BY <1>1, <1>7, <1>8, <2>2 DEF Known
  <2>4. Unique(Known)'
    BY <2>1, <2>3 DEF Unique
  <2>5. \A e \in Flushed' : e.seq <= lastSeq'
    BY <1>1, <1>8, <2>1
  <2>6. \A e \in InLogs(logs, version.log)' : e.seq <= lastSeq'
    BY <1>1, <1>7, <2>1
  <2> QED BY <1>1, <1>r, <2>4, <2>5, <2>6 DEF SeqInv
<1>19. SafeInv'
  <2> DEFINE V == Content(Files(version))
  <2>1. /\ acked \ risky \subseteq Ids(Visible(mem \cup Flushed \cup V, lastSeq))
        /\ Firm(mem) \subseteq Records(logs[log])
        /\ \A id \in promised \ risky : Durable(id)
    BY <1>r DEF Inv, SafeInv
  <2>2. V' = V
    BY <1>1 DEF Content, Files
  <2>3. mem' \cup Flushed' \cup V' = mem \cup Flushed \cup V
    BY <1>1, <1>8, <2>2
  <2>4. acked' \ risky' \subseteq Ids(Visible(mem' \cup Flushed' \cup V', lastSeq'))
    BY <1>1, <2>1, <2>3
  <2>5. Firm(mem)' = {}
    BY <1>1 DEF Firm
  <2>6. Firm(Flushed)' = Firm(mem)
    BY <1>1, <1>8 DEF Firm
  <2>7. log >= version.log
    BY <1>3
  <2>8. Firm(Flushed)' \subseteq InLogs(logs, version.log)'
    <3>1. Records(logs[log]) \subseteq InLogs(logs, version.log)
      BY <1>3, <2>7 DEF InLogs
    <3> QED BY <1>1, <1>7, <2>1, <2>6, <3>1
  <2>9. /\ DOMAIN Synced(logs') = DOMAIN logs \cup {next}
        /\ \A m \in DOMAIN logs : Synced(logs')[m] = Synced(logs)[m]
    BY <1>1, <1>3, <1>4, SyncedNewLog
  <2>10. Records(Synced(logs)[log]) \subseteq InLogs(Synced(logs'), version.log)
    <3>1. log \in DOMAIN Synced(logs') /\ Synced(logs')[log] = Synced(logs)[log]
      BY <1>3, <2>9
    <3> QED BY <2>7, <3>1 DEF InLogs
  <2>11. ASSUME NEW id \in promised \ risky PROVE Durable(id)'
    <3>1. PICK e \in mem \cup Flushed \cup V :
            /\ e.id = id /\ e.seq <= lastSeq
            /\ \/ e \in V
               \/ e \in Flushed \cap InLogs(Synced(logs), version.log)
               \/ e \in mem \cap Records(Synced(logs)[log])
      BY <2>1, <2>11 DEF Durable
    <3>2. /\ e \in mem' \cup Flushed' \cup V' /\ e.seq <= lastSeq'
          /\ \/ e \in V'
             \/ e \in Flushed' \cap InLogs(Synced(logs'), version.log)
      BY <1>1, <1>8, <2>2, <2>3, <2>10, <3>1
    <3> QED BY <1>1, <3>1, <3>2 DEF Durable
  <2>12. \A id \in promised' \ risky' : Durable(id)'
    BY <1>1, <2>11
  <2> QED BY <1>1, <1>r, <2>4, <2>5, <2>8, <2>12 DEF SafeInv
<1>20. GroupInv'
  BY DEF GroupInv, Quiet, Busy
<1>21. ReaderInv'
  BY <1>1, <1>2, <1>4, FrameReader DEF Inv
<1> QED BY <1>1, <1>9, <1>10, <1>11, <1>12, <1>13, <1>14, <1>15, <1>18, <1>19, <1>20,
           <1>21 DEF Inv

(* Only the process of an open database has threads that write.            *)
LEMMA ActiveIsOpen ==
  ASSUME Inv
  PROVE  /\ \A t \in Threads : thread[t].pc # "idle" => phase = "open"
         /\ bg.pc # "idle" \/ scheduled \/ shutting \/ bgError => phase = "open"
<1>1. ASSUME phase # "open"
      PROVE  /\ \A t \in Threads : thread[t].pc = "idle"
             /\ bg.pc = "idle" /\ ~scheduled /\ ~shutting /\ ~bgError
  <2>1. /\ thread = [t \in Threads |-> Resting] /\ bg = BgIdle
        /\ bgError = FALSE /\ shutting = FALSE /\ scheduled = FALSE
    BY <1>1 DEF Inv, RestInv
  <2> QED BY <2>1, ThreadIs DEF BgIdle
<1> QED BY <1>1

LEMMA ClientKeeps ==
  ASSUME Inv, phase = "open", ClientStep, writes' \in Nat, writes <= writes',
         UNCHANGED Unwritten
  PROVE  Inv'
BY StillKeeps, SwitchKeeps DEF ClientStep

LEMMA PutKeeps ==
  ASSUME Inv, NEW t \in Threads, Put(t)
  PROVE  Inv'
<1>1. writes \in Nat /\ writes' = writes + 1 /\ TypeInv /\ QueueInv
  BY DEF Inv, TypeInv, PastType, Put, Call
<1>2. PICK sync \in BOOLEAN :
        Enter(t, [Resting EXCEPT !.id = writes + 1, !.sync = sync, !.delay = TRUE])
  BY DEF Put
<1> DEFINE s == [Resting EXCEPT !.id = writes + 1, !.sync = sync, !.delay = TRUE]
<1>3. writes + 1 \in Nat
  BY <1>1
<1>4. s \in Thread /\ s.pc = "idle" /\ s.id = writes + 1
  BY <1>3 DEF Thread, Resting
<1>5. Enter(t, s)
  BY <1>2
<1> HIDE DEF s
<1>6. s.id <= writes + 1
  BY <1>3, <1>4
<1>7. ClientStep
  BY <1>1, <1>4, <1>5, <1>6, EnterSteps DEF Put
<1>8. writes' \in Nat /\ writes <= writes'
  BY <1>1
<1> QED BY <1>7, <1>8, ClientKeeps DEF Put

LEMMA FlushKeeps ==
  ASSUME Inv, NEW t \in Threads, Flush(t)
  PROVE  Inv'
<1>1. writes \in Nat /\ writes' = writes + 1 /\ TypeInv /\ QueueInv
  BY DEF Inv, TypeInv, PastType, Flush, Call
<1> DEFINE s == [Resting EXCEPT !.force = TRUE]
<1>2. s \in Thread /\ s.pc = "idle" /\ s.id = 0
  BY DEF Thread, Resting
<1>3. Enter(t, s)
  BY DEF Flush
<1> HIDE DEF s
<1>4. s.id <= writes + 1
  BY <1>1, <1>2
<1>5. ClientStep
  BY <1>1, <1>2, <1>3, <1>4, EnterSteps DEF Flush
<1>6. writes' \in Nat /\ writes <= writes'
  BY <1>1
<1> QED BY <1>5, <1>6, ClientKeeps DEF Flush

LEMMA LeadKeeps ==
  ASSUME Inv, NEW t \in Threads, Lead(t)
  PROVE  Inv'
<1>1. writes \in Nat /\ writes' = writes /\ TypeInv /\ QueueInv
  BY DEF Inv, TypeInv, PastType, Lead
<1>2. ClientStep
  BY <1>1, LeadSteps DEF Lead
<1>3. phase = "open"
  BY ActiveIsOpen DEF Lead
<1>4. writes' \in Nat /\ writes <= writes'
  BY <1>1
<1> QED BY <1>2, <1>3, <1>4, ClientKeeps DEF Lead

LEMMA WaitForImmKeeps ==
  ASSUME Inv, NEW t \in Threads, WaitForImm(t)
  PROVE  Inv'
<1>1. /\ writes \in Nat /\ events \in Nat /\ scheduled \in BOOLEAN
      /\ TypeInv /\ QueueInv
  BY DEF Inv, TypeInv, PastType, FlagsType
<1>2. QueueInv' /\ Steady
  BY <1>1, WaitForImmSteps
<1>3. phase = "open"
  BY ActiveIsOpen DEF WaitForImm
<1>4. UNCHANGED <<disk, phase, state, flags, writers, bg, opening, reader, past, writes, events>>
  BY DEF WaitForImm
<1>5. Unswitched /\ UNCHANGED Unwritten
  BY <1>4 DEF Unswitched, Unwritten, disk, flags, past
<1>6. MoreEvents
  BY <1>1, <1>4 DEF MoreEvents, flags
<1>7. ClientStep
  BY <1>2, <1>4, <1>5, <1>6 DEF ClientStep, past
<1>8. writes' \in Nat /\ writes <= writes'
  BY <1>1, <1>4
<1> QED BY <1>3, <1>5, <1>7, <1>8, ClientKeeps

-----------------------------------------------------------------------------
(* The steps of the thread that writes.                                    *)

LEMMA WriterIs ==
  ASSUME Inv, NEW t \in Threads, thread[t].pc \in WritingPcs
  PROVE  /\ phase = "open" /\ Running
         /\ thread[t] \in Thread /\ thread \in [Threads -> Thread]
         /\ \A u \in Threads : thread[u].pc \in WritingPcs => u = t
         /\ thread[t].group \in 1 .. Len(writers) /\ Len(writers) \in Nat
         /\ \A i \in 1 .. Len(writers) : writers[i] \in Threads
         /\ \A i \in 1 .. thread[t].group :
              i \in 1 .. Len(writers) /\ (thread[writers[i]].sync => thread[t].sync)
<1>1. Line(writers, thread, writes) /\ Grouped(writers, thread, t)
  BY DEF Inv, QueueInv, Order
<1>2. /\ \A u \in Threads : thread[u].pc \in WritingPcs => Len(writers) > 0 /\ writers[1] = u
      /\ Len(writers) \in Nat /\ \A i \in 1 .. Len(writers) : writers[i] \in Threads
      /\ \A u \in Threads : thread[u] \in Thread
  BY <1>1, LineIs
<1>3. \A u \in Threads : thread[u].pc \in WritingPcs => u = t
  BY <1>2
<1>4. phase = "open" /\ Running
  BY ActiveIsOpen DEF WritingPcs, Busy, Running
<1>5. /\ thread[t].group \in 1 .. Len(writers)
      /\ \A i \in 1 .. thread[t].group : thread[writers[i]].sync => thread[t].sync
  BY <1>1 DEF Grouped
<1>6. \A i \in 1 .. thread[t].group : i \in 1 .. Len(writers)
  BY <1>2, <1>5
<1> QED BY <1>1, <1>2, <1>3, <1>4, <1>5, <1>6 DEF Line

LEMMA CurrentIs ==
  ASSUME NEW t \in Threads, NEW pcs \in SUBSET WritingPcs,
         \A u \in Threads : thread[u].pc \in WritingPcs => u = t
  PROVE  Current(pcs) = IF thread[t].pc \in pcs THEN GroupEntries(t) ELSE {}
<1>1. {u \in Threads : thread[u].pc \in pcs} = IF thread[t].pc \in pcs THEN {t} ELSE {}
  OBVIOUS
<1>2. CASE thread[t].pc \in pcs
  BY <1>1, <1>2 DEF Current
<1>3. CASE thread[t].pc \notin pcs
  BY <1>1, <1>3 DEF Current
<1> QED BY <1>2, <1>3

LEMMA WriterMoves ==
  ASSUME Inv, NEW t \in Threads, thread[t].pc \in WritingPcs,
         NEW s \in Thread, s.pc \in WritingPcs, s.id = thread[t].id,
         s.sync = thread[t].sync, s.group = thread[t].group,
         thread' = [thread EXCEPT ![t] = s],
         writers' = writers, writes' = writes, lastSeq' = lastSeq
  PROVE  /\ QueueInv' /\ GroupEntries(t)' = GroupEntries(t) /\ thread'[t] = s
         /\ \A u \in Threads : thread'[u].pc \in WritingPcs => u = t
<1>1. /\ thread \in [Threads -> Thread] /\ Len(writers) \in Nat
      /\ \A u \in Threads : thread[u].pc \in WritingPcs => u = t
      /\ thread[t].group \in 1 .. Len(writers)
      /\ \A i \in 1 .. Len(writers) : writers[i] \in Threads
      /\ \A i \in 1 .. thread[t].group :
              i \in 1 .. Len(writers) /\ (thread[writers[i]].sync => thread[t].sync)
  BY WriterIs
<1>2. /\ thread' \in [Threads -> Thread] /\ thread'[t] = s
      /\ \A u \in Threads : u # t => thread'[u] = thread[u]
  BY <1>1
<1>3. \A u \in Threads : /\ thread'[u].id = thread[u].id /\ thread'[u].sync = thread[u].sync
                         /\ thread'[u].group = thread[u].group
                         /\ thread[u].pc \notin WritingPcs => thread'[u] = thread[u]
                         /\ thread[u].pc \in WritingPcs => thread'[u].pc \in WritingPcs
                         /\ thread'[u].pc \in WritingPcs => u = t
  BY <1>1, <1>2
<1>4. Line(writers, thread', writes)
  <2>1. Line(writers, thread, writes)
    BY DEF Inv, QueueInv, Order
  <2>2. \A i \in 2 .. Len(writers) : thread'[writers[i]].pc = "queued"
    <3> SUFFICES ASSUME NEW i \in 2 .. Len(writers) PROVE thread'[writers[i]].pc = "queued"
      OBVIOUS
    <3>1. thread[writers[i]].pc = "queued" /\ writers[i] \in Threads
      BY <1>1, <2>1 DEF Line
    <3> QED BY <1>3, <3>1 DEF WritingPcs, Busy
  <2>3. ASSUME NEW u \in Threads, \A i \in 1 .. Len(writers) : writers[i] # u
        PROVE  thread'[u].pc \in Outside
    <3>1. thread[u].pc \in Outside
      BY <2>1, <2>3 DEF Line
    <3>2. thread[u].pc \notin WritingPcs
      BY <3>1 DEF Outside, WritingPcs, Busy
    <3> QED BY <1>3, <3>1, <3>2
  <2>4. \A u \in Threads : thread'[u].id <= writes
    BY <1>3, <2>1 DEF Line
  <2> QED BY <1>2, <2>1, <2>2, <2>3, <2>4 DEF Line
<1>5. ASSUME NEW u \in Threads PROVE Grouped(writers, thread', u)
  BY <1>1, <1>3 DEF Grouped
<1>6. ASSUME Len(writers) > 0 PROVE thread'[writers[1]].pc \in Leading \cup WritingPcs
  <2>1. 1 \in 1 .. Len(writers)
    BY <1>1, <1>6
  <2>2. writers[1] \in Threads /\ thread[writers[1]].pc \in Leading \cup WritingPcs
    BY <1>1, <1>6, <2>1 DEF Inv, QueueInv, Order
  <2> QED BY <1>3, <2>2
<1>7. Order(writers, thread', writes)
  BY <1>4, <1>5, <1>6 DEF Order
<1>8. GroupEntries(t)' = GroupEntries(t)
  <2>1. \A i \in 1 .. thread[t].group : thread'[writers'[i]].id = thread[writers[i]].id
    BY <1>1, <1>3
  <2> QED BY <1>3, <2>1, SameGroup
<1> QED BY <1>2, <1>3, <1>7, <1>8 DEF QueueInv

(* Of the parts that a thread which writes leaves alone.                   *)
LEMMA WritingKeeps ==
  ASSUME Inv, phase = "open", UNCHANGED Writing, DOMAIN logs' = DOMAIN logs,
         bgError' \in BOOLEAN, bgError => bgError', scheduled' = scheduled,
         lastSeq' \in Nat, lastSeq <= lastSeq'
  PROVE  /\ RestInv' /\ ReplayInv' /\ DiskInv' /\ NumbersInv' /\ VersionInv' /\ BgInv'
         /\ EditInv' /\ ReaderInv'
         /\ TablesType' /\ StateType' /\ FlagsType' /\ BgType' /\ OpeningType' /\ ReaderType'
<1>1. UNCHANGED <<tables, manifest, phase, imm, log, version, next, pending,
                  shutting, opening, reader, bg, writes>>
  BY DEF Writing
<1>2. TypeInv
  BY DEF Inv
<1>3. /\ next \in Nat /\ DOMAIN logs \subseteq Nat /\ next <= next' /\ next' \in Nat
  BY <1>1, <1>2 DEF TypeInv, StateType, LogsType
<1>4. RestInv' /\ ReplayInv'
  BY <1>1, FrameOpen
<1>5. DiskInv'
  BY <1>1, FrameDisk DEF Inv
<1>6. NumbersInv'
  BY <1>1, <1>3, FrameNumbers DEF Inv
<1>7. VersionInv'
  BY <1>1, <1>3, FrameVersion DEF Inv
<1>8. BgInv'
  <2>1. bg.flushing => imm' # {}
    BY <1>1 DEF Inv, BgInv
  <2> QED BY <1>1, <1>3, <2>1, FrameBg DEF Inv
<1>9. EditInv'
  <2>1. bg.inputs \subseteq DOMAIN tables
    BY DEF Inv, BgInv, NumbersInv
  <2> QED BY <1>1, <1>3, <2>1, FrameEdit DEF Inv
<1>10. ReaderInv'
  BY <1>1, <1>3, FrameReader DEF Inv
<1>11. TablesType' /\ StateType' /\ FlagsType' /\ BgType' /\ OpeningType' /\ ReaderType'
  <2>1. TablesType' /\ OpeningType' /\ ReaderType'
    BY <1>1, <1>2 DEF TypeInv, TablesType, OpeningType, ReaderType
  <2>2. StateType'
    BY <1>1, <1>2 DEF TypeInv, StateType
  <2>3. FlagsType'
    BY <1>1, <1>2 DEF TypeInv, FlagsType
  <2>4. BgType'
    BY <1>1, <1>2 DEF TypeInv, BgType
  <2> QED BY <2>1, <2>2, <2>3, <2>4
<1> QED BY <1>4, <1>5, <1>6, <1>7, <1>8, <1>9, <1>10, <1>11

(* Two states of the logs whose synced records are the same.               *)
LEMMA SyncedSame ==
  ASSUME NEW lg, \A n \in DOMAIN lg : lg[n] \in LogFile /\ lg[n].synced <= Len(lg[n].recs),
         NEW lh, \A n \in DOMAIN lh : lh[n] \in LogFile /\ lh[n].synced <= Len(lh[n].recs),
         DOMAIN lh = DOMAIN lg,
         \A n \in DOMAIN lg : /\ lh[n].synced = lg[n].synced
                              /\ \A i \in 1 .. lg[n].synced : lh[n].recs[i] = lg[n].recs[i]
  PROVE  /\ \A n \in DOMAIN lg : Records(Synced(lh)[n]) = Records(Synced(lg)[n])
         /\ \A first : InLogs(Synced(lh), first) = InLogs(Synced(lg), first)
<1>1. /\ DOMAIN Synced(lg) = DOMAIN lg
      /\ \A n \in DOMAIN lg :
           Records(Synced(lg)[n]) = UNION {lg[n].recs[i] : i \in 1 .. lg[n].synced}
  BY SyncedIs
<1>2. /\ DOMAIN Synced(lh) = DOMAIN lh
      /\ \A n \in DOMAIN lh :
           Records(Synced(lh)[n]) = UNION {lh[n].recs[i] : i \in 1 .. lh[n].synced}
  BY SyncedIs
<1>3. ASSUME NEW n \in DOMAIN lg PROVE Records(Synced(lh)[n]) = Records(Synced(lg)[n])
  <2>1. UNION {lh[n].recs[i] : i \in 1 .. lg[n].synced}
          = UNION {lg[n].recs[i] : i \in 1 .. lg[n].synced}
    OBVIOUS
  <2> QED BY <1>1, <1>2, <2>1
<1>4. ASSUME NEW first PROVE InLogs(Synced(lh), first) = InLogs(Synced(lg), first)
  <2>1. \A n \in DOMAIN lg : Records(Synced(lh)[n]) = Records(Synced(lg)[n])
    BY <1>3
  <2> QED BY <1>1, <1>2, <2>1 DEF InLogs
<1> QED BY <1>3, <1>4

(* A record behind the others of the current log.                          *)
LEMMA LogGrows ==
  ASSUME Inv, Running, NEW r \in SUBSET Entry, NEW c \in Nat, \A e \in r : e.seq <= c,
         NEW f \in LogFile, f.recs = Append(logs[log].recs, r),
         f.synced = logs[log].synced, logs' = [logs EXCEPT ![log] = f]
  PROVE  /\ DOMAIN logs' = DOMAIN logs /\ LogsType'
         /\ Records(logs'[log]) = Records(logs[log]) \cup r
         /\ \A first : /\ InLogs(logs, first) \subseteq InLogs(logs', first)
                       /\ InLogs(logs', first) \subseteq InLogs(logs, first) \cup r
                       /\ InLogs(Synced(logs'), first) = InLogs(Synced(logs), first)
         /\ Records(Synced(logs')[log]) = Records(Synced(logs)[log])
<1>1. /\ DOMAIN logs \subseteq Nat /\ log \in DOMAIN logs
      /\ \A n \in DOMAIN logs : logs[n] \in LogFile /\ logs[n].synced <= Len(logs[n].recs)
  BY RunningIs
<1>2. /\ DOMAIN logs' = DOMAIN logs /\ logs'[log] = f
      /\ \A n \in DOMAIN logs : n # log => logs'[n] = logs[n]
  BY <1>1
<1>3. /\ f.synced <= Len(f.recs) /\ Records(f) = Records(logs[log]) \cup r
      /\ \A i \in 1 .. f.synced : f.recs[i] = logs[log].recs[i]
  BY <1>1, AppendRecord
<1>4. \A n \in DOMAIN logs : /\ logs'[n] \in LogFile
                             /\ logs'[n].synced <= Len(logs'[n].recs)
                             /\ Records(logs[n]) \subseteq Records(logs'[n])
                             /\ Records(logs'[n]) \subseteq Records(logs[n]) \cup r
  BY <1>1, <1>2, <1>3
<1>5. LogsType'
  <2>1. PICK b \in Nat : \A n \in DOMAIN logs : \A e \in Records(logs[n]) : e.seq <= b
    BY DEF Inv, TypeInv, LogsType
  <2>2. \A n \in DOMAIN logs : \A e \in Records(logs[n]) : e.seq \in Nat
    <3> SUFFICES ASSUME NEW n \in DOMAIN logs, NEW e \in Records(logs[n]) PROVE e.seq \in Nat
      OBVIOUS
    <3>1. logs[n].recs \in Seq(SUBSET Entry)
      BY <1>1, LogFileIs
    <3>2. PICK i \in DOMAIN logs[n].recs : e \in logs[n].recs[i]
      BY DEF Records
    <3>3. e \in Entry
      BY <3>1, <3>2
    <3> QED BY <3>3, EntryIs
  <2>3. \A e \in r : e.seq \in Nat
    BY EntryIs
  <2>4. b + c \in Nat
    BY <2>1
  <2>5. ASSUME NEW n \in DOMAIN logs, NEW e \in Records(logs'[n]) PROVE e.seq <= b + c
    <3>1. CASE e \in Records(logs[n])
      <4>1. e.seq <= b /\ e.seq \in Nat
        BY <2>1, <2>2, <3>1
      <4> QED BY <2>1, <4>1
    <3>2. CASE e \in r
      <4>1. e.seq <= c /\ e.seq \in Nat
        BY <2>3, <3>2
      <4> QED BY <2>1, <4>1
    <3> QED BY <1>4, <3>1, <3>2
  <2> QED BY <1>1, <1>2, <1>4, <2>4, <2>5 DEF LogsType
<1>6. ASSUME NEW first
      PROVE  /\ InLogs(logs, first) \subseteq InLogs(logs', first)
             /\ InLogs(logs', first) \subseteq InLogs(logs, first) \cup r
  BY <1>2, <1>4 DEF InLogs
<1>7. \A n \in DOMAIN logs :
        /\ logs'[n].synced = logs[n].synced
        /\ \A i \in 1 .. logs[n].synced : logs'[n].recs[i] = logs[n].recs[i]
  BY <1>2, <1>3
<1>8. /\ \A n \in DOMAIN logs : Records(Synced(logs')[n]) = Records(Synced(logs)[n])
      /\ \A first : InLogs(Synced(logs'), first) = InLogs(Synced(logs), first)
  <2>1. \A n \in DOMAIN logs : logs[n] \in LogFile /\ logs[n].synced <= Len(logs[n].recs)
    BY <1>1
  <2>2. \A n \in DOMAIN logs' : logs'[n] \in LogFile /\ logs'[n].synced <= Len(logs'[n].recs)
    BY <1>2, <1>4
  <2>3. DOMAIN logs' = DOMAIN logs
    BY <1>2
  <2> QED BY ONLY <2>1, <2>2, <2>3, <1>7, SyncedSame
<1> QED BY <1>1, <1>2, <1>3, <1>5, <1>6, <1>8

(* Entries in use are numbered up to lastSeq, but for the group written.   *)
LEMMA KnownIs ==
  ASSUME Inv, NEW t \in Threads, thread[t].pc \in WritingPcs
  PROVE  /\ \A e \in Known : e.seq <= lastSeq \/ (thread[t].pc \in Busy /\ e \in GroupEntries(t))
         /\ \A e \in mem : e.seq <= lastSeq \/ (thread[t].pc = "finish" /\ e \in GroupEntries(t))
         /\ \A e \in Flushed : e.seq <= lastSeq
         /\ \A e \in InLogs(logs, version.log) :
              e.seq <= lastSeq \/ (thread[t].pc \in Busy /\ e \in GroupEntries(t))
         /\ Unique(Known)
<1>1. Running /\ \A u \in Threads : thread[u].pc \in WritingPcs => u = t
  BY WriterIs
<1>2. /\ Unique(Known)
      /\ \A e \in Flushed : e.seq <= lastSeq
      /\ \A e \in mem : e.seq <= lastSeq \/ e \in Current({"finish"})
      /\ \A e \in InLogs(logs, version.log) :
           e.seq <= lastSeq \/ e \in Current({"sync", "insert", "finish"})
  BY <1>1 DEF Inv, SeqInv
<1>3. /\ Current({"finish"}) = IF thread[t].pc \in {"finish"} THEN GroupEntries(t) ELSE {}
      /\ Current({"sync", "insert", "finish"})
           = IF thread[t].pc \in {"sync", "insert", "finish"} THEN GroupEntries(t) ELSE {}
  <2>1. {"finish"} \in SUBSET WritingPcs /\ {"sync", "insert", "finish"} \in SUBSET WritingPcs
    BY DEF WritingPcs, Busy
  <2> QED BY <1>1, <2>1, CurrentIs
<1>4. /\ \A e \in mem : e.seq <= lastSeq \/ (thread[t].pc = "finish" /\ e \in GroupEntries(t))
      /\ \A e \in InLogs(logs, version.log) :
              e.seq <= lastSeq \/ (thread[t].pc \in Busy /\ e \in GroupEntries(t))
  BY <1>2, <1>3 DEF Busy
<1>5. \A e \in Content(Files(manifest)) : e.seq <= lastSeq
  BY <1>1, RunningIs
<1>6. \A e \in Known : e.seq <= lastSeq \/ (thread[t].pc \in Busy /\ e \in GroupEntries(t))
  BY <1>2, <1>4, <1>5 DEF Known, Busy
<1> QED BY <1>2, <1>4, <1>6

(* A group that was numbered adds no number twice.                         *)
LEMMA GroupIsNew ==
  ASSUME Inv, NEW t \in Threads, thread[t].pc \in WritingPcs,
         NEW entries \in SUBSET (Known \cup GroupEntries(t))
  PROVE  Unique(entries)
<1>1. /\ \A e \in Known : e.seq <= lastSeq \/ e \in GroupEntries(t)
      /\ Unique(Known)
  BY KnownIs
<1>2. /\ GroupEntries(t) \subseteq Entry
      /\ \A e \in GroupEntries(t) : lastSeq < e.seq
      /\ \A e, f \in GroupEntries(t) : e.seq = f.seq => e = f
  BY GroupIs DEF Inv
<1>3. lastSeq \in Nat
  BY RunningIs
<1>4. \A e \in GroupEntries(t) : ~(e.seq <= lastSeq)
  <2> SUFFICES ASSUME NEW e \in GroupEntries(t) PROVE ~(e.seq <= lastSeq)
    OBVIOUS
  <2>1. e.seq \in Nat /\ lastSeq < e.seq
    BY <1>2, EntryIs
  <2> QED BY <1>3, <2>1
<1> SUFFICES ASSUME NEW e \in entries, NEW f \in entries, e.seq = f.seq
             PROVE  e = f
  BY DEF Unique
<1>5. CASE e \in GroupEntries(t) /\ f \in GroupEntries(t)
  BY <1>2, <1>5
<1>6. CASE e \in GroupEntries(t) /\ f \notin GroupEntries(t)
  <2>1. f.seq <= lastSeq
    BY <1>1, <1>6
  <2> QED BY <1>4, <1>6, <2>1
<1>7. CASE e \notin GroupEntries(t) /\ f \in GroupEntries(t)
  <2>1. e.seq <= lastSeq
    BY <1>1, <1>7
  <2> QED BY <1>4, <1>7, <2>1
<1>8. CASE e \notin GroupEntries(t) /\ f \notin GroupEntries(t)
  BY <1>1, <1>8 DEF Unique
<1> QED BY <1>5, <1>6, <1>7, <1>8

(* What AddRecord leaves: a record of the group, all of it or, behind a    *)
(* torn one, perhaps nothing.                                              *)
Appended(t, kept, f, s) ==
  /\ logs' = [logs EXCEPT ![log] = f] /\ f \in LogFile
  /\ f.recs = Append(logs[log].recs, kept) /\ f.synced = logs[log].synced
  /\ thread' = [thread EXCEPT ![t] = s] /\ s \in Thread
  /\ s.pc \in Busy /\ s.id = thread[t].id /\ s.sync = thread[t].sync
  /\ s.group = thread[t].group
  /\ s.pc = "finish" => ~s.ok
  /\ s.pc = "insert" => ~s.sync
  /\ s.pc = "finish" \/ kept = GroupEntries(t) \/ Ids(GroupEntries(t)) \subseteq risky'
  /\ risky \subseteq risky' /\ risky' \subseteq risky \cup Ids(GroupEntries(t))
  /\ events' \in Nat

LEMMA LogFileAppend ==
  ASSUME NEW f \in LogFile, NEW r \in SUBSET Entry
  PROVE  /\ [f EXCEPT !.recs = Append(@, r)] \in LogFile
         /\ [f EXCEPT !.recs = Append(@, r)].recs = Append(f.recs, r)
         /\ [f EXCEPT !.recs = Append(@, r)].synced = f.synced
         /\ [f EXCEPT !.recs = Append(@, r), !.torn = TRUE] \in LogFile
         /\ [f EXCEPT !.recs = Append(@, r), !.torn = TRUE].recs = Append(f.recs, r)
         /\ [f EXCEPT !.recs = Append(@, r), !.torn = TRUE].synced = f.synced
<1>1. f.recs \in Seq(SUBSET Entry) /\ Append(f.recs, r) \in Seq(SUBSET Entry)
  BY LogFileIs
<1> DEFINE q == Append(f.recs, r)
<1> HIDE DEF q
<1>2. q \in Seq(SUBSET Entry)
  BY <1>1 DEF q
<1>3. /\ [f EXCEPT !.recs = q] \in LogFile
      /\ [f EXCEPT !.recs = q].recs = q
      /\ [f EXCEPT !.recs = q].synced = f.synced
      /\ [f EXCEPT !.recs = q, !.torn = TRUE] \in LogFile
      /\ [f EXCEPT !.recs = q, !.torn = TRUE].recs = q
      /\ [f EXCEPT !.recs = q, !.torn = TRUE].synced = f.synced
  BY <1>2 DEF LogFile
<1> QED BY <1>3 DEF q

LEMMA AddRecordAppends ==
  ASSUME Inv, NEW t \in Threads, AddRecord(t)
  PROVE  \E kept \in {GroupEntries(t), {}} : \E f, s : Appended(t, kept, f, s)
<1>1. thread[t].pc = "append" /\ thread[t].pc \in WritingPcs
  BY DEF AddRecord, WritingPcs
<1>2. /\ Running /\ thread[t] \in Thread /\ thread \in [Threads -> Thread]
      /\ log \in DOMAIN logs /\ logs[log] \in LogFile
      /\ GroupEntries(t) \in SUBSET Entry /\ events \in Nat
  BY <1>1, WriterIs, RunningIs, GroupIs DEF Inv, TypeInv, PastType
<1>3. CASE /\ \E kept \in IF logs[log].torn THEN {GroupEntries(t), {}}
                       ELSE {GroupEntries(t)} :
                logs' = [logs EXCEPT ![log].recs = Append(@, kept)]
           /\ risky' = IF logs[log].torn THEN risky \cup Ids(GroupEntries(t)) ELSE risky
           /\ thread' = [thread EXCEPT ![t].pc = IF thread[t].sync THEN "sync" ELSE "insert"]
           /\ UNCHANGED events
  <2>1. PICK kept \in IF logs[log].torn THEN {GroupEntries(t), {}} ELSE {GroupEntries(t)} :
          logs' = [logs EXCEPT ![log].recs = Append(@, kept)]
    BY <1>3
  <2> DEFINE f == [logs[log] EXCEPT !.recs = Append(@, kept)]
             p == IF thread[t].sync THEN "sync" ELSE "insert"
             s == [thread[t] EXCEPT !.pc = p]
  <2>2. kept \in {GroupEntries(t), {}} /\ kept \in SUBSET Entry
    BY <1>2
  <2>3. f \in LogFile /\ f.recs = Append(logs[log].recs, kept) /\ f.synced = logs[log].synced
    BY <1>2, <2>2, LogFileAppend
  <2>4. logs' = [logs EXCEPT ![log] = f]
    BY <2>1
  <2>5. p \in {"sync", "insert"} /\ (p = "insert" => ~thread[t].sync)
    OBVIOUS
  <2>6. thread' = [thread EXCEPT ![t] = s]
    BY <1>3
  <2> HIDE DEF p, f
  <2>7. /\ s \in Thread /\ s.pc = p /\ s.id = thread[t].id /\ s.sync = thread[t].sync
        /\ s.group = thread[t].group
    BY <1>2, <2>5 DEF Thread
  <2> HIDE DEF s
  <2>8. /\ s.pc \in Busy /\ s.pc # "finish" /\ (s.pc = "insert" => ~s.sync)
    BY <2>5, <2>7 DEF Busy
  <2>9. kept = GroupEntries(t) \/ Ids(GroupEntries(t)) \subseteq risky'
    BY <1>3, <2>1
  <2>10. risky \subseteq risky' /\ risky' \subseteq risky \cup Ids(GroupEntries(t))
    BY <1>3
  <2>11. Appended(t, kept, f, s)
    BY <1>2, <1>3, <2>3, <2>4, <2>6, <2>7, <2>8, <2>9, <2>10 DEF Appended
  <2> QED BY <2>2, <2>11
<1>4. CASE /\ Event
           /\ \E kept \in {GroupEntries(t), {}} :
                logs' = [logs EXCEPT ![log].recs = Append(@, kept), ![log].torn = TRUE]
           /\ thread' = [thread EXCEPT ![t].pc = "finish", ![t].ok = FALSE]
           /\ UNCHANGED risky
  <2>1. PICK kept \in {GroupEntries(t), {}} :
                logs' = [logs EXCEPT ![log].recs = Append(@, kept), ![log].torn = TRUE]
    BY <1>4
  <2> DEFINE f == [logs[log] EXCEPT !.recs = Append(@, kept), !.torn = TRUE]
             s == [thread[t] EXCEPT !.pc = "finish", !.ok = FALSE]
  <2>2. kept \in SUBSET Entry
    BY <1>2
  <2>3. f \in LogFile /\ f.recs = Append(logs[log].recs, kept) /\ f.synced = logs[log].synced
    BY <1>2, <2>2, LogFileAppend
  <2>4. logs' = [logs EXCEPT ![log] = f]
    BY <2>1, <1>2 DEF LogFile
  <2>5. thread' = [thread EXCEPT ![t] = s]
    BY <1>2, <1>4 DEF Thread
  <2> HIDE DEF f
  <2>6. /\ s \in Thread /\ s.pc = "finish" /\ s.id = thread[t].id /\ s.sync = thread[t].sync
        /\ s.group = thread[t].group /\ ~s.ok
    BY <1>2 DEF Thread
  <2> HIDE DEF s
  <2>7. events' \in Nat
    BY <1>2, <1>4 DEF Event
  <2>8. s.pc \in Busy /\ s.pc # "insert"
    BY <2>6 DEF Busy
  <2>9. Appended(t, kept, f, s)
    BY <1>4, <2>3, <2>4, <2>5, <2>6, <2>7, <2>8 DEF Appended
  <2> QED BY <2>9
<1> QED BY <1>3, <1>4 DEF AddRecord

LEMMA AddRecordKeeps ==
  ASSUME Inv, NEW t \in Threads, AddRecord(t)
  PROVE  Inv'
<1>1. thread[t].pc = "append" /\ thread[t].pc \in WritingPcs
  BY DEF AddRecord, WritingPcs
<1>2. /\ Running /\ phase = "open" /\ thread[t] \in Thread
      /\ \A u \in Threads : thread[u].pc \in WritingPcs => u = t
  BY <1>1, WriterIs
<1>3. /\ GroupEntries(t) \in SUBSET Entry /\ Count(t) \in Nat /\ lastSeq \in Nat
      /\ \A e \in GroupEntries(t) : e.seq <= lastSeq + Count(t)
  BY <1>1, GroupIs, RunningIs DEF Inv
<1>4. PICK kept \in {GroupEntries(t), {}} : \E f, s : Appended(t, kept, f, s)
  BY AddRecordAppends
<1>5. PICK f, s : Appended(t, kept, f, s)
  BY <1>4
<1>6. /\ UNCHANGED <<tables, manifest, phase, imm, log, version, next, pending, shutting,
                     opening, reader, bg, writes, mem, lastSeq, bgError, scheduled,
                     writers, acked, promised>>
  BY DEF AddRecord, Writing
<1>7. /\ kept \in SUBSET Entry /\ kept \subseteq GroupEntries(t)
      /\ lastSeq + Count(t) \in Nat /\ \A e \in kept : e.seq <= lastSeq + Count(t)
  BY <1>3
<1>8. /\ DOMAIN logs' = DOMAIN logs /\ LogsType'
      /\ Records(logs'[log]) = Records(logs[log]) \cup kept
      /\ \A first : /\ InLogs(logs, first) \subseteq InLogs(logs', first)
                    /\ InLogs(logs', first) \subseteq InLogs(logs, first) \cup kept
                    /\ InLogs(Synced(logs'), first) = InLogs(Synced(logs), first)
      /\ Records(Synced(logs')[log]) = Records(Synced(logs)[log])
  <2>1. /\ f \in LogFile /\ f.recs = Append(logs[log].recs, kept)
        /\ f.synced = logs[log].synced /\ logs' = [logs EXCEPT ![log] = f]
    BY <1>5 DEF Appended
  <2> QED BY <1>2, <1>7, <2>1, LogGrows
<1>9. /\ QueueInv' /\ GroupEntries(t)' = GroupEntries(t) /\ thread'[t] = s
      /\ \A u \in Threads : thread'[u].pc \in WritingPcs => u = t
  <2>1. /\ s \in Thread /\ s.pc \in WritingPcs /\ s.id = thread[t].id
        /\ s.sync = thread[t].sync /\ s.group = thread[t].group
        /\ thread' = [thread EXCEPT ![t] = s]
    BY <1>5 DEF Appended, WritingPcs
  <2> QED BY <1>1, <1>6, <2>1, WriterMoves
<1>10. /\ s.pc \in Busy /\ (s.pc = "finish" => ~s.ok) /\ (s.pc = "insert" => ~s.sync)
       /\ s.pc = "finish" \/ kept = GroupEntries(t) \/ Ids(GroupEntries(t)) \subseteq risky'
       /\ risky \subseteq risky' /\ risky' \subseteq risky \cup Ids(GroupEntries(t))
       /\ events' \in Nat
  BY <1>5 DEF Appended
<1>11. /\ RestInv' /\ ReplayInv' /\ DiskInv' /\ NumbersInv' /\ VersionInv' /\ BgInv'
       /\ EditInv' /\ ReaderInv'
       /\ TablesType' /\ StateType' /\ FlagsType' /\ BgType' /\ OpeningType' /\ ReaderType'
  <2>1. bgError' \in BOOLEAN /\ (bgError => bgError')
    BY <1>6 DEF Inv, TypeInv, FlagsType
  <2>2. lastSeq' \in Nat /\ lastSeq <= lastSeq'
    BY <1>3, <1>6
  <2> QED BY <1>2, <1>6, <1>8, <2>1, <2>2, WritingKeeps DEF AddRecord
<1>12. TypeInv'
  <2>1. MemType'
    BY <1>6 DEF Inv, TypeInv, MemType
  <2>2. Ids(GroupEntries(t)) \subseteq Nat
    BY <1>3, EntryIs DEF Ids
  <2>3. PastType'
    BY <1>6, <1>10, <2>2 DEF Inv, TypeInv, PastType
  <2> QED BY <1>8, <1>11, <2>1, <2>3 DEF TypeInv
<1>13. Running'
  BY <1>2, <1>6 DEF Running
<1>14. SeqInv'
  <2>1. /\ \A e \in mem : e.seq <= lastSeq
        /\ \A e \in Flushed : e.seq <= lastSeq
        /\ \A e \in InLogs(logs, version.log) : e.seq <= lastSeq
    BY <1>1, KnownIs DEF Busy
  <2>2. Current({"sync", "insert", "finish"})' = GroupEntries(t)
    <3>1. {u \in Threads : thread'[u].pc \in {"sync", "insert", "finish"}} = {t}
      BY <1>9, <1>10 DEF Busy, WritingPcs
    <3>2. Current({"sync", "insert", "finish"})' = UNION {GroupEntries(u)' : u \in {t}}
      BY <3>1 DEF Current
    <3> QED BY <1>9, <3>2
  <2>3. /\ mem' = mem /\ Flushed' = Flushed
        /\ Content(Files(manifest))' = Content(Files(manifest))
    BY <1>6 DEF Flushed, Content, Files
  <2>4. InLogs(logs', version.log') \subseteq InLogs(logs, version.log) \cup GroupEntries(t)
    BY <1>6, <1>7, <1>8
  <2>5. Known' \subseteq Known \cup GroupEntries(t)
    BY <2>3, <2>4 DEF Known
  <2>6. Unique(Known)'
    <3>1. Unique(Known')
      BY <1>1, <2>5, GroupIsNew
    <3> QED BY <3>1 DEF Unique
  <2>7. \A e \in InLogs(logs, version.log)' :
          e.seq <= lastSeq' \/ e \in Current({"sync", "insert", "finish"})'
    BY <1>6, <2>1, <2>2, <2>4
  <2> QED BY <1>6, <1>13, <2>1, <2>3, <2>6, <2>7 DEF SeqInv
<1>15. SafeInv'
  <2>1. /\ acked \ risky \subseteq
             Ids(Visible(mem \cup Flushed \cup Content(Files(version)), lastSeq))
        /\ Firm(mem) \subseteq Records(logs[log])
        /\ Firm(Flushed) \subseteq InLogs(logs, version.log)
        /\ \A id \in promised \ risky : Durable(id)
    BY <1>2 DEF Inv, SafeInv
  <2>2. /\ Flushed' = Flushed /\ Content(Files(version))' = Content(Files(version))
        /\ Firm(mem)' \subseteq Firm(mem) /\ Firm(Flushed)' \subseteq Firm(Flushed)
    BY <1>6, <1>10 DEF Flushed, Content, Files, Firm
  <2>3. \A id : Durable(id) => Durable(id)'
    BY <1>6, <1>8, <2>2 DEF Durable
  <2>4. acked' \ risky' \subseteq acked \ risky /\ promised' \ risky' \subseteq promised \ risky
    BY <1>6, <1>10
  <2>5. \A id \in promised' \ risky' : Durable(id)'
    BY <2>1, <2>3, <2>4
  <2>6. acked' \ risky' \subseteq
          Ids(Visible(mem \cup Flushed \cup Content(Files(version)), lastSeq))'
    <3>1. Visible(mem \cup Flushed \cup Content(Files(version)), lastSeq)'
            = Visible(mem \cup Flushed \cup Content(Files(version)), lastSeq)
      BY <1>6, <2>2 DEF Visible
    <3> QED BY <2>1, <2>4, <3>1 DEF Ids
  <2>7. Firm(mem)' \subseteq Records(logs'[log']) /\ Firm(Flushed)' \subseteq InLogs(logs', version.log')
    BY <1>6, <1>8, <2>1, <2>2
  <2> QED BY <1>2, <1>6, <1>13, <2>5, <2>6, <2>7 DEF SafeInv
<1>16. GroupInv'
  <2>1. s.pc \in {"sync", "insert"} => Firm(GroupEntries(t))' \subseteq Records(logs'[log'])
    <3>1. CASE kept = GroupEntries(t)
      BY <1>6, <1>8, <1>9, <3>1 DEF Firm
    <3>2. CASE Ids(GroupEntries(t)) \subseteq risky'
      BY <1>9, <3>2 DEF Firm, Ids
    <3> QED BY <1>10, <3>1, <3>2
  <2> SUFFICES ASSUME NEW u \in Threads, thread'[u].pc \in WritingPcs
               PROVE  (/\ thread[u].pc \in {"sync", "insert"} \/ (thread[u].pc = "finish" /\ thread[u].ok)
                            => Firm(GroupEntries(u)) \subseteq Records(logs[log])
                       /\ thread[u].pc = "insert" /\ thread[u].sync
                            => Firm(GroupEntries(u)) \subseteq Records(Synced(logs)[log])
                       /\ thread[u].pc = "finish" /\ thread[u].ok /\ thread[u].sync
                            => Firm(GroupEntries(u)) \subseteq Records(Synced(logs)[log])
                       /\ thread[u].pc = "finish" /\ thread[u].ok => GroupEntries(u) \subseteq mem)'
    BY DEF GroupInv, WritingPcs, Busy
  <2>2. u = t
    BY <1>9
  <2>3. ~(thread'[t].pc = "finish" /\ thread'[t].ok) /\ ~(thread'[t].pc = "insert" /\ thread'[t].sync)
    BY <1>9, <1>10
  <2> QED BY <1>9, <2>1, <2>2, <2>3
<1> QED BY <1>9, <1>11, <1>12, <1>14, <1>15, <1>16 DEF Inv

(* The logs before and after the one numbered m is synced.                 *)
LEMMA SyncedMore ==
  ASSUME NEW lg, \A n \in DOMAIN lg : lg[n] \in LogFile /\ lg[n].synced <= Len(lg[n].recs),
         NEW lh, \A n \in DOMAIN lh : lh[n] \in LogFile /\ lh[n].synced <= Len(lh[n].recs),
         DOMAIN lh = DOMAIN lg, NEW m \in DOMAIN lg,
         \A n \in DOMAIN lg : n # m => lh[n] = lg[n],
         lh[m].recs = lg[m].recs, lh[m].synced = Len(lg[m].recs)
  PROVE  /\ Records(Synced(lh)[m]) = Records(lg[m])
         /\ \A n \in DOMAIN lg : Records(Synced(lg)[n]) \subseteq Records(Synced(lh)[n])
         /\ \A first : InLogs(Synced(lg), first) \subseteq InLogs(Synced(lh), first)
<1>1. /\ DOMAIN Synced(lg) = DOMAIN lg
      /\ \A n \in DOMAIN lg : /\ Synced(lg)[n] = Truncated(lg[n], lg[n].synced)
                               /\ Records(Synced(lg)[n]) \subseteq Records(lg[n])
  BY SyncedIs
<1>2. /\ DOMAIN Synced(lh) = DOMAIN lg
      /\ \A n \in DOMAIN lg :
           /\ Synced(lh)[n] = Truncated(lh[n], lh[n].synced)
           /\ Records(Synced(lh)[n]) = UNION {lh[n].recs[i] : i \in 1 .. lh[n].synced}
  BY SyncedIs
<1>3. Records(Synced(lh)[m]) = Records(lg[m])
  <2>1. lg[m].recs \in Seq(SUBSET Entry)
    BY LogFileIs
  <2>2. DOMAIN lg[m].recs = 1 .. Len(lg[m].recs)
    BY <2>1
  <2>3. UNION {lh[m].recs[i] : i \in 1 .. lh[m].synced}
          = UNION {lg[m].recs[i] : i \in DOMAIN lg[m].recs}
    BY <2>2
  <2> QED BY <1>2, <2>3 DEF Records
<1>4. ASSUME NEW n \in DOMAIN lg PROVE Records(Synced(lg)[n]) \subseteq Records(Synced(lh)[n])
  <2>1. CASE n = m
    BY <1>1, <1>3, <2>1
  <2>2. CASE n # m
    BY <1>1, <1>2, <2>2
  <2> QED BY <2>1, <2>2
<1>5. ASSUME NEW first PROVE InLogs(Synced(lg), first) \subseteq InLogs(Synced(lh), first)
  <2>1. \A n \in DOMAIN lg : Records(Synced(lg)[n]) \subseteq Records(Synced(lh)[n])
    BY <1>4
  <2> QED BY <1>1, <1>2, <2>1 DEF InLogs
<1> QED BY <1>3, <1>4, <1>5

LEMMA LogSynced ==
  ASSUME Inv, Running, logs' = [logs EXCEPT ![log].synced = Len(logs[log].recs)]
  PROVE  /\ DOMAIN logs' = DOMAIN logs /\ LogsType'
         /\ Records(logs'[log]) = Records(logs[log])
         /\ \A first : /\ InLogs(logs', first) = InLogs(logs, first)
                       /\ InLogs(Synced(logs), first) \subseteq InLogs(Synced(logs'), first)
         /\ Records(Synced(logs)[log]) \subseteq Records(Synced(logs')[log])
         /\ Records(Synced(logs')[log]) = Records(logs[log])
<1>1. /\ DOMAIN logs \subseteq Nat /\ log \in DOMAIN logs
      /\ \A n \in DOMAIN logs : logs[n] \in LogFile /\ logs[n].synced <= Len(logs[n].recs)
  BY RunningIs
<1> DEFINE k == Len(logs[log].recs)
           f == [logs[log] EXCEPT !.synced = k]
<1>2. /\ k \in Nat /\ logs[log].recs \in Seq(SUBSET Entry) /\ logs[log] \in LogFile
      /\ DOMAIN logs[log].recs = 1 .. k /\ logs[log].synced \in Nat /\ logs[log].synced <= k
  BY <1>1 DEF LogFile
<1>3. /\ DOMAIN logs' = DOMAIN logs /\ logs'[log] = f
      /\ \A n \in DOMAIN logs : n # log => logs'[n] = logs[n]
  BY <1>1
<1> HIDE DEF k
<1>4. f \in LogFile /\ f.synced = k /\ f.recs = logs[log].recs
  BY <1>2 DEF LogFile
<1> HIDE DEF f
<1>5. f.synced <= Len(f.recs)
  BY <1>2, <1>4 DEF k
<1>6. \A n \in DOMAIN logs : logs'[n] \in LogFile /\ logs'[n].synced <= Len(logs'[n].recs)
                             /\ logs'[n].recs = logs[n].recs
  BY <1>1, <1>3, <1>4, <1>5
<1>7. \A n \in DOMAIN logs : Records(logs'[n]) = Records(logs[n])
  BY <1>6 DEF Records
<1>8. LogsType'
  <2>1. PICK b \in Nat : \A n \in DOMAIN logs : \A e \in Records(logs[n]) : e.seq <= b
    BY DEF Inv, TypeInv, LogsType
  <2>2. \A n \in DOMAIN logs' : \A e \in Records(logs'[n]) : e.seq <= b
    BY <1>3, <1>7, <2>1
  <2> QED BY <1>1, <1>3, <1>6, <2>2 DEF LogsType
<1>9. \A first : InLogs(logs', first) = InLogs(logs, first)
  BY <1>3, <1>7 DEF InLogs
<1>10. /\ Records(Synced(logs')[log]) = Records(logs[log])
       /\ \A n \in DOMAIN logs : Records(Synced(logs)[n]) \subseteq Records(Synced(logs')[n])
       /\ \A first : InLogs(Synced(logs), first) \subseteq InLogs(Synced(logs'), first)
  <2>1. \A n \in DOMAIN logs' : logs'[n] \in LogFile /\ logs'[n].synced <= Len(logs'[n].recs)
    BY <1>3, <1>6
  <2>2. \A n \in DOMAIN logs : logs[n] \in LogFile /\ logs[n].synced <= Len(logs[n].recs)
    BY <1>1
  <2>3. /\ DOMAIN logs' = DOMAIN logs /\ log \in DOMAIN logs
        /\ \A n \in DOMAIN logs : n # log => logs'[n] = logs[n]
        /\ logs'[log].recs = logs[log].recs /\ logs'[log].synced = Len(logs[log].recs)
    BY <1>1, <1>3, <1>4 DEF k
  <2> QED BY ONLY <2>1, <2>2, <2>3, SyncedMore
<1> QED BY <1>1, <1>3, <1>7, <1>8, <1>9, <1>10

(* A group that is synced, inserted, or fails to be synced.                *)
LEMMA GroupMovesOn ==
  ASSUME Inv, NEW t \in Threads, thread[t].pc \in {"sync", "insert"},
         NEW s \in Thread, s.pc \in {"insert", "finish"}, s.id = thread[t].id,
         s.sync = thread[t].sync, s.group = thread[t].group,
         thread' = [thread EXCEPT ![t] = s],
         UNCHANGED Writing, UNCHANGED past,
         lastSeq' = lastSeq, bgError' = bgError, scheduled' = scheduled, writers' = writers,
         events' \in Nat,
         DOMAIN logs' = DOMAIN logs, LogsType', Records(logs'[log]) = Records(logs[log]),
         \A first : /\ InLogs(logs', first) = InLogs(logs, first)
                    /\ InLogs(Synced(logs), first) \subseteq InLogs(Synced(logs'), first),
         Records(Synced(logs)[log]) \subseteq Records(Synced(logs')[log]),
         s.pc = "insert" => thread[t].pc = "sync"
                            /\ Records(logs[log]) \subseteq Records(Synced(logs')[log]),
         mem' = mem \/ (mem' = mem \cup GroupEntries(t) /\ s.pc = "finish"
                        /\ thread[t].pc = "insert"),
         s.pc = "finish" /\ s.ok => mem' = mem \cup GroupEntries(t) /\ thread[t].pc = "insert"
  PROVE  Inv'
<1>1. thread[t].pc \in WritingPcs /\ thread[t].pc \in Busy
  BY DEF WritingPcs, Busy
<1>2. /\ Running /\ phase = "open" /\ thread[t] \in Thread
      /\ \A u \in Threads : thread[u].pc \in WritingPcs => u = t
  BY <1>1, WriterIs
<1>3. GroupEntries(t) \in SUBSET Entry /\ lastSeq \in Nat
  BY <1>1, GroupIs, RunningIs DEF Inv
<1>4. /\ UNCHANGED <<tables, manifest, phase, imm, log, version, next, pending,
                     shutting, opening, reader, bg, writes, acked, promised, risky>>
  BY DEF Writing, past
<1>5. s.pc \in WritingPcs /\ s.pc \in Busy
  BY DEF WritingPcs, Busy
<1>6. /\ QueueInv' /\ GroupEntries(t)' = GroupEntries(t) /\ thread'[t] = s
      /\ \A u \in Threads : thread'[u].pc \in WritingPcs => u = t
  BY <1>1, <1>4, <1>5, WriterMoves
<1>7. /\ RestInv' /\ ReplayInv' /\ DiskInv' /\ NumbersInv' /\ VersionInv' /\ BgInv'
      /\ EditInv' /\ ReaderInv'
      /\ TablesType' /\ StateType' /\ FlagsType' /\ BgType' /\ OpeningType' /\ ReaderType'
  <2>1. bgError' \in BOOLEAN /\ (bgError => bgError')
    BY DEF Inv, TypeInv, FlagsType
  <2>2. lastSeq' \in Nat /\ lastSeq <= lastSeq'
    BY <1>3
  <2> QED BY <1>2, <2>1, <2>2, WritingKeeps
<1>8. TypeInv'
  <2>1. mem' \subseteq Entry
    BY <1>3 DEF Inv, TypeInv, MemType
  <2>2. MemType'
    BY <1>4, <2>1 DEF Inv, TypeInv, MemType
  <2>3. PastType'
    BY <1>4 DEF Inv, TypeInv, PastType
  <2> QED BY <1>7, <2>2, <2>3 DEF TypeInv
<1>9. Running'
  BY <1>2, <1>4 DEF Running
<1>10. /\ Flushed' = Flushed /\ Content(Files(manifest))' = Content(Files(manifest))
       /\ Content(Files(version))' = Content(Files(version))
       /\ InLogs(logs', version.log') = InLogs(logs, version.log)
       /\ mem \subseteq mem' /\ mem' \subseteq mem \cup GroupEntries(t)
  BY <1>4 DEF Flushed, Content, Files
<1>11. SeqInv'
  <2>1. /\ \A e \in mem : e.seq <= lastSeq
        /\ \A e \in Flushed : e.seq <= lastSeq
        /\ \A e \in InLogs(logs, version.log) : e.seq <= lastSeq \/ e \in GroupEntries(t)
    BY <1>1, KnownIs
  <2>2. Current({"sync", "insert", "finish"})' = GroupEntries(t)
    <3>1. {u \in Threads : thread'[u].pc \in {"sync", "insert", "finish"}} = {t}
      BY <1>5, <1>6 DEF Busy, WritingPcs
    <3>2. Current({"sync", "insert", "finish"})' = UNION {GroupEntries(u)' : u \in {t}}
      BY <3>1 DEF Current
    <3> QED BY <1>6, <3>2
  <2>3. s.pc = "finish" => Current({"finish"})' = GroupEntries(t)
    <3> SUFFICES ASSUME s.pc = "finish" PROVE Current({"finish"})' = GroupEntries(t)
      OBVIOUS
    <3>1. {u \in Threads : thread'[u].pc \in {"finish"}} = {t}
      BY <1>5, <1>6 DEF Busy, WritingPcs
    <3>2. Current({"finish"})' = UNION {GroupEntries(u)' : u \in {t}}
      BY <3>1 DEF Current
    <3> QED BY <1>6, <3>2
  <2>4. Known' \subseteq Known \cup GroupEntries(t)
    BY <1>10 DEF Known
  <2>5. Unique(Known)'
    <3>1. Unique(Known')
      BY <1>1, <2>4, GroupIsNew
    <3> QED BY <3>1 DEF Unique
  <2>6. \A e \in mem' : e.seq <= lastSeq' \/ e \in Current({"finish"})'
    BY <2>1, <2>3
  <2>7. \A e \in InLogs(logs, version.log)' :
          e.seq <= lastSeq' \/ e \in Current({"sync", "insert", "finish"})'
    BY <1>10, <2>1, <2>2
  <2>8. \A e \in Flushed' : e.seq <= lastSeq'
    BY <1>10, <2>1
  <2> QED BY <1>9, <2>5, <2>6, <2>7, <2>8 DEF SeqInv
<1>12. thread[t].pc \in {"sync", "insert"} => Firm(GroupEntries(t)) \subseteq Records(logs[log])
  BY DEF Inv, GroupInv
<1>13. SafeInv'
  <2>1. /\ acked \ risky \subseteq
             Ids(Visible(mem \cup Flushed \cup Content(Files(version)), lastSeq))
        /\ Firm(mem) \subseteq Records(logs[log])
        /\ Firm(Flushed) \subseteq InLogs(logs, version.log)
        /\ \A id \in promised \ risky : Durable(id)
    BY <1>2 DEF Inv, SafeInv
  <2>2. /\ Firm(mem)' \subseteq Firm(mem) \cup Firm(GroupEntries(t))
        /\ Firm(Flushed)' = Firm(Flushed)
    BY <1>4, <1>10 DEF Firm
  <2>3. \A id : Durable(id) => Durable(id)'
    BY <1>4, <1>10 DEF Durable
  <2>4. \A id \in promised' \ risky' : Durable(id)'
    BY <1>4, <2>1, <2>3
  <2>5. acked' \ risky' \subseteq
          Ids(Visible(mem \cup Flushed \cup Content(Files(version)), lastSeq))'
    <3>1. Visible(mem \cup Flushed \cup Content(Files(version)), lastSeq)
            \subseteq Visible(mem \cup Flushed \cup Content(Files(version)), lastSeq)'
      BY <1>10 DEF Visible
    <3> QED BY <1>4, <2>1, <3>1 DEF Ids
  <2>6. Firm(mem)' \subseteq Records(logs'[log']) /\ Firm(Flushed)' \subseteq InLogs(logs', version.log')
    BY <1>4, <1>10, <1>12, <2>1, <2>2
  <2> QED BY <1>2, <1>4, <1>9, <2>4, <2>5, <2>6 DEF SafeInv
<1>14. GroupInv'
  <2> SUFFICES ASSUME NEW u \in Threads, thread'[u].pc \in WritingPcs
               PROVE  (/\ thread[u].pc \in {"sync", "insert"} \/ (thread[u].pc = "finish" /\ thread[u].ok)
                            => Firm(GroupEntries(u)) \subseteq Records(logs[log])
                       /\ thread[u].pc = "insert" /\ thread[u].sync
                            => Firm(GroupEntries(u)) \subseteq Records(Synced(logs)[log])
                       /\ thread[u].pc = "finish" /\ thread[u].ok /\ thread[u].sync
                            => Firm(GroupEntries(u)) \subseteq Records(Synced(logs)[log])
                       /\ thread[u].pc = "finish" /\ thread[u].ok => GroupEntries(u) \subseteq mem)'
    BY DEF GroupInv, WritingPcs, Busy
  <2>1. u = t
    BY <1>6
  <2>2. Firm(GroupEntries(t))' = Firm(GroupEntries(t))
    BY <1>4, <1>6 DEF Firm
  <2>3. Firm(GroupEntries(t))' \subseteq Records(logs'[log'])
    BY <1>4, <1>12, <2>2
  <2>4. thread'[t].pc = "insert" => Firm(GroupEntries(t))' \subseteq Records(Synced(logs')[log'])
    BY <1>4, <1>6, <1>12, <2>2
  <2>5. ASSUME thread'[t].pc = "finish", thread'[t].ok, thread'[t].sync
        PROVE  Firm(GroupEntries(t))' \subseteq Records(Synced(logs')[log'])
    <3>1. thread[t].pc = "insert" /\ thread[t].sync
      BY <1>6, <2>5
    <3>2. Firm(GroupEntries(t)) \subseteq Records(Synced(logs)[log])
      BY <3>1 DEF Inv, GroupInv
    <3> QED BY <1>4, <2>2, <3>2
  <2>6. thread'[t].pc = "finish" /\ thread'[t].ok => GroupEntries(t)' \subseteq mem'
    BY <1>6
  <2> QED BY <2>1, <2>3, <2>4, <2>5, <2>6
<1> QED BY <1>6, <1>7, <1>8, <1>11, <1>13, <1>14 DEF Inv

LEMMA SyncLogKeeps ==
  ASSUME Inv, NEW t \in Threads, SyncLog(t)
  PROVE  Inv'
<1>1. /\ thread[t].pc = "sync" /\ thread[t].pc \in WritingPcs
      /\ UNCHANGED Writing /\ UNCHANGED past
      /\ UNCHANGED <<mem, lastSeq, bgError, scheduled, writers>>
  BY DEF SyncLog, WritingPcs, Busy
<1>2. Running /\ thread[t] \in Thread /\ thread \in [Threads -> Thread] /\ events \in Nat
  BY <1>1, WriterIs DEF Inv, TypeInv, PastType
<1>3. CASE /\ logs' = [logs EXCEPT ![log].synced = Len(logs[log].recs)]
           /\ thread' = [thread EXCEPT ![t].pc = "insert"]
           /\ UNCHANGED events
  <2> DEFINE s == [thread[t] EXCEPT !.pc = "insert"]
  <2>1. /\ DOMAIN logs' = DOMAIN logs /\ LogsType'
        /\ Records(logs'[log]) = Records(logs[log])
        /\ \A first : /\ InLogs(logs', first) = InLogs(logs, first)
                      /\ InLogs(Synced(logs), first) \subseteq InLogs(Synced(logs'), first)
        /\ Records(Synced(logs)[log]) \subseteq Records(Synced(logs')[log])
        /\ Records(Synced(logs')[log]) = Records(logs[log])
    BY <1>2, <1>3, LogSynced
  <2>2. thread' = [thread EXCEPT ![t] = s]
    BY <1>3
  <2>3. /\ s \in Thread /\ s.pc = "insert" /\ s.id = thread[t].id /\ s.sync = thread[t].sync
        /\ s.group = thread[t].group
    BY <1>2 DEF Thread
  <2> HIDE DEF s
  <2> QED BY <1>1, <1>2, <1>3, <2>1, <2>2, <2>3, GroupMovesOn
<1>4. CASE /\ Event
           /\ thread' = [thread EXCEPT ![t].pc = "finish", ![t].ok = FALSE,
                                       ![t].syncError = TRUE]
           /\ UNCHANGED logs
  <2> DEFINE s == [thread[t] EXCEPT !.pc = "finish", !.ok = FALSE, !.syncError = TRUE]
  <2>1. thread' = [thread EXCEPT ![t] = s]
    BY <1>2, <1>4 DEF Thread
  <2>2. /\ s \in Thread /\ s.pc = "finish" /\ s.id = thread[t].id /\ s.sync = thread[t].sync
        /\ s.group = thread[t].group /\ ~s.ok
    BY <1>2 DEF Thread
  <2> HIDE DEF s
  <2>3. LogsType' /\ logs' = logs /\ events' \in Nat
    <3>1. LogsType /\ logs' = logs
      BY <1>4 DEF Inv, TypeInv
    <3>2. LogsType'
      BY ONLY <3>1 DEF LogsType
    <3> QED BY <1>2, <1>4, <3>2 DEF Event
  <2> QED BY <1>1, <2>1, <2>2, <2>3, GroupMovesOn
<1> QED BY <1>3, <1>4 DEF SyncLog

LEMMA InsertIntoKeeps ==
  ASSUME Inv, NEW t \in Threads, InsertInto(t)
  PROVE  Inv'
<1>1. /\ thread[t].pc = "insert" /\ thread[t].pc \in WritingPcs
      /\ UNCHANGED Writing /\ UNCHANGED past
      /\ UNCHANGED <<logs, lastSeq, bgError, scheduled, writers, events>>
      /\ mem' = mem \cup GroupEntries(t)
      /\ thread' = [thread EXCEPT ![t].pc = "finish"]
  BY DEF InsertInto, WritingPcs, Busy
<1>2. thread[t] \in Thread /\ thread \in [Threads -> Thread] /\ events \in Nat
  BY <1>1, WriterIs DEF Inv, TypeInv, PastType
<1> DEFINE s == [thread[t] EXCEPT !.pc = "finish"]
<1>3. thread' = [thread EXCEPT ![t] = s]
  BY <1>1
<1>4. /\ s \in Thread /\ s.pc = "finish" /\ s.id = thread[t].id /\ s.sync = thread[t].sync
      /\ s.group = thread[t].group
  BY <1>2 DEF Thread
<1> HIDE DEF s
<1>5. LogsType'
  <2>1. LogsType /\ logs' = logs
    BY <1>1 DEF Inv, TypeInv
  <2> QED BY ONLY <2>1 DEF LogsType
<1> QED BY <1>1, <1>2, <1>3, <1>4, <1>5, GroupMovesOn

(* Everything held is an entry.                                            *)
LEMMA EntriesAre ==
  ASSUME TypeInv
  PROVE  /\ \A n \in DOMAIN logs : Records(logs[n]) \subseteq Entry
         /\ \A first : InLogs(logs, first) \subseteq Entry
         /\ mem \subseteq Entry /\ Flushed \subseteq Entry
         /\ \A files \in SUBSET DOMAIN tables : Content(files) \subseteq Entry
         /\ \A e \in Entry : e.id \in Nat /\ e.seq \in Nat
<1>1. \A n \in DOMAIN logs : logs[n] \in LogFile
  BY DEF TypeInv, LogsType
<1>2. ASSUME NEW n \in DOMAIN logs PROVE Records(logs[n]) \subseteq Entry
  <2>1. logs[n].recs \in Seq(SUBSET Entry)
    BY <1>1, LogFileIs
  <2>2. \A i \in DOMAIN logs[n].recs : logs[n].recs[i] \subseteq Entry
    BY <2>1
  <2> QED BY <2>2 DEF Records
<1>3. \A first : InLogs(logs, first) \subseteq Entry
  BY <1>2 DEF InLogs
<1>4. mem \subseteq Entry /\ Flushed \subseteq Entry
  BY DEF TypeInv, MemType, Flushed
<1>5. \A files \in SUBSET DOMAIN tables : Content(files) \subseteq Entry
  BY DEF TypeInv, TablesType, Content
<1> QED BY <1>2, <1>3, <1>4, <1>5, EntryIs

LEMMA FinishKeeps ==
  ASSUME Inv, NEW t \in Threads, Finish(t)
  PROVE  Inv'
<1> DEFINE n == thread[t].group
           ok == thread[t].ok
           th == IF thread[t].syncError /\ ~bgError THEN SignalAll(thread) ELSE thread
<1>1. /\ thread[t].pc = "finish" /\ thread[t].pc \in WritingPcs /\ thread[t].pc \in Busy
      /\ lastSeq' = lastSeq + Count(t)
      /\ bgError' = (bgError \/ thread[t].syncError)
      /\ Leave(n, ok, writers, th)
      /\ UNCHANGED Writing
      /\ UNCHANGED <<logs, mem, scheduled, risky, events>>
  BY DEF Finish, WritingPcs, Busy
<1>2. /\ Running /\ phase = "open" /\ thread[t] \in Thread /\ thread \in [Threads -> Thread]
      /\ \A u \in Threads : thread[u].pc \in WritingPcs => u = t
      /\ n \in 1 .. Len(writers) /\ Len(writers) \in Nat
      /\ \A i \in 1 .. Len(writers) : writers[i] \in Threads
      /\ \A i \in 1 .. n :
           i \in 1 .. Len(writers) /\ (thread[writers[i]].sync => thread[t].sync)
  BY <1>1, WriterIs
<1>3. /\ Count(t) \in Nat /\ GroupEntries(t) \subseteq Entry /\ lastSeq \in Nat
      /\ \A e \in GroupEntries(t) : e.seq <= lastSeq + Count(t)
      /\ \A i \in 1 .. n : thread[writers[i]].id # 0 =>
           \E e \in GroupEntries(t) : e.id = thread[writers[i]].id
  BY <1>1, GroupIs, RunningIs DEF Inv
<1>4. UNCHANGED <<tables, manifest, phase, imm, log, version, next, pending,
                  shutting, opening, reader, bg, writes>>
  BY <1>1 DEF Writing
<1>5. Line(writers, thread, writes) /\ writes \in Nat
  BY DEF Inv, QueueInv, Order, TypeInv, PastType
<1>6. Line(writers, th, writes)
  <2>1. Line(writers, SignalAll(thread), writes)
    BY <1>5, SignalOrders
  <2> QED BY <1>5, <2>1
<1>7. \A u \in Threads : th[u].id = thread[u].id /\ th[u].sync = thread[u].sync
  <2>1. \A u \in Threads : SignalAll(thread)[u].id = thread[u].id
                           /\ SignalAll(thread)[u].sync = thread[u].sync
    BY <1>2, SignalIs
  <2> QED BY <2>1
<1>8. ok \in BOOLEAN /\ thread[t].syncError \in BOOLEAN /\ bgError \in BOOLEAN
      /\ scheduled \in BOOLEAN
  BY <1>2, ThreadIs DEF Inv, TypeInv, FlagsType
<1> HIDE DEF th
<1>9. /\ Order(writers', thread', writes) /\ \A u \in Threads : thread'[u].pc \notin WritingPcs
      /\ acked' = acked \cup {th[writers[i]].id : i \in
                        {j \in 1 .. n : ok /\ th[writers[j]].id # 0}}
      /\ promised' = promised \cup {th[writers[i]].id : i \in
              {j \in 1 .. n : ok /\ th[writers[j]].id # 0 /\ th[writers[j]].sync}}
  <2> HIDE DEF n, ok
  <2> QED BY <1>1, <1>2, <1>5, <1>6, <1>8, LeaveOrders
<1>10. QueueInv' /\ Quiet'
  BY <1>4, <1>9 DEF QueueInv, Quiet, WritingPcs
<1>11. \A i \in 1 .. n : /\ writers[i] \in Threads /\ th[writers[i]].id = thread[writers[i]].id
                         /\ th[writers[i]].sync = thread[writers[i]].sync
  BY <1>2, <1>7
<1>12. ASSUME NEW id \in acked', id \notin acked
       PROVE  ok /\ \E e \in GroupEntries(t) : e.id = id
  BY <1>3, <1>9, <1>11, <1>12
<1>13. ASSUME NEW id \in promised', id \notin promised
       PROVE  /\ ok /\ thread[t].sync /\ id # 0 /\ id \in acked'
              /\ \E e \in GroupEntries(t) : e.id = id
              /\ \E i \in 1 .. n : id = thread[writers[i]].id
  <2>1. PICK i \in 1 .. n : /\ ok /\ th[writers[i]].id # 0 /\ th[writers[i]].sync
                            /\ id = th[writers[i]].id
    BY <1>9, <1>13
  <2> QED BY <1>2, <1>3, <1>9, <1>11, <2>1
<1>14. lastSeq' \in Nat /\ lastSeq <= lastSeq'
  BY <1>1, <1>3
<1>15. /\ RestInv' /\ ReplayInv' /\ DiskInv' /\ NumbersInv' /\ VersionInv' /\ BgInv'
       /\ EditInv' /\ ReaderInv'
       /\ TablesType' /\ StateType' /\ FlagsType' /\ BgType' /\ OpeningType' /\ ReaderType'
  <2>1. bgError' \in BOOLEAN /\ (bgError => bgError')
    BY <1>1, <1>8
  <2> QED BY <1>1, <1>2, <1>14, <2>1, WritingKeeps
<1>16. TypeInv'
  <2>1. LogsType'
    <3>1. LogsType /\ logs' = logs
      BY <1>1 DEF Inv, TypeInv
    <3> QED BY ONLY <3>1 DEF LogsType
  <2>2. MemType'
    BY <1>1, <1>4 DEF Inv, TypeInv, MemType
  <2>3. acked' \subseteq Nat
    <3> SUFFICES ASSUME NEW id \in acked' PROVE id \in Nat
      OBVIOUS
    <3>1. CASE id \in acked
      BY <3>1 DEF Inv, TypeInv, PastType
    <3>2. CASE id \notin acked
      BY <1>3, <1>12, <3>2, EntryIs
    <3> QED BY <3>1, <3>2
  <2>4. promised' \subseteq 1 .. writes
    <3> SUFFICES ASSUME NEW id \in promised' PROVE id \in 1 .. writes
      OBVIOUS
    <3>1. CASE id \in promised
      BY <3>1 DEF Inv, TypeInv, PastType
    <3>2. CASE id \notin promised
      <4>1. PICK i \in 1 .. n : id = thread[writers[i]].id
        BY <1>13, <3>2
      <4>2. writers[i] \in Threads /\ id # 0
        BY <1>11, <1>13, <3>2
      <4>3. thread[writers[i]].id \in Nat /\ thread[writers[i]].id <= writes
        BY <1>2, <1>5, <4>2, ThreadIs DEF Line
      <4> QED BY <1>5, <4>1, <4>2, <4>3
    <3> QED BY <3>1, <3>2
  <2>5. PastType'
    BY <1>1, <1>4, <2>3, <2>4 DEF Inv, TypeInv, PastType
  <2> QED BY <1>15, <2>1, <2>2, <2>5 DEF TypeInv
<1>17. Running'
  BY <1>2, <1>4 DEF Running
<1>18. /\ Flushed' = Flushed /\ Content(Files(manifest))' = Content(Files(manifest))
       /\ Content(Files(version))' = Content(Files(version))
       /\ InLogs(logs', version.log') = InLogs(logs, version.log)
       /\ mem' = mem
  BY <1>1, <1>4 DEF Flushed, Content, Files
<1>19. \A e \in mem \cup Flushed \cup InLogs(logs, version.log) : e.seq <= lastSeq'
  <2>1. \A e \in mem \cup Flushed \cup InLogs(logs, version.log) :
           e.seq <= lastSeq \/ e \in GroupEntries(t)
    BY <1>1, KnownIs
  <2>2. \A e \in mem \cup Flushed \cup InLogs(logs, version.log) : e.seq \in Nat
    BY EntriesAre DEF Inv
  <2> QED BY <1>1, <1>3, <1>14, <2>1, <2>2
<1>20. SeqInv'
  <2>1. Known' = Known
    BY <1>18 DEF Known
  <2>2. Unique(Known)'
    <3>1. Unique(Known)
      BY <1>1, KnownIs
    <3> QED BY <2>1, <3>1 DEF Unique
  <2> QED BY <1>17, <1>18, <1>19, <2>2 DEF SeqInv
<1>21. SafeInv'
  <2> DEFINE all == mem \cup Flushed \cup Content(Files(version))
  <2>1. /\ acked \ risky \subseteq Ids(Visible(all, lastSeq))
        /\ Firm(mem) \subseteq Records(logs[log])
        /\ Firm(Flushed) \subseteq InLogs(logs, version.log)
        /\ \A id \in promised \ risky : Durable(id)
    BY <1>2 DEF Inv, SafeInv
  <2>2. all' = all
    BY <1>18
  <2>3. all \subseteq Entry
    <3>1. Files(version) \in SUBSET DOMAIN tables
      BY <1>2, RunningIs
    <3> QED BY <3>1, EntriesAre DEF Inv
  <2>4. \A e \in all : e.seq \in Nat
    BY <2>3, EntryIs
  <2>5. ok => GroupEntries(t) \subseteq mem /\ Firm(GroupEntries(t)) \subseteq Records(logs[log])
    BY <1>1 DEF Inv, GroupInv
  <2>6. ok /\ thread[t].sync => Firm(GroupEntries(t)) \subseteq Records(Synced(logs)[log])
    BY <1>1 DEF Inv, GroupInv
  <2>7. acked' \ risky' \subseteq Ids(Visible(all', lastSeq'))
    <3> SUFFICES ASSUME NEW id \in acked', id \notin risky
                 PROVE  \E e \in all : e.id = id /\ e.seq <= lastSeq'
      BY <1>1, <2>2 DEF Ids, Visible
    <3>1. CASE id \in acked
      <4>1. PICK e \in all : e.id = id /\ e.seq <= lastSeq
        BY <2>1, <3>1 DEF Ids, Visible
      <4>2. e.seq <= lastSeq'
        BY <1>3, <1>14, <2>4, <4>1
      <4> QED BY <4>1, <4>2
    <3>2. CASE id \notin acked
      <4>1. PICK e \in GroupEntries(t) : e.id = id
        BY <1>12, <3>2
      <4>2. e \in mem
        BY <1>12, <2>5, <3>2
      <4> QED BY <1>19, <4>1, <4>2
    <3> QED BY <3>1, <3>2
  <2>8. Firm(mem)' = Firm(mem) /\ Firm(Flushed)' = Firm(Flushed)
    BY <1>1, <1>18 DEF Firm
  <2>9. ASSUME NEW id \in promised', id \notin risky PROVE Durable(id)'
    <3>1. CASE id \in promised
      <4>1. PICK e \in mem \cup Flushed \cup Content(Files(version)) :
              /\ e.id = id /\ e.seq <= lastSeq
              /\ \/ e \in Content(Files(version))
                 \/ e \in Flushed \cap InLogs(Synced(logs), version.log)
                 \/ e \in mem \cap Records(Synced(logs)[log])
        BY <2>1, <2>9, <3>1 DEF Durable
      <4>2. e.seq <= lastSeq'
        BY <1>3, <1>14, <2>4, <4>1
      <4> QED BY <1>1, <1>4, <1>18, <4>1, <4>2 DEF Durable
    <3>2. CASE id \notin promised
      <4>1. PICK e \in GroupEntries(t) : e.id = id
        BY <1>13, <3>2
      <4>2. ok /\ thread[t].sync
        BY <1>13, <3>2
      <4>3. e \in mem /\ e \in Records(Synced(logs)[log]) /\ e.seq <= lastSeq'
        BY <1>19, <2>5, <2>6, <2>9, <4>1, <4>2 DEF Firm
      <4> QED BY <1>1, <1>4, <1>18, <4>1, <4>3 DEF Durable
    <3> QED BY <3>1, <3>2
  <2>10. \A id \in promised' \ risky' : Durable(id)'
    BY <1>1, <2>9
  <2>11. Firm(mem)' \subseteq Records(logs'[log']) /\ Firm(Flushed)' \subseteq InLogs(logs', version.log')
    BY <1>1, <1>4, <2>1, <2>8
  <2> QED BY <1>2, <1>4, <1>17, <2>7, <2>10, <2>11 DEF SafeInv
<1>22. GroupInv'
  BY <1>10 DEF GroupInv, Quiet, Busy
<1> QED BY <1>10, <1>15, <1>16, <1>20, <1>21, <1>22 DEF Inv

-----------------------------------------------------------------------------
(* The steps of the background thread.                                     *)

LEMMA OpenSeq ==
  ASSUME SeqInv, Steady, Running, Running', mem' = mem, lastSeq' = lastSeq,
         Flushed' \subseteq Flushed,
         InLogs(logs, version.log)' \subseteq InLogs(logs, version.log),
         Content(Files(manifest))' \subseteq Known
  PROVE  SeqInv'
<1>1. ASSUME NEW pcs \in SUBSET Busy PROVE Current(pcs)' = Current(pcs)
  <2>1. \A u \in Threads : thread'[u].pc \in pcs \/ thread[u].pc \in pcs
          => thread'[u] = thread[u] /\ GroupEntries(u)' = GroupEntries(u)
    BY DEF Steady
  <2> QED BY <2>1 DEF Current
<1>2. {"finish"} \in SUBSET Busy /\ {"sync", "insert", "finish"} \in SUBSET Busy
  BY DEF Busy
<1>3. /\ Current({"finish"})' = Current({"finish"})
      /\ Current({"sync", "insert", "finish"})' = Current({"sync", "insert", "finish"})
  BY <1>1, <1>2
<1>4. /\ Unique(Known)
      /\ \A e \in Flushed : e.seq <= lastSeq
      /\ \A e \in mem : e.seq <= lastSeq \/ e \in Current({"finish"})
      /\ \A e \in InLogs(logs, version.log) :
           e.seq <= lastSeq \/ e \in Current({"sync", "insert", "finish"})
  BY DEF SeqInv
<1>5. Known' \subseteq Known
  BY DEF Known
<1>6. Unique(Known)'
  BY <1>4, <1>5 DEF Unique
<1> QED BY <1>3, <1>4, <1>6 DEF SeqInv

LEMMA OpenSafe ==
  ASSUME SafeInv, Running, phase' = "open",
         UNCHANGED <<mem, lastSeq, acked, promised, risky, log>>,
         Records(logs'[log]) = Records(logs[log]),
         Records(Synced(logs')[log]) = Records(Synced(logs)[log]),
         Content(Files(version)) \subseteq Content(Files(version))',
         \/ Flushed \subseteq Content(Files(version))' /\ Flushed' = {}
         \/ /\ Flushed' = Flushed
            /\ InLogs(logs, version.log) \subseteq InLogs(logs', version'.log)
            /\ InLogs(Synced(logs), version.log) \subseteq InLogs(Synced(logs'), version'.log)
  PROVE  SafeInv'
<1> DEFINE all == mem \cup Flushed \cup Content(Files(version))
<1>1. /\ acked \ risky \subseteq Ids(Visible(all, lastSeq))
      /\ Firm(mem) \subseteq Records(logs[log])
      /\ Firm(Flushed) \subseteq InLogs(logs, version.log)
      /\ \A id \in promised \ risky : Durable(id)
  BY DEF SafeInv
<1>2. all \subseteq all'
  OBVIOUS
<1>3. Ids(Visible(all, lastSeq)) \subseteq Ids(Visible(all, lastSeq))'
  BY <1>2 DEF Ids, Visible
<1>4. Firm(mem)' = Firm(mem)
  BY DEF Firm
<1>5. Firm(Flushed)' \subseteq InLogs(logs', version'.log)
  BY <1>1 DEF Firm
<1>6. ASSUME NEW id \in promised \ risky PROVE Durable(id)'
  <2>1. PICK e \in mem \cup Flushed \cup Content(Files(version)) :
          /\ e.id = id /\ e.seq <= lastSeq
          /\ \/ e \in Content(Files(version))
             \/ e \in Flushed \cap InLogs(Synced(logs), version.log)
             \/ e \in mem \cap Records(Synced(logs)[log])
    BY <1>1, <1>6 DEF Durable
  <2> QED BY <1>2, <2>1 DEF Durable
<1>7. Running'
  BY DEF Running
<1> QED BY <1>1, <1>3, <1>4, <1>5, <1>6, <1>7 DEF SafeInv

LEMMA BgMoves ==
  ASSUME Inv, phase = "open",
         UNCHANGED <<logs, manifest, phase, mem, imm, log, version, lastSeq, shutting, writers,
                     opening, reader, acked, promised, risky, writes>>,
         thread' = thread \/ thread' = SignalAll(thread),
         next' \in Nat, next <= next', pending' \subseteq 1 .. next' - 1,
         scheduled' \in BOOLEAN, bgError' \in BOOLEAN, bgError => bgError',
         events' \in Nat, BgType', TablesType',
         \A n \in Files(version) \cup Files(manifest) \cup reader.files :
           n \in DOMAIN tables => n \in DOMAIN tables' /\ tables'[n] = tables[n],
         bg.pc # "install", bg'.pc # "install", BgInv', EditInv'
  PROVE  Inv'
<1>1. TypeInv /\ QueueInv
  BY DEF Inv
<1>2. QueueInv' /\ Steady
  BY <1>1, SignalSteps
<1>3. Running /\ Running'
  BY DEF Running
<1>4. /\ Files(version) \subseteq DOMAIN tables /\ Files(manifest) \subseteq DOMAIN tables
      /\ next \in Nat /\ lastSeq \in Nat /\ next > 0
  BY <1>3, RunningIs DEF Inv, DiskInv, TypeInv, StateType
<1>5. /\ Files(version)' = Files(version) /\ Files(manifest)' = Files(manifest)
      /\ Flushed' = Flushed
  BY DEF Files, Flushed
<1>6. /\ Content(Files(version))' = Content(Files(version))
      /\ Content(Files(manifest))' = Content(Files(manifest))
  BY <1>4, <1>5 DEF Content
<1>7. TypeInv'
  <2>1. LogsType'
    <3>1. LogsType /\ logs' = logs
      BY <1>1 DEF TypeInv
    <3> QED BY ONLY <3>1 DEF LogsType
  <2>2. MemType' /\ OpeningType' /\ ReaderType' /\ PastType'
    BY <1>1 DEF TypeInv, MemType, OpeningType, ReaderType, PastType
  <2>3. StateType'
    <3>1. next' > 0
      BY <1>4
    <3> QED BY <1>1, <3>1 DEF TypeInv, StateType
  <2>4. FlagsType'
    BY <1>1 DEF TypeInv, FlagsType
  <2> QED BY <2>1, <2>2, <2>3, <2>4 DEF TypeInv
<1>8. RestInv' /\ ReplayInv'
  BY FrameOpen
<1>9. DiskInv'
  <2>1. Files(manifest) \subseteq DOMAIN tables'
    BY <1>4
  <2> QED BY <1>5, <1>6, <2>1 DEF Inv, DiskInv
<1>10. NumbersInv'
  <2>1. Files(version) \subseteq DOMAIN tables'
    BY <1>4
  <2>2. /\ manifest.next <= next /\ manifest.seq <= lastSeq
        /\ \A n \in Files(version) : n < next /\ n \in Nat
        /\ manifest.next \in Nat
    BY <1>3, RunningIs DEF Inv, NumbersInv
  <2>3. manifest.next <= next' /\ \A n \in Files(version) : n < next'
    BY <1>4, <2>2
  <2> QED BY <1>5, <2>1, <2>2, <2>3 DEF NumbersInv
<1>11. VersionInv'
  <2>1. /\ log \in DOMAIN logs /\ \A n \in DOMAIN logs : n < next /\ n \in Nat
        /\ version.log <= manifest.log /\ manifest.log <= log
    BY <1>3, RunningIs
  <2>2. \A n \in DOMAIN logs : n < next'
    BY <1>4, <2>1
  <2>3. /\ Content(Files(version)) \subseteq Content(Files(manifest))
        /\ manifest.log = version.log \/ Flushed \subseteq Content(Files(manifest))
        /\ ~bgError => SameFiles(manifest, version)
    BY <1>3 DEF Inv, VersionInv
  <2>4. ~bgError' => SameFiles(manifest', version')
    BY <2>3
  <2> QED BY <1>5, <1>6, <2>1, <2>2, <2>3, <2>4 DEF VersionInv
<1>12. SeqInv'
  <2>1. InLogs(logs, version.log)' = InLogs(logs, version.log)
    OBVIOUS
  <2>2. Content(Files(manifest))' \subseteq Known
    BY <1>6 DEF Known
  <2> QED BY <1>2, <1>3, <1>5, <2>1, <2>2, OpenSeq DEF Inv
<1>13. SafeInv'
  BY <1>3, <1>5, <1>6, OpenSafe DEF Inv
<1>14. GroupInv'
  BY <1>2, FrameGroup DEF Inv
<1>15. ReaderInv'
  BY <1>1, FrameReader DEF Inv
<1> QED BY <1>2, <1>7, <1>8, <1>9, <1>10, <1>11, <1>12, <1>13, <1>14, <1>15 DEF Inv

(* The next number is no file's.                                           *)
LEMMA NextIsFresh ==
  ASSUME Inv, phase = "open"
  PROVE  Fresh(next) /\ next \notin DOMAIN logs
<1>1. /\ \A n \in Files(version) : n < next
      /\ \A n \in Files(manifest) : n < manifest.next
      /\ manifest.next <= next
  BY DEF Inv, NumbersInv, DiskInv
<1>2. \A n \in reader.files : n < next
  <2>1. reader.on => \A n \in reader.files : n < next
    BY DEF Inv, ReaderInv
  <2>2. ~reader.on => reader.files = {}
    BY DEF Inv, ReaderInv, Idle
  <2> QED BY <2>1, <2>2
<1>3. /\ next \in Nat /\ manifest.next \in Nat /\ Files(version) \subseteq Nat
      /\ Files(manifest) \subseteq Nat /\ Running /\ \A n \in DOMAIN logs : n < next
      /\ reader.files \subseteq Nat
  <2>1. Running
    BY DEF Running
  <2> QED BY <2>1, RunningIs DEF Inv, TypeInv, ReaderType
<1>4. \A n \in Files(version) \cup Files(manifest) \cup reader.files : n < next
  BY <1>1, <1>2, <1>3
<1>5. ~(next < next)
  BY <1>3
<1> QED BY <1>3, <1>4, <1>5 DEF Fresh

LEMMA BgIs ==
  ASSUME NEW b \in Background
  PROVE  /\ b.pc \in {"idle", "merge", "build", "log", "install"}
         /\ b.merging \in BOOLEAN /\ b.flushing \in BOOLEAN
         /\ b.inputs \subseteq Nat /\ b.output \in Nat /\ b.out \in Nat /\ b.edit \in Edit
         /\ b.edit.next \in Nat /\ b.edit.seq \in Nat /\ b.edit.log \in Nat
BY DEF Background, Edit

LEMMA BgIdleIs ==
  BgIdle \in Background
BY DEF BgIdle, Background, Edit

(* A flush that ends goes back to its compaction.                          *)
Resumed == [bg EXCEPT !.pc = "merge", !.flushing = FALSE, !.out = 0]

LEMMA ResumedIs ==
  ASSUME bg \in Background
  PROVE  /\ Resumed \in Background /\ Resumed.pc = "merge" /\ ~Resumed.flushing
         /\ Resumed.out = 0 /\ Resumed.merging = bg.merging
         /\ Resumed.inputs = bg.inputs /\ Resumed.output = bg.output
BY DEF Resumed, Background

LEMMA FailIs ==
  ASSUME Inv, Fail, bg.pc # "idle"
  PROVE  /\ bgError' = TRUE /\ scheduled' \in BOOLEAN /\ thread' = SignalAll(thread)
         /\ pending' \subseteq pending /\ BgType' /\ bg'.pc # "install"
         /\ \/ bg' = BgIdle
            \/ bg.merging /\ bg.flushing /\ bg' = Resumed /\ pending' = pending \ {bg.out}
<1>1. bg \in Background /\ scheduled /\ scheduled \in BOOLEAN
  BY DEF Inv, TypeInv, BgType, FlagsType
<1>2. /\ bgError' = TRUE /\ thread' = SignalAll(thread) /\ pending' \subseteq pending
      /\ \/ bg' = BgIdle /\ MaybeScheduleCompaction(FALSE, TRUE, imm, version)
         \/ bg.merging /\ bg.flushing /\ bg' = Resumed /\ pending' = pending \ {bg.out}
            /\ scheduled' = scheduled
  BY DEF Fail, EndFlush, EndCall, Resumed
<1>3. CASE bg' = BgIdle /\ MaybeScheduleCompaction(FALSE, TRUE, imm, version)
  <2>1. scheduled' \in BOOLEAN
    BY <1>3 DEF MaybeScheduleCompaction
  <2>2. BgType' /\ bg'.pc # "install"
    BY <1>3, BgIdleIs DEF BgType, BgIdle
  <2> QED BY <1>2, <1>3, <2>1, <2>2
<1>4. CASE bg.merging /\ bg.flushing /\ bg' = Resumed /\ pending' = pending \ {bg.out}
            /\ scheduled' = scheduled
  <2>1. BgType' /\ bg'.pc # "install"
    BY <1>1, <1>4, ResumedIs DEF BgType
  <2> QED BY <1>1, <1>2, <1>4, <2>1
<1> QED BY <1>2, <1>3, <1>4

(* What is left of the background thread when it is idle again, or back at *)
(* its compaction.                                                         *)
LEMMA RestsOrResumes ==
  ASSUME bg \in Background, BgInv,
         \/ bg' = BgIdle
         \/ /\ bg.merging /\ bg.flushing /\ bg' = Resumed /\ pending \ {bg.out} \subseteq pending'
            /\ bg.inputs \subseteq Files(version') /\ next' = next
            /\ Unbuilt =>
                 bg.output \notin Files(version') \cup Files(manifest') \cup reader'.files
  PROVE  BgInv' /\ EditInv'
<1>1. CASE bg' = BgIdle
  <2>1. /\ bg'.pc = "idle" /\ ~bg'.flushing /\ ~bg'.merging /\ bg'.inputs = {}
        /\ bg'.output = 0 /\ bg'.out = 0
    BY <1>1 DEF BgIdle
  <2> QED BY <1>1, <2>1 DEF BgInv, EditInv, Unbuilt
<1>2. CASE /\ bg.merging /\ bg.flushing /\ bg' = Resumed /\ pending \ {bg.out} \subseteq pending'
           /\ bg.inputs \subseteq Files(version') /\ next' = next
           /\ Unbuilt =>
                bg.output \notin Files(version') \cup Files(manifest') \cup reader'.files
  <2>1. /\ bg'.pc = "merge" /\ ~bg'.flushing /\ bg'.out = 0 /\ bg'.merging
        /\ bg'.inputs = bg.inputs /\ bg'.output = bg.output
    BY <1>2, ResumedIs
  <2>2. ASSUME Unbuilt'
        PROVE  Fresh(bg.output)' /\ bg'.output < next' /\ bg'.output # bg'.out
               /\ bg'.output \in pending'
    <3>1. Unbuilt
      BY <1>2, <2>1, <2>2 DEF Unbuilt
    <3>2. bg.output < next /\ bg.output # bg.out /\ bg.output \in pending /\ bg.output # 0
      BY <3>1 DEF BgInv, Unbuilt
    <3>3. Fresh(bg.output)'
      BY <1>2, <2>1, <3>1 DEF Fresh
    <3> QED BY <1>2, <2>1, <3>2, <3>3
  <2> QED BY <1>2, <2>1, <2>2 DEF BgInv, EditInv
<1> QED BY <1>1, <1>2

LEMMA FailBg ==
  ASSUME Inv, Fail, bg.pc # "idle", version' = version, next' = next,
         Unbuilt => bg.output \notin Files(version') \cup Files(manifest') \cup reader'.files
  PROVE  BgInv' /\ EditInv'
<1>1. bg \in Background /\ BgInv
  BY DEF Inv, TypeInv, BgType
<1>2. bg.inputs \subseteq Files(version')
  BY <1>1 DEF BgInv
<1>3. \/ bg' = BgIdle
      \/ bg.merging /\ bg.flushing /\ bg' = Resumed /\ pending' = pending \ {bg.out}
  BY FailIs
<1> QED BY <1>1, <1>2, <1>3, RestsOrResumes

LEMMA FailMoves ==
  ASSUME Inv, Fail, bg.pc # "idle", bg.pc # "install", events' \in Nat, TablesType',
         UNCHANGED <<logs, manifest, phase, mem, imm, log, version, lastSeq, shutting, writers,
                     opening, reader, acked, promised, risky, writes, next>>,
         \A n \in Files(version) \cup Files(manifest) \cup reader.files :
           n \in DOMAIN tables => n \in DOMAIN tables' /\ tables'[n] = tables[n]
  PROVE  Inv'
<1>1. phase = "open"
  BY ActiveIsOpen
<1>2. /\ bgError' = TRUE /\ scheduled' \in BOOLEAN /\ thread' = SignalAll(thread)
      /\ pending' \subseteq pending /\ BgType' /\ bg'.pc # "install"
  BY FailIs
<1>3. BgInv' /\ EditInv'
  <2>1. Unbuilt => bg.output \notin Files(version') \cup Files(manifest') \cup reader'.files
    BY DEF Inv, BgInv, Fresh
  <2> QED BY <2>1, FailBg
<1>4. next' \in Nat /\ next <= next' /\ pending' \subseteq 1 .. next' - 1
  <2>1. next \in Nat /\ pending \subseteq 1 .. next - 1
    BY DEF Inv, TypeInv, StateType
  <2> QED BY <1>2, <2>1
<1>5. bgError' \in BOOLEAN /\ (bgError => bgError')
  BY <1>2
<1> QED BY <1>1, <1>2, <1>3, <1>4, <1>5, BgMoves

(* A flush begins, of its own or out of a compaction.                      *)
LEMMA StartFlushMoves ==
  ASSUME Inv, phase = "open", NEW b \in Background, StartFlush(b), imm # {}, scheduled,
         b = BgIdle \/ (b = bg /\ bg.pc = "merge"), bg.pc \in {"idle", "merge"},
         UNCHANGED <<disk, phase, mem, imm, log, version, lastSeq, flags, client,
                     opening, reader, past, writes, events>>
  PROVE  Inv'
<1>1. /\ UNCHANGED <<logs, tables, manifest, phase, mem, imm, log, version, lastSeq, shutting,
                     writers, thread, opening, reader, acked, promised, risky, writes,
                     events, bgError, scheduled>>
      /\ bg \in Background /\ BgInv /\ events \in Nat /\ scheduled \in BOOLEAN
      /\ bgError \in BOOLEAN /\ TablesType /\ next \in Nat /\ pending \subseteq 1 .. next - 1
      /\ next > 0
  BY DEF Inv, TypeInv, BgType, PastType, FlagsType, StateType, disk, flags, client, past
<1>2. /\ bg'.pc = "build" /\ bg'.flushing /\ bg'.out = next /\ bg' \in Background
      /\ bg'.merging = b.merging /\ bg'.inputs = b.inputs /\ bg'.output = b.output
      /\ next' = next + 1 /\ pending' = pending \cup {next}
  BY <1>1 DEF StartFlush, Background
<1>3. /\ b.inputs \subseteq Files(version)
      /\ ~b.merging => b.inputs = {} /\ b.output = 0
      /\ b.merging /\ b.output # 0 => Fresh(b.output) /\ b.output < next /\ b.output \in pending
  BY <1>1 DEF BgInv, Unbuilt, BgIdle
<1>4. Fresh(next)
  BY NextIsFresh
<1>5. BgInv'
  <2>1. ASSUME Unbuilt'
        PROVE  Fresh(bg.output)' /\ bg'.output < next' /\ bg'.output # bg'.out
               /\ bg'.output \in pending'
    <3>1. Fresh(b.output) /\ b.output < next /\ b.output \in pending /\ b.output \in Nat
      BY <1>2, <1>3, <2>1, BgIs DEF Unbuilt
    <3>2. b.output < next + 1 /\ b.output # next
      BY <1>1, <3>1
    <3>3. Fresh(bg.output)'
      BY <1>1, <1>2, <3>1 DEF Fresh, Files
    <3> QED BY <1>2, <3>1, <3>2, <3>3
  <2>2. Fresh(bg.out)'
    BY <1>1, <1>2, <1>4 DEF Fresh, Files
  <2>3. bg'.out < next'
    BY <1>1, <1>2
  <2>4. bg'.inputs \subseteq Files(version)'
    BY <1>1, <1>2, <1>3 DEF Files
  <2> QED BY <1>1, <1>2, <1>3, <2>1, <2>2, <2>3, <2>4 DEF BgInv
<1>6. EditInv'
  BY <1>2 DEF EditInv
<1>7. BgType' /\ TablesType'
  BY <1>1, <1>2 DEF BgType, TablesType
<1>8. next' \in Nat /\ next <= next' /\ pending' \subseteq 1 .. next' - 1
  BY <1>1, <1>2
<1> QED BY <1>1, <1>2, <1>5, <1>6, <1>7, <1>8, BgMoves

LEMMA BackgroundCallKeeps ==
  ASSUME Inv, BackgroundCall
  PROVE  Inv'
<1>1. phase = "open"
  BY ActiveIsOpen DEF BackgroundCall
<1>2. /\ UNCHANGED <<logs, tables, manifest, phase, mem, imm, log, version, lastSeq, bgError,
                     shutting, writers, opening, reader, acked, promised, risky, writes, events>>
      /\ scheduled /\ bg.pc = "idle"
  BY DEF BackgroundCall, disk, past
<1>3. /\ bg \in Background /\ BgInv /\ events \in Nat /\ scheduled \in BOOLEAN
      /\ bgError \in BOOLEAN /\ TablesType /\ next \in Nat /\ pending \subseteq 1 .. next - 1
      /\ version.l0 \cup version.l1 \in SUBSET Nat
  BY DEF Inv, TypeInv, BgType, PastType, FlagsType, StateType, Version
<1>4. TablesType' /\ events' \in Nat /\ bgError' \in BOOLEAN /\ (bgError => bgError')
  BY <1>2, <1>3 DEF TablesType
<1>5. ASSUME EndCall(bgError, imm, version, thread), UNCHANGED <<next, pending>>
      PROVE  Inv'
  <2>1. bg' = BgIdle /\ thread' = SignalAll(thread) /\ scheduled' \in BOOLEAN
    BY <1>5 DEF EndCall, MaybeScheduleCompaction
  <2>2. BgType' /\ bg'.pc # "install"
    BY <2>1, BgIdleIs DEF BgType, BgIdle
  <2>3. BgInv' /\ EditInv'
    BY <1>3, <2>1, RestsOrResumes
  <2>4. next' \in Nat /\ next <= next' /\ pending' \subseteq 1 .. next' - 1
    BY <1>3, <1>5
  <2> QED BY <1>1, <1>2, <1>4, <2>1, <2>2, <2>3, <2>4, BgMoves
<1>6. ASSUME imm # {}, StartFlush(BgIdle), UNCHANGED <<scheduled, thread>>
      PROVE  Inv'
  <2>1. UNCHANGED <<disk, phase, mem, imm, log, version, lastSeq, flags, client,
                    opening, reader, past, writes, events>>
    BY <1>2, <1>6 DEF disk, flags, client, past
  <2> QED BY <1>1, <1>2, <1>6, <2>1, BgIdleIs, StartFlushMoves
<1>7. ASSUME bg' = [BgIdle EXCEPT !.pc = "merge", !.merging = TRUE,
                                  !.inputs = version.l0 \cup version.l1],
             UNCHANGED <<next, pending, scheduled, thread>>
      PROVE  Inv'
  <2>1. /\ bg'.pc = "merge" /\ bg'.merging /\ ~bg'.flushing /\ bg'.output = 0 /\ bg'.out = 0
        /\ bg'.inputs = Files(version)
    BY <1>7 DEF BgIdle, Files
  <2>2. bg' \in Background
    BY <1>3, <1>7, BgIdleIs DEF Background
  <2>3. BgInv' /\ EditInv'
    BY <1>2, <2>1 DEF BgInv, EditInv, Unbuilt, Files
  <2>4. BgType'
    BY <1>2, <1>7, <2>2 DEF BgType
  <2>5. next' \in Nat /\ next <= next' /\ pending' \subseteq 1 .. next' - 1
        /\ scheduled' \in BOOLEAN
    BY <1>3, <1>7
  <2> QED BY <1>1, <1>2, <1>4, <1>7, <2>1, <2>3, <2>4, <2>5, BgMoves
<1> QED BY <1>5, <1>6, <1>7 DEF BackgroundCall

LEMMA NestedFlushKeeps ==
  ASSUME Inv, NestedFlush
  PROVE  Inv'
<1>1. bg.pc = "merge" /\ bg \in Background /\ scheduled
  BY DEF NestedFlush, Inv, TypeInv, BgType
<1>2. phase = "open"
  BY <1>1, ActiveIsOpen
<1> QED BY <1>1, <1>2, StartFlushMoves DEF NestedFlush

LEMMA OpenCompactionOutputFileKeeps ==
  ASSUME Inv, OpenCompactionOutputFile
  PROVE  Inv'
<1>1. /\ UNCHANGED <<logs, tables, manifest, phase, mem, imm, log, version, lastSeq, bgError,
                     shutting, scheduled, writers, thread, opening, reader, acked, promised,
                     risky, writes, events>>
      /\ bg.pc = "merge" /\ bg.output = 0
      /\ bg' = [bg EXCEPT !.output = next]
      /\ pending' = pending \cup {next} /\ next' = next + 1
  BY DEF OpenCompactionOutputFile, disk, flags, client, past
<1>2. /\ bg \in Background /\ BgInv /\ events \in Nat /\ scheduled \in BOOLEAN /\ scheduled
      /\ bgError \in BOOLEAN /\ TablesType /\ next \in Nat /\ pending \subseteq 1 .. next - 1
      /\ next > 0
  BY <1>1 DEF Inv, TypeInv, BgType, PastType, FlagsType, StateType
<1>3. phase = "open"
  BY <1>1, ActiveIsOpen
<1>4. /\ bg' \in Background /\ bg'.pc = "merge" /\ bg'.merging = bg.merging
      /\ bg'.flushing = bg.flushing /\ bg'.inputs = bg.inputs /\ bg'.output = next
      /\ bg'.out = bg.out
  BY <1>1, <1>2 DEF Background
<1>5. /\ bg.merging /\ ~bg.flushing /\ bg.inputs \subseteq Files(version) /\ bg.out = 0
  BY <1>1, <1>2 DEF BgInv
<1>6. BgInv'
  <2>1. Fresh(bg.output)'
    BY <1>1, <1>3, <1>4, NextIsFresh DEF Fresh, Files
  <2>2. bg'.output < next' /\ bg'.output # bg'.out /\ bg'.output \in pending'
    BY <1>1, <1>2, <1>4, <1>5
  <2>3. bg'.inputs \subseteq Files(version)'
    BY <1>1, <1>4, <1>5 DEF Files
  <2> QED BY <1>4, <1>5, <2>1, <2>2, <2>3 DEF BgInv
<1>7. EditInv' /\ BgType' /\ TablesType'
  BY <1>1, <1>2, <1>4 DEF EditInv, BgType, TablesType
<1>8. next' \in Nat /\ next <= next' /\ pending' \subseteq 1 .. next' - 1
  BY <1>1, <1>2
<1> QED BY <1>1, <1>2, <1>3, <1>4, <1>6, <1>7, <1>8, BgMoves

(* A new table beside those that are named.                                *)
LEMMA NewTable ==
  ASSUME Inv, NEW n \in Nat, Fresh(n), NEW v \in SUBSET Entry, tables' = With(tables, n, v)
  PROVE  /\ TablesType' /\ n \in DOMAIN tables' /\ tables'[n] = v
         /\ \A m \in Files(version) \cup Files(manifest) \cup reader.files :
              m \in DOMAIN tables => m \in DOMAIN tables' /\ tables'[m] = tables[m]
         /\ \A S \in SUBSET (Files(version) \cup Files(manifest)) :
              S \subseteq DOMAIN tables => Content(S)' = Content(S)
<1>1. /\ DOMAIN tables' = DOMAIN tables \cup {n} /\ tables'[n] = v
      /\ \A m \in DOMAIN tables : m # n => tables'[m] = tables[m]
  BY DEF With
<1>2. TablesType
  BY DEF Inv, TypeInv
<1>3. TablesType'
  BY <1>1, <1>2 DEF TablesType
<1>4. \A m \in Files(version) \cup Files(manifest) \cup reader.files :
              m \in DOMAIN tables => m \in DOMAIN tables' /\ tables'[m] = tables[m]
  BY <1>1 DEF Fresh
<1>5. ASSUME NEW S \in SUBSET (Files(version) \cup Files(manifest)), S \subseteq DOMAIN tables
      PROVE  UNION {tables'[m] : m \in S} = UNION {tables[m] : m \in S}
  BY <1>4, <1>5
<1> QED BY <1>1, <1>3, <1>4, <1>5 DEF Content

LEMMA LogAndApplyIs ==
  ASSUME Inv, NEW number \in Nat, LogAndApply(number), phase = "open"
  PROVE  /\ bg' \in Background /\ bg'.pc = "log"
         /\ bg'.merging = bg.merging /\ bg'.flushing = bg.flushing /\ bg'.inputs = bg.inputs
         /\ bg'.output = bg.output /\ bg'.out = bg.out
         /\ bg'.edit.next = next /\ bg'.edit.seq = lastSeq /\ bg'.edit.log = number
<1>1. bg \in Background /\ next \in Nat /\ lastSeq \in Nat
  BY DEF Inv, TypeInv, BgType, StateType
<1> DEFINE d == [next |-> next, seq |-> lastSeq, log |-> number]
<1>2. d \in Edit
  BY <1>1 DEF Edit
<1>3. bg' = [bg EXCEPT !.pc = "log", !.edit = d]
  BY DEF LogAndApply
<1>4. d.next = next /\ d.seq = lastSeq /\ d.log = number
  OBVIOUS
<1> HIDE DEF d
<1>5. /\ bg' \in Background /\ bg'.pc = "log"
      /\ bg'.merging = bg.merging /\ bg'.flushing = bg.flushing /\ bg'.inputs = bg.inputs
      /\ bg'.output = bg.output /\ bg'.out = bg.out /\ bg'.edit = d
  BY <1>1, <1>2, <1>3 DEF Background
<1> QED BY <1>4, <1>5

LEMMA FinishCompactionKeeps ==
  ASSUME Inv, FinishCompaction
  PROVE  Inv'
<1>1. /\ UNCHANGED <<logs, manifest, phase, mem, imm, log, version, next, lastSeq,
                     shutting, writers, opening, reader, acked, promised, risky, writes>>
      /\ bg.pc = "merge"
  BY DEF FinishCompaction, past
<1>2. /\ bg \in Background /\ BgInv /\ events \in Nat /\ scheduled \in BOOLEAN /\ scheduled
      /\ bgError \in BOOLEAN /\ TablesType /\ pending \subseteq 1 .. next - 1
  BY <1>1 DEF Inv, TypeInv, BgType, PastType, FlagsType, StateType
<1>3. phase = "open" /\ Running
  BY <1>1, ActiveIsOpen DEF Running
<1>4. ASSUME bg.output # 0, tables' = With(tables, bg.output, Content(bg.inputs)),
             LogAndApply(version.log),
             UNCHANGED <<bgError, scheduled, thread, pending, events>>
      PROVE  Inv'
  <2>1. /\ bg.merging /\ ~bg.flushing /\ bg.inputs \subseteq Files(version) /\ bg.out = 0
        /\ Fresh(bg.output) /\ bg.output < next /\ bg.output \in Nat
    BY <1>1, <1>2, <1>4, BgIs DEF BgInv, Unbuilt
  <2>2. /\ Files(version) \subseteq DOMAIN tables /\ version.log \in Nat /\ next \in Nat
        /\ lastSeq \in Nat /\ log \in Nat /\ manifest.log \in Nat
        /\ manifest.next <= next /\ manifest.seq <= lastSeq
        /\ version.log <= manifest.log /\ manifest.log <= log /\ log < next
    BY <1>3, RunningIs
  <2>3. Content(bg.inputs) \in SUBSET Entry
    BY <1>2, <2>1, <2>2 DEF Content, TablesType
  <2>4. /\ TablesType' /\ bg.output \in DOMAIN tables'
        /\ tables'[bg.output] = Content(bg.inputs)
        /\ \A m \in Files(version) \cup Files(manifest) \cup reader.files :
              m \in DOMAIN tables => m \in DOMAIN tables' /\ tables'[m] = tables[m]
    BY <1>4, <2>1, <2>3, NewTable
  <2>5. Content(bg.inputs)' = UNION {tables'[m] : m \in bg'.inputs}
    BY DEF Content
  <2>6. /\ bg' \in Background /\ bg'.pc = "log"
        /\ bg'.merging = bg.merging /\ bg'.flushing = bg.flushing /\ bg'.inputs = bg.inputs
        /\ bg'.output = bg.output /\ bg'.out = bg.out
        /\ bg'.edit.next = next /\ bg'.edit.seq = lastSeq /\ bg'.edit.log = version.log
    BY <1>3, <1>4, <2>2, LogAndApplyIs
  <2>7. tables'[bg.output] = Content(bg.inputs)'
    <3>1. \A m \in bg.inputs : tables'[m] = tables[m]
      BY <2>1, <2>2, <2>4
    <3> QED BY <2>4, <2>5, <2>6, <3>1 DEF Content
  <2>8. BgInv'
    <3>1. bg'.inputs \subseteq Files(version)'
      BY <1>1, <2>1, <2>6 DEF Files
    <3> QED BY <2>1, <2>6, <3>1 DEF BgInv, Unbuilt
  <2>9. version.log < next /\ next <= next /\ lastSeq <= lastSeq
    BY <2>2
  <2>10. EditInv'
    BY <1>1, <1>4, <2>1, <2>2, <2>4, <2>6, <2>7, <2>9 DEF EditInv
  <2>11. BgType'
    BY <1>2, <1>4, <2>6 DEF BgType
  <2>12. next' \in Nat /\ next <= next' /\ pending' \subseteq 1 .. next' - 1
         /\ scheduled' \in BOOLEAN /\ bgError' \in BOOLEAN /\ events' \in Nat
    BY <1>1, <1>2, <1>4, <2>2, <2>9
  <2> QED BY <1>1, <1>3, <1>4, <2>4, <2>6, <2>8, <2>10, <2>11, <2>12, BgMoves
<1>5. ASSUME Fail, tables' = tables, events' \in Nat
      PROVE  Inv'
  <2>1. TablesType'
    BY <1>2, <1>5 DEF TablesType
  <2> QED BY <1>1, <1>5, <2>1, FailMoves
<1>6. Event => events' \in Nat
  BY <1>2 DEF Event
<1> QED BY <1>2, <1>4, <1>5, <1>6 DEF FinishCompaction

LEMMA BuildTableKeeps ==
  ASSUME Inv, BuildTable
  PROVE  Inv'
<1>1. /\ UNCHANGED <<logs, manifest, phase, mem, imm, log, version, next, lastSeq,
                     shutting, writers, opening, reader, acked, promised, risky, writes>>
      /\ bg.pc = "build"
  BY DEF BuildTable, past
<1>2. /\ bg \in Background /\ BgInv /\ events \in Nat /\ scheduled \in BOOLEAN /\ scheduled
      /\ bgError \in BOOLEAN /\ TablesType /\ pending \subseteq 1 .. next - 1 /\ MemType
  BY <1>1 DEF Inv, TypeInv, BgType, PastType, FlagsType, StateType
<1>3. phase = "open" /\ Running
  BY <1>1, ActiveIsOpen DEF Running
<1>4. /\ bg.flushing /\ imm # {} /\ Fresh(bg.out) /\ bg.out < next /\ bg.out \in Nat
      /\ bg.inputs \subseteq Files(version) /\ Flushed \in SUBSET Entry
  BY <1>1, <1>2, BgIs DEF BgInv, MemType, Flushed
<1>5. ASSUME tables' = IF imm = {{}} THEN tables ELSE With(tables, bg.out, UNION imm)
      PROVE  /\ TablesType' /\ (imm # {{}} => bg.out \in DOMAIN tables' /\ tables'[bg.out] = Flushed)
             /\ \A m \in Files(version) \cup Files(manifest) \cup reader.files :
                  m \in DOMAIN tables => m \in DOMAIN tables' /\ tables'[m] = tables[m]
  <2>1. CASE imm = {{}}
    BY <1>2, <1>5, <2>1 DEF TablesType
  <2>2. CASE imm # {{}}
    <3>1. tables' = With(tables, bg.out, Flushed)
      BY <1>5, <2>2 DEF Flushed
    <3> QED BY <1>4, <3>1, NewTable
  <2> QED BY <2>1, <2>2
<1>6. ASSUME tables' = IF imm = {{}} THEN tables ELSE With(tables, bg.out, UNION imm),
             LogAndApply(log), pending' = pending \ {bg.out},
             UNCHANGED <<bgError, scheduled, thread, events>>
      PROVE  Inv'
  <2>1. /\ next \in Nat /\ lastSeq \in Nat /\ log \in Nat
        /\ manifest.next <= next /\ manifest.seq <= lastSeq /\ log < next
        /\ Files(version) \subseteq DOMAIN tables
    BY <1>3, RunningIs
  <2>2. /\ bg' \in Background /\ bg'.pc = "log"
        /\ bg'.merging = bg.merging /\ bg'.flushing = bg.flushing /\ bg'.inputs = bg.inputs
        /\ bg'.output = bg.output /\ bg'.out = bg.out
        /\ bg'.edit.next = next /\ bg'.edit.seq = lastSeq /\ bg'.edit.log = log
    BY <1>3, <1>6, <2>1, LogAndApplyIs
  <2>3. /\ TablesType' /\ (imm # {{}} => bg.out \in DOMAIN tables' /\ tables'[bg.out] = Flushed)
        /\ \A m \in Files(version) \cup Files(manifest) \cup reader.files :
             m \in DOMAIN tables => m \in DOMAIN tables' /\ tables'[m] = tables[m]
    BY <1>5, <1>6
  <2>4. \A e \in Flushed : e.seq <= lastSeq
    BY <1>3 DEF Inv, SeqInv
  <2>5. BgInv'
    <3>1. bg'.inputs \subseteq Files(version)' /\ imm' # {}
      BY <1>1, <1>4, <2>2 DEF Files
    <3>2. ASSUME Unbuilt'
          PROVE  Fresh(bg.output)' /\ bg'.output < next' /\ bg'.output # bg'.out
                 /\ bg'.output \in pending'
      <4>1. Unbuilt
        BY <1>1, <1>4, <2>2, <3>2 DEF Unbuilt
      <4>2. Fresh(bg.output) /\ bg.output < next /\ bg.output # bg.out /\ bg.output \in pending
        BY <1>2, <4>1 DEF BgInv
      <4>3. Fresh(bg.output)'
        BY <1>1, <2>2, <4>2 DEF Fresh, Files
      <4> QED BY <1>1, <1>6, <2>2, <4>2, <4>3
    <3> QED BY <1>2, <1>4, <2>2, <3>1, <3>2 DEF BgInv
  <2>6. next <= next /\ lastSeq <= lastSeq
    BY <2>1
  <2>7. EditInv'
    <3>1. Flushed' = Flushed /\ imm' = imm
      BY <1>1 DEF Flushed
    <3> QED BY <1>1, <1>4, <2>1, <2>2, <2>3, <2>4, <2>6, <3>1 DEF EditInv
  <2>8. BgType'
    BY <1>2, <1>6, <2>2 DEF BgType
  <2>9. next' \in Nat /\ next <= next' /\ pending' \subseteq 1 .. next' - 1
         /\ scheduled' \in BOOLEAN /\ bgError' \in BOOLEAN /\ events' \in Nat
    BY <1>1, <1>2, <1>6, <2>1, <2>6
  <2> QED BY <1>1, <1>3, <1>6, <2>2, <2>3, <2>5, <2>7, <2>8, <2>9, BgMoves
<1>7. ASSUME tables' = IF imm = {{}} THEN tables ELSE With(tables, bg.out, UNION imm),
             Fail, UNCHANGED events
      PROVE  Inv'
  BY <1>1, <1>2, <1>5, <1>7, FailMoves
<1>8. ASSUME Event, Fail, UNCHANGED tables
      PROVE  Inv'
  <2>1. TablesType' /\ events' \in Nat
    BY <1>2, <1>8 DEF TablesType, Event
  <2> QED BY <1>1, <1>8, <2>1, FailMoves
<1> QED BY <1>6, <1>7, <1>8 DEF BuildTable

-----------------------------------------------------------------------------
(* The edit of the background thread, in the MANIFEST and installed.       *)

(* What an edit makes of the files of a version or of the MANIFEST.        *)
EditL0(v) == IF bg.flushing THEN IF imm = {{}} THEN v.l0 ELSE v.l0 \cup {bg.out}
             ELSE v.l0 \ bg.inputs
EditL1(v) == IF bg.flushing THEN v.l1 ELSE (v.l1 \ bg.inputs) \cup {bg.output}

LEMMA EditedIs ==
  ASSUME NEW v \in Version, bg \in Background
  PROVE  /\ Edited(v) \in Version /\ Edited(v).l0 = EditL0(v) /\ Edited(v).l1 = EditL1(v)
         /\ Edited(v).log = bg.edit.log
<1>1. /\ v.l0 \in SUBSET Nat /\ v.l1 \in SUBSET Nat /\ v = [l0 |-> v.l0, l1 |-> v.l1, log |-> v.log]
      /\ bg.out \in Nat /\ bg.output \in Nat /\ bg.edit.log \in Nat
  BY BgIs DEF Version
<1>2. EditL0(v) \in SUBSET Nat /\ EditL1(v) \in SUBSET Nat
  BY <1>1 DEF EditL0, EditL1
<1>3. Edited(v) = [l0 |-> EditL0(v), l1 |-> EditL1(v), log |-> bg.edit.log]
  <2>1. CASE bg.flushing /\ imm = {{}}
    BY <1>1, <2>1 DEF Edited, EditL0, EditL1
  <2>2. CASE bg.flushing /\ imm # {{}}
    BY <1>1, <2>2 DEF Edited, EditL0, EditL1
  <2>3. CASE ~bg.flushing
    BY <1>1, <2>3 DEF Edited, EditL0, EditL1
  <2> QED BY <2>1, <2>2, <2>3
<1> QED BY <1>1, <1>2, <1>3 DEF Version

(* A MANIFEST that has the edit.                                           *)
Amended(m) ==
  /\ m \in Snapshot /\ m.l0 = EditL0(manifest) /\ m.l1 = EditL1(manifest)
  /\ m.log = bg.edit.log /\ m.next = bg.edit.next /\ m.seq = bg.edit.seq

LEMMA LoggedIs ==
  ASSUME Inv
  PROVE  /\ Amended(Logged(manifest))
         /\ Amended([Logged(manifest) EXCEPT !.dead = manifest.torn])
<1>1. manifest \in Snapshot /\ bg \in Background
  BY DEF Inv, TypeInv, StateType, BgType
<1> DEFINE v == [l0 |-> manifest.l0, l1 |-> manifest.l1, log |-> manifest.log]
           w == Edited(v)
<1>2. v \in Version /\ v.l0 = manifest.l0 /\ v.l1 = manifest.l1
  BY <1>1 DEF Snapshot, Version
<1>3. w \in Version /\ w.l0 = EditL0(v) /\ w.l1 = EditL1(v) /\ w.log = bg.edit.log
  <2> HIDE DEF v
  <2> QED BY <1>1, <1>2, EditedIs
<1>4. EditL0(v) = EditL0(manifest) /\ EditL1(v) = EditL1(manifest)
  BY <1>2 DEF EditL0, EditL1
<1>5. Logged(manifest) = [manifest EXCEPT !.l0 = w.l0, !.l1 = w.l1, !.log = w.log,
                                          !.next = bg.edit.next, !.seq = bg.edit.seq]
  BY DEF Logged
<1>6. /\ w.l0 \in SUBSET Nat /\ w.l1 \in SUBSET Nat /\ w.log \in Nat
      /\ bg.edit.next \in Nat /\ bg.edit.seq \in Nat
  <2> HIDE DEF w
  <2> QED BY <1>1, <1>3, BgIs DEF Version
<1> HIDE DEF v, w
<1>7. /\ Logged(manifest) \in Snapshot
      /\ Logged(manifest).l0 = w.l0 /\ Logged(manifest).l1 = w.l1
      /\ Logged(manifest).log = w.log /\ Logged(manifest).next = bg.edit.next
      /\ Logged(manifest).seq = bg.edit.seq
  BY <1>1, <1>5, <1>6 DEF Snapshot
<1> DEFINE m == Logged(manifest)
           d == [m EXCEPT !.dead = manifest.torn]
<1>8. /\ d \in Snapshot /\ d.l0 = m.l0 /\ d.l1 = m.l1 /\ d.log = m.log /\ d.next = m.next
      /\ d.seq = m.seq
  <2> HIDE DEF m
  <2>1. m \in Snapshot /\ manifest.torn \in BOOLEAN
    BY <1>1, <1>7 DEF m, Snapshot
  <2> QED BY <2>1 DEF Snapshot
<1> QED BY <1>3, <1>4, <1>7, <1>8 DEF Amended

LEMMA AmendedIs ==
  ASSUME Inv, phase = "open", bg.pc = "log", NEW m, Amended(m)
  PROVE  /\ Files(m) \subseteq DOMAIN tables
         /\ \A n \in Files(m) \cup {m.log} : n < m.next
         /\ \A e \in Content(Files(m)) : e.seq <= m.seq
         /\ m.next <= next /\ m.seq <= lastSeq
         /\ version.log <= m.log /\ m.log <= log
         /\ Content(Files(version)) \subseteq Content(Files(m))
         /\ Content(Files(m)) \subseteq Known
         /\ m.log = version.log \/ Flushed \subseteq Content(Files(m))
         /\ Unbuilt => bg.output \notin Files(m)
<1>1. /\ manifest.next <= bg.edit.next /\ bg.edit.next <= next
      /\ manifest.seq <= bg.edit.seq /\ bg.edit.seq <= lastSeq
      /\ bg.edit.log = (IF bg.flushing THEN log ELSE version.log)
      /\ bg.edit.log < bg.edit.next
      /\ bg.flushing =>
           /\ bg.out < bg.edit.next
           /\ \A e \in Flushed : e.seq <= bg.edit.seq
           /\ imm # {{}} => bg.out \in DOMAIN tables /\ tables[bg.out] = Flushed
      /\ ~bg.flushing =>
           /\ bg.output # 0 /\ bg.output < bg.edit.next
           /\ bg.output \in DOMAIN tables /\ tables[bg.output] = Content(bg.inputs)
  BY DEF Inv, EditInv
<1>2. /\ bg \in Background /\ bg.inputs \subseteq Files(version) /\ BgInv
      /\ bg.edit.next \in Nat /\ bg.edit.seq \in Nat /\ bg.edit.log \in Nat
  BY BgIs DEF Inv, BgInv, TypeInv, BgType
<1>3. /\ Running /\ manifest.next \in Nat /\ manifest.seq \in Nat /\ version.log \in Nat
      /\ log \in Nat /\ manifest.log \in Nat
      /\ version.log <= manifest.log /\ manifest.log <= log
      /\ Files(version) \subseteq DOMAIN tables /\ Files(manifest) \subseteq Nat
  <2>1. Running
    BY DEF Running
  <2> QED BY <2>1, RunningIs
<1>4. /\ Files(manifest) \subseteq DOMAIN tables
      /\ \A n \in Files(manifest) : n < manifest.next
      /\ \A e \in Content(Files(manifest)) : e.seq <= manifest.seq
      /\ Content(Files(version)) \subseteq Content(Files(manifest))
  BY <1>3 DEF Inv, DiskInv, VersionInv
<1>5. /\ m.l0 = EditL0(manifest) /\ m.l1 = EditL1(manifest) /\ m.log = bg.edit.log
      /\ m.next = bg.edit.next /\ m.seq = bg.edit.seq
  BY DEF Amended
<1>6. \A n \in Files(manifest) : n < bg.edit.next
  BY <1>1, <1>2, <1>3, <1>4
<1>7. \A e \in Content(Files(manifest)) : e.seq <= bg.edit.seq
  <2> SUFFICES ASSUME NEW e \in Content(Files(manifest)) PROVE e.seq <= bg.edit.seq
    OBVIOUS
  <2>1. e \in Entry
    BY <1>4 DEF Content, Inv, TypeInv, TablesType
  <2>2. e.seq \in Nat /\ e.seq <= manifest.seq
    BY <1>4, <2>1, EntryIs
  <2> QED BY <1>1, <1>2, <1>3, <2>2
<1>8. version.log <= m.log /\ m.log <= log
  BY <1>1, <1>3, <1>5
<1>9. CASE bg.flushing
  <2>1. Files(m) = IF imm = {{}} THEN Files(manifest) ELSE Files(manifest) \cup {bg.out}
    BY <1>5, <1>9 DEF Files, EditL0, EditL1
  <2>2. Files(m) \subseteq DOMAIN tables
    BY <1>1, <1>4, <1>9, <2>1
  <2>3. Content(Files(m)) = Content(Files(manifest)) \cup Flushed
    <3>1. CASE imm = {{}}
      <4>1. Flushed = {}
        BY <3>1 DEF Flushed
      <4> QED BY <2>1, <3>1, <4>1
    <3>2. CASE imm # {{}}
      <4>1. tables[bg.out] = Flushed
        BY <1>1, <1>9, <3>2
      <4> QED BY <2>1, <3>2, <4>1 DEF Content
    <3> QED BY <3>1, <3>2
  <2>4. \A n \in Files(m) \cup {m.log} : n < m.next
    BY <1>1, <1>5, <1>6, <1>9, <2>1
  <2>5. \A e \in Content(Files(m)) : e.seq <= m.seq
    BY <1>1, <1>5, <1>7, <1>9, <2>3
  <2>6. Unbuilt => bg.output \notin Files(m)
    BY <1>2, <2>1 DEF BgInv, Fresh
  <2> QED BY <1>1, <1>4, <1>5, <1>8, <2>2, <2>3, <2>4, <2>5, <2>6 DEF Known
<1>10. CASE ~bg.flushing
  <2>1. Files(m) = (Files(manifest) \ bg.inputs) \cup {bg.output}
    BY <1>5, <1>10 DEF Files, EditL0, EditL1
  <2>2. Files(m) \subseteq DOMAIN tables
    BY <1>1, <1>4, <1>10, <2>1
  <2>3. tables[bg.output] = Content(bg.inputs)
    BY <1>1, <1>10
  <2>4. Content(bg.inputs) \subseteq Content(Files(version))
    BY <1>2 DEF Content
  <2>5. Content(Files(m)) = Content(Files(manifest))
    <3>1. Content(Files(m)) = Content(Files(manifest) \ bg.inputs) \cup Content(bg.inputs)
      BY <2>1, <2>3 DEF Content
    <3>2. Content(Files(manifest)) \subseteq
            Content(Files(manifest) \ bg.inputs) \cup Content(bg.inputs)
      BY DEF Content
    <3>3. Content(Files(manifest) \ bg.inputs) \subseteq Content(Files(manifest))
      BY DEF Content
    <3> QED BY <1>4, <2>4, <3>1, <3>2, <3>3
  <2>6. \A n \in Files(m) \cup {m.log} : n < m.next
    BY <1>1, <1>5, <1>6, <1>10, <2>1
  <2>7. \A e \in Content(Files(m)) : e.seq <= m.seq
    BY <1>5, <1>7, <2>5
  <2>8. m.log = version.log /\ ~Unbuilt
    BY <1>1, <1>5, <1>10 DEF Unbuilt
  <2> QED BY <1>1, <1>4, <1>5, <1>8, <2>2, <2>5, <2>6, <2>7, <2>8 DEF Known
<1> QED BY <1>9, <1>10

LEMMA ManifestMoves ==
  ASSUME Inv, phase = "open",
         UNCHANGED <<logs, tables, phase, mem, imm, log, version, next, lastSeq, shutting,
                     writers, opening, reader, acked, promised, risky, writes>>,
         thread' = thread \/ thread' = SignalAll(thread),
         pending' \subseteq pending, scheduled' \in BOOLEAN, bgError' \in BOOLEAN,
         bgError => bgError', events' \in Nat, BgType', BgInv', EditInv',
         manifest' \in Snapshot,
         Files(manifest') \subseteq DOMAIN tables,
         \A n \in Files(manifest') \cup {manifest'.log} : n < manifest'.next,
         \A e \in Content(Files(manifest')) : e.seq <= manifest'.seq,
         manifest'.next <= next, manifest'.seq <= lastSeq,
         version.log <= manifest'.log, manifest'.log <= log,
         Content(Files(version)) \subseteq UNION {tables[n] : n \in Files(manifest')},
         UNION {tables[n] : n \in Files(manifest')} \subseteq Known,
         manifest'.log = version.log
           \/ Flushed \subseteq UNION {tables[n] : n \in Files(manifest')},
         ~bgError' => SameFiles(manifest', IF bg'.pc = "install" THEN Edited(version)'
                                           ELSE version)
  PROVE  Inv'
<1>1. TypeInv /\ QueueInv
  BY DEF Inv
<1>2. QueueInv' /\ Steady
  BY <1>1, SignalSteps
<1>3. Running /\ Running'
  BY DEF Running
<1>4. /\ Files(version)' = Files(version) /\ Flushed' = Flushed
      /\ Content(Files(version))' = Content(Files(version))
      /\ Content(Files(manifest))' = UNION {tables[n] : n \in Files(manifest')}
      /\ Files(manifest)' = Files(manifest')
  BY DEF Files, Flushed, Content
<1>5. TypeInv'
  <2>1. LogsType' /\ TablesType'
    <3>1. LogsType /\ TablesType /\ logs' = logs /\ tables' = tables
      BY <1>1 DEF TypeInv
    <3>2. LogsType'
      BY ONLY <3>1 DEF LogsType
    <3> QED BY <3>1, <3>2 DEF TablesType
  <2>2. MemType' /\ OpeningType' /\ ReaderType' /\ PastType'
    BY <1>1 DEF TypeInv, MemType, OpeningType, ReaderType, PastType
  <2>3. StateType'
    BY <1>1 DEF TypeInv, StateType
  <2>4. FlagsType'
    BY <1>1 DEF TypeInv, FlagsType
  <2> QED BY <2>1, <2>2, <2>3, <2>4 DEF TypeInv
<1>6. RestInv' /\ ReplayInv'
  BY FrameOpen
<1>7. DiskInv'
  <2>1. \A e \in Content(Files(manifest))' : e.seq <= manifest'.seq
    BY <1>4 DEF Content
  <2> QED BY <1>4, <2>1 DEF DiskInv
<1>8. NumbersInv'
  BY <1>4 DEF Inv, NumbersInv
<1>9. VersionInv'
  <2>1. log \in DOMAIN logs /\ \A n \in DOMAIN logs : n < next
    BY <1>3, RunningIs
  <2> QED BY <1>4, <2>1 DEF VersionInv
<1>10. SeqInv'
  <2>1. InLogs(logs, version.log)' = InLogs(logs, version.log)
    OBVIOUS
  <2>2. Content(Files(manifest))' \subseteq Known
    BY <1>4
  <2> QED BY <1>2, <1>3, <1>4, <2>1, <2>2, OpenSeq DEF Inv
<1>11. SafeInv'
  BY <1>3, <1>4, OpenSafe DEF Inv
<1>12. GroupInv'
  BY <1>2, FrameGroup DEF Inv
<1>13. ReaderInv'
  <2>1. next \in Nat /\ next <= next
    BY <1>3, RunningIs
  <2> QED BY <1>1, <2>1, FrameReader DEF Inv
<1> QED BY <1>2, <1>5, <1>6, <1>7, <1>8, <1>9, <1>10, <1>11, <1>12, <1>13 DEF Inv

LEMMA LogEditKeeps ==
  ASSUME Inv, LogEdit
  PROVE  Inv'
<1>1. /\ UNCHANGED <<logs, tables, phase, mem, imm, log, version, next, lastSeq, shutting,
                     writers, opening, reader, acked, promised, risky, writes>>
      /\ bg.pc = "log"
  BY DEF LogEdit, past
<1>2. /\ bg \in Background /\ BgInv /\ events \in Nat /\ scheduled \in BOOLEAN /\ scheduled
      /\ bgError \in BOOLEAN /\ manifest \in Snapshot /\ version \in Version
  BY <1>1 DEF Inv, TypeInv, BgType, PastType, FlagsType, StateType
<1>3. phase = "open" /\ Running
  BY <1>1, ActiveIsOpen DEF Running
<1>4. /\ version.log <= manifest.log /\ manifest.log <= log
      /\ manifest.next <= next /\ manifest.seq <= lastSeq
  BY <1>3, RunningIs
<1>5. ASSUME Amended(manifest')
      PROVE  /\ manifest' \in Snapshot
             /\ Files(manifest') \subseteq DOMAIN tables
             /\ \A n \in Files(manifest') \cup {manifest'.log} : n < manifest'.next
             /\ \A e \in Content(Files(manifest')) : e.seq <= manifest'.seq
             /\ manifest'.next <= next /\ manifest'.seq <= lastSeq
             /\ version.log <= manifest'.log /\ manifest'.log <= log
             /\ Content(Files(version)) \subseteq UNION {tables[n] : n \in Files(manifest')}
             /\ UNION {tables[n] : n \in Files(manifest')} \subseteq Known
             /\ manifest'.log = version.log
                  \/ Flushed \subseteq UNION {tables[n] : n \in Files(manifest')}
             /\ Unbuilt => bg.output \notin Files(manifest')
  <2>1. Content(Files(manifest')) = UNION {tables[n] : n \in Files(manifest')}
    BY DEF Content
  <2>2. manifest' \in Snapshot
    BY <1>5 DEF Amended
  <2> QED BY <1>1, <1>3, <1>5, <2>1, <2>2, AmendedIs
<1>6. ASSUME manifest' = [Logged(manifest) EXCEPT !.dead = manifest.torn],
             bg' = [bg EXCEPT !.pc = "install"],
             UNCHANGED <<bgError, scheduled, thread, pending, events>>
      PROVE  Inv'
  <2>1. Amended(manifest')
    BY <1>6, LoggedIs
  <2>2. /\ bg' \in Background /\ bg'.pc = "install" /\ bg'.merging = bg.merging
        /\ bg'.flushing = bg.flushing /\ bg'.inputs = bg.inputs /\ bg'.output = bg.output
        /\ bg'.out = bg.out /\ bg'.edit = bg.edit
    BY <1>2, <1>6 DEF Background
  <2>3. /\ manifest'.l0 = EditL0(manifest) /\ manifest'.l1 = EditL1(manifest)
        /\ manifest'.log = bg.edit.log /\ manifest'.next = bg.edit.next
        /\ manifest'.seq = bg.edit.seq
    BY <2>1 DEF Amended
  <2>4. BgType'
    BY <1>2, <1>6, <2>2 DEF BgType
  <2>5. BgInv'
    <3>1. bg'.inputs \subseteq Files(version)'
      BY <1>1, <1>2, <2>2 DEF Files, BgInv
    <3>2. ASSUME Unbuilt'
          PROVE  Fresh(bg.output)' /\ bg'.output < next' /\ bg'.output # bg'.out
                 /\ bg'.output \in pending'
      <4>1. Unbuilt
        BY <1>1, <2>2, <3>2 DEF Unbuilt
      <4>2. Fresh(bg.output) /\ bg.output < next /\ bg.output # bg.out /\ bg.output \in pending
        BY <1>2, <4>1 DEF BgInv
      <4>3. bg.output \notin Files(manifest')
        BY <1>5, <2>1, <4>1
      <4>4. Fresh(bg.output)'
        BY <1>1, <2>2, <4>2, <4>3 DEF Fresh, Files
      <4> QED BY <1>1, <1>6, <2>2, <4>2, <4>4
    <3> QED BY <1>1, <1>2, <2>2, <3>1, <3>2 DEF BgInv
  <2>6. EditInv'
    <3>1. /\ bg.edit.next <= next
          /\ bg.edit.seq <= lastSeq
          /\ bg.edit.log = (IF bg.flushing THEN log ELSE version.log)
          /\ bg.edit.log < bg.edit.next
          /\ bg.edit.next <= bg.edit.next /\ bg.edit.seq <= bg.edit.seq
      <4>1. bg.edit.next <= bg.edit.next /\ bg.edit.seq <= bg.edit.seq
        BY <1>2, BgIs
      <4> QED BY <1>1, <4>1 DEF Inv, EditInv
    <3>2. /\ bg.flushing =>
               /\ bg.out < bg.edit.next
               /\ \A e \in Flushed : e.seq <= bg.edit.seq
               /\ imm # {{}} => bg.out \in DOMAIN tables /\ tables[bg.out] = Flushed
          /\ ~bg.flushing =>
               /\ bg.output # 0 /\ bg.output < bg.edit.next
               /\ bg.output \in DOMAIN tables /\ tables[bg.output] = Content(bg.inputs)
      BY <1>1 DEF Inv, EditInv
    <3>3. Content(bg.inputs)' = Content(bg.inputs) /\ Flushed' = Flushed
      BY <1>1, <2>2 DEF Content, Flushed
    <3>4. bg.flushing /\ imm # {{}} => bg.out \in manifest'.l0
      BY <2>3 DEF EditL0
    <3> QED BY <1>1, <2>2, <2>3, <3>1, <3>2, <3>3, <3>4 DEF EditInv
  <2>7. ASSUME ~bgError' PROVE SameFiles(manifest', Edited(version)')
    <3>1. SameFiles(manifest, version)
      BY <1>1, <1>3, <1>6, <2>7 DEF Inv, VersionInv
    <3>2. EditL0(manifest) = EditL0(version) /\ EditL1(manifest) = EditL1(version)
      BY <3>1 DEF SameFiles, EditL0, EditL1
    <3>3. /\ Edited(version).l0 = EditL0(version) /\ Edited(version).l1 = EditL1(version)
          /\ Edited(version).log = bg.edit.log
      BY <1>2, EditedIs
    <3>4. Edited(version)' = Edited(version)
      BY <1>1, <2>2 DEF Edited
    <3> QED BY <2>3, <3>2, <3>3, <3>4 DEF SameFiles
  <2>8. ~bgError' => SameFiles(manifest', IF bg'.pc = "install" THEN Edited(version)'
                                           ELSE version)
    BY <2>2, <2>7
  <2>9. /\ pending' \subseteq pending /\ scheduled' \in BOOLEAN /\ bgError' \in BOOLEAN
        /\ (bgError => bgError') /\ events' \in Nat /\ thread' = thread
    BY <1>2, <1>6
  <2> QED BY <1>1, <1>3, <1>5, <2>1, <2>4, <2>5, <2>6, <2>8, <2>9, ManifestMoves
<1>7. ASSUME Event, Fail,
             manifest' \in {manifest, [manifest EXCEPT !.torn = TRUE], Logged(manifest)}
      PROVE  Inv'
  <2>1. /\ bgError' = TRUE /\ scheduled' \in BOOLEAN /\ thread' = SignalAll(thread)
        /\ pending' \subseteq pending /\ BgType' /\ bg'.pc # "install" /\ events' \in Nat
        /\ bgError' \in BOOLEAN /\ (bgError => bgError')
    BY <1>1, <1>2, <1>7, FailIs DEF Event
  <2>2. CASE Amended(manifest')
    <3>1. Unbuilt => bg.output \notin Files(version') \cup Files(manifest') \cup reader'.files
      BY <1>1, <1>2, <1>5, <2>2 DEF BgInv, Fresh
    <3>2. BgInv' /\ EditInv'
      BY <1>1, <1>7, <3>1, FailBg
    <3> QED BY <1>1, <1>3, <1>5, <2>1, <2>2, <3>2, ManifestMoves
  <2>3. CASE manifest' \in {manifest, [manifest EXCEPT !.torn = TRUE]}
    <3>1. /\ manifest' \in Snapshot /\ Files(manifest') = Files(manifest)
          /\ manifest'.log = manifest.log /\ manifest'.next = manifest.next
          /\ manifest'.seq = manifest.seq
      BY <1>2, <2>3 DEF Snapshot, Files
    <3>2. Unbuilt => bg.output \notin Files(version') \cup Files(manifest') \cup reader'.files
      BY <1>1, <1>2, <3>1 DEF BgInv, Fresh
    <3>3. BgInv' /\ EditInv'
      BY <1>1, <1>7, <3>2, FailBg
    <3>4. Content(Files(manifest')) = Content(Files(manifest))
          /\ Content(Files(manifest)) = UNION {tables[n] : n \in Files(manifest')}
      BY <3>1 DEF Content
    <3>5. /\ Files(manifest') \subseteq DOMAIN tables
          /\ \A n \in Files(manifest') \cup {manifest'.log} : n < manifest'.next
          /\ \A e \in Content(Files(manifest')) : e.seq <= manifest'.seq
      BY <3>1, <3>4 DEF Inv, DiskInv
    <3>6. /\ manifest'.next <= next /\ manifest'.seq <= lastSeq
          /\ version.log <= manifest'.log /\ manifest'.log <= log
      BY <1>4, <3>1
    <3>7. /\ Content(Files(version)) \subseteq Content(Files(manifest))
          /\ manifest.log = version.log \/ Flushed \subseteq Content(Files(manifest))
      BY <1>3 DEF Inv, VersionInv
    <3>8. Content(Files(manifest)) \subseteq Known
      BY DEF Known
    <3> QED BY <1>1, <1>3, <2>1, <3>1, <3>3, <3>4, <3>5, <3>6, <3>7, <3>8, ManifestMoves
  <2> QED BY <1>7, <2>2, <2>3, LoggedIs
<1> QED BY <1>6, <1>7 DEF LogEdit

(* What is left when the edit is installed and the rest deleted.           *)
Swept ==
  /\ DOMAIN tables' \subseteq DOMAIN tables /\ \A n \in DOMAIN tables' : tables'[n] = tables[n]
  /\ \A n \in Files(version') \cup Files(manifest) \cup reader.files :
       n \in DOMAIN tables => n \in DOMAIN tables'
  /\ DOMAIN logs' \subseteq DOMAIN logs /\ \A n \in DOMAIN logs' : logs'[n] = logs[n]
  /\ \A n \in DOMAIN logs : n >= version'.log => n \in DOMAIN logs'

LEMMA SweptIs ==
  ASSUME NEW inputs, NEW pend, DeleteObsoleteFiles(version', inputs, pend),
         ~bgError => Files(manifest) \subseteq Files(version')
  PROVE  Swept
<1>1. CASE bgError
  BY <1>1 DEF DeleteObsoleteFiles, Swept
<1>2. CASE ~bgError
  <2> DEFINE T == Needed(version') \cup inputs \cup pend
             L == {n \in DOMAIN logs : n >= version'.log}
  <2>1. tables' = RestrictTo(tables, T) /\ logs' = RestrictTo(logs, L)
    BY <1>2 DEF DeleteObsoleteFiles
  <2>2. /\ DOMAIN tables' = DOMAIN tables \cap T /\ \A n \in DOMAIN tables' : tables'[n] = tables[n]
        /\ DOMAIN logs' = DOMAIN logs \cap L /\ \A n \in DOMAIN logs' : logs'[n] = logs[n]
    <3> HIDE DEF T, L
    <3> QED BY <2>1 DEF RestrictTo
  <2>3. Files(version') \cup reader.files \subseteq T
    BY DEF Needed, Files
  <2> QED BY <1>2, <2>2, <2>3 DEF Swept
<1> QED BY <1>1, <1>2

(* The logs that are left say what they said.                              *)
LEMMA SweptLogs ==
  ASSUME NEW lg, NEW lh, DOMAIN lh \subseteq DOMAIN lg, \A n \in DOMAIN lh : lh[n] = lg[n],
         NEW first, NEW later,
         \A n \in DOMAIN lg : n >= later => n \in DOMAIN lh /\ n >= first
  PROVE  /\ InLogs(lh, later) \subseteq InLogs(lg, first)
         /\ InLogs(lg, later) \subseteq InLogs(lh, later)
         /\ InLogs(Synced(lg), later) \subseteq InLogs(Synced(lh), later)
         /\ \A n \in DOMAIN lh : Synced(lh)[n] = Synced(lg)[n]
<1>1. InLogs(lh, later) \subseteq InLogs(lg, first)
  BY DEF InLogs
<1>2. InLogs(lg, later) \subseteq InLogs(lh, later)
  BY DEF InLogs
<1>3. /\ DOMAIN Synced(lh) = DOMAIN lh /\ DOMAIN Synced(lg) = DOMAIN lg
      /\ \A n \in DOMAIN lh : Synced(lh)[n] = Synced(lg)[n]
  BY DEF Synced
<1>4. InLogs(Synced(lg), later) \subseteq InLogs(Synced(lh), later)
  BY <1>3 DEF InLogs
<1> QED BY <1>1, <1>2, <1>3, <1>4

(* The files of the version that is installed and what is in them.         *)
LEMMA InstalledIs ==
  ASSUME Inv, phase = "open", bg.pc = "install"
  PROVE  /\ Edited(version) \in Version /\ Edited(version).log = manifest.log
         /\ Files(Edited(version)) \subseteq DOMAIN tables
         /\ \A n \in Files(Edited(version)) : n < next
         /\ Content(Files(version)) \subseteq Content(Files(Edited(version)))
         /\ Content(Files(Edited(version))) \subseteq Content(Files(manifest))
         /\ bg.flushing => /\ Flushed \subseteq Content(Files(Edited(version)))
                           /\ Files(version) \subseteq Files(Edited(version))
         /\ ~bg.flushing => Edited(version).log = version.log
         /\ Unbuilt => bg.output \notin Files(Edited(version))
         /\ ~bgError => SameFiles(manifest, Edited(version))
<1> DEFINE v == Edited(version)
<1>1. /\ manifest.next <= bg.edit.next /\ bg.edit.next <= next
      /\ bg.edit.log = (IF bg.flushing THEN log ELSE version.log)
      /\ bg.flushing =>
           /\ bg.out < bg.edit.next
           /\ imm # {{}} => bg.out \in DOMAIN tables /\ tables[bg.out] = Flushed
      /\ ~bg.flushing =>
           /\ bg.output # 0 /\ bg.output < bg.edit.next
           /\ bg.output \in DOMAIN tables /\ tables[bg.output] = Content(bg.inputs)
      /\ manifest.log = bg.edit.log
      /\ bg.flushing /\ imm # {{}} => bg.out \in manifest.l0
  BY DEF Inv, EditInv
<1>2. /\ bg \in Background /\ bg.inputs \subseteq Files(version) /\ BgInv
      /\ bg.edit.next \in Nat /\ bg.out \in Nat /\ bg.output \in Nat
      /\ version \in Version
  BY BgIs DEF Inv, BgInv, TypeInv, BgType, StateType
<1>3. Running
  BY DEF Running
<1>4. /\ next \in Nat /\ Files(version) \subseteq DOMAIN tables
      /\ \A n \in Files(version) : n < next
      /\ Content(Files(version)) \subseteq Content(Files(manifest))
      /\ ~bgError => SameFiles(manifest, v)
  <2>1. next \in Nat /\ Files(version) \subseteq DOMAIN tables
    BY <1>3, RunningIs
  <2>2. \A n \in Files(version) : n < next
    BY DEF Inv, NumbersInv
  <2>3. /\ Content(Files(version)) \subseteq Content(Files(manifest))
        /\ ~bgError => SameFiles(manifest, v)
    BY <1>3 DEF Inv, VersionInv
  <2> QED BY <2>1, <2>2, <2>3
<1>5. /\ v \in Version /\ v.l0 = EditL0(version) /\ v.l1 = EditL1(version)
      /\ v.log = bg.edit.log
  BY <1>2, EditedIs
<1> HIDE DEF v
<1>6. CASE bg.flushing
  <2>1. Files(v) = IF imm = {{}} THEN Files(version) ELSE Files(version) \cup {bg.out}
    BY <1>5, <1>6 DEF Files, EditL0, EditL1
  <2>2. Files(v) \subseteq DOMAIN tables
    BY <1>1, <1>4, <1>6, <2>1
  <2>3. bg.out < next
    BY <1>1, <1>2, <1>4, <1>6
  <2>4. Content(Files(v)) = Content(Files(version)) \cup Flushed
    <3>1. CASE imm = {{}}
      <4>1. Flushed = {}
        BY <3>1 DEF Flushed
      <4> QED BY <2>1, <3>1, <4>1
    <3>2. CASE imm # {{}}
      <4>1. tables[bg.out] = Flushed
        BY <1>1, <1>6, <3>2
      <4> QED BY <2>1, <3>2, <4>1 DEF Content
    <3> QED BY <3>1, <3>2
  <2>5. Flushed \subseteq Content(Files(manifest))
    <3>1. CASE imm = {{}}
      BY <3>1 DEF Flushed
    <3>2. CASE imm # {{}}
      BY <1>1, <1>6, <3>2 DEF Content, Files
    <3> QED BY <3>1, <3>2
  <2>6. Unbuilt => bg.output \notin Files(v)
    BY <1>2, <2>1 DEF BgInv, Fresh
  <2> QED BY <1>1, <1>4, <1>5, <1>6, <2>1, <2>2, <2>3, <2>4, <2>5, <2>6 DEF v
<1>7. CASE ~bg.flushing
  <2>1. Files(v) = (Files(version) \ bg.inputs) \cup {bg.output}
    BY <1>5, <1>7 DEF Files, EditL0, EditL1
  <2>2. Files(v) \subseteq DOMAIN tables
    BY <1>1, <1>4, <1>7, <2>1
  <2>3. bg.output < next
    BY <1>1, <1>2, <1>4, <1>7
  <2>4. tables[bg.output] = Content(bg.inputs)
    BY <1>1, <1>7
  <2>5. Content(Files(v)) = Content(Files(version))
    <3>1. Content(Files(v)) = Content(Files(version) \ bg.inputs) \cup Content(bg.inputs)
      BY <2>1, <2>4 DEF Content
    <3>2. Content(Files(version)) \subseteq
            Content(Files(version) \ bg.inputs) \cup Content(bg.inputs)
      BY DEF Content
    <3>3. Content(Files(version) \ bg.inputs) \cup Content(bg.inputs)
            \subseteq Content(Files(version))
      BY <1>2 DEF Content
    <3> QED BY <3>1, <3>2, <3>3
  <2>6. ~Unbuilt
    BY <1>7 DEF Unbuilt
  <2> QED BY <1>1, <1>4, <1>5, <1>7, <2>1, <2>2, <2>3, <2>5, <2>6 DEF v
<1> QED BY <1>6, <1>7

LEMMA InstallMoves ==
  ASSUME Inv, phase = "open", bg.pc = "install", Swept,
         version' = Edited(version), imm' = IF bg.flushing THEN {} ELSE imm,
         UNCHANGED <<manifest, phase, mem, log, next, lastSeq, bgError, shutting, writers,
                     opening, reader, acked, promised, risky, writes, events>>,
         thread' = SignalAll(thread), pending' \subseteq pending, scheduled' \in BOOLEAN,
         BgType', bg'.pc # "install", BgInv', EditInv'
  PROVE  Inv'
<1>1. TypeInv /\ QueueInv
  BY DEF Inv
<1>2. QueueInv' /\ Steady
  BY <1>1, SignalSteps
<1>3. Running /\ Running'
  BY DEF Running
<1>4. /\ version' \in Version /\ version'.log = manifest.log
      /\ Files(version') \subseteq DOMAIN tables
      /\ \A n \in Files(version') : n < next
      /\ Content(Files(version)) \subseteq Content(Files(version'))
      /\ Content(Files(version')) \subseteq Content(Files(manifest))
      /\ bg.flushing => Flushed \subseteq Content(Files(version'))
      /\ ~bg.flushing => version'.log = version.log
      /\ ~bgError => SameFiles(manifest, version')
  BY InstalledIs
<1>5. /\ log \in DOMAIN logs /\ \A n \in DOMAIN logs : n < next
      /\ version.log <= manifest.log /\ manifest.log <= log
      /\ next \in Nat /\ log \in Nat /\ manifest.log \in Nat /\ version.log \in Nat
      /\ DOMAIN logs \subseteq Nat
      /\ \A n \in DOMAIN logs : logs[n] \in LogFile /\ logs[n].synced <= Len(logs[n].recs)
      /\ Files(manifest) \subseteq DOMAIN tables
      /\ manifest.next <= next /\ manifest.seq <= lastSeq
  BY <1>3, RunningIs DEF Inv, DiskInv
<1>6. /\ DOMAIN tables' \subseteq DOMAIN tables
      /\ \A n \in DOMAIN tables' : tables'[n] = tables[n]
      /\ \A n \in Files(version') \cup Files(manifest) \cup reader.files :
           n \in DOMAIN tables => n \in DOMAIN tables'
      /\ DOMAIN logs' \subseteq DOMAIN logs /\ \A n \in DOMAIN logs' : logs'[n] = logs[n]
      /\ \A n \in DOMAIN logs : n >= version'.log => n \in DOMAIN logs'
  BY DEF Swept
<1>7. /\ Files(version)' = Files(version') /\ Files(manifest)' = Files(manifest)
      /\ Content(Files(version))' = Content(Files(version'))
      /\ Content(Files(manifest))' = Content(Files(manifest))
  <2>1. Files(version)' = Files(version') /\ Files(manifest)' = Files(manifest)
    BY DEF Files
  <2>2. \A n \in Files(version') \cup Files(manifest) : tables'[n] = tables[n]
    BY <1>4, <1>5, <1>6
  <2> QED BY <2>1, <2>2 DEF Content
<1>8. /\ InLogs(logs', version'.log) \subseteq InLogs(logs, version.log)
      /\ InLogs(logs, version'.log) \subseteq InLogs(logs', version'.log)
      /\ InLogs(Synced(logs), version'.log) \subseteq InLogs(Synced(logs'), version'.log)
      /\ \A n \in DOMAIN logs' : Synced(logs')[n] = Synced(logs)[n]
  <2>1. \A n \in DOMAIN logs : n >= version'.log => n \in DOMAIN logs' /\ n >= version.log
    BY <1>4, <1>5, <1>6
  <2> QED BY <1>6, <2>1, SweptLogs
<1>9. log \in DOMAIN logs' /\ log >= version'.log
  BY <1>4, <1>5, <1>6
<1>10. /\ Records(logs'[log]) = Records(logs[log])
       /\ Records(Synced(logs')[log]) = Records(Synced(logs)[log])
  BY <1>6, <1>8, <1>9
<1>11. TypeInv'
  <2>1. LogsType'
    <3>1. PICK b \in Nat : \A n \in DOMAIN logs : \A e \in Records(logs[n]) : e.seq <= b
      BY <1>1 DEF TypeInv, LogsType
    <3>2. \A n \in DOMAIN logs' : \A e \in Records(logs'[n]) : e.seq <= b
      BY <1>6, <3>1
    <3>3. DOMAIN logs' \subseteq Nat /\ \A n \in DOMAIN logs' :
            logs'[n] \in LogFile /\ logs'[n].synced <= Len(logs'[n].recs)
      BY <1>5, <1>6
    <3> QED BY <3>2, <3>3 DEF LogsType
  <2>2. TablesType'
    BY <1>1, <1>6 DEF TypeInv, TablesType
  <2>3. MemType' /\ OpeningType' /\ ReaderType' /\ PastType'
    BY <1>1 DEF TypeInv, MemType, OpeningType, ReaderType, PastType
  <2>4. StateType'
    BY <1>1, <1>4 DEF TypeInv, StateType
  <2>5. FlagsType'
    BY <1>1 DEF TypeInv, FlagsType
  <2> QED BY <2>1, <2>2, <2>3, <2>4, <2>5 DEF TypeInv
<1>12. RestInv' /\ ReplayInv'
  BY FrameOpen
<1>13. DiskInv'
  <2>1. Files(manifest) \subseteq DOMAIN tables'
    BY <1>5, <1>6
  <2> QED BY <1>7, <2>1 DEF Inv, DiskInv
<1>14. NumbersInv'
  <2>1. Files(version') \subseteq DOMAIN tables'
    BY <1>4, <1>6
  <2> QED BY <1>4, <1>5, <1>7, <2>1 DEF NumbersInv
<1>15. VersionInv'
  <2>1. \A n \in DOMAIN logs' : n < next
    BY <1>5, <1>6
  <2>2. version'.log <= manifest.log
    BY <1>4, <1>5
  <2> QED BY <1>4, <1>5, <1>7, <1>9, <2>1, <2>2 DEF VersionInv
<1>16. Flushed' = IF bg.flushing THEN {} ELSE Flushed
  BY DEF Flushed
<1>17. SeqInv'
  <2>1. Flushed' \subseteq Flushed
    BY <1>16
  <2>2. Content(Files(manifest))' \subseteq Known
    BY <1>7 DEF Known
  <2>3. InLogs(logs, version.log)' \subseteq InLogs(logs, version.log)
    BY <1>8
  <2> QED BY <1>2, <1>3, <2>1, <2>2, <2>3, OpenSeq DEF Inv
<1>18. SafeInv'
  <2>1. Content(Files(version)) \subseteq Content(Files(version))'
    BY <1>4, <1>7
  <2>2. \/ Flushed \subseteq Content(Files(version))' /\ Flushed' = {}
        \/ /\ Flushed' = Flushed
           /\ InLogs(logs, version.log) \subseteq InLogs(logs', version'.log)
           /\ InLogs(Synced(logs), version.log) \subseteq InLogs(Synced(logs'), version'.log)
    BY <1>4, <1>7, <1>8, <1>16
  <2> QED BY <1>3, <1>10, <2>1, <2>2, OpenSafe DEF Inv
<1>19. GroupInv'
  BY <1>2, <1>10, GroupOfLog DEF Inv
<1>20. ReaderInv'
  <2>1. next <= next /\ next' \in Nat
    BY <1>5
  <2>2. \A n \in reader.files : n \in DOMAIN tables => n \in DOMAIN tables' /\ tables'[n] = tables[n]
    BY <1>6
  <2> QED BY <1>1, <2>1, <2>2, FrameReader DEF Inv
<1> QED BY <1>2, <1>11, <1>12, <1>13, <1>14, <1>15, <1>17, <1>18, <1>19, <1>20 DEF Inv

LEMMA InstallFlushKeeps ==
  ASSUME Inv, InstallFlush
  PROVE  Inv'
<1>1. /\ UNCHANGED <<manifest, phase, mem, log, next, lastSeq, pending, bgError,
                     shutting, writers, opening, reader, acked, promised, risky, writes, events>>
      /\ bg.pc = "install" /\ bg.flushing /\ version' = Edited(version) /\ imm' = {}
      /\ DeleteObsoleteFiles(version', bg.inputs, pending)
      /\ EndFlush(bgError, {}, version', thread)
  BY DEF InstallFlush, past
<1>2. /\ bg \in Background /\ BgInv /\ scheduled \in BOOLEAN /\ scheduled
      /\ bgError \in BOOLEAN
  BY <1>1 DEF Inv, TypeInv, BgType, FlagsType
<1>3. phase = "open"
  BY <1>1, ActiveIsOpen
<1>4. /\ Files(version) \subseteq Files(version')
      /\ Unbuilt => bg.output \notin Files(version')
      /\ ~bgError => SameFiles(manifest, version')
  BY <1>1, <1>3, InstalledIs
<1>5. Swept
  <2>1. ~bgError => Files(manifest) \subseteq Files(version')
    BY <1>4 DEF SameFiles, Files
  <2> QED BY <1>1, <2>1, SweptIs
<1>6. /\ thread' = SignalAll(thread) /\ scheduled' \in BOOLEAN
      /\ \/ bg' = BgIdle
         \/ bg.merging /\ bg' = Resumed /\ scheduled' = scheduled
  BY <1>1, <1>2 DEF EndFlush, EndCall, MaybeScheduleCompaction, Resumed
<1>7. BgInv' /\ EditInv'
  <2>1. Unbuilt => bg.output \notin Files(version') \cup Files(manifest') \cup reader'.files
    BY <1>1, <1>2, <1>4 DEF BgInv, Fresh
  <2>2. bg.inputs \subseteq Files(version')
    BY <1>2, <1>4 DEF BgInv
  <2>3. pending \ {bg.out} \subseteq pending'
    BY <1>1
  <2> QED BY <1>1, <1>2, <1>6, <2>1, <2>2, <2>3, RestsOrResumes
<1>8. BgType' /\ bg'.pc # "install"
  <2>1. CASE bg' = BgIdle
    BY <2>1, BgIdleIs DEF BgType, BgIdle
  <2>2. CASE bg' = Resumed /\ scheduled' = scheduled
    BY <1>2, <2>2, ResumedIs DEF BgType
  <2> QED BY <1>6, <2>1, <2>2
<1> QED BY <1>1, <1>3, <1>5, <1>6, <1>7, <1>8, InstallMoves

LEMMA InstallCompactionResultsKeeps ==
  ASSUME Inv, InstallCompactionResults
  PROVE  Inv'
<1>1. /\ UNCHANGED <<manifest, phase, mem, imm, log, next, lastSeq, bgError,
                     shutting, writers, opening, reader, acked, promised, risky, writes, events>>
      /\ bg.pc = "install" /\ ~bg.flushing /\ version' = Edited(version)
      /\ DeleteObsoleteFiles(version', {}, pending')
      /\ EndCall(bgError, imm, version', thread)
      /\ pending' \subseteq pending
  BY DEF InstallCompactionResults, past
<1>2. bg \in Background /\ BgInv
  BY <1>1 DEF Inv, TypeInv, BgType
<1>3. phase = "open"
  BY <1>1, ActiveIsOpen
<1>4. ~bgError => SameFiles(manifest, version')
  BY <1>1, <1>3, InstalledIs
<1>5. Swept
  <2>1. ~bgError => Files(manifest) \subseteq Files(version')
    BY <1>4 DEF SameFiles, Files
  <2> QED BY <1>1, <2>1, SweptIs
<1>6. thread' = SignalAll(thread) /\ scheduled' \in BOOLEAN /\ bg' = BgIdle
  BY <1>1 DEF EndCall, MaybeScheduleCompaction
<1>7. BgInv' /\ EditInv'
  BY <1>2, <1>6, RestsOrResumes
<1>8. BgType' /\ bg'.pc # "install"
  BY <1>6, BgIdleIs DEF BgType, BgIdle
<1> QED BY <1>1, <1>3, <1>5, <1>6, <1>7, <1>8, InstallMoves

LEMMA BgStepKeeps ==
  ASSUME Inv, BgStep
  PROVE  Inv'
BY BackgroundCallKeeps, NestedFlushKeeps, OpenCompactionOutputFileKeeps, FinishCompactionKeeps,
   BuildTableKeeps, LogEditKeeps, InstallFlushKeeps, InstallCompactionResultsKeeps DEF BgStep

-----------------------------------------------------------------------------
(* Get, and the start of a close.                                          *)

LEMMA BeginGetKeeps ==
  ASSUME Inv, BeginGet
  PROVE  Inv'
<1>1. /\ UNCHANGED <<logs, tables, manifest, phase, mem, imm, log, version, next, lastSeq,
                     pending, bgError, shutting, scheduled, writers, thread, bg, opening,
                     acked, promised, risky, writes>>
      /\ phase = "open" /\ events' = events + 1
      /\ reader' = [on |-> TRUE, snapshot |-> lastSeq, mem |-> mem \cup UNION imm,
                    files |-> version.l0 \cup version.l1,
                    expect |-> Visible(Everything, lastSeq)]
  BY DEF BeginGet, Event, disk, state, flags, client, past
<1>2. /\ reader'.on /\ reader'.snapshot = lastSeq /\ reader'.mem = mem \cup Flushed
      /\ reader'.files = Files(version) /\ reader'.expect = Visible(Everything, lastSeq)
  BY <1>1 DEF Flushed, Files
<1>3. TypeInv /\ QueueInv
  BY DEF Inv
<1>4. Running
  BY <1>1 DEF Running
<1>5. /\ Files(version) \subseteq DOMAIN tables /\ Files(version) \subseteq Nat
      /\ lastSeq \in Nat /\ next \in Nat /\ \A n \in Files(version) : n < next
  BY <1>1, <1>4, RunningIs DEF Inv, NumbersInv
<1>6. Everything = mem \cup Flushed \cup Content(Files(version))
  <2>1. Files(version) \cap DOMAIN tables = Files(version)
    BY <1>5
  <2>2. Everything = mem \cup Flushed \cup Content(Files(version) \cap DOMAIN tables)
    BY DEF Everything, Flushed, Files
  <2> QED BY <2>1, <2>2 DEF Content
<1>7. mem \in SUBSET Entry /\ Flushed \in SUBSET Entry /\ Content(Files(version)) \in SUBSET Entry
  BY <1>3, <1>5 DEF TypeInv, MemType, TablesType, Flushed, Content
<1>8. Visible(Everything, lastSeq) \in SUBSET Entry
  BY <1>6, <1>7 DEF Visible
<1>9. TypeInv'
  <2>1. LogsType' /\ TablesType'
    <3>1. LogsType /\ TablesType /\ logs' = logs /\ tables' = tables
      BY <1>1, <1>3 DEF TypeInv
    <3>2. LogsType'
      BY ONLY <3>1 DEF LogsType
    <3> QED BY <3>1, <3>2 DEF TablesType
  <2>2. MemType' /\ OpeningType' /\ StateType' /\ FlagsType' /\ BgType'
    BY <1>1, <1>3 DEF TypeInv, MemType, OpeningType, StateType, FlagsType, BgType
  <2>3. PastType'
    BY <1>1, <1>3 DEF TypeInv, PastType
  <2>4. ReaderType'
    <3> DEFINE m == mem \cup UNION imm
               f == version.l0 \cup version.l1
               x == Visible(Everything, lastSeq)
    <3>1. m \in SUBSET Entry /\ f \in SUBSET Nat /\ x \in SUBSET Entry
      BY <1>5, <1>7, <1>8 DEF Flushed, Files
    <3>2. reader' = [on |-> TRUE, snapshot |-> lastSeq, mem |-> m, files |-> f, expect |-> x]
      BY <1>1
    <3> HIDE DEF m, f, x
    <3> QED BY <1>5, <3>1, <3>2 DEF ReaderType
  <2> QED BY <2>1, <2>2, <2>3, <2>4 DEF TypeInv
<1>10. QueueInv' /\ Steady
  <2>1. writers' = writers /\ writes' = writes /\ lastSeq' = lastSeq /\ thread' = thread
    BY <1>1
  <2> QED BY <1>3, <2>1, SignalSteps
<1>11. RestInv' /\ ReplayInv'
  BY <1>1, FrameOpen
<1>12. DiskInv' /\ NumbersInv' /\ VersionInv'
  <2>1. next <= next /\ lastSeq <= lastSeq /\ DOMAIN logs \subseteq Nat
    BY <1>5, RunningIs
  <2> QED BY <1>1, <1>3, <1>5, <2>1, FrameDisk, FrameNumbers, FrameVersion DEF Inv
<1>13. BgInv'
  <2>1. \A n : Fresh(n) => Fresh(n)'
    BY <1>1, <1>2 DEF Fresh, Files
  <2>2. Fresh(bg.output)' <=> (bg.output \notin Files(version') \cup Files(manifest') \cup reader'.files)
    BY <1>1 DEF Fresh, Files
  <2>3. Fresh(bg.out)' <=> (bg.out \notin Files(version') \cup Files(manifest') \cup reader'.files)
    BY <1>1 DEF Fresh, Files
  <2>4. /\ Fresh(bg.output) => bg.output \notin Files(version') \cup Files(manifest') \cup reader'.files
        /\ Fresh(bg.out) => bg.out \notin Files(version') \cup Files(manifest') \cup reader'.files
    BY <1>1, <1>2 DEF Fresh, Files
  <2>5. Files(version)' = Files(version) /\ (Unbuilt' <=> Unbuilt)
    BY <1>1 DEF Files, Unbuilt
  <2> QED BY <1>1, <2>2, <2>3, <2>4, <2>5 DEF Inv, BgInv
<1>14. EditInv'
  <2>1. bg.inputs \subseteq DOMAIN tables
    BY <1>5 DEF Inv, BgInv
  <2>2. next <= next /\ lastSeq <= lastSeq
    BY <1>5
  <2> QED BY <1>1, <1>3, <1>5, <2>1, <2>2, FrameEdit DEF Inv
<1>15. SeqInv' /\ SafeInv' /\ GroupInv'
  BY <1>1, <1>10, FrameSeq, FrameSafe, FrameGroup DEF Inv
<1>16. ReaderInv'
  <2>1. Content(reader.files)' = Content(Files(version))
    BY <1>1, <1>2 DEF Content
  <2>2. GetsSeeTheirSnapshot'
    <3>1. Visible(reader.mem \cup Content(reader.files), reader.snapshot)'
            = Visible(mem \cup Flushed \cup Content(Files(version)), lastSeq)
      BY <1>2, <2>1 DEF Visible
    <3>2. reader'.files \subseteq DOMAIN tables'
      BY <1>1, <1>2, <1>5
    <3> QED BY <1>2, <1>6, <3>1, <3>2 DEF GetsSeeTheirSnapshot
  <2> QED BY <1>1, <1>2, <1>5, <2>2 DEF ReaderInv
<1> QED BY <1>9, <1>10, <1>11, <1>12, <1>13, <1>14, <1>15, <1>16 DEF Inv

LEMMA EndGetKeeps ==
  ASSUME Inv, EndGet
  PROVE  Inv'
<1>1. /\ UNCHANGED <<logs, tables, manifest, phase, mem, imm, log, version, next, lastSeq,
                     pending, bgError, shutting, scheduled, writers, thread, bg, opening,
                     acked, promised, risky, writes, events>>
      /\ reader.on /\ reader' = Idle
  BY DEF EndGet, disk, state, flags, client, past
<1>2. /\ ~reader'.on /\ reader'.files = {} /\ phase = "open"
  BY <1>1 DEF Idle, Inv, ReaderInv
<1>3. TypeInv /\ QueueInv
  BY DEF Inv
<1>4. next \in Nat /\ lastSeq \in Nat /\ DOMAIN logs \subseteq Nat
      /\ next <= next /\ lastSeq <= lastSeq
  BY RunningIs
<1>5. TypeInv'
  <2>1. LogsType' /\ TablesType'
    <3>1. LogsType /\ TablesType /\ logs' = logs /\ tables' = tables
      BY <1>1, <1>3 DEF TypeInv
    <3>2. LogsType'
      BY ONLY <3>1 DEF LogsType
    <3> QED BY <3>1, <3>2 DEF TablesType
  <2>2. MemType' /\ OpeningType' /\ StateType' /\ FlagsType' /\ BgType' /\ PastType'
    BY <1>1, <1>3 DEF TypeInv, MemType, OpeningType, StateType, FlagsType, BgType, PastType
  <2>3. ReaderType'
    BY <1>1 DEF ReaderType, Idle
  <2> QED BY <2>1, <2>2, <2>3 DEF TypeInv
<1>6. QueueInv' /\ Steady
  <2>1. writers' = writers /\ writes' = writes /\ lastSeq' = lastSeq /\ thread' = thread
    BY <1>1
  <2> QED BY <1>3, <2>1, SignalSteps
<1>7. RestInv' /\ ReplayInv'
  BY <1>1, <1>2, FrameOpen
<1>8. DiskInv' /\ NumbersInv' /\ VersionInv'
  BY <1>1, <1>3, <1>4, FrameDisk, FrameNumbers, FrameVersion DEF Inv
<1>9. BgInv'
  <2>1. /\ Fresh(bg.output) => Fresh(bg.output)'
        /\ Fresh(bg.out) => Fresh(bg.out)'
    BY <1>1, <1>2 DEF Fresh, Files
  <2>2. Files(version)' = Files(version) /\ (Unbuilt' <=> Unbuilt)
    BY <1>1 DEF Files, Unbuilt
  <2> QED BY <1>1, <2>1, <2>2 DEF Inv, BgInv
<1>10. EditInv'
  <2>1. bg.inputs \subseteq DOMAIN tables
    BY <1>2 DEF Inv, BgInv, NumbersInv
  <2> QED BY <1>1, <1>3, <1>4, <2>1, FrameEdit DEF Inv
<1>11. SeqInv' /\ SafeInv' /\ GroupInv'
  BY <1>1, <1>6, FrameSeq, FrameSafe, FrameGroup DEF Inv
<1>12. ReaderInv'
  BY <1>1, <1>2 DEF ReaderInv
<1> QED BY <1>5, <1>6, <1>7, <1>8, <1>9, <1>10, <1>11, <1>12 DEF Inv

LEMMA StartCloseKeeps ==
  ASSUME Inv, StartClose
  PROVE  Inv'
<1>1. /\ UNCHANGED <<logs, tables, manifest, phase, mem, imm, log, version, lastSeq, writers,
                     thread, opening, reader, acked, promised, risky, writes, next, pending,
                     bgError, scheduled, bg>>
      /\ phase = "open" /\ shutting' = TRUE /\ events' = events + 1
  BY DEF StartClose, Event, disk, state, client, past
<1>2. TypeInv /\ QueueInv
  BY DEF Inv
<1>3. next \in Nat /\ lastSeq \in Nat /\ DOMAIN logs \subseteq Nat
      /\ next <= next /\ lastSeq <= lastSeq
  BY RunningIs
<1>4. TypeInv'
  <2>1. LogsType' /\ TablesType'
    <3>1. LogsType /\ TablesType /\ logs' = logs /\ tables' = tables
      BY <1>1, <1>2 DEF TypeInv
    <3>2. LogsType'
      BY ONLY <3>1 DEF LogsType
    <3> QED BY <3>1, <3>2 DEF TablesType
  <2>2. MemType' /\ OpeningType' /\ StateType' /\ ReaderType' /\ BgType'
    BY <1>1, <1>2 DEF TypeInv, MemType, OpeningType, StateType, ReaderType, BgType
  <2>3. FlagsType'
    BY <1>1, <1>2 DEF TypeInv, FlagsType
  <2>4. PastType'
    BY <1>1, <1>2 DEF TypeInv, PastType
  <2> QED BY <2>1, <2>2, <2>3, <2>4 DEF TypeInv
<1>5. QueueInv' /\ Steady
  <2>1. writers' = writers /\ writes' = writes /\ lastSeq' = lastSeq /\ thread' = thread
    BY <1>1
  <2> QED BY <1>2, <2>1, SignalSteps
<1>6. RestInv' /\ ReplayInv'
  BY <1>1, FrameOpen
<1>7. DiskInv' /\ NumbersInv' /\ VersionInv'
  BY <1>1, <1>2, <1>3, FrameDisk, FrameNumbers, FrameVersion DEF Inv
<1>8. BgInv'
  <2>1. bg.flushing => imm' # {}
    BY <1>1 DEF Inv, BgInv
  <2> QED BY <1>1, <1>2, <1>3, <2>1, FrameBg DEF Inv
<1>9. EditInv'
  <2>1. bg.inputs \subseteq DOMAIN tables
    BY <1>1 DEF Inv, BgInv, NumbersInv
  <2> QED BY <1>1, <1>2, <1>3, <2>1, FrameEdit DEF Inv
<1>10. SeqInv' /\ SafeInv' /\ GroupInv'
  BY <1>1, <1>5, FrameSeq, FrameSafe, FrameGroup DEF Inv
<1>11. ReaderInv'
  BY <1>1, <1>2, <1>3, FrameReader DEF Inv
<1> QED BY <1>4, <1>5, <1>6, <1>7, <1>8, <1>9, <1>10, <1>11 DEF Inv

-----------------------------------------------------------------------------
(* What a process that ends leaves behind.                                 *)

LEMMA InLogsMore ==
  ASSUME NEW lg, NEW lh, NEW first, DOMAIN lg \subseteq DOMAIN lh,
         \A n \in DOMAIN lg : Records(lg[n]) \subseteq Records(lh[n])
  PROVE  InLogs(lg, first) \subseteq InLogs(lh, first)
<1>1. \A e : (\E n \in DOMAIN lg : n >= first /\ e \in Records(lg[n]))
               => \E n \in DOMAIN lh : n >= first /\ e \in Records(lh[n])
  OBVIOUS
<1>2. /\ \A e : e \in InLogs(lg, first) <=> \E n \in DOMAIN lg : n >= first /\ e \in Records(lg[n])
      /\ \A e : e \in InLogs(lh, first) <=> \E n \in DOMAIN lh : n >= first /\ e \in Records(lh[n])
  BY DEF InLogs
<1> QED BY <1>1, <1>2

LEMMA RecoverableIs ==
  ASSUME DiskInv, NEW lg
  PROVE  Recoverable(lg) = Content(Files(manifest)) \cup InLogs(lg, manifest.log)
<1>1. Files(manifest) \cap DOMAIN tables = Files(manifest)
  BY DEF DiskInv
<1>2. Recoverable(lg) = Content(Files(manifest) \cap DOMAIN tables) \cup InLogs(lg, manifest.log)
  BY DEF Recoverable, Files, InLogs
<1> QED BY <1>1, <1>2

LEMMA InLogsFrom ==
  ASSUME NEW lg, NEW first \in Nat, NEW later \in Nat, first <= later, DOMAIN lg \subseteq Nat
  PROVE  InLogs(lg, later) \subseteq InLogs(lg, first)
<1>1. \A n \in DOMAIN lg : n >= later => n >= first
  OBVIOUS
<1> QED BY <1>1 DEF InLogs

LEMMA RecoverableUnique ==
  ASSUME Inv
  PROVE  Unique(Recoverable(logs))
<1>1. CASE ~Running
  BY <1>1 DEF Inv, SeqInv
<1>2. CASE Running
  <2>1. /\ version.log <= manifest.log /\ version.log \in Nat /\ manifest.log \in Nat
        /\ DOMAIN logs \subseteq Nat
    BY <1>2, RunningIs
  <2>2. InLogs(logs, manifest.log) \subseteq InLogs(logs, version.log)
    BY <2>1, InLogsFrom
  <2>3. Recoverable(logs) \subseteq Known
    BY <2>2, RecoverableIs DEF Inv, Known
  <2>4. Unique(Known)
    BY <1>2 DEF Inv, SeqInv
  <2> QED BY <2>3, <2>4 DEF Unique
<1> QED BY <1>1, <1>2

(* An open database can be closed or die at any time.                      *)
LEMMA OpenSurvives ==
  ASSUME Inv
  PROVE  SyncedSurvive /\ AckedSurvive
<1>1. CASE ~Running
  BY <1>1 DEF Inv, SafeInv
<1>2. CASE Running
  <2> DEFINE V == Content(Files(version))
             M == Content(Files(manifest))
             S == Synced(logs)
  <2>1. /\ log \in DOMAIN logs /\ version.log \in Nat /\ manifest.log \in Nat /\ log \in Nat
        /\ manifest.log <= log /\ DOMAIN logs \subseteq Nat
        /\ \A n \in DOMAIN logs : logs[n] \in LogFile /\ logs[n].synced <= Len(logs[n].recs)
    BY <1>2, RunningIs
  <2>2. DOMAIN S = DOMAIN logs
    BY <2>1, SyncedIs
  <2>3. /\ V \subseteq M
        /\ manifest.log = version.log \/ Flushed \subseteq M
    BY <1>2 DEF Inv, VersionInv
  <2>4. /\ Recoverable(logs) = M \cup InLogs(logs, manifest.log)
        /\ Recoverable(S) = M \cup InLogs(S, manifest.log)
    BY RecoverableIs DEF Inv
  <2>5. /\ Records(logs[log]) \subseteq Recoverable(logs)
        /\ Records(S[log]) \subseteq Recoverable(S)
    <3>1. log >= manifest.log
      BY <2>1
    <3>2. Records(logs[log]) \subseteq InLogs(logs, manifest.log)
      BY <2>1, <3>1 DEF InLogs
    <3>3. Records(S[log]) \subseteq InLogs(S, manifest.log)
      <4> HIDE DEF S
      <4> QED BY <2>1, <2>2, <3>1 DEF InLogs
    <3> QED BY <2>4, <3>2, <3>3
  <2>6. /\ acked \ risky \subseteq Ids(Visible(mem \cup Flushed \cup V, lastSeq))
        /\ Firm(mem) \subseteq Records(logs[log])
        /\ Firm(Flushed) \subseteq InLogs(logs, version.log)
        /\ \A id \in promised \ risky : Durable(id)
    BY <1>2 DEF Inv, SafeInv
  <2>7. ASSUME NEW id \in promised \ risky PROVE id \in Ids(Recoverable(S))
    <3>1. PICK e \in mem \cup Flushed \cup V :
            /\ e.id = id
            /\ \/ e \in V
               \/ e \in Flushed \cap InLogs(S, version.log)
               \/ e \in mem \cap Records(S[log])
      BY <2>6, <2>7 DEF Durable
    <3>2. e \in Recoverable(S)
      BY <2>3, <2>4, <2>5, <3>1
    <3> QED BY <3>1, <3>2 DEF Ids
  <2>8. ASSUME NEW id \in acked \ risky PROVE id \in Ids(Recoverable(logs))
    <3>1. PICK e \in mem \cup Flushed \cup V : e.id = id
      BY <2>6, <2>8 DEF Ids, Visible
    <3>2. e.id \notin risky
      BY <2>8, <3>1
    <3>3. \/ e \in V
          \/ e \in Flushed /\ e \in InLogs(logs, version.log)
          \/ e \in Records(logs[log])
      BY <2>6, <3>1, <3>2 DEF Firm
    <3>4. e \in Recoverable(logs)
      BY <2>3, <2>4, <2>5, <3>3
    <3> QED BY <3>1, <3>4 DEF Ids
  <2> QED BY <2>7, <2>8 DEF SyncedSurvive, AckedSurvive
<1> QED BY <1>1, <1>2

LEMMA ForgetKeeps ==
  ASSUME Inv, Forget, UNCHANGED <<tables, manifest, writes, promised, risky>>,
         events' \in Nat, LogsType', acked' \subseteq acked,
         Recoverable(logs') \subseteq Recoverable(logs),
         manifest.dead \/ promised \ risky \subseteq Ids(Recoverable(Synced(logs'))),
         manifest.dead \/ acked' \ risky \subseteq Ids(Recoverable(logs'))
  PROVE  Inv'
<1>1. /\ phase' = "closed" /\ mem' = {} /\ imm' = {} /\ log' = 0
      /\ version' = [l0 |-> {}, l1 |-> {}, log |-> 0]
      /\ next' = 2 /\ lastSeq' = 0 /\ pending' = {}
      /\ bgError' = FALSE /\ shutting' = FALSE /\ scheduled' = FALSE
      /\ writers' = << >> /\ thread' = [t \in Threads |-> Resting]
      /\ bg' = BgIdle /\ opening' = [todo |-> {}, made |-> {}] /\ reader' = Idle
  BY DEF Forget
<1>2. TypeInv
  BY DEF Inv
<1>3. TypeInv'
  <2>1. TablesType' /\ MemType'
    BY <1>1, <1>2 DEF TypeInv, TablesType, MemType
  <2>2. StateType'
    <3>1. version' \in Version
      BY <1>1 DEF Version
    <3> QED BY <1>1, <1>2, <3>1 DEF TypeInv, StateType
  <2>3. FlagsType' /\ OpeningType'
    BY <1>1 DEF FlagsType, OpeningType
  <2>4. BgType'
    BY <1>1, BgIdleIs DEF BgType, BgIdle
  <2>5. PastType'
    BY <1>2 DEF TypeInv, PastType
  <2>6. ReaderType'
    BY <1>1 DEF ReaderType, Idle
  <2> QED BY <2>1, <2>2, <2>3, <2>4, <2>5, <2>6 DEF TypeInv
<1>4. RestInv'
  BY <1>1 DEF RestInv
<1>5. ~Running'
  BY <1>1 DEF Running
<1>6. QueueInv' /\ BgInv' /\ EditInv' /\ GroupInv' /\ ReaderInv'
  BY <1>1, <1>3, <1>4, AtRest
<1>7. DiskInv'
  BY FrameDisk DEF Inv
<1>8. NumbersInv' /\ ReplayInv' /\ VersionInv'
  BY <1>1 DEF NumbersInv, ReplayInv, VersionInv, Running
<1>9. /\ Recoverable(logs)' = Recoverable(logs')
      /\ Recoverable(Synced(logs))' = Recoverable(Synced(logs'))
  BY DEF Recoverable, Content, Synced
<1>10. SeqInv'
  <2>1. Unique(Recoverable(logs))
    BY RecoverableUnique
  <2>2. Unique(Recoverable(logs))'
    BY <1>9, <2>1 DEF Unique
  <2> QED BY <1>5, <2>2 DEF SeqInv
<1>11. SafeInv'
  <2>1. SyncedSurvive' /\ AckedSurvive'
    BY <1>9 DEF SyncedSurvive, AckedSurvive
  <2> QED BY <1>1, <1>5, <2>1 DEF SafeInv
<1> QED BY <1>3, <1>4, <1>6, <1>7, <1>8, <1>10, <1>11 DEF Inv

(* A crash cuts each log somewhere behind its synced part.                 *)
Cut(lg, kept, lh) ==
  /\ \A n \in DOMAIN lg : lg[n] \in LogFile /\ lg[n].synced <= Len(lg[n].recs)
  /\ \A n \in DOMAIN lg : kept[n] \in lg[n].synced .. Len(lg[n].recs)
  /\ DOMAIN lh = DOMAIN lg /\ \A n \in DOMAIN lg : lh[n] = Truncated(lg[n], kept[n])
Less(lg, lh) ==
  /\ DOMAIN lh = DOMAIN lg
  /\ \A n \in DOMAIN lh : lh[n] \in LogFile /\ lh[n].synced <= Len(lh[n].recs)
  /\ \A n \in DOMAIN lg : /\ Records(lh[n]) \subseteq Records(lg[n])
                          /\ Records(Synced(lg)[n]) \subseteq Records(Synced(lh)[n])

LEMMA CrashLogs ==
  ASSUME NEW lg, NEW kept, NEW lh, Cut(lg, kept, lh)
  PROVE  Less(lg, lh)
<1>0. \A n \in DOMAIN lg : lg[n] \in LogFile /\ lg[n].synced <= Len(lg[n].recs)
                          /\ kept[n] \in lg[n].synced .. Len(lg[n].recs)
  BY DEF Cut
<1>1. DOMAIN lh = DOMAIN lg /\ \A n \in DOMAIN lg : lh[n] = Truncated(lg[n], kept[n])
  BY DEF Cut
<1>2. ASSUME NEW n \in DOMAIN lg
      PROVE  /\ lh[n] \in LogFile /\ lh[n].synced = kept[n] /\ Len(lh[n].recs) = kept[n]
             /\ kept[n] \in Nat /\ lg[n].synced \in Nat /\ lg[n].synced <= kept[n]
             /\ Records(lh[n]) = UNION {lg[n].recs[i] : i \in 1 .. kept[n]}
             /\ Records(lh[n]) \subseteq Records(lg[n])
  <2>1. lg[n] \in LogFile /\ lg[n].synced \in Nat /\ Len(lg[n].recs) \in Nat
    BY <1>0, LogFileIs
  <2>2. kept[n] \in 0 .. Len(lg[n].recs) /\ kept[n] \in Nat /\ lg[n].synced <= kept[n]
    BY <1>0, <2>1
  <2>3. LET g == Truncated(lg[n], kept[n]) IN
         /\ g \in LogFile /\ g.synced = kept[n] /\ Len(g.recs) = kept[n]
         /\ Records(g) = UNION {lg[n].recs[i] : i \in 1 .. kept[n]}
         /\ Records(g) \subseteq Records(lg[n])
    BY <2>1, <2>2, CutLog
  <2> QED BY <1>1, <2>1, <2>2, <2>3
<1>3. \A n \in DOMAIN lh : lh[n] \in LogFile /\ lh[n].synced <= Len(lh[n].recs)
  BY <1>1, <1>2
<1>4. \A n \in DOMAIN lg : Records(Synced(lg)[n]) = UNION {lg[n].recs[i] : i \in 1 .. lg[n].synced}
  BY ONLY <1>0, SyncedIs
<1>5. \A n \in DOMAIN lh : Records(Synced(lh)[n]) = UNION {lh[n].recs[i] : i \in 1 .. lh[n].synced}
  <2> HIDE DEF Truncated
  <2> QED BY ONLY <1>3, SyncedIs
<1>6. ASSUME NEW n \in DOMAIN lg
      PROVE  Records(Synced(lg)[n]) \subseteq Records(Synced(lh)[n])
  <2>1. Records(Synced(lh)[n]) = Records(lh[n])
    <3>1. lh[n].recs \in Seq(SUBSET Entry)
      BY <1>2, LogFileIs
    <3>2. DOMAIN lh[n].recs = 1 .. lh[n].synced
      BY <1>2, <3>1
    <3> QED BY <1>1, <1>5, <3>2 DEF Records
  <2>2. \A i \in 1 .. lg[n].synced : i \in 1 .. kept[n]
    BY <1>2
  <2>3. UNION {lg[n].recs[i] : i \in 1 .. lg[n].synced}
          \subseteq UNION {lg[n].recs[i] : i \in 1 .. kept[n]}
    BY <2>2
  <2>4. Records(lh[n]) = UNION {lg[n].recs[i] : i \in 1 .. kept[n]}
    BY <1>2
  <2>5. Records(Synced(lg)[n]) = UNION {lg[n].recs[i] : i \in 1 .. lg[n].synced}
    BY <1>4
  <2> QED BY ONLY <2>1, <2>3, <2>4, <2>5
<1> QED BY <1>1, <1>2, <1>3, <1>6 DEF Less

LEMMA CrashKeeps ==
  ASSUME Inv, Crash
  PROVE  Inv'
<1>1. /\ Forget /\ UNCHANGED <<tables, manifest, writes>> /\ events' = events + 1
  BY DEF Crash, Event
<1>2. /\ events \in Nat /\ LogsType /\ DOMAIN logs \subseteq Nat
      /\ \A n \in DOMAIN logs : logs[n] \in LogFile /\ logs[n].synced <= Len(logs[n].recs)
  BY DEF Inv, TypeInv, PastType, LogsType
<1>3. SyncedSurvive /\ AckedSurvive
  BY OpenSurvives
<1>4. CASE UNCHANGED <<logs, past>>
  <2>1. UNCHANGED <<logs, promised, risky, acked>>
    BY <1>4 DEF past
  <2>2. LogsType'
    BY ONLY <1>2, <2>1 DEF LogsType
  <2>3. /\ Recoverable(logs') \subseteq Recoverable(logs)
        /\ manifest.dead \/ promised \ risky \subseteq Ids(Recoverable(Synced(logs')))
        /\ manifest.dead \/ acked' \ risky \subseteq Ids(Recoverable(logs'))
    BY <1>3, <2>1 DEF SyncedSurvive, AckedSurvive
  <2>4. events' \in Nat /\ acked' \subseteq acked
    BY <1>1, <1>2, <2>1
  <2> QED BY <1>1, <2>1, <2>2, <2>3, <2>4, ForgetKeeps
<1>5. CASE /\ \E kept \in [DOMAIN logs -> 0 .. MaxWrites] :
                /\ \A n \in DOMAIN logs : kept[n] \in logs[n].synced .. Len(logs[n].recs)
                /\ logs' = [n \in DOMAIN logs |-> Truncated(logs[n], kept[n])]
           /\ acked' = acked \cap (promised \cup Ids(Recoverable(logs')))
           /\ UNCHANGED <<promised, risky>>
  <2>1. PICK kept : /\ \A n \in DOMAIN logs : kept[n] \in logs[n].synced .. Len(logs[n].recs)
                    /\ logs' = [n \in DOMAIN logs |-> Truncated(logs[n], kept[n])]
    BY <1>5
  <2>2. /\ DOMAIN logs' = DOMAIN logs
        /\ \A n \in DOMAIN logs' : logs'[n] \in LogFile /\ logs'[n].synced <= Len(logs'[n].recs)
        /\ \A n \in DOMAIN logs :
             /\ Records(logs'[n]) \subseteq Records(logs[n])
             /\ Records(Synced(logs)[n]) \subseteq Records(Synced(logs')[n])
    <3>1. Cut(logs, kept, logs')
      BY <1>2, <2>1 DEF Cut
    <3>2. Less(logs, logs')
      BY <3>1, CrashLogs
    <3> QED BY <3>2 DEF Less
  <2>3. /\ DOMAIN Synced(logs) = DOMAIN logs /\ DOMAIN Synced(logs') = DOMAIN logs'
        /\ \A n \in DOMAIN logs' : Records(Synced(logs')[n]) \subseteq Records(logs'[n])
    <3>1. DOMAIN Synced(logs) = DOMAIN logs
      BY <1>2, SyncedIs
    <3>2. /\ DOMAIN Synced(logs') = DOMAIN logs'
          /\ \A n \in DOMAIN logs' : Records(Synced(logs')[n]) \subseteq Records(logs'[n])
      BY ONLY <2>2, SyncedIs
    <3> QED BY <3>1, <3>2
  <2>4. /\ InLogs(logs', manifest.log) \subseteq InLogs(logs, manifest.log)
        /\ InLogs(Synced(logs), manifest.log) \subseteq InLogs(Synced(logs'), manifest.log)
        /\ InLogs(Synced(logs'), manifest.log) \subseteq InLogs(logs', manifest.log)
    <3>1. InLogs(logs', manifest.log) \subseteq InLogs(logs, manifest.log)
      <4>1. DOMAIN logs' \subseteq DOMAIN logs
            /\ \A n \in DOMAIN logs' : Records(logs'[n]) \subseteq Records(logs[n])
        BY <2>2
      <4> QED BY ONLY <4>1, InLogsMore
    <3>2. InLogs(Synced(logs), manifest.log) \subseteq InLogs(Synced(logs'), manifest.log)
      <4>1. DOMAIN Synced(logs) \subseteq DOMAIN Synced(logs')
            /\ \A n \in DOMAIN Synced(logs) :
                 Records(Synced(logs)[n]) \subseteq Records(Synced(logs')[n])
        BY <2>2, <2>3
      <4> QED BY ONLY <4>1, InLogsMore
    <3>3. InLogs(Synced(logs'), manifest.log) \subseteq InLogs(logs', manifest.log)
      <4>1. DOMAIN Synced(logs') \subseteq DOMAIN logs'
            /\ \A n \in DOMAIN Synced(logs') :
                 Records(Synced(logs')[n]) \subseteq Records(logs'[n])
        BY <2>2, <2>3
      <4> QED BY ONLY <4>1, InLogsMore
    <3> QED BY <3>1, <3>2, <3>3
  <2>5. /\ Recoverable(logs') \subseteq Recoverable(logs)
        /\ Recoverable(Synced(logs)) \subseteq Recoverable(Synced(logs'))
        /\ Recoverable(Synced(logs')) \subseteq Recoverable(logs')
    BY <2>4, RecoverableIs DEF Inv
  <2>6. LogsType'
    <3>1. PICK b \in Nat : \A n \in DOMAIN logs : \A e \in Records(logs[n]) : e.seq <= b
      BY <1>2 DEF LogsType
    <3>2. \A n \in DOMAIN logs' : \A e \in Records(logs'[n]) : e.seq <= b
      BY <2>2, <3>1
    <3>3. DOMAIN logs' \subseteq Nat
      BY <1>2, <2>2
    <3> QED BY <2>2, <3>2, <3>3 DEF LogsType
  <2>7. manifest.dead \/ promised \ risky \subseteq Ids(Recoverable(Synced(logs')))
    BY <1>3, <2>5 DEF SyncedSurvive, Ids
  <2>8. manifest.dead \/ acked' \ risky \subseteq Ids(Recoverable(logs'))
    <3>1. Ids(Recoverable(Synced(logs'))) \subseteq Ids(Recoverable(logs'))
      BY <2>5 DEF Ids
    <3> QED BY <1>5, <2>7, <3>1
  <2>9. events' \in Nat /\ acked' \subseteq acked
    BY <1>1, <1>2, <1>5
  <2> QED BY <1>1, <1>5, <2>5, <2>6, <2>7, <2>8, <2>9, ForgetKeeps
<1> QED BY <1>4, <1>5 DEF Crash

LEMMA EndCloseKeeps ==
  ASSUME Inv, EndClose
  PROVE  Inv'
<1>1. Forget /\ UNCHANGED <<logs, tables, manifest, acked, promised, risky, writes, events>>
  BY DEF EndClose, disk, past
<1>2. events \in Nat /\ LogsType
  BY DEF Inv, TypeInv, PastType
<1>3. LogsType'
  BY ONLY <1>1, <1>2 DEF LogsType
<1>4. /\ Recoverable(logs') \subseteq Recoverable(logs)
      /\ manifest.dead \/ promised \ risky \subseteq Ids(Recoverable(Synced(logs')))
      /\ manifest.dead \/ acked' \ risky \subseteq Ids(Recoverable(logs'))
  BY <1>1, OpenSurvives DEF SyncedSurvive, AckedSurvive
<1>5. events' \in Nat /\ acked' \subseteq acked
  BY <1>1, <1>2
<1> QED BY <1>1, <1>3, <1>4, <1>5, ForgetKeeps

-----------------------------------------------------------------------------
(* Opening.                                                                *)

LEMMA OpeningKeeps ==
  ASSUME Inv, phase # "open", phase' \in {"closed", "replay", "switch", "clean"},
         UNCHANGED <<mem, imm, pending, flags, client, bg, reader, past, writes, events>>,
         LogsType', TablesType', manifest' \in Snapshot, version' \in Version, log' \in Nat,
         next' \in Nat, next' > 0, lastSeq' \in Nat, OpeningType'
  PROVE  /\ TypeInv' /\ RestInv'
         /\ QueueInv' /\ BgInv' /\ EditInv' /\ GroupInv' /\ ReaderInv'
<1>1. UNCHANGED <<mem, imm, pending, bgError, shutting, scheduled, writers, thread, bg, reader,
                  acked, promised, risky, writes, events>>
  BY DEF flags, client, past
<1>2. /\ mem = {} /\ imm = {} /\ pending = {} /\ reader = Idle
      /\ bgError = FALSE /\ shutting = FALSE /\ scheduled = FALSE
      /\ writers = << >> /\ thread = [t \in Threads |-> Resting] /\ bg = BgIdle
  BY DEF Inv, RestInv
<1>3. TypeInv
  BY DEF Inv
<1>4. TypeInv'
  <2>1. MemType' /\ ReaderType'
    BY <1>1, <1>3 DEF TypeInv, MemType, ReaderType
  <2>2. StateType'
    BY <1>1, <1>2 DEF StateType
  <2>3. FlagsType'
    BY <1>1, <1>2 DEF FlagsType
  <2>4. BgType'
    BY <1>1, <1>3 DEF TypeInv, BgType
  <2>5. PastType'
    BY <1>1, <1>3 DEF TypeInv, PastType
  <2> QED BY <2>1, <2>2, <2>3, <2>4, <2>5 DEF TypeInv
<1>5. RestInv'
  BY <1>1, <1>2 DEF RestInv
<1> QED BY <1>4, <1>5, AtRest

LEMMA RecoverKeeps ==
  ASSUME Inv, Recover
  PROVE  Inv'
<1>1. /\ UNCHANGED <<logs, tables, manifest, mem, imm, log, pending, flags, client, bg, reader,
                     past, writes, events>>
      /\ UNCHANGED <<acked, promised, risky>>
      /\ phase = "closed" /\ ~manifest.dead /\ phase' = "replay"
      /\ version' = [l0 |-> manifest.l0, l1 |-> manifest.l1, log |-> manifest.log]
      /\ next' = manifest.next + 1 /\ lastSeq' = manifest.seq
      /\ opening' = [todo |-> {n \in DOMAIN logs : n >= manifest.log}, made |-> {}]
  BY DEF Recover, disk, past
<1>2. /\ LogsType /\ TablesType /\ manifest \in Snapshot /\ log \in Nat /\ DiskInv
  BY DEF Inv, TypeInv, StateType
<1>3. /\ manifest.next \in Nat /\ manifest.seq \in Nat /\ manifest.log \in Nat
      /\ manifest.l0 \in SUBSET Nat /\ manifest.l1 \in SUBSET Nat /\ DOMAIN logs \subseteq Nat
  BY <1>2 DEF Snapshot, LogsType
<1>4. /\ version' \in Version /\ next' \in Nat /\ next' > 0 /\ lastSeq' \in Nat
      /\ Files(version') = Files(manifest) /\ manifest.next < next'
  BY <1>1, <1>3 DEF Version, Files
<1>5. /\ opening'.todo = {n \in DOMAIN logs : n >= manifest.log} /\ opening'.made = {}
      /\ OpeningType'
  <2> DEFINE T == {n \in DOMAIN logs : n >= manifest.log}
  <2>1. T \in SUBSET Nat /\ opening' = [todo |-> T, made |-> {}]
    BY <1>1, <1>3
  <2> HIDE DEF T
  <2>2. OpeningType' /\ opening'.todo = T /\ opening'.made = {}
    BY <2>1 DEF OpeningType
  <2> QED BY <2>2 DEF T
<1>6. LogsType' /\ TablesType'
  <2>1. LogsType /\ logs' = logs
    BY <1>1, <1>2
  <2>2. LogsType'
    BY ONLY <2>1 DEF LogsType
  <2> QED BY <1>1, <1>2, <2>2 DEF TablesType
<1>7. /\ TypeInv' /\ RestInv'
      /\ QueueInv' /\ BgInv' /\ EditInv' /\ GroupInv' /\ ReaderInv'
  BY <1>1, <1>2, <1>4, <1>5, <1>6, OpeningKeeps
<1>8. DiskInv'
  BY <1>1, <1>2, FrameDisk
<1>9. /\ Files(manifest) \subseteq DOMAIN tables /\ manifest.log < manifest.next
      /\ \A n \in Files(manifest) : n < manifest.next /\ n \in Nat
  BY <1>2, <1>3 DEF DiskInv, Files
<1>10. NumbersInv'
  <2>1. \A n \in Files(version') : n < next'
    BY <1>1, <1>3, <1>4, <1>9
  <2>2. manifest.next <= next' /\ manifest.seq <= lastSeq'
    BY <1>1, <1>3
  <2>3. Files(version)' = Files(version')
    BY DEF Files
  <2> QED BY <1>1, <1>4, <1>9, <2>1, <2>2, <2>3 DEF NumbersInv
<1>11. ReplayInv'
  <2>1. Content(opening.made)' = {}
    BY <1>5 DEF Content
  <2>2. \A n \in DOMAIN logs \ opening'.todo : n < next' /\ ~(n >= manifest.log)
    BY <1>1, <1>3, <1>5, <1>9
  <2>3. Files(version)' = Files(manifest)'
    BY <1>1, <1>4 DEF Files
  <2> QED BY <1>1, <1>5, <2>1, <2>2, <2>3 DEF ReplayInv
<1>12. ~Running /\ ~Running'
  BY <1>1 DEF Running
<1>13. /\ Recoverable(logs)' = Recoverable(logs)
       /\ Recoverable(Synced(logs))' = Recoverable(Synced(logs))
  BY <1>1 DEF Recoverable, Content, Synced
<1>14. VersionInv' /\ SeqInv'
  <2>1. Unique(Recoverable(logs))
    BY RecoverableUnique
  <2>2. Unique(Recoverable(logs))'
    BY <1>13, <2>1 DEF Unique
  <2> QED BY <1>12, <2>2 DEF VersionInv, SeqInv
<1>15. SafeInv'
  <2>1. SyncedSurvive' /\ AckedSurvive'
    BY <1>1, <1>13, OpenSurvives DEF SyncedSurvive, AckedSurvive
  <2> QED BY <1>1, <1>12, <2>1 DEF SafeInv
<1> QED BY <1>7, <1>8, <1>10, <1>11, <1>14, <1>15 DEF Inv

(* The number of a log is marked as used.                                  *)
LEMMA MarkIs ==
  ASSUME NEW m \in Nat, NEW n \in Nat
  PROVE  /\ MarkFileNumberUsed(m, n) \in Nat /\ m <= MarkFileNumberUsed(m, n)
         /\ n < MarkFileNumberUsed(m, n)
BY DEF MarkFileNumberUsed

(* The greatest sequence number so far.                                    *)
LEMMA MaxSeqIs ==
  ASSUME NEW s \in Nat, NEW b \in Nat, NEW found \in SUBSET Entry, \A e \in found : e.seq <= b
  PROVE  LET m == Max({s} \cup {e.seq : e \in found}) IN
         m \in Nat /\ s <= m /\ \A e \in found : e.seq <= m
<1> DEFINE S == {s} \cup {e.seq : e \in found}
           c == s + b
<1>1. c \in Nat /\ s <= c /\ b <= c
  OBVIOUS
<1>2. \A e \in found : e.seq \in Nat /\ e.seq <= c
  <2>1. \A e \in found : e.seq \in Nat /\ e.seq <= b
    BY EntryIs
  <2> QED BY <2>1
<1> HIDE DEF c
<1>3. S \in SUBSET (0 .. c) /\ S # {} /\ s \in S /\ \A e \in found : e.seq \in S
  BY <1>1, <1>2
<1> HIDE DEF S
<1>4. Max(S) \in S /\ \A k \in S : k <= Max(S)
  BY <1>1, <1>3, MaxExists
<1>5. Max(S) \in Nat
  <2>1. S \subseteq 0 .. c /\ Max(S) \in S
    BY <1>3, <1>4
  <2>2. Max(S) \in 0 .. c
    BY ONLY <2>1
  <2> QED BY ONLY <1>1, <2>2
<1> DEFINE m == Max(S)
<1>6. m \in Nat /\ s <= m /\ \A e \in found : e.seq <= m
  BY <1>3, <1>4, <1>5
<1> QED BY <1>6 DEF S

(* What replaying a log does: what it found is in a table beside the named *)
(* ones, if it found anything.                                             *)
Replayed(n) ==
  /\ opening'.todo = opening.todo \ {n}
  /\ \/ /\ Records(logs[n]) = {} /\ opening'.made = opening.made /\ tables' = tables
     \/ /\ opening'.made = opening.made \cup {next}
        /\ tables' = With(tables, next, Records(logs[n]))
        /\ next < next'
  /\ next <= next' /\ n < next' /\ next' \in Nat
  /\ lastSeq' \in Nat /\ lastSeq <= lastSeq'
  /\ \A e \in Records(logs[n]) : e.seq <= lastSeq'
  /\ OpeningType' /\ TablesType'

LEMMA RecordsAreEntries ==
  ASSUME NEW f \in LogFile
  PROVE  Records(f) \in SUBSET Entry
<1>1. f.recs \in Seq(SUBSET Entry)
  BY LogFileIs
<1> QED BY <1>1 DEF Records

LEMMA RecoverLogFileReplays ==
  ASSUME Inv, RecoverLogFile
  PROVE  \E n \in opening.todo : Replayed(n)
<1> DEFINE n == Min(opening.todo)
           found == Records(logs[n])
<1>1. /\ opening.todo # {} /\ phase = "replay"
      /\ IF found = {}
         THEN /\ next' = MarkFileNumberUsed(next, n)
              /\ opening' = [opening EXCEPT !.todo = @ \ {n}]
              /\ UNCHANGED tables
         ELSE /\ tables' = With(tables, next, found)
              /\ next' = MarkFileNumberUsed(next + 1, n)
              /\ opening' = [todo |-> opening.todo \ {n}, made |-> opening.made \cup {next}]
      /\ lastSeq' = Max({lastSeq} \cup {e.seq : e \in found})
  BY DEF RecoverLogFile
<1>2. /\ opening \in [todo : SUBSET Nat, made : SUBSET Nat] /\ next \in Nat /\ lastSeq \in Nat
      /\ LogsType /\ TablesType
  BY DEF Inv, TypeInv, OpeningType, StateType
<1>3. n \in opening.todo /\ n \in Nat
  BY <1>1, <1>2, MinExists
<1>4. n \in DOMAIN logs
  BY <1>1, <1>3 DEF Inv, ReplayInv
<1> HIDE DEF n
<1>5. found \in SUBSET Entry
  BY <1>2, <1>4, RecordsAreEntries DEF LogsType
<1>6. PICK b \in Nat : \A e \in found : e.seq <= b
  BY <1>2, <1>4 DEF LogsType
<1> HIDE DEF found
<1>7. lastSeq' \in Nat /\ lastSeq <= lastSeq' /\ \A e \in found : e.seq <= lastSeq'
  BY <1>1, <1>2, <1>5, <1>6, MaxSeqIs
<1>8. CASE found = {}
  <2>1. next' \in Nat /\ next <= next' /\ n < next'
    BY <1>1, <1>2, <1>3, <1>8, MarkIs
  <2>2. opening'.todo = opening.todo \ {n} /\ opening'.made = opening.made /\ OpeningType'
    BY <1>1, <1>2, <1>8 DEF OpeningType
  <2>3. TablesType' /\ tables' = tables
    BY <1>1, <1>2, <1>8 DEF TablesType
  <2> QED BY <1>3, <1>7, <1>8, <2>1, <2>2, <2>3 DEF Replayed, found
<1>9. CASE found # {}
  <2>1. next' \in Nat /\ next + 1 <= next' /\ n < next'
    <3>1. next' = MarkFileNumberUsed(next + 1, n)
      BY <1>1, <1>9
    <3>2. next + 1 \in Nat
      BY <1>2
    <3> QED BY ONLY <1>3, <3>1, <3>2, MarkIs
  <2>2. next <= next' /\ next < next'
    BY <1>2, <2>1
  <2>3. /\ opening'.todo = opening.todo \ {n} /\ opening'.made = opening.made \cup {next}
        /\ OpeningType'
    BY <1>1, <1>2, <1>9 DEF OpeningType
  <2>4. TablesType' /\ tables' = With(tables, next, found)
    <3>1. tables' = With(tables, next, found)
      BY <1>1, <1>9
    <3>2. /\ DOMAIN tables' = DOMAIN tables \cup {next} /\ tables'[next] = found
          /\ \A m \in DOMAIN tables : m # next => tables'[m] = tables[m]
      BY <3>1 DEF With
    <3>3. TablesType'
      BY <1>2, <1>5, <3>2 DEF TablesType
    <3> QED BY <3>1, <3>3
  <2> QED BY <1>3, <1>7, <2>1, <2>2, <2>3, <2>4 DEF Replayed, found
<1> QED BY <1>8, <1>9

LEMMA RecoverLogFileKeeps ==
  ASSUME Inv, RecoverLogFile
  PROVE  Inv'
<1>1. PICK n \in opening.todo : Replayed(n)
  BY RecoverLogFileReplays
<1>2. /\ UNCHANGED <<logs, manifest, phase, mem, imm, log, version, pending, flags,
                     client, bg, reader, past, writes, events>>
      /\ UNCHANGED <<acked, promised, risky>>
      /\ phase = "replay" /\ ~Running /\ ~Running'
  BY DEF RecoverLogFile, Running, past
<1>3. /\ TypeInv /\ DiskInv /\ LogsType /\ TablesType /\ manifest \in Snapshot
      /\ version \in Version /\ log \in Nat /\ next \in Nat /\ lastSeq \in Nat /\ next > 0
  BY DEF Inv, TypeInv, StateType
<1>4. /\ Files(version) = Files(manifest)
      /\ opening.made \subseteq DOMAIN tables
      /\ \A m \in opening.made : manifest.next <= m /\ m < next
      /\ Content(opening.made) \subseteq Recoverable(logs)
      /\ \A e \in Content(opening.made) : e.seq <= lastSeq
      /\ opening.todo \subseteq {m \in DOMAIN logs : m >= manifest.log}
      /\ \A m \in DOMAIN logs \ opening.todo :
           /\ m < next
           /\ m >= manifest.log => Records(logs[m]) \subseteq Content(opening.made)
  BY <1>2 DEF Inv, ReplayInv
<1>5. /\ manifest.next <= next /\ manifest.seq <= lastSeq
      /\ Files(manifest) \subseteq DOMAIN tables
      /\ \A m \in Files(manifest) : m < manifest.next /\ m \in Nat
      /\ manifest.next \in Nat /\ manifest.seq \in Nat
      /\ DOMAIN logs \subseteq Nat /\ opening.made \subseteq Nat
      /\ ~manifest.dead
  BY <1>2, <1>3, RunningIs DEF Inv, NumbersInv, DiskInv, TypeInv, OpeningType, SafeInv
<1>6. /\ opening'.todo = opening.todo \ {n}
      /\ next <= next' /\ n < next' /\ next' \in Nat
      /\ lastSeq' \in Nat /\ lastSeq <= lastSeq'
      /\ \A e \in Records(logs[n]) : e.seq <= lastSeq'
      /\ OpeningType' /\ TablesType'
  BY <1>1 DEF Replayed
<1>7. /\ next \notin Files(manifest) \cup opening.made
      /\ \A m \in Files(manifest) : m < next'
      /\ \A m \in opening.made : m < next'
  BY <1>3, <1>4, <1>5, <1>6
<1>8. /\ opening'.made \subseteq DOMAIN tables'
      /\ Files(manifest) \subseteq DOMAIN tables'
      /\ Content(opening.made)' = Content(opening.made) \cup Records(logs[n])
      /\ UNION {tables'[m] : m \in Files(manifest)} = Content(Files(manifest))
      /\ \A m \in opening'.made : manifest.next <= m /\ m < next'
  <2>1. CASE /\ Records(logs[n]) = {} /\ opening'.made = opening.made /\ tables' = tables
    BY <1>4, <1>5, <1>7, <2>1 DEF Content
  <2>2. CASE /\ opening'.made = opening.made \cup {next}
             /\ tables' = With(tables, next, Records(logs[n]))
             /\ next < next'
    <3>1. /\ DOMAIN tables' = DOMAIN tables \cup {next} /\ tables'[next] = Records(logs[n])
          /\ \A m \in DOMAIN tables : m # next => tables'[m] = tables[m]
      BY <2>2 DEF With
    <3>2. /\ \A m \in opening.made : tables'[m] = tables[m]
          /\ \A m \in Files(manifest) : tables'[m] = tables[m]
      BY <1>4, <1>5, <1>7, <3>1
    <3>3. Content(opening.made)' = Content(opening.made) \cup Records(logs[n])
      BY <2>2, <3>1, <3>2 DEF Content
    <3>4. UNION {tables'[m] : m \in Files(manifest)} = Content(Files(manifest))
      BY <3>2 DEF Content
    <3> QED BY <1>4, <1>5, <1>7, <2>2, <3>1, <3>3, <3>4
  <2> QED BY <1>1, <2>1, <2>2 DEF Replayed
<1>9. /\ Files(manifest)' = Files(manifest) /\ Files(version)' = Files(manifest)
      /\ Content(Files(manifest))' = Content(Files(manifest))
  <2>1. Files(manifest)' = Files(manifest) /\ Files(version)' = Files(manifest)
    BY <1>2, <1>4 DEF Files
  <2> QED BY <1>8, <2>1 DEF Content
<1>10. LogsType'
  <2>1. LogsType /\ logs' = logs
    BY <1>2, <1>3
  <2> QED BY ONLY <2>1 DEF LogsType
<1>11. /\ TypeInv' /\ RestInv'
       /\ QueueInv' /\ BgInv' /\ EditInv' /\ GroupInv' /\ ReaderInv'
  <2>1. next' > 0
    BY <1>3, <1>6
  <2> QED BY <1>2, <1>3, <1>6, <1>10, <2>1, OpeningKeeps
<1>12. DiskInv'
  BY <1>2, <1>3, <1>8, <1>9 DEF DiskInv
<1>13. NumbersInv'
  <2>1. manifest.next <= next' /\ manifest.seq <= lastSeq'
    BY <1>3, <1>5, <1>6
  <2> QED BY <1>2, <1>7, <1>8, <1>9, <2>1 DEF NumbersInv
<1>14. /\ Recoverable(logs)' = Recoverable(logs)
       /\ Recoverable(Synced(logs))' = Recoverable(Synced(logs))
  <2>1. /\ Recoverable(logs) = Content(Files(manifest)) \cup InLogs(logs, manifest.log)
        /\ Recoverable(Synced(logs)) = Content(Files(manifest)) \cup InLogs(Synced(logs), manifest.log)
    BY <1>3, RecoverableIs
  <2>2. Files(manifest)' \cap DOMAIN tables' = Files(manifest)
    BY <1>8, <1>9
  <2>3. /\ Recoverable(logs)' = Content(Files(manifest) \cap DOMAIN tables)' \cup InLogs(logs, manifest.log)
        /\ Recoverable(Synced(logs))' = Content(Files(manifest) \cap DOMAIN tables)'
                                          \cup InLogs(Synced(logs), manifest.log)
    BY <1>2 DEF Recoverable, InLogs, Files, Synced
  <2>4. Content(Files(manifest) \cap DOMAIN tables)' = Content(Files(manifest))
    BY <1>8, <2>2 DEF Content
  <2> QED BY <2>1, <2>3, <2>4
<1>15. ReplayInv'
  <2>1. n \in DOMAIN logs /\ n >= manifest.log
    BY <1>1, <1>4
  <2>2. Records(logs[n]) \subseteq Recoverable(logs)
    <3>1. Records(logs[n]) \subseteq InLogs(logs, manifest.log)
      BY <2>1 DEF InLogs
    <3> QED BY <1>3, <3>1, RecoverableIs
  <2>3. Content(opening.made)' \subseteq Recoverable(logs)'
    BY <1>4, <1>8, <1>14, <2>2
  <2>4. \A e \in Content(opening.made)' : e.seq <= lastSeq'
    <3>1. ASSUME NEW e \in Content(opening.made) PROVE e.seq <= lastSeq'
      <4>1. e \in Entry
        BY <1>3, <1>4, <3>1 DEF Content, TablesType
      <4>2. e.seq \in Nat /\ e.seq <= lastSeq
        BY <1>4, <4>1, EntryIs
      <4> QED BY <1>3, <1>6, <4>2
    <3> QED BY <1>6, <1>8, <3>1
  <2>5. ASSUME NEW m \in DOMAIN logs \ opening'.todo
        PROVE  /\ m < next'
               /\ m >= manifest.log => Records(logs[m]) \subseteq Content(opening.made)'
    <3>1. CASE m = n
      BY <1>6, <1>8, <3>1
    <3>2. CASE m # n
      <4>1. m \in DOMAIN logs \ opening.todo /\ m \in Nat
        BY <1>5, <1>6, <2>5, <3>2
      <4>2. m < next
        BY <1>4, <4>1
      <4> QED BY <1>3, <1>4, <1>6, <1>8, <4>1, <4>2
    <3> QED BY <3>1, <3>2
  <2>6. opening'.todo \subseteq {m \in DOMAIN logs' : m >= manifest'.log}
    BY <1>2, <1>4, <1>6
  <2> QED BY <1>2, <1>8, <1>9, <2>3, <2>4, <2>5, <2>6 DEF ReplayInv
<1>16. VersionInv' /\ SeqInv'
  <2>1. Unique(Recoverable(logs))
    BY RecoverableUnique
  <2>2. Unique(Recoverable(logs))'
    BY <1>14, <2>1 DEF Unique
  <2> QED BY <1>2, <2>2 DEF VersionInv, SeqInv
<1>17. SafeInv'
  <2>1. SyncedSurvive' /\ AckedSurvive'
    BY <1>2, <1>14, OpenSurvives DEF SyncedSurvive, AckedSurvive
  <2> QED BY <1>2, <1>5, <2>1 DEF SafeInv
<1> QED BY <1>11, <1>12, <1>13, <1>15, <1>16, <1>17 DEF Inv

LEMMA NewLogKeeps ==
  ASSUME Inv, NewLog
  PROVE  Inv'
<1>1. /\ UNCHANGED <<tables, manifest, mem, imm, version, lastSeq, pending, flags,
                     client, bg, opening, reader, past, writes, events>>
      /\ UNCHANGED <<acked, promised, risky>>
      /\ phase = "replay" /\ opening.todo = {} /\ phase' = "switch"
      /\ log' = next /\ next' = next + 1 /\ logs' = With(logs, next, EmptyLog)
      /\ ~Running /\ ~Running'
  BY DEF NewLog, EmptyLog, Running, past
<1>2. /\ TypeInv /\ DiskInv /\ LogsType /\ TablesType /\ manifest \in Snapshot
      /\ version \in Version /\ next \in Nat /\ lastSeq \in Nat /\ OpeningType
  BY DEF Inv, TypeInv, StateType
<1>3. /\ Files(version) = Files(manifest)
      /\ opening.made \subseteq DOMAIN tables
      /\ \A m \in opening.made : manifest.next <= m /\ m < next
      /\ Content(opening.made) \subseteq Recoverable(logs)
      /\ \A e \in Content(opening.made) : e.seq <= lastSeq
      /\ \A m \in DOMAIN logs :
           /\ m < next
           /\ m >= manifest.log => Records(logs[m]) \subseteq Content(opening.made)
  BY <1>1 DEF Inv, ReplayInv
<1>4. /\ manifest.next <= next /\ manifest.log < manifest.next
      /\ manifest.next \in Nat /\ manifest.log \in Nat
      /\ DOMAIN logs \subseteq Nat /\ opening.made \subseteq Nat
      /\ \A n \in DOMAIN logs : logs[n] \in LogFile /\ logs[n].synced <= Len(logs[n].recs)
      /\ ~manifest.dead
  BY <1>1, <1>2, RunningIs DEF Inv, NumbersInv, DiskInv, OpeningType, SafeInv
<1>5. /\ next \notin DOMAIN logs /\ next' \in Nat /\ next <= next' /\ next < next' /\ next' > 0
      /\ manifest.log <= next
  <2>1. ~(next < next)
    BY <1>2
  <2> QED BY <1>1, <1>2, <1>3, <1>4, <2>1
<1>6. /\ DOMAIN logs' = DOMAIN logs \cup {next} /\ logs'[next] = EmptyLog
      /\ \A n \in DOMAIN logs : logs'[n] = logs[n]
  BY <1>1, <1>5 DEF With
<1>7. LogsType'
  <2>1. PICK b \in Nat : \A n \in DOMAIN logs : \A e \in Records(logs[n]) : e.seq <= b
    BY <1>2 DEF LogsType
  <2>2. \A n \in DOMAIN logs' : \A e \in Records(logs'[n]) : e.seq <= b
    BY <1>6, <2>1, EmptyLogIs
  <2>3. \A n \in DOMAIN logs' : logs'[n] \in LogFile /\ logs'[n].synced <= Len(logs'[n].recs)
    BY <1>4, <1>6, EmptyLogIs
  <2>4. DOMAIN logs' \subseteq Nat
    BY <1>2, <1>4, <1>6
  <2> QED BY <2>2, <2>3, <2>4 DEF LogsType
<1>8. /\ TypeInv' /\ RestInv'
      /\ QueueInv' /\ BgInv' /\ EditInv' /\ GroupInv' /\ ReaderInv'
  <2>1. TablesType' /\ OpeningType'
    BY <1>1, <1>2 DEF TablesType, OpeningType
  <2> QED BY <1>1, <1>2, <1>5, <1>7, <2>1, OpeningKeeps
<1>9. DiskInv'
  BY <1>1, <1>2, FrameDisk
<1>10. NumbersInv'
  <2>1. /\ Files(manifest) \subseteq DOMAIN tables /\ manifest.seq <= lastSeq
        /\ \A n \in Files(version) : n < next /\ n \in Nat
    BY <1>1, <1>2, <1>3, RunningIs DEF Inv, NumbersInv, DiskInv
  <2>2. manifest.next <= next' /\ \A n \in Files(version) : n < next'
    BY <1>1, <1>2, <1>4, <2>1
  <2>3. Files(version)' = Files(version)
    BY <1>1 DEF Files
  <2> QED BY <1>1, <1>3, <2>1, <2>2, <2>3 DEF NumbersInv
<1>11. InLogs(logs', manifest.log) = InLogs(logs, manifest.log)
  BY <1>1, <1>2, <1>4, <1>5, NewLogHolds
<1>12. InLogs(Synced(logs), manifest.log) \subseteq InLogs(Synced(logs'), manifest.log)
  <2>1. /\ DOMAIN Synced(logs') = DOMAIN logs \cup {next}
        /\ \A m \in DOMAIN logs : Synced(logs')[m] = Synced(logs)[m]
    BY <1>1, <1>2, <1>4, <1>5, SyncedNewLog
  <2>2. DOMAIN Synced(logs) = DOMAIN logs
    BY <1>4, SyncedIs
  <2>3. /\ DOMAIN Synced(logs) \subseteq DOMAIN Synced(logs')
        /\ \A m \in DOMAIN Synced(logs) : Records(Synced(logs)[m]) \subseteq Records(Synced(logs')[m])
    BY <2>1, <2>2
  <2> QED BY ONLY <2>3, InLogsMore
<1>13. /\ Recoverable(logs)' = Recoverable(logs)
       /\ Recoverable(Synced(logs)) \subseteq Recoverable(Synced(logs))'
  <2>1. /\ Recoverable(logs) = Content(Files(manifest)) \cup InLogs(logs, manifest.log)
        /\ Recoverable(Synced(logs)) = Content(Files(manifest)) \cup InLogs(Synced(logs), manifest.log)
        /\ Recoverable(logs') = Content(Files(manifest)) \cup InLogs(logs', manifest.log)
        /\ Recoverable(Synced(logs')) = Content(Files(manifest)) \cup InLogs(Synced(logs'), manifest.log)
    BY <1>2, RecoverableIs
  <2>2. /\ Recoverable(logs)' = Recoverable(logs')
        /\ Recoverable(Synced(logs))' = Recoverable(Synced(logs'))
    BY <1>1 DEF Recoverable, Content, Synced
  <2> QED BY <1>11, <1>12, <2>1, <2>2
<1>14. ReplayInv'
  <2>1. Content(opening.made)' = Content(opening.made)
    BY <1>1 DEF Content
  <2>2. \A m \in opening.made : manifest.next <= m /\ m < next'
    BY <1>1, <1>2, <1>3, <1>4
  <2>3. ASSUME NEW m \in DOMAIN logs'
        PROVE  /\ m < next'
               /\ m >= manifest.log => Records(logs'[m]) \subseteq Content(opening.made)
    <3>1. CASE m = next
      BY <1>5, <1>6, <3>1, EmptyLogIs
    <3>2. CASE m # next
      <4>1. m \in DOMAIN logs /\ m \in Nat /\ logs'[m] = logs[m]
        BY <1>4, <1>6, <3>2
      <4>2. m < next
        BY <1>3, <4>1
      <4> QED BY <1>1, <1>2, <1>3, <4>1, <4>2
    <3> QED BY <3>1, <3>2
  <2>4. Files(version)' = Files(manifest)'
    BY <1>1, <1>3 DEF Files
  <2>5. log' \in DOMAIN logs' /\ manifest'.log <= log' /\ opening'.todo = {}
    BY <1>1, <1>5, <1>6
  <2> QED BY <1>1, <1>3, <1>13, <2>1, <2>2, <2>3, <2>4, <2>5 DEF ReplayInv
<1>15. VersionInv' /\ SeqInv'
  <2>1. Unique(Recoverable(logs))
    BY RecoverableUnique
  <2>2. Unique(Recoverable(logs))'
    BY <1>13, <2>1 DEF Unique
  <2> QED BY <1>1, <2>2 DEF VersionInv, SeqInv
<1>16. SafeInv'
  <2>1. SyncedSurvive' /\ AckedSurvive'
    <3>1. Ids(Recoverable(Synced(logs))) \subseteq Ids(Recoverable(Synced(logs)))'
      BY <1>13 DEF Ids
    <3> QED BY <1>1, <1>13, <3>1, OpenSurvives DEF SyncedSurvive, AckedSurvive
  <2> QED BY <1>1, <1>4, <2>1 DEF SafeInv
<1> QED BY <1>8, <1>9, <1>10, <1>14, <1>15, <1>16 DEF Inv

LEMMA SetCurrentFileKeeps ==
  ASSUME Inv, SetCurrentFile
  PROVE  Inv'
<1>1. /\ UNCHANGED <<logs, tables, mem, imm, log, next, lastSeq, pending, flags,
                     client, bg, reader, past, writes, events>>
      /\ UNCHANGED <<acked, promised, risky, bgError>>
      /\ phase = "switch" /\ phase' = "clean" /\ ~Running /\ Running'
      /\ version' = [l0 |-> version.l0 \cup opening.made, l1 |-> version.l1, log |-> log]
      /\ manifest' = [l0 |-> version'.l0, l1 |-> version'.l1, log |-> log, next |-> next,
                      seq |-> lastSeq, torn |-> FALSE, dead |-> FALSE]
      /\ opening' = [todo |-> {}, made |-> {}]
  BY DEF SetCurrentFile, Running, flags, past
<1>2. /\ TypeInv /\ DiskInv /\ LogsType /\ TablesType /\ manifest \in Snapshot
      /\ version \in Version /\ next \in Nat /\ lastSeq \in Nat /\ OpeningType
      /\ log \in Nat /\ next > 0
  BY DEF Inv, TypeInv, StateType
<1>3. /\ Files(version) = Files(manifest)
      /\ opening.made \subseteq DOMAIN tables
      /\ \A m \in opening.made : m < next
      /\ \A e \in Content(opening.made) : e.seq <= lastSeq
      /\ Content(opening.made) \subseteq Recoverable(logs)
      /\ \A m \in DOMAIN logs :
           /\ m < next
           /\ m >= manifest.log => Records(logs[m]) \subseteq Content(opening.made)
      /\ log \in DOMAIN logs /\ manifest.log <= log
  BY <1>1 DEF Inv, ReplayInv
<1>4. /\ manifest.next <= next /\ manifest.seq <= lastSeq /\ manifest.seq \in Nat
      /\ manifest.log \in Nat /\ DOMAIN logs \subseteq Nat
      /\ opening.made \in SUBSET Nat
      /\ version.l0 \in SUBSET Nat /\ version.l1 \in SUBSET Nat
      /\ Files(version) \subseteq DOMAIN tables
      /\ \A n \in Files(version) : n < next
      /\ ~manifest.dead
      /\ \A n \in DOMAIN logs : logs[n] \in LogFile /\ logs[n].synced <= Len(logs[n].recs)
  BY <1>1, <1>2, RunningIs DEF Inv, NumbersInv, OpeningType, SafeInv, Version
<1>5. /\ mem = {} /\ imm = {} /\ bg = BgIdle /\ thread = [t \in Threads |-> Resting]
      /\ bgError = FALSE
  BY <1>1 DEF Inv, RestInv
<1>6. /\ version' \in Version /\ version'.l0 = version.l0 \cup opening.made
      /\ version'.l1 = version.l1 /\ version'.log = log
      /\ Files(version') = Files(version) \cup opening.made
  <2> DEFINE l0 == version.l0 \cup opening.made
  <2>1. l0 \in SUBSET Nat /\ version' = [l0 |-> l0, l1 |-> version.l1, log |-> log]
    BY <1>1, <1>4
  <2> HIDE DEF l0
  <2>2. version' \in Version /\ version'.l0 = l0 /\ version'.l1 = version.l1 /\ version'.log = log
    BY <1>2, <1>4, <2>1 DEF Version
  <2>3. Files(version') = l0 \cup version.l1
    BY <2>2 DEF Files
  <2> QED BY <2>2, <2>3 DEF l0, Files
<1>7. /\ manifest' \in Snapshot /\ manifest'.l0 = version'.l0 /\ manifest'.l1 = version'.l1
      /\ manifest'.log = log /\ manifest'.next = next /\ manifest'.seq = lastSeq
      /\ Files(manifest') = Files(version')
  BY <1>1, <1>2, <1>6 DEF Snapshot, Version, Files
<1>8. /\ LogsType' /\ TablesType' /\ OpeningType'
  <2>1. LogsType /\ logs' = logs
    BY <1>1, <1>2
  <2>2. LogsType'
    BY ONLY <2>1 DEF LogsType
  <2> QED BY <1>1, <1>2, <2>2 DEF TablesType, OpeningType
<1>9. /\ TypeInv' /\ RestInv'
      /\ QueueInv' /\ BgInv' /\ EditInv' /\ GroupInv' /\ ReaderInv'
  BY <1>1, <1>2, <1>6, <1>7, <1>8, OpeningKeeps
<1> DEFINE C == Content(Files(version)) \cup Content(opening.made)
<1>10. /\ Content(Files(version))' = C /\ Content(Files(manifest))' = C
       /\ Files(version)' = Files(version) \cup opening.made
       /\ Files(manifest)' = Files(version) \cup opening.made
  <2>1. Files(version)' = Files(version') /\ Files(manifest)' = Files(manifest')
    BY DEF Files
  <2>2. /\ Files(version)' = Files(version) \cup opening.made
        /\ Files(manifest)' = Files(version) \cup opening.made
    BY <1>6, <1>7, <2>1
  <2>3. tables' = tables
    BY <1>1
  <2>4. /\ Content(Files(version))' = UNION {tables[n] : n \in Files(version)'}
        /\ Content(Files(manifest))' = UNION {tables[n] : n \in Files(manifest)'}
    BY <2>3 DEF Content
  <2>5. UNION {tables[n] : n \in Files(version) \cup opening.made} = C
    BY DEF Content
  <2> QED BY <2>2, <2>4, <2>5
<1>11. \A e \in C : e.seq <= lastSeq
  <2>1. ASSUME NEW e \in Content(Files(version)) PROVE e.seq <= lastSeq
    <3>1. e \in Entry
      BY <1>2, <1>4, <2>1 DEF Content, TablesType
    <3>2. e.seq \in Nat /\ e.seq <= manifest.seq
      BY <1>2, <1>3, <2>1, <3>1, EntryIs DEF DiskInv
    <3> QED BY <1>2, <1>4, <3>2
  <2> QED BY <1>3, <2>1
<1>12. /\ InLogs(logs, manifest.log) \subseteq C
       /\ InLogs(logs, log) \subseteq InLogs(logs, manifest.log)
       /\ InLogs(Synced(logs), manifest.log) \subseteq InLogs(logs, manifest.log)
  <2>1. InLogs(logs, manifest.log) \subseteq Content(opening.made)
    BY <1>3 DEF InLogs
  <2>2. InLogs(logs, log) \subseteq InLogs(logs, manifest.log)
    BY <1>2, <1>3, <1>4, InLogsFrom
  <2>3. InLogs(Synced(logs), manifest.log) \subseteq InLogs(logs, manifest.log)
    <3>1. /\ DOMAIN Synced(logs) \subseteq DOMAIN logs
          /\ \A n \in DOMAIN Synced(logs) : Records(Synced(logs)[n]) \subseteq Records(logs[n])
      BY <1>4, SyncedIs
    <3> QED BY ONLY <3>1, InLogsMore
  <2> QED BY <2>1, <2>2, <2>3
<1>13. /\ Recoverable(logs) = C /\ Recoverable(Synced(logs)) \subseteq C
  <2>1. /\ Recoverable(logs) = Content(Files(manifest)) \cup InLogs(logs, manifest.log)
        /\ Recoverable(Synced(logs)) = Content(Files(manifest)) \cup InLogs(Synced(logs), manifest.log)
    BY <1>2, RecoverableIs
  <2>2. Content(Files(manifest)) = Content(Files(version))
    BY <1>3
  <2> QED BY <1>3, <1>12, <2>1, <2>2
<1> HIDE DEF C
<1>14. DiskInv'
  <2>1. \A n \in Files(manifest') \cup {manifest'.log} : n < manifest'.next
    BY <1>3, <1>4, <1>6, <1>7
  <2>2. Files(manifest') \subseteq DOMAIN tables
    BY <1>3, <1>4, <1>6, <1>7
  <2>3. Files(manifest)' = Files(manifest')
    BY DEF Files
  <2> QED BY <1>1, <1>7, <1>10, <1>11, <2>1, <2>2, <2>3 DEF DiskInv
<1>15. NumbersInv'
  <2>1. next <= next /\ lastSeq <= lastSeq
    BY <1>2
  <2>2. \A n \in Files(version) \cup opening.made : n < next /\ n \in DOMAIN tables
    BY <1>3, <1>4
  <2> QED BY <1>1, <1>7, <1>10, <2>1, <2>2 DEF NumbersInv
<1>16. ReplayInv'
  BY <1>1 DEF ReplayInv
<1>17. /\ Flushed' = {} /\ mem' = {} /\ bg'.pc = "idle" /\ bgError' = FALSE
  BY <1>1, <1>5 DEF Flushed, BgIdle
<1>18. VersionInv'
  <2>1. log <= log
    BY <1>2
  <2>2. SameFiles(manifest', version')
    BY <1>6, <1>7 DEF SameFiles
  <2> QED BY <1>1, <1>3, <1>6, <1>7, <1>10, <1>17, <2>1, <2>2 DEF VersionInv
<1>19. InLogs(logs, version.log)' = InLogs(logs, log)
  BY <1>1, <1>6 DEF InLogs
<1>20. SeqInv'
  <2>1. Known' \subseteq Recoverable(logs)
    BY <1>10, <1>12, <1>13, <1>17, <1>19 DEF Known
  <2>2. Unique(Known)'
    BY <2>1, RecoverableUnique DEF Unique
  <2>3. \A e \in InLogs(logs, version.log)' : e.seq <= lastSeq'
    BY <1>1, <1>11, <1>12, <1>19
  <2> QED BY <1>1, <1>17, <2>2, <2>3 DEF SeqInv
<1>21. SafeInv'
  <2>1. /\ promised \ risky \subseteq Ids(C) /\ acked \ risky \subseteq Ids(C)
    <3>1. SyncedSurvive /\ AckedSurvive
      BY OpenSurvives
    <3> QED BY <1>4, <1>13, <3>1 DEF SyncedSurvive, AckedSurvive, Ids
  <2>2. (mem \cup Flushed \cup Content(Files(version)))' = C
    BY <1>10, <1>17
  <2>3. Visible(C, lastSeq) = C
    BY <1>11 DEF Visible
  <2>4. acked' \ risky' \subseteq Ids(Visible(mem \cup Flushed \cup Content(Files(version)), lastSeq))'
    <3>1. Visible(mem \cup Flushed \cup Content(Files(version)), lastSeq)' = C
      BY <1>1, <2>2, <2>3 DEF Visible
    <3>2. Ids(Visible(mem \cup Flushed \cup Content(Files(version)), lastSeq))' = Ids(C)
      BY <3>1 DEF Ids
    <3> QED BY <1>1, <2>1, <3>2
  <2>5. ASSUME NEW id \in promised \ risky PROVE Durable(id)'
    <3>1. PICK e \in C : e.id = id
      BY <2>1, <2>5 DEF Ids
    <3>2. e \in Content(Files(version))' /\ e.seq <= lastSeq'
      BY <1>1, <1>10, <1>11, <3>1
    <3> QED BY <3>1, <3>2 DEF Durable
  <2>6. \A id \in promised' \ risky' : Durable(id)'
    BY <1>1, <2>5
  <2>7. Firm(mem)' = {} /\ Firm(Flushed)' = {}
    BY <1>17 DEF Firm
  <2> QED BY <1>1, <2>4, <2>6, <2>7 DEF SafeInv
<1> QED BY <1>9, <1>14, <1>15, <1>16, <1>18, <1>20, <1>21 DEF Inv

LEMMA OpenedKeeps ==
  ASSUME Inv, Opened
  PROVE  Inv'
<1>1. /\ UNCHANGED <<manifest, mem, imm, log, version, next, lastSeq, pending, bgError,
                     shutting, writers, thread, bg, opening, reader, acked, promised, risky,
                     writes, events>>
      /\ phase = "clean" /\ phase' = "open"
      /\ DeleteObsoleteFiles(version', {}, {})
      /\ scheduled' \in BOOLEAN
  BY DEF Opened, MaybeScheduleCompaction, state, client, past, DeleteObsoleteFiles
<1>2. /\ TypeInv /\ QueueInv /\ Running /\ Running'
  BY <1>1 DEF Inv, Running
<1>3. /\ mem = {} /\ imm = {} /\ reader = Idle /\ bgError = FALSE /\ bg = BgIdle
  BY <1>1 DEF Inv, RestInv
<1>4. /\ log \in DOMAIN logs /\ \A n \in DOMAIN logs : n < next
      /\ version.log <= manifest.log /\ manifest.log <= log
      /\ next \in Nat /\ log \in Nat /\ manifest.log \in Nat /\ version.log \in Nat
      /\ lastSeq \in Nat /\ DOMAIN logs \subseteq Nat
      /\ \A n \in DOMAIN logs : logs[n] \in LogFile /\ logs[n].synced <= Len(logs[n].recs)
      /\ Files(version) \subseteq DOMAIN tables
      /\ manifest.next <= next /\ manifest.seq <= lastSeq
  BY <1>2, RunningIs
<1>5. /\ bg.pc = "idle" /\ SameFiles(manifest, version)
      /\ Files(manifest) = Files(version) /\ Files(version') = Files(version)
  <2>1. bg.pc = "idle"
    BY <1>3 DEF BgIdle
  <2>2. SameFiles(manifest, version)
    BY <1>2, <1>3, <2>1 DEF Inv, VersionInv
  <2> QED BY <1>1, <2>1, <2>2 DEF SameFiles, Files
<1>6. Swept
  BY <1>1, <1>5, SweptIs
<1>7. /\ DOMAIN tables' \subseteq DOMAIN tables
      /\ \A n \in DOMAIN tables' : tables'[n] = tables[n]
      /\ \A n \in Files(version) : n \in DOMAIN tables'
      /\ DOMAIN logs' \subseteq DOMAIN logs /\ \A n \in DOMAIN logs' : logs'[n] = logs[n]
      /\ \A n \in DOMAIN logs : n >= version.log => n \in DOMAIN logs'
  BY <1>1, <1>4, <1>5, <1>6 DEF Swept
<1>8. /\ Files(version)' = Files(version) /\ Files(manifest)' = Files(manifest)
      /\ Content(Files(version))' = Content(Files(version))
      /\ Content(Files(manifest))' = Content(Files(manifest))
  <2>1. Files(version)' = Files(version) /\ Files(manifest)' = Files(manifest)
    BY <1>1 DEF Files
  <2>2. \A n \in Files(version) : tables'[n] = tables[n]
    BY <1>7
  <2> QED BY <1>5, <2>1, <2>2 DEF Content
<1>9. /\ InLogs(logs', version.log) \subseteq InLogs(logs, version.log)
      /\ InLogs(logs, version.log) \subseteq InLogs(logs', version.log)
      /\ InLogs(Synced(logs), version.log) \subseteq InLogs(Synced(logs'), version.log)
      /\ \A n \in DOMAIN logs' : Synced(logs')[n] = Synced(logs)[n]
  <2>1. \A n \in DOMAIN logs : n >= version.log => n \in DOMAIN logs' /\ n >= version.log
    BY <1>7
  <2> QED BY <1>7, <2>1, SweptLogs
<1>10. /\ log \in DOMAIN logs'
       /\ Records(logs'[log]) = Records(logs[log])
       /\ Records(Synced(logs')[log]) = Records(Synced(logs)[log])
  <2>1. log >= version.log
    BY <1>4
  <2>2. log \in DOMAIN logs'
    BY <1>4, <1>7, <2>1
  <2> QED BY <1>7, <1>9, <2>2
<1>11. TypeInv'
  <2>1. LogsType'
    <3>1. PICK b \in Nat : \A n \in DOMAIN logs : \A e \in Records(logs[n]) : e.seq <= b
      BY <1>2 DEF TypeInv, LogsType
    <3>2. \A n \in DOMAIN logs' : \A e \in Records(logs'[n]) : e.seq <= b
      BY <1>7, <3>1
    <3>3. DOMAIN logs' \subseteq Nat /\ \A n \in DOMAIN logs' :
            logs'[n] \in LogFile /\ logs'[n].synced <= Len(logs'[n].recs)
      BY <1>4, <1>7
    <3> QED BY <3>2, <3>3 DEF LogsType
  <2>2. TablesType'
    BY <1>2, <1>7 DEF TypeInv, TablesType
  <2>3. MemType' /\ OpeningType' /\ ReaderType' /\ PastType'
    BY <1>1, <1>2 DEF TypeInv, MemType, OpeningType, ReaderType, PastType
  <2>4. StateType'
    BY <1>1, <1>2 DEF TypeInv, StateType
  <2>5. FlagsType'
    BY <1>1, <1>2 DEF TypeInv, FlagsType
  <2>6. BgType'
    BY <1>1, <1>2, <1>5 DEF TypeInv, BgType
  <2> QED BY <2>1, <2>2, <2>3, <2>4, <2>5, <2>6 DEF TypeInv
<1>12. QueueInv' /\ Steady
  BY <1>1, <1>2, SignalSteps
<1>13. RestInv' /\ ReplayInv'
  BY <1>1 DEF RestInv, ReplayInv
<1>14. DiskInv'
  <2>1. Files(manifest) \subseteq DOMAIN tables'
    BY <1>5, <1>7
  <2> QED BY <1>1, <1>8, <2>1 DEF Inv, DiskInv
<1>15. NumbersInv'
  <2>1. \A n \in Files(version) : n < next
    BY <1>1 DEF Inv, NumbersInv
  <2> QED BY <1>1, <1>4, <1>7, <1>8, <2>1 DEF NumbersInv
<1>16. Flushed' = Flushed /\ bg'.pc = "idle" /\ Flushed = {}
  BY <1>1, <1>3, <1>5 DEF Flushed
<1>17. VersionInv'
  <2>1. \A n \in DOMAIN logs' : n < next
    BY <1>4, <1>7
  <2>2. SameFiles(manifest, version)'
    BY <1>1, <1>5 DEF SameFiles
  <2> QED BY <1>1, <1>4, <1>5, <1>8, <1>10, <1>16, <2>1, <2>2 DEF VersionInv
<1>18. BgInv' /\ EditInv'
  <2>1. bg \in Background /\ BgInv /\ bg' = BgIdle
    BY <1>1, <1>2, <1>3 DEF Inv, TypeInv, BgType
  <2> QED BY <2>1, RestsOrResumes
<1>19. SeqInv'
  <2>1. Content(Files(manifest))' \subseteq Known
    BY <1>8 DEF Known
  <2>2. InLogs(logs, version.log)' \subseteq InLogs(logs, version.log)
    BY <1>1, <1>9
  <2> QED BY <1>1, <1>2, <1>12, <1>16, <2>1, <2>2, OpenSeq DEF Inv
<1>20. SafeInv'
  BY <1>1, <1>2, <1>8, <1>9, <1>10, <1>16, OpenSafe DEF Inv
<1>21. GroupInv'
  BY <1>1, <1>10, <1>12, GroupOfLog DEF Inv
<1>22. ReaderInv'
  BY <1>1, <1>3 DEF ReaderInv, Idle
<1> QED BY <1>11, <1>12, <1>13, <1>14, <1>15, <1>17, <1>18, <1>19, <1>20, <1>21, <1>22 DEF Inv

LEMMA OpeningStepKeeps ==
  ASSUME Inv, Opening
  PROVE  Inv'
BY RecoverKeeps, RecoverLogFileKeeps, NewLogKeeps, SetCurrentFileKeeps, OpenedKeeps DEF Opening

-----------------------------------------------------------------------------
(* The invariant holds from the start and is kept.                         *)

LEMMA InitKeeps ==
  ASSUME Init
  PROVE  Inv
<1>1. /\ logs = << >> /\ tables = << >> /\ phase = "closed"
      /\ mem = {} /\ imm = {} /\ log = 0 /\ next = 2 /\ lastSeq = 0 /\ pending = {}
      /\ bgError = FALSE /\ shutting = FALSE /\ scheduled = FALSE
      /\ writers = << >> /\ thread = [t \in Threads |-> Resting] /\ bg = BgIdle
      /\ reader = Idle /\ acked = {} /\ promised = {} /\ risky = {}
      /\ writes = 0 /\ events = 0
  BY DEF Init
<1>2. /\ manifest \in Snapshot /\ manifest.l0 = {} /\ manifest.l1 = {} /\ manifest.log = 0
      /\ manifest.next = 2 /\ manifest.seq = 0 /\ ~manifest.dead
  BY DEF Init, Snapshot
<1>3. version \in Version /\ version.l0 = {} /\ version.l1 = {} /\ version.log = 0
  BY DEF Init, Version
<1>4. opening \in [todo : SUBSET Nat, made : SUBSET Nat]
  BY DEF Init
<1>5. DOMAIN logs = {} /\ DOMAIN tables = {}
  BY <1>1
<1>6. TypeInv
  <2>1. LogsType /\ TablesType
    BY <1>5 DEF LogsType, TablesType
  <2>2. MemType
    BY <1>1 DEF MemType
  <2>3. StateType
    BY <1>1, <1>2, <1>3 DEF StateType
  <2>4. FlagsType
    BY <1>1 DEF FlagsType
  <2>5. BgType
    BY <1>1, BgIdleIs DEF BgType, BgIdle
  <2>6. PastType
    BY <1>1 DEF PastType
  <2>7. OpeningType
    BY <1>4 DEF OpeningType
  <2>8. ReaderType
    BY <1>1 DEF ReaderType, Idle
  <2> QED BY <2>1, <2>2, <2>3, <2>4, <2>5, <2>6, <2>7, <2>8 DEF TypeInv
<1>7. RestInv
  BY <1>1 DEF RestInv
<1>8. /\ bg.pc = "idle" /\ ~bg.merging /\ ~bg.flushing /\ bg.inputs = {} /\ bg.output = 0
      /\ bg.out = 0
  BY <1>1 DEF BgIdle
<1>9. BgInv
  BY <1>1, <1>8 DEF BgInv, Unbuilt
<1>10. EditInv
  BY <1>8 DEF EditInv
<1>11. \A t \in Threads : thread[t].pc = "idle" /\ thread[t].id = 0
  BY <1>1 DEF Resting
<1>12. QueueInv
  <2>1. writers \in Seq(Threads) /\ Len(writers) = 0
    BY <1>1
  <2>2. thread \in [Threads -> Thread]
    BY <1>1, ThreadIs
  <2>3. Line(writers, thread, writes)
    BY <1>1, <1>11, <2>1, <2>2 DEF Line, Outside
  <2>4. \A t \in Threads : Grouped(writers, thread, t)
    BY <1>11 DEF Grouped, WritingPcs, Busy
  <2> QED BY <2>1, <2>3, <2>4 DEF QueueInv, Order
<1>13. GroupInv
  BY <1>11 DEF GroupInv
<1>14. ReaderInv
  BY <1>1 DEF ReaderInv, Idle
<1>15. Files(manifest) = {} /\ Content(Files(manifest)) = {}
  BY <1>2 DEF Files, Content
<1>16. DiskInv
  BY <1>2, <1>15 DEF DiskInv
<1>17. NumbersInv /\ ReplayInv /\ VersionInv /\ ~Running
  BY <1>1 DEF NumbersInv, ReplayInv, VersionInv, Running
<1>18. Recoverable(logs) = {}
  BY <1>5, <1>15, <1>16, RecoverableIs DEF InLogs
<1>19. SeqInv
  BY <1>17, <1>18 DEF SeqInv, Unique
<1>20. SafeInv
  BY <1>1, <1>17 DEF SafeInv, SyncedSurvive, AckedSurvive, Running
<1> QED BY <1>6, <1>7, <1>9, <1>10, <1>12, <1>13, <1>14, <1>16, <1>17, <1>19, <1>20 DEF Inv

LEMMA StutterKeeps ==
  ASSUME Inv, UNCHANGED vars
  PROVE  Inv'
<1>1. UNCHANGED <<logs, tables, manifest, phase, mem, imm, log, version, next, lastSeq,
                  pending, bgError, shutting, scheduled, writers, thread, bg, opening, reader,
                  acked, promised, risky, writes, events>>
  BY DEF vars, disk, state, flags, client, past
<1>2. TypeInv /\ QueueInv
  BY DEF Inv
<1>3. next \in Nat /\ lastSeq \in Nat /\ DOMAIN logs \subseteq Nat
      /\ next <= next /\ lastSeq <= lastSeq
  BY RunningIs
<1>4. TypeInv'
  <2>1. LogsType'
    <3>1. LogsType /\ logs' = logs
      BY <1>1, <1>2 DEF TypeInv
    <3> QED BY ONLY <3>1 DEF LogsType
  <2>2. TablesType' /\ MemType' /\ OpeningType' /\ StateType' /\ FlagsType' /\ BgType' /\ PastType'
    BY <1>1, <1>2
       DEF TypeInv, TablesType, MemType, OpeningType, StateType, FlagsType, BgType, PastType
  <2>3. ReaderType'
    BY <1>1, <1>2 DEF TypeInv, ReaderType
  <2> QED BY <2>1, <2>2, <2>3 DEF TypeInv
<1>5. QueueInv' /\ Steady
  BY <1>1, <1>2, SignalSteps
<1>6. RestInv'
  BY <1>1 DEF Inv, RestInv
<1>7. ReplayInv'
  <2>1. /\ Files(version)' = Files(version) /\ Files(manifest)' = Files(manifest)
        /\ Content(opening.made)' = Content(opening.made)
        /\ Recoverable(logs)' = Recoverable(logs)
    BY <1>1 DEF Files, Content, Recoverable
  <2>2. ReplayInv
    BY DEF Inv
  <2>3. phase \in {"replay", "switch"} => Content(opening.made) \subseteq Recoverable(logs)
    BY <2>2 DEF ReplayInv
  <2> QED BY <1>1, <2>1, <2>2, <2>3 DEF ReplayInv
<1>8. DiskInv' /\ NumbersInv' /\ VersionInv'
  BY <1>1, <1>2, <1>3, FrameDisk, FrameNumbers, FrameVersion DEF Inv
<1>9. BgInv'
  <2>1. bg.flushing => imm' # {}
    BY <1>1 DEF Inv, BgInv
  <2> QED BY <1>1, <1>2, <1>3, <2>1, FrameBg DEF Inv
<1>10. EditInv'
  <2>1. bg.pc \in {"log", "install"} => bg.inputs \subseteq DOMAIN tables
    <3>1. bg.pc \in {"log", "install"} => phase = "open"
      BY ActiveIsOpen
    <3> QED BY <3>1 DEF Inv, BgInv, NumbersInv
  <2> QED BY <1>1, <1>2, <1>3, <2>1, FrameEdit DEF Inv
<1>11. SeqInv' /\ SafeInv' /\ GroupInv' /\ ReaderInv'
  BY <1>1, <1>2, <1>3, <1>5, FrameSeq, FrameSafe, FrameGroup, FrameReader DEF Inv
<1> QED BY <1>4, <1>5, <1>6, <1>7, <1>8, <1>9, <1>10, <1>11 DEF Inv

(* What a step of a client does, and the steps of the rest.                *)
LEMMA NextKeeps ==
  ASSUME Inv, Next
  PROVE  Inv'
<1>1. ASSUME NEW t \in Threads, Put(t) \/ Flush(t) \/ Step(t)
      PROVE  Inv'
  BY <1>1, PutKeeps, FlushKeeps, LeadKeeps, AddRecordKeeps, SyncLogKeeps, InsertIntoKeeps,
     FinishKeeps, WaitForImmKeeps DEF Step
<1>2. ASSUME BgStep \/ BeginGet \/ EndGet \/ Crash \/ StartClose \/ EndClose \/ Opening
      PROVE  Inv'
  BY <1>2, BgStepKeeps, BeginGetKeeps, EndGetKeeps, CrashKeeps, StartCloseKeeps,
     EndCloseKeeps, OpeningStepKeeps
<1> QED BY <1>1, <1>2 DEF Next

(* A database that is closed has no version.                               *)
Forgotten == phase = "closed" => Files(version) = {}
LEMMA NextForgets ==
  ASSUME Inv, Forgotten, [Next]_vars
  PROVE  Forgotten'
<1>1. CASE phase' = phase /\ version' = version
  BY <1>1 DEF Forgotten, Files
<1>2. CASE Forget
  BY <1>2 DEF Forget, Forgotten, Files
<1>3. CASE phase' # "closed"
  BY <1>3 DEF Forgotten
<1>4. ASSUME NEW t \in Threads, Put(t) \/ Flush(t) \/ Step(t)
      PROVE  phase' # "closed"
  <2>1. phase' = phase
    BY <1>4 DEF Put, Flush, Step, Lead, AddRecord, SyncLog, InsertInto, Finish, WaitForImm,
                Unwritten, Writing
  <2>2. phase = "open" \/ thread[t].pc # "idle"
    BY <1>4 DEF Put, Flush, Step, Lead, AddRecord, SyncLog, InsertInto, Finish, WaitForImm
  <2> QED BY <2>1, <2>2, ActiveIsOpen
<1>5. ASSUME BgStep
      PROVE  phase' # "closed"
  <2>1. phase' = phase
    BY <1>5 DEF BgStep, BackgroundCall, NestedFlush, OpenCompactionOutputFile,
                FinishCompaction, BuildTable, LogEdit, InstallFlush, InstallCompactionResults
  <2>2. bg.pc # "idle" \/ scheduled
    BY <1>5 DEF BgStep, BackgroundCall, NestedFlush, OpenCompactionOutputFile,
                FinishCompaction, BuildTable, LogEdit, InstallFlush, InstallCompactionResults
  <2> QED BY <2>1, <2>2, ActiveIsOpen
<1>6. ASSUME BeginGet \/ EndGet \/ StartClose
      PROVE  phase' = phase /\ version' = version
  BY <1>6 DEF BeginGet, EndGet, StartClose, state
<1>7. ASSUME Crash \/ EndClose
      PROVE  Forget
  BY <1>7 DEF Crash, EndClose
<1>8. ASSUME Opening
      PROVE  phase' # "closed"
  BY <1>8 DEF Opening, Recover, RecoverLogFile, NewLog, SetCurrentFile, Opened
<1>9. CASE UNCHANGED vars
  BY <1>1, <1>9 DEF vars, state
<1> QED BY <1>1, <1>2, <1>3, <1>4, <1>5, <1>6, <1>7, <1>8, <1>9 DEF Next

-----------------------------------------------------------------------------
(* What the invariant says of the properties.                              *)

LEMMA InvTypes ==
  ASSUME Inv
  PROVE  TypeOK
<1>1. TypeInv /\ QueueInv
  BY DEF Inv
<1>2. /\ \A n \in DOMAIN logs : logs[n] \in LogFile /\ logs[n].synced <= Len(logs[n].recs)
      /\ \A n \in DOMAIN tables : tables[n] \subseteq Entry
      /\ manifest \in Snapshot /\ version \in Version
      /\ phase \in {"closed", "replay", "switch", "clean", "open"}
      /\ next \in Nat /\ lastSeq \in Nat /\ pending \subseteq 1 .. next - 1
      /\ bg \in Background /\ (bg.pc # "idle" => scheduled)
      /\ promised \subseteq 1 .. writes
  BY <1>1 DEF TypeInv, LogsType, TablesType, StateType, FlagsType, BgType, PastType
<1>3. thread \in [Threads -> Thread] /\ writers \in Seq(Threads)
  BY <1>1 DEF QueueInv, Order, Line
<1>4. mem \subseteq Entry /\ imm \subseteq SUBSET Entry /\ Cardinality(imm) <= 1
  <2>1. mem \subseteq Entry /\ (imm = {} \/ \E m \in SUBSET Entry : imm = {m})
    BY <1>1 DEF TypeInv, MemType
  <2>2. CASE imm = {}
    BY <2>1, <2>2, FS_EmptySet
  <2>3. CASE \E m \in SUBSET Entry : imm = {m}
    <3>1. PICK m \in SUBSET Entry : imm = {m}
      BY <2>3
    <3>2. Cardinality(imm) = 1
      BY <3>1, FS_Singleton
    <3> QED BY <2>1, <3>1, <3>2
  <2> QED BY <2>1, <2>2, <2>3
<1> QED BY <1>2, <1>3, <1>4 DEF TypeOK

(* Everything a Get can find.                                              *)
LEMMA EverythingIs ==
  ASSUME Inv, phase # "closed"
  PROVE  Everything = mem \cup Flushed \cup Content(Files(version))
<1>1. Files(version) \cap DOMAIN tables = Files(version)
  BY DEF Inv, NumbersInv
<1>2. Everything = mem \cup Flushed \cup Content(Files(version) \cap DOMAIN tables)
  BY DEF Everything, Flushed, Files
<1> QED BY <1>1, <1>2 DEF Content

LEMMA InvReads ==
  ASSUME Inv
  PROVE  ReadsAreRight
<1>1. ASSUME phase = "open"
      PROVE  acked \ risky \subseteq Ids(Visible(Everything, lastSeq))
  <2>1. Everything = mem \cup Flushed \cup Content(Files(version))
    BY <1>1, EverythingIs
  <2>2. Running
    BY <1>1 DEF Running
  <2> QED BY <2>1, <2>2 DEF Inv, SafeInv
<1>2. GetsSeeTheirSnapshot
  BY DEF Inv, ReaderInv, GetsSeeTheirSnapshot
<1> QED BY <1>1, <1>2 DEF ReadsAreRight, OwnWritesAreRead

LEMMA InvNumbers ==
  ASSUME Inv, Forgotten
  PROVE  NumbersAreSound
<1>1. DiskInv
  BY DEF Inv
<1>2. Recoverable(logs) = Content(Files(manifest)) \cup InLogs(logs, manifest.log)
  BY <1>1, RecoverableIs
<1>3. Unique(Everything \cup Recoverable(logs))
  <2>1. CASE Running
    <3>1. phase # "closed"
      BY <2>1 DEF Running
    <3>2. Everything = mem \cup Flushed \cup Content(Files(version))
      BY <3>1, EverythingIs
    <3>3. /\ version.log \in Nat /\ manifest.log \in Nat /\ version.log <= manifest.log
          /\ DOMAIN logs \subseteq Nat
      BY <2>1, RunningIs
    <3>4. InLogs(logs, manifest.log) \subseteq InLogs(logs, version.log)
      BY <3>3, InLogsFrom
    <3>5. Content(Files(version)) \subseteq Content(Files(manifest))
      BY <2>1 DEF Inv, VersionInv
    <3>6. Everything \cup Recoverable(logs) \subseteq Known
      BY <1>2, <3>2, <3>4, <3>5 DEF Known
    <3>7. Unique(Known)
      BY <2>1 DEF Inv, SeqInv
    <3> QED BY <3>6, <3>7 DEF Unique
  <2>2. CASE ~Running
    <3>1. mem = {} /\ imm = {}
      BY <2>2 DEF Running, Inv, RestInv
    <3>2. Everything \subseteq Recoverable(logs)
      <4>1. CASE phase = "closed"
        <5>1. Files(version) \cap DOMAIN tables = {}
          BY <4>1 DEF Forgotten
        <5> QED BY <3>1, <5>1 DEF Everything, Files, Content
      <4>2. CASE phase # "closed"
        <5>1. phase \in {"replay", "switch"}
          BY <2>2, <4>2 DEF Running, Inv, TypeInv, FlagsType
        <5>2. Files(version) = Files(manifest)
          BY <5>1 DEF Inv, ReplayInv
        <5>3. Everything = mem \cup Flushed \cup Content(Files(version))
          BY <4>2, EverythingIs
        <5>4. Flushed = {}
          BY <3>1 DEF Flushed
        <5> QED BY <1>2, <3>1, <5>2, <5>3, <5>4
      <4> QED BY <4>1, <4>2
    <3>3. Unique(Recoverable(logs))
      BY RecoverableUnique
    <3> QED BY <3>2, <3>3 DEF Unique
  <2> QED BY <2>1, <2>2
<1>4. SequenceNumbersAreUnique
  BY <1>3 DEF SequenceNumbersAreUnique, Unique
<1>5. ManifestIsSound
  BY <1>1 DEF DiskInv, ManifestIsSound, Files
<1> QED BY <1>4, <1>5 DEF NumbersAreSound

-----------------------------------------------------------------------------
(* Every reachable state of DBImpl and of its files is well typed: among   *)
(* others there is at most one imm_, and a log is synced no further than   *)
(* it is written.                                                          *)
THEOREM TypeCorrect == Spec => []TypeOK
<1>1. Init => Inv
  BY InitKeeps
<1>2. Inv /\ [Next]_vars => Inv'
  BY NextKeeps, StutterKeeps
<1>3. Inv => TypeOK
  BY InvTypes
<1> QED BY <1>1, <1>2, <1>3, PTL DEF Spec

(* A write with sync that returned OK is found after the machine stops,    *)
(* and any write that returned OK after the process dies, at whatever      *)
(* point of a group, a flush, a compaction or a recovery it happens and    *)
(* however many of them failed: unless a record that an append left torn   *)
(* precedes it in its log or in the MANIFEST.                              *)
THEOREM WritesAreKept == Spec => []WritesSurvive
<1>1. Init => Inv
  BY InitKeeps
<1>2. Inv /\ [Next]_vars => Inv'
  BY NextKeeps, StutterKeeps
<1>3. Inv => WritesSurvive
  BY OpenSurvives DEF WritesSurvive
<1> QED BY <1>1, <1>2, <1>3, PTL DEF Spec

(* A Get finds every write that returned OK, whether it is in mem_, in     *)
(* imm_ or in a table of the current version, unless it was appended       *)
(* behind a torn record; and one that reads without the mutex finds what   *)
(* was there when it began, in files that DeleteObsoleteFiles does not     *)
(* take from it.                                                           *)
THEOREM ReadsAreKept == Spec => []ReadsAreRight
<1>1. Init => Inv
  BY InitKeeps
<1>2. Inv /\ [Next]_vars => Inv'
  BY NextKeeps, StutterKeeps
<1>3. Inv => ReadsAreRight
  BY InvReads
<1> QED BY <1>1, <1>2, <1>3, PTL DEF Spec

(* No two entries that a Get or a recovery can find have one sequence      *)
(* number, even when the log of a group that failed is replayed; and the   *)
(* MANIFEST names only tables that exist, below the file number from which *)
(* the next process counts.                                                *)
THEOREM NumbersAreKept == Spec => []NumbersAreSound
<1>1. Init => Inv /\ Forgotten
  <2>1. Init => version.l0 = {} /\ version.l1 = {}
    BY DEF Init
  <2> QED BY <2>1, InitKeeps DEF Forgotten, Files
<1>2. Inv /\ Forgotten /\ [Next]_vars => (Inv /\ Forgotten)'
  BY NextKeeps, StutterKeeps, NextForgets
<1>3. Inv /\ Forgotten => NumbersAreSound
  BY InvNumbers
<1> QED BY <1>1, <1>2, <1>3, PTL DEF Spec
=============================================================================
