------------------------------ MODULE LevelDB -------------------------------
(***************************************************************************)
(* The write path, the background thread and the recovery of LevelDB       *)
(* (db_impl.cc, with LogAndApply and Recover of version_set.cc).           *)
(*                                                                         *)
(* Threads queue their batches; the first of the queue makes room, merges  *)
(* the batches behind it into its own, and without the mutex appends the   *)
(* group to the log, syncs it if asked to and inserts it into the          *)
(* memtable.  A full memtable becomes imm with its own log left behind,    *)
(* and the background thread writes it to a table, logs the edit to the    *)
(* MANIFEST and deletes the files no longer needed.  Compactions run on    *)
(* the same thread and stop to flush imm.  A crash keeps what was synced   *)
(* and any part of the rest of each log; opening replays the logs.         *)
(*                                                                         *)
(* A batch is one entry, with the identity of its write and its sequence   *)
(* number; keys, levels below 1 and what a compaction drops are in         *)
(* LevelCompaction.  An action is what a thread does between two releases  *)
(* of mutex_, or one call to the environment without it.  Creations,       *)
(* renames and deletions of files are taken to reach the disk in order.    *)
(***************************************************************************)
EXTENDS Integers, Sequences, FiniteSets, SequencesExt, FiniteSetsExt

CONSTANTS
  Threads,
  MaxMem,                   \* entries up to which a memtable has room
  CompactionTrigger, SlowdownTrigger, StopTrigger,    \* level-0 files
  MaxWrites,                \* bounds of the model: writes with flushes, and
  MaxEvents                 \* together with reads, crashes, closings and
                            \* calls to the environment that fail

ASSUME LevelDBAssumption ==
  /\ MaxMem \in Nat
  /\ CompactionTrigger \in Nat /\ SlowdownTrigger \in Nat /\ StopTrigger \in Nat
  /\ CompactionTrigger > 0 /\ CompactionTrigger <= StopTrigger

VARIABLES
  \* On disk.
  logs,         \* log files: the records, how many are synced, torn or not
  tables,       \* table files: their entries
  manifest,     \* what the MANIFEST named in CURRENT adds up to
  \* DBImpl and VersionSet.
  phase,        \* closed, being opened (replay, switch, clean) or open
  mem, imm,     \* the memtables; imm is {} or has one
  log,          \* logfile_number_
  version,      \* current: its files, and log_number_
  next,         \* next_file_number_
  lastSeq,      \* last_sequence_
  pending,      \* pending_outputs_
  bgError, shutting, scheduled,
  writers,      \* the queue of writers_
  thread,       \* each client thread: where it is in Write
  bg,           \* the background thread
  opening,      \* logs still to replay, tables made of those replayed
  reader,       \* a Get without the mutex
  \* History.
  acked,        \* writes that returned OK and were not lost by a crash
  promised,     \* writes with sync that returned OK
  risky,        \* writes appended to a log with a torn record before them
  writes, events  \* how much of the bounds is used

disk   == <<logs, tables, manifest>>
client == <<writers, thread>>
state  == <<mem, imm, log, version, next, lastSeq, pending>>
flags  == <<bgError, shutting, scheduled>>
past   == <<acked, promised, risky>>
vars   == <<disk, phase, state, flags, client, bg, opening, reader, past, writes, events>>

-----------------------------------------------------------------------------
Entry   == [id : Nat, seq : Nat]
LogFile == [recs : Seq(SUBSET Entry), synced : Nat, torn : BOOLEAN]
Version == [l0 : SUBSET Nat, l1 : SUBSET Nat, log : Nat]
Snapshot == [l0 : SUBSET Nat, l1 : SUBSET Nat, log : Nat, next : Nat, seq : Nat,
             torn : BOOLEAN, dead : BOOLEAN]
Thread == [pc : {"idle", "queued", "front", "delay", "wait", "woken", "append",
                 "sync", "insert", "finish", "waitImm", "wokenImm"},
           id : Nat, sync : BOOLEAN, force : BOOLEAN, delay : BOOLEAN,
           ok : BOOLEAN, syncError : BOOLEAN, group : Nat]
Resting == [pc |-> "idle", id |-> 0, sync |-> FALSE, force |-> FALSE,
            delay |-> FALSE, ok |-> TRUE, syncError |-> FALSE, group |-> 0]
Edit == [next : Nat, seq : Nat, log : Nat]
Background == [pc : {"idle", "merge", "build", "log", "install"},
               merging : BOOLEAN, flushing : BOOLEAN,
               inputs : SUBSET Nat, output : Nat, out : Nat, edit : Edit]
BgIdle == [pc |-> "idle", merging |-> FALSE, flushing |-> FALSE, inputs |-> {},
           output |-> 0, out |-> 0, edit |-> [next |-> 0, seq |-> 0, log |-> 0]]
Idle == [on |-> FALSE, snapshot |-> 0, mem |-> {}, files |-> {}, expect |-> {}]

TypeOK ==
  /\ \A n \in DOMAIN logs : logs[n] \in LogFile /\ logs[n].synced <= Len(logs[n].recs)
  /\ \A n \in DOMAIN tables : tables[n] \subseteq Entry
  /\ manifest \in Snapshot /\ version \in Version
  /\ phase \in {"closed", "replay", "switch", "clean", "open"}
  /\ mem \subseteq Entry /\ imm \subseteq SUBSET Entry /\ Cardinality(imm) <= 1
  /\ next \in Nat /\ lastSeq \in Nat /\ pending \subseteq 1 .. next - 1
  /\ thread \in [Threads -> Thread] /\ writers \in Seq(Threads)
  /\ bg \in Background /\ (bg.pc # "idle" => scheduled)
  /\ promised \subseteq 1 .. writes

Init ==
  /\ logs = << >> /\ tables = << >>
  /\ manifest = [l0 |-> {}, l1 |-> {}, log |-> 0, next |-> 2, seq |-> 0,
                 torn |-> FALSE, dead |-> FALSE]           \* NewDB
  /\ phase = "closed" /\ mem = {} /\ imm = {} /\ log = 0
  /\ version = [l0 |-> {}, l1 |-> {}, log |-> 0]
  /\ next = 2 /\ lastSeq = 0 /\ pending = {}
  /\ bgError = FALSE /\ shutting = FALSE /\ scheduled = FALSE
  /\ writers = << >> /\ thread = [t \in Threads |-> Resting]
  /\ bg = BgIdle /\ opening = [todo |-> {}, made |-> {}] /\ reader = Idle
  /\ acked = {} /\ promised = {} /\ risky = {}
  /\ writes = 0 /\ events = 0

Call  == writes < MaxWrites /\ writes + events < MaxEvents /\ writes' = writes + 1
Event == writes + events < MaxEvents /\ events' = events + 1

Ids(entries) == {e.id : e \in entries}
RestrictTo(f, S) == [n \in DOMAIN f \cap S |-> f[n]]
With(f, n, v) == [m \in DOMAIN f \cup {n} |-> IF m = n THEN v ELSE f[m]]
Content(files) == UNION {tables[n] : n \in files}
Records(file) == UNION {file.recs[i] : i \in DOMAIN file.recs}

-----------------------------------------------------------------------------
(* The background thread is scheduled; waiters on bg_cv_ are signalled.    *)

MaybeScheduleCompaction(sched, error, im, v) ==
  scheduled' = \/ sched
               \/ /\ ~shutting /\ ~error
                  /\ im # {} \/ Cardinality(v.l0) >= CompactionTrigger

SignalAll(threads) ==
  [t \in Threads |->
     [threads[t] EXCEPT !.pc = CASE @ = "wait" -> "woken"
                                 [] @ = "waitImm" -> "wokenImm"
                                 [] OTHER -> @]]

-----------------------------------------------------------------------------
(* Write: the queue and MakeRoomForWrite.                                  *)

(* Slip: a write that wants a sync joins a group that does none.           *)
AnyGroups(queue, threads) == 1 .. Len(queue)

(* The members of the queue that BuildBatchGroup may take: up to the first *)
(* that wants a sync the leader does not, or that makes the group too big. *)
BatchGroups(queue, threads) ==
  {n \in 1 .. Len(queue) :
     \A i \in 2 .. n : threads[queue[i]].sync => threads[queue[1]].sync}

(* The first n writers are done and return their status, a flush that      *)
(* succeeded to wait for imm; the next writer is woken to lead.            *)
Leave(n, ok, queue, threads) ==
  LET rest == SubSeq(queue, n + 1, Len(queue))
      told == {threads[queue[i]] : i \in 1 .. n}
      good == {s \in told : ok /\ s.id # 0} IN
  /\ writers' = rest
  /\ thread' = [u \in Threads |->
       IF \E i \in 1 .. n : queue[i] = u
       THEN IF threads[u].id = 0 /\ ok THEN [Resting EXCEPT !.pc = "wokenImm"] ELSE Resting
       ELSE IF rest # << >> /\ Head(rest) = u
       THEN [threads[u] EXCEPT !.pc = "front"]
       ELSE threads[u]]
  /\ acked' = acked \cup {s.id : s \in good}
  /\ promised' = promised \cup {s.id : s \in {g \in good : g.sync}}

(* There is room: the group is fixed, its entries get their numbers when   *)
(* they are appended.  A NULL batch has nothing to append.                 *)
Proceed(t, queue, threads) ==
  IF threads[t].id = 0 THEN Leave(1, TRUE, queue, threads)
  ELSE /\ \E n \in BatchGroups(queue, threads) :
            thread' = [threads EXCEPT ![t].pc = "append", ![t].group = n]
       /\ writers' = queue
       /\ UNCHANGED <<acked, promised>>

(* A new log and memtable; the old memtable becomes imm.                   *)
SwitchMemTable ==
  /\ next' = next + 1 /\ log' = next
  /\ logs' = With(logs, next, [recs |-> << >>, synced |-> 0, torn |-> FALSE])
  /\ imm' = {mem} /\ mem' = {}

HasRoom(s) == ~s.force /\ Cardinality(mem) <= MaxMem

(* The loop of MakeRoomForWrite by the thread at the front, and what       *)
(* follows up to the next release of the mutex.                            *)
MakeRoomForWrite(t, queue, threads) ==
  LET s == threads[t]
      crowded == Cardinality(version.l0) IN
  \/ /\ bgError
     /\ Leave(1, FALSE, queue, threads)
     /\ UNCHANGED <<logs, state, scheduled, events>>
  \/ /\ ~bgError /\ s.delay /\ crowded >= SlowdownTrigger
     /\ thread' = [threads EXCEPT ![t].pc = "delay", ![t].delay = FALSE]
     /\ writers' = queue
     /\ UNCHANGED <<logs, state, scheduled, events, acked, promised>>
  \/ /\ ~bgError /\ ~(s.delay /\ crowded >= SlowdownTrigger)
     /\ HasRoom(s)
     /\ Proceed(t, queue, threads)
     /\ UNCHANGED <<logs, state, scheduled, events>>
  \/ /\ ~bgError /\ ~(s.delay /\ crowded >= SlowdownTrigger) /\ ~HasRoom(s)
     /\ imm # {} \/ crowded >= StopTrigger
     /\ thread' = [threads EXCEPT ![t].pc = "wait"] /\ writers' = queue
     /\ UNCHANGED <<logs, state, scheduled, events, acked, promised>>
  \/ /\ ~bgError /\ ~(s.delay /\ crowded >= SlowdownTrigger) /\ ~HasRoom(s)
     /\ imm = {} /\ crowded < StopTrigger
     /\ \/ /\ SwitchMemTable
           /\ MaybeScheduleCompaction(scheduled, bgError, imm', version)
           /\ Proceed(t, queue, [threads EXCEPT ![t].force = FALSE])
           /\ UNCHANGED <<version, lastSeq, pending, events>>
        \/ /\ Event        \* the log file cannot be created
           /\ Leave(1, FALSE, queue, threads)
           /\ UNCHANGED <<logs, state, scheduled>>

(* Write up to the first release of the mutex: a thread that finds the     *)
(* queue empty leads at once.                                              *)
Enter(t, s) ==
  LET queue == Append(writers, t) IN
  IF writers = << >> THEN MakeRoomForWrite(t, queue, [thread EXCEPT ![t] = s])
  ELSE /\ writers' = queue
       /\ thread' = [thread EXCEPT ![t] = [s EXCEPT !.pc = "queued"]]
       /\ UNCHANGED <<logs, state, scheduled, events, acked, promised>>

Unwritten == <<tables, manifest, phase, bgError, shutting, bg, opening, reader, risky>>

(* A Put or a Delete.                                                      *)
Put(t) ==
  /\ phase = "open" /\ ~shutting /\ thread[t].pc = "idle"
  /\ Call
  /\ \E sync \in BOOLEAN :
       Enter(t, [Resting EXCEPT !.id = writes + 1, !.sync = sync,
                                !.delay = TRUE])
  /\ UNCHANGED Unwritten

(* TEST_CompactMemTable: a NULL batch forces the memtable out.             *)
Flush(t) ==
  /\ phase = "open" /\ ~shutting /\ thread[t].pc = "idle"
  /\ Call
  /\ Enter(t, [Resting EXCEPT !.force = TRUE])
  /\ UNCHANGED Unwritten

(* A thread that was woken, or whose delay of 1 ms is over, has the mutex  *)
(* again.                                                                  *)
Lead(t) ==
  /\ thread[t].pc \in {"front", "delay", "woken"}
  /\ MakeRoomForWrite(t, writers, thread)
  /\ UNCHANGED <<Unwritten, writes>>

-----------------------------------------------------------------------------
(* Write without the mutex: the log, then the memtable.                    *)

(* The members of the group that write an entry, as a flush does not; an   *)
(* entry's number counts the entries up to it.                             *)
Batches(t) == {i \in 1 .. thread[t].group : thread[writers[i]].id # 0}
GroupEntries(t) == {[id |-> thread[writers[i]].id,
                     seq |-> lastSeq + Cardinality(Batches(t) \cap 1 .. i)] :
                      i \in Batches(t)}

(* The sequence numbers a group uses up, whether or not its write          *)
(* succeeded.                                                              *)
Count(t) == Cardinality(Batches(t))

Writing == <<tables, manifest, phase, imm, log, version, next, pending,
             shutting, opening, reader, bg, writes>>

(* AddRecord.  Behind a torn record the reader may drop what follows in    *)
(* the block.  An append that fails leaves a torn record, and may have     *)
(* left all of it.                                                         *)
AddRecord(t) ==
  /\ thread[t].pc = "append"
  /\ \/ /\ \E kept \in IF logs[log].torn THEN {GroupEntries(t), {}}
                       ELSE {GroupEntries(t)} :
             logs' = [logs EXCEPT ![log].recs = Append(@, kept)]
        /\ risky' = IF logs[log].torn THEN risky \cup Ids(GroupEntries(t)) ELSE risky
        /\ thread' = [thread EXCEPT ![t].pc = IF thread[t].sync THEN "sync" ELSE "insert"]
        /\ UNCHANGED events
     \/ /\ Event
        /\ \E kept \in {GroupEntries(t), {}} :
             logs' = [logs EXCEPT ![log].recs = Append(@, kept), ![log].torn = TRUE]
        /\ thread' = [thread EXCEPT ![t].pc = "finish", ![t].ok = FALSE]
        /\ UNCHANGED risky
  /\ UNCHANGED <<Writing, mem, lastSeq, bgError, scheduled, writers, acked, promised>>

SyncLog(t) ==
  /\ thread[t].pc = "sync"
  /\ \/ /\ logs' = [logs EXCEPT ![log].synced = Len(logs[log].recs)]
        /\ thread' = [thread EXCEPT ![t].pc = "insert"]
        /\ UNCHANGED events
     \/ /\ Event
        /\ thread' = [thread EXCEPT ![t].pc = "finish", ![t].ok = FALSE,
                                    ![t].syncError = TRUE]
        /\ UNCHANGED logs
  /\ UNCHANGED <<Writing, mem, lastSeq, bgError, scheduled, writers, past>>

InsertInto(t) ==
  /\ thread[t].pc = "insert"
  /\ mem' = mem \cup GroupEntries(t)
  /\ thread' = [thread EXCEPT ![t].pc = "finish"]
  /\ UNCHANGED <<Writing, logs, lastSeq, bgError, scheduled, writers, past, events>>

(* With the mutex again: a failed sync fails all writes to come, and the   *)
(* group is told.                                                          *)
Finish(t) ==
  /\ thread[t].pc = "finish"
  /\ lastSeq' = lastSeq + Count(t)
  /\ bgError' = (bgError \/ thread[t].syncError)
  /\ Leave(thread[t].group, thread[t].ok, writers,
           IF thread[t].syncError /\ ~bgError THEN SignalAll(thread) ELSE thread)
  /\ UNCHANGED <<Writing, logs, mem, scheduled, risky, events>>

(* TEST_CompactMemTable waits for the flush to be over.                     *)
WaitForImm(t) ==
  /\ thread[t].pc = "wokenImm"
  /\ thread' = [thread EXCEPT ![t] = IF imm # {} /\ ~bgError
                                     THEN [@ EXCEPT !.pc = "waitImm"] ELSE Resting]
  /\ UNCHANGED <<disk, phase, state, flags, writers, bg, opening, reader, past,
                 writes, events>>

-----------------------------------------------------------------------------
(* The background thread.                                                  *)

Needed(v) == v.l0 \cup v.l1 \cup reader.files

(* Slip: the files of a running Get are not among the live ones.           *)
DeleteFilesOfGets(v, inputs, pend) ==
  IF bgError THEN UNCHANGED <<logs, tables>>
  ELSE /\ tables' = RestrictTo(tables, v.l0 \cup v.l1 \cup inputs \cup pend)
       /\ logs' = RestrictTo(logs, {n \in DOMAIN logs : n >= v.log})

(* DeleteObsoleteFiles once v is current; inputs are the files a running   *)
(* compaction reads, whose version it holds.  After an error nothing is    *)
(* deleted.                                                                *)
DeleteObsoleteFiles(v, inputs, pend) ==
  IF bgError THEN UNCHANGED <<logs, tables>>
  ELSE /\ tables' = RestrictTo(tables, Needed(v) \cup inputs \cup pend)
       /\ logs' = RestrictTo(logs, {n \in DOMAIN logs : n >= v.log})

(* Slip: nobody is woken.                                                  *)
EndCallQuietly(error, im, v, threads) ==
  /\ bg' = BgIdle
  /\ MaybeScheduleCompaction(FALSE, error, im, v)
  /\ thread' = threads

(* The end of BackgroundCall: whoever waits is woken.                      *)
EndCall(error, im, v, threads) ==
  /\ bg' = BgIdle
  /\ MaybeScheduleCompaction(FALSE, error, im, v)
  /\ thread' = SignalAll(threads)

(* A flush inside a compaction goes back to it, with a signal.             *)
EndFlush(error, im, v, threads) ==
  IF bg.merging
  THEN /\ bg' = [bg EXCEPT !.pc = "merge", !.flushing = FALSE, !.out = 0]
       /\ thread' = SignalAll(threads)
       /\ UNCHANGED scheduled
  ELSE EndCall(error, im, v, threads)

(* What failed makes every later write fail.  A compaction gives up, and   *)
(* so does a flush, whose memtable stays in imm.                           *)
Fail ==
  /\ bgError' = TRUE
  /\ IF bg.flushing
     THEN /\ EndFlush(TRUE, imm, version, thread)
          /\ pending' = pending \ {bg.out}
     ELSE /\ EndCall(TRUE, imm, version, thread)
          /\ pending' = pending \ {bg.output}

(* Slip: the number of the new table is not used up.                       *)
StartFlushSame(b) ==
  /\ bg' = [b EXCEPT !.pc = "build", !.flushing = TRUE, !.out = next]
  /\ pending' = pending \cup {next} /\ next' = next

StartFlush(b) ==
  /\ bg' = [b EXCEPT !.pc = "build", !.flushing = TRUE, !.out = next]
  /\ pending' = pending \cup {next} /\ next' = next + 1

BackgroundCall ==
  /\ scheduled /\ bg.pc = "idle"
  /\ \/ /\ shutting \/ bgError \/ (imm = {} /\ Cardinality(version.l0) < CompactionTrigger)
        /\ EndCall(bgError, imm, version, thread)
        /\ UNCHANGED <<next, pending>>
     \/ /\ ~shutting /\ ~bgError /\ imm # {}
        /\ StartFlush(BgIdle)
        /\ UNCHANGED <<scheduled, thread>>
     \/ /\ ~shutting /\ ~bgError /\ imm = {}
        /\ Cardinality(version.l0) >= CompactionTrigger
        /\ bg' = [BgIdle EXCEPT !.pc = "merge", !.merging = TRUE,
                                !.inputs = version.l0 \cup version.l1]
        /\ UNCHANGED <<next, pending, scheduled, thread>>
  /\ UNCHANGED <<disk, phase, mem, imm, log, version, lastSeq, bgError, shutting,
                 writers, opening, reader, past, writes, events>>

(* DoCompactionWork stops to write imm.                                    *)
NestedFlush ==
  /\ bg.pc = "merge" /\ imm # {} /\ ~shutting
  /\ StartFlush(bg)
  /\ UNCHANGED <<disk, phase, mem, imm, log, version, lastSeq, flags, client,
                 opening, reader, past, writes, events>>

OpenCompactionOutputFile ==
  /\ bg.pc = "merge" /\ bg.output = 0 /\ ~shutting
  /\ bg' = [bg EXCEPT !.output = next]
  /\ pending' = pending \cup {next} /\ next' = next + 1
  /\ UNCHANGED <<disk, phase, mem, imm, log, version, lastSeq, flags, client,
                 opening, reader, past, writes, events>>

(* LogAndApply fills in the edit, with the mutex.                          *)
LogAndApply(number) ==
  bg' = [bg EXCEPT !.pc = "log",
                   !.edit = [next |-> next, seq |-> lastSeq, log |-> number]]

(* The output is whole and synced, and the edit begun; or it failed, or    *)
(* the database is being closed.                                           *)
FinishCompaction ==
  /\ bg.pc = "merge"
  /\ \/ /\ bg.output # 0 /\ ~shutting
        /\ tables' = With(tables, bg.output, Content(bg.inputs))
        /\ LogAndApply(version.log)
        /\ UNCHANGED <<bgError, scheduled, thread, pending, events>>
     \/ /\ bg.output # 0 /\ Event /\ Fail /\ UNCHANGED tables
     \/ /\ shutting /\ Fail /\ UNCHANGED <<tables, events>>
  /\ UNCHANGED <<logs, manifest, phase, mem, imm, log, version, next, lastSeq,
                 shutting, writers, opening, reader, past, writes>>

(* BuildTable, and CompactMemTable up to its call of LogAndApply: an empty *)
(* memtable leaves no table, and logs before the current one are no longer *)
(* needed.                                                                 *)
BuildTable ==
  /\ bg.pc = "build"
  /\ \/ /\ tables' = IF imm = {{}} THEN tables
                     ELSE With(tables, bg.out, UNION imm)
        /\ IF shutting THEN Fail
           ELSE /\ LogAndApply(log) /\ pending' = pending \ {bg.out}
                /\ UNCHANGED <<bgError, scheduled, thread>>
        /\ UNCHANGED events
     \/ Event /\ Fail /\ UNCHANGED tables
  /\ UNCHANGED <<logs, manifest, phase, mem, imm, log, version, next, lastSeq,
                 shutting, writers, opening, reader, past, writes>>

(* What the edit makes of a version, and of the MANIFEST, which may hold   *)
(* an edit that failed.                                                    *)
Edited(v) ==
  IF bg.flushing
  THEN [v EXCEPT !.l0 = IF imm = {{}} THEN @ ELSE @ \cup {bg.out},
                 !.log = bg.edit.log]
  ELSE [v EXCEPT !.l0 = @ \ bg.inputs, !.l1 = (@ \ bg.inputs) \cup {bg.output},
                 !.log = bg.edit.log]

(* Slip: the edit does not carry the next file number.                     *)
LoggedWithoutNext(m) ==
  LET v == Edited([l0 |-> m.l0, l1 |-> m.l1, log |-> m.log]) IN
  [m EXCEPT !.l0 = v.l0, !.l1 = v.l1, !.log = v.log, !.seq = bg.edit.seq]

Logged(m) ==
  LET v == Edited([l0 |-> m.l0, l1 |-> m.l1, log |-> m.log]) IN
  [m EXCEPT !.l0 = v.l0, !.l1 = v.l1, !.log = v.log, !.next = bg.edit.next,
            !.seq = bg.edit.seq]

(* The record of the edit, without the mutex.  An append that fails leaves *)
(* a torn record, and a record behind it makes the MANIFEST unreadable;    *)
(* after a sync that fails the record may be there or not.                 *)
LogEdit ==
  /\ bg.pc = "log"
  /\ \/ /\ manifest' = [Logged(manifest) EXCEPT !.dead = manifest.torn]
        /\ bg' = [bg EXCEPT !.pc = "install"]
        /\ UNCHANGED <<bgError, scheduled, thread, pending, events>>
     \/ /\ Event /\ Fail
        /\ manifest' \in {manifest, [manifest EXCEPT !.torn = TRUE], Logged(manifest)}
  /\ UNCHANGED <<logs, tables, phase, mem, imm, log, version, next, lastSeq,
                 shutting, writers, opening, reader, past, writes>>

(* The new version is current; what is not needed any more is deleted.     *)
InstallFlush ==
  /\ bg.pc = "install" /\ bg.flushing
  /\ version' = Edited(version) /\ imm' = {}
  /\ DeleteObsoleteFiles(version', bg.inputs, pending)
  /\ EndFlush(bgError, {}, version', thread)
  /\ UNCHANGED <<manifest, phase, mem, log, next, lastSeq, pending, bgError,
                 shutting, writers, opening, reader, past, writes, events>>

InstallCompactionResults ==
  /\ bg.pc = "install" /\ ~bg.flushing
  /\ version' = Edited(version) /\ pending' = pending \ {bg.output}
  /\ DeleteObsoleteFiles(version', {}, pending')
  /\ EndCall(bgError, imm, version', thread)
  /\ UNCHANGED <<manifest, phase, mem, imm, log, next, lastSeq, bgError, shutting,
                 writers, opening, reader, past, writes, events>>

-----------------------------------------------------------------------------
(* Get.                                                                    *)

Visible(entries, snapshot) == {e \in entries : e.seq <= snapshot}
Everything == mem \cup (UNION imm) \cup Content((version.l0 \cup version.l1) \cap DOMAIN tables)

(* With the mutex: the sequence number, the memtables and the version.     *)
BeginGet ==
  /\ phase = "open" /\ ~shutting /\ ~reader.on
  /\ Event
  /\ reader' = [on |-> TRUE, snapshot |-> lastSeq, mem |-> mem \cup UNION imm,
                files |-> version.l0 \cup version.l1,
                expect |-> Visible(Everything, lastSeq)]
  /\ UNCHANGED <<disk, phase, state, flags, client, bg, opening, past, writes>>

EndGet ==
  /\ reader.on /\ reader' = Idle
  /\ UNCHANGED <<disk, phase, state, flags, client, bg, opening, past, writes, events>>

-----------------------------------------------------------------------------
(* Closing, crashing and opening.                                          *)

(* What a process has in memory is gone.                                   *)
Forget ==
  /\ phase' = "closed" /\ mem' = {} /\ imm' = {} /\ log' = 0
  /\ version' = [l0 |-> {}, l1 |-> {}, log |-> 0]
  /\ next' = 2 /\ lastSeq' = 0 /\ pending' = {}
  /\ bgError' = FALSE /\ shutting' = FALSE /\ scheduled' = FALSE
  /\ writers' = << >> /\ thread' = [t \in Threads |-> Resting]
  /\ bg' = BgIdle /\ opening' = [todo |-> {}, made |-> {}] /\ reader' = Idle

(* Entries that opening will find.                                         *)
Recoverable(lg) ==
  Content((manifest.l0 \cup manifest.l1) \cap DOMAIN tables)
    \cup UNION {Records(lg[n]) : n \in {m \in DOMAIN lg : m >= manifest.log}}
Truncated(file, n) == [file EXCEPT !.recs = SubSeq(@, 1, n), !.synced = n]
Synced(lg) == [n \in DOMAIN lg |-> Truncated(lg[n], lg[n].synced)]

(* The process is killed, or the machine stops: of each log at least the   *)
(* synced part is left.                                                    *)
Crash ==
  /\ phase # "closed"
  /\ Event
  /\ Forget
  /\ \/ UNCHANGED <<logs, past>>
     \/ /\ \E kept \in [DOMAIN logs -> 0 .. MaxWrites] :
             /\ \A n \in DOMAIN logs : kept[n] \in logs[n].synced .. Len(logs[n].recs)
             /\ logs' = [n \in DOMAIN logs |-> Truncated(logs[n], kept[n])]
        /\ acked' = acked \cap (promised \cup Ids(Recoverable(logs')))
        /\ UNCHANGED <<promised, risky>>
  /\ UNCHANGED <<tables, manifest, writes>>

(* ~DBImpl, when no call is running, waits for the background thread.      *)
StartClose ==
  /\ phase = "open" /\ ~shutting /\ Event
  /\ \A t \in Threads : thread[t].pc = "idle"
  /\ ~reader.on
  /\ shutting' = TRUE
  /\ UNCHANGED <<disk, phase, state, bgError, scheduled, client, bg, opening,
                 reader, past, writes>>
EndClose ==
  /\ shutting /\ ~scheduled
  /\ Forget
  /\ UNCHANGED <<disk, past, writes, events>>

(* VersionSet::Recover: the new MANIFEST will have the number m.next.      *)
Recover ==
  /\ phase = "closed" /\ ~manifest.dead
  /\ (manifest.l0 \cup manifest.l1) \subseteq DOMAIN tables
  /\ phase' = "replay"
  /\ version' = [l0 |-> manifest.l0, l1 |-> manifest.l1, log |-> manifest.log]
  /\ next' = manifest.next + 1 /\ lastSeq' = manifest.seq
  /\ opening' = [todo |-> {n \in DOMAIN logs : n >= manifest.log}, made |-> {}]
  /\ UNCHANGED <<disk, mem, imm, log, pending, flags, client, bg, reader, past,
                 writes, events>>

MarkFileNumberUsed(n, number) == IF n <= number THEN number + 1 ELSE n

(* The oldest log that is left becomes a table.                            *)
RecoverLogFile ==
  /\ phase = "replay" /\ opening.todo # {}
  /\ LET n == Min(opening.todo)
         found == Records(logs[n]) IN
     /\ IF found = {}
        THEN /\ next' = MarkFileNumberUsed(next, n)
             /\ opening' = [opening EXCEPT !.todo = @ \ {n}]
             /\ UNCHANGED tables
        ELSE /\ tables' = With(tables, next, found)
             /\ next' = MarkFileNumberUsed(next + 1, n)
             /\ opening' = [todo |-> opening.todo \ {n}, made |-> opening.made \cup {next}]
     /\ lastSeq' = Max({lastSeq} \cup {e.seq : e \in found})
  /\ UNCHANGED <<logs, manifest, phase, mem, imm, log, version, pending, flags,
                 client, bg, reader, past, writes, events>>

(* DB::Open makes a log, then a MANIFEST that names all this, to which     *)
(* CURRENT is renamed.                                                     *)
NewLog ==
  /\ phase = "replay" /\ opening.todo = {}
  /\ phase' = "switch"
  /\ log' = next /\ next' = next + 1
  /\ logs' = With(logs, next, [recs |-> << >>, synced |-> 0, torn |-> FALSE])
  /\ UNCHANGED <<tables, manifest, mem, imm, version, lastSeq, pending, flags,
                 client, bg, opening, reader, past, writes, events>>
SetCurrentFile ==
  /\ phase = "switch" /\ phase' = "clean"
  /\ version' = [l0 |-> version.l0 \cup opening.made, l1 |-> version.l1, log |-> log]
  /\ manifest' = [l0 |-> version'.l0, l1 |-> version'.l1, log |-> log, next |-> next,
                  seq |-> lastSeq, torn |-> FALSE, dead |-> FALSE]
  /\ opening' = [todo |-> {}, made |-> {}]
  /\ UNCHANGED <<logs, tables, mem, imm, log, next, lastSeq, pending, flags,
                 client, bg, reader, past, writes, events>>
Opened ==
  /\ phase = "clean" /\ phase' = "open"
  /\ DeleteObsoleteFiles(version, {}, {})
  /\ MaybeScheduleCompaction(FALSE, FALSE, {}, version)
  /\ UNCHANGED <<manifest, state, bgError, shutting, client, bg, opening, reader,
                 past, writes, events>>

-----------------------------------------------------------------------------
Step(t) ==
  \/ Lead(t) \/ AddRecord(t) \/ SyncLog(t) \/ InsertInto(t) \/ Finish(t)
  \/ WaitForImm(t)
BgStep ==
  \/ BackgroundCall \/ NestedFlush \/ OpenCompactionOutputFile \/ FinishCompaction
  \/ BuildTable \/ LogEdit \/ InstallFlush \/ InstallCompactionResults
Opening == Recover \/ RecoverLogFile \/ NewLog \/ SetCurrentFile \/ Opened

Next ==
  \/ \E t \in Threads : Put(t) \/ Flush(t) \/ Step(t)
  \/ BgStep \/ BeginGet \/ EndGet \/ Crash \/ StartClose \/ EndClose \/ Opening

(* The threads of the process run; nothing obliges a client to call.       *)
Fairness ==
  /\ \A t \in Threads : WF_vars(Step(t))
  /\ WF_vars(BgStep) /\ WF_vars(Opening) /\ WF_vars(EndClose)

Spec == Init /\ [][Next]_vars /\ Fairness

-----------------------------------------------------------------------------
(* What options.h says of sync: a write with sync that returned OK is      *)
(* found after the machine stops, whatever the background thread or an     *)
(* earlier recovery was doing.  Excepted are writes appended behind a torn *)
(* record, and a MANIFEST torn by a failed append.                         *)
SyncedSurvive ==
  manifest.dead \/ promised \ risky \subseteq Ids(Recoverable(Synced(logs)))

(* A write that returned OK is found after the process dies.               *)
AckedSurvive ==
  manifest.dead \/ acked \ risky \subseteq Ids(Recoverable(logs))

(* A Get finds every write that returned OK.                               *)
OwnWritesAreRead ==
  phase = "open" => acked \ risky \subseteq Ids(Visible(Everything, lastSeq))

(* A Get without the mutex still has its files, and finds in them and in   *)
(* the memtables what was there when it began.                             *)
GetsSeeTheirSnapshot ==
  reader.on =>
    /\ reader.files \subseteq DOMAIN tables
    /\ Visible(reader.mem \cup Content(reader.files), reader.snapshot) = reader.expect

(* No two writes have the same sequence number: not in the memtables and   *)
(* tables, nor in what opening would find beside them.                     *)
SequenceNumbersAreUnique ==
  LET all == Everything \cup Recoverable(logs) IN
  \A e, f \in all : e.seq = f.seq => e = f

(* The MANIFEST names only tables that exist, and its numbers are above    *)
(* those of the files it names: a new file never replaces one of them.     *)
ManifestIsSound ==
  /\ (manifest.l0 \cup manifest.l1) \subseteq DOMAIN tables
  /\ \A n \in manifest.l0 \cup manifest.l1 \cup {manifest.log} : n < manifest.next

(* Every write and every flush ends: no wake-up is lost.                   *)
CallsEnd == \A t \in Threads : thread[t].pc # "idle" ~> thread[t].pc = "idle"


(* What returned OK is kept: through a power failure what was synced,      *)
(* through the death of the process all of it.                             *)
WritesSurvive == SyncedSurvive /\ AckedSurvive

(* Reads find what returned OK and nothing newer than their snapshot.      *)
ReadsAreRight == OwnWritesAreRead /\ GetsSeeTheirSnapshot

(* Neither a sequence number nor a file number is ever used twice.         *)
NumbersAreSound == SequenceNumbersAreUnique /\ ManifestIsSound
=============================================================================
