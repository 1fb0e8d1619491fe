------------------------------ MODULE LogFormat -------------------------------
(***************************************************************************)
(* The format of LevelDB's logs and MANIFESTs (log_writer.cc,              *)
(* log_reader.cc): records are cut into fragments that never cross a       *)
(* block, and a reader finds whole records again behind whatever a failed  *)
(* append, a crash or the disk has left.                                   *)
(*                                                                         *)
(* A file is a sequence of cells.  The first cell of a fragment's header   *)
(* stands for type, length and checksum, the checksum being of the type    *)
(* and the payload themselves; cells of a payload tell their record and    *)
(* place.  What is not a header's first cell is no valid header: that      *)
(* bytes of a payload pass for one is left out with the collisions of crc. *)
(***************************************************************************)
EXTENDS Integers, Sequences, SequencesExt, FiniteSets

CONSTANTS
  BlockSize, HeaderSize,
  Lengths,               \* of the records written
  MaxRecords, MaxFaults  \* bounds of the model

LogFormatAssumption ==
  /\ BlockSize \in Nat /\ HeaderSize \in 2 .. BlockSize - 1 /\ Lengths \subseteq Nat

VARIABLES
  log,           \* the cells of the file
  blockOffset,   \* block_offset_ of the Writer
  written,       \* every record given to AddRecord: its length, where it is,
                 \* and whether its last fragment was written whole
  faults,        \* appends torn, cells damaged, files cut, offsets chosen
  torn,          \* records during or after the first torn append, or 0
  damaged,       \* positions of damaged cells
  reader,        \* the Reader
  read           \* the records it returned, as payloads

vars == <<log, blockOffset, written, faults, torn, damaged, reader, read>>

Cell(kind, type, data) == [kind |-> kind, type |-> type, data |-> data]
NoReader == [on |-> FALSE, initial |-> 0, end |-> 0, buffer |-> <<>>, eof |-> FALSE,
             resyncing |-> FALSE, fragmented |-> FALSE, scratch |-> <<>>,
             done |-> FALSE, reported |-> FALSE]

TypeOK ==
  /\ blockOffset \in 0 .. BlockSize
  /\ damaged \subseteq DOMAIN log
  /\ reader.end <= Len(log)
  /\ reader.eof => reader.end = Len(log)
  /\ Len(reader.buffer) <= BlockSize

Init ==
  /\ log = <<>> /\ blockOffset = 0 /\ written = <<>> /\ faults = 0 /\ torn = 0
  /\ damaged = {} /\ reader = NoReader /\ read = <<>>

-----------------------------------------------------------------------------
(* Writer::AddRecord.                                                      *)

Lesser(a, b) == IF a < b THEN a ELSE b
Payload(r, from, to) == [i \in 1 .. to - from |-> <<r, from + i>>]

(* One fragment in a block.                                                *)
EmitPhysicalRecord(type, payload) ==
  <<Cell("head", type, payload)>>
  \o [i \in 1 .. HeaderSize - 1 |-> Cell("rest", type, payload)]
  \o [i \in DOMAIN payload |-> Cell("data", "", payload[i])]

RecordType(begin, end) ==
  IF begin /\ end THEN "full" ELSE IF begin THEN "first" ELSE IF end THEN "last" ELSE "middle"

(* The appends that write record r, of length n, from block offset b on:   *)
(* for each fragment the trailer before it and the offset after it.        *)
Fragments(r, n, b) ==
  LET from[p \in [done : 0 .. n, at : 0 .. BlockSize, begin : BOOLEAN]] ==
        LET switch == BlockSize - p.at < HeaderSize
            start  == IF switch THEN 0 ELSE p.at
            len    == Lesser(n - p.done, BlockSize - start - HeaderSize)
            end    == n - p.done = len
            cells  == EmitPhysicalRecord(RecordType(p.begin, end), Payload(r, p.done, p.done + len))
            after  == start + HeaderSize + len
        IN <<[trailer |-> IF switch THEN BlockSize - p.at ELSE 0, cells |-> cells, after |-> after]>>
           \o (IF end THEN <<>> ELSE from[[done |-> p.done + len, at |-> after, begin |-> FALSE]])
  IN from[[done |-> 0, at |-> b, begin |-> TRUE]]

(* Slip: the end of a block is left as it is.                             *)
NoZeros(n) == <<>>

(* The trailer of a block too short for a header.                          *)
Zeros(n) == [i \in 1 .. n |-> Cell("zero", "", <<>>)]
Appended(fragments) ==
  FlattenSeq([i \in DOMAIN fragments |-> Zeros(fragments[i].trailer) \o fragments[i].cells])

AddRecord(n) ==
  /\ ~reader.on /\ Len(written) < MaxRecords
  /\ LET fs    == Fragments(Len(written) + 1, n, blockOffset)
         start == Len(log) + fs[1].trailer IN
     /\ log' = log \o Appended(fs)
     /\ blockOffset' = fs[Len(fs)].after
     /\ written' = Append(written, [len |-> n, start |-> start, end |-> Len(log'), whole |-> TRUE])
  /\ UNCHANGED <<faults, torn, damaged, reader, read>>

(* The append of the k-th fragment writes only some of its cells and       *)
(* fails; the Writer counts the fragment all the same.                     *)
TornRecord(n) ==
  /\ ~reader.on /\ Len(written) < MaxRecords /\ faults < MaxFaults
  /\ LET fs    == Fragments(Len(written) + 1, n, blockOffset)
         start == Len(log) + fs[1].trailer IN
     \E k \in DOMAIN fs : \E m \in 0 .. Len(fs[k].cells) - 1 :
       /\ log' = log \o Appended(SubSeq(fs, 1, k - 1)) \o Zeros(fs[k].trailer)
                     \o SubSeq(fs[k].cells, 1, m)
       /\ blockOffset' = fs[k].after
       /\ written' = Append(written, [len |-> n, start |-> start, end |-> Len(log'), whole |-> FALSE])
  /\ faults' = faults + 1
  /\ torn' = IF torn = 0 THEN Len(written') ELSE torn
  /\ UNCHANGED <<damaged, reader, read>>

(* The machine stops: of what was not synced, the end may be gone.         *)
Cut ==
  /\ ~reader.on /\ faults < MaxFaults
  /\ \E n \in 0 .. Len(log) - 1 :
       /\ log' = SubSeq(log, 1, n)
       /\ damaged' = damaged \cap 1 .. n
       /\ reader' = [NoReader EXCEPT !.on = TRUE]
  /\ faults' = faults + 1
  /\ UNCHANGED <<blockOffset, written, torn, read>>

(* The disk returns something else.                                        *)
Damage ==
  /\ ~reader.on /\ faults < MaxFaults
  /\ \E n \in DOMAIN log :
       /\ log' = [log EXCEPT ![n] = Cell("bad", "", <<>>)]
       /\ damaged' = damaged \cup {n}
  /\ faults' = faults + 1
  /\ UNCHANGED <<blockOffset, written, torn, reader, read>>

-----------------------------------------------------------------------------
(* The Reader.                                                             *)

(* Reader::Reader, and SkipToInitialBlock at the first call: the block of  *)
(* the offset, or the next if only a trailer can be there.                 *)
SkipToInitialBlock(offset) ==
  LET inBlock == offset % BlockSize
      block   == offset - inBlock IN
  IF inBlock > BlockSize - (HeaderSize - 1) THEN block + BlockSize ELSE block

Open(offset) ==
  /\ ~reader.on /\ SkipToInitialBlock(offset) <= Len(log)
  /\ reader' = [NoReader EXCEPT !.on = TRUE, !.initial = offset,
                                !.end = SkipToInitialBlock(offset),
                                !.resyncing = offset > 0]
  /\ UNCHANGED <<log, blockOffset, written, faults, torn, damaged, read>>
OpenAtStart == Open(0)
OpenLater ==
  /\ faults < MaxFaults
  /\ \E offset \in 1 .. Len(log) : Open(offset)

Running == reader.on /\ ~reader.done
Ready   == Running /\ Len(reader.buffer) >= HeaderSize
Header    == reader.buffer[1]
Extent  == HeaderSize + Len(Header.data)
Rest    == SubSeq(reader.buffer, Extent + 1, Len(reader.buffer))

(* A header, its payload, and a checksum that fits both.                   *)
Valid ==
  /\ Header.kind = "head" /\ Extent <= Len(reader.buffer)
  /\ \A i \in 2 .. HeaderSize :
       reader.buffer[i] = Cell("rest", Header.type, Header.data)
  /\ \A i \in DOMAIN Header.data :
       reader.buffer[HeaderSize + i] = Cell("data", "", Header.data[i])

TooLong == Header.kind = "head" /\ Extent > Len(reader.buffer)

Others == <<log, blockOffset, written, faults, torn, damaged>>

ReadBlock ==
  /\ Running /\ Len(reader.buffer) < HeaderSize /\ ~reader.eof
  /\ LET to == Lesser(reader.end + BlockSize, Len(log)) IN
     reader' = [reader EXCEPT !.buffer = SubSeq(log, reader.end + 1, to),
                              !.end = to, !.eof = to - reader.end < BlockSize]
  /\ UNCHANGED <<Others, read>>

EndOfFile ==
  /\ Running /\ Len(reader.buffer) < HeaderSize /\ reader.eof
  /\ reader' = [reader EXCEPT !.buffer = <<>>, !.done = TRUE]
  /\ UNCHANGED <<Others, read>>

(* kBadRecord: the record it was part of is given up.                      *)
Dropped(r) == [r EXCEPT !.resyncing = FALSE, !.fragmented = FALSE, !.scratch = <<>>,
                        !.reported = @ \/ r.fragmented]

(* What does not fit its checksum takes the rest of the block along.       *)
BadRecord ==
  /\ Ready /\ ~Valid /\ ~(TooLong /\ reader.eof)
  /\ reader' = [Dropped(reader) EXCEPT !.buffer = <<>>,
                                       !.reported = @ \/ Header.kind # "zero"]
  /\ UNCHANGED <<Others, read>>

(* A length that leads beyond the end of the file ends it, unreported.     *)
Truncated ==
  /\ Ready /\ ~Valid /\ reader.eof
  /\ TooLong \/ Header.kind \notin {"head", "zero"}
  /\ reader' = [reader EXCEPT !.buffer = <<>>, !.done = TRUE]
  /\ UNCHANGED <<Others, read>>

(* A fragment that began before the initial offset.                        *)
Early == reader.end - Len(reader.buffer) < reader.initial
SkipEarly ==
  /\ Ready /\ Valid /\ Early
  /\ reader' = [Dropped(reader) EXCEPT !.buffer = Rest]
  /\ UNCHANGED <<Others, read>>

Arrived == Ready /\ Valid /\ ~Early
Resync ==
  /\ Arrived /\ reader.resyncing /\ Header.type \in {"middle", "last"}
  /\ reader' = [reader EXCEPT !.buffer = Rest, !.resyncing = Header.type = "middle"]
  /\ UNCHANGED <<Others, read>>

(* A record without an end precedes; an empty first fragment is no loss.   *)
Unfinished == reader.fragmented /\ reader.scratch # <<>>

FullRecord ==
  /\ Arrived /\ Header.type = "full"
  /\ read' = Append(read, Header.data)
  /\ reader' = [reader EXCEPT !.buffer = Rest, !.resyncing = FALSE, !.fragmented = FALSE,
                              !.scratch = <<>>, !.reported = @ \/ Unfinished]
  /\ UNCHANGED Others

FirstFragment ==
  /\ Arrived /\ Header.type = "first"
  /\ reader' = [reader EXCEPT !.buffer = Rest, !.resyncing = FALSE, !.fragmented = TRUE,
                              !.scratch = Header.data, !.reported = @ \/ Unfinished]
  /\ UNCHANGED <<Others, read>>

NextFragment ==
  /\ Arrived /\ ~reader.resyncing /\ Header.type \in {"middle", "last"}
  /\ LET whole == reader.scratch \o Header.data IN
     IF ~reader.fragmented
     THEN /\ reader' = [reader EXCEPT !.buffer = Rest, !.reported = TRUE]
          /\ UNCHANGED read
     ELSE IF Header.type = "middle"
     THEN /\ reader' = [reader EXCEPT !.buffer = Rest, !.scratch = whole]
          /\ UNCHANGED read
     ELSE /\ reader' = [reader EXCEPT !.buffer = Rest, !.scratch = <<>>, !.fragmented = FALSE]
          /\ read' = Append(read, whole)
  /\ UNCHANGED Others

Next ==
  \/ \E n \in Lengths : AddRecord(n) \/ TornRecord(n)
  \/ Cut \/ Damage \/ OpenAtStart \/ OpenLater
  \/ ReadBlock \/ EndOfFile \/ BadRecord \/ Truncated \/ SkipEarly \/ Resync
  \/ FullRecord \/ FirstFragment \/ NextFragment

Spec == Init /\ [][Next]_vars

-----------------------------------------------------------------------------
Whole(r) == Payload(r, 0, written[r].len)
BlocksOf(r) == (written[r].start \div BlockSize) .. ((written[r].end - 1) \div BlockSize)

(* The records a Reader must return: those written whole, begun at the     *)
(* offset or after it, before the end and before any torn append, of which *)
(* no block is damaged.                                                    *)
Due ==
  {r \in DOMAIN written :
     /\ written[r].whole /\ written[r].end <= Len(log)
     /\ written[r].start >= reader.initial
     /\ torn = 0 \/ r < torn
     /\ \A n \in damaged : (n - 1) \div BlockSize \notin BlocksOf(r)}

(* The Reader returns whole records, in the order they were written, and   *)
(* never one that was not; it misses none that is due; and it reports      *)
(* nothing of a file that was only cut and is read from its start.         *)
LogIsReplayed ==
  /\ \E rs \in [DOMAIN read -> DOMAIN written] :
       /\ \A i, j \in DOMAIN read : i < j => rs[i] < rs[j]
       /\ \A i \in DOMAIN read : read[i] = Whole(rs[i])
  /\ reader.done =>
       /\ \A r \in Due : \E i \in DOMAIN read : read[i] = Whole(r)
       /\ torn = 0 /\ damaged = {} /\ reader.initial = 0 => ~reader.reported

=============================================================================
