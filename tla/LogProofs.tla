----------------------------- MODULE LogProofs ------------------------------
(***************************************************************************)
(* Theorems of a log or MANIFEST (LogFormat), as MCStorage runs it, for    *)
(* all blocks, headers, records and lengths, and wherever a crash or an    *)
(* error of the medium hits.                                               *)
(*                                                                         *)
(* LogInv says that a log is made of the fragments given to it, or what    *)
(* is left of them, that none that is due crosses a block, and that a      *)
(* reader is at one of them or on the way to the next.                     *)
(***************************************************************************)
EXTENDS MCStorage, FiniteSetTheorems, SequenceTheorems, WellFoundedInduction, TLAPS

-----------------------------------------------------------------------------
(* The log: its inductive invariant.                                       *)

(* Fragments as they were given to the file: which part of which record,   *)
(* where, and how much of it the append wrote.                             *)
Payloads == Seq(Nat \X Nat)
Fragment == [rec : Nat \ {0}, from : Nat, to : Nat, at : Nat, size : Nat,
             begin : BOOLEAN, end : BOOLEAN]
FullSize(f) == HeaderSize + (f.to - f.from)
EndAt(f)    == f.at + f.size
Complete(f) == f.size = FullSize(f)
DataOf(f)   == InLog!Payload(f.rec, f.from, f.to)
TypeOf(f)   == InLog!RecordType(f.begin, f.end)
CellOf(f, c) ==
  IF c = 1 THEN InLog!Cell("head", TypeOf(f), DataOf(f))
  ELSE IF c <= HeaderSize THEN InLog!Cell("rest", TypeOf(f), DataOf(f))
  ELSE InLog!Cell("data", "", <<f.rec, f.from + (c - HeaderSize)>>)
FragmentRight(f) ==
  /\ f.from <= f.to /\ FullSize(f) <= BlockSize /\ f.size <= FullSize(f)
  /\ f.begin => f.from = 0
Follows(f, g) ==
  /\ EndAt(f) <= g.at
  /\ \/ g.rec = f.rec /\ Complete(f) /\ ~f.end /\ ~g.begin /\ g.from = f.to
     \/ g.rec = f.rec + 1 /\ g.begin
Layout(fs) ==
  /\ fs \in Seq(Fragment) /\ \A i \in DOMAIN fs : FragmentRight(fs[i])
  /\ fs # <<>> => fs[1].rec = 1 /\ fs[1].begin
  /\ \A i \in 1 .. Len(fs) - 1 : Follows(fs[i], fs[i + 1])
LastEnd(fs) == IF fs = <<>> THEN 0 ELSE EndAt(fs[Len(fs)])

(* The cells of the file are those of the fragments, fill the end of a     *)
(* block, or are damaged.                                                  *)
LogCell == [kind : {"head", "rest", "data", "zero", "bad"},
            type : {"", "full", "first", "middle", "last"}, data : Payloads \cup (Nat \X Nat)]
ZeroCell == InLog!Cell("zero", "", <<>>)
BadCell  == InLog!Cell("bad", "", <<>>)
Within(p, f) == f.at < p /\ p <= EndAt(f)
CellsRight(fs) ==
  /\ log \in Seq(LogCell)
  /\ \A i \in DOMAIN fs : \A p \in DOMAIN log \ damaged :
       Within(p, fs[i]) => log[p] = CellOf(fs[i], p - fs[i].at)
  /\ \A p \in DOMAIN log :
       log[p] \in {ZeroCell, BadCell} \/ \E i \in DOMAIN fs : Within(p, fs[i])
  /\ damaged \subseteq DOMAIN log /\ \A p \in damaged : log[p] = BadCell
  /\ Len(log) <= LastEnd(fs) /\ (~reader.on => Len(log) = LastEnd(fs))

(* Each record has a first fragment, and one written whole has them all.   *)
Clean(r) == torn = 0 \/ r < torn
Record == [len : Nat, start : Nat, end : Nat, whole : BOOLEAN]
InRecord(fs, i) ==
  LET f == fs[i]
      w == written[f.rec] IN
  /\ f.rec \in DOMAIN written
  /\ f.begin => w.start = f.at
  /\ f.end => f.to = w.len
  /\ w.start <= f.at /\ EndAt(f) <= w.end
  /\ w.whole => Complete(f)
  /\ w.whole /\ ~f.end => i < Len(fs) /\ fs[i + 1].rec = f.rec
RecordsRight(fs) ==
  /\ written \in Seq(Record) /\ torn \in 0 .. Len(written)
  /\ \A i \in DOMAIN fs : InRecord(fs, i)
  /\ \A r \in DOMAIN written : \E i \in DOMAIN fs : fs[i].rec = r /\ fs[i].begin
  /\ \A r \in DOMAIN written : Clean(r) => written[r].whole

(* Before the first torn append no fragment crosses the end of a block,    *)
(* and each begins where the one before ends, or a block, right after.     *)
Multiple(x) == \E q \in Int : x = q * BlockSize
InBlock(x, y) == \E a \in Int : Multiple(a) /\ a <= x /\ y <= a + BlockSize
Aligned(fs, i) ==
  /\ InBlock(fs[i].at, fs[i].at + FullSize(fs[i]))
  /\ i = 1 => fs[i].at = 0
  /\ i > 1 => \/ fs[i].at = EndAt(fs[i - 1])
              \/ Multiple(fs[i].at) /\ fs[i].at < EndAt(fs[i - 1]) + HeaderSize
AlignedRight(fs) ==
  /\ blockOffset \in 0 .. BlockSize /\ (fs = <<>> => blockOffset = 0)
  /\ torn = 0 /\ ~reader.on => Multiple(LastEnd(fs) - blockOffset)
  /\ \A i \in DOMAIN fs : Clean(fs[i].rec) => Aligned(fs, i)

(* The reader has a piece of a block before it.                            *)
At == reader.end - Len(reader.buffer)
Reader == [on : BOOLEAN, initial : Nat, end : Nat, buffer : Seq(LogCell), eof : BOOLEAN,
           resyncing : BOOLEAN, fragmented : BOOLEAN, scratch : Payloads,
           done : BOOLEAN, reported : BOOLEAN]
ReaderRight ==
  /\ reader \in Reader /\ read \in Seq(Payloads)
  /\ ~reader.on => reader = InLog!NoReader /\ read = <<>>
  /\ reader.end <= Len(log) /\ Len(reader.buffer) <= reader.end
  /\ \A i \in DOMAIN reader.buffer : reader.buffer[i] = log[At + i]
  /\ IF reader.eof THEN reader.end = Len(log) ELSE Multiple(reader.end)
  /\ InBlock(At, reader.end)
  /\ reader.resyncing => ~reader.fragmented

(* Every record returned was written, and those to come are later ones.    *)
(* What was put together is the beginning of one, up to fragment j, and of *)
(* what follows no fragment that could be read has been passed.            *)
Passed(f) == ~Complete(f) \/ At < EndAt(f)
NoneLost(fs, j) ==
  \/ \A i \in DOMAIN fs : j < i => At <= fs[i].at
  \/ /\ HeaderSize <= Len(reader.buffer) \/ reader.eof
     /\ \A i \in DOMAIN fs : j < i => At <= fs[i].at \/ Passed(fs[i])
Assembled(fs, j) ==
  /\ j \in DOMAIN fs /\ Complete(fs[j]) /\ ~fs[j].end /\ EndAt(fs[j]) <= At
  /\ reader.scratch = InLog!Payload(fs[j].rec, 0, fs[j].to)
Returned(rs) ==
  /\ rs \in [DOMAIN read -> DOMAIN written]
  /\ \A i, j \in DOMAIN read : i < j => rs[i] < rs[j]
  /\ \A i \in DOMAIN read : read[i] = InLog!Whole(rs[i])
Earlier(rs, r) == \A i \in DOMAIN read : rs[i] < r
ReadRight(fs) ==
  \E rs \in [DOMAIN read -> DOMAIN written] :
    /\ Returned(rs) /\ \A j \in DOMAIN fs : At <= fs[j].at => Earlier(rs, fs[j].rec)
    /\ reader.fragmented /\ ~reader.done =>
         \E j \in DOMAIN fs : Assembled(fs, j) /\ NoneLost(fs, j) /\ Earlier(rs, fs[j].rec)

(* A record that is due has been returned, or begins where the reader will *)
(* come by, or its beginning has been put together and the rest follows.   *)
Found(r) == \E i \in DOMAIN read : read[i] = InLog!Whole(r)
OnTrack(fs, k) ==
  At <= fs[k].at /\ (reader.end <= fs[k].at \/ \E l \in 1 .. k : fs[l].at = At)
ToCome(fs, r) == \E k \in DOMAIN fs : fs[k].rec = r /\ fs[k].begin /\ OnTrack(fs, k)
Partly(fs, r) ==
  /\ reader.fragmented /\ ~reader.resyncing
  /\ \E k \in DOMAIN fs : /\ fs[k].rec = r /\ Assembled(fs, k)
                          /\ k < Len(fs) /\ OnTrack(fs, k + 1)
DueRight(fs) ==
  reader.on => \A r \in InLog!Due :
    Found(r) \/ (~reader.done /\ (ToCome(fs, r) \/ Partly(fs, r)))

(* With no torn append and nothing damaged, a reader from the start on has *)
(* read the first k fragments and comes to the next.                       *)
Quiet == torn = 0 /\ damaged = {} /\ reader.initial = 0
NextIs(f) == \/ f.at = At
             \/ At < f.at /\ reader.end <= f.at /\ Multiple(f.at) /\ f.at < At + HeaderSize
AfterFirst(fs, k) ==
  /\ IF k = 0 THEN ~reader.fragmented
     ELSE EndAt(fs[k]) <= At /\ (reader.fragmented <=> ~fs[k].end)
  /\ IF k < Len(fs) THEN NextIs(fs[k + 1]) ELSE At = Len(log)
QuietRight(fs) ==
  reader.on /\ Quiet => /\ ~reader.reported /\ ~reader.resyncing
                        /\ reader.done \/ \E k \in 0 .. Len(fs) : AfterFirst(fs, k)

FileRight(fs) == Layout(fs) /\ CellsRight(fs) /\ RecordsRight(fs) /\ AlignedRight(fs)
LogInv ==
  \E fs \in Seq(Fragment) :
    /\ FileRight(fs) /\ ReaderRight /\ ReadRight(fs) /\ DueRight(fs) /\ QuietRight(fs)

-----------------------------------------------------------------------------
(* Numbers and blocks.                                                     *)

(* A set of numbers has a least one: induction over what a file consists   *)
(* of looks at the first place where a claim would be wrong.               *)
LEMMA LeastOf ==
  ASSUME NEW n \in Nat, NEW S \in SUBSET (0 .. n), S # {}
  PROVE  \E m \in S : \A k \in S : m <= k
<1> DEFINE Below(m) == {k \in S : k < m}
           T == {Below(m) : m \in S}
<1>0. IsFiniteSet(0 .. n)
  BY FS_Interval
<1>1. IsFiniteSet(S)
  BY <1>0, FS_Subset
<1>2. \A U \in SUBSET S : IsFiniteSet(U)
  BY <1>1, FS_Subset
<1>3. T \subseteq FiniteSubsetsOf(S) /\ T # {}
  BY <1>2 DEF FiniteSubsetsOf
<1>4. PICK U \in T : \A V \in T : ~(<<V, U>> \in StrictSubsetOrdering(S))
  BY <1>3, <1>1, FS_StrictSubsetOrderingWellFounded, WFMin
<1>5. PICK m \in S : U = Below(m)
  OBVIOUS
<1>6. ASSUME NEW k \in S, ~(m <= k) PROVE FALSE
  <2>1. k \in Int /\ m \in Int /\ k < m /\ \A x \in S : x \in Int
    BY <1>6
  <2>2. \A x \in S : x < k => x < m
    BY <2>1
  <2>3. k \in Below(m) /\ k \notin Below(k)
    BY <2>1
  <2>4. k \in U /\ k \notin Below(k) /\ Below(k) \subseteq U
    BY <1>5, <2>2, <2>3
  <2>5. <<Below(k), U>> \in StrictSubsetOrdering(S)
    BY <1>5, <2>4 DEF StrictSubsetOrdering
  <2> QED BY <1>4, <2>5
<1> QED BY <1>6

(* MultiplesOf of w and what is left of a number below the next.             *)
LEMMA MultiplesOf ==
  ASSUME NEW w \in Nat \ {0}, NEW a \in Int, NEW b \in Int, a < b
  PROVE  a * w \in Int /\ b * w \in Int /\ a * w + w <= b * w
<1> DEFINE d == b - a - 1
<1>1. d \in Nat /\ b = a + 1 + d
  OBVIOUS
<1>2. d * w \in Nat
  BY <1>1
<1>3. b * w = a * w + w + d * w
  BY <1>1
<1> QED BY <1>2, <1>3

LEMMA FactorsCommute ==
  ASSUME NEW a \in Int, NEW b \in Int
  PROVE  a * b = b * a
OBVIOUS

LEMMA DivisionOf ==
  ASSUME NEW w \in Nat \ {0}, NEW e \in Int
  PROVE  /\ e \div w \in Int /\ e % w \in 0 .. w - 1
         /\ e = (e \div w) * w + (e % w)
<1>0. w \in Int /\ w > 0
  OBVIOUS
<1>1. e \div w \in Int
  BY <1>0, SMT
<1>2. e % w \in 0 .. w - 1
  BY <1>0, SMT
<1>3. e = w * (e \div w) + (e % w)
  BY <1>0, SMT
<1>4. w * (e \div w) = (e \div w) * w
  BY <1>0, <1>1, FactorsCommute
<1> QED BY <1>1, <1>2, <1>3, <1>4

LEMMA QuotientOf ==
  ASSUME NEW w \in Nat \ {0}, NEW k \in Int, NEW r \in 0 .. w - 1
  PROVE  (k * w + r) \div w = k /\ (k * w + r) % w = r
<1> DEFINE e == k * w + r
           q == e \div w
<1>0. e \in Int
  OBVIOUS
<1>1. q \in Int /\ e % w \in 0 .. w - 1 /\ e = q * w + (e % w)
  BY <1>0, DivisionOf
<1>2. q * w \in Int /\ k * w \in Int /\ e = k * w + r
  BY <1>1
<1> HIDE DEF e, q
<1>3. ~(q < k)
  <2> SUFFICES ASSUME q < k PROVE FALSE
    OBVIOUS
  <2>1. q * w + w <= k * w
    BY <1>1, MultiplesOf
  <2> DEFINE x == q * w
             y == k * w
             z == e % w
  <2>a. x \in Int /\ y \in Int
    BY <1>2
  <2>b. z \in 0 .. w - 1 /\ e = x + z
    BY <1>1, Zenon
  <2>c. e = y + r
    BY <1>2, Zenon
  <2>2. x \in Int /\ y \in Int /\ z \in 0 .. w - 1 /\ e = x + z /\ e = y + r
    BY <2>a, <2>b, <2>c
  <2>3. x + w <= y
    BY <2>1
  <2> HIDE DEF x, y, z
  <2> QED BY <2>2, <2>3
<1>4. ~(k < q)
  <2> SUFFICES ASSUME k < q PROVE FALSE
    OBVIOUS
  <2>1. k * w + w <= q * w
    BY <1>1, MultiplesOf
  <2> DEFINE x == q * w
             y == k * w
             z == e % w
  <2>a. x \in Int /\ y \in Int
    BY <1>2
  <2>b. z \in 0 .. w - 1 /\ e = x + z
    BY <1>1, Zenon
  <2>c. e = y + r
    BY <1>2, Zenon
  <2>2. x \in Int /\ y \in Int /\ z \in 0 .. w - 1 /\ e = x + z /\ e = y + r
    BY <2>a, <2>b, <2>c
  <2>3. y + w <= x
    BY <2>1
  <2> HIDE DEF x, y, z
  <2> QED BY <2>2, <2>3
<1>5. q = k
  BY <1>1, <1>3, <1>4
<1> QED BY <1>1, <1>2, <1>5 DEF e, q

LEMMA LogConstants ==
  /\ BlockSize \in Nat /\ HeaderSize \in Nat /\ 2 <= HeaderSize /\ HeaderSize < BlockSize
  /\ \A n \in Lengths : n \in Nat
BY StorageAssumption DEF InLog!LogFormatAssumption

LEMMA MultiplesApart ==
  ASSUME NEW x \in Int, NEW y \in Int, Multiple(x), Multiple(y), x < y
  PROVE  x + BlockSize <= y
<1>1. PICK q \in Int : x = q * BlockSize
  BY DEF Multiple
<1>2. PICK r \in Int : y = r * BlockSize
  BY DEF Multiple
<1>3. BlockSize \in Nat \ {0}
  BY LogConstants
<1>4. q < r
  <2> SUFFICES ASSUME ~(q < r) PROVE FALSE
    OBVIOUS
  <2>1. CASE q = r
    BY <2>1, <1>1, <1>2
  <2>2. CASE r < q
    <3>1. r * BlockSize + BlockSize <= q * BlockSize
      BY <2>2, <1>3, MultiplesOf
    <3>2. y + BlockSize <= x
      BY <3>1, <1>1, <1>2
    <3> QED BY <3>2, <1>3
  <2> QED BY <2>1, <2>2
<1>5. q * BlockSize + BlockSize <= r * BlockSize
  BY <1>4, <1>3, MultiplesOf
<1> QED BY <1>1, <1>2, <1>5

LEMMA MultipleNext ==
  /\ Multiple(0)
  /\ \A x \in Int : Multiple(x) => Multiple(x + BlockSize) /\ Multiple(x - BlockSize)
<1>1. BlockSize \in Nat
  BY LogConstants
<1>2. Multiple(0)
  <2>1. 0 = 0 * BlockSize
    BY <1>1
  <2> QED BY <2>1 DEF Multiple
<1>3. ASSUME NEW x \in Int, Multiple(x)
      PROVE  Multiple(x + BlockSize) /\ Multiple(x - BlockSize)
  <2>1. PICK q \in Int : x = q * BlockSize
    BY <1>3 DEF Multiple
  <2>2. x + BlockSize = (q + 1) * BlockSize /\ x - BlockSize = (q - 1) * BlockSize
    BY <2>1, <1>1
  <2>3. q + 1 \in Int /\ q - 1 \in Int
    OBVIOUS
  <2> QED BY <2>2, <2>3 DEF Multiple
<1> QED BY <1>2, <1>3

LEMMA BlockOf ==
  ASSUME NEW x \in Int
  PROVE  /\ x % BlockSize \in 0 .. BlockSize - 1 /\ x - (x % BlockSize) \in Int
         /\ Multiple(x - (x % BlockSize))
         /\ x \div BlockSize \in Int /\ x - (x % BlockSize) = (x \div BlockSize) * BlockSize
<1> DEFINE w == BlockSize
           d == x \div w
           m == x % w
           p == d * w
<1>1. w \in Nat \ {0}
  BY LogConstants
<1>2. d \in Int /\ m \in 0 .. w - 1 /\ x = p + m
  BY <1>1, DivisionOf
<1>3. p \in Int
  BY <1>1, <1>2
<1>4. Multiple(p)
  BY <1>2 DEF Multiple
<1>5. x - m = p
  <2> HIDE DEF w, d, m, p
  <2> QED BY <1>1, <1>2, <1>3
<1> QED BY <1>1, <1>2, <1>3, <1>4, <1>5

(* Two numbers of a block are divided alike.                               *)
LEMMA SameBlock ==
  ASSUME NEW a \in Int, Multiple(a), NEW x \in Int, NEW y \in Int,
         a <= x, x < a + BlockSize, a <= y, y < a + BlockSize
  PROVE  x \div BlockSize = y \div BlockSize
<1>1. PICK q \in Int : a = q * BlockSize
  BY DEF Multiple
<1>2. BlockSize \in Nat \ {0}
  BY LogConstants
<1> DEFINE r == x - a
           s == y - a
<1>3. r \in 0 .. BlockSize - 1 /\ s \in 0 .. BlockSize - 1 /\ x = a + r /\ y = a + s
  BY <1>2
<1>4. (q * BlockSize + r) \div BlockSize = q /\ (q * BlockSize + s) \div BlockSize = q
  BY <1>2, <1>3, QuotientOf
<1> QED BY <1>1, <1>3, <1>4

LEMMA BlocksInOrder ==
  ASSUME NEW x \in Int, NEW y \in Int, x <= y
  PROVE  /\ x \div BlockSize \in Int /\ y \div BlockSize \in Int
         /\ x \div BlockSize <= y \div BlockSize
<1> DEFINE c == x \div BlockSize
           d == y \div BlockSize
           m == x % BlockSize
           n == y % BlockSize
<1>1. /\ c \in Int /\ d \in Int /\ m \in 0 .. BlockSize - 1 /\ n \in 0 .. BlockSize - 1
      /\ x - m = c * BlockSize /\ y - n = d * BlockSize
  BY BlockOf
<1>2. BlockSize \in Nat \ {0}
  BY LogConstants
<1>3. ~(d < c)
  <2> SUFFICES ASSUME d < c PROVE FALSE
    OBVIOUS
  <2>1. /\ d * BlockSize \in Int /\ c * BlockSize \in Int
        /\ d * BlockSize + BlockSize <= c * BlockSize
    BY <1>1, <1>2, MultiplesOf
  <2> HIDE DEF c, d, m, n
  <2>2. (y - n) + BlockSize <= x - m
    BY <2>1, <1>1
  <2> QED BY <2>2, <1>1, <1>2
<1> QED BY <1>1, <1>3

-----------------------------------------------------------------------------
(* Sequences.                                                              *)
LEMMA FunctionIsSeq ==
  ASSUME NEW S, NEW n \in Nat, NEW f \in [1 .. n -> S]
  PROVE  f \in Seq(S) /\ Len(f) = n
OBVIOUS

LEMMA Joined ==
  ASSUME NEW S, NEW s \in Seq(S), NEW t \in Seq(S)
  PROVE  /\ s \o t \in Seq(S) /\ Len(s \o t) = Len(s) + Len(t)
         /\ Len(s) \in Nat /\ Len(t) \in Nat /\ DOMAIN (s \o t) = 1 .. Len(s) + Len(t)
         /\ \A i \in 1 .. Len(s) : (s \o t)[i] = s[i]
         /\ \A i \in Int : i \in 1 .. Len(s) + Len(t) /\ ~(i <= Len(s)) =>
              i - Len(s) \in 1 .. Len(t) /\ (s \o t)[i] = t[i - Len(s)]
         /\ \A i \in 1 .. Len(t) : (s \o t)[Len(s) + i] = t[i]
<1>1. Len(s) \in Nat /\ Len(t) \in Nat
  OBVIOUS
<1>2. /\ s \o t \in Seq(S) /\ Len(s \o t) = Len(s) + Len(t)
      /\ \A i \in 1 .. Len(s) + Len(t) :
           (s \o t)[i] = IF i <= Len(s) THEN s[i] ELSE t[i - Len(s)]
  BY ConcatProperties
<1> DEFINE r == s \o t
<1> HIDE DEF r
<1>3. \A i \in 1 .. Len(s) : i \in 1 .. Len(s) + Len(t) /\ i <= Len(s)
  BY <1>1
<1>4. \A i \in Int : i \in 1 .. Len(s) + Len(t) /\ ~(i <= Len(s)) => i - Len(s) \in 1 .. Len(t)
  BY <1>1
<1>5. \A i \in 1 .. Len(t) : /\ Len(s) + i \in 1 .. Len(s) + Len(t)
                            /\ ~(Len(s) + i <= Len(s)) /\ (Len(s) + i) - Len(s) = i
  BY <1>1
<1>6. r \in Seq(S) /\ Len(r) = Len(s) + Len(t)
  BY <1>2 DEF r
<1>7. DOMAIN r = 1 .. Len(s) + Len(t)
  BY <1>6
<1> QED BY <1>1, <1>2, <1>3, <1>4, <1>5, <1>7 DEF r

LEMMA InLayout ==
  ASSUME NEW fs, Layout(fs)
  PROVE  /\ fs \in Seq(Fragment) /\ Len(fs) \in Nat /\ DOMAIN fs = 1 .. Len(fs)
         /\ \A i \in DOMAIN fs :
              /\ fs[i] \in Fragment /\ FragmentRight(fs[i])
              /\ fs[i].rec \in Nat /\ fs[i].from \in Nat /\ fs[i].to \in Nat
              /\ fs[i].at \in Nat /\ fs[i].size \in Nat
              /\ fs[i].begin \in BOOLEAN /\ fs[i].end \in BOOLEAN
              /\ EndAt(fs[i]) \in Nat /\ fs[i].at <= EndAt(fs[i])
              /\ FullSize(fs[i]) \in Nat /\ HeaderSize <= FullSize(fs[i])
              /\ FullSize(fs[i]) <= BlockSize /\ EndAt(fs[i]) <= fs[i].at + FullSize(fs[i])
              /\ Complete(fs[i]) => EndAt(fs[i]) = fs[i].at + FullSize(fs[i])
<1>1. fs \in Seq(Fragment) /\ Len(fs) \in Nat /\ DOMAIN fs = 1 .. Len(fs)
  BY DEF Layout
<1>2. ASSUME NEW i \in DOMAIN fs
      PROVE  /\ fs[i] \in Fragment /\ FragmentRight(fs[i])
  BY <1>1 DEF Layout
<1>3. ASSUME NEW f \in Fragment, FragmentRight(f)
      PROVE  /\ f.rec \in Nat /\ f.from \in Nat /\ f.to \in Nat
             /\ f.at \in Nat /\ f.size \in Nat
             /\ f.begin \in BOOLEAN /\ f.end \in BOOLEAN
             /\ EndAt(f) \in Nat /\ f.at <= EndAt(f)
             /\ FullSize(f) \in Nat /\ HeaderSize <= FullSize(f)
             /\ FullSize(f) <= BlockSize /\ EndAt(f) <= f.at + FullSize(f)
             /\ Complete(f) => EndAt(f) = f.at + FullSize(f)
  BY <1>3, LogConstants DEF Fragment, FragmentRight, EndAt, FullSize, Complete
<1> QED BY <1>1, <1>2, <1>3

(* What holds of each fragment and the next, and from there to later ones, *)
(* holds of each and any later one.                                        *)
LEMMA LayoutOrder ==
  ASSUME NEW fs, Layout(fs), NEW i \in DOMAIN fs, NEW j \in DOMAIN fs, i < j
  PROVE  /\ EndAt(fs[i]) <= fs[j].at /\ fs[i].rec <= fs[j].rec
         /\ fs[i].rec = fs[j].rec => ~fs[i].end /\ ~fs[j].begin /\ Complete(fs[i])
<1> DEFINE Right(k) ==
             /\ EndAt(fs[i]) <= fs[k].at /\ fs[i].rec <= fs[k].rec
             /\ fs[i].rec = fs[k].rec => ~fs[i].end /\ ~fs[k].begin /\ Complete(fs[i])
           Bad == {k \in i + 1 .. Len(fs) : ~Right(k)}
<1>1. Len(fs) \in Nat /\ DOMAIN fs = 1 .. Len(fs)
  BY InLayout
<1>2. ASSUME NEW k \in 1 .. Len(fs) - 1
      PROVE  Follows(fs[k], fs[k + 1])
  BY DEF Layout
<1>3. Bad = {}
  <2> SUFFICES ASSUME Bad # {} PROVE FALSE
    OBVIOUS
  <2>1. Bad \in SUBSET (0 .. Len(fs))
    BY <1>1
  <2> HIDE DEF Right
  <2>2. PICK m \in Bad : \A k \in Bad : m <= k
    BY <2>1, <1>1, LeastOf
  <2>3. m \in i + 1 .. Len(fs) /\ ~Right(m) /\ m - 1 \in DOMAIN fs /\ m \in DOMAIN fs
    BY <1>1
  <2>4. Follows(fs[m - 1], fs[m])
    BY <2>3, <1>1, <1>2
  <2>5. CASE m = i + 1
    <3>1. Follows(fs[i], fs[m])
      BY <2>4, <2>5, <1>1
    <3>2. Right(m)
      <4>1. fs[m].rec \in Nat /\ fs[i].rec \in Nat
        BY <2>3, InLayout
      <4>2. fs[i].rec # fs[i].rec + 1 /\ fs[i].rec <= fs[i].rec + 1
        BY <4>1
      <4> QED BY <3>1, <4>1, <4>2 DEF Right, Follows
    <3> QED BY <3>2, <2>3
  <2>6. CASE m # i + 1
    <3>1. m - 1 \in i + 1 .. Len(fs) /\ m - 1 < m
      BY <2>3, <2>6, <1>1
    <3>2. Right(m - 1)
      BY <3>1, <2>2, <2>3, <1>1
    <3>3. Right(m)
      <4>1. /\ fs[m].rec \in Nat /\ fs[i].rec \in Nat /\ fs[m - 1].rec \in Nat
            /\ fs[m].at \in Nat /\ fs[m - 1].at \in Nat /\ EndAt(fs[i]) \in Nat
            /\ EndAt(fs[m - 1]) \in Nat /\ fs[m - 1].at <= EndAt(fs[m - 1])
        BY <2>3, InLayout
      <4>2. EndAt(fs[i]) <= fs[m - 1].at /\ EndAt(fs[m - 1]) <= fs[m].at
        BY <3>2, <2>4 DEF Right, Follows
      <4>3. EndAt(fs[i]) <= fs[m].at
        BY <4>1, <4>2
      <4>4. CASE fs[m].rec = fs[m - 1].rec /\ ~fs[m].begin
        BY <4>3, <4>4, <3>2 DEF Right
      <4>5. CASE fs[m].rec = fs[m - 1].rec + 1
        <5>1. fs[i].rec <= fs[m].rec /\ fs[i].rec # fs[m].rec
          BY <4>1, <4>5, <3>2 DEF Right
        <5> QED BY <4>3, <5>1 DEF Right
      <4> QED BY <4>4, <4>5, <2>4 DEF Follows
    <3> QED BY <3>3, <2>3
  <2> QED BY <2>5, <2>6
<1> HIDE DEF Right
<1>4. Right(j)
  <2>1. j \in i + 1 .. Len(fs)
    BY <1>1
  <2> QED BY <2>1, <1>3
<1> QED BY <1>4 DEF Right

(* Two fragments that hold the same cell are one.                          *)
LEMMA OneFragment ==
  ASSUME NEW fs, Layout(fs), NEW i \in DOMAIN fs, NEW j \in DOMAIN fs, NEW p \in Int,
         Within(p, fs[i]), Within(p, fs[j])
  PROVE  i = j
<1>1. i \in Int /\ j \in Int
  BY InLayout
<1>2. CASE i < j
  BY <1>2, LayoutOrder, InLayout DEF Within
<1>3. CASE j < i
  BY <1>3, LayoutOrder, InLayout DEF Within
<1> QED BY <1>1, <1>2, <1>3

LEMMA RecordTypes ==
  ASSUME NEW b \in BOOLEAN, NEW e \in BOOLEAN
  PROVE  /\ InLog!RecordType(b, e) \in {"full", "first", "middle", "last"}
         /\ InLog!RecordType(b, e) = "full" <=> b /\ e
         /\ InLog!RecordType(b, e) = "first" <=> b /\ ~e
         /\ InLog!RecordType(b, e) = "middle" <=> ~b /\ ~e
         /\ InLog!RecordType(b, e) = "last" <=> ~b /\ e
BY DEF InLog!RecordType

LEMMA PayloadIs ==
  ASSUME NEW r \in Nat, NEW x \in Nat, NEW y \in Nat, x <= y
  PROVE  /\ InLog!Payload(r, x, y) \in Payloads /\ Len(InLog!Payload(r, x, y)) = y - x
         /\ \A i \in 1 .. y - x : InLog!Payload(r, x, y)[i] = <<r, x + i>>
<1>1. y - x \in Nat
  OBVIOUS
<1>2. \A i \in 1 .. y - x : <<r, x + i>> \in Nat \X Nat
  OBVIOUS
<1>3. InLog!Payload(r, x, y) \in [1 .. y - x -> Nat \X Nat]
  BY <1>2 DEF InLog!Payload
<1> QED BY <1>1, <1>3 DEF InLog!Payload, Payloads

LEMMA PayloadsJoin ==
  ASSUME NEW r \in Nat, NEW x \in Nat, NEW y \in Nat, x <= y
  PROVE  InLog!Payload(r, 0, x) \o InLog!Payload(r, x, y) = InLog!Payload(r, 0, y)
<1> DEFINE a == InLog!Payload(r, 0, x)
           b == InLog!Payload(r, x, y)
           c == InLog!Payload(r, 0, y)
<1>1. /\ a \in Payloads /\ Len(a) = x /\ \A i \in 1 .. x : a[i] = <<r, i>>
      /\ b \in Payloads /\ Len(b) = y - x /\ \A i \in 1 .. y - x : b[i] = <<r, x + i>>
      /\ c \in Payloads /\ Len(c) = y /\ \A i \in 1 .. y : c[i] = <<r, i>>
  <2>0. PICK z \in Nat : z = 0
    OBVIOUS
  <2>1. /\ InLog!Payload(r, z, x) \in Payloads /\ Len(InLog!Payload(r, z, x)) = x - z
        /\ \A i \in 1 .. x - z : InLog!Payload(r, z, x)[i] = <<r, z + i>>
        /\ InLog!Payload(r, z, y) \in Payloads /\ Len(InLog!Payload(r, z, y)) = y - z
        /\ \A i \in 1 .. y - z : InLog!Payload(r, z, y)[i] = <<r, z + i>>
    <3>1. z <= x /\ z <= y
      BY <2>0
    <3> QED BY <3>1, PayloadIs
  <2>2. b \in Payloads /\ Len(b) = y - x /\ \A i \in 1 .. y - x : b[i] = <<r, x + i>>
    BY PayloadIs
  <2>3. a = InLog!Payload(r, z, x) /\ c = InLog!Payload(r, z, y)
    BY <2>0
  <2>4. x - z = x /\ y - z = y /\ \A i \in Int : z + i = i
    BY <2>0
  <2> HIDE DEF a, b, c
  <2> QED BY <2>1, <2>2, <2>3, <2>4
<1> HIDE DEF a, b, c
<1>2. a \o b \in Payloads /\ Len(a \o b) = y
  <2>1. a \o b \in Payloads /\ Len(a \o b) = Len(a) + Len(b)
    BY <1>1, Joined DEF Payloads
  <2> QED BY <2>1, <1>1
<1>3. ASSUME NEW i \in 1 .. y PROVE (a \o b)[i] = c[i]
  <2>1. CASE i <= x
    <3>1. i \in 1 .. x
      BY <2>1
    <3>2. (a \o b)[i] = a[i]
      BY <3>1, <1>1, Joined DEF Payloads
    <3> QED BY <3>1, <3>2, <1>1
  <2>2. CASE ~(i <= x)
    <3>1. i - x \in 1 .. y - x /\ x + (i - x) = i
      BY <2>2
    <3>2. (a \o b)[i] = b[i - x]
      <4>1. i \in Int /\ i \in 1 .. Len(a) + Len(b) /\ ~(i <= Len(a))
        BY <2>2, <1>1
      <4>2. a \in Seq(Nat \X Nat) /\ b \in Seq(Nat \X Nat) /\ Len(a) = x
        BY <1>1 DEF Payloads
      <4>3. (a \o b)[i] = b[i - Len(a)]
        BY ONLY <4>1, <4>2, Joined
      <4> QED BY <4>2, <4>3
    <3> QED BY <3>1, <3>2, <1>1
  <2> QED BY <2>1, <2>2
<1>4. a \o b = c
  BY <1>1, <1>2, <1>3, SeqEqual DEF Payloads
<1> QED BY <1>4 DEF a, b, c

LEMMA CellsAre ==
  ASSUME NEW f \in Fragment, FragmentRight(f)
  PROVE  /\ \A c \in 1 .. FullSize(f) : CellOf(f, c) \in LogCell
         /\ InLog!EmitPhysicalRecord(TypeOf(f), DataOf(f)) = [c \in 1 .. FullSize(f) |-> CellOf(f, c)]
         /\ DataOf(f) \in Payloads /\ Len(DataOf(f)) = f.to - f.from
         /\ TypeOf(f) \in {"full", "first", "middle", "last"}
<1> DEFINE data == DataOf(f)
           type == TypeOf(f)
           n == f.to - f.from
           e == InLog!EmitPhysicalRecord(type, data)
           head == <<InLog!Cell("head", type, data)>>
           rest == [i \in 1 .. HeaderSize - 1 |-> InLog!Cell("rest", type, data)]
           body == [i \in DOMAIN data |-> InLog!Cell("data", "", data[i])]
<1>1. f.rec \in Nat /\ f.from \in Nat /\ f.to \in Nat /\ f.from <= f.to /\ n \in Nat
  BY DEF Fragment, FragmentRight
<1>2. data \in Payloads /\ Len(data) = n /\ \A i \in 1 .. n : data[i] = <<f.rec, f.from + i>>
  BY <1>1, PayloadIs DEF DataOf
<1>3. type \in {"full", "first", "middle", "last"}
  BY RecordTypes DEF TypeOf, Fragment
<1>4. ASSUME NEW c \in 1 .. FullSize(f) PROVE CellOf(f, c) \in LogCell
  <2>1. ASSUME NEW k \in {"head", "rest"} PROVE InLog!Cell(k, type, data) \in LogCell
    BY <1>2, <1>3 DEF InLog!Cell, LogCell
  <2>2. CASE c <= HeaderSize
    BY <2>1, <2>2 DEF CellOf
  <2>3. CASE ~(c <= HeaderSize)
    <3>1. c \in Int /\ HeaderSize \in Nat /\ c # 1 /\ f.from + (c - HeaderSize) \in Nat
      BY <2>3, <1>1, LogConstants DEF FullSize
    <3>2. <<f.rec, f.from + (c - HeaderSize)>> \in Nat \X Nat
      BY <3>1, <1>1
    <3> QED BY <3>1, <3>2, <2>3 DEF CellOf, InLog!Cell, LogCell
  <2> QED BY <2>2, <2>3
<1>5. e = [c \in 1 .. FullSize(f) |-> CellOf(f, c)]
  <2>1. e = (head \o rest) \o body
    BY DEF InLog!EmitPhysicalRecord
  <2>2. DOMAIN data = 1 .. n
    BY <1>2 DEF Payloads
  <2> DEFINE U == {InLog!Cell("head", type, data), InLog!Cell("rest", type, data)}
                    \cup {InLog!Cell("data", "", data[i]) : i \in 1 .. n}
  <2>3. /\ head \in Seq(U) /\ Len(head) = 1
        /\ rest \in Seq(U) /\ Len(rest) = HeaderSize - 1
        /\ body \in Seq(U) /\ Len(body) = n
    <3>1. HeaderSize - 1 \in Nat
      BY LogConstants
    <3>2. rest \in [1 .. HeaderSize - 1 -> U] /\ body \in [1 .. n -> U]
      BY <2>2
    <3>3. head \in Seq(U) /\ Len(head) = 1
      OBVIOUS
    <3> HIDE DEF U, head, rest, body
    <3>4. rest \in Seq(U) /\ Len(rest) = HeaderSize - 1
      BY <3>1, <3>2, FunctionIsSeq
    <3>5. body \in Seq(U) /\ Len(body) = n
      BY <1>1, <3>2, FunctionIsSeq
    <3> QED BY <3>3, <3>4, <3>5
  <2>5. /\ \A i \in 1 .. HeaderSize - 1 : rest[i] = InLog!Cell("rest", type, data)
        /\ \A i \in 1 .. n : body[i] = InLog!Cell("data", "", data[i])
        /\ head[1] = InLog!Cell("head", type, data)
    BY <2>2
  <2> HIDE DEF head, rest, body, U
  <2>6. head \o rest \in Seq(U) /\ Len(head \o rest) = HeaderSize
    <3>1. head \o rest \in Seq(U) /\ Len(head \o rest) = Len(head) + Len(rest)
      BY <2>3, Joined
    <3> QED BY <3>1, <2>3, LogConstants
  <2>7. e \in Seq(U) /\ Len(e) = HeaderSize + n
    <3>1. /\ (head \o rest) \o body \in Seq(U)
          /\ Len((head \o rest) \o body) = Len(head \o rest) + Len(body)
      BY <2>3, <2>6, Joined
    <3> QED BY <3>1, <2>1, <2>3, <2>6
  <2>8. FullSize(f) = HeaderSize + n
    BY DEF FullSize
  <2>9. ASSUME NEW c \in 1 .. HeaderSize + n PROVE e[c] = CellOf(f, c)
    <3>1. CASE c = 1
      <4>1. e[c] = head[1]
        <5>1. 1 \in 1 .. HeaderSize /\ 1 \in 1 .. 1
          BY LogConstants
        <5>2. e[1] = (head \o rest)[1] /\ (head \o rest)[1] = head[1]
          BY <5>1, <2>1, <2>3, <2>6, Joined
        <5> QED BY <3>1, <5>2
      <4> QED BY <3>1, <4>1, <2>5 DEF CellOf
    <3>2. CASE c # 1 /\ c <= HeaderSize
      <4>1. c - 1 \in 1 .. HeaderSize - 1
        BY <3>2, LogConstants
      <4>2. e[c] = rest[c - 1]
        <5>1. /\ c \in 1 .. HeaderSize /\ c \in Int
              /\ c \in 1 .. 1 + (HeaderSize - 1) /\ ~(c <= 1)
          BY <3>2, LogConstants
        <5>2. e[c] = (head \o rest)[c]
          BY <5>1, <2>1, <2>3, <2>6, Joined
        <5>3. (head \o rest)[c] = rest[c - 1]
          <6>1. /\ c \in 1 .. Len(head) + Len(rest)
                /\ ~(c <= Len(head)) /\ c - Len(head) = c - 1
            BY <5>1, <2>3, LogConstants
          <6>2. (head \o rest)[c] = rest[c - Len(head)]
            BY <6>1, <5>1, <2>3, Joined
          <6> QED BY <6>1, <6>2
        <5> QED BY <5>2, <5>3
      <4> QED BY <3>2, <4>1, <4>2, <2>5 DEF CellOf
    <3>3. CASE ~(c <= HeaderSize)
      <4>1. c - HeaderSize \in 1 .. n /\ c # 1
        BY <3>3, <1>1, LogConstants
      <4>2. e[c] = body[c - HeaderSize]
        BY <3>3, <2>1, <2>3, <2>6, Joined
      <4>3. e[c] = InLog!Cell("data", "", <<f.rec, f.from + (c - HeaderSize)>>)
        BY <4>1, <4>2, <2>5, <1>2
      <4> QED BY <3>3, <4>1, <4>3 DEF CellOf
    <3> QED BY <3>1, <3>2, <3>3
  <2>10. e = [c \in 1 .. HeaderSize + n |-> e[c]]
    BY <2>7
  <2> HIDE DEF e, n
  <2> QED BY <2>8, <2>9, <2>10
<1> QED BY <1>2, <1>3, <1>4, <1>5

(* FlattenSeq.                                                             *)
Prefixes(s, g) ==
  /\ g[0] = <<>>
  /\ \A i \in 1 .. Len(s) : g[i] = g[i - 1] \o s[i]

LEMMA PrefixesExist ==
  ASSUME NEW S, NEW s \in Seq(Seq(S))
  PROVE  \E g \in [0 .. Len(s) -> Seq(S)] : Prefixes(s, g)
<1> DEFINE n == Len(s)
           Exists(k) == \E g \in [0 .. k -> Seq(S)] :
                          g[0] = <<>> /\ \A i \in 1 .. k : g[i] = g[i - 1] \o s[i]
           Bad == {k \in 0 .. n : ~Exists(k)}
<1>1. n \in Nat /\ \A i \in 1 .. n : s[i] \in Seq(S)
  OBVIOUS
<1>2. Exists(0)
  <2> DEFINE g == [i \in 0 .. 0 |-> <<>>]
  <2>1. g \in [0 .. 0 -> Seq(S)] /\ g[0] = <<>> /\ \A i \in 1 .. 0 : FALSE
    OBVIOUS
  <2> QED BY <2>1
<1>3. Bad = {}
  <2> SUFFICES ASSUME Bad # {} PROVE FALSE
    OBVIOUS
  <2>1. Bad \in SUBSET (0 .. n)
    OBVIOUS
  <2> HIDE DEF Exists
  <2>2. PICK m \in Bad : \A k \in Bad : m <= k
    BY <2>1, <1>1, LeastOf
  <2>3. m \in 0 .. n /\ ~Exists(m) /\ m # 0
    BY <1>2
  <2>4. m - 1 \in 0 .. n /\ m - 1 < m
    BY <2>3, <1>1
  <2>5. Exists(m - 1)
    BY <2>2, <2>3, <2>4
  <2>6. PICK g \in [0 .. m - 1 -> Seq(S)] :
           g[0] = <<>> /\ \A i \in 1 .. m - 1 : g[i] = g[i - 1] \o s[i]
    BY <2>5 DEF Exists
  <2> DEFINE h == [i \in 0 .. m |-> IF i = m THEN g[m - 1] \o s[m] ELSE g[i]]
  <2>7. g[m - 1] \o s[m] \in Seq(S)
    <3>1. g[m - 1] \in Seq(S) /\ s[m] \in Seq(S)
      BY <2>3, <2>4, <2>6, <1>1
    <3> QED BY <3>1, Joined
  <2>8. h \in [0 .. m -> Seq(S)] /\ h[0] = <<>>
    <3>1. \A i \in 0 .. m : i # m => i \in 0 .. m - 1
      BY <2>3
    <3> QED BY <2>3, <2>6, <2>7, <3>1
  <2>9. \A i \in 1 .. m : h[i] = h[i - 1] \o s[i]
    <3> SUFFICES ASSUME NEW i \in 1 .. m PROVE h[i] = h[i - 1] \o s[i]
      OBVIOUS
    <3>1. i - 1 \in 0 .. m /\ i - 1 # m /\ i \in 0 .. m
      BY <2>3
    <3>2. h[i - 1] = g[i - 1]
      BY <3>1
    <3>3. CASE i = m
      BY <3>1, <3>2, <3>3
    <3>4. CASE i # m
      <4>1. i \in 1 .. m - 1
        BY <3>4, <2>3
      <4> QED BY <4>1, <3>1, <3>2, <3>4, <2>6
    <3> QED BY <3>3, <3>4
  <2>10. Exists(m)
    BY <2>8, <2>9 DEF Exists
  <2> QED BY <2>10, <2>3
<1> HIDE DEF Exists
<1>4. Exists(n)
  BY <1>1, <1>3
<1> QED BY <1>4 DEF Exists, Prefixes

LEMMA FlattenIs ==
  ASSUME NEW S, NEW s \in Seq(Seq(S)), Len(s) # 0,
         NEW g \in [0 .. Len(s) -> Seq(S)], Prefixes(s, g)
  PROVE  InLog!FlattenSeq(s) = g[Len(s)]
<1> DEFINE n == Len(s)
           body(f) == [i \in 1 .. n |-> IF i = 1 THEN s[i] ELSE f[i - 1] \o s[i]]
           fl == CHOOSE f : f = body(f)
           h == [i \in 1 .. n |-> g[i]]
<1>1. n \in Nat /\ \A i \in 1 .. n : s[i] \in Seq(S)
  OBVIOUS
<1>2. h = body(h)
  <2>1. ASSUME NEW i \in 1 .. n
        PROVE  g[i] = IF i = 1 THEN s[i] ELSE h[i - 1] \o s[i]
    <3>1. CASE i = 1
      <4>1. g[1] = g[0] \o s[1] /\ g[0] = <<>> /\ s[1] \in Seq(S)
        <5>1. 1 \in 1 .. Len(s) /\ 1 - 1 = 0
          BY <3>1
        <5>2. \A j \in 1 .. Len(s) : g[j] = g[j - 1] \o s[j]
          BY DEF Prefixes
        <5>3. g[1] = g[0] \o s[1]
          BY <5>1, <5>2
        <5> QED BY <5>1, <5>3, <1>1 DEF Prefixes
      <4>2. <<>> \o s[1] = s[1]
        BY <4>1, ConcatEmptySeq
      <4> QED BY <3>1, <4>1, <4>2
    <3>2. CASE i # 1
      <4>1. i - 1 \in 1 .. n
        BY <3>2, <1>1
      <4> QED BY <3>2, <4>1 DEF Prefixes
    <3> QED BY <3>1, <3>2
  <2> HIDE DEF n
  <2> QED BY <2>1
<1>3. fl = body(fl)
  <2> HIDE DEF h, n
  <2> DEFINE P(f) == f = body(f)
  <2>1. P(h)
    BY <1>2
  <2> HIDE DEF P
  <2>2. P(CHOOSE f : P(f))
    BY <2>1, Zenon
  <2> QED BY <2>2, Zenon DEF P
<1>4. InLog!FlattenSeq(s) = fl[n]
  BY Zenon DEF InLog!FlattenSeq
<1>5. \A i \in 1 .. n : fl[i] = h[i]
  <2> HIDE DEF fl, h
  <2> DEFINE Bad == {k \in 1 .. n : fl[k] # h[k]}
  <2> SUFFICES ASSUME Bad # {} PROVE FALSE
    OBVIOUS
  <2>1. Bad \in SUBSET (0 .. n)
    BY <1>1
  <2>2. PICK m \in Bad : \A k \in Bad : m <= k
    BY <2>1, <1>1, LeastOf
  <2>3. m \in 1 .. n /\ fl[m] # h[m]
    OBVIOUS
  <2>4. /\ fl[m] = IF m = 1 THEN s[m] ELSE fl[m - 1] \o s[m]
        /\ h[m] = IF m = 1 THEN s[m] ELSE h[m - 1] \o s[m]
    <3> HIDE DEF n
    <3>1. body(fl)[m] = IF m = 1 THEN s[m] ELSE fl[m - 1] \o s[m]
      BY <2>3
    <3>2. body(h)[m] = IF m = 1 THEN s[m] ELSE h[m - 1] \o s[m]
      BY <2>3
    <3> HIDE DEF body
    <3> QED BY <1>2, <1>3, <3>1, <3>2
  <2>5. m # 1
    BY <2>3, <2>4
  <2>6. m - 1 \in 1 .. n /\ m - 1 < m
    BY <2>3, <2>5, <1>1
  <2>7. m - 1 \notin Bad
    BY <2>2, <2>3, <2>6
  <2>8. fl[m - 1] = h[m - 1]
    BY <2>6, <2>7
  <2> QED BY <2>3, <2>4, <2>5, <2>8
<1>6. n \in 1 .. n
  BY <1>1
<1> QED BY <1>4, <1>5, <1>6

(* What is flattened, cell by cell: the place p[i] is where piece i ends.  *)
Places(s, p) ==
  /\ p \in [0 .. Len(s) -> Nat] /\ p[0] = 0
  /\ \A i \in 1 .. Len(s) : p[i] = p[i - 1] + Len(s[i])

LEMMA Flattened ==
  ASSUME NEW S, NEW s \in Seq(Seq(S)), NEW p, Places(s, p)
  PROVE  /\ InLog!FlattenSeq(s) \in Seq(S) /\ Len(InLog!FlattenSeq(s)) = p[Len(s)]
         /\ \A i \in 1 .. Len(s) : \A c \in 1 .. Len(s[i]) : InLog!FlattenSeq(s)[p[i - 1] + c] = s[i][c]
         /\ \A q \in 1 .. p[Len(s)] : \E i \in 1 .. Len(s) : p[i - 1] < q /\ q <= p[i]
<1> DEFINE n == Len(s)
<1>1. /\ n \in Nat /\ \A i \in 1 .. n : s[i] \in Seq(S) /\ Len(s[i]) \in Nat
      /\ \A i \in 1 .. n : i \in 0 .. n /\ i - 1 \in 0 .. n
      /\ \A i \in 0 .. n : p[i] \in Nat
      /\ p[0] = 0 /\ \A i \in 1 .. n : p[i] = p[i - 1] + Len(s[i])
  <2>1. n \in Nat /\ \A i \in 1 .. n : s[i] \in Seq(S)
    OBVIOUS
  <2>2. \A t \in Seq(S) : Len(t) \in Nat
    OBVIOUS
  <2>3. \A i \in 1 .. n : i \in 0 .. n /\ i - 1 \in 0 .. n
    BY <2>1
  <2>4. /\ \A i \in 0 .. n : p[i] \in Nat
        /\ p[0] = 0 /\ \A i \in 1 .. n : p[i] = p[i - 1] + Len(s[i])
    BY DEF Places
  <2> QED BY <2>1, <2>2, <2>3, <2>4
<1>2. PICK g \in [0 .. n -> Seq(S)] : Prefixes(s, g)
  BY PrefixesExist
<1>3. /\ \A i \in 0 .. n : g[i] \in Seq(S)
      /\ g[0] = <<>> /\ \A i \in 1 .. n : g[i] = g[i - 1] \o s[i]
  BY <1>2 DEF Prefixes
<1> DEFINE Right(k) ==
             /\ Len(g[k]) = p[k]
             /\ \A i \in 1 .. k : \A c \in 1 .. Len(s[i]) : g[k][p[i - 1] + c] = s[i][c]
             /\ \A i \in 1 .. k : p[i] <= p[k]
             /\ \A q \in 1 .. p[k] : \E i \in 1 .. k : p[i - 1] < q /\ q <= p[i]
           Bad == {k \in 0 .. n : ~Right(k)}
<1>4. Right(0)
  <2>1. Len(g[0]) = p[0] /\ 1 .. p[0] = {} /\ 1 .. 0 = {}
    BY <1>1, <1>3
  <2> QED BY <2>1
<1>5. Bad = {}
  <2> SUFFICES ASSUME Bad # {} PROVE FALSE
    OBVIOUS
  <2>1. Bad \in SUBSET (0 .. n)
    OBVIOUS
  <2> HIDE DEF Right, n
  <2>2. PICK m \in Bad : \A k \in Bad : m <= k
    BY <2>1, <1>1, LeastOf
  <2>3. m \in 1 .. n /\ ~Right(m)
    BY <1>4
  <2>4. m - 1 \in 0 .. n /\ m - 1 < m
    BY <2>3, <1>1
  <2>5. Right(m - 1)
    BY <2>2, <2>3, <2>4
  <2> DEFINE a == g[m - 1]
             b == s[m]
  <2>6. /\ a \in Seq(S) /\ b \in Seq(S) /\ g[m] = a \o b
        /\ p[m - 1] \in Nat /\ p[m] \in Nat /\ Len(b) \in Nat /\ p[m] = p[m - 1] + Len(b)
        /\ \A i \in 1 .. m - 1 : p[i] \in Nat /\ p[i - 1] \in Nat /\ Len(s[i]) \in Nat
        /\ \A i \in 1 .. m - 1 : p[i] = p[i - 1] + Len(s[i])
    <3>1. m \in 1 .. n /\ m \in 0 .. n /\ m - 1 \in 0 .. n
      BY <2>3, <2>4, <1>1
    <3>2. \A i \in 1 .. m - 1 : i \in 1 .. n
      BY <3>1, <1>1
    <3>3. \A i \in 1 .. n : p[i] \in Nat /\ p[i - 1] \in Nat
      BY <1>1
    <3> QED BY <3>1, <3>2, <3>3, <1>1, <1>3
  <2>7. Len(a) = p[m - 1]
    BY <2>5 DEF Right
  <2> HIDE DEF a, b
  <2>8. Len(a \o b) = p[m]
    <3>1. Len(a \o b) = Len(a) + Len(b)
      BY <2>6, Joined
    <3> QED BY <3>1, <2>6, <2>7
  <2>9. ASSUME NEW i \in 1 .. m, NEW c \in 1 .. Len(s[i])
        PROVE  (a \o b)[p[i - 1] + c] = s[i][c]
    <3>1. CASE i = m
      <4>1. c \in 1 .. Len(b) /\ s[i] = b
        BY <3>1 DEF b
      <4>2. (a \o b)[Len(a) + c] = b[c]
        <5>1. \A d \in 1 .. Len(b) : (a \o b)[Len(a) + d] = b[d]
          <6>1. a \in Seq(S) /\ b \in Seq(S)
            BY <2>6
          <6> HIDE DEF n
          <6> QED BY ONLY <6>1, Joined
        <5> QED BY <4>1, <5>1
      <4> QED BY <3>1, <4>1, <4>2, <2>7
    <3>2. CASE i # m
      <4>1. i \in 1 .. m - 1
        BY <3>2, <2>3
      <4>2. a[p[i - 1] + c] = s[i][c] /\ p[i] <= p[m - 1]
        BY <4>1, <2>5 DEF Right, a
      <4>3. /\ p[i] \in Nat /\ p[i - 1] \in Nat
            /\ p[i] = p[i - 1] + Len(s[i]) /\ Len(s[i]) \in Nat
        BY <4>1, <2>6
      <4>4. p[i - 1] + c \in 1 .. Len(a)
        <5>1. p[i - 1] + c \in Nat /\ 1 <= p[i - 1] + c /\ p[i - 1] + c <= p[i]
          <6>1. c \in Nat /\ 1 <= c /\ c <= Len(s[i])
            BY <4>3, <2>9
          <6> QED BY ONLY <4>3, <6>1
        <5>0. p[m - 1] \in Nat /\ p[i] \in Nat /\ p[i] <= p[m - 1]
          BY <2>6, <4>2, <4>3
        <5>2. p[i - 1] + c <= p[m - 1]
          BY <5>0, <5>1
        <5>3. Len(a) \in Nat /\ p[i - 1] + c <= Len(a)
          BY <5>0, <5>2, <2>7
        <5> QED BY <5>1, <5>3
      <4> QED BY <4>2, <4>4, <2>6, Joined
    <3> QED BY <3>1, <3>2
  <2>10. \A i \in 1 .. m : p[i] <= p[m]
    <3> SUFFICES ASSUME NEW i \in 1 .. m PROVE p[i] <= p[m]
      OBVIOUS
    <3>1. CASE i = m
      BY <3>1, <2>6
    <3>2. CASE i # m
      <4>1. i \in 1 .. m - 1
        BY <3>2, <2>3
      <4>2. p[i] <= p[m - 1] /\ p[i] \in Nat
        BY <4>1, <2>5, <2>6 DEF Right
      <4> QED BY <4>2, <2>6
    <3> QED BY <3>1, <3>2
  <2>11. ASSUME NEW q \in 1 .. p[m]
         PROVE  \E i \in 1 .. m : p[i - 1] < q /\ q <= p[i]
    <3>1. CASE q <= p[m - 1]
      <4>1. q \in 1 .. p[m - 1]
        BY <3>1, <2>6
      <4>2. PICK i \in 1 .. m - 1 : p[i - 1] < q /\ q <= p[i]
        BY <4>1, <2>5 DEF Right
      <4>3. i \in 1 .. m
        BY <2>3
      <4> QED BY <4>2, <4>3
    <3>2. CASE ~(q <= p[m - 1])
      <4>1. p[m - 1] < q /\ q <= p[m] /\ m \in 1 .. m
        BY <3>2, <2>6, <2>3
      <4> QED BY <4>1
    <3> QED BY <3>1, <3>2
  <2>12. Right(m)
    BY <2>6, <2>8, <2>9, <2>10, <2>11 DEF Right
  <2> QED BY <2>12, <2>3
<1> HIDE DEF Right
<1>6. n \in 0 .. n
  BY <1>1
<1>7. Right(n)
  BY <1>5, <1>6
<1>8. InLog!FlattenSeq(s) = g[n]
  <2>1. CASE n = 0
    <3>1. InLog!FlattenSeq(s) = s
      BY <2>1 DEF InLog!FlattenSeq
    <3>2. s = <<>>
      BY <2>1
    <3> QED BY <2>1, <3>1, <3>2, <1>3
  <2>2. CASE n # 0
    BY <2>2, <1>2, FlattenIs
  <2> QED BY <2>1, <2>2
<1> QED BY <1>3, <1>6, <1>7, <1>8 DEF Right

LEMMA PlacesExist ==
  ASSUME NEW S, NEW s \in Seq(Seq(S))
  PROVE  \E p : Places(s, p)
<1>1. PICK g \in [0 .. Len(s) -> Seq(S)] : Prefixes(s, g)
  BY PrefixesExist
<1> DEFINE p == [i \in 0 .. Len(s) |-> Len(g[i])]
<1>2. Len(s) \in Nat /\ \A i \in 1 .. Len(s) : s[i] \in Seq(S)
  OBVIOUS
<1>3. p \in [0 .. Len(s) -> Nat]
  BY <1>2
<1>4. p[0] = 0
  BY <1>1, <1>2 DEF Prefixes
<1>5. ASSUME NEW i \in 1 .. Len(s)
      PROVE  p[i] = p[i - 1] + Len(s[i])
  <2>1. i \in 0 .. Len(s) /\ i - 1 \in 0 .. Len(s)
    BY <1>2
  <2>2. g[i] = g[i - 1] \o s[i] /\ g[i - 1] \in Seq(S) /\ s[i] \in Seq(S)
    BY <1>1, <1>2, <2>1 DEF Prefixes
  <2>3. Len(g[i]) = Len(g[i - 1]) + Len(s[i])
    BY <2>2, Joined
  <2> QED BY <2>1, <2>3
<1> QED BY <1>3, <1>4, <1>5 DEF Places

-----------------------------------------------------------------------------
(* Fragments: the recursion of AddRecord over what is done and where in    *)
(* the block it is.                                                        *)
Points(n) == [done : 0 .. n, at : 0 .. BlockSize, begin : BOOLEAN]
Switches(x) == BlockSize - x < HeaderSize
StartOf(x) == IF Switches(x) THEN 0 ELSE x
LengthAt(n, p) == InLog!Lesser(n - p.done, BlockSize - StartOf(p.at) - HeaderSize)
Ends(n, p) == n - p.done = LengthAt(n, p)
AfterPiece(n, p) == StartOf(p.at) + HeaderSize + LengthAt(n, p)
Piece(r, n, p) ==
  [trailer |-> IF Switches(p.at) THEN BlockSize - p.at ELSE 0,
   cells |-> InLog!EmitPhysicalRecord(InLog!RecordType(p.begin, Ends(n, p)),
                                      InLog!Payload(r, p.done, p.done + LengthAt(n, p))),
   after |-> AfterPiece(n, p)]
NextPoint(n, p) ==
  [done |-> p.done + LengthAt(n, p), at |-> AfterPiece(n, p), begin |-> FALSE]
Pieces(r, n, f) ==
  [p \in Points(n) |-> <<Piece(r, n, p)>>
                       \o (IF Ends(n, p) THEN <<>> ELSE f[NextPoint(n, p)])]

LEMMA FragmentsAre ==
  ASSUME NEW r, NEW n, NEW b
  PROVE  InLog!Fragments(r, n, b) = (CHOOSE f : f = Pieces(r, n, f))[[done |-> 0, at |-> b, begin |-> TRUE]]
BY Zenon DEF InLog!Fragments, Pieces, Points, Piece, NextPoint, AfterPiece, Ends,
     LengthAt, StartOf,
             Switches

(* Each piece brings the record on, or only fills the block.               *)
Left(n, p) == 2 * (n - p.done) + IF p.at = BlockSize - HeaderSize THEN 1 ELSE 0

LEMMA PointNext ==
  ASSUME NEW n \in Nat, NEW p \in Points(n)
  PROVE  /\ p.done \in 0 .. n /\ p.at \in 0 .. BlockSize /\ p.begin \in BOOLEAN
         /\ StartOf(p.at) \in 0 .. BlockSize - HeaderSize
         /\ LengthAt(n, p) \in Nat /\ p.done + LengthAt(n, p) \in 0 .. n
         /\ AfterPiece(n, p) \in HeaderSize .. BlockSize
         /\ Left(n, p) \in 0 .. 2 * n + 1
         /\ ~Ends(n, p) => /\ NextPoint(n, p) \in Points(n)
                           /\ Left(n, NextPoint(n, p)) < Left(n, p)
<1>1. p.done \in 0 .. n /\ p.at \in 0 .. BlockSize /\ p.begin \in BOOLEAN
  BY DEF Points
<1>2. StartOf(p.at) \in 0 .. BlockSize - HeaderSize
  BY <1>1, LogConstants DEF StartOf, Switches
<1> DEFINE s == StartOf(p.at)
           l == LengthAt(n, p)
<1>3. /\ l = n - p.done \/ l = BlockSize - s - HeaderSize
      /\ l <= n - p.done /\ l <= BlockSize - s - HeaderSize
  BY <1>1, <1>2, LogConstants DEF LengthAt, InLog!Lesser
<1>4. l \in Nat /\ p.done + l \in 0 .. n
  BY <1>1, <1>2, <1>3, LogConstants
<1>5. AfterPiece(n, p) \in HeaderSize .. BlockSize /\ AfterPiece(n, p) = s + HeaderSize + l
  BY <1>2, <1>3, <1>4, LogConstants DEF AfterPiece
<1>6. Left(n, p) \in 0 .. 2 * n + 1
  BY <1>1 DEF Left
<1>7. ASSUME ~Ends(n, p)
      PROVE  /\ NextPoint(n, p) \in Points(n)
             /\ Left(n, NextPoint(n, p)) < Left(n, p)
  <2>1. NextPoint(n, p) \in Points(n)
    BY <1>4, <1>5, LogConstants DEF NextPoint, Points
  <2>2. l # n - p.done
    BY <1>7 DEF Ends
  <2>3. l = BlockSize - s - HeaderSize
    BY <1>3, <2>2
  <2>4. NextPoint(n, p).done = p.done + l /\ NextPoint(n, p).at = BlockSize
    <3>1. NextPoint(n, p).done = p.done + l /\ NextPoint(n, p).at = AfterPiece(n, p)
      BY DEF NextPoint
    <3>2. s \in Int
      BY <1>2
    <3> HIDE DEF s, l
    <3>3. s + HeaderSize + l = BlockSize
      BY <2>3, <3>2, LogConstants
    <3> QED BY <1>5, <3>1, <3>3
  <2>5. Left(n, NextPoint(n, p)) = 2 * (n - (p.done + l))
    <3>1. BlockSize # BlockSize - HeaderSize /\ n - (p.done + l) \in Int
      BY <1>1, <1>4, LogConstants
    <3> HIDE DEF l
    <3> QED BY <2>4, <3>1 DEF Left
  <2>6. CASE l = 0
    <3>1. s = BlockSize - HeaderSize /\ s # 0
      BY <2>3, <2>6, <1>2, LogConstants
    <3>2. p.at = BlockSize - HeaderSize
      BY <3>1, <1>1 DEF StartOf
    <3>3. Left(n, p) = 2 * (n - p.done) + 1
      BY <3>2 DEF Left
    <3> HIDE DEF l
    <3> QED BY <2>1, <2>5, <2>6, <3>3, <1>1
  <2>7. CASE l # 0
    <3>1. Left(n, p) >= 2 * (n - p.done)
      BY <1>1 DEF Left
    <3> HIDE DEF l
    <3> QED BY <2>1, <2>5, <2>7, <3>1, <1>1, <1>4, <1>6
  <2> QED BY <2>6, <2>7
<1> QED BY <1>1, <1>2, <1>4, <1>5, <1>6, <1>7

LEMMA FragmentsDefined ==
  ASSUME NEW r, NEW n \in Nat
  PROVE  \E f : f = Pieces(r, n, f)
<1> DEFINE D(k) == {p \in Points(n) : Left(n, p) <= k}
           Step(f, p) == <<Piece(r, n, p)>> \o (IF Ends(n, p) THEN <<>> ELSE f[NextPoint(n, p)])
           Exists(k) == \E f : \A p \in D(k) : f[p] = Step(f, p)
           Bad == {k \in 0 .. 2 * n + 1 : ~Exists(k)}
<1>1. ASSUME NEW p \in Points(n)
      PROVE  /\ Left(n, p) \in 0 .. 2 * n + 1
             /\ ~Ends(n, p) => /\ NextPoint(n, p) \in Points(n)
                               /\ Left(n, NextPoint(n, p)) < Left(n, p)
                               /\ Left(n, NextPoint(n, p)) \in 0 .. 2 * n + 1
  BY PointNext
<1>2. Bad = {}
  <2> SUFFICES ASSUME Bad # {} PROVE FALSE
    OBVIOUS
  <2>1. Bad \in SUBSET (0 .. 2 * n + 1) /\ 2 * n + 1 \in Nat
    OBVIOUS
  <2> HIDE DEF Exists
  <2>2. PICK m \in Bad : \A k \in Bad : m <= k
    BY <2>1, LeastOf
  <2>3. m \in 0 .. 2 * n + 1 /\ ~Exists(m)
    OBVIOUS
  <2>4. \E f : \A p \in D(m - 1) : f[p] = Step(f, p)
    <3>1. CASE m = 0
      <4>1. D(m - 1) = {}
        BY <3>1, <1>1
      <4> QED BY <4>1
    <3>2. CASE m # 0
      <4>1. m - 1 \in 0 .. 2 * n + 1 /\ m - 1 < m
        BY <3>2, <2>3
      <4>2. Exists(m - 1)
        BY <4>1, <2>2, <2>3
      <4> QED BY <4>2 DEF Exists
    <3> QED BY <3>1, <3>2
  <2>5. PICK f : \A p \in D(m - 1) : f[p] = Step(f, p)
    BY <2>4
  <2> DEFINE g == [p \in D(m) |-> Step(f, p)]
  <2>6. ASSUME NEW p \in D(m) PROVE g[p] = Step(g, p)
    <3>1. g[p] = Step(f, p)
      OBVIOUS
    <3>2. CASE Ends(n, p)
      BY <3>1, <3>2
    <3>3. CASE ~Ends(n, p)
      <4> DEFINE q == NextPoint(n, p)
      <4>1. q \in D(m) /\ q \in D(m - 1)
        BY <3>3, <1>1, <2>3
      <4>2. g[q] = Step(f, q) /\ f[q] = Step(f, q)
        BY <4>1, <2>5
      <4>3. g[q] = f[q]
        BY <4>2
      <4> HIDE DEF g
      <4> QED BY <3>1, <3>3, <4>3
    <3> QED BY <3>2, <3>3
  <2>7. Exists(m)
    <3> HIDE DEF g, Step, D
    <3> QED BY <2>6 DEF Exists
  <2> QED BY <2>3, <2>7
<1> HIDE DEF Exists
<1>3. Exists(2 * n + 1)
  <2>1. 2 * n + 1 \in 0 .. 2 * n + 1
    OBVIOUS
  <2> QED BY <2>1, <1>2
<1>4. PICK f : \A p \in D(2 * n + 1) : f[p] = Step(f, p)
  BY <1>3 DEF Exists
<1>5. D(2 * n + 1) = Points(n)
  BY <1>1
<1> DEFINE g == [p \in Points(n) |-> f[p]]
<1>6. ASSUME NEW p \in Points(n) PROVE g[p] = Step(g, p)
  <2>1. f[p] = Step(f, p) /\ g[p] = f[p]
    BY <1>4, <1>5
  <2>2. ~Ends(n, p) => g[NextPoint(n, p)] = f[NextPoint(n, p)]
    BY <1>1
  <2> HIDE DEF g
  <2> QED BY <2>1, <2>2
<1>7. g = [p \in Points(n) |-> Step(g, p)]
  <2>1. g = [p \in Points(n) |-> g[p]]
    OBVIOUS
  <2> HIDE DEF g, Step
  <2> QED BY <2>1, <1>6
<1>8. g = Pieces(r, n, g)
  <2> HIDE DEF g
  <2> QED BY <1>7, Zenon DEF Pieces
<1> QED BY <1>8

(* The points from where each piece is cut.                                *)
Path(n, p, q) ==
  /\ q \in Seq(Points(n)) /\ Len(q) # 0 /\ q[1] = p /\ Ends(n, q[Len(q)])
  /\ \A i \in 1 .. Len(q) - 1 : ~Ends(n, q[i]) /\ q[i + 1] = NextPoint(n, q[i])
Cut(r, n, q) == [i \in 1 .. Len(q) |-> Piece(r, n, q[i])]

LEMMA PathExists ==
  ASSUME NEW r, NEW n \in Nat, NEW f, f = Pieces(r, n, f), NEW p \in Points(n)
  PROVE  \E q : Path(n, p, q) /\ f[p] = Cut(r, n, q)
<1> DEFINE Right(x) == \E q : Path(n, x, q) /\ f[x] = Cut(r, n, q)
           Wrong(k) == \E x \in Points(n) : Left(n, x) = k /\ ~Right(x)
           Bad == {k \in 0 .. 2 * n + 1 : Wrong(k)}
           P == Points(n)
           U == {Piece(r, n, x) : x \in P}
<1>1. ASSUME NEW x \in Points(n)
      PROVE  /\ Left(n, x) \in 0 .. 2 * n + 1
             /\ ~Ends(n, x) => /\ NextPoint(n, x) \in Points(n)
                               /\ Left(n, NextPoint(n, x)) < Left(n, x)
  BY PointNext
<1>2. ASSUME NEW x \in Points(n)
      PROVE  f[x] = <<Piece(r, n, x)>> \o (IF Ends(n, x) THEN <<>> ELSE f[NextPoint(n, x)])
  <2> DEFINE h == Pieces(r, n, f)
  <2>1. h[x] = <<Piece(r, n, x)>> \o (IF Ends(n, x) THEN <<>> ELSE f[NextPoint(n, x)])
    BY DEF Pieces
  <2>2. f = h
    OBVIOUS
  <2> HIDE DEF h
  <2> QED BY <2>1, <2>2
<1>3. Bad = {}
  <2> SUFFICES ASSUME Bad # {} PROVE FALSE
    OBVIOUS
  <2>1. Bad \in SUBSET (0 .. 2 * n + 1) /\ 2 * n + 1 \in Nat
    OBVIOUS
  <2> HIDE DEF Wrong
  <2>2. PICK m \in Bad : \A k \in Bad : m <= k
    BY <2>1, LeastOf
  <2>3. PICK x \in Points(n) : Left(n, x) = m /\ ~Right(x)
    BY <2>2 DEF Wrong
  <2> HIDE DEF Right
  <2>4. CASE Ends(n, x)
    <3> DEFINE q == <<x>>
    <3>1. q \in Seq(P) /\ Len(q) = 1 /\ q[1] = x
      OBVIOUS
    <3>2. Path(n, x, q)
      <4>1. 1 .. Len(q) - 1 = {}
        BY <3>1
      <4> QED BY <2>4, <3>1, <4>1 DEF Path
    <3>3. f[x] = <<Piece(r, n, x)>>
      <4> DEFINE a == <<Piece(r, n, x)>>
      <4>1. f[x] = a \o <<>>
        BY <1>2, <2>4, Zenon
      <4>2. a \in Seq({Piece(r, n, x)})
        OBVIOUS
      <4> HIDE DEF a
      <4>3. a \o <<>> = a
        BY <4>2, ConcatEmptySeq
      <4> QED BY <4>1, <4>3 DEF a
    <3>4. Cut(r, n, q) = <<Piece(r, n, x)>>
      <4>1. 1 .. Len(q) = {1}
        BY <3>1
      <4>2. Cut(r, n, q) = [i \in {1} |-> Piece(r, n, q[i])]
        BY <4>1 DEF Cut
      <4>3. Cut(r, n, q) = [i \in {1} |-> Piece(r, n, x)]
        BY <4>2, <3>1
      <4>4. <<Piece(r, n, x)>> = [i \in {1} |-> Piece(r, n, x)]
        OBVIOUS
      <4> QED BY <4>3, <4>4
    <3> QED BY <2>3, <3>2, <3>3, <3>4 DEF Right
  <2>5. CASE ~Ends(n, x)
    <3> DEFINE y == NextPoint(n, x)
    <3>1. y \in Points(n) /\ Left(n, y) < m /\ Left(n, y) \in 0 .. 2 * n + 1
      BY <1>1, <2>3, <2>5
    <3>2. Right(y)
      <4>1. m \in Nat
        BY <2>2
      <4>2. Left(n, y) \notin Bad
        BY <3>1, <2>2, <4>1
      <4>3. ~Wrong(Left(n, y))
        BY <4>2, <3>1
      <4> QED BY <4>3, <3>1 DEF Wrong
    <3>3. PICK q : Path(n, y, q) /\ f[y] = Cut(r, n, q)
      BY <3>2 DEF Right
    <3> DEFINE s == <<x>>
               t == s \o q
               k == Len(q)
    <3>4. /\ s \in Seq(P) /\ Len(s) = 1 /\ s[1] = x
          /\ q \in Seq(P) /\ k \in Nat /\ k # 0 /\ q[1] = y /\ Ends(n, q[k])
          /\ \A i \in 1 .. k - 1 : ~Ends(n, q[i]) /\ q[i + 1] = NextPoint(n, q[i])
      BY <3>3 DEF Path
    <3> HIDE DEF s, t, P
    <3>5. /\ t \in Seq(P) /\ Len(t) = 1 + k /\ \A i \in 1 .. k : t[1 + i] = q[i]
          /\ t[1] = x
      <4>1. /\ s \o q \in Seq(P) /\ Len(s \o q) = Len(s) + Len(q)
            /\ \A i \in 1 .. Len(s) : (s \o q)[i] = s[i]
            /\ \A i \in 1 .. Len(q) : (s \o q)[Len(s) + i] = q[i]
        <5>1. s \in Seq(P) /\ q \in Seq(P)
          BY <3>4
        <5> QED BY ONLY <5>1, Joined
      <4>2. 1 \in 1 .. Len(s)
        BY <3>4
      <4> QED BY <4>1, <4>2, <3>4 DEF t
    <3> HIDE DEF k
    <3>6. Path(n, x, t)
      <4>0. k \in Nat /\ k # 0 /\ Len(t) = 1 + k
        BY <3>4, <3>5
      <4>1. Ends(n, t[Len(t)])
        <5>1. k \in 1 .. k
          BY <3>4
        <5> QED BY <5>1, <3>4, <3>5
      <4>2. ASSUME NEW i \in 1 .. Len(t) - 1
            PROVE  ~Ends(n, t[i]) /\ t[i + 1] = NextPoint(n, t[i])
        <5>1. CASE i = 1
          <6>1. 1 \in 1 .. k
            BY <4>0
          <6>2. t[1 + 1] = q[1]
            BY <6>1, <3>5
          <6> QED BY <5>1, <6>2, <2>5, <3>4, <3>5
        <5>2. CASE i # 1
          <6>1. i \in 1 .. k /\ i - 1 \in 1 .. k - 1 /\ i - 1 \in 1 .. k
            BY <5>2, <4>0
          <6>2. t[1 + (i - 1)] = q[i - 1] /\ t[1 + i] = q[i]
            BY <6>1, <3>5
          <6>3. 1 + (i - 1) = i /\ 1 + i = i + 1 /\ (i - 1) + 1 = i
            BY <6>1
          <6>4. t[i] = q[i - 1] /\ t[i + 1] = q[(i - 1) + 1]
            BY <6>2, <6>3
          <6> QED BY <6>1, <6>4, <3>4
        <5> QED BY <5>1, <5>2
      <4>3. Len(t) # 0
        BY <3>4, <3>5
      <4> QED BY <3>5, <4>1, <4>2, <4>3 DEF Path, P
    <3>7. f[x] = Cut(r, n, t)
      <4> DEFINE a == <<Piece(r, n, x)>>
                 c == Cut(r, n, q)
                 u == Cut(r, n, t)
      <4>1. f[x] = a \o c
        BY <1>2, <2>5, <3>3
      <4>2. a \in Seq(U) /\ Len(a) = 1 /\ a[1] = Piece(r, n, x)
        BY DEF P
      <4>3. c \in Seq(U) /\ Len(c) = k /\ \A i \in 1 .. k : c[i] = Piece(r, n, q[i])
        <5>1. \A i \in 1 .. k : q[i] \in P
          BY <3>4 DEF k
        <5>2. c \in [1 .. k -> U] /\ \A i \in 1 .. k : c[i] = Piece(r, n, q[i])
          BY <5>1 DEF Cut, k
        <5> HIDE DEF c, U
        <5> QED BY <5>2, <3>4, FunctionIsSeq
      <4>4. u \in Seq(U) /\ Len(u) = 1 + k /\ \A i \in 1 .. 1 + k : u[i] = Piece(r, n, t[i])
        <5>1. \A i \in 1 .. 1 + k : t[i] \in P
          BY <3>5
        <5>2. u \in [1 .. 1 + k -> U] /\ \A i \in 1 .. 1 + k : u[i] = Piece(r, n, t[i])
          BY <5>1, <3>5 DEF Cut
        <5>3. 1 + k \in Nat
          BY <3>4
        <5> HIDE DEF u, U
        <5> QED BY <5>2, <5>3, FunctionIsSeq
      <4> HIDE DEF a, c, u, U
      <4>5. /\ a \o c \in Seq(U) /\ Len(a \o c) = 1 + k
            /\ (a \o c)[1] = a[1] /\ \A i \in 1 .. k : (a \o c)[1 + i] = c[i]
        <5>1. /\ a \o c \in Seq(U) /\ Len(a \o c) = Len(a) + Len(c)
              /\ \A i \in 1 .. Len(a) : (a \o c)[i] = a[i]
              /\ \A i \in 1 .. Len(c) : (a \o c)[Len(a) + i] = c[i]
          <6>1. a \in Seq(U) /\ c \in Seq(U)
            BY <4>2, <4>3
          <6> QED BY <6>1, Joined
        <5>2. 1 \in 1 .. Len(a)
          BY <4>2
        <5> QED BY <5>1, <5>2, <4>2, <4>3
      <4>6. ASSUME NEW i \in 1 .. 1 + k PROVE (a \o c)[i] = u[i]
        <5>1. CASE i = 1
          BY <5>1, <4>2, <4>4, <4>5, <3>5
        <5>2. CASE i # 1
          <6>1. i - 1 \in 1 .. k /\ 1 + (i - 1) = i
            BY <5>2, <3>4
          <6>2. (a \o c)[1 + (i - 1)] = c[i - 1] /\ t[1 + (i - 1)] = q[i - 1]
            BY <6>1, <4>5, <3>5
          <6> QED BY <6>1, <6>2, <4>3, <4>4
        <5> QED BY <5>1, <5>2
      <4>7. a \o c = u
        BY <4>4, <4>5, <4>6, SeqEqual
      <4> QED BY <4>1, <4>7 DEF u
    <3> QED BY <2>3, <3>6, <3>7 DEF Right
  <2> QED BY <2>4, <2>5
<1>4. Right(p)
  <2>1. Left(n, p) \in 0 .. 2 * n + 1
    BY <1>1
  <2> HIDE DEF Right
  <2>2. ~Wrong(Left(n, p))
    BY <2>1, <1>3
  <2> QED BY <2>2
<1> QED BY <1>4

LEMMA FragmentsCut ==
  ASSUME NEW r, NEW n \in Nat, NEW b \in 0 .. BlockSize
  PROVE  \E q : /\ Path(n, [done |-> 0, at |-> b, begin |-> TRUE], q)
                /\ InLog!Fragments(r, n, b) = Cut(r, n, q)
<1> DEFINE p == [done |-> 0, at |-> b, begin |-> TRUE]
           f == CHOOSE f : f = Pieces(r, n, f)
<1>1. p \in Points(n)
  BY DEF Points
<1>2. f = Pieces(r, n, f)
  <2> DEFINE P(g) == g = Pieces(r, n, g)
  <2>1. \E g : P(g)
    BY FragmentsDefined
  <2> HIDE DEF P
  <2>2. P(CHOOSE g : P(g))
    BY <2>1, Zenon
  <2> QED BY <2>2, Zenon DEF P
<1>3. InLog!Fragments(r, n, b) = f[p]
  BY FragmentsAre, Zenon
<1> HIDE DEF f, p
<1>4. \E q : Path(n, p, q) /\ f[p] = Cut(r, n, q)
  BY <1>1, <1>2, PathExists
<1> QED BY <1>3, <1>4 DEF p

-----------------------------------------------------------------------------
(* What an append of the first k pieces adds, of the last one m cells:     *)
(* fragments from place x on, each behind the trailer of the block before. *)
FirstPoint(b) == [done |-> 0, at |-> b, begin |-> TRUE]
Trailer(x) == IF Switches(x) THEN BlockSize - x ELSE 0
SizeAt(n, q, k, m, i) == IF i = k THEN m ELSE HeaderSize + LengthAt(n, q[i])
Added(r, n, q, k, m, p, x) ==
  [i \in 1 .. k |->
     [rec |-> r, from |-> q[i].done, to |-> q[i].done + LengthAt(n, q[i]),
      at |-> (x + p[i - 1]) + Trailer(q[i].at), size |-> SizeAt(n, q, k, m, i),
      begin |-> q[i].begin, end |-> Ends(n, q[i])]]
Parts(r, n, q, k, m) ==
  [i \in 1 .. k |-> InLog!Zeros(Trailer(q[i].at))
                    \o (IF i = k THEN SubSeq(Piece(r, n, q[i]).cells, 1, m)
                        ELSE Piece(r, n, q[i]).cells)]

LEMMA PathIs ==
  ASSUME NEW n \in Nat, NEW b \in 0 .. BlockSize, NEW q, Path(n, FirstPoint(b), q)
  PROVE  /\ Len(q) \in Nat /\ Len(q) # 0 /\ q[1] = FirstPoint(b)
         /\ \A i \in 1 .. Len(q) : q[i] \in Points(n) /\ (q[i].begin <=> i = 1)
         /\ \A i \in 1 .. Len(q) - 1 : /\ ~Ends(n, q[i]) /\ i \in 1 .. Len(q) /\ i + 1 \in 1 .. Len(q)
                                       /\ q[i + 1].done = q[i].done + LengthAt(n, q[i])
                                       /\ q[i + 1].at = AfterPiece(n, q[i])
         /\ Ends(n, q[Len(q)])
<1> DEFINE P == Points(n)
<1>1. /\ q \in Seq(P) /\ Len(q) # 0 /\ q[1] = FirstPoint(b) /\ Ends(n, q[Len(q)])
      /\ \A i \in 1 .. Len(q) - 1 : ~Ends(n, q[i]) /\ q[i + 1] = NextPoint(n, q[i])
  BY DEF Path
<1> HIDE DEF P
<1>2. Len(q) \in Nat /\ \A i \in 1 .. Len(q) : q[i] \in P
  BY <1>1
<1>3. \A i \in 1 .. Len(q) - 1 : i \in 1 .. Len(q) /\ i + 1 \in 1 .. Len(q)
  BY <1>2
<1>4. ASSUME NEW i \in 1 .. Len(q) PROVE q[i].begin <=> i = 1
  <2>1. CASE i = 1
    BY <2>1, <1>1 DEF FirstPoint
  <2>2. CASE i # 1
    <3>1. i - 1 \in 1 .. Len(q) - 1 /\ (i - 1) + 1 = i
      BY <2>2, <1>2
    <3>2. q[i] = NextPoint(n, q[i - 1])
      BY <3>1, <1>1
    <3>3. q[i].begin = FALSE
      BY <3>2 DEF NextPoint
    <3> QED BY <2>2, <3>3
  <2> QED BY <2>1, <2>2
<1>5. ASSUME NEW i \in 1 .. Len(q) - 1
      PROVE  /\ q[i + 1].done = q[i].done + LengthAt(n, q[i])
             /\ q[i + 1].at = AfterPiece(n, q[i])
  <2>1. q[i + 1] = NextPoint(n, q[i])
    BY <1>1
  <2> QED BY <2>1 DEF NextPoint
<1> QED BY <1>1, <1>2, <1>3, <1>4, <1>5 DEF P

LEMMA TrailerIs ==
  ASSUME NEW x \in 0 .. BlockSize
  PROVE  /\ Trailer(x) \in 0 .. HeaderSize - 1 /\ (x = 0 => Trailer(x) = 0)
         /\ Trailer(x) # 0 => StartOf(x) = 0 /\ Trailer(x) = BlockSize - x
         /\ Trailer(x) = 0 => StartOf(x) = x \/ (StartOf(x) = 0 /\ x = BlockSize)
<1>1. CASE Switches(x)
  <2>1. BlockSize - x < HeaderSize /\ x # 0 /\ BlockSize - x \in 0 .. HeaderSize - 1
    BY <1>1, LogConstants DEF Switches
  <2>2. Trailer(x) = BlockSize - x /\ StartOf(x) = 0
    BY <1>1 DEF Trailer, StartOf
  <2>3. BlockSize - x = 0 => x = BlockSize
    BY LogConstants
  <2> QED BY <2>1, <2>2, <2>3
<1>2. CASE ~Switches(x)
  <2>1. Trailer(x) = 0 /\ StartOf(x) = x
    BY <1>2 DEF Trailer, StartOf
  <2> QED BY <2>1, LogConstants
<1> QED BY <1>1, <1>2

LEMMA ZerosAre ==
  ASSUME NEW n \in Nat
  PROVE  /\ InLog!Zeros(n) \in Seq(LogCell) /\ Len(InLog!Zeros(n)) = n
         /\ \A c \in 1 .. n : InLog!Zeros(n)[c] = ZeroCell
<1>1. ZeroCell \in LogCell
  BY DEF ZeroCell, InLog!Cell, LogCell, Payloads
<1>2. InLog!Zeros(n) \in [1 .. n -> LogCell] /\ \A c \in 1 .. n : InLog!Zeros(n)[c] = ZeroCell
  BY <1>1 DEF InLog!Zeros, ZeroCell
<1> QED BY <1>2, FunctionIsSeq

LEMMA Stretch ==
  ASSUME NEW S, NEW s \in Seq(S), NEW a \in Nat, NEW b \in Nat, a <= b, b <= Len(s)
  PROVE  /\ SubSeq(s, a + 1, b) \in Seq(S) /\ Len(SubSeq(s, a + 1, b)) = b - a
         /\ \A i \in 1 .. b - a : SubSeq(s, a + 1, b)[i] = s[a + i]
<1>1. \A i \in a + 1 .. b : s[i] \in S
  OBVIOUS
<1>2. a + 1 \in Int /\ b \in Int
  OBVIOUS
<1> DEFINE t == SubSeq(s, a + 1, b)
<1>3. /\ t \in Seq(S) /\ Len(t) = IF a + 1 <= b THEN b - (a + 1) + 1 ELSE 0
      /\ \A i \in 1 .. b - (a + 1) + 1 : t[i] = s[a + 1 + i - 1]
  BY <1>1, <1>2, SubSeqProperties
<1> HIDE DEF t
<1>4. Len(t) = b - a
  BY <1>3
<1>5. b - (a + 1) + 1 = b - a /\ \A i \in Int : a + 1 + i - 1 = a + i
  OBVIOUS
<1>6. \A i \in 1 .. b - a : t[i] = s[a + i]
  BY <1>3, <1>5
<1> QED BY <1>3, <1>4, <1>6 DEF t

LEMMA Beginning ==
  ASSUME NEW S, NEW s \in Seq(S), NEW n \in Nat, n <= Len(s)
  PROVE  /\ SubSeq(s, 1, n) \in Seq(S) /\ Len(SubSeq(s, 1, n)) = n
         /\ \A i \in 1 .. n : SubSeq(s, 1, n)[i] = s[i]
<1>1. PICK z \in Nat : z = 0
  OBVIOUS
<1>2. /\ SubSeq(s, z + 1, n) \in Seq(S) /\ Len(SubSeq(s, z + 1, n)) = n - z
      /\ \A i \in 1 .. n - z : SubSeq(s, z + 1, n)[i] = s[z + i]
  BY <1>1, Stretch
<1>3. z + 1 = 1 /\ n - z = n /\ \A i \in Int : z + i = i
  BY <1>1
<1> QED BY <1>2, <1>3

PartRight(f, s, t, x, size, full) ==
  /\ f \in Fragment /\ FragmentRight(f) /\ f.size = size
  /\ f.at = x + t /\ t \in Nat /\ f.size \in Nat /\ FullSize(f) = full
  /\ s \in Seq(LogCell) /\ Len(s) = t + f.size
  /\ \A c \in 1 .. t : s[c] = ZeroCell
  /\ \A c \in 1 .. f.size : s[t + c] = CellOf(f, c)

LEMMA AddNat == \A a, c \in Nat : a + c \in Nat
OBVIOUS

LEMMA PartsAre ==
  ASSUME NEW r \in Nat \ {0}, NEW n \in Nat, NEW b \in 0 .. BlockSize,
         NEW q, Path(n, FirstPoint(b), q), NEW k \in 1 .. Len(q),
         NEW m \in 0 .. HeaderSize + LengthAt(n, q[k]), NEW x \in Nat,
         NEW p, p \in [0 .. k -> Nat], NEW i \in 1 .. k
  PROVE  PartRight(Added(r, n, q, k, m, p, x)[i], Parts(r, n, q, k, m)[i], Trailer(q[i].at),
                   x + p[i - 1], SizeAt(n, q, k, m, i), HeaderSize + LengthAt(n, q[i]))
<1> DEFINE f == Added(r, n, q, k, m, p, x)[i]
           s == Parts(r, n, q, k, m)[i]
           t == Trailer(q[i].at)
           l == LengthAt(n, q[i])
           z == SizeAt(n, q, k, m, i)
<1>1. i \in 1 .. Len(q) /\ q[i] \in Points(n) /\ i - 1 \in 0 .. k
  BY PathIs
<1>2. /\ q[i].done \in 0 .. n /\ q[i].at \in 0 .. BlockSize /\ q[i].begin \in BOOLEAN
      /\ StartOf(q[i].at) \in 0 .. BlockSize - HeaderSize
      /\ l \in Nat /\ q[i].done + l \in 0 .. n
      /\ AfterPiece(n, q[i]) \in HeaderSize .. BlockSize
  BY <1>1, PointNext
<1>3. t \in Nat
  <2>1. q[i].at \in 0 .. BlockSize
    BY <1>2
  <2>2. Trailer(q[i].at) \in 0 .. HeaderSize - 1
    BY <2>1, TrailerIs
  <2> QED BY <2>2, LogConstants
<1>4. HeaderSize + l <= BlockSize /\ HeaderSize + l \in Nat
  <2>1. /\ StartOf(q[i].at) + HeaderSize + l \in HeaderSize .. BlockSize
        /\ StartOf(q[i].at) \in Nat /\ l \in Nat
    BY <1>2, LogConstants DEF AfterPiece
  <2> HIDE DEF l
  <2> QED BY <2>1, LogConstants
<1>5. z \in Nat /\ z <= HeaderSize + l
  <2>1. CASE i = k
    BY <2>1, <1>4 DEF SizeAt
  <2>2. CASE i # k
    BY <2>2, <1>4 DEF SizeAt
  <2> QED BY <2>1, <2>2
<1>6. f = [rec |-> r, from |-> q[i].done, to |-> q[i].done + l, at |-> (x + p[i - 1]) + t,
           size |-> z, begin |-> q[i].begin, end |-> Ends(n, q[i])]
  BY DEF Added
<1>7. p[i - 1] \in Nat
  BY <1>1
<1>8. Ends(n, q[i]) \in BOOLEAN
  BY DEF Ends
<1>9. q[i].begin => q[i].done = 0
  <2>1. q[i].begin => i = 1
    <3>1. \A j \in 1 .. Len(q) : q[j].begin <=> j = 1
      BY PathIs
    <3> QED BY ONLY <1>1, <3>1
  <2>2. q[1] = FirstPoint(b)
    BY PathIs
  <2> QED BY <2>1, <2>2 DEF FirstPoint
<1> HIDE DEF f, t, l, z, s
<1>10. (x + p[i - 1]) + t \in Nat /\ q[i].done + l \in Nat /\ q[i].done \in Nat
  <2>1. q[i].done \in Nat /\ l \in Nat /\ t \in Nat /\ p[i - 1] \in Nat
    BY <1>2, <1>3, <1>7
  <2>2. x + p[i - 1] \in Nat
    BY ONLY <2>1, x \in Nat, AddNat
  <2>3. (x + p[i - 1]) + t \in Nat
    BY ONLY <2>1, <2>2, AddNat
  <2>4. q[i].done + l \in Nat
    BY ONLY <2>1, AddNat
  <2> QED BY ONLY <2>1, <2>3, <2>4
<1>11. /\ f.rec = r /\ f.from = q[i].done
       /\ f.to = q[i].done + l /\ f.at = (x + p[i - 1]) + t
       /\ f.size = z /\ f.begin = q[i].begin /\ f.end = Ends(n, q[i])
  BY <1>6
<1>12. f \in Fragment
  BY <1>2, <1>5, <1>6, <1>8, <1>10 DEF Fragment
<1>13. FullSize(f) = HeaderSize + l
  BY <1>2, <1>11 DEF FullSize
<1>14. FragmentRight(f)
  <2>1. f.from <= f.to
    <3>1. q[i].done \in Nat /\ l \in Nat
      BY <1>2
    <3>2. q[i].done <= q[i].done + l
      BY ONLY <3>1
    <3> QED BY ONLY <3>2, <1>11
  <2> QED BY <2>1, <1>4, <1>5, <1>9, <1>11, <1>13 DEF FragmentRight
<1> DEFINE cells == Piece(r, n, q[i]).cells
           e == [c \in 1 .. HeaderSize + l |-> CellOf(f, c)]
           w == [c \in 1 .. z |-> CellOf(f, c)]
           u == IF i = k THEN SubSeq(cells, 1, m) ELSE cells
<1>15. cells = e
  <2>1. cells = InLog!EmitPhysicalRecord(TypeOf(f), DataOf(f))
    BY <1>11 DEF Piece, TypeOf, DataOf, l
  <2>2. InLog!EmitPhysicalRecord(TypeOf(f), DataOf(f)) = [c \in 1 .. FullSize(f) |-> CellOf(f, c)]
    BY <1>12, <1>14, CellsAre
  <2> HIDE DEF cells
  <2> QED BY <2>1, <2>2, <1>13
<1>16. \A c \in 1 .. HeaderSize + l : CellOf(f, c) \in LogCell
  BY <1>12, <1>13, <1>14, CellsAre
<1>17. u = w
  <2>1. CASE i = k
    <3>1. z = m
      BY <2>1 DEF SizeAt, z
    <3>2. e \in [1 .. HeaderSize + l -> LogCell]
      BY <1>16
    <3>3. e \in Seq(LogCell) /\ Len(e) = HeaderSize + l
      <4> HIDE DEF e
      <4> QED BY <3>2, <1>4, FunctionIsSeq
    <3>4. SubSeq(e, 1, m) = [c \in 1 .. m |-> e[c]]
      <4>1. m \in Nat /\ m <= Len(e)
        BY <1>4, <1>5, <3>1, <3>3
      <4> HIDE DEF e
      <4>2. /\ SubSeq(e, 1, m) \in Seq(LogCell) /\ Len(SubSeq(e, 1, m)) = m
            /\ \A c \in 1 .. m : SubSeq(e, 1, m)[c] = e[c]
        BY <3>3, <4>1, Beginning
      <4>3. SubSeq(e, 1, m) = [c \in 1 .. m |-> SubSeq(e, 1, m)[c]]
        BY <4>2
      <4> QED BY <4>2, <4>3
    <3>5. \A c \in 1 .. m : c \in 1 .. HeaderSize + l
      BY <1>4, <1>5, <3>1
    <3>6. \A c \in 1 .. m : e[c] = CellOf(f, c)
      BY <3>5
    <3>7. u = SubSeq(e, 1, m)
      BY <2>1, <1>15
    <3> HIDE DEF e, u
    <3> QED BY <3>1, <3>4, <3>6, <3>7
  <2>2. CASE i # k
    <3>1. z = HeaderSize + l
      BY <2>2 DEF SizeAt, z, l
    <3> QED BY <2>2, <3>1, <1>15
  <2> QED BY <2>1, <2>2
<1>18. /\ w \in Seq(LogCell) /\ Len(w) = z /\ \A c \in 1 .. z : w[c] = CellOf(f, c)
  <2>1. \A c \in 1 .. z : CellOf(f, c) \in LogCell
    BY <1>4, <1>5, <1>16
  <2>2. w \in [1 .. z -> LogCell] /\ \A c \in 1 .. z : w[c] = CellOf(f, c)
    BY <2>1
  <2> HIDE DEF w
  <2> QED BY <2>2, <1>5, FunctionIsSeq
<1>19. s = InLog!Zeros(t) \o w
  <2>1. s = InLog!Zeros(t) \o u
    BY DEF Parts, s, t
  <2> HIDE DEF u, w
  <2> QED BY <2>1, <1>17
<1>20. /\ InLog!Zeros(t) \in Seq(LogCell) /\ Len(InLog!Zeros(t)) = t
       /\ \A c \in 1 .. t : InLog!Zeros(t)[c] = ZeroCell
  BY <1>3, ZerosAre
<1> DEFINE y == InLog!Zeros(t)
<1> HIDE DEF w, y
<1>21. /\ y \o w \in Seq(LogCell) /\ Len(y \o w) = Len(y) + Len(w)
       /\ \A c \in 1 .. Len(y) : (y \o w)[c] = y[c]
       /\ \A c \in 1 .. Len(w) : (y \o w)[Len(y) + c] = w[c]
  <2>1. y \in Seq(LogCell) /\ w \in Seq(LogCell)
    BY <1>18, <1>20 DEF y
  <2> QED BY <2>1, Joined
<1>22. /\ s \in Seq(LogCell) /\ Len(s) = t + z
       /\ \A c \in 1 .. t : s[c] = ZeroCell
       /\ \A c \in 1 .. z : s[t + c] = CellOf(f, c)
  BY <1>18, <1>19, <1>20, <1>21 DEF y
<1>23. PartRight(f, s, t, x + p[i - 1], z, HeaderSize + l)
  BY <1>3, <1>5, <1>11, <1>12, <1>13, <1>14, <1>22 DEF PartRight
<1> QED BY <1>23 DEF f, s, t, l, z

(* Cells T that continue a file of length x with fragments of record r.    *)
Continues(new, T, r, n, x) ==
  /\ new \in Seq(Fragment) /\ Len(new) # 0 /\ T \in Seq(LogCell)
  /\ \A i \in 1 .. Len(new) :
       /\ FragmentRight(new[i]) /\ new[i].rec = r /\ (new[i].begin <=> i = 1)
       /\ new[i].end => new[i].to = n
       /\ x <= new[i].at /\ EndAt(new[i]) <= x + Len(T)
       /\ \A c \in 1 .. new[i].size : T[(new[i].at - x) + c] = CellOf(new[i], c)
  /\ \A i \in 1 .. Len(new) - 1 :
       /\ Complete(new[i]) /\ ~new[i].end /\ new[i + 1].from = new[i].to
       /\ EndAt(new[i]) <= new[i + 1].at
  /\ EndAt(new[Len(new)]) = x + Len(T)
  /\ \A y \in 1 .. Len(T) : T[y] = ZeroCell \/ \E i \in 1 .. Len(new) : Within(x + y, new[i])

LEMMA PlacesAscend ==
  ASSUME NEW S, NEW s \in Seq(Seq(S)), NEW p, Places(s, p), NEW i \in 0 .. Len(s)
  PROVE  p[i] \in Nat /\ p[i] <= p[Len(s)]
<1> DEFINE n == Len(s)
           Bad == {k \in 0 .. n : ~(p[n - k] <= p[n])}
<1>1. /\ n \in Nat /\ \A k \in 1 .. n : s[k] \in Seq(S)
      /\ \A k \in 0 .. n : p[k] \in Nat
      /\ \A k \in 1 .. n : p[k] = p[k - 1] + Len(s[k])
  <2>1. n \in Nat /\ \A k \in 1 .. n : s[k] \in Seq(S)
    OBVIOUS
  <2>2. /\ \A k \in 0 .. n : p[k] \in Nat
        /\ \A k \in 1 .. n : p[k] = p[k - 1] + Len(s[k])
    BY DEF Places
  <2> QED BY <2>1, <2>2
<1>2. \A k \in 1 .. n : Len(s[k]) \in Nat /\ p[k - 1] \in Nat /\ p[k - 1] <= p[k]
  <2> SUFFICES ASSUME NEW k \in 1 .. n
               PROVE  Len(s[k]) \in Nat /\ p[k - 1] \in Nat /\ p[k - 1] <= p[k]
    OBVIOUS
  <2>1. s[k] \in Seq(S) /\ k - 1 \in 0 .. n /\ k \in 0 .. n
    BY <1>1
  <2>2. Len(s[k]) \in Nat /\ p[k - 1] \in Nat
    BY <2>1, <1>1
  <2> QED BY <2>2, <1>1
<1> HIDE DEF n
<1>3. Bad = {}
  <2> SUFFICES ASSUME Bad # {} PROVE FALSE
    OBVIOUS
  <2>1. Bad \in SUBSET (0 .. n)
    OBVIOUS
  <2>2. PICK m \in Bad : \A k \in Bad : m <= k
    BY <2>1, <1>1, LeastOf
  <2>3. m \in 0 .. n /\ ~(p[n - m] <= p[n])
    OBVIOUS
  <2>4. m # 0
    <3>1. n - 0 = n /\ n \in 0 .. n
      BY <1>1
    <3>2. p[n] \in Nat
      BY <3>1, <1>1
    <3> QED BY <3>1, <3>2, <2>3
  <2>5. m - 1 \in 0 .. n /\ m - 1 < m /\ n - (m - 1) \in 1 .. n /\ (n - (m - 1)) - 1 = n - m
    BY <2>3, <2>4, <1>1
  <2>6. p[n - (m - 1)] <= p[n]
    BY <2>2, <2>3, <2>5
  <2>7. /\ p[n - m] <= p[n - (m - 1)] /\ p[n - m] \in Nat
        /\ p[n - (m - 1)] \in Nat /\ p[n] \in Nat
    <3>1. n \in 0 .. n /\ n - (m - 1) \in 0 .. n
      BY <2>5, <1>1
    <3> QED BY <3>1, <2>5, <1>1, <1>2
  <2> QED BY <2>3, <2>6, <2>7
<1>4. n - i \in 0 .. n /\ n - (n - i) = i
  BY <1>1 DEF n
<1>5. n - i \notin Bad
  BY <1>3
<1> QED BY <1>1, <1>4, <1>5 DEF n

LEMMA AddedContinues ==
  ASSUME NEW r \in Nat \ {0}, NEW n \in Nat, NEW b \in 0 .. BlockSize,
         NEW q, Path(n, FirstPoint(b), q), NEW k \in 1 .. Len(q),
         NEW m \in 0 .. HeaderSize + LengthAt(n, q[k]), NEW x \in Nat,
         NEW s, s = Parts(r, n, q, k, m), NEW p, Places(s, p)
  PROVE  /\ s \in Seq(Seq(LogCell)) /\ Len(s) = k
         /\ Continues(Added(r, n, q, k, m, p, x), InLog!FlattenSeq(s), r, n, x)
<1> DEFINE new == Added(r, n, q, k, m, p, x)
           T == InLog!FlattenSeq(s)
           C == Seq(LogCell)
<1>1. Len(q) \in Nat /\ k \in Nat /\ k # 0 /\ k <= Len(q)
  BY PathIs
<1>2. Len(s) = k /\ DOMAIN s = 1 .. k
  BY <1>1 DEF Parts
<1>3. p \in [0 .. k -> Nat]
  BY <1>2 DEF Places
<1>4. ASSUME NEW i \in 1 .. k
      PROVE  /\ new[i] \in Fragment /\ FragmentRight(new[i])
             /\ new[i].size = SizeAt(n, q, k, m, i)
             /\ new[i].at = (x + p[i - 1]) + Trailer(q[i].at)
             /\ Trailer(q[i].at) \in Nat /\ new[i].size \in Nat
             /\ FullSize(new[i]) = HeaderSize + LengthAt(n, q[i])
             /\ s[i] \in C /\ Len(s[i]) = Trailer(q[i].at) + new[i].size
             /\ \A c \in 1 .. Trailer(q[i].at) : s[i][c] = ZeroCell
             /\ \A c \in 1 .. new[i].size : s[i][Trailer(q[i].at) + c] = CellOf(new[i], c)
  <2>1. /\ r \in Nat \ {0} /\ n \in Nat /\ b \in 0 .. BlockSize /\ Path(n, FirstPoint(b), q)
        /\ k \in 1 .. Len(q) /\ m \in 0 .. HeaderSize + LengthAt(n, q[k]) /\ x \in Nat
        /\ p \in [0 .. k -> Nat] /\ i \in 1 .. k
    BY <1>3
  <2>2. s = Parts(r, n, q, k, m)
    OBVIOUS
  <2> HIDE DEF new, C
  <2>3. PartRight(Added(r, n, q, k, m, p, x)[i], Parts(r, n, q, k, m)[i], Trailer(q[i].at),
                  x + p[i - 1], SizeAt(n, q, k, m, i), HeaderSize + LengthAt(n, q[i]))
    BY <1>3, PartsAre
  <2>4. PartRight(new[i], s[i], Trailer(q[i].at), x + p[i - 1], SizeAt(n, q, k, m, i),
                  HeaderSize + LengthAt(n, q[i]))
    BY <2>2, <2>3, Zenon DEF new
  <2> QED BY <2>4, Zenon DEF PartRight, C
<1>5. s \in Seq(C)
  <2>1. s \in [1 .. k -> C]
    <3>1. s = [i \in 1 .. k |-> s[i]]
      BY DEF Parts
    <3>2. \A i \in 1 .. k : s[i] \in C
      BY <1>4
    <3> HIDE DEF C
    <3> QED BY <3>1, <3>2
  <2> HIDE DEF C
  <2> QED BY <2>1, <1>1, FunctionIsSeq
<1>6. new \in Seq(Fragment) /\ Len(new) = k
  <2>1. new = [i \in 1 .. k |-> new[i]]
    BY DEF Added
  <2>2. \A i \in 1 .. k : new[i] \in Fragment
    BY <1>4
  <2> HIDE DEF new
  <2>3. new \in [1 .. k -> Fragment]
    BY <2>1, <2>2
  <2> QED BY <2>3, <1>1, FunctionIsSeq
<1>7. /\ T \in Seq(LogCell) /\ Len(T) = p[k]
      /\ \A i \in 1 .. k : \A c \in 1 .. Len(s[i]) : T[p[i - 1] + c] = s[i][c]
      /\ \A y \in 1 .. p[k] : \E i \in 1 .. k : p[i - 1] < y /\ y <= p[i]
  <2>1. Places(s, p) /\ s \in Seq(Seq(LogCell)) /\ Len(s) = k
    BY <1>2, <1>5
  <2>2. /\ InLog!FlattenSeq(s) \in Seq(LogCell) /\ Len(InLog!FlattenSeq(s)) = p[Len(s)]
        /\ \A i \in 1 .. Len(s) : \A c \in 1 .. Len(s[i]) : InLog!FlattenSeq(s)[p[i - 1] + c] = s[i][c]
        /\ \A y \in 1 .. p[Len(s)] : \E i \in 1 .. Len(s) : p[i - 1] < y /\ y <= p[i]
    BY ONLY <2>1, Flattened, Zenon
  <2> QED BY <2>1, <2>2, Zenon
<1>8. ASSUME NEW i \in 1 .. k
      PROVE  /\ p[i] \in Nat /\ p[i - 1] \in Nat /\ p[i] <= p[k]
             /\ p[i] = p[i - 1] + (Trailer(q[i].at) + new[i].size)
             /\ EndAt(new[i]) = x + p[i]
  <2>1. i \in 0 .. k /\ i - 1 \in 0 .. k /\ k \in 0 .. k
    BY <1>1
  <2>2. p[i] \in Nat /\ p[i - 1] \in Nat
    BY <2>1, <1>3
  <2>3. p[i] = p[i - 1] + Len(s[i])
    BY <1>2 DEF Places
  <2>4. p[i] <= p[k]
    BY <1>2, <1>5, <2>1, PlacesAscend
  <2>5. /\ new[i].at = (x + p[i - 1]) + Trailer(q[i].at)
        /\ Len(s[i]) = Trailer(q[i].at) + new[i].size
        /\ Trailer(q[i].at) \in Nat /\ new[i].size \in Nat
    BY <1>4
  <2> DEFINE a == new[i].at
             z == new[i].size
             t == Trailer(q[i].at)
             u == p[i - 1]
  <2>6. /\ a = (x + u) + t /\ u \in Nat /\ t \in Nat /\ z \in Nat
        /\ p[i] = u + (t + z)
    BY <2>2, <2>3, <2>5
  <2>7. a + z = x + (u + (t + z))
    <3> HIDE DEF a, z, t, u
    <3> QED BY <2>6
  <2> QED BY <2>2, <2>4, <2>6, <2>7 DEF EndAt
<1>9. ASSUME NEW i \in 1 .. k
      PROVE  /\ new[i].rec = r /\ (new[i].begin <=> i = 1) /\ new[i].from = q[i].done
             /\ new[i].to = q[i].done + LengthAt(n, q[i])
             /\ new[i].end = Ends(n, q[i])
  <2>1. i \in 1 .. Len(q)
    BY <1>1
  <2>2. q[i].begin <=> i = 1
    BY <2>1, PathIs
  <2> QED BY <2>2 DEF Added
<1> HIDE DEF new, T
<1>10. ASSUME NEW i \in 1 .. k
       PROVE  /\ new[i].end => new[i].to = n
              /\ x <= new[i].at /\ EndAt(new[i]) <= x + Len(T)
              /\ \A c \in 1 .. new[i].size : T[(new[i].at - x) + c] = CellOf(new[i], c)
  <2>1. new[i].end => new[i].to = n
    <3>1. q[i] \in Points(n)
      BY <1>1, PathIs
    <3>2. q[i].done \in 0 .. n /\ LengthAt(n, q[i]) \in Nat
      BY <3>1, PointNext
    <3>3. Ends(n, q[i]) => q[i].done + LengthAt(n, q[i]) = n
      BY <3>2 DEF Ends
    <3> QED BY <3>3, <1>9
  <2>2. /\ p[i] \in Nat /\ p[i - 1] \in Nat /\ p[i] <= p[k] /\ EndAt(new[i]) = x + p[i]
        /\ Trailer(q[i].at) \in Nat /\ new[i].size \in Nat
        /\ new[i].at = (x + p[i - 1]) + Trailer(q[i].at)
        /\ Len(s[i]) = Trailer(q[i].at) + new[i].size
    BY <1>4, <1>8
  <2>3. p[k] \in Nat /\ Len(T) = p[k]
    BY <1>1, <1>3, <1>7
  <2> DEFINE a == new[i].at
             z == new[i].size
             t == Trailer(q[i].at)
             u == p[i - 1]
             v == p[i]
             y == p[k]
             w == Len(s[i])
             e == EndAt(new[i])
             o == Len(T)
  <2>0. /\ a = (x + u) + t /\ u \in Nat /\ t \in Nat /\ z \in Nat /\ v \in Nat /\ v <= y
        /\ w = t + z /\ e = x + v /\ y \in Nat /\ o = y
    BY <2>2, <2>3
  <2>4. x <= a /\ e <= x + o
    <3> HIDE DEF a, z, t, u, v, y, w, e, o
    <3> QED BY <2>0
  <2>5. ASSUME NEW c \in 1 .. new[i].size
        PROVE  T[(new[i].at - x) + c] = CellOf(new[i], c)
    <3>1. /\ Trailer(q[i].at) + c \in 1 .. Len(s[i])
          /\ (new[i].at - x) + c = p[i - 1] + (Trailer(q[i].at) + c)
      <4>1. c \in 1 .. z
        OBVIOUS
      <4>2. t + c \in 1 .. w /\ (a - x) + c = u + (t + c)
        <5> HIDE DEF a, z, t, u, v, y, w, e, o
        <5> QED BY <2>0, <4>1
      <4> QED BY <4>2
    <3>2. T[p[i - 1] + (Trailer(q[i].at) + c)] = s[i][Trailer(q[i].at) + c]
      BY <3>1, <1>7
    <3>3. s[i][Trailer(q[i].at) + c] = CellOf(new[i], c)
      BY <1>4
    <3> QED BY <3>1, <3>2, <3>3
  <2> QED BY <2>1, <2>4, <2>5
<1>11. ASSUME NEW i \in 1 .. k - 1
       PROVE  /\ Complete(new[i]) /\ ~new[i].end /\ new[i + 1].from = new[i].to
              /\ EndAt(new[i]) <= new[i + 1].at
  <2>1. /\ i \in 1 .. k /\ i # k /\ i + 1 \in 1 .. k
        /\ i \in 1 .. Len(q) - 1 /\ (i + 1) - 1 = i
    BY <1>1
  <2>2. ~Ends(n, q[i]) /\ q[i + 1].done = q[i].done + LengthAt(n, q[i])
    <3>1. \A j \in 1 .. Len(q) - 1 :
            ~Ends(n, q[j]) /\ q[j + 1].done = q[j].done + LengthAt(n, q[j])
      <4>1. n \in Nat /\ b \in 0 .. BlockSize /\ Path(n, FirstPoint(b), q)
        OBVIOUS
      <4> QED BY ONLY <4>1, PathIs
    <3> QED BY <2>1, <3>1
  <2>3. Complete(new[i])
    BY <2>1, <1>4 DEF Complete, SizeAt
  <2>4. EndAt(new[i]) <= new[i + 1].at
    <3>1. /\ EndAt(new[i]) = x + p[i] /\ p[i] \in Nat
          /\ new[i + 1].at = (x + p[i]) + Trailer(q[i + 1].at)
          /\ Trailer(q[i + 1].at) \in Nat
      BY <2>1, <1>4, <1>8
    <3> QED BY <3>1
  <2> QED BY <2>1, <2>2, <2>3, <2>4, <1>9
<1>12. EndAt(new[k]) = x + Len(T)
  <2>1. k \in 1 .. k
    BY <1>1
  <2> QED BY <2>1, <1>7, <1>8
<1>13. ASSUME NEW y \in 1 .. Len(T), T[y] # ZeroCell
       PROVE  \E i \in 1 .. k : Within(x + y, new[i])
  <2>1. PICK i \in 1 .. k : p[i - 1] < y /\ y <= p[i]
    BY <1>7
  <2>2. /\ p[i] \in Nat /\ p[i - 1] \in Nat /\ EndAt(new[i]) = x + p[i]
        /\ p[i] = p[i - 1] + (Trailer(q[i].at) + new[i].size)
        /\ Trailer(q[i].at) \in Nat /\ new[i].size \in Nat
        /\ new[i].at = (x + p[i - 1]) + Trailer(q[i].at)
        /\ Len(s[i]) = Trailer(q[i].at) + new[i].size
    BY <1>4, <1>8
  <2> DEFINE a == new[i].at
             z == new[i].size
             t == Trailer(q[i].at)
             u == p[i - 1]
             v == p[i]
             w == Len(s[i])
             e == EndAt(new[i])
             c == y - p[i - 1]
  <2>0. /\ a = (x + u) + t /\ u \in Nat /\ t \in Nat /\ z \in Nat /\ v = u + (t + z)
        /\ w = t + z /\ e = x + v /\ y \in Nat /\ u < y /\ y <= v /\ c = y - u
    BY <2>1, <2>2
  <2>3. c \in 1 .. Len(s[i]) /\ p[i - 1] + c = y
    <3>1. c \in 1 .. w /\ u + c = y
      <4> HIDE DEF a, z, t, u, v, w, e, c
      <4> QED BY <2>0
    <3> QED BY <3>1
  <2>4. T[y] = s[i][c]
    <3>1. T[p[i - 1] + c] = s[i][c]
      BY <2>3, <1>7
    <3> QED BY <3>1, <2>3
  <2>5. ~(c <= Trailer(q[i].at))
    <3> SUFFICES ASSUME c <= Trailer(q[i].at) PROVE FALSE
      OBVIOUS
    <3>1. c \in 1 .. Trailer(q[i].at)
      BY <2>2, <2>3
    <3>2. s[i][c] = ZeroCell
      BY <3>1, <1>4
    <3> QED BY <3>2, <2>4, <1>13
  <2>6. new[i].at < x + y /\ x + y <= EndAt(new[i])
    <3>1. ~(c <= t)
      BY <2>5
    <3>2. a < x + y /\ x + y <= e
      <4> HIDE DEF a, z, t, u, v, w, e, c
      <4> QED BY <2>0, <3>1
    <3> QED BY <3>2
  <2> QED BY <2>6 DEF Within
<1>14. Continues(new, T, r, n, x)
  <2>1. new \in Seq(Fragment) /\ Len(new) = k /\ k # 0 /\ T \in Seq(LogCell)
    BY <1>1, <1>6, <1>7
  <2>2. \A i \in 1 .. k :
          /\ FragmentRight(new[i]) /\ new[i].rec = r /\ (new[i].begin <=> i = 1)
          /\ new[i].end => new[i].to = n
          /\ x <= new[i].at /\ EndAt(new[i]) <= x + Len(T)
          /\ \A c \in 1 .. new[i].size : T[(new[i].at - x) + c] = CellOf(new[i], c)
    BY <1>4, <1>9, <1>10
  <2>3. \A i \in 1 .. k - 1 : /\ Complete(new[i]) /\ ~new[i].end /\ new[i + 1].from = new[i].to
                              /\ EndAt(new[i]) <= new[i + 1].at
    BY <1>11
  <2>4. \A y \in 1 .. Len(T) : T[y] = ZeroCell \/ \E i \in 1 .. k : Within(x + y, new[i])
    BY <1>13
  <2> QED BY ONLY <1>12, <2>1, <2>2, <2>3, <2>4 DEF Continues
<1> QED BY <1>2, <1>5, <1>14 DEF new, T, C

-----------------------------------------------------------------------------
(* Blocks.                                                                 *)
LEMMA PieceInBlock ==
  ASSUME NEW y \in Nat, NEW a \in 0 .. BlockSize, Multiple(y - a), NEW l \in Nat,
         StartOf(a) + HeaderSize + l <= BlockSize
  PROVE  LET t == Trailer(a) IN
         /\ t \in Nat /\ InBlock(y + t, (y + t) + (HeaderSize + l))
         /\ y + t = y \/ (Multiple(y + t) /\ y + t < y + HeaderSize)
         /\ Multiple((y + (t + (HeaderSize + l))) - (StartOf(a) + HeaderSize + l))
<1> DEFINE t == Trailer(a)
           s == StartOf(a)
<1>1. /\ t \in Nat /\ t < HeaderSize /\ HeaderSize \in Nat /\ BlockSize \in Nat
      /\ s \in 0 .. BlockSize
  <2>1. t \in 0 .. HeaderSize - 1
    BY TrailerIs
  <2>2. s \in 0 .. BlockSize
    BY LogConstants DEF StartOf
  <2> QED BY <2>1, <2>2, LogConstants
<1>2. Multiple((y + t) - s)
  <2>1. CASE t = 0
    <3>1. s = a \/ (s = 0 /\ a = BlockSize)
      BY <2>1, TrailerIs
    <3>2. CASE s = a
      <4>1. (y + t) - s = y - a
        BY <2>1, <3>2
      <4> QED BY <4>1
    <3>3. CASE s = 0 /\ a = BlockSize
      <4>1. (y + t) - s = (y - a) + BlockSize /\ y - a \in Int
        <5> HIDE DEF s, t
        <5> QED BY <1>1, <2>1, <3>3
      <4> QED BY <4>1, MultipleNext
    <3> QED BY <3>1, <3>2, <3>3
  <2>2. CASE t # 0
    <3>1. s = 0 /\ t = BlockSize - a
      BY <2>2, TrailerIs
    <3>2. (y + t) - s = (y - a) + BlockSize /\ y - a \in Int
      <4> HIDE DEF s, t
      <4> QED BY <1>1, <3>1
    <3> QED BY <3>2, MultipleNext
  <2> QED BY <2>1, <2>2
<1>3. InBlock(y + t, (y + t) + (HeaderSize + l))
  <2> DEFINE c == (y + t) - s
  <2>1. c \in Int /\ c <= y + t /\ (y + t) + (HeaderSize + l) <= c + BlockSize
    <3>1. s + HeaderSize + l <= BlockSize
      OBVIOUS
    <3> HIDE DEF s, t
    <3> QED BY <1>1, <3>1
  <2> HIDE DEF c
  <2>2. Multiple(c)
    BY <1>2 DEF c
  <2> QED BY <2>1, <2>2 DEF InBlock
<1>4. y + t = y \/ (Multiple(y + t) /\ y + t < y + HeaderSize)
  <2>1. CASE t = 0
    <3> HIDE DEF t
    <3> QED BY <2>1
  <2>2. CASE t # 0
    <3>1. s = 0
      BY <2>2, TrailerIs
    <3>2. (y + t) - s = y + t /\ y + t < y + HeaderSize
      <4> HIDE DEF s, t
      <4> QED BY <1>1, <3>1
    <3> QED BY <1>2, <3>2
  <2> QED BY <2>1, <2>2
<1>5. (y + (t + (HeaderSize + l))) - (s + HeaderSize + l) = (y + t) - s
  <2> HIDE DEF s, t
  <2> QED BY <1>1
<1> QED BY <1>1, <1>2, <1>3, <1>4, <1>5

(* A record written whole keeps to the blocks.                             *)
Placed(f, x) ==
  /\ InBlock(f.at, f.at + FullSize(f)) /\ EndAt(f) = f.at + FullSize(f)
  /\ f.at = x \/ (Multiple(f.at) /\ f.at < x + HeaderSize)

LEMMA AddedAligned ==
  ASSUME NEW r \in Nat \ {0}, NEW n \in Nat, NEW b \in 0 .. BlockSize,
         NEW q, Path(n, FirstPoint(b), q), NEW x \in Nat, Multiple(x - b),
         NEW m, m = HeaderSize + LengthAt(n, q[Len(q)]),
         NEW s, s = Parts(r, n, q, Len(q), m), NEW p, Places(s, p)
  PROVE  LET new == Added(r, n, q, Len(q), m, p, x) IN
         /\ \A i \in 1 .. Len(q) : Placed(new[i], x + p[i - 1]) /\ EndAt(new[i]) = x + p[i]
         /\ b = 0 => new[1].at = x
         /\ Multiple((x + p[Len(q)]) - AfterPiece(n, q[Len(q)]))
<1> DEFINE k == Len(q)
           new == Added(r, n, q, k, m, p, x)
           Good(i) == Multiple((x + p[i - 1]) - q[i].at)
           Bad == {i \in 1 .. k : ~Good(i)}
<1>1. k \in Nat /\ k # 0 /\ k \in 1 .. k /\ 1 \in 1 .. k
  BY PathIs
<1>2. ASSUME NEW i \in 1 .. k
      PROVE  /\ q[i] \in Points(n) /\ q[i].at \in 0 .. BlockSize
             /\ LengthAt(n, q[i]) \in Nat
             /\ AfterPiece(n, q[i]) = StartOf(q[i].at) + HeaderSize + LengthAt(n, q[i])
             /\ AfterPiece(n, q[i]) \in HeaderSize .. BlockSize
             /\ Trailer(q[i].at) \in Nat
  <2>1. q[i] \in Points(n)
    BY PathIs
  <2>2. /\ q[i].at \in 0 .. BlockSize /\ LengthAt(n, q[i]) \in Nat
        /\ AfterPiece(n, q[i]) \in HeaderSize .. BlockSize
    BY <2>1, PointNext
  <2>3. Trailer(q[i].at) \in 0 .. HeaderSize - 1
    BY <2>2, TrailerIs
  <2>4. Trailer(q[i].at) \in Nat
    BY <2>3, LogConstants
  <2> QED BY <2>1, <2>2, <2>4 DEF AfterPiece
<1>3. m \in 0 .. HeaderSize + LengthAt(n, q[k])
  <2>1. LengthAt(n, q[k]) \in Nat
    BY <1>1, <1>2
  <2> QED BY <2>1, LogConstants
<1>4. /\ s \in Seq(Seq(LogCell)) /\ Len(s) = k
  <2>1. Len(q) \in 1 .. Len(q)
    BY <1>1
  <2> QED BY <1>3, <2>1, AddedContinues
<1>5. p \in [0 .. k -> Nat] /\ p[0] = 0 /\ \A i \in 1 .. k : p[i] = p[i - 1] + Len(s[i])
  BY <1>4 DEF Places
<1>6. ASSUME NEW i \in 1 .. k
      PROVE  /\ new[i].size = HeaderSize + LengthAt(n, q[i])
             /\ FullSize(new[i]) = HeaderSize + LengthAt(n, q[i])
             /\ new[i].at = (x + p[i - 1]) + Trailer(q[i].at)
             /\ p[i - 1] \in Nat /\ p[i] \in Nat
             /\ p[i] = p[i - 1] + (Trailer(q[i].at) + (HeaderSize + LengthAt(n, q[i])))
  <2>0. k \in 1 .. Len(q)
    BY <1>1
  <2>1. PartRight(new[i], Parts(r, n, q, k, m)[i], Trailer(q[i].at), x + p[i - 1],
                  SizeAt(n, q, k, m, i), HeaderSize + LengthAt(n, q[i]))
    <3>1. p \in [0 .. k -> Nat]
      BY <1>5
    <3> HIDE DEF k
    <3> QED BY <2>0, <3>1, <1>3, PartsAre DEF k
  <2>2. SizeAt(n, q, k, m, i) = HeaderSize + LengthAt(n, q[i])
    BY DEF SizeAt
  <2>3. i \in 0 .. k /\ i - 1 \in 0 .. k
    BY <1>1
  <2>4. p[i - 1] \in Nat /\ p[i] \in Nat /\ p[i] = p[i - 1] + Len(s[i])
    BY <1>5, <2>3
  <2> HIDE DEF new
  <2>5. /\ new[i].size = HeaderSize + LengthAt(n, q[i])
        /\ FullSize(new[i]) = HeaderSize + LengthAt(n, q[i])
        /\ new[i].at = (x + p[i - 1]) + Trailer(q[i].at)
        /\ Len(s[i]) = Trailer(q[i].at) + new[i].size
    BY <2>1, <2>2, Zenon DEF PartRight
  <2> QED BY <2>4, <2>5
<1>7. ASSUME NEW i \in 1 .. k, Good(i)
      PROVE  /\ Placed(new[i], x + p[i - 1]) /\ EndAt(new[i]) = x + p[i]
             /\ Multiple((x + p[i]) - AfterPiece(n, q[i]))
  <2> DEFINE y == x + p[i - 1]
             a == q[i].at
             l == LengthAt(n, q[i])
             t == Trailer(a)
             c == new[i].at
             f == FullSize(new[i])
             v == p[i]
             u == p[i - 1]
  <2>1. /\ y \in Nat /\ a \in 0 .. BlockSize /\ l \in Nat
        /\ t \in Nat /\ u \in Nat /\ v \in Nat
        /\ c = y + t /\ f = HeaderSize + l /\ v = u + (t + (HeaderSize + l)) /\ y = x + u
        /\ StartOf(a) + HeaderSize + l <= BlockSize /\ Multiple(y - a)
    <3>1. AfterPiece(n, q[i]) <= BlockSize
      BY <1>2, LogConstants
    <3>2. u \in Nat
      BY <1>6
    <3>3. y \in Nat
      BY <3>2
    <3> QED BY <3>1, <3>2, <3>3, <1>2, <1>6, <1>7
  <2> HIDE DEF y, a, l, c, f, v, u
  <2>2. /\ InBlock(y + t, (y + t) + (HeaderSize + l))
        /\ y + t = y \/ (Multiple(y + t) /\ y + t < y + HeaderSize)
        /\ Multiple((y + (t + (HeaderSize + l))) - (StartOf(a) + HeaderSize + l))
    BY <2>1, PieceInBlock
  <2> HIDE DEF t
  <2>3. /\ InBlock(c, c + f) /\ (c = y \/ (Multiple(c) /\ c < y + HeaderSize))
    BY <2>1, <2>2
  <2>4. x + v = y + (t + (HeaderSize + l)) /\ c + f = x + v
    BY <2>1, LogConstants
  <2>5. Multiple((x + v) - (StartOf(a) + HeaderSize + l))
    BY <2>2, <2>4
  <2>6. EndAt(new[i]) = c + f
    BY <1>6 DEF EndAt, c, f
  <2>7. AfterPiece(n, q[i]) = StartOf(a) + HeaderSize + l
    BY <1>2 DEF a, l
  <2> QED BY <2>3, <2>4, <2>5, <2>6, <2>7 DEF Placed, c, f, y, v, u
<1>8. Bad = {}
  <2> SUFFICES ASSUME Bad # {} PROVE FALSE
    OBVIOUS
  <2>1. Bad \in SUBSET (0 .. k)
    BY <1>1
  <2> HIDE DEF Good, k
  <2>2. PICK i \in Bad : \A j \in Bad : i <= j
    BY <2>1, <1>1, LeastOf
  <2>3. i \in 1 .. k /\ ~Good(i)
    OBVIOUS
  <2>4. CASE i = 1
    <3>1. q[1] = FirstPoint(b)
      BY PathIs
    <3>2. q[1].at = b
      BY <3>1 DEF FirstPoint
    <3>3. x + p[1 - 1] = x
      <4>1. p[0] = 0 /\ 1 - 1 = 0
        BY <1>5
      <4> QED BY <4>1
    <3>4. Good(1)
      BY <3>2, <3>3 DEF Good
    <3> QED BY <2>3, <2>4, <3>4
  <2>5. CASE i # 1
    <3>1. i - 1 \in 1 .. k /\ i - 1 < i /\ i - 1 \in 1 .. Len(q) - 1 /\ (i - 1) + 1 = i
      BY <2>3, <2>5, <1>1 DEF k
    <3>2. Good(i - 1)
      <4>1. i - 1 \notin Bad
        BY <3>1, <2>2, <2>3
      <4> QED BY <3>1, <4>1
    <3>3. Multiple((x + p[i - 1]) - AfterPiece(n, q[i - 1]))
      BY <3>1, <3>2, <1>7
    <3>4. q[i].at = AfterPiece(n, q[i - 1])
      <4>1. q[(i - 1) + 1].at = AfterPiece(n, q[i - 1])
        BY <3>1, PathIs
      <4> QED BY <3>1, <4>1
    <3> QED BY <2>3, <3>3, <3>4 DEF Good
  <2> QED BY <2>4, <2>5
<1>9. \A i \in 1 .. k : Good(i)
  BY <1>8
<1>10. b = 0 => new[1].at = x
  <2> SUFFICES ASSUME b = 0 PROVE new[1].at = x
    OBVIOUS
  <2>1. q[1].at = 0
    <3>1. q[1] = FirstPoint(b)
      BY PathIs
    <3> QED BY <3>1 DEF FirstPoint
  <2>2. Trailer(q[1].at) = 0
    BY <2>1, <1>1, <1>2, TrailerIs
  <2>3. new[1].at = (x + p[1 - 1]) + Trailer(q[1].at)
    BY <1>1, <1>6
  <2>4. p[1 - 1] = 0
    BY <1>5
  <2> HIDE DEF new
  <2> QED BY <2>2, <2>3, <2>4
<1> HIDE DEF Good
<1>11. /\ \A i \in 1 .. k : Placed(new[i], x + p[i - 1]) /\ EndAt(new[i]) = x + p[i]
       /\ Multiple((x + p[k]) - AfterPiece(n, q[k]))
  BY <1>1, <1>7, <1>9
<1> QED BY <1>10, <1>11

(* An append broken off: its pieces one after the other.                   *)
LEMMA FlattenLast ==
  ASSUME NEW S, NEW s \in Seq(Seq(S)), Len(s) # 0
  PROVE  InLog!FlattenSeq(s) = InLog!FlattenSeq(SubSeq(s, 1, Len(s) - 1)) \o s[Len(s)]
<1> DEFINE n == Len(s)
           t == SubSeq(s, 1, n - 1)
           C == Seq(S)
<1>1. n \in Nat /\ n # 0 /\ n - 1 \in Nat /\ n - 1 <= n /\ n \in 1 .. n /\ s[n] \in C
  OBVIOUS
<1>2. t \in Seq(C) /\ Len(t) = n - 1 /\ \A i \in 1 .. n - 1 : t[i] = s[i]
  <2>1. s \in Seq(C)
    OBVIOUS
  <2> HIDE DEF C
  <2> QED BY <1>1, <2>1, Beginning
<1>3. PICK g \in [0 .. n -> Seq(S)] : Prefixes(s, g)
  BY PrefixesExist
<1>4. g[0] = <<>> /\ \A i \in 1 .. n : g[i] = g[i - 1] \o s[i]
  BY <1>3 DEF Prefixes
<1>5. InLog!FlattenSeq(s) = g[n]
  BY <1>3, FlattenIs
<1>6. g[n] = g[n - 1] \o s[n]
  BY <1>1, <1>4
<1>7. InLog!FlattenSeq(t) = g[n - 1]
  <2>1. CASE n = 1
    <3>1. Len(t) = 0
      BY <2>1, <1>2
    <3> HIDE DEF t
    <3>2. t = <<>>
      BY <3>1, <1>2
    <3>3. InLog!FlattenSeq(t) = t
      BY <3>1 DEF InLog!FlattenSeq
    <3>4. n - 1 = 0
      BY <2>1
    <3> QED BY <3>2, <3>3, <3>4, <1>4
  <2>2. CASE n # 1
    <3> DEFINE h == [i \in 0 .. n - 1 |-> g[i]]
    <3>1. h \in [0 .. n - 1 -> C]
      <4>1. \A i \in 0 .. n - 1 : i \in 0 .. n
        BY <1>1
      <4> QED BY <4>1
    <3>2. Prefixes(t, h)
      <4>1. h[0] = <<>>
        BY <1>1, <1>4
      <4>2. ASSUME NEW i \in 1 .. n - 1 PROVE h[i] = h[i - 1] \o t[i]
        <5>1. i \in 0 .. n - 1 /\ i - 1 \in 0 .. n - 1 /\ i \in 1 .. n
          BY <1>1
        <5>2. h[i] = g[i] /\ h[i - 1] = g[i - 1] /\ t[i] = s[i]
          BY <5>1, <1>2
        <5> QED BY <5>1, <5>2, <1>4
      <4> HIDE DEF h, t
      <4> QED BY <1>2, <4>1, <4>2 DEF Prefixes
    <3>3. h[n - 1] = g[n - 1]
      BY <1>1
    <3> HIDE DEF h, t
    <3>4. Len(t) # 0 /\ t \in Seq(Seq(S)) /\ h \in [0 .. Len(t) -> Seq(S)]
      BY <3>1, <1>1, <1>2, <2>2 DEF C
    <3>5. InLog!FlattenSeq(t) = h[Len(t)]
      BY <3>2, <3>4, FlattenIs
    <3> QED BY <3>3, <3>5, <1>2
  <2> QED BY <2>1, <2>2
<1> HIDE DEF t
<1> QED BY <1>5, <1>6, <1>7 DEF t

(* The file after an append.                                               *)
NextRecord(fs, r) == IF fs = <<>> THEN r = 1 ELSE r = fs[Len(fs)].rec + 1

Grown(fs, new, gs, w, x) ==
  /\ Layout(gs) /\ LastEnd(gs) = x + w
  /\ Len(fs) \in Nat /\ Len(new) \in Nat /\ Len(new) # 0
  /\ Len(gs) = Len(fs) + Len(new) /\ DOMAIN gs = 1 .. Len(fs) + Len(new)
  /\ \A i \in 1 .. Len(fs) : gs[i] = fs[i] /\ EndAt(fs[i]) <= x
  /\ \A i \in 1 .. Len(new) : gs[Len(fs) + i] = new[i] /\ Len(fs) + i \in 1 .. Len(fs) + Len(new)

LEMMA LayoutGrows ==
  ASSUME NEW fs, Layout(fs), NEW new, NEW T, NEW r \in Nat \ {0}, NEW n \in Nat, NEW x \in Nat,
         Continues(new, T, r, n, x), LastEnd(fs) = x,
         NextRecord(fs, r)
  PROVE  Grown(fs, new, fs \o new, Len(T), x)
<1> DEFINE gs == fs \o new
           a == Len(fs)
           b == Len(new)
<1>1. /\ fs \in Seq(Fragment) /\ new \in Seq(Fragment) /\ b # 0 /\ T \in Seq(LogCell)
      /\ a \in Nat /\ b \in Nat
  BY DEF Layout, Continues
<1>2. /\ gs \in Seq(Fragment) /\ Len(gs) = a + b /\ DOMAIN gs = 1 .. a + b
      /\ \A i \in 1 .. a : gs[i] = fs[i]
      /\ \A i \in 1 .. b : gs[a + i] = new[i]
  <2>1. fs \in Seq(Fragment) /\ new \in Seq(Fragment)
    BY <1>1
  <2> QED BY ONLY <2>1, Joined
<1>3. \A i \in 1 .. b : a + i \in 1 .. a + b
  BY <1>1
<1>4. \A i \in 1 .. a : /\ FragmentRight(fs[i]) /\ fs[i].at \in Nat /\ EndAt(fs[i]) \in Nat
                        /\ fs[i].at <= EndAt(fs[i])
  <2>1. DOMAIN fs = 1 .. a
    BY <1>1
  <2> HIDE DEF a
  <2> QED BY <2>1, InLayout
<1>5. \A i \in 1 .. a : EndAt(fs[i]) <= x
  <2> SUFFICES ASSUME NEW i \in 1 .. a PROVE EndAt(fs[i]) <= x
    OBVIOUS
  <2>1. fs # <<>> /\ x = EndAt(fs[a]) /\ i \in DOMAIN fs /\ a \in DOMAIN fs
    BY <1>1 DEF LastEnd
  <2>2. CASE i = a
    BY <2>1, <2>2, <1>4
  <2>3. CASE i # a
    <3>1. i < a
      BY <2>3, <1>1
    <3>2. EndAt(fs[i]) <= fs[a].at
      BY <2>1, <3>1, LayoutOrder
    <3>3. /\ fs[a].at <= EndAt(fs[a]) /\ fs[a].at \in Nat
          /\ EndAt(fs[a]) \in Nat /\ EndAt(fs[i]) \in Nat
      BY <2>1, <1>1, <1>4
    <3> QED BY <2>1, <3>2, <3>3
  <2> QED BY <2>2, <2>3
<1>6. \A i \in 1 .. a + b : i \in 1 .. a \/ (i - a \in 1 .. b /\ a + (i - a) = i)
  BY <1>1
<1>7. ASSUME NEW i \in 1 .. b
      PROVE  /\ FragmentRight(new[i]) /\ new[i].rec = r /\ (new[i].begin <=> i = 1)
             /\ x <= new[i].at
  BY DEF Continues
<1> HIDE DEF gs, a, b
<1>8. \A i \in 1 .. a + b : FragmentRight(gs[i])
  <2> SUFFICES ASSUME NEW i \in 1 .. a + b PROVE FragmentRight(gs[i])
    OBVIOUS
  <2>1. CASE i \in 1 .. a
    BY <2>1, <1>2, <1>4
  <2>2. CASE i - a \in 1 .. b /\ a + (i - a) = i
    <3>1. gs[a + (i - a)] = new[i - a]
      BY <2>2, <1>2
    <3> QED BY <2>2, <3>1, <1>7
  <2> QED BY <2>1, <2>2, <1>6
<1>9. fs = <<>> <=> a = 0
  BY <1>1 DEF a
<1>10. 1 \in 1 .. b /\ new[1].rec = r /\ new[1].begin
  <2>1. 1 \in 1 .. b
    BY <1>1
  <2> QED BY <2>1, <1>7
<1>11. gs[1].rec = 1 /\ gs[1].begin
  <2>1. CASE a = 0
    <3>1. gs[0 + 1] = new[1]
      BY <2>1, <1>2, <1>10
    <3> QED BY <3>1, <2>1, <1>9, <1>10 DEF NextRecord
  <2>2. CASE a # 0
    <3>1. gs[1] = fs[1] /\ fs # <<>>
      <4>1. 1 \in 1 .. a
        BY <2>2, <1>1
      <4> QED BY <4>1, <2>2, <1>2, <1>9
    <3> QED BY <3>1 DEF Layout
  <2> QED BY <2>1, <2>2
<1>12. ASSUME NEW i \in 1 .. (a + b) - 1
       PROVE  Follows(gs[i], gs[i + 1])
  <2>1. CASE i < a
    <3>1. i \in 1 .. a /\ i + 1 \in 1 .. a /\ i \in 1 .. a - 1
      BY <2>1, <1>1
    <3>2. Follows(fs[i], fs[i + 1])
      BY <3>1 DEF Layout, a
    <3> QED BY <3>1, <3>2, <1>2
  <2>2. CASE i = a
    <3>1. a \in 1 .. a /\ a # 0
      BY <2>2, <1>1
    <3>2. gs[i] = fs[a] /\ gs[i + 1] = new[1]
      BY <2>2, <3>1, <1>2, <1>10
    <3>3. EndAt(fs[a]) <= new[1].at
      <4>1. x = EndAt(fs[a])
        BY <3>1, <1>9 DEF LastEnd, a
      <4>2. x <= new[1].at
        BY <1>7, <1>10
      <4> QED BY <4>1, <4>2
    <3>4. new[1].rec = fs[a].rec + 1
      BY <3>1, <1>9, <1>10 DEF NextRecord, a
    <3> QED BY <3>2, <3>3, <3>4, <1>10 DEF Follows
  <2>3. CASE ~(i <= a)
    <3> DEFINE j == i - a
    <3>1. /\ j \in 1 .. b - 1 /\ j \in 1 .. b /\ j + 1 \in 1 .. b
          /\ a + j = i /\ a + (j + 1) = i + 1 /\ j + 1 # 1
      BY <2>3, <1>1
    <3> HIDE DEF j
    <3>2. gs[i] = new[j] /\ gs[i + 1] = new[j + 1]
      <4>1. gs[a + j] = new[j] /\ gs[a + (j + 1)] = new[j + 1]
        BY <3>1, <1>2
      <4> QED BY <4>1, <3>1
    <3>3. /\ Complete(new[j]) /\ ~new[j].end /\ new[j + 1].from = new[j].to
          /\ EndAt(new[j]) <= new[j + 1].at
      BY <3>1 DEF Continues, b
    <3>4. new[j].rec = r /\ new[j + 1].rec = r /\ ~new[j + 1].begin
      BY <3>1, <1>7
    <3> QED BY <3>2, <3>3, <3>4 DEF Follows
  <2>4. i < a \/ i = a \/ ~(i <= a)
    BY <1>1
  <2> QED BY <2>1, <2>2, <2>3, <2>4
<1>13. Layout(gs)
  BY <1>2, <1>8, <1>11, <1>12 DEF Layout
<1>14. LastEnd(gs) = x + Len(T)
  <2>1. gs # <<>> /\ Len(gs) = a + b /\ b \in 1 .. b
    <3>1. Len(gs) # 0
      BY <1>1, <1>2
    <3>2. Len(<<>>) = 0
      OBVIOUS
    <3> QED BY <3>1, <3>2, <1>1, <1>2
  <2>2. gs[a + b] = new[b]
    BY <2>1, <1>2
  <2>3. EndAt(new[b]) = x + Len(T)
    BY DEF Continues, b
  <2> QED BY <2>1, <2>2, <2>3 DEF LastEnd
<1> QED BY <1>1, <1>2, <1>3, <1>5, <1>13, <1>14 DEF gs, a, b, Grown

LEMMA CellsGrow ==
  ASSUME NEW fs, Layout(fs), NEW new, NEW T, NEW r \in Nat \ {0}, NEW n \in Nat,
         Continues(new, T, r, n, Len(log)), LastEnd(fs) = Len(log),
         NextRecord(fs, r),
         CellsRight(fs), log' = log \o T, damaged' = damaged
  PROVE  CellsRight(fs \o new)'
<1> DEFINE gs == fs \o new
           x == Len(log)
           w == Len(T)
<1>1. /\ log \in Seq(LogCell) /\ x \in Nat /\ T \in Seq(LogCell) /\ w \in Nat
      /\ DOMAIN log = 1 .. x
  BY DEF CellsRight, Continues
<1>2. /\ log' \in Seq(LogCell) /\ Len(log') = x + w /\ DOMAIN log' = 1 .. x + w
      /\ \A p \in 1 .. x : log'[p] = log[p]
      /\ \A p \in 1 .. w : log'[x + p] = T[p]
  <2>1. log \in Seq(LogCell) /\ T \in Seq(LogCell)
    BY <1>1
  <2> DEFINE u == log \o T
  <2>2. /\ u \in Seq(LogCell) /\ Len(u) = x + w /\ DOMAIN u = 1 .. x + w
        /\ \A p \in 1 .. x : u[p] = log[p]
        /\ \A p \in 1 .. w : u[x + p] = T[p]
    BY ONLY <2>1, Joined
  <2>3. log' = u
    OBVIOUS
  <2> HIDE DEF u, x, w
  <2> QED BY <2>2, <2>3
<1>3. /\ Len(fs) \in Nat /\ Len(new) \in Nat /\ LastEnd(gs) = x + w
      /\ DOMAIN gs = 1 .. Len(fs) + Len(new) /\ DOMAIN fs = 1 .. Len(fs)
      /\ \A i \in 1 .. Len(fs) : gs[i] = fs[i] /\ EndAt(fs[i]) <= x
      /\ \A i \in 1 .. Len(new) : gs[Len(fs) + i] = new[i] /\ Len(fs) + i \in DOMAIN gs
  <2>1. x \in Nat /\ DOMAIN fs = 1 .. Len(fs)
    BY <1>1, InLayout
  <2>2. Grown(fs, new, fs \o new, Len(T), x)
    <3> HIDE DEF x
    <3> QED BY <2>1, LayoutGrows DEF x
  <2>3. Grown(fs, new, gs, w, x)
    BY <2>2
  <2> HIDE DEF gs, w, x
  <2> QED BY <2>1, <2>3 DEF Grown
<1>4. /\ \A i \in DOMAIN fs : \A p \in DOMAIN log \ damaged :
           Within(p, fs[i]) => log[p] = CellOf(fs[i], p - fs[i].at)
      /\ \A p \in DOMAIN log :
           log[p] \in {ZeroCell, BadCell} \/ \E i \in DOMAIN fs : Within(p, fs[i])
      /\ damaged \subseteq DOMAIN log /\ \A p \in damaged : log[p] = BadCell
  BY DEF CellsRight
<1> HIDE DEF gs, x, w
<1>5. \A p \in DOMAIN log' : p \in 1 .. x \/ (p - x \in 1 .. w /\ x + (p - x) = p)
  BY <1>1, <1>2
<1>6. ASSUME NEW i \in DOMAIN gs, NEW p \in (DOMAIN log') \ damaged, Within(p, gs[i])
      PROVE  log'[p] = CellOf(gs[i], p - gs[i].at)
  <2>0. p \in Nat /\ i \in Nat
    BY <1>2, <1>3
  <2>1. CASE i \in 1 .. Len(fs)
    <3>1. gs[i] = fs[i] /\ EndAt(fs[i]) <= x /\ i \in DOMAIN fs
      BY <2>1, <1>3
    <3>2. EndAt(fs[i]) \in Nat
      BY <3>1, InLayout
    <3>3. p <= EndAt(fs[i])
      BY <3>1, <1>6 DEF Within
    <3>4. p \in 1 .. x
      BY <2>0, <3>1, <3>2, <3>3, <1>1, <1>2
    <3>5. log[p] = CellOf(fs[i], p - fs[i].at)
      BY <3>1, <3>4, <1>1, <1>4, <1>6
    <3> QED BY <3>1, <3>4, <3>5, <1>2
  <2>2. CASE i \notin 1 .. Len(fs)
    <3> DEFINE j == i - Len(fs)
    <3>1. j \in 1 .. Len(new) /\ Len(fs) + j = i
      BY <2>0, <2>2, <1>3
    <3>2. gs[i] = new[j]
      <4>1. gs[Len(fs) + j] = new[j]
        BY <3>1, <1>3
      <4> QED BY <3>1, <4>1
    <3> DEFINE f == new[j]
               c == p - f.at
    <3>3. /\ f \in Fragment /\ x <= f.at /\ EndAt(f) <= x + w
          /\ \A d \in 1 .. f.size : T[(f.at - x) + d] = CellOf(f, d)
      <4>1. new \in Seq(Fragment)
        BY DEF Continues
      <4>2. new[j] \in Fragment
        BY <3>1, <4>1
      <4> QED BY <3>1, <4>2 DEF Continues, x, w
    <3>4. f.at \in Nat /\ f.size \in Nat /\ f.at < p /\ p <= f.at + f.size
      BY <3>2, <3>3, <1>6 DEF Fragment, Within, EndAt
    <3>5. f.at + f.size <= x + w
      BY <3>3 DEF EndAt
    <3>6. f.at < p /\ p <= f.at + f.size /\ x <= f.at
      BY <3>3, <3>4
    <3>7. c \in 1 .. f.size /\ (f.at - x) + c = p - x /\ p - x \in 1 .. w /\ x + (p - x) = p
      <4> DEFINE a == f.at
                 z == f.size
      <4>1. /\ a \in Nat /\ z \in Nat /\ a < p /\ p <= a + z
            /\ x <= a /\ a + z <= x + w /\ c = p - a
        BY <3>4, <3>5, <3>6
      <4>2. c \in 1 .. z /\ (a - x) + c = p - x /\ p - x \in 1 .. w /\ x + (p - x) = p
        <5> HIDE DEF a, z, c
        <5> QED BY <2>0, <4>1, <1>1
      <4> QED BY <4>2
    <3> HIDE DEF f, c
    <3>8. T[p - x] = CellOf(f, c)
      <4>1. T[(f.at - x) + c] = CellOf(f, c)
        BY <3>3, <3>7
      <4> QED BY <3>7, <4>1
    <3>9. log'[p] = T[p - x]
      <4>1. log'[x + (p - x)] = T[p - x]
        BY <3>7, <1>2
      <4> QED BY <3>7, <4>1
    <3> QED BY <3>2, <3>8, <3>9 DEF c, f
  <2> QED BY <2>1, <2>2
<1>7. ASSUME NEW p \in DOMAIN log', log'[p] \notin {ZeroCell, BadCell}
      PROVE  \E i \in DOMAIN gs : Within(p, gs[i])
  <2>1. CASE p \in 1 .. x
    <3>1. log'[p] = log[p]
      BY <2>1, <1>2
    <3>2. \E i \in DOMAIN fs : Within(p, fs[i])
      BY <2>1, <3>1, <1>1, <1>4, <1>7
    <3>3. \A i \in DOMAIN fs : i \in DOMAIN gs /\ gs[i] = fs[i]
      BY <1>3
    <3> QED BY <3>2, <3>3
  <2>2. CASE p - x \in 1 .. w /\ x + (p - x) = p
    <3>1. log'[p] = T[p - x]
      <4>1. log'[x + (p - x)] = T[p - x]
        BY <2>2, <1>2
      <4> QED BY <2>2, <4>1
    <3>2. \E i \in 1 .. Len(new) : Within(x + (p - x), new[i])
      BY <2>2, <3>1, <1>7 DEF Continues, x, w
    <3>3. PICK i \in 1 .. Len(new) : Within(x + (p - x), new[i])
      BY <3>2
    <3>4. gs[Len(fs) + i] = new[i] /\ Len(fs) + i \in DOMAIN gs
      BY <1>3
    <3>5. Within(p, gs[Len(fs) + i])
      BY <2>2, <3>3, <3>4
    <3> QED BY <3>4, <3>5
  <2> QED BY <2>1, <2>2, <1>5
<1>8. damaged \subseteq DOMAIN log' /\ \A p \in damaged : log'[p] = BadCell
  <2>1. \A p \in damaged : p \in 1 .. x
    BY <1>1, <1>4
  <2>2. \A p \in 1 .. x : p \in 1 .. x + w
    BY <1>1
  <2> QED BY <2>1, <2>2, <1>2, <1>4
<1>9. Len(log') <= LastEnd(gs) /\ Len(log') = LastEnd(gs)
  BY <1>1, <1>2, <1>3
<1> QED BY <1>2, <1>6, <1>7, <1>8, <1>9 DEF CellsRight, gs

LEMMA LastRecord ==
  ASSUME NEW fs, Layout(fs), RecordsRight(fs)
  PROVE  /\ Len(written) \in Nat /\ Len(written) + 1 \in Nat \ {0}
         /\ NextRecord(fs, Len(written) + 1)
<1>1. written \in Seq(Record) /\ Len(written) \in Nat /\ DOMAIN written = 1 .. Len(written)
  BY DEF RecordsRight
<1>2. /\ \A i \in DOMAIN fs : fs[i].rec \in DOMAIN written
      /\ \A r \in DOMAIN written : \E i \in DOMAIN fs : fs[i].rec = r
  BY DEF RecordsRight, InRecord
<1>3. Len(fs) \in Nat /\ DOMAIN fs = 1 .. Len(fs) /\ \A i \in DOMAIN fs : fs[i].rec \in Nat
  BY InLayout
<1>4. CASE fs = <<>>
  <2>1. DOMAIN fs = {}
    BY <1>4
  <2>2. DOMAIN written = {}
    BY <2>1, <1>2
  <2>3. Len(written) = 0
    <3> SUFFICES ASSUME Len(written) # 0 PROVE FALSE
      OBVIOUS
    <3>1. Len(written) \in 1 .. Len(written)
      BY <1>1
    <3> QED BY <3>1, <2>2, <1>1
  <2> QED BY <2>3, <1>1, <1>4 DEF NextRecord
<1>5. CASE fs # <<>>
  <2> DEFINE n == Len(fs)
  <2>1. n \in DOMAIN fs
    <3>1. Len(fs) # 0
      BY <1>5 DEF Layout
    <3> QED BY <3>1, <1>3
  <2>2. fs[n].rec \in 1 .. Len(written)
    BY <2>1, <1>1, <1>2
  <2>3. PICK i \in DOMAIN fs : fs[i].rec = Len(written)
    BY <2>2, <1>1, <1>2
  <2>4. fs[i].rec <= fs[n].rec
    <3>1. CASE i = n
      BY <3>1, <2>3, <1>1
    <3>2. CASE i # n
      <4>1. i < n
        BY <3>2, <1>3
      <4> QED BY <4>1, <2>1, LayoutOrder
    <3> QED BY <3>1, <3>2
  <2>5. fs[n].rec = Len(written)
    BY <2>2, <2>3, <2>4, <1>1
  <2> QED BY <2>5, <1>1, <1>5 DEF NextRecord
<1> QED BY <1>4, <1>5

LEMMA RecordsGrow ==
  ASSUME NEW fs, Layout(fs), NEW new, NEW T, NEW n \in Nat,
         Continues(new, T, Len(written) + 1, n, Len(log)), log \in Seq(LogCell),
         Grown(fs, new, fs \o new, Len(T), Len(log)), RecordsRight(fs), NEW W \in BOOLEAN,
         written' = Append(written, [len |-> n, start |-> new[1].at, end |-> Len(log) + Len(T),
                                     whole |-> W]),
         W => Complete(new[Len(new)]) /\ new[Len(new)].end,
         torn' = torn \/ (torn = 0 /\ torn' = Len(written')), W \/ torn' # 0
  PROVE  RecordsRight(fs \o new)'
<1> DEFINE gs == fs \o new
           v == [len |-> n, start |-> new[1].at, end |-> Len(log) + Len(T), whole |-> W]
           r == Len(written) + 1
           a == Len(fs)
           b == Len(new)
<1>1. /\ written \in Seq(Record) /\ Len(written) \in Nat
      /\ DOMAIN written = 1 .. Len(written)
      /\ torn \in 0 .. Len(written)
  BY DEF RecordsRight
<1>2. /\ \A i \in DOMAIN fs : InRecord(fs, i)
      /\ \A i \in DOMAIN written : \E j \in DOMAIN fs : fs[j].rec = i /\ fs[j].begin
      /\ \A i \in DOMAIN written : Clean(i) => written[i].whole
  BY DEF RecordsRight
<1>3. /\ a \in Nat /\ b \in Nat /\ b # 0 /\ Len(gs) = a + b /\ DOMAIN gs = 1 .. a + b
      /\ \A i \in 1 .. a : gs[i] = fs[i]
      /\ \A i \in 1 .. b : gs[a + i] = new[i] /\ a + i \in 1 .. a + b
      /\ DOMAIN fs = 1 .. a
  <2>1. DOMAIN fs = 1 .. Len(fs)
    BY InLayout
  <2> QED BY <2>1 DEF Grown
<1>4. /\ new \in Seq(Fragment) /\ T \in Seq(LogCell)
      /\ \A i \in 1 .. b :
           /\ new[i].rec = r /\ (new[i].begin <=> i = 1) /\ (new[i].end => new[i].to = n)
           /\ Len(log) <= new[i].at /\ EndAt(new[i]) <= Len(log) + Len(T)
      /\ \A i \in 1 .. b - 1 :
           /\ Complete(new[i]) /\ ~new[i].end /\ new[i + 1].from = new[i].to
           /\ EndAt(new[i]) <= new[i + 1].at
  BY DEF Continues
<1>5. \A i \in 1 .. b : new[i].at \in Nat /\ EndAt(new[i]) \in Nat /\ new[i].at <= EndAt(new[i])
  <2> SUFFICES ASSUME NEW i \in 1 .. b
               PROVE  /\ new[i].at \in Nat /\ EndAt(new[i]) \in Nat
                      /\ new[i].at <= EndAt(new[i])
    OBVIOUS
  <2> DEFINE f == new[i]
  <2>1. f \in Fragment
    BY <1>4
  <2> HIDE DEF f
  <2>2. f.at \in Nat /\ EndAt(f) \in Nat /\ f.at <= EndAt(f)
    BY <2>1 DEF Fragment, EndAt
  <2> QED BY <2>2 DEF f
<1>6. v \in Record
  <2>1. Len(log) + Len(T) \in Nat
    BY <1>4
  <2>2. 1 \in 1 .. b
    BY <1>3
  <2> HIDE DEF b
  <2>3. new[1].at \in Nat
    BY <2>2, <1>5
  <2> QED BY <2>1, <2>3 DEF Record
<1> HIDE DEF v
<1>7. /\ written' \in Seq(Record) /\ Len(written') = r /\ DOMAIN written' = 1 .. r
      /\ \A i \in 1 .. Len(written) : written'[i] = written[i]
      /\ written'[r] = v
  <2>1. written' = Append(written, v)
    BY DEF v
  <2> QED BY <2>1, <1>1, <1>6
<1>8. torn' \in 0 .. r
  BY <1>1, <1>7
<1> HIDE DEF gs, r, a, b
<1>9. r \in Nat /\ \A i \in 1 .. r : i \in 1 .. Len(written) \/ i = r
  BY <1>1 DEF r
<1>10. \A i \in 1 .. a + b : i \in 1 .. a \/ (i - a \in 1 .. b /\ a + (i - a) = i)
  BY <1>3
<1>11. \A i \in 1 .. Len(written) : i \in 1 .. r
  BY <1>1 DEF r
<1>12. ASSUME NEW i \in 1 .. a PROVE InRecord(gs, i)'
  <2>1. gs[i] = fs[i] /\ InRecord(fs, i) /\ i \in DOMAIN fs
    BY <1>2, <1>3
  <2> DEFINE f == fs[i]
             w == written[f.rec]
  <2>2. /\ f.rec \in DOMAIN written
        /\ f.begin => w.start = f.at
        /\ f.end => f.to = w.len
        /\ w.start <= f.at /\ EndAt(f) <= w.end
        /\ w.whole => Complete(f)
        /\ w.whole /\ ~f.end => i < Len(fs) /\ fs[i + 1].rec = f.rec
    BY <2>1 DEF InRecord
  <2>3. written'[f.rec] = w /\ f.rec \in DOMAIN written'
    BY <2>2, <1>1, <1>7, <1>11
  <2>4. i < Len(fs) => i < Len(gs) /\ gs[i + 1] = fs[i + 1]
    <3> SUFFICES ASSUME i < Len(fs) PROVE i < Len(gs) /\ gs[i + 1] = fs[i + 1]
      OBVIOUS
    <3>1. i + 1 \in 1 .. a /\ i < a + b
      BY <1>3 DEF a
    <3> QED BY <3>1, <1>3
  <2> HIDE DEF f, w
  <2>5. gs[i] = f
    BY <2>1 DEF f
  <2> QED BY <2>2, <2>3, <2>4, <2>5 DEF InRecord
<1>13. ASSUME NEW i \in 1 .. b PROVE InRecord(gs, a + i)'
  <2> DEFINE f == new[i]
  <2>1. gs[a + i] = f /\ f.rec = r /\ (f.begin <=> i = 1) /\ (f.end => f.to = n)
    BY <1>3, <1>4
  <2>2. written'[f.rec] = v /\ f.rec \in DOMAIN written'
    BY <2>1, <1>7, <1>9
  <2>3. v.len = n /\ v.start = new[1].at /\ v.end = Len(log) + Len(T) /\ v.whole = W
    BY DEF v
  <2>4. f.begin => v.start = f.at
    BY <2>1, <2>3
  <2>5. v.start <= f.at
    <3>1. 1 \in 1 .. b
      BY <1>3
    <3>2. CASE i = 1
      <4>1. new[1].at \in Nat
        BY <3>1, <1>5
      <4> QED BY <4>1, <3>2, <2>3
    <3>3. CASE i # 1
      <4> DEFINE Bad == {j \in 1 .. b : ~(new[1].at <= new[j].at)}
      <4>1. Bad = {}
        <5> SUFFICES ASSUME Bad # {} PROVE FALSE
          OBVIOUS
        <5>1. Bad \in SUBSET (0 .. b)
          BY <1>3
        <5>2. PICK j \in Bad : \A k \in Bad : j <= k
          BY <5>1, <1>3, LeastOf
        <5>3. j \in 1 .. b /\ ~(new[1].at <= new[j].at)
          OBVIOUS
        <5>4. j # 1
          BY <3>1, <5>3, <1>5
        <5>5. j - 1 \in 1 .. b - 1 /\ j - 1 \in 1 .. b /\ (j - 1) + 1 = j /\ j - 1 < j
          BY <5>3, <5>4, <1>3
        <5>6. new[1].at <= new[j - 1].at
          BY <5>2, <5>3, <5>5
        <5>7. EndAt(new[j - 1]) <= new[j].at
          <6>1. EndAt(new[j - 1]) <= new[(j - 1) + 1].at
            BY <5>5, <1>4
          <6> QED BY <6>1, <5>5
        <5>8. /\ new[1].at \in Nat /\ new[j - 1].at \in Nat /\ EndAt(new[j - 1]) \in Nat
              /\ new[j - 1].at <= EndAt(new[j - 1]) /\ new[j].at \in Nat
          BY <3>1, <5>3, <5>5, <1>5
        <5> QED BY ONLY <5>3, <5>6, <5>7, <5>8
      <4> QED BY <4>1, <2>3
    <3> QED BY <3>2, <3>3
  <2>6. EndAt(f) <= v.end
    BY <2>3, <1>4
  <2>7. W => Complete(f)
    <3> SUFFICES ASSUME W PROVE Complete(f)
      OBVIOUS
    <3>1. CASE i = b
      BY <3>1 DEF b
    <3>2. CASE i # b
      <4>1. i \in 1 .. b - 1
        BY <3>2, <1>3
      <4> QED BY <4>1, <1>4
    <3> QED BY <3>1, <3>2
  <2>8. W /\ ~f.end => a + i < Len(gs) /\ gs[(a + i) + 1].rec = f.rec
    <3> SUFFICES ASSUME W, ~f.end PROVE a + i < Len(gs) /\ gs[(a + i) + 1].rec = f.rec
      OBVIOUS
    <3>1. i # b
      BY DEF b
    <3>2. i + 1 \in 1 .. b /\ a + (i + 1) = (a + i) + 1 /\ a + i < a + b
      BY <3>1, <1>3
    <3>3. gs[a + (i + 1)] = new[i + 1] /\ new[i + 1].rec = r
      BY <3>2, <1>3, <1>4
    <3> QED BY <3>2, <3>3, <2>1, <1>3
  <2> HIDE DEF f
  <2> QED BY <2>1, <2>2, <2>3, <2>4, <2>5, <2>6, <2>7, <2>8 DEF InRecord
<1>14. \A i \in DOMAIN gs : InRecord(gs, i)'
  BY <1>3, <1>10, <1>12, <1>13
<1>15. ASSUME NEW i \in DOMAIN written'
       PROVE  \E j \in DOMAIN gs : gs[j].rec = i /\ gs[j].begin
  <2>1. CASE i \in 1 .. Len(written)
    <3>1. PICK j \in DOMAIN fs : fs[j].rec = i /\ fs[j].begin
      BY <2>1, <1>1, <1>2
    <3>2. j \in 1 .. a /\ j \in 1 .. a + b
      BY <1>3
    <3> QED BY <3>1, <3>2, <1>3
  <2>2. CASE i = r
    <3>1. 1 \in 1 .. b
      BY <1>3
    <3>2. gs[a + 1] = new[1] /\ a + 1 \in 1 .. a + b /\ new[1].rec = r /\ new[1].begin
      BY <3>1, <1>3, <1>4
    <3> QED BY <2>2, <3>2, <1>3
  <2> QED BY <2>1, <2>2, <1>7, <1>9
<1>16. ASSUME NEW i \in DOMAIN written', Clean(i)'
       PROVE  written'[i].whole
  <2>1. torn' = 0 \/ i < torn'
    BY <1>16 DEF Clean
  <2>2. CASE i \in 1 .. Len(written)
    <3>1. Clean(i)
      BY <2>1, <2>2, <1>1, <1>7 DEF Clean
    <3> QED BY <2>2, <3>1, <1>1, <1>2, <1>7
  <2>3. CASE i = r
    <3>1. torn' = 0
      BY <2>1, <2>3, <1>8, <1>9
    <3>2. W
      BY <3>1
    <3> QED BY <2>3, <3>2, <1>7 DEF v
  <2> QED BY <2>2, <2>3, <1>7, <1>9
<1> QED BY <1>7, <1>8, <1>14, <1>15, <1>16 DEF RecordsRight, gs

(* Blocks after an append: a record written whole keeps to them, and a     *)
(* torn one is not to.                                                     *)
AllPlaced(new, p, x, b) ==
  /\ p[0] = 0
  /\ \A i \in 1 .. Len(new) : Placed(new[i], x + p[i - 1]) /\ EndAt(new[i]) = x + p[i]
  /\ Multiple((x + p[Len(new)]) - b)

LEMMA AlignedGrows ==
  ASSUME NEW fs, Layout(fs), RecordsRight(fs), AlignedRight(fs), NEW new, NEW T, NEW n \in Nat,
         Continues(new, T, Len(written) + 1, n, Len(log)), log \in Seq(LogCell),
         Grown(fs, new, fs \o new, Len(T), Len(log)), LastEnd(fs) = Len(log),
         blockOffset' \in 0 .. BlockSize, Len(written') = Len(written) + 1,
         torn' = torn \/ (torn = 0 /\ torn' = Len(written')), NEW p,
         torn' = 0 => /\ AllPlaced(new, p, Len(log), blockOffset')
                      /\ fs = <<>> => new[1].at = Len(log)
  PROVE  AlignedRight(fs \o new)'
<1> DEFINE gs == fs \o new
           r == Len(written) + 1
           a == Len(fs)
           b == Len(new)
           x == Len(log)
<1>1. /\ written \in Seq(Record) /\ Len(written) \in Nat
      /\ DOMAIN written = 1 .. Len(written)
      /\ torn \in 0 .. Len(written) /\ x \in Nat
      /\ \A i \in DOMAIN fs : fs[i].rec \in DOMAIN written
  BY DEF RecordsRight, InRecord
<1>2. /\ a \in Nat /\ b \in Nat /\ b # 0 /\ Len(gs) = a + b /\ DOMAIN gs = 1 .. a + b
      /\ \A i \in 1 .. a : gs[i] = fs[i]
      /\ \A i \in 1 .. b : gs[a + i] = new[i] /\ a + i \in 1 .. a + b
      /\ DOMAIN fs = 1 .. a /\ LastEnd(gs) = x + Len(T)
  <2>1. DOMAIN fs = 1 .. Len(fs)
    BY InLayout
  <2> QED BY <2>1 DEF Grown
<1>3. /\ \A i \in 1 .. b : new[i].rec = r
      /\ EndAt(new[b]) = x + Len(T)
  BY DEF Continues
<1>4. \A i \in DOMAIN fs : Clean(fs[i].rec) => Aligned(fs, i)
  BY DEF AlignedRight
<1>5. fs = <<>> <=> a = 0
  BY DEF Layout
<1> HIDE DEF gs, r, a, b, x
<1>6. \A i \in 1 .. a + b : i \in 1 .. a \/ (i - a \in 1 .. b /\ a + (i - a) = i)
  BY <1>2
<1>7. ASSUME NEW i \in 1 .. a, Clean(gs[i].rec)' PROVE Aligned(gs, i)
  <2>1. gs[i] = fs[i] /\ i \in DOMAIN fs
    BY <1>2
  <2>2. Clean(fs[i].rec)
    <3>1. torn' = 0 \/ fs[i].rec < torn'
      BY <1>7, <2>1 DEF Clean
    <3>2. CASE torn' = torn
      BY <3>1, <3>2 DEF Clean
    <3>3. CASE torn = 0
      BY <3>3 DEF Clean
    <3> QED BY <3>2, <3>3
  <2>3. Aligned(fs, i)
    BY <2>1, <2>2, <1>4
  <2>4. i > 1 => gs[i - 1] = fs[i - 1]
    <3> SUFFICES ASSUME i > 1 PROVE gs[i - 1] = fs[i - 1]
      OBVIOUS
    <3>1. i - 1 \in 1 .. a
      BY <1>2
    <3> QED BY <3>1, <1>2
  <2> QED BY <2>1, <2>3, <2>4 DEF Aligned
<1>8. ASSUME NEW i \in 1 .. b, Clean(gs[a + i].rec)' PROVE torn' = 0 /\ Aligned(gs, a + i)
  <2>1. gs[a + i] = new[i] /\ new[i].rec = r
    BY <1>2, <1>3
  <2>2. torn' = 0
    <3>1. torn' = 0 \/ r < torn'
      BY <1>8, <2>1 DEF Clean
    <3>2. r \in Nat /\ torn' \in 0 .. r
      BY <1>1 DEF r
    <3> QED BY <3>1, <3>2
  <2>3. /\ p[0] = 0 /\ Placed(new[i], x + p[i - 1]) /\ (fs = <<>> => new[1].at = x)
        /\ \A j \in 1 .. b : EndAt(new[j]) = x + p[j]
    BY <2>2 DEF AllPlaced, b, x
  <2>4. /\ InBlock(new[i].at, new[i].at + FullSize(new[i]))
        /\ new[i].at = x + p[i - 1] \/ (Multiple(new[i].at) /\ new[i].at < (x + p[i - 1]) + HeaderSize)
    BY <2>3 DEF Placed
  <2>5. a + i = 1 => new[i].at = 0
    <3> SUFFICES ASSUME a + i = 1 PROVE new[i].at = 0
      OBVIOUS
    <3>1. a = 0 /\ i = 1
      BY <1>2
    <3>2. x = 0
      <4>1. fs = <<>>
        BY <3>1, <1>5
      <4> QED BY <4>1 DEF LastEnd, x
    <3>3. new[1].at = x
      BY <3>1, <2>3, <1>5
    <3> QED BY <3>1, <3>2, <3>3
  <2>6. a + i > 1 => EndAt(gs[(a + i) - 1]) = x + p[i - 1]
    <3> SUFFICES ASSUME a + i > 1 PROVE EndAt(gs[(a + i) - 1]) = x + p[i - 1]
      OBVIOUS
    <3>1. CASE i = 1
      <4>1. a # 0 /\ a \in 1 .. a /\ (a + i) - 1 = a /\ i - 1 = 0
        BY <3>1, <1>2
      <4>2. gs[a] = fs[a] /\ EndAt(fs[a]) = x
        <5>1. LastEnd(fs) = EndAt(fs[a])
          BY <4>1, <1>5 DEF LastEnd, a
        <5>2. gs[a] = fs[a]
          BY <4>1, <1>2
        <5> QED BY <5>1, <5>2 DEF x
      <4>3. p[i - 1] = 0 /\ x + 0 = x
        BY <4>1, <2>3, <1>1
      <4> QED BY <4>1, <4>2, <4>3
    <3>2. CASE i # 1
      <4>1. i - 1 \in 1 .. b /\ (a + i) - 1 = a + (i - 1)
        BY <3>2, <1>2
      <4>2. gs[a + (i - 1)] = new[i - 1] /\ EndAt(new[i - 1]) = x + p[i - 1]
        BY <4>1, <1>2, <2>3
      <4> QED BY <4>1, <4>2
    <3> QED BY <3>1, <3>2
  <2>7. Aligned(gs, a + i)
    <3>1. a + i > 1 => \/ gs[a + i].at = EndAt(gs[(a + i) - 1])
                       \/ Multiple(gs[a + i].at) /\ gs[a + i].at < EndAt(gs[(a + i) - 1]) + HeaderSize
      BY <2>1, <2>4, <2>6
    <3>2. a + i = 1 => gs[a + i].at = 0
      BY <2>1, <2>5
    <3>3. InBlock(gs[a + i].at, gs[a + i].at + FullSize(gs[a + i]))
      BY <2>1, <2>4
    <3> QED BY <3>1, <3>2, <3>3 DEF Aligned
  <2> QED BY <2>2, <2>7
<1>9. ASSUME NEW i \in DOMAIN gs, Clean(gs[i].rec)' PROVE Aligned(gs, i)
  <2>1. CASE i \in 1 .. a
    BY <2>1, <1>7, <1>9
  <2>2. CASE i - a \in 1 .. b /\ a + (i - a) = i
    <3> DEFINE j == i - a
    <3>1. j \in 1 .. b /\ a + j = i
      BY <2>2
    <3> HIDE DEF j
    <3>2. Clean(gs[a + j].rec)'
      BY <3>1, <1>9
    <3>3. Aligned(gs, a + j)
      BY <3>1, <3>2, <1>8
    <3> QED BY <3>1, <3>3
  <2> QED BY <2>1, <2>2, <1>2, <1>6
<1>10. torn' = 0 => Multiple(LastEnd(gs) - blockOffset')
  <2> SUFFICES ASSUME torn' = 0 PROVE Multiple(LastEnd(gs) - blockOffset')
    OBVIOUS
  <2>1. Multiple((x + p[b]) - blockOffset') /\ \A j \in 1 .. b : EndAt(new[j]) = x + p[j]
    BY DEF AllPlaced, b, x
  <2>2. EndAt(new[b]) = x + p[b]
    BY <2>1, <1>2
  <2> QED BY <2>1, <2>2, <1>2, <1>3
<1>11. gs # <<>>
  <2>1. Len(gs) # 0
    BY <1>2
  <2> QED BY <2>1
<1> QED BY <1>9, <1>10, <1>11 DEF AlignedRight, gs

LEMMA NotReading ==
  ASSUME NEW gs, gs \in Seq(Fragment), FileRight(gs)', reader' = InLog!NoReader, read' = <<>>
  PROVE  LogInv'
<1>1. InLog!NoReader \in Reader
  BY DEF InLog!NoReader, Reader, Payloads
<1>2. /\ ~InLog!NoReader.on /\ InLog!NoReader.end = 0
      /\ InLog!NoReader.buffer = <<>> /\ ~InLog!NoReader.eof
      /\ ~InLog!NoReader.fragmented
  BY DEF InLog!NoReader
<1>3. At' = 0
  <2>1. reader'.end = 0 /\ reader'.buffer = <<>>
    BY <1>2
  <2>2. Len(<<>>) = 0
    OBVIOUS
  <2>3. At' = reader'.end - Len(reader'.buffer)
    BY DEF At
  <2>4. Len(reader'.buffer) = 0
    BY <2>1, <2>2, Zenon
  <2>5. At' = 0 - 0
    BY <2>1, <2>3, <2>4, Zenon
  <2> QED BY <2>5
<1>4. log' \in Seq(LogCell) /\ Len(log') \in Nat
  BY DEF FileRight, CellsRight
<1>5. ReaderRight'
  <2>1. read' \in Seq(Payloads)
    OBVIOUS
  <2>2. Multiple(0) /\ InBlock(0, 0)
    <3>1. 0 <= 0 /\ 0 <= 0 + BlockSize
      BY LogConstants
    <3> QED BY <3>1, MultipleNext DEF InBlock
  <2>3. InBlock(At, reader.end)'
    BY <2>2, <1>2, <1>3 DEF InBlock
  <2>4. DOMAIN reader'.buffer = {}
    BY <1>2
  <2>5. reader' \in Reader
    BY <1>1
  <2>6. reader'.end <= Len(log') /\ Len(reader'.buffer) <= reader'.end
    BY <1>2, <1>4
  <2>7. IF reader'.eof THEN reader'.end = Len(log') ELSE Multiple(reader'.end)
    BY <2>2, <1>2
  <2>8. reader'.resyncing => ~reader'.fragmented
    BY <1>2
  <2> QED BY <2>1, <2>3, <2>4, <2>5, <2>6, <2>7, <2>8 DEF ReaderRight
<1>6. ReadRight(gs)'
  <2> DEFINE rs == [i \in {} |-> 0]
  <2>1. DOMAIN read' = {}
    OBVIOUS
  <2>2. rs \in [DOMAIN read' -> DOMAIN written']
    BY <2>1
  <2>3. Returned(rs)' /\ \A k : Earlier(rs, k)'
    <3> HIDE DEF rs
    <3> QED BY <2>1, <2>2 DEF Returned, Earlier
  <2> HIDE DEF rs
  <2> QED BY <2>2, <2>3, <1>2 DEF ReadRight
<1>7. DueRight(gs)' /\ QuietRight(gs)'
  BY <1>2 DEF DueRight, QuietRight
<1> QED BY <1>5, <1>6, <1>7 DEF LogInv

-----------------------------------------------------------------------------
(* What is appended to the file is what the fragments hold.                *)
LEMMA PieceCells ==
  ASSUME NEW r \in Nat \ {0}, NEW n \in Nat, NEW b \in 0 .. BlockSize,
         NEW q, Path(n, FirstPoint(b), q), NEW i \in 1 .. Len(q)
  PROVE  /\ Piece(r, n, q[i]).cells \in Seq(LogCell)
         /\ Len(Piece(r, n, q[i]).cells) = HeaderSize + LengthAt(n, q[i])
         /\ LengthAt(n, q[i]) \in Nat
<1> DEFINE l == LengthAt(n, q[i])
           m == HeaderSize + l
           p == [j \in 0 .. i |-> 0]
           f == Added(r, n, q, i, m, p, 0)[i]
           c == Piece(r, n, q[i]).cells
           e == [d \in 1 .. m |-> CellOf(f, d)]
<1>1. l \in Nat /\ m \in Nat /\ m \in 0 .. m
  <2>1. q[i] \in Points(n)
    BY PathIs
  <2>2. l \in Nat
    BY <2>1, PointNext
  <2> QED BY <2>2, LogConstants
<1>2. p \in [0 .. i -> Nat] /\ i \in 1 .. i
  BY PathIs
<1>3. PICK z \in Nat : z = 0
  OBVIOUS
<1>4. PartRight(Added(r, n, q, i, m, p, z)[i], Parts(r, n, q, i, m)[i], Trailer(q[i].at),
                z + p[i - 1], SizeAt(n, q, i, m, i), HeaderSize + LengthAt(n, q[i]))
  <2> HIDE DEF p
  <2> QED BY <1>1, <1>2, PartsAre
<1>5. f \in Fragment /\ FragmentRight(f) /\ FullSize(f) = m
  BY <1>3, <1>4, Zenon DEF PartRight
<1>6. /\ f.rec = r /\ f.from = q[i].done /\ f.to = q[i].done + l
      /\ f.begin = q[i].begin /\ f.end = Ends(n, q[i])
  BY <1>2 DEF Added
<1> HIDE DEF f, m
<1>7. c = InLog!EmitPhysicalRecord(TypeOf(f), DataOf(f))
  BY <1>6 DEF Piece, TypeOf, DataOf
<1>8. c = e /\ \A d \in 1 .. m : CellOf(f, d) \in LogCell
  <2>1. /\ InLog!EmitPhysicalRecord(TypeOf(f), DataOf(f)) = [d \in 1 .. FullSize(f) |-> CellOf(f, d)]
        /\ \A d \in 1 .. FullSize(f) : CellOf(f, d) \in LogCell
    BY <1>5, CellsAre
  <2> HIDE DEF c
  <2> QED BY <2>1, <1>5, <1>7
<1>9. e \in [1 .. m -> LogCell]
  BY <1>8
<1> HIDE DEF e
<1>10. e \in Seq(LogCell) /\ Len(e) = m
  BY <1>1, <1>9, FunctionIsSeq
<1> QED BY <1>1, <1>8, <1>10 DEF m

LEMMA WholeAppended ==
  ASSUME NEW r \in Nat \ {0}, NEW n \in Nat, NEW b \in 0 .. BlockSize,
         NEW q, Path(n, FirstPoint(b), q)
  PROVE  InLog!Appended(Cut(r, n, q))
               = InLog!FlattenSeq(Parts(r, n, q, Len(q), HeaderSize + LengthAt(n, q[Len(q)])))
<1> DEFINE k == Len(q)
           m == HeaderSize + LengthAt(n, q[k])
           F == Cut(r, n, q)
           s == Parts(r, n, q, k, m)
           t == [i \in DOMAIN F |-> InLog!Zeros(F[i].trailer) \o F[i].cells]
<1>1. k \in Nat /\ DOMAIN F = 1 .. k /\ \A i \in 1 .. k : F[i] = Piece(r, n, q[i])
  BY PathIs DEF Cut
<1>2. ASSUME NEW i \in 1 .. k
      PROVE  InLog!Zeros(F[i].trailer) \o F[i].cells = s[i]
  <2> DEFINE c == Piece(r, n, q[i]).cells
             u == IF i = k THEN SubSeq(c, 1, m) ELSE c
  <2>1. c \in Seq(LogCell) /\ Len(c) = HeaderSize + LengthAt(n, q[i])
    BY PieceCells
  <2>2. F[i].trailer = Trailer(q[i].at) /\ F[i].cells = c
    <3>1. F[i] = Piece(r, n, q[i])
      BY <1>1
    <3>2. Piece(r, n, q[i]).trailer = Trailer(q[i].at)
      BY DEF Piece, Trailer
    <3> HIDE DEF F
    <3> QED BY <3>1, <3>2
  <2>3. s[i] = InLog!Zeros(Trailer(q[i].at)) \o u
    BY DEF Parts
  <2>4. u = c
    <3>1. CASE i = k
      <4>1. m = Len(c)
        BY <2>1, <3>1
      <4> HIDE DEF c, m
      <4>2. SubSeq(c, 1, Len(c)) = c
        BY <2>1, SubSeqFull
      <4> QED BY <3>1, <4>1, <4>2
    <3>2. CASE i # k
      BY <3>2
    <3> QED BY <3>1, <3>2
  <2> HIDE DEF F, s, c, u
  <2> QED BY <2>2, <2>3, <2>4
<1>3. t = s
  <2>1. s = [i \in 1 .. k |-> s[i]]
    BY DEF Parts
  <2> HIDE DEF s, F
  <2> QED BY <2>1, <1>1, <1>2
<1>4. InLog!Appended(F) = InLog!FlattenSeq(t)
  BY Zenon DEF InLog!Appended
<1> QED BY <1>3, <1>4, Zenon

LEMMA CellsAssociate ==
  \A s, t, u \in Seq(LogCell) : (s \o t) \o u = s \o (t \o u)
<1> DEFINE S == LogCell
<1> HIDE DEF S
<1>1. \A s, t, u \in Seq(S) : (s \o t) \o u = s \o (t \o u)
  OBVIOUS
<1> QED BY <1>1 DEF S

(* The cells of an append that failed at its k-th fragment.                *)
TornAppend(r, n, q, k, m, x) ==
  x \o InLog!Appended(SubSeq(Cut(r, n, q), 1, k - 1)) \o InLog!Zeros(Cut(r, n, q)[k].trailer)
    \o SubSeq(Cut(r, n, q)[k].cells, 1, m)

LEMMA PartAppended ==
  ASSUME NEW r \in Nat \ {0}, NEW n \in Nat, NEW b \in 0 .. BlockSize,
         NEW q, Path(n, FirstPoint(b), q), NEW k \in 1 .. Len(q),
         NEW m \in 0 .. HeaderSize + LengthAt(n, q[k]), NEW x \in Seq(LogCell)
  PROVE  TornAppend(r, n, q, k, m, x) = x \o InLog!FlattenSeq(Parts(r, n, q, k, m))
<1> DEFINE F == Cut(r, n, q)
           G == SubSeq(F, 1, k - 1)
           s == Parts(r, n, q, k, m)
           h == SubSeq(s, 1, k - 1)
           t == [i \in DOMAIN G |-> InLog!Zeros(G[i].trailer) \o G[i].cells]
           C == Seq(LogCell)
           U == {Piece(r, n, q[i]) : i \in 1 .. Len(q)}
<1>1. /\ Len(q) \in Nat /\ k \in Nat /\ k # 0
      /\ k - 1 \in Nat /\ k - 1 <= Len(q) /\ k \in 1 .. k
  BY PathIs
<1>2. F \in Seq(U) /\ Len(F) = Len(q) /\ \A i \in 1 .. Len(q) : F[i] = Piece(r, n, q[i])
  <2>1. F \in [1 .. Len(q) -> U] /\ \A i \in 1 .. Len(q) : F[i] = Piece(r, n, q[i])
    BY DEF Cut
  <2> HIDE DEF F, U
  <2> QED BY <1>1, <2>1, FunctionIsSeq
<1>3. /\ s \in Seq(C) /\ Len(s) = k /\ InLog!FlattenSeq(s) \in Seq(LogCell)
  <2>1. PICK p : Places(s, p)
    <3>1. PICK y \in Nat : y = 0
      OBVIOUS
    <3> DEFINE p0 == [j \in 0 .. k |-> 0]
    <3>2. p0 \in [0 .. k -> Nat]
      OBVIOUS
    <3>3. ASSUME NEW i \in 1 .. k PROVE s[i] \in C
      <4>1. PartRight(Added(r, n, q, k, m, p0, y)[i], Parts(r, n, q, k, m)[i], Trailer(q[i].at),
                      y + p0[i - 1], SizeAt(n, q, k, m, i), HeaderSize + LengthAt(n, q[i]))
        <5> HIDE DEF p0
        <5> QED BY <3>2, PartsAre
      <4> QED BY <4>1, Zenon DEF PartRight
    <3>4. s = [i \in 1 .. k |-> s[i]]
      BY DEF Parts
    <3> HIDE DEF s, C
    <3>5. s \in [1 .. k -> C]
      BY <3>3, <3>4
    <3>6. s \in Seq(C)
      BY <1>1, <3>5, FunctionIsSeq
    <3> QED BY <3>6, PlacesExist DEF C
  <2>2. PICK y \in Nat : y = 0
    OBVIOUS
  <2>3. /\ s \in Seq(C) /\ Len(s) = k
        /\ Continues(Added(r, n, q, k, m, p, y), InLog!FlattenSeq(s), r, n, y)
    <3> HIDE DEF s, C
    <3>1. s = Parts(r, n, q, k, m)
      BY DEF s
    <3> QED BY <2>1, <3>1, AddedContinues DEF C
  <2> QED BY <2>3, Zenon DEF Continues
<1>4. \A i \in 1 .. k - 1 : i \in 1 .. k /\ i \in 1 .. Len(q) /\ i # k
  BY <1>1
<1>5. G \in Seq(U) /\ Len(G) = k - 1 /\ \A i \in 1 .. k - 1 : G[i] = F[i]
  <2> HIDE DEF F, U
  <2> QED BY <1>1, <1>2, Beginning
<1>6. h \in Seq(C) /\ Len(h) = k - 1 /\ \A i \in 1 .. k - 1 : h[i] = s[i]
  <2> HIDE DEF s, C
  <2>1. k - 1 <= Len(s)
    BY <1>1, <1>3
  <2> QED BY <2>1, <1>1, <1>3, Beginning
<1>7. ASSUME NEW i \in 1 .. k
      PROVE  /\ F[i].trailer = Trailer(q[i].at) /\ F[i].cells = Piece(r, n, q[i]).cells
             /\ s[i] = InLog!Zeros(Trailer(q[i].at)) \o (IF i = k THEN SubSeq(F[i].cells, 1, m) ELSE F[i].cells)
  <2>1. i \in 1 .. Len(q)
    BY <1>1
  <2>2. F[i] = Piece(r, n, q[i])
    BY <2>1, <1>2
  <2>3. Piece(r, n, q[i]).trailer = Trailer(q[i].at)
    BY DEF Piece, Trailer
  <2>4. s[i] = InLog!Zeros(Trailer(q[i].at))
               \o (IF i = k THEN SubSeq(Piece(r, n, q[i]).cells, 1, m) ELSE Piece(r, n, q[i]).cells)
    BY DEF Parts
  <2> HIDE DEF F, s
  <2> QED BY <2>2, <2>3, <2>4
<1> HIDE DEF F, s, G, h, C, U
<1>8. t = h
  <2>1. ASSUME NEW i \in 1 .. k - 1
        PROVE  InLog!Zeros(G[i].trailer) \o G[i].cells = h[i]
    <3>1. i \in 1 .. k /\ i # k
      BY <1>4
    <3>2. G[i] = F[i] /\ h[i] = s[i]
      BY <1>5, <1>6
    <3>3. s[i] = InLog!Zeros(F[i].trailer) \o F[i].cells
      BY <3>1, <1>7
    <3> QED BY <3>2, <3>3
  <2>2. DOMAIN G = 1 .. k - 1
    BY <1>5
  <2>3. h = [i \in 1 .. k - 1 |-> h[i]]
    BY <1>6
  <2> QED BY <2>1, <2>2, <2>3
<1>9. InLog!Appended(G) = InLog!FlattenSeq(h)
  <2>1. InLog!Appended(G) = InLog!FlattenSeq(t)
    BY Zenon DEF InLog!Appended
  <2> QED BY <2>1, <1>8, Zenon
<1> DEFINE a == InLog!FlattenSeq(h)
           y == InLog!Zeros(F[k].trailer)
           z == SubSeq(F[k].cells, 1, m)
<1>10. InLog!FlattenSeq(s) = a \o s[k]
  <2>1. s \in Seq(Seq(LogCell)) /\ Len(s) # 0
    BY <1>1, <1>3 DEF C
  <2>2. InLog!FlattenSeq(s) = InLog!FlattenSeq(SubSeq(s, 1, Len(s) - 1)) \o s[Len(s)]
    BY <2>1, FlattenLast
  <2>3. SubSeq(s, 1, Len(s) - 1) = h
    BY <1>3 DEF h
  <2> QED BY <2>2, <2>3, <1>3
<1>11. s[k] = y \o z
  BY <1>1, <1>7
<1>12. a \in C /\ y \in C /\ z \in C
  <2>1. a \in C
    <3>1. \A d \in Seq(Seq(LogCell)) : InLog!FlattenSeq(d) \in Seq(LogCell)
      <4> SUFFICES ASSUME NEW d \in Seq(Seq(LogCell)) PROVE InLog!FlattenSeq(d) \in Seq(LogCell)
        OBVIOUS
      <4>1. PICK p : Places(d, p)
        BY PlacesExist
      <4> QED BY <4>1, Flattened
    <3>2. h \in Seq(Seq(LogCell))
      BY <1>6 DEF C
    <3> QED BY <3>1, <3>2 DEF C
  <2>2. y \in C
    <3>1. q[k] \in Points(n)
      BY PathIs
    <3>2. q[k].at \in 0 .. BlockSize
      BY <3>1, PointNext
    <3>3. Trailer(q[k].at) \in 0 .. HeaderSize - 1
      BY <3>2, TrailerIs
    <3>4. Trailer(q[k].at) \in Nat
      BY <3>3, LogConstants
    <3>5. InLog!Zeros(Trailer(q[k].at)) \in Seq(LogCell)
      BY <3>4, ZerosAre
    <3>6. y = InLog!Zeros(Trailer(q[k].at))
      BY <1>1, <1>7
    <3> QED BY <3>5, <3>6 DEF C
  <2>3. z \in C
    <3> DEFINE c == Piece(r, n, q[k]).cells
    <3>1. /\ c \in Seq(LogCell) /\ Len(c) = HeaderSize + LengthAt(n, q[k])
          /\ LengthAt(n, q[k]) \in Nat
      BY PieceCells
    <3>2. F[k].cells = c
      BY <1>1, <1>7
    <3> HIDE DEF c
    <3>3. m \in Nat /\ m <= Len(c)
      BY <3>1, LogConstants
    <3>4. SubSeq(c, 1, m) \in Seq(LogCell)
      BY <3>1, <3>3, Beginning
    <3> QED BY <3>2, <3>4 DEF C
  <2> QED BY <2>1, <2>2, <2>3
<1> HIDE DEF a, y, z
<1>13. ((x \o a) \o y) \o z = x \o (a \o (y \o z))
  <2>1. x \in C
    BY DEF C
  <2>2. y \o z \in C /\ x \o a \in C
    <3>1. \A d, e \in Seq(LogCell) : d \o e \in Seq(LogCell)
      OBVIOUS
    <3> QED BY <2>1, <3>1, <1>12 DEF C
  <2>3. ((x \o a) \o y) \o z = (x \o a) \o (y \o z)
    <3>1. x \o a \in Seq(LogCell) /\ y \in Seq(LogCell) /\ z \in Seq(LogCell)
      BY <2>2, <1>12 DEF C
    <3> QED BY <3>1, CellsAssociate, Zenon
  <2>4. (x \o a) \o (y \o z) = x \o (a \o (y \o z))
    <3>1. x \in Seq(LogCell) /\ a \in Seq(LogCell) /\ y \o z \in Seq(LogCell)
      BY <2>2, <1>12 DEF C
    <3> QED BY <3>1, CellsAssociate, Zenon
  <2> QED BY <2>3, <2>4
<1>14. x \o InLog!Appended(G) \o y \o z = x \o InLog!FlattenSeq(s)
  <2>1. InLog!Appended(G) = a /\ InLog!FlattenSeq(s) = a \o (y \o z)
    BY <1>9, <1>10, <1>11 DEF a
  <2> QED BY <2>1, <1>13
<1>15. TornAppend(r, n, q, k, m, x) = x \o InLog!Appended(G) \o y \o z
  BY DEF TornAppend, y, z, F, G
<1> QED BY <1>14, <1>15 DEF s

TornLaid(r, n, q, k, m, x) ==
  TornAppend(r, n, q, k, m, x) = x \o InLog!FlattenSeq(Parts(r, n, q, k, m))

LEMMA TornIsLaid ==
  ASSUME NEW r \in Nat \ {0}, NEW n \in Nat, NEW b \in 0 .. BlockSize,
         NEW q, Path(n, FirstPoint(b), q), NEW k \in 1 .. Len(q),
         NEW m \in 0 .. HeaderSize + LengthAt(n, q[k]), NEW x \in Seq(LogCell)
  PROVE  TornLaid(r, n, q, k, m, x)
BY PartAppended DEF TornLaid

(* The file before an append, and the first points of one.                 *)
LEMMA AtAppend ==
  ASSUME NEW fs, FileRight(fs), ReaderRight, ~reader.on
  PROVE  /\ Layout(fs) /\ CellsRight(fs) /\ RecordsRight(fs) /\ AlignedRight(fs)
         /\ log \in Seq(LogCell) /\ Len(log) \in Nat /\ LastEnd(fs) = Len(log)
         /\ Len(written) \in Nat /\ Len(written) + 1 \in Nat \ {0}
         /\ NextRecord(fs, Len(written) + 1) /\ blockOffset \in 0 .. BlockSize
         /\ reader = InLog!NoReader /\ read = <<>>
         /\ torn \in 0 .. Len(written) /\ written \in Seq(Record)
<1>1. Layout(fs) /\ CellsRight(fs) /\ RecordsRight(fs) /\ AlignedRight(fs)
  BY DEF FileRight
<1>2. log \in Seq(LogCell) /\ LastEnd(fs) = Len(log)
  BY <1>1 DEF CellsRight
<1>3. /\ Len(written) \in Nat /\ Len(written) + 1 \in Nat \ {0}
      /\ NextRecord(fs, Len(written) + 1)
  BY <1>1, LastRecord
<1>4. blockOffset \in 0 .. BlockSize
  BY <1>1 DEF AlignedRight
<1>5. reader = InLog!NoReader /\ read = <<>>
  BY DEF ReaderRight
<1>6. torn \in 0 .. Len(written) /\ written \in Seq(Record)
  BY <1>1 DEF RecordsRight
<1> QED BY <1>1, <1>2, <1>3, <1>4, <1>5, <1>6

LEMMA PartsJoined ==
  ASSUME NEW r \in Nat \ {0}, NEW n \in Nat, NEW b \in 0 .. BlockSize,
         NEW q, Path(n, FirstPoint(b), q), NEW k \in 1 .. Len(q),
         NEW m \in 0 .. HeaderSize + LengthAt(n, q[k])
  PROVE  Parts(r, n, q, k, m) \in Seq(Seq(LogCell)) /\ Len(Parts(r, n, q, k, m)) = k
<1> DEFINE s == Parts(r, n, q, k, m)
           C == Seq(LogCell)
<1>1. \A i \in 1 .. k : s[i] \in C
  <2> SUFFICES ASSUME NEW i \in 1 .. k PROVE s[i] \in Seq(LogCell)
    OBVIOUS
  <2>1. PICK y \in Nat : y = 0
    OBVIOUS
  <2> DEFINE p0 == [j \in 0 .. k |-> 0]
  <2>2. p0 \in [0 .. k -> Nat]
    OBVIOUS
  <2> HIDE DEF p0
  <2>3. PartRight(Added(r, n, q, k, m, p0, y)[i], Parts(r, n, q, k, m)[i], Trailer(q[i].at),
                  y + p0[i - 1], SizeAt(n, q, k, m, i), HeaderSize + LengthAt(n, q[i]))
    BY <2>2, PartsAre
  <2> QED BY <2>3, Zenon DEF PartRight
<1>2. s = [i \in 1 .. k |-> s[i]]
  BY DEF Parts
<1>3. k \in Nat
  BY PathIs
<1> HIDE DEF s, C
<1>4. s \in [1 .. k -> C]
  BY <1>1, <1>2
<1>5. s \in Seq(C) /\ Len(s) = k
  BY <1>3, <1>4, FunctionIsSeq
<1> QED BY <1>5 DEF s, C

PathPlaced(new, n, q, b, p, x) ==
  /\ \A i \in 1 .. Len(q) : Placed(new[i], x + p[i - 1]) /\ EndAt(new[i]) = x + p[i]
  /\ b = 0 => new[1].at = x
  /\ Multiple((x + p[Len(q)]) - AfterPiece(n, q[Len(q)]))

LEMMA AddedPlaced ==
  ASSUME NEW r \in Nat \ {0}, NEW n \in Nat, NEW b \in 0 .. BlockSize,
         NEW q, Path(n, FirstPoint(b), q), NEW x \in Nat, Multiple(x - b),
         NEW m, m = HeaderSize + LengthAt(n, q[Len(q)]),
         NEW p, Places(Parts(r, n, q, Len(q), m), p)
  PROVE  PathPlaced(Added(r, n, q, Len(q), m, p, x), n, q, b, p, x)
BY AddedAligned DEF PathPlaced

LEMMA AppendKeeps ==
  ASSUME NEW fs \in Seq(Fragment), FileRight(fs), ReaderRight, ~reader.on, NEW n \in Nat,
         NEW q, Path(n, FirstPoint(blockOffset), q), NEW k \in 1 .. Len(q),
         NEW m \in 0 .. HeaderSize + LengthAt(n, q[k]), NEW W \in BOOLEAN,
         W => k = Len(q) /\ m = HeaderSize + LengthAt(n, q[k]),
         log' = log \o InLog!FlattenSeq(Parts(Len(written) + 1, n, q, k, m)),
         blockOffset' = AfterPiece(n, q[k]),
         written' = Append(written, [len |-> n, start |-> Len(log) + Trailer(q[1].at),
                                     end |-> Len(log'), whole |-> W]),
         torn' = torn \/ (torn = 0 /\ torn' = Len(written')), W \/ torn' # 0,
         damaged' = damaged, reader' = reader, read' = read
  PROVE  LogInv'
<1>0. PICK r, b, x : r = Len(written) + 1 /\ b = blockOffset /\ x = Len(log)
  OBVIOUS
<1>4. /\ Layout(fs) /\ CellsRight(fs) /\ RecordsRight(fs) /\ AlignedRight(fs)
      /\ log \in Seq(LogCell) /\ x \in Nat /\ LastEnd(fs) = x
      /\ Len(written) \in Nat /\ r \in Nat \ {0}
      /\ NextRecord(fs, r) /\ b \in 0 .. BlockSize
      /\ reader = InLog!NoReader /\ read = <<>>
      /\ torn \in 0 .. Len(written) /\ written \in Seq(Record)
  BY <1>0, AtAppend
<1>5. Path(n, FirstPoint(b), q)
  BY <1>0
<1> DEFINE s == Parts(r, n, q, k, m)
           T == InLog!FlattenSeq(s)
<1>6. k \in Nat /\ k # 0 /\ k \in 1 .. k /\ 1 \in 1 .. k /\ q[1] = FirstPoint(b)
  <2>1. Len(q) \in Nat /\ q[1] = FirstPoint(b)
    BY <1>4, <1>5, PathIs
  <2> QED BY <2>1
<1>9. s \in Seq(Seq(LogCell)) /\ Len(s) = k /\ s = Parts(r, n, q, k, m)
  BY <1>4, <1>5, PartsJoined
<1> HIDE DEF s
<1>10. PICK p : Places(s, p)
  BY <1>9, PlacesExist
<1> DEFINE new == Added(r, n, q, k, m, p, x)
           gs == fs \o new
<1>11. Continues(new, T, r, n, x)
  BY <1>4, <1>5, <1>9, <1>10, AddedContinues
<1>12. Len(new) = k /\ Len(new) \in 1 .. Len(new) /\ T \in Seq(LogCell) /\ Len(T) \in Nat
  <2>1. T \in Seq(LogCell) /\ new \in Seq(Fragment)
    BY <1>11 DEF Continues
  <2>2. DOMAIN new = 1 .. k
    BY DEF Added
  <2> HIDE DEF new, T
  <2>3. Len(new) = k
    BY <2>1, <2>2, <1>6
  <2> QED BY <2>1, <2>3, <1>6
<1> HIDE DEF T, new
<1>13. Grown(fs, new, gs, Len(T), x)
  BY <1>4, <1>11, LayoutGrows
<1>14. log' = log \o T /\ Len(log') = x + Len(T)
  <2>1. log' = log \o T
    BY <1>0 DEF T, s
  <2>2. Len(log \o T) = x + Len(T)
    BY <1>0, <1>4, <1>12, Joined
  <2> QED BY <2>1, <2>2
<1>15. CellsRight(gs)'
  <2>1. Continues(new, T, r, n, Len(log)) /\ LastEnd(fs) = Len(log) /\ log' = log \o T
    BY <1>0, <1>4, <1>11, <1>14
  <2> QED BY <2>1, <1>4, CellsGrow
<1>18. x + Trailer(q[1].at) = new[1].at
  <2>1. p[1 - 1] = 0
    BY <1>10 DEF Places
  <2>2. new[1].at = (x + p[1 - 1]) + Trailer(q[1].at)
    BY <1>6 DEF new, Added
  <2>3. x + p[1 - 1] = x
    BY <2>1, <1>4
  <2> QED BY <2>2, <2>3
<1>19. W => Complete(new[k]) /\ new[k].end
  <2> SUFFICES ASSUME W PROVE Complete(new[k]) /\ new[k].end
    OBVIOUS
  <2>1. new[k].end = Ends(n, q[k])
    BY <1>6 DEF new, Added
  <2>2. Ends(n, q[k])
    BY <1>4, <1>5, PathIs
  <2>3. Complete(new[k])
    <3>1. p \in [0 .. k -> Nat]
      BY <1>9, <1>10 DEF Places
    <3>2. PartRight(new[k], Parts(r, n, q, k, m)[k], Trailer(q[k].at), x + p[k - 1],
                    SizeAt(n, q, k, m, k), HeaderSize + LengthAt(n, q[k]))
      BY <1>4, <1>5, <1>6, <3>1, PartsAre DEF new
    <3>3. SizeAt(n, q, k, m, k) = m
      BY DEF SizeAt
    <3> QED BY <3>2, <3>3, Zenon DEF PartRight, Complete
  <2> QED BY <2>1, <2>2, <2>3
<1>20. /\ written' = Append(written, [len |-> n, start |-> new[1].at, end |-> x + Len(T), whole |-> W])
       /\ Len(written') = r
  <2>1. written' = Append(written, [len |-> n, start |-> new[1].at, end |-> x + Len(T), whole |-> W])
    BY <1>0, <1>14, <1>18
  <2>2. new[1].at \in Nat
    <3>1. new \in Seq(Fragment) /\ 1 \in 1 .. Len(new)
      BY <1>6, <1>11, <1>12 DEF Continues
    <3>2. new[1] \in Fragment
      BY <3>1
    <3> QED BY <3>2 DEF Fragment
  <2> DEFINE v == [len |-> n, start |-> new[1].at, end |-> x + Len(T), whole |-> W]
  <2>3. v \in Record
    BY <2>2, <1>4, <1>12 DEF Record
  <2> HIDE DEF v
  <2>4. Len(Append(written, v)) = Len(written) + 1
    BY <2>3, <1>4
  <2> QED BY <2>1, <2>4, <1>0 DEF v
<1>21. RecordsRight(gs)'
  <2>1. /\ Continues(new, T, Len(written) + 1, n, Len(log))
        /\ Grown(fs, new, fs \o new, Len(T), Len(log))
    BY <1>0, <1>11, <1>13
  <2>2. written' = Append(written, [len |-> n, start |-> new[1].at, end |-> Len(log) + Len(T),
                                    whole |-> W])
    BY <1>0, <1>20
  <2>3. W => Complete(new[Len(new)]) /\ new[Len(new)].end
    BY <1>12, <1>19
  <2> QED BY <1>4, <2>1, <2>2, <2>3, RecordsGrow
<1>22. AlignedRight(gs)'
  <2>1. AfterPiece(n, q[k]) \in 0 .. BlockSize
    <3>1. q[k] \in Points(n)
      BY <1>4, <1>5, PathIs
    <3>2. AfterPiece(n, q[k]) \in HeaderSize .. BlockSize
      BY <3>1, PointNext
    <3> QED BY <3>2, LogConstants
  <2>2. ASSUME torn' = 0
        PROVE  AllPlaced(new, p, x, blockOffset') /\ (fs = <<>> => new[1].at = x)
    <3>0. W /\ k = Len(q) /\ m = HeaderSize + LengthAt(n, q[Len(q)])
      BY <2>2
    <3>1. Multiple(x - b) /\ (fs = <<>> => b = 0)
      <4>1. torn = 0
        BY <2>2
      <4> QED BY <4>1, <1>0, <1>4 DEF AlignedRight
    <3>2. /\ \A i \in 1 .. Len(q) : Placed(new[i], x + p[i - 1]) /\ EndAt(new[i]) = x + p[i]
          /\ b = 0 => new[1].at = x
          /\ Multiple((x + p[Len(q)]) - AfterPiece(n, q[Len(q)]))
      <4>1. new = Added(r, n, q, Len(q), m, p, x)
        BY <3>0 DEF new
      <4>2. s = Parts(r, n, q, Len(q), m)
        BY <1>9, <3>0
      <4>3. r \in Nat \ {0} /\ b \in 0 .. BlockSize /\ x \in Nat /\ Multiple(x - b)
        BY <1>4, <3>1
      <4>4. m = HeaderSize + LengthAt(n, q[Len(q)])
        BY <3>0
      <4>5. Places(Parts(r, n, q, Len(q), m), p)
        BY <1>10, <4>2
      <4>6. PathPlaced(Added(r, n, q, Len(q), m, p, x), n, q, b, p, x)
        BY <1>5, <4>3, <4>4, <4>5, AddedPlaced
      <4>7. PathPlaced(new, n, q, b, p, x)
        BY <4>1, <4>6
      <4> QED BY <4>7, Zenon DEF PathPlaced
    <3>3. p[0] = 0
      BY <1>10 DEF Places
    <3> QED BY <3>0, <3>1, <3>2, <3>3, <1>12 DEF AllPlaced
  <2>3. /\ Continues(new, T, Len(written) + 1, n, Len(log))
        /\ Grown(fs, new, fs \o new, Len(T), Len(log))
    BY <1>0, <1>11, <1>13
  <2>4. Len(written') = Len(written) + 1 /\ LastEnd(fs) = Len(log)
    BY <1>0, <1>4, <1>20
  <2>5. torn' = 0 => AllPlaced(new, p, Len(log), blockOffset') /\ (fs = <<>> => new[1].at = Len(log))
    BY <1>0, <2>2
  <2>6. blockOffset' \in 0 .. BlockSize
    BY <2>1
  <2> QED BY <1>4, <2>3, <2>4, <2>5, <2>6, AlignedGrows
<1>23. FileRight(gs)' /\ gs \in Seq(Fragment)
  <2>1. Layout(gs)
    BY <1>13 DEF Grown
  <2> QED BY <1>15, <1>21, <1>22, <2>1 DEF FileRight, Layout
<1> QED BY <1>4, <1>23, NotReading

LEMMA AddRecordKeeps ==
  ASSUME LogInv, NEW n \in Lengths, InLog!AddRecord(n)
  PROVE  LogInv'
<1>1. PICK fs \in Seq(Fragment) : FileRight(fs) /\ ReaderRight
  BY DEF LogInv
<1> DEFINE r == Len(written) + 1
           F == InLog!Fragments(r, n, blockOffset)
<1>2. /\ ~reader.on /\ log' = log \o InLog!Appended(F) /\ blockOffset' = F[Len(F)].after
      /\ written' = Append(written, [len |-> n, start |-> Len(log) + F[1].trailer, end |-> Len(log'),
                                     whole |-> TRUE])
      /\ torn' = torn /\ damaged' = damaged /\ reader' = reader /\ read' = read
  BY DEF InLog!AddRecord
<1>3. n \in Nat
  BY LogConstants
<1>4. r \in Nat \ {0} /\ blockOffset \in 0 .. BlockSize
  BY <1>1, <1>2, AtAppend
<1>5. PICK q : Path(n, FirstPoint(blockOffset), q) /\ F = Cut(r, n, q)
  BY <1>3, <1>4, FragmentsCut DEF FirstPoint
<1> DEFINE k == Len(q)
           m == HeaderSize + LengthAt(n, q[k])
<1>6. k \in 1 .. k /\ 1 \in 1 .. k
  <2>1. k \in Nat /\ k # 0
    BY <1>3, <1>4, <1>5, PathIs
  <2> HIDE DEF k
  <2> QED BY <2>1
<1> HIDE DEF r, F
<1>7. m \in 0 .. m
  <2>1. LengthAt(n, q[k]) \in Nat
    BY <1>3, <1>4, <1>5, <1>6, PieceCells
  <2> QED BY <2>1, LogConstants
<1>8. log' = log \o InLog!FlattenSeq(Parts(r, n, q, k, m))
  BY <1>2, <1>3, <1>4, <1>5, WholeAppended
<1>9. F[1] = Piece(r, n, q[1]) /\ F[Len(F)] = Piece(r, n, q[k])
  <2>1. \A i \in 1 .. k : F[i] = Piece(r, n, q[i])
    BY <1>5 DEF Cut
  <2>2. Len(F) = k
    <3>1. k \in Nat
      BY <1>3, <1>4, <1>5, PathIs
    <3>2. F = [i \in 1 .. k |-> F[i]]
      BY <1>5 DEF Cut
    <3> HIDE DEF k
    <3>3. F \in [1 .. k -> {F[i] : i \in 1 .. k}]
      BY <3>2
    <3> QED BY <3>1, <3>3, FunctionIsSeq
  <2> QED BY <2>1, <2>2, <1>6
<1>10. F[1].trailer = Trailer(q[1].at) /\ blockOffset' = AfterPiece(n, q[k])
  BY <1>2, <1>9 DEF Piece, Trailer
<1>11. PICK W \in BOOLEAN : W = TRUE
  OBVIOUS
<1>12. PICK K \in 1 .. k, M \in 0 .. m : K = k /\ M = m
  BY <1>6, <1>7
<1>13. written' = Append(written, [len |-> n, start |-> Len(log) + Trailer(q[1].at),
                                   end |-> Len(log'), whole |-> W])
  BY <1>2, <1>10, <1>11
<1>14. log' = log \o InLog!FlattenSeq(Parts(Len(written) + 1, n, q, K, M))
  BY <1>8, <1>12 DEF r
<1>15. K \in 1 .. Len(q) /\ M \in 0 .. HeaderSize + LengthAt(n, q[K])
       /\ (W => K = Len(q) /\ M = HeaderSize + LengthAt(n, q[K]))
  BY <1>12
<1>16. torn' = torn /\ blockOffset' = AfterPiece(n, q[K]) /\ (W \/ torn' # 0)
  BY <1>2, <1>10, <1>11, <1>12
<1> HIDE DEF k, m
<1> QED BY <1>1, <1>2, <1>3, <1>5, <1>13, <1>14, <1>15, <1>16, AppendKeeps

LEMMA TornRecordKeeps ==
  ASSUME LogInv, NEW n \in Lengths, InLog!TornRecord(n)
  PROVE  LogInv'
<1>1. PICK fs \in Seq(Fragment) : FileRight(fs) /\ ReaderRight
  BY DEF LogInv
<1> DEFINE r == Len(written) + 1
           F == InLog!Fragments(r, n, blockOffset)
<1>2. /\ ~reader.on
      /\ \E k \in DOMAIN F : \E m \in 0 .. Len(F[k].cells) - 1 :
           /\ log' = log \o InLog!Appended(SubSeq(F, 1, k - 1)) \o InLog!Zeros(F[k].trailer)
                         \o SubSeq(F[k].cells, 1, m)
           /\ blockOffset' = F[k].after
           /\ written' = Append(written, [len |-> n, start |-> Len(log) + F[1].trailer,
                                          end |-> Len(log'), whole |-> FALSE])
      /\ torn' = (IF torn = 0 THEN Len(written') ELSE torn)
      /\ damaged' = damaged /\ reader' = reader /\ read' = read
  BY DEF InLog!TornRecord
<1>3. n \in Nat
  BY LogConstants
<1>4. /\ r \in Nat \ {0} /\ blockOffset \in 0 .. BlockSize /\ log \in Seq(LogCell)
      /\ Len(written) \in Nat /\ torn \in 0 .. Len(written) /\ written \in Seq(Record)
  BY <1>1, <1>2, AtAppend
<1>5. PICK q : Path(n, FirstPoint(blockOffset), q) /\ F = Cut(r, n, q)
  BY <1>3, <1>4, FragmentsCut DEF FirstPoint
<1> HIDE DEF r, F
<1>20. PICK k \in DOMAIN F : \E m \in 0 .. Len(F[k].cells) - 1 :
         /\ log' = log \o InLog!Appended(SubSeq(F, 1, k - 1)) \o InLog!Zeros(F[k].trailer)
                       \o SubSeq(F[k].cells, 1, m)
         /\ blockOffset' = F[k].after
         /\ written' = Append(written, [len |-> n, start |-> Len(log) + F[1].trailer,
                                        end |-> Len(log'), whole |-> FALSE])
  BY <1>2
<1>6. PICK m \in 0 .. Len(F[k].cells) - 1 :
         /\ log' = log \o InLog!Appended(SubSeq(F, 1, k - 1)) \o InLog!Zeros(F[k].trailer)
                       \o SubSeq(F[k].cells, 1, m)
         /\ blockOffset' = F[k].after
         /\ written' = Append(written, [len |-> n, start |-> Len(log) + F[1].trailer,
                                        end |-> Len(log'), whole |-> FALSE])
  BY <1>20
<1>7. Len(q) \in Nat /\ DOMAIN F = 1 .. Len(q) /\ \A i \in 1 .. Len(q) : F[i] = Piece(r, n, q[i])
  <2>1. Len(q) \in Nat
    BY <1>3, <1>4, <1>5, PathIs
  <2> QED BY <2>1, <1>5 DEF Cut
<1>8. k \in 1 .. Len(q) /\ 1 \in 1 .. Len(q)
  BY <1>6, <1>7
<1>9. m \in 0 .. HeaderSize + LengthAt(n, q[k])
  <2>1. Len(F[k].cells) = HeaderSize + LengthAt(n, q[k]) /\ LengthAt(n, q[k]) \in Nat
    BY <1>3, <1>4, <1>5, <1>7, <1>8, PieceCells
  <2> DEFINE c == Len(F[k].cells)
             l == LengthAt(n, q[k])
  <2>2. m \in 0 .. c - 1 /\ c = HeaderSize + l /\ l \in Nat /\ HeaderSize \in Nat
    BY <2>1, LogConstants
  <2> HIDE DEF c, l
  <2>3. m \in 0 .. HeaderSize + l
    BY <2>2
  <2> QED BY <2>3 DEF l
<1>10. log' = log \o InLog!FlattenSeq(Parts(r, n, q, k, m))
  <2>1. log' = TornAppend(r, n, q, k, m, log)
    BY <1>5, <1>6 DEF TornAppend
  <2>2. TornAppend(r, n, q, k, m, log) = log \o InLog!FlattenSeq(Parts(r, n, q, k, m))
    <3>1. /\ r \in Nat \ {0} /\ n \in Nat /\ blockOffset \in 0 .. BlockSize
          /\ Path(n, FirstPoint(blockOffset), q) /\ k \in 1 .. Len(q)
          /\ m \in 0 .. HeaderSize + LengthAt(n, q[k]) /\ log \in Seq(LogCell)
      BY <1>3, <1>4, <1>5, <1>8, <1>9
    <3>2. TornLaid(r, n, q, k, m, log)
      BY ONLY <3>1, TornIsLaid
    <3> QED BY <3>2 DEF TornLaid
  <2> QED BY <2>1, <2>2
<1>11. F[1].trailer = Trailer(q[1].at) /\ blockOffset' = AfterPiece(n, q[k])
  BY <1>6, <1>7, <1>8 DEF Piece, Trailer
<1>12. PICK W \in BOOLEAN : W = FALSE
  OBVIOUS
<1>13. written' = Append(written, [len |-> n, start |-> Len(log) + Trailer(q[1].at),
                                   end |-> Len(log'), whole |-> W])
  BY <1>6, <1>11, <1>12
<1>14. log' = log \o InLog!FlattenSeq(Parts(Len(written) + 1, n, q, k, m))
  BY <1>10 DEF r
<1>15. torn' = torn \/ (torn = 0 /\ torn' = Len(written'))
  BY <1>2
<1>16. torn' # 0
  <2> DEFINE v == [len |-> n, start |-> Len(log) + Trailer(q[1].at), end |-> Len(log'), whole |-> W]
  <2>1. v \in {v}
    OBVIOUS
  <2> DEFINE S == Record \cup {v}
  <2>2. written \in Seq(S) /\ v \in S
    BY <1>4
  <2> HIDE DEF v, S
  <2>3. Len(Append(written, v)) = Len(written) + 1
    BY <2>2
  <2>4. Len(written') = Len(written) + 1
    BY <2>3, <1>13 DEF v
  <2> QED BY <2>4, <1>2, <1>4
<1>17. W => k = Len(q) /\ m = HeaderSize + LengthAt(n, q[k])
  BY <1>12
<1> QED BY <1>1, <1>2, <1>3, <1>5, <1>8, <1>9, <1>11, <1>13, <1>14, <1>15, <1>16,
     <1>17, AppendKeeps

-----------------------------------------------------------------------------
(* The block a reader begins with is not behind a fragment that begins at  *)
(* its offset or later.                                                    *)
LEMMA InitialBlock ==
  ASSUME NEW o \in Nat
  PROVE  /\ InLog!SkipToInitialBlock(o) \in Nat /\ Multiple(InLog!SkipToInitialBlock(o))
         /\ o = 0 => InLog!SkipToInitialBlock(o) = 0
         /\ \A x \in Nat, f \in Nat :
              o <= x /\ HeaderSize <= f /\ InBlock(x, x + f) => InLog!SkipToInitialBlock(o) <= x
<1> DEFINE m == o % BlockSize
           p == o - m
           e == InLog!SkipToInitialBlock(o)
<1>1. m \in 0 .. BlockSize - 1 /\ p \in Int /\ Multiple(p)
  BY BlockOf
<1>2. e = IF m > BlockSize - (HeaderSize - 1) THEN p + BlockSize ELSE p
  BY DEF InLog!SkipToInitialBlock
<1>3. o = p + m /\ m \in Int
  BY <1>1, LogConstants
<1> HIDE DEF m, p, e
<1>4. 0 <= p
  <2> SUFFICES ASSUME p < 0 PROVE FALSE
    BY <1>1
  <2>1. PICK y \in Int : y = 0
    OBVIOUS
  <2>2. Multiple(y)
    BY <2>1, MultipleNext
  <2>3. p + BlockSize <= y
    BY <1>1, <2>1, <2>2, MultiplesApart
  <2> QED BY <1>1, <1>3, <2>1, <2>3, LogConstants
<1>5. Multiple(p + BlockSize)
  BY <1>1, MultipleNext
<1>6. e \in Nat /\ Multiple(e)
  <2>1. p \in Nat /\ p + BlockSize \in Nat
    BY <1>1, <1>4, LogConstants
  <2> QED BY <2>1, <1>1, <1>2, <1>5
<1>7. ASSUME o = 0 PROVE e = 0
  <2>1. m = 0 /\ p = 0
    BY <1>1, <1>3, <1>4, <1>7
  <2> QED BY <2>1, <1>2, LogConstants
<1>8. ASSUME NEW x \in Nat, NEW f \in Nat, o <= x, HeaderSize <= f, InBlock(x, x + f)
      PROVE  e <= x
  <2>1. CASE ~(m > BlockSize - (HeaderSize - 1))
    BY <2>1, <1>1, <1>2, <1>3, <1>8
  <2>2. CASE m > BlockSize - (HeaderSize - 1)
    <3>1. PICK a \in Int : Multiple(a) /\ a <= x /\ x + f <= a + BlockSize
      BY <1>8 DEF InBlock
    <3>2. p < a
      BY <1>1, <1>3, <1>8, <2>2, <3>1, LogConstants
    <3>3. p + BlockSize <= a
      BY <1>1, <3>1, <3>2, MultiplesApart
    <3> QED BY <1>1, <1>2, <2>2, <3>1, <3>3, LogConstants
  <2> QED BY <2>1, <2>2
<1> QED BY <1>6, <1>7, <1>8 DEF e

(* A new reader.                                                           *)
LEMMA StartsReading ==
  ASSUME NEW fs \in Seq(Fragment), FileRight(fs)', NEW o \in Nat, NEW z \in BOOLEAN,
         NEW e, e = InLog!SkipToInitialBlock(o), o = 0 => ~z,
         reader' = [InLog!NoReader EXCEPT !.on = TRUE, !.initial = o, !.end = e, !.resyncing = z],
         e <= Len(log'), read' = <<>>
  PROVE  LogInv'
<1>1. /\ e \in Nat /\ Multiple(e) /\ (o = 0 => e = 0)
      /\ \A x \in Nat, f \in Nat : o <= x /\ HeaderSize <= f /\ InBlock(x, x + f) => e <= x
  BY InitialBlock
<1>2. /\ reader'.on /\ reader'.end = e /\ reader'.buffer = <<>> /\ ~reader'.eof
      /\ ~reader'.fragmented /\ reader'.initial = o /\ reader'.resyncing = z
      /\ ~reader'.done /\ ~reader'.reported /\ reader' \in Reader
  <2>1. reader' = [on |-> TRUE, initial |-> o, end |-> e, buffer |-> <<>>, eof |-> FALSE,
                   resyncing |-> z, fragmented |-> FALSE, scratch |-> <<>>,
                   done |-> FALSE, reported |-> FALSE]
    BY DEF InLog!NoReader
  <2>2. InLog!NoReader \in Reader
    BY DEF InLog!NoReader, Reader, Payloads
  <2>3. reader' \in Reader
    <3>1. CASE z = TRUE
      BY <3>1, <2>2, <1>1 DEF Reader
    <3>2. CASE z = FALSE
      BY <3>2, <2>2, <1>1 DEF Reader
    <3> QED BY <3>1, <3>2
  <2>4. /\ reader'.on /\ reader'.end = e /\ reader'.buffer = <<>> /\ ~reader'.eof
        /\ ~reader'.fragmented /\ reader'.initial = o /\ reader'.resyncing = z
        /\ ~reader'.done /\ ~reader'.reported
    BY ONLY <2>1
  <2> QED BY <2>3, <2>4, Zenon
<1>3. At' = e
  <2>1. Len(<<>>) = 0
    OBVIOUS
  <2>2. At' = reader'.end - Len(reader'.buffer)
    BY DEF At
  <2>3. At' = e - 0
    BY <2>1, <2>2, <1>2, Zenon
  <2> QED BY <2>3, <1>1
<1>4. log' \in Seq(LogCell) /\ Len(log') \in Nat /\ Layout(fs) /\ Len(log') <= LastEnd(fs)
  BY DEF FileRight, CellsRight
<1>5. ReaderRight'
  <2>1. read' \in Seq(Payloads)
    OBVIOUS
  <2>2. InBlock(At, reader.end)'
    <3>1. e <= e /\ e <= e + BlockSize /\ e \in Int
      BY <1>1, LogConstants
    <3>2. InBlock(e, e)
      BY <3>1, <1>1 DEF InBlock
    <3> QED BY <3>2, <1>2, <1>3 DEF InBlock
  <2>4. DOMAIN reader'.buffer = {} /\ Len(reader'.buffer) = 0
    BY <1>2
  <2> QED BY <2>1, <2>2, <2>4, <1>1, <1>2, <1>4 DEF ReaderRight
<1>6. ReadRight(fs)'
  <2> DEFINE rs == [i \in {} |-> 0]
  <2>1. DOMAIN read' = {}
    OBVIOUS
  <2>2. rs \in [DOMAIN read' -> DOMAIN written']
    BY <2>1
  <2>3. Returned(rs)' /\ \A k : Earlier(rs, k)'
    <3> HIDE DEF rs
    <3> QED BY <2>1, <2>2 DEF Returned, Earlier
  <2> HIDE DEF rs
  <2> QED BY <2>2, <2>3, <1>2 DEF ReadRight
<1>7. /\ \A i \in DOMAIN fs : InRecord(fs, i)'
      /\ \A r \in DOMAIN written' : \E i \in DOMAIN fs : fs[i].rec = r /\ fs[i].begin
      /\ \A i \in DOMAIN fs : Clean(fs[i].rec)' => Aligned(fs, i)
  BY DEF FileRight, RecordsRight, AlignedRight
<1>8. DueRight(fs)'
  <2> SUFFICES ASSUME NEW r \in InLog!Due' PROVE ToCome(fs, r)'
    BY <1>2 DEF DueRight
  <2>1. /\ r \in DOMAIN written' /\ Clean(r)' /\ o <= written'[r].start
    BY <1>2 DEF InLog!Due, Clean
  <2>2. PICK k \in DOMAIN fs : fs[k].rec = r /\ fs[k].begin
    BY <2>1, <1>7
  <2>3. written'[r].start = fs[k].at
    BY <2>2, <1>7 DEF InRecord
  <2>4. InBlock(fs[k].at, fs[k].at + FullSize(fs[k]))
    BY <2>1, <2>2, <1>7 DEF Aligned
  <2>5. fs[k].at \in Nat /\ FullSize(fs[k]) \in Nat /\ HeaderSize <= FullSize(fs[k])
    BY <1>4, InLayout
  <2>6. e <= fs[k].at
    BY <2>1, <2>3, <2>4, <2>5, <1>1
  <2> QED BY <2>2, <2>6, <1>2, <1>3 DEF ToCome, OnTrack
<1>9. QuietRight(fs)'
  <2> SUFFICES ASSUME Quiet' PROVE /\ ~reader'.reported /\ ~reader'.resyncing
                                   /\ \E k \in 0 .. Len(fs) : AfterFirst(fs, k)'
    BY DEF QuietRight
  <2>1. torn' = 0 /\ o = 0 /\ e = 0 /\ ~z
    BY <1>1, <1>2 DEF Quiet
  <2>2. Len(fs) \in Nat /\ DOMAIN fs = 1 .. Len(fs)
    BY <1>4, InLayout
  <2>3. PICK k \in 0 .. Len(fs) : k = 0
    BY <2>2
  <2>4. ASSUME k < Len(fs) PROVE NextIs(fs[k + 1])'
    <3>1. k + 1 = 1 /\ 1 \in DOMAIN fs
      BY <2>2, <2>3, <2>4
    <3>2. Aligned(fs, 1)
      BY <2>1, <3>1, <1>7 DEF Clean
    <3> QED BY <2>1, <3>1, <3>2, <1>3 DEF NextIs, Aligned
  <2>5. ASSUME ~(k < Len(fs)) PROVE At' = Len(log')
    <3>1. fs = <<>>
      BY <2>2, <2>3, <2>5
    <3>2. LastEnd(fs) = 0
      BY <3>1 DEF LastEnd
    <3> QED BY <3>2, <2>1, <1>3, <1>4
  <2>6. AfterFirst(fs, k)'
    BY <2>3, <2>4, <2>5, <1>2 DEF AfterFirst
  <2> QED BY <2>1, <2>6, <1>2
<1> QED BY <1>5, <1>6, <1>8, <1>9 DEF LogInv

LEMMA OpenKeeps ==
  ASSUME LogInv, InLog!OpenAtStart \/ InLog!OpenLater
  PROVE  LogInv'
<1>1. PICK fs \in Seq(Fragment) : FileRight(fs) /\ ReaderRight
  BY DEF LogInv
<1>2. log \in Seq(LogCell) /\ Len(log) \in Nat
  BY <1>1 DEF FileRight, CellsRight
<1>3. PICK o \in Nat : InLog!Open(o)
  <2>1. CASE InLog!OpenAtStart
    <3>1. PICK y \in Nat : y = 0
      OBVIOUS
    <3>2. InLog!Open(y)
      BY <2>1, <3>1 DEF InLog!OpenAtStart
    <3> QED BY <3>2
  <2>2. CASE InLog!OpenLater
    <3>1. PICK y \in 1 .. Len(log) : InLog!Open(y)
      BY <2>2 DEF InLog!OpenLater
    <3>2. y \in Nat
      BY <1>2
    <3> QED BY <3>1, <3>2
  <2> QED BY <2>1, <2>2
<1>4. PICK z \in BOOLEAN : (z = TRUE /\ o > 0) \/ (z = FALSE /\ o = 0)
  <2>1. CASE o > 0
    <3>1. TRUE \in BOOLEAN
      OBVIOUS
    <3> QED BY <2>1, <3>1, Zenon
  <2>2. CASE o = 0
    <3>1. FALSE \in BOOLEAN
      OBVIOUS
    <3> QED BY <2>2, <3>1, Zenon
  <2>3. o > 0 \/ o = 0
    OBVIOUS
  <2> QED BY <2>1, <2>2, <2>3, Zenon
<1>5. PICK e : e = InLog!SkipToInitialBlock(o)
  OBVIOUS
<1>6. /\ ~reader.on /\ e <= Len(log)
      /\ reader' = [InLog!NoReader EXCEPT !.on = TRUE, !.initial = o, !.end = e, !.resyncing = z]
      /\ log' = log /\ blockOffset' = blockOffset /\ written' = written /\ torn' = torn
      /\ damaged' = damaged /\ read' = read
  <2>1. reader' = [InLog!NoReader EXCEPT !.on = TRUE, !.initial = o, !.end = InLog!SkipToInitialBlock(o),
                                         !.resyncing = (o > 0)]
    BY <1>3, Zenon DEF InLog!Open
  <2>2. reader' = [InLog!NoReader EXCEPT !.on = TRUE, !.initial = o, !.end = e, !.resyncing = z]
    <3>1. CASE z = TRUE /\ o > 0
      BY <2>1, <3>1, <1>5
    <3>2. CASE z = FALSE /\ o = 0
      <4>1. (o > 0) = FALSE
        BY <3>2
      <4> QED BY <2>1, <3>2, <4>1, <1>5, Zenon
    <3> QED BY <1>4, <3>1, <3>2
  <2>3. /\ ~reader.on /\ e <= Len(log)
        /\ log' = log /\ blockOffset' = blockOffset /\ written' = written /\ torn' = torn
        /\ damaged' = damaged /\ read' = read
    BY <1>3, <1>5, Zenon DEF InLog!Open
  <2> QED BY <2>2, <2>3
<1>7. read' = <<>> /\ e <= Len(log') /\ (o = 0 => ~z)
  BY <1>1, <1>4, <1>6 DEF ReaderRight
<1>8. FileRight(fs)'
  <2>1. Layout(fs)
    BY <1>1 DEF FileRight
  <2>2. CellsRight(fs)'
    BY <1>1, <1>6 DEF FileRight, CellsRight
  <2>3. RecordsRight(fs)'
    BY <1>1, <1>6 DEF FileRight, RecordsRight, InRecord, Clean
  <2>4. AlignedRight(fs)'
    BY <1>1, <1>6 DEF FileRight, AlignedRight, Clean, InLog!NoReader
  <2> QED BY <2>1, <2>2, <2>3, <2>4 DEF FileRight
<1> QED BY <1>5, <1>6, <1>7, <1>8, StartsReading

LEMMA CutKeeps ==
  ASSUME LogInv, InLog!Cut
  PROVE  LogInv'
<1>1. PICK fs \in Seq(Fragment) : FileRight(fs) /\ ReaderRight
  BY DEF LogInv
<1>2. Layout(fs) /\ CellsRight(fs) /\ RecordsRight(fs) /\ AlignedRight(fs)
  BY <1>1 DEF FileRight
<1>3. log \in Seq(LogCell) /\ Len(log) \in Nat /\ DOMAIN log = 1 .. Len(log)
  BY <1>2 DEF CellsRight
<1>4. PICK n \in 0 .. Len(log) - 1 : log' = SubSeq(log, 1, n) /\ damaged' = damaged \cap 1 .. n
  BY DEF InLog!Cut
<1>5. /\ ~reader.on /\ reader' = [InLog!NoReader EXCEPT !.on = TRUE]
      /\ blockOffset' = blockOffset /\ written' = written /\ torn' = torn /\ read' = read
  BY DEF InLog!Cut
<1>6. PICK o, z, e : o = 0 /\ z = FALSE /\ e = InLog!SkipToInitialBlock(o)
  OBVIOUS
<1>7. o \in Nat /\ z \in BOOLEAN /\ e = 0
  <2>1. o \in Nat /\ z \in BOOLEAN
    BY <1>6
  <2>2. o = 0 => InLog!SkipToInitialBlock(o) = 0
    BY <2>1, InitialBlock
  <2>3. e = 0
    BY <2>2, <1>6, Zenon
  <2> QED BY <2>1, <2>3
<1>8. reader' = [InLog!NoReader EXCEPT !.on = TRUE, !.initial = o, !.end = e, !.resyncing = z]
  <2>1. reader' = [InLog!NoReader EXCEPT !.on = TRUE, !.initial = 0, !.end = 0, !.resyncing = FALSE]
    <3>1. reader' = [on |-> TRUE, initial |-> 0, end |-> 0, buffer |-> <<>>, eof |-> FALSE,
             resyncing |-> FALSE, fragmented |-> FALSE, scratch |-> <<>>,
             done |-> FALSE, reported |-> FALSE]
      BY <1>5 DEF InLog!NoReader
    <3>2. PICK v : v = [InLog!NoReader EXCEPT !.on = TRUE, !.initial = 0, !.end = 0, !.resyncing = FALSE]
      OBVIOUS
    <3>3. v = [on |-> TRUE, initial |-> 0, end |-> 0, buffer |-> <<>>, eof |-> FALSE,
             resyncing |-> FALSE, fragmented |-> FALSE, scratch |-> <<>>,
             done |-> FALSE, reported |-> FALSE]
      BY <3>2 DEF InLog!NoReader
    <3> QED BY <3>1, <3>2, <3>3, Zenon
  <2> QED BY <2>1, <1>6, <1>7, Zenon
<1>9. /\ log' \in Seq(LogCell) /\ Len(log') = n /\ n \in Nat /\ DOMAIN log' = 1 .. n
      /\ \A p \in 1 .. n : log'[p] = log[p] /\ p \in DOMAIN log
  <2>1. n \in Nat /\ n <= Len(log)
    BY <1>3
  <2>2. log' \in Seq(LogCell) /\ Len(log') = n /\ \A i \in 1 .. n : log'[i] = log[i]
    BY <1>3, <1>4, <2>1, Beginning
  <2> QED BY <2>1, <2>2, <1>3
<1>10. CellsRight(fs)'
  <2>1. \A p \in DOMAIN log' \ damaged' : p \in DOMAIN log \ damaged /\ log'[p] = log[p]
    BY <1>4, <1>9
  <2>2. \A i \in DOMAIN fs : \A p \in DOMAIN log' \ damaged' :
          Within(p, fs[i]) => log'[p] = CellOf(fs[i], p - fs[i].at)
    BY <2>1, <1>2 DEF CellsRight
  <2>3. \A p \in DOMAIN log' :
          log'[p] \in {ZeroCell, BadCell} \/ \E i \in DOMAIN fs : Within(p, fs[i])
    BY <1>2, <1>9 DEF CellsRight
  <2>4. damaged' \subseteq DOMAIN log' /\ \A p \in damaged' : log'[p] = BadCell
    BY <1>2, <1>4, <1>9 DEF CellsRight
  <2>5. Len(log') <= LastEnd(fs)
    <3>1. Len(log) <= LastEnd(fs) /\ Len(log) = LastEnd(fs)
      BY <1>2, <1>5 DEF CellsRight
    <3> QED BY <3>1, <1>3, <1>9
  <2>6. reader'.on
    BY <1>8 DEF InLog!NoReader
  <2> QED BY <1>9, <2>2, <2>3, <2>4, <2>5, <2>6 DEF CellsRight
<1>11. RecordsRight(fs)'
  BY <1>2, <1>5 DEF RecordsRight, InRecord, Clean
<1>12. AlignedRight(fs)'
  BY <1>2, <1>5 DEF AlignedRight, Clean, InLog!NoReader
<1>13. FileRight(fs)'
  BY <1>2, <1>10, <1>11, <1>12 DEF FileRight
<1>14. read' = <<>> /\ e <= Len(log') /\ (o = 0 => ~z)
  BY <1>1, <1>5, <1>6, <1>7, <1>9 DEF ReaderRight
<1> QED BY <1>6, <1>7, <1>8, <1>13, <1>14, StartsReading

LEMMA DamageKeeps ==
  ASSUME LogInv, InLog!Damage
  PROVE  LogInv'
<1>1. PICK fs \in Seq(Fragment) : FileRight(fs) /\ ReaderRight
  BY DEF LogInv
<1>2. Layout(fs) /\ CellsRight(fs) /\ RecordsRight(fs) /\ AlignedRight(fs)
  BY <1>1 DEF FileRight
<1>3. PICK n \in DOMAIN log : log' = [log EXCEPT ![n] = BadCell] /\ damaged' = damaged \cup {n}
  BY DEF InLog!Damage, BadCell
<1>4. /\ ~reader.on /\ reader' = reader /\ blockOffset' = blockOffset /\ written' = written
      /\ torn' = torn /\ read' = read
  BY DEF InLog!Damage
<1>5. BadCell \in LogCell
  BY DEF BadCell, LogCell, InLog!Cell, Payloads
<1>6. /\ log' \in Seq(LogCell) /\ DOMAIN log' = DOMAIN log /\ Len(log') = Len(log)
      /\ \A p \in DOMAIN log : log'[p] = IF p = n THEN BadCell ELSE log[p]
  <2>1. log \in Seq(LogCell)
    BY <1>2 DEF CellsRight
  <2> QED BY <2>1, <1>3, <1>5
<1>7. CellsRight(fs)'
  <2>1. \A i \in DOMAIN fs : \A p \in DOMAIN log' \ damaged' :
          Within(p, fs[i]) => log'[p] = CellOf(fs[i], p - fs[i].at)
    BY <1>2, <1>3, <1>6 DEF CellsRight
  <2>2. \A p \in DOMAIN log' :
          log'[p] \in {ZeroCell, BadCell} \/ \E i \in DOMAIN fs : Within(p, fs[i])
    BY <1>2, <1>6 DEF CellsRight
  <2>3. damaged' \subseteq DOMAIN log' /\ \A p \in damaged' : log'[p] = BadCell
    BY <1>2, <1>3, <1>6 DEF CellsRight
  <2>4. Len(log') <= LastEnd(fs) /\ (~reader'.on => Len(log') = LastEnd(fs))
    BY <1>2, <1>4, <1>6 DEF CellsRight
  <2> QED BY <1>6, <2>1, <2>2, <2>3, <2>4 DEF CellsRight
<1>8. RecordsRight(fs)'
  BY <1>2, <1>4 DEF RecordsRight, InRecord, Clean
<1>9. AlignedRight(fs)'
  BY <1>2, <1>4 DEF AlignedRight, Clean
<1>10. FileRight(fs)'
  BY <1>2, <1>7, <1>8, <1>9 DEF FileRight
<1>11. reader' = InLog!NoReader /\ read' = <<>>
  BY <1>1, <1>4 DEF ReaderRight
<1> QED BY <1>10, <1>11, NotReading

LEMMA LogStarts ==
  ASSUME InLog!Init
  PROVE  LogInv
<1> DEFINE fs == <<>>
<1>1. /\ log = <<>> /\ blockOffset = 0 /\ written = <<>> /\ torn = 0 /\ damaged = {}
      /\ reader = InLog!NoReader /\ read = <<>>
  BY DEF InLog!Init
<1>2. fs \in Seq(Fragment) /\ DOMAIN fs = {} /\ Len(fs) = 0 /\ fs = <<>>
  OBVIOUS
<1>3. log \in Seq(LogCell) /\ Len(log) = 0 /\ DOMAIN log = {} /\ DOMAIN read = {}
      /\ read \in Seq(Payloads) /\ written \in Seq(Record)
      /\ DOMAIN written = {} /\ Len(written) = 0
  BY <1>1
<1> HIDE DEF fs
<1>4. LastEnd(fs) = 0
  BY <1>2 DEF LastEnd
<1>5. Layout(fs)
  <2>1. \A i \in 1 .. Len(fs) - 1 : FALSE
    BY <1>2
  <2> QED BY <2>1, <1>2 DEF Layout
<1>6. CellsRight(fs)
  BY <1>1, <1>2, <1>3, <1>4 DEF CellsRight
<1>7. RecordsRight(fs)
  BY <1>1, <1>2, <1>3 DEF RecordsRight
<1>8. AlignedRight(fs)
  <2>1. Multiple(LastEnd(fs) - blockOffset)
    <3>1. LastEnd(fs) - blockOffset = 0
      BY <1>1, <1>4
    <3> QED BY <3>1, MultipleNext
  <2> QED BY <2>1, <1>1, <1>2, LogConstants DEF AlignedRight
<1>9. reader \in Reader
  BY <1>1 DEF InLog!NoReader, Reader, Payloads
<1>10. /\ ~reader.on /\ reader.end = 0 /\ reader.buffer = <<>> /\ ~reader.eof
       /\ ~reader.fragmented
  BY <1>1 DEF InLog!NoReader
<1>11. At = 0 /\ Len(reader.buffer) = 0
  <2>1. Len(<<>>) = 0
    OBVIOUS
  <2>2. At = reader.end - Len(reader.buffer)
    BY DEF At
  <2>3. At = 0 - 0
    BY <2>1, <2>2, <1>10, Zenon
  <2> QED BY <2>1, <2>3, <1>10
<1>12. ReaderRight
  <2>1. InBlock(At, reader.end)
    <3>1. 0 <= 0 /\ 0 <= 0 + BlockSize
      BY LogConstants
    <3>2. InBlock(0, 0)
      BY <3>1, MultipleNext DEF InBlock
    <3> QED BY <3>2, <1>10, <1>11
  <2>2. DOMAIN reader.buffer = {}
    BY <1>10
  <2> QED BY <2>1, <2>2, <1>1, <1>3, <1>9, <1>10, <1>11, MultipleNext DEF ReaderRight
<1>13. ReadRight(fs)
  <2> DEFINE rs == [i \in {} |-> 0]
  <2>1. rs \in [DOMAIN read -> DOMAIN written]
    BY <1>3
  <2> HIDE DEF rs
  <2>2. Returned(rs) /\ \A k : Earlier(rs, k)
    BY <2>1, <1>3 DEF Returned, Earlier
  <2> QED BY <2>1, <2>2, <1>10 DEF ReadRight
<1>14. DueRight(fs) /\ QuietRight(fs)
  BY <1>10 DEF DueRight, QuietRight
<1> QED BY <1>2, <1>5, <1>6, <1>7, <1>8, <1>12, <1>13, <1>14 DEF LogInv, FileRight

-----------------------------------------------------------------------------
(* Blocks and what is in them.                                             *)
LEMMA FitsBefore ==
  ASSUME NEW x \in Nat, NEW f \in Nat, NEW e \in Nat, x < e, InBlock(x, x + f), Multiple(e)
  PROVE  x + f <= e
<1>1. PICK a \in Int : Multiple(a) /\ a <= x /\ x + f <= a + BlockSize
  BY DEF InBlock
<1>2. a + BlockSize <= e
  <2>1. a < e
    BY <1>1
  <2> QED BY <1>1, <2>1, MultiplesApart
<1> QED BY <1>1, <1>2, LogConstants

LEMMA NextBlock ==
  ASSUME NEW x \in Nat, NEW e \in Nat, NEW n \in Nat, InBlock(x, e), Multiple(n), x < n
  PROVE  e <= n
<1>1. PICK a \in Int : Multiple(a) /\ a <= x /\ e <= a + BlockSize
  BY DEF InBlock
<1>2. a + BlockSize <= n
  <2>1. a < n
    BY <1>1
  <2> QED BY <1>1, <2>1, MultiplesApart
<1> QED BY <1>1, <1>2, LogConstants

LEMMA AlignedAt ==
  ASSUME NEW fs, Layout(fs), NEW l \in DOMAIN fs, Aligned(fs, l), NEW k \in DOMAIN fs, l = k + 1
  PROVE  /\ EndAt(fs[k]) <= fs[l].at
         /\ \/ fs[l].at = EndAt(fs[k])
            \/ Multiple(fs[l].at) /\ fs[l].at < EndAt(fs[k]) + HeaderSize
<1>1. Len(fs) \in Nat /\ DOMAIN fs = 1 .. Len(fs)
  BY InLayout
<1>2. l > 1 /\ l - 1 = k /\ k < l
  BY <1>1
<1>3. \/ fs[l].at = EndAt(fs[l - 1])
      \/ Multiple(fs[l].at) /\ fs[l].at < EndAt(fs[l - 1]) + HeaderSize
  BY <1>2 DEF Aligned
<1>4. EndAt(fs[k]) <= fs[l].at
  BY <1>2, LayoutOrder
<1> QED BY <1>2, <1>3, <1>4

(* A fragment is reached from the beginning of its block.                  *)
LEMMA BlockStart ==
  ASSUME NEW fs, Layout(fs), NEW t \in DOMAIN fs,
         \A l \in DOMAIN fs : l <= t => Aligned(fs, l),
         NEW a \in Nat, Multiple(a), a <= fs[t].at, fs[t].at < a + BlockSize
  PROVE  \E l \in 1 .. t : fs[l].at = a
<1> DEFINE S == {l \in 1 .. t : a <= fs[l].at}
<1>1. Len(fs) \in Nat /\ DOMAIN fs = 1 .. Len(fs) /\ t \in Nat /\ t \in 1 .. t
  <2>1. Len(fs) \in Nat /\ DOMAIN fs = 1 .. Len(fs)
    BY InLayout
  <2> QED BY <2>1
<1>2. S \in SUBSET (0 .. t) /\ S # {}
  BY <1>1
<1> HIDE DEF S
<1>3. PICK l \in S : \A k \in S : l <= k
  BY <1>1, <1>2, LeastOf
<1>4. l \in 1 .. t /\ a <= fs[l].at /\ l \in DOMAIN fs
  BY <1>1 DEF S
<1>5. /\ Aligned(fs, l) /\ fs[l].at \in Nat
  BY <1>1, <1>4, InLayout
<1>6. CASE l = 1
  <2>1. fs[l].at = 0
    BY <1>5, <1>6 DEF Aligned
  <2>2. fs[l].at = a
    BY <2>1, <1>4
  <2> QED BY <2>2, <1>4
<1>7. CASE l # 1
  <2>1. PICK k \in 1 .. t : l = k + 1 /\ k < l
    <3>1. l - 1 \in 1 .. t /\ l = (l - 1) + 1 /\ l - 1 < l
      BY <1>1, <1>4, <1>7
    <3> QED BY <3>1, Zenon
  <2>2. k \in DOMAIN fs /\ ~(l <= k) /\ k <= t
    BY <1>1, <1>4, <2>1
  <2>3. ~(a <= fs[k].at)
    BY <2>1, <2>2, <1>3 DEF S
  <2> DEFINE x == fs[k].at
             f == FullSize(fs[k])
             e == EndAt(fs[k])
             y == fs[l].at
  <2>4. x \in Nat /\ f \in Nat /\ e \in Nat /\ e <= x + f
    BY <2>2, InLayout
  <2>5. InBlock(x, x + f)
    BY <2>2 DEF Aligned
  <2>6. e <= y /\ (y = e \/ (Multiple(y) /\ y < e + HeaderSize))
    BY <2>1, <2>2, <1>4, <1>5, AlignedAt
  <2>7. y \in Nat /\ a <= y /\ x < a
    BY <2>3, <2>4, <1>4, <1>5
  <2> HIDE DEF x, f, e, y
  <2>8. x + f <= a
    BY <2>4, <2>5, <2>7, FitsBefore
  <2>9. CASE y = e
    <3>1. y = a
      BY <2>4, <2>7, <2>8, <2>9
    <3> QED BY <3>1, <1>4 DEF y
  <2>10. CASE Multiple(y) /\ y < e + HeaderSize
    <3>1. ~(a < y)
      <4> SUFFICES ASSUME a < y PROVE FALSE
        OBVIOUS
      <4>1. a + BlockSize <= y
        BY <2>7, <2>10, MultiplesApart
      <4> QED BY <4>1, <2>4, <2>7, <2>8, <2>10, LogConstants
    <3>2. y = a
      BY <3>1, <2>7
    <3> QED BY <3>2, <1>4 DEF y
  <2> QED BY <2>6, <2>9, <2>10
<1> QED BY <1>6, <1>7

(* The fragment before the reader.                                         *)
LEMMA Reading ==
  ASSUME NEW fs, FileRight(fs), ReaderRight
  PROVE  /\ Layout(fs) /\ CellsRight(fs) /\ RecordsRight(fs) /\ AlignedRight(fs)
         /\ log \in Seq(LogCell) /\ Len(log) \in Nat /\ DOMAIN log = 1 .. Len(log)
         /\ reader \in Reader /\ reader.buffer \in Seq(LogCell)
         /\ Len(reader.buffer) \in Nat
         /\ DOMAIN reader.buffer = 1 .. Len(reader.buffer)
         /\ At \in Nat /\ reader.end \in Nat /\ At + Len(reader.buffer) = reader.end
         /\ At <= reader.end /\ reader.end <= Len(log)
         /\ \A i \in 1 .. Len(reader.buffer) : /\ reader.buffer[i] = log[At + i]
                                               /\ At + i \in 1 .. Len(log)
<1>1. Layout(fs) /\ CellsRight(fs) /\ RecordsRight(fs) /\ AlignedRight(fs)
  BY DEF FileRight
<1>2. log \in Seq(LogCell) /\ Len(log) \in Nat /\ DOMAIN log = 1 .. Len(log)
  BY <1>1 DEF CellsRight
<1>3. reader \in Reader /\ reader.end <= Len(log) /\ Len(reader.buffer) <= reader.end
  BY DEF ReaderRight
<1>4. reader.buffer \in Seq(LogCell) /\ reader.end \in Nat
  BY <1>3 DEF Reader
<1>5. Len(reader.buffer) \in Nat /\ DOMAIN reader.buffer = 1 .. Len(reader.buffer)
  BY <1>4
<1>6. At \in Nat /\ At + Len(reader.buffer) = reader.end /\ At <= reader.end
  BY <1>3, <1>4, <1>5 DEF At
<1>7. ASSUME NEW i \in 1 .. Len(reader.buffer)
      PROVE  reader.buffer[i] = log[At + i] /\ At + i \in 1 .. Len(log)
  <2>1. reader.buffer[i] = log[At + i]
    BY <1>5 DEF ReaderRight
  <2>2. At + i \in 1 .. Len(log)
    BY <1>2, <1>3, <1>4, <1>5, <1>6
  <2> QED BY <2>1, <2>2
<1> QED BY <1>1, <1>2, <1>3, <1>4, <1>5, <1>6, <1>7

LEMMA HeadHere ==
  ASSUME NEW fs, FileRight(fs), ReaderRight, InLog!Ready, NEW l \in DOMAIN fs,
         fs[l].at = At, 0 < fs[l].size, At + 1 \notin damaged
  PROVE  /\ InLog!Header = InLog!Cell("head", TypeOf(fs[l]), DataOf(fs[l]))
         /\ InLog!Header.kind = "head" /\ InLog!Header.type = TypeOf(fs[l])
         /\ InLog!Header.data = DataOf(fs[l])
         /\ InLog!Extent = FullSize(fs[l])
<1>1. /\ Layout(fs) /\ CellsRight(fs) /\ At \in Nat /\ Len(reader.buffer) \in Nat
      /\ \A i \in 1 .. Len(reader.buffer) : /\ reader.buffer[i] = log[At + i]
                                            /\ At + i \in 1 .. Len(log)
      /\ DOMAIN log = 1 .. Len(log)
  BY Reading
<1>2. 1 \in 1 .. Len(reader.buffer)
  BY <1>1, LogConstants DEF InLog!Ready
<1>3. InLog!Header = log[At + 1] /\ At + 1 \in DOMAIN log \ damaged
  BY <1>1, <1>2 DEF InLog!Header
<1>4. fs[l] \in Fragment /\ FragmentRight(fs[l]) /\ fs[l].size \in Nat
  BY <1>1, InLayout
<1>5. Within(At + 1, fs[l]) /\ (At + 1) - fs[l].at = 1
  BY <1>1, <1>4 DEF Within, EndAt
<1>6. InLog!Header = CellOf(fs[l], 1)
  <2>1. log[At + 1] = CellOf(fs[l], (At + 1) - fs[l].at)
    BY <1>1, <1>3, <1>5 DEF CellsRight
  <2> QED BY <2>1, <1>3, <1>5
<1>7. InLog!Header = InLog!Cell("head", TypeOf(fs[l]), DataOf(fs[l]))
  BY <1>6 DEF CellOf
<1>8. /\ InLog!Header.kind = "head" /\ InLog!Header.type = TypeOf(fs[l])
      /\ InLog!Header.data = DataOf(fs[l])
  BY <1>7 DEF InLog!Cell
<1>9. Len(DataOf(fs[l])) = fs[l].to - fs[l].from
  BY <1>4, CellsAre
<1>10. InLog!Extent = FullSize(fs[l])
  BY <1>8, <1>9 DEF InLog!Extent, FullSize
<1> QED BY <1>7, <1>8, <1>10

LEMMA ValidHere ==
  ASSUME NEW fs, FileRight(fs), ReaderRight, InLog!Ready, NEW l \in DOMAIN fs,
         fs[l].at = At, Complete(fs[l]), EndAt(fs[l]) <= reader.end,
         \A p \in damaged : ~Within(p, fs[l])
  PROVE  InLog!Valid
<1> DEFINE f == fs[l]
           d == DataOf(f)
           n == Len(reader.buffer)
<1>1. /\ Layout(fs) /\ CellsRight(fs) /\ At \in Nat /\ n \in Nat
      /\ \A i \in 1 .. n : reader.buffer[i] = log[At + i] /\ At + i \in 1 .. Len(log)
      /\ DOMAIN log = 1 .. Len(log) /\ At + n = reader.end /\ reader.end \in Nat
  BY Reading
<1>2. /\ f \in Fragment /\ FragmentRight(f) /\ f.size \in Nat /\ f.size = FullSize(f)
      /\ FullSize(f) \in Nat /\ HeaderSize <= FullSize(f) /\ EndAt(f) = At + FullSize(f)
      /\ f.rec \in Nat /\ f.from \in Nat /\ f.to \in Nat
  BY <1>1, InLayout DEF Complete
<1>3. FullSize(f) <= n
  BY <1>1, <1>2
<1> HIDE DEF f
<1>4. ASSUME NEW c \in 1 .. FullSize(f)
      PROVE  c \in 1 .. n /\ reader.buffer[c] = CellOf(f, c) /\ At + c \notin damaged
  <2>1. c \in 1 .. n
    BY <1>1, <1>2, <1>3
  <2>2. Within(At + c, f) /\ (At + c) - f.at = c
    BY <1>1, <1>2 DEF Within, f
  <2>3. At + c \in DOMAIN log \ damaged
    BY <2>1, <2>2, <1>1 DEF f
  <2>4. log[At + c] = CellOf(f, (At + c) - f.at)
    BY <2>2, <2>3, <1>1 DEF CellsRight, f
  <2> QED BY <2>1, <2>2, <2>3, <2>4, <1>1
<1>5. 1 \in 1 .. FullSize(f)
  BY <1>2, LogConstants
<1>6. InLog!Header = InLog!Cell("head", TypeOf(f), d)
  BY <1>4, <1>5 DEF CellOf, InLog!Header
<1>7. InLog!Header.kind = "head" /\ InLog!Header.type = TypeOf(f) /\ InLog!Header.data = d
  BY <1>6 DEF InLog!Cell
<1>8. d \in Payloads /\ Len(d) = f.to - f.from /\ f.from <= f.to
  BY <1>2, CellsAre DEF FragmentRight
<1>9. InLog!Extent <= Len(reader.buffer)
  BY <1>3, <1>7, <1>8 DEF InLog!Extent, FullSize
<1>10. ASSUME NEW i \in 2 .. HeaderSize
       PROVE  reader.buffer[i] = InLog!Cell("rest", InLog!Header.type, InLog!Header.data)
  <2>1. i \in 1 .. FullSize(f) /\ i # 1 /\ i <= HeaderSize
    BY <1>2, LogConstants
  <2> QED BY <2>1, <1>4, <1>7 DEF CellOf
<1>11. ASSUME NEW i \in DOMAIN d
       PROVE  reader.buffer[HeaderSize + i] = InLog!Cell("data", "", d[i])
  <2>1. i \in 1 .. f.to - f.from
    <3>1. i \in DOMAIN d
      OBVIOUS
    <3> HIDE DEF d
    <3>2. DOMAIN d = 1 .. Len(d)
      BY <1>8 DEF Payloads
    <3> QED BY <3>1, <3>2, <1>8
  <2>2. d[i] = <<f.rec, f.from + i>>
    <3>1. d = InLog!Payload(f.rec, f.from, f.to)
      BY DEF DataOf
    <3>2. \A k \in 1 .. f.to - f.from : InLog!Payload(f.rec, f.from, f.to)[k] = <<f.rec, f.from + k>>
      BY <1>2, <1>8, PayloadIs
    <3> HIDE DEF d
    <3> QED BY <2>1, <3>1, <3>2
  <2>3. /\ HeaderSize + i \in 1 .. FullSize(f)
        /\ HeaderSize + i # 1 /\ ~(HeaderSize + i <= HeaderSize)
        /\ (HeaderSize + i) - HeaderSize = i
    BY <2>1, <1>2, LogConstants DEF FullSize
  <2>4. reader.buffer[HeaderSize + i] = CellOf(f, HeaderSize + i)
    BY <2>3, <1>4
  <2> HIDE DEF d
  <2> QED BY <2>2, <2>3, <2>4 DEF CellOf
<1> QED BY <1>7, <1>9, <1>10, <1>11 DEF InLog!Valid

(* What passes for a fragment is one that was written whole.               *)
Here(fs, l) ==
  /\ l \in DOMAIN fs /\ fs[l].at = At /\ Complete(fs[l])
  /\ InLog!Header.type = TypeOf(fs[l]) /\ InLog!Header.data = DataOf(fs[l])
  /\ InLog!Extent = FullSize(fs[l]) /\ At + InLog!Extent = EndAt(fs[l]) /\ At < EndAt(fs[l])
  /\ InLog!Extent \in Nat /\ InLog!Extent <= Len(reader.buffer)
  /\ EndAt(fs[l]) <= reader.end

LEMMA FragmentHere ==
  ASSUME NEW fs, FileRight(fs), ReaderRight, InLog!Ready, InLog!Valid
  PROVE  \E l \in DOMAIN fs : Here(fs, l)
<1> DEFINE n == Len(reader.buffer)
<1>1. /\ Layout(fs) /\ CellsRight(fs) /\ At \in Nat /\ n \in Nat
      /\ \A i \in 1 .. n : reader.buffer[i] = log[At + i] /\ At + i \in 1 .. Len(log)
      /\ DOMAIN log = 1 .. Len(log) /\ At + n = reader.end /\ reader.end \in Nat
  BY Reading
<1>2. /\ \A p \in DOMAIN log : log[p] \in {ZeroCell, BadCell} \/ \E i \in DOMAIN fs : Within(p, fs[i])
      /\ \A p \in damaged : log[p] = BadCell
      /\ \A i \in DOMAIN fs : \A p \in DOMAIN log \ damaged :
           Within(p, fs[i]) => log[p] = CellOf(fs[i], p - fs[i].at)
  BY <1>1 DEF CellsRight
<1>3. ZeroCell.kind = "zero" /\ BadCell.kind = "bad"
  BY DEF ZeroCell, BadCell, InLog!Cell
<1>4. ASSUME NEW p \in DOMAIN log, log[p].kind \in {"head", "rest", "data"}
      PROVE  \E i \in DOMAIN fs : /\ Within(p, fs[i]) /\ log[p] = CellOf(fs[i], p - fs[i].at)
  <2>1. p \notin damaged /\ log[p] \notin {ZeroCell, BadCell}
    BY <1>2, <1>3, <1>4
  <2>2. PICK i \in DOMAIN fs : Within(p, fs[i])
    BY <2>1, <1>2
  <2> QED BY <2>1, <2>2, <1>2
<1>5. \A f, c : /\ CellOf(f, c).kind = "head" <=> c = 1
                /\ CellOf(f, c).kind \in {"head", "rest", "data"}
  BY DEF CellOf, InLog!Cell
<1>6. 1 \in 1 .. n /\ InLog!Header = log[At + 1] /\ At + 1 \in DOMAIN log
  <2>1. 1 \in 1 .. n
    BY <1>1, LogConstants DEF InLog!Ready
  <2> QED BY <2>1, <1>1 DEF InLog!Header
<1>7. PICK l \in DOMAIN fs : Within(At + 1, fs[l]) /\ log[At + 1] = CellOf(fs[l], (At + 1) - fs[l].at)
  <2>1. log[At + 1].kind = "head"
    BY <1>6 DEF InLog!Valid
  <2> QED BY <2>1, <1>4, <1>6
<1> DEFINE f == fs[l]
<1>8. /\ f \in Fragment /\ FragmentRight(f) /\ f.size \in Nat
      /\ f.at \in Nat /\ FullSize(f) \in Nat
      /\ HeaderSize <= FullSize(f) /\ f.size <= FullSize(f) /\ EndAt(f) = f.at + f.size
  <2>1. /\ f \in Fragment /\ FragmentRight(f) /\ f.size \in Nat
        /\ f.at \in Nat /\ FullSize(f) \in Nat
        /\ HeaderSize <= FullSize(f)
    BY <1>1, InLayout
  <2> QED BY <2>1 DEF FragmentRight, EndAt
<1>9. f.at = At
  <2>1. (At + 1) - f.at = 1
    <3>1. InLog!Header.kind = "head"
      BY DEF InLog!Valid
    <3>2. CellOf(fs[l], (At + 1) - fs[l].at).kind = "head"
      BY <3>1, <1>6, <1>7, Zenon
    <3>3. \A c : CellOf(fs[l], c).kind = "head" => c = 1
      BY DEF CellOf, InLog!Cell
    <3> QED BY <3>2, <3>3, Zenon
  <2> QED BY <2>1, <1>1, <1>8
<1>10. At + 1 \notin damaged
  BY <1>2, <1>3, <1>6 DEF InLog!Valid
<1>11. 0 < f.size
  <2>1. At < f.at + f.size
    BY <1>1, <1>7, <1>8 DEF Within
  <2> QED BY <2>1, <1>1, <1>8, <1>9
<1>12. /\ InLog!Header.type = TypeOf(f) /\ InLog!Header.data = DataOf(f)
       /\ InLog!Extent = FullSize(f)
  BY <1>9, <1>10, <1>11, HeadHere
<1>13. FullSize(f) <= n
  BY <1>12 DEF InLog!Valid
<1>14. f.size = FullSize(f)
  <2> SUFFICES ASSUME f.size # FullSize(f) PROVE FALSE
    OBVIOUS
  <2> DEFINE c == f.size + 1
             p == At + c
  <2> HIDE DEF f
  <2>1. /\ c \in Int /\ 2 <= c /\ c <= FullSize(f) /\ c \in 1 .. n /\ c # 1
        /\ p \in Int /\ p = EndAt(f) + 1
    <3>1. /\ n \in Nat /\ At \in Nat /\ f.size \in Nat /\ 0 < f.size /\ FullSize(f) \in Nat
          /\ f.size <= FullSize(f) /\ FullSize(f) <= n /\ f.size # FullSize(f)
          /\ EndAt(f) = At + f.size
      BY <1>1, <1>8, <1>9, <1>11, <1>13
    <3> QED BY ONLY <3>1 DEF c, p
  <2>2. reader.buffer[c] = log[p] /\ p \in DOMAIN log
    BY <2>1, <1>1
  <2>3. log[p].kind \in {"rest", "data"}
    <3>1. CASE c <= HeaderSize
      <4>1. c \in 2 .. HeaderSize
        BY <3>1, <2>1, LogConstants
      <4>2. reader.buffer[c] = InLog!Cell("rest", InLog!Header.type, InLog!Header.data)
        BY <4>1 DEF InLog!Valid
      <4> QED BY <4>2, <2>2 DEF InLog!Cell
    <3>2. CASE ~(c <= HeaderSize)
      <4>1. PICK i \in 1 .. f.to - f.from : i = c - HeaderSize /\ HeaderSize + i = c
        <5>1. f.from \in Nat /\ f.to \in Nat
          BY <1>8 DEF Fragment
        <5>2. c - HeaderSize \in 1 .. f.to - f.from /\ HeaderSize + (c - HeaderSize) = c
          BY <5>1, <3>2, <2>1, LogConstants DEF FullSize
        <5> QED BY <5>2
      <4>2. i \in DOMAIN InLog!Header.data
        <5>1. DataOf(f) \in Payloads /\ Len(DataOf(f)) = f.to - f.from
          BY <1>8, CellsAre
        <5>2. DOMAIN DataOf(f) = 1 .. f.to - f.from
          BY <5>1 DEF Payloads
        <5> QED BY <5>2, <1>12 DEF f
      <4>3. reader.buffer[HeaderSize + i] = InLog!Cell("data", "", InLog!Header.data[i])
        BY <4>2 DEF InLog!Valid
      <4>4. log[p] = InLog!Cell("data", "", InLog!Header.data[i])
        BY <4>1, <4>3, <2>2
      <4>5. \A x : InLog!Cell("data", "", x).kind = "data"
        BY DEF InLog!Cell
      <4>6. log[p].kind = "data"
        BY <4>4, <4>5
      <4> QED BY <4>6
    <3> QED BY <3>1, <3>2
  <2>4. PICK j \in DOMAIN fs : Within(p, fs[j]) /\ log[p] = CellOf(fs[j], p - fs[j].at)
    BY <2>2, <2>3, <1>4
  <2>5. p - fs[j].at # 1
    BY <2>3, <2>4, <1>5
  <2>6. fs[j].at \in Nat /\ EndAt(fs[j]) \in Nat /\ fs[j].at < p /\ p <= EndAt(fs[j])
    BY <2>4, <1>1, InLayout DEF Within
  <2>7. fs[j].at < EndAt(f) /\ EndAt(f) < EndAt(fs[j])
    <3> DEFINE a == fs[j].at
               b == EndAt(fs[j])
               e == EndAt(f)
    <3>1. /\ a \in Nat /\ b \in Nat /\ a < p /\ p <= b
          /\ p \in Int /\ p = e + 1 /\ p - a # 1 /\ e \in Int
      <4>1. e \in Int
        BY <1>8
      <4> QED BY <4>1, <2>1, <2>5, <2>6
    <3> HIDE DEF a, b, e, p
    <3>2. a < e /\ e < b
      BY <3>1
    <3> QED BY <3>2 DEF a, b, e
  <2>8. l \in Int /\ j \in Int
    BY <1>1, InLayout
  <2>9. ~(l < j)
    <3> SUFFICES ASSUME l < j PROVE FALSE
      OBVIOUS
    <3>1. EndAt(fs[l]) <= fs[j].at
      BY <1>1, LayoutOrder
    <3> QED BY <3>1, <2>6, <2>7, <1>8 DEF f
  <2>10. ~(j < l)
    <3> SUFFICES ASSUME j < l PROVE FALSE
      OBVIOUS
    <3>1. EndAt(fs[j]) <= fs[l].at
      BY <1>1, LayoutOrder
    <3> QED BY <3>1, <2>6, <2>7, <1>8, <1>11 DEF f
  <2>11. j = l
    BY <2>8, <2>9, <2>10
  <2> QED BY <2>6, <2>7, <2>11 DEF f
<1>15. Complete(f) /\ At + FullSize(f) = EndAt(f) /\ At < EndAt(f) /\ EndAt(f) <= reader.end
  BY <1>1, <1>8, <1>9, <1>11, <1>13, <1>14 DEF Complete
<1>16. Here(fs, l)
  BY <1>8, <1>9, <1>12, <1>13, <1>15 DEF Here
<1> QED BY <1>16

(* What precedes a fragment of a record that is due.                       *)
LEMMA Ascending ==
  ASSUME NEW fs, Layout(fs), NEW i \in DOMAIN fs, NEW j \in DOMAIN fs, i <= j
  PROVE  fs[i].at <= fs[j].at /\ EndAt(fs[i]) <= EndAt(fs[j]) /\ fs[i].rec <= fs[j].rec
<1>1. i \in Int /\ j \in Int
  BY InLayout
<1>2. /\ fs[i].at \in Nat /\ fs[j].at \in Nat
      /\ EndAt(fs[i]) \in Nat /\ EndAt(fs[j]) \in Nat
      /\ fs[i].at <= EndAt(fs[i]) /\ fs[j].at <= EndAt(fs[j]) /\ fs[i].rec \in Nat
  BY InLayout
<1>3. CASE i = j
  BY <1>2, <1>3
<1>4. CASE i < j
  <2>1. EndAt(fs[i]) <= fs[j].at /\ fs[i].rec <= fs[j].rec
    BY <1>4, LayoutOrder
  <2> QED BY <2>1, <1>2
<1> QED BY <1>1, <1>3, <1>4

LEMMA DueFacts ==
  ASSUME NEW fs, FileRight(fs), NEW r \in InLog!Due, NEW t \in DOMAIN fs, fs[t].rec = r
  PROVE  /\ r \in DOMAIN written /\ Clean(r) /\ written[r].whole /\ written[r] \in Record
         /\ \A l \in DOMAIN fs : l <= t =>
              Aligned(fs, l) /\ Complete(fs[l]) /\ fs[l].at < EndAt(fs[l])
         /\ EndAt(fs[t]) <= written[r].end /\ written[r].end <= Len(log)
         /\ reader.initial <= written[r].start /\ written[r].start <= fs[t].at
<1>1. Layout(fs) /\ RecordsRight(fs) /\ AlignedRight(fs)
  BY DEF FileRight
<1>2. /\ r \in DOMAIN written /\ Clean(r) /\ written[r].whole
      /\ written[r].end <= Len(log) /\ reader.initial <= written[r].start
  <2>1. /\ r \in DOMAIN written /\ written[r].whole /\ (torn = 0 \/ r < torn)
        /\ written[r].end <= Len(log) /\ written[r].start >= reader.initial
    BY DEF InLog!Due
  <2>2. \A x, y : x >= y <=> y <= x
    OBVIOUS
  <2> QED BY <2>1, <2>2 DEF Clean
<1>3. /\ written \in Seq(Record) /\ torn \in Nat /\ \A i \in DOMAIN fs : InRecord(fs, i)
      /\ \A i \in DOMAIN written : Clean(i) => written[i].whole
  BY <1>1 DEF RecordsRight
<1>4. written[r] \in Record
  BY <1>2, <1>3
<1>5. EndAt(fs[t]) <= written[r].end /\ written[r].start <= fs[t].at
  BY <1>3 DEF InRecord
<1>6. ASSUME NEW l \in DOMAIN fs, l <= t
      PROVE  Aligned(fs, l) /\ Complete(fs[l]) /\ fs[l].at < EndAt(fs[l])
  <2>1. fs[l].rec <= r /\ fs[l].rec \in Nat /\ r \in Nat
    BY <1>1, <1>6, Ascending, InLayout
  <2>2. Clean(fs[l].rec)
    BY <2>1, <1>2, <1>3 DEF Clean
  <2>3. Aligned(fs, l)
    BY <2>2, <1>1 DEF AlignedRight
  <2>4. Complete(fs[l])
    BY <2>2, <1>3 DEF InRecord
  <2>5. fs[l].at \in Nat /\ FullSize(fs[l]) \in Nat /\ HeaderSize <= FullSize(fs[l])
        /\ EndAt(fs[l]) = fs[l].at + FullSize(fs[l])
    BY <2>4, <1>1, InLayout
  <2> QED BY <2>3, <2>4, <2>5, LogConstants
<1> QED BY <1>2, <1>4, <1>5, <1>6

LEMMA Undamaged ==
  ASSUME NEW fs, FileRight(fs), NEW r \in InLog!Due, NEW t \in DOMAIN fs, fs[t].rec = r,
         NEW l \in DOMAIN fs, NEW a \in Int, Multiple(a), a <= fs[l].at,
         EndAt(fs[l]) <= a + BlockSize, a <= fs[t].at, fs[t].at < a + BlockSize,
         NEW p \in damaged
  PROVE  ~Within(p, fs[l])
<1> SUFFICES ASSUME Within(p, fs[l]) PROVE FALSE
  OBVIOUS
<1>1. Layout(fs) /\ CellsRight(fs)
  BY DEF FileRight
<1>2. p \in Int
  <2>1. log \in Seq(LogCell) /\ p \in DOMAIN log
    BY <1>1 DEF CellsRight
  <2> QED BY <2>1
<1> DEFINE x == fs[t].at
           y == EndAt(fs[t])
           b == written[r].start
           e == written[r].end
           c == fs[l].at
           d == EndAt(fs[l])
<1>3. x \in Nat /\ y \in Nat /\ c \in Nat /\ d \in Nat
  BY <1>1, InLayout
<1>4. r \in DOMAIN written /\ written[r] \in Record /\ y <= e /\ b <= x /\ x < y
  <2>1. t <= t
    BY <1>1, InLayout
  <2> QED BY <2>1, DueFacts
<1>5. b \in Nat /\ e \in Nat
  BY <1>4 DEF Record
<1>6. c < p /\ p <= d
  BY DEF Within
<1>7. (p - 1) \div BlockSize \notin (b \div BlockSize) .. ((e - 1) \div BlockSize)
  BY DEF InLog!Due, InLog!BlocksOf
<1>8. a <= c /\ d <= a + BlockSize /\ a <= x /\ x < a + BlockSize
  OBVIOUS
<1> HIDE DEF x, y, b, e, c, d
<1>9. /\ a <= p - 1 /\ p - 1 < a + BlockSize /\ p - 1 \in Int /\ x \in Int /\ e - 1 \in Int
      /\ x <= e - 1 /\ b \in Int
  BY <1>2, <1>3, <1>4, <1>5, <1>6, <1>8, LogConstants
<1>10. (p - 1) \div BlockSize = x \div BlockSize
  <2>1. PICK z \in Int : z = p - 1
    BY <1>9
  <2>2. z \div BlockSize = x \div BlockSize
    BY <2>1, <1>8, <1>9, SameBlock
  <2> QED BY <2>1, <2>2
<1>11. /\ b \div BlockSize \in Int /\ x \div BlockSize \in Int
       /\ b \div BlockSize <= x \div BlockSize
  BY <1>4, <1>9, BlocksInOrder
<1>12. (e - 1) \div BlockSize \in Int /\ x \div BlockSize <= (e - 1) \div BlockSize
  <2>1. PICK z \in Int : z = e - 1
    BY <1>9
  <2>2. z \div BlockSize \in Int /\ x \div BlockSize <= z \div BlockSize
    BY <2>1, <1>9, BlocksInOrder
  <2> QED BY <2>1, <2>2
<1> DEFINE u == (p - 1) \div BlockSize
           v == b \div BlockSize
           w == (e - 1) \div BlockSize
           m == x \div BlockSize
<1>13. u = m /\ v \in Int /\ m \in Int /\ w \in Int /\ v <= m /\ m <= w /\ u \notin v .. w
  BY <1>7, <1>10, <1>11, <1>12
<1> HIDE DEF u, v, w, m
<1> QED BY <1>13

(* A reader on the way to a fragment that is due finds whole fragments.    *)
LEMMA Reached ==
  ASSUME NEW fs, FileRight(fs), ReaderRight, InLog!Ready, NEW r \in InLog!Due,
         NEW t \in DOMAIN fs, fs[t].rec = r, fs[t].at < reader.end,
         NEW l \in 1 .. t, fs[l].at = At
  PROVE  InLog!Valid /\ Here(fs, l)
<1>1. /\ Layout(fs) /\ At \in Nat /\ reader.end \in Nat /\ Len(reader.buffer) \in Nat
      /\ At + Len(reader.buffer) = reader.end /\ Len(log) \in Nat
  BY Reading
<1>2. Len(fs) \in Nat /\ DOMAIN fs = 1 .. Len(fs)
  BY <1>1, InLayout
<1>3. l \in DOMAIN fs /\ l <= t /\ t <= t /\ t \in Int
  BY <1>2
<1>4. /\ Aligned(fs, l) /\ Complete(fs[l]) /\ fs[l].at < EndAt(fs[l])
      /\ EndAt(fs[t]) <= Len(log)
  <2>1. /\ EndAt(fs[t]) <= written[r].end
        /\ written[r].end <= Len(log) /\ written[r] \in Record
    BY DueFacts
  <2>2. EndAt(fs[t]) \in Nat /\ written[r].end \in Nat
    BY <2>1, <1>1, InLayout DEF Record
  <2>3. EndAt(fs[t]) <= Len(log)
    BY <2>1, <2>2, <1>1
  <2> QED BY <2>3, <1>3, DueFacts
<1> DEFINE x == fs[t].at
           f == FullSize(fs[l])
           e == reader.end
           b == EndAt(fs[l])
           c == EndAt(fs[t])
           n == Len(log)
<1>5. /\ x \in Nat /\ f \in Nat /\ b \in Nat /\ c \in Nat /\ b = At + f /\ HeaderSize <= f
      /\ b <= c /\ At <= x
  <2>1. x \in Nat /\ f \in Nat /\ b \in Nat /\ c \in Nat /\ b = At + f /\ HeaderSize <= f
    BY <1>1, <1>3, <1>4, InLayout
  <2>2. b <= c /\ fs[l].at <= x
    BY <1>1, <1>3, Ascending
  <2> QED BY <2>1, <2>2
<1>6. InBlock(At, At + f)
  BY <1>4 DEF Aligned
<1>7. e \in Nat /\ n \in Nat /\ c <= n /\ x < e /\ At + Len(reader.buffer) = e
  BY <1>1, <1>4
<1>8. InBlock(At, e) /\ (e = n \/ Multiple(e))
  BY DEF ReaderRight
<1> HIDE DEF x, f, e, b, c, n
<1>9. PICK a \in Int : Multiple(a) /\ a <= At /\ At + f <= a + BlockSize
  BY <1>6 DEF InBlock
<1>10. x < a + BlockSize
  <2>1. PICK d \in Int : Multiple(d) /\ d <= At /\ e <= d + BlockSize
    BY <1>8 DEF InBlock
  <2>2. ~(a < d)
    <3> SUFFICES ASSUME a < d PROVE FALSE
      OBVIOUS
    <3>1. a + BlockSize <= d
      BY <1>9, <2>1, MultiplesApart
    <3> QED BY <3>1, <2>1, <1>1, <1>5, <1>9, LogConstants
  <2> QED BY <2>1, <2>2, <1>5, <1>7, <1>9, LogConstants
<1>11. b <= e
  <2>1. CASE e = n
    BY <2>1, <1>5, <1>7
  <2>2. CASE Multiple(e)
    <3>1. At < e
      BY <1>1, <1>5, <1>7
    <3>2. At + f <= e
      BY <3>1, <2>2, <1>1, <1>5, <1>6, <1>7, FitsBefore
    <3> QED BY <3>2, <1>5
  <2> QED BY <1>8, <2>1, <2>2
<1>12. \A p \in damaged : ~Within(p, fs[l])
  <2>1. /\ a <= fs[l].at /\ EndAt(fs[l]) <= a + BlockSize
        /\ a <= fs[t].at /\ fs[t].at < a + BlockSize
    <3>1. a <= x /\ b <= a + BlockSize
      BY <1>1, <1>5, <1>9
    <3> QED BY <3>1, <1>9, <1>10 DEF x, b
  <2> QED BY <2>1, <1>3, <1>9, Undamaged
<1>13. InLog!Valid
  BY <1>3, <1>4, <1>11, <1>12, ValidHere DEF b, e
<1>14. /\ InLog!Header.type = TypeOf(fs[l]) /\ InLog!Header.data = DataOf(fs[l])
       /\ InLog!Extent = FullSize(fs[l])
  <2>1. At < EndAt(fs[l])
    BY <1>4
  <2>2. Within(At + 1, fs[l])
    BY <2>1, <1>1, <1>5 DEF Within, b
  <2>3. 0 < fs[l].size
    <3>1. fs[l].size = f
      BY <1>4 DEF Complete, f
    <3> QED BY <3>1, <1>5, LogConstants
  <2> QED BY <2>2, <2>3, <1>3, <1>12, HeadHere
<1>15. f \in Nat /\ f <= Len(reader.buffer) /\ At < b
  BY <1>1, <1>5, <1>7, <1>11, LogConstants
<1>16. Here(fs, l)
  <2>1. EndAt(fs[l]) <= reader.end /\ At + f = EndAt(fs[l]) /\ At < EndAt(fs[l])
    BY <1>5, <1>11, <1>15 DEF b, e
  <2> QED BY <2>1, <1>3, <1>4, <1>14, <1>15 DEF Here, f
<1> QED BY <1>13, <1>16

(* Behind a fragment it is on the way to the next.                         *)
LEMMA Advance ==
  ASSUME NEW fs, FileRight(fs), ReaderRight, NEW r \in InLog!Due,
         NEW t \in DOMAIN fs, fs[t].rec = r, NEW l \in DOMAIN fs, l < t, fs[l].at = At,
         At' = EndAt(fs[l]), reader'.end = reader.end
  PROVE  OnTrack(fs, t)'
<1>1. Layout(fs) /\ At \in Nat /\ reader.end \in Nat
  BY Reading
<1>2. Len(fs) \in Nat /\ DOMAIN fs = 1 .. Len(fs)
  BY <1>1, InLayout
<1>3. PICK k \in DOMAIN fs : k = l + 1
  <2>1. l + 1 \in DOMAIN fs
    BY <1>2
  <2> QED BY <2>1
<1>4. k <= t /\ l <= t /\ l < k /\ k \in 1 .. t
  BY <1>2, <1>3
<1>5. Aligned(fs, k) /\ fs[l].at < EndAt(fs[l])
  BY <1>4, DueFacts
<1> DEFINE x == fs[k].at
           y == EndAt(fs[l])
           z == fs[t].at
           e == reader.end
<1>6. x \in Nat /\ y \in Nat /\ z \in Nat
  BY <1>1, InLayout
<1>7. y <= x /\ (x = y \/ Multiple(x)) /\ x <= z
  <2>1. y <= x /\ (x = y \/ (Multiple(x) /\ x < y + HeaderSize))
    BY <1>1, <1>3, <1>5, AlignedAt
  <2>2. x <= z
    BY <1>1, <1>4, Ascending
  <2> QED BY <2>1, <2>2
<1>8. At < y /\ At' = y /\ reader'.end = e
  BY <1>5
<1>9. InBlock(At, e)
  BY DEF ReaderRight
<1>10. CASE x = y
  <2>1. fs[k].at = At'
    BY <1>8, <1>10
  <2>2. At' <= fs[t].at
    BY <1>7, <1>8, <1>10
  <2> QED BY <2>1, <2>2, <1>4 DEF OnTrack
<1>11. CASE Multiple(x)
  <2> HIDE DEF x, y, z, e
  <2>1. At < x /\ y <= z
    BY <1>1, <1>6, <1>7, <1>8
  <2>2. e <= x
    BY <2>1, <1>1, <1>6, <1>9, <1>11, NextBlock DEF e
  <2>3. e <= z
    BY <2>2, <1>1, <1>6, <1>7 DEF e
  <2>4. At' <= fs[t].at /\ reader'.end <= fs[t].at
    BY <2>1, <2>3, <1>8 DEF z
  <2> QED BY <2>4 DEF OnTrack
<1> QED BY <1>7, <1>10, <1>11

(* The next block brings it to the first fragment there.                   *)
LEMMA Refilled ==
  ASSUME NEW fs, FileRight(fs), ReaderRight, NEW r \in InLog!Due,
         NEW t \in DOMAIN fs, fs[t].rec = r, OnTrack(fs, t),
         Len(reader.buffer) < HeaderSize, ~reader.eof,
         At' = reader.end, reader'.end \in Nat, reader'.end <= reader.end + BlockSize
  PROVE  OnTrack(fs, t)'
<1>1. /\ Layout(fs) /\ At \in Nat /\ reader.end \in Nat /\ Len(reader.buffer) \in Nat
      /\ At + Len(reader.buffer) = reader.end
  BY Reading
<1>2. /\ Len(fs) \in Nat /\ DOMAIN fs = 1 .. Len(fs) /\ fs[t].at \in Nat /\ t \in Nat
  <2>1. Len(fs) \in Nat /\ DOMAIN fs = 1 .. Len(fs) /\ fs[t].at \in Nat
    BY <1>1, InLayout
  <2> QED BY <2>1
<1>3. \A l \in DOMAIN fs : l <= t => Aligned(fs, l)
  BY DueFacts
<1>4. Multiple(reader.end)
  BY DEF ReaderRight
<1>5. reader.end <= fs[t].at
  <2>1. At <= fs[t].at /\ (reader.end <= fs[t].at \/ \E l \in 1 .. t : fs[l].at = At)
    BY DEF OnTrack
  <2>2. CASE reader.end <= fs[t].at
    BY <2>2
  <2>3. CASE \E l \in 1 .. t : fs[l].at = At
    <3>1. PICK l \in 1 .. t : fs[l].at = At
      BY <2>3
    <3>2. l \in DOMAIN fs /\ l <= t
      BY <1>2
    <3> DEFINE f == FullSize(fs[l])
    <3>3. InBlock(At, At + f)
      BY <3>1, <3>2, <1>3 DEF Aligned
    <3>4. f \in Nat /\ HeaderSize <= f
      BY <3>2, <1>1, InLayout
    <3> HIDE DEF f
    <3>5. ~(At < reader.end)
      <4> SUFFICES ASSUME At < reader.end PROVE FALSE
        OBVIOUS
      <4>1. At + f <= reader.end
        BY <3>3, <3>4, <1>1, <1>4, FitsBefore
      <4> QED BY <4>1, <3>4, <1>1, LogConstants
    <3> QED BY <3>5, <2>1, <1>1, <1>2
  <2> QED BY <2>1, <2>2, <2>3
<1>6. CASE reader'.end <= fs[t].at
  BY <1>5, <1>6 DEF OnTrack
<1>7. CASE ~(reader'.end <= fs[t].at)
  <2> DEFINE e == reader.end
             x == fs[t].at
             g == reader'.end
  <2>1. x < e + BlockSize
    <3>1. e \in Nat /\ x \in Nat /\ g \in Nat /\ g <= e + BlockSize /\ ~(g <= x)
      BY <1>1, <1>2, <1>7
    <3> HIDE DEF e, x, g
    <3> QED BY <3>1, LogConstants
  <2>2. \E l \in 1 .. t : fs[l].at = reader.end
    BY <2>1, <1>1, <1>3, <1>4, <1>5, BlockStart
  <2> QED BY <2>2, <1>5 DEF OnTrack
<1> QED BY <1>6, <1>7

-----------------------------------------------------------------------------
(* How the reader moves.                                                   *)
LogStays == /\ log' = log /\ blockOffset' = blockOffset /\ written' = written /\ torn' = torn
            /\ damaged' = damaged

LEMMA FileStays ==
  ASSUME NEW fs, FileRight(fs), LogStays, reader'.on = reader.on
  PROVE  FileRight(fs)'
<1>1. Layout(fs) /\ CellsRight(fs) /\ RecordsRight(fs) /\ AlignedRight(fs)
  BY DEF FileRight
<1>2. CellsRight(fs)'
  BY <1>1 DEF CellsRight, LogStays
<1>3. RecordsRight(fs)'
  BY <1>1 DEF RecordsRight, InRecord, Clean, LogStays
<1>4. AlignedRight(fs)'
  BY <1>1 DEF AlignedRight, Clean, LogStays
<1> QED BY <1>1, <1>2, <1>3, <1>4 DEF FileRight

LEMMA Refills ==
  ASSUME NEW fs, FileRight(fs), ReaderRight, InLog!ReadBlock
  PROVE  /\ ReaderRight' /\ At' = reader.end
         /\ reader'.end \in Nat /\ reader.end <= reader'.end
         /\ reader'.end <= reader.end + BlockSize
         /\ HeaderSize <= Len(reader'.buffer) \/ reader'.eof
<1> DEFINE e == reader.end
           n == Len(log)
           d == InLog!Lesser(e + BlockSize, n)
           s == SubSeq(log, e + 1, d)
           q == d - e < BlockSize
<1>1. /\ log \in Seq(LogCell) /\ n \in Nat /\ e \in Nat /\ e <= n /\ reader \in Reader
  BY Reading
<1>2. /\ reader' = [reader EXCEPT !.buffer = s, !.end = d, !.eof = q]
      /\ ~reader.eof /\ log' = log /\ read' = read /\ InLog!Running
  BY DEF InLog!ReadBlock, InLog!Others
<1>3. /\ d \in Nat /\ e <= d /\ d <= n /\ d <= e + BlockSize
      /\ (q => d = n) /\ (~q => d = e + BlockSize) /\ q \in BOOLEAN
  <2> HIDE DEF e, n
  <2> QED BY <1>1, LogConstants DEF InLog!Lesser
<1>4. /\ s \in Seq(LogCell) /\ Len(s) = d - e /\ \A i \in 1 .. d - e : s[i] = log[e + i]
  <2> HIDE DEF e, d, n
  <2> QED BY <1>1, <1>3, Stretch DEF n
<1>5. Multiple(e)
  BY <1>2 DEF ReaderRight
<1> HIDE DEF s, d, q
<1>6. reader' \in Reader
  BY <1>1, <1>2, <1>3, <1>4 DEF Reader
<1>7. /\ reader'.buffer = s /\ reader'.end = d /\ (reader'.eof <=> q) /\ reader'.on = reader.on
      /\ reader'.resyncing = reader.resyncing /\ reader'.fragmented = reader.fragmented
  BY <1>1, <1>2 DEF Reader
<1> HIDE DEF e, n
<1>8. At' = e
  <2>1. At' = reader'.end - Len(reader'.buffer)
    BY DEF At
  <2>2. At' = d - (d - e)
    BY <2>1, <1>4, <1>7, Zenon
  <2> QED BY <2>2, <1>1, <1>3
<1>9. InBlock(e, d)
  BY <1>1, <1>3, <1>5 DEF InBlock
<1>10. Multiple(e + BlockSize)
  BY <1>1, <1>5, MultipleNext
<1>11. d - e \in Nat /\ d - e <= d /\ DOMAIN s = 1 .. d - e
  BY <1>1, <1>3, <1>4
<1>12. ReaderRight'
  <2>1. read' \in Seq(Payloads)
    BY <1>2 DEF ReaderRight
  <2>2. reader'.on
    BY <1>2, <1>7 DEF InLog!Running
  <2>3. reader'.end <= Len(log') /\ Len(reader'.buffer) <= reader'.end
    BY <1>2, <1>3, <1>4, <1>7, <1>11 DEF n
  <2>4. \A i \in DOMAIN reader'.buffer : reader'.buffer[i] = log'[At' + i]
    BY <1>2, <1>4, <1>7, <1>8, <1>11
  <2>5. IF reader'.eof THEN reader'.end = Len(log') ELSE Multiple(reader'.end)
    BY <1>2, <1>3, <1>7, <1>10 DEF n
  <2>6. InBlock(At', reader'.end)
    BY <1>7, <1>8, <1>9
  <2>7. reader'.resyncing => ~reader'.fragmented
    BY <1>7 DEF ReaderRight
  <2> QED BY <1>6, <2>1, <2>2, <2>3, <2>4, <2>5, <2>6, <2>7 DEF ReaderRight, InBlock
<1>13. HeaderSize <= Len(reader'.buffer) \/ reader'.eof
  <2>1. CASE q
    BY <2>1, <1>7
  <2>2. CASE ~q
    <3>1. Len(s) = BlockSize
      BY <2>2, <1>1, <1>3, <1>4, LogConstants
    <3> QED BY <3>1, <1>7, LogConstants
  <2> QED BY <2>1, <2>2
<1> QED BY <1>3, <1>7, <1>8, <1>12, <1>13 DEF e

LEMMA Empties ==
  ASSUME NEW fs, FileRight(fs), ReaderRight, log' = log, reader' \in Reader,
         reader'.on = reader.on, reader.on, reader'.buffer = <<>>, reader'.end = reader.end,
         reader'.eof = reader.eof, read' \in Seq(Payloads),
         reader'.resyncing => ~reader'.fragmented
  PROVE  ReaderRight' /\ At' = reader.end /\ At <= At'
<1>1. /\ Len(log) \in Nat /\ reader.end \in Nat /\ reader.end <= Len(log) /\ At \in Nat
      /\ At <= reader.end
  BY Reading
<1>2. Len(reader'.buffer) = 0 /\ DOMAIN reader'.buffer = {}
  <2>1. Len(<<>>) = 0
    OBVIOUS
  <2> QED BY <2>1
<1>3. At' = reader.end
  <2>1. At' = reader'.end - Len(reader'.buffer)
    BY DEF At
  <2>2. At' = reader.end - 0
    BY <2>1, <1>2, Zenon
  <2> QED BY <2>2, <1>1
<1>4. InBlock(reader.end, reader.end)
  <2>1. PICK a \in Int : Multiple(a) /\ a <= At /\ reader.end <= a + BlockSize
    BY DEF ReaderRight, InBlock
  <2>2. a <= reader.end
    BY <2>1, <1>1
  <2> QED BY <2>1, <2>2 DEF InBlock
<1>5. IF reader'.eof THEN reader'.end = Len(log') ELSE Multiple(reader'.end)
  BY DEF ReaderRight
<1>6. reader'.end <= Len(log') /\ Len(reader'.buffer) <= reader'.end
  BY <1>1, <1>2
<1>7. ReaderRight'
  BY <1>2, <1>3, <1>4, <1>5, <1>6 DEF ReaderRight, InBlock
<1> QED BY <1>1, <1>3, <1>7

LEMMA Advances ==
  ASSUME NEW fs, FileRight(fs), ReaderRight, log' = log, reader' \in Reader,
         reader'.on = reader.on, reader.on, reader'.buffer = InLog!Rest, reader'.end = reader.end,
         reader'.eof = reader.eof, read' \in Seq(Payloads),
         InLog!Extent \in Nat, InLog!Extent <= Len(reader.buffer),
         reader'.resyncing => ~reader'.fragmented
  PROVE  ReaderRight' /\ At' = At + InLog!Extent
<1> DEFINE x == InLog!Extent
           n == Len(reader.buffer)
           e == reader.end
<1>1. /\ Len(log) \in Nat /\ e \in Nat /\ e <= Len(log)
      /\ At \in Nat /\ At + n = e /\ n \in Nat
      /\ reader.buffer \in Seq(LogCell)
      /\ \A i \in 1 .. n : reader.buffer[i] = log[At + i]
  BY Reading
<1>2. x \in Nat /\ x <= n
  OBVIOUS
<1>3. Len(reader'.buffer) = n - x /\ \A i \in 1 .. n - x : reader'.buffer[i] = reader.buffer[x + i]
      /\ reader'.buffer \in Seq(LogCell)
  <2>1. reader'.buffer = SubSeq(reader.buffer, x + 1, n)
    BY DEF InLog!Rest
  <2> HIDE DEF x
  <2>2. /\ SubSeq(reader.buffer, x + 1, n) \in Seq(LogCell)
        /\ Len(SubSeq(reader.buffer, x + 1, n)) = n - x
        /\ \A i \in 1 .. n - x : SubSeq(reader.buffer, x + 1, n)[i] = reader.buffer[x + i]
    BY <1>1, <1>2, Stretch
  <2> QED BY <2>1, <2>2
<1> HIDE DEF x, n, e
<1>4. At' = At + x
  <2>1. At' = reader'.end - Len(reader'.buffer)
    BY DEF At
  <2>2. At' = e - (n - x)
    BY <2>1, <1>3, Zenon DEF e
  <2> QED BY <2>2, <1>1, <1>2
<1>5. DOMAIN reader'.buffer = 1 .. n - x
  BY <1>1, <1>2, <1>3
<1>6. \A i \in DOMAIN reader'.buffer : reader'.buffer[i] = log'[At' + i]
  <2> SUFFICES ASSUME NEW i \in 1 .. n - x PROVE reader'.buffer[i] = log'[At' + i]
    BY <1>5
  <2>1. x + i \in 1 .. n /\ (At + x) + i = At + (x + i)
    BY <1>1, <1>2
  <2> QED BY <2>1, <1>1, <1>3, <1>4
<1>7. InBlock(At', reader'.end)
  <2>1. PICK a \in Int : Multiple(a) /\ a <= At /\ e <= a + BlockSize
    BY DEF ReaderRight, InBlock, e
  <2>2. a <= At + x
    BY <2>1, <1>1, <1>2
  <2> QED BY <2>1, <2>2, <1>4 DEF InBlock, e
<1>8. reader'.end <= Len(log') /\ Len(reader'.buffer) <= reader'.end
  BY <1>1, <1>2, <1>3 DEF e
<1>9. IF reader'.eof THEN reader'.end = Len(log') ELSE Multiple(reader'.end)
  BY DEF ReaderRight
<1>10. ReaderRight'
  BY <1>6, <1>7, <1>8, <1>9 DEF ReaderRight, InBlock
<1> QED BY <1>4, <1>10 DEF x

-----------------------------------------------------------------------------
(* The records returned, and the one that is being put together.           *)
RsRight(fs, rs) ==
  /\ rs \in [DOMAIN read -> DOMAIN written] /\ Returned(rs)
  /\ \A j \in DOMAIN fs : At <= fs[j].at => Earlier(rs, fs[j].rec)
InProgress(fs, rs, j) == Assembled(fs, j) /\ NoneLost(fs, j) /\ Earlier(rs, fs[j].rec)

LEMMA ReadRightIs ==
  ASSUME NEW fs, ReadRight(fs)
  PROVE  \E rs : /\ RsRight(fs, rs)
                 /\ reader.fragmented /\ ~reader.done => \E j \in DOMAIN fs : InProgress(fs, rs, j)
BY DEF ReadRight, RsRight, InProgress

LEMMA IsReadRight ==
  ASSUME NEW fs, NEW rs, RsRight(fs, rs)',
         reader'.fragmented /\ ~reader'.done => \E j \in DOMAIN fs : InProgress(fs, rs, j)'
  PROVE  ReadRight(fs)'
<1>1. rs \in [DOMAIN read' -> DOMAIN written'] /\ Returned(rs)'
      /\ \A j \in DOMAIN fs : At' <= fs[j].at => Earlier(rs, fs[j].rec)'
  BY DEF RsRight
<1> QED BY <1>1 DEF ReadRight, InProgress

LEMMA RsKept ==
  ASSUME NEW fs, Layout(fs), NEW rs, RsRight(fs, rs), LogStays, read' = read,
         At \in Nat, At' \in Nat, At <= At'
  PROVE  RsRight(fs, rs)' /\ \A r : Earlier(rs, r) => Earlier(rs, r)'
<1>1. Returned(rs)'
  BY DEF RsRight, Returned, LogStays, InLog!Whole, InLog!Payload
<1>2. \A r : Earlier(rs, r) => Earlier(rs, r)'
  BY DEF Earlier
<1>3. \A j \in DOMAIN fs : At' <= fs[j].at => Earlier(rs, fs[j].rec)'
  <2> SUFFICES ASSUME NEW j \in DOMAIN fs, At' <= fs[j].at PROVE Earlier(rs, fs[j].rec)'
    OBVIOUS
  <2>1. fs[j].at \in Nat
    BY InLayout
  <2>2. At <= fs[j].at
    BY <2>1
  <2> QED BY <2>2, <1>2 DEF RsRight
<1>4. rs \in [DOMAIN read' -> DOMAIN written']
  BY DEF RsRight, LogStays
<1> QED BY <1>1, <1>2, <1>3, <1>4 DEF RsRight

(* A record more.                                                          *)
LEMMA RsGrows ==
  ASSUME NEW fs, Layout(fs), RecordsRight(fs), NEW rs, RsRight(fs, rs), LogStays,
         read \in Seq(Payloads), NEW l \in DOMAIN fs, fs[l].at < EndAt(fs[l]), fs[l].end,
         read' = Append(read, InLog!Whole(fs[l].rec)), InLog!Whole(fs[l].rec) \in Payloads,
         Earlier(rs, fs[l].rec), At' = EndAt(fs[l]), At \in Nat, At <= At'
  PROVE  \E ss : RsRight(fs, ss)'
<1> DEFINE r == fs[l].rec
           n == Len(read)
<1>1. /\ n \in Nat /\ DOMAIN read = 1 .. n /\ DOMAIN read' = 1 .. n + 1
      /\ \A i \in 1 .. n : read'[i] = read[i]
      /\ read'[n + 1] = InLog!Whole(r)
  OBVIOUS
<1>2. r \in DOMAIN written /\ r \in Nat
  <2>1. r \in DOMAIN written
    BY DEF RecordsRight, InRecord
  <2> QED BY <2>1, InLayout
<1>3. /\ \A i \in 1 .. n : rs[i] \in DOMAIN written /\ rs[i] < r
      /\ \A i, j \in 1 .. n : i < j => rs[i] < rs[j]
      /\ \A i \in 1 .. n : read[i] = InLog!Whole(rs[i])
      /\ \A j \in DOMAIN fs : At <= fs[j].at => \A i \in 1 .. n : rs[i] < fs[j].rec
  BY <1>1 DEF RsRight, Returned, Earlier
<1> HIDE DEF n, r
<1>4. \A i \in 1 .. n + 1 : i \in 1 .. n \/ i = n + 1
  BY <1>1
<1>5. /\ \A i \in 1 .. n : i <= n /\ i \in 1 .. n + 1 /\ i < n + 1
      /\ ~(n + 1 <= n) /\ n + 1 \in 1 .. n + 1
  BY <1>1
<1>0. PICK ss : ss = [i \in DOMAIN read' |-> IF i <= n THEN rs[i] ELSE r]
  OBVIOUS
<1>6. (\A i \in 1 .. n : ss[i] = rs[i]) /\ ss[n + 1] = r
  BY <1>0, <1>1, <1>5
<1>7. ss \in [DOMAIN read' -> DOMAIN written']
  <2>1. \A i \in 1 .. n + 1 : (IF i <= n THEN rs[i] ELSE r) \in DOMAIN written
    BY <1>2, <1>3, <1>4, <1>5
  <2> QED BY <2>1, <1>0, <1>1 DEF LogStays
<1>8. \A i, j \in DOMAIN read' : i < j => ss[i] < ss[j]
  <2> SUFFICES ASSUME NEW i \in 1 .. n + 1, NEW j \in 1 .. n + 1, i < j PROVE ss[i] < ss[j]
    BY <1>1
  <2>1. CASE j \in 1 .. n
    <3>1. i \in 1 .. n
      BY <2>1, <1>1
    <3> QED BY <2>1, <3>1, <1>3, <1>6
  <2>2. CASE j = n + 1
    <3>1. i \in 1 .. n
      BY <2>2, <1>1
    <3> QED BY <2>2, <3>1, <1>3, <1>6
  <2> QED BY <2>1, <2>2, <1>4
<1>9. \A i \in DOMAIN read' : read'[i] = InLog!Whole(ss[i])'
  <2>1. \A x : InLog!Whole(x)' = InLog!Whole(x)
    BY DEF InLog!Whole, InLog!Payload, LogStays
  <2>2. \A i \in 1 .. n + 1 : read'[i] = InLog!Whole(ss[i])
    BY <1>1, <1>3, <1>4, <1>6
  <2> QED BY <2>1, <2>2, <1>1
<1>10. \A j \in DOMAIN fs : At' <= fs[j].at => Earlier(ss, fs[j].rec)'
  <2> SUFFICES ASSUME NEW j \in DOMAIN fs, At' <= fs[j].at,
                      NEW i \in 1 .. n + 1
               PROVE  ss[i] < fs[j].rec
    BY <1>1 DEF Earlier
  <2>1. /\ fs[j].at \in Nat /\ EndAt(fs[l]) \in Nat
        /\ fs[l].at \in Nat /\ j \in Int /\ l \in Int
        /\ fs[j].at <= EndAt(fs[j]) /\ EndAt(fs[j]) \in Nat /\ fs[j].rec \in Nat
    <3>1. \A k \in DOMAIN fs : /\ fs[k].at \in Nat /\ EndAt(fs[k]) \in Nat /\ k \in Int
                               /\ fs[k].at <= EndAt(fs[k]) /\ fs[k].rec \in Nat
      BY InLayout
    <3> QED BY ONLY <3>1, j \in DOMAIN fs, l \in DOMAIN fs
  <2>2. l < j
    <3>1. l # j
      BY <2>1
    <3>2. ~(j < l)
      <4> SUFFICES ASSUME j < l PROVE FALSE
        OBVIOUS
      <4>1. EndAt(fs[j]) <= fs[l].at
        BY LayoutOrder
      <4> QED BY <4>1, <2>1
    <3> QED BY <3>1, <3>2, <2>1
  <2>3. r < fs[j].rec
    <3>1. fs[l].rec <= fs[j].rec /\ (fs[l].rec = fs[j].rec => ~fs[l].end)
      BY <2>2, LayoutOrder
    <3> QED BY <3>1, <2>1, <1>2 DEF r
  <2>4. CASE i \in 1 .. n
    <3>1. At <= fs[j].at
      BY <2>1
    <3> QED BY <3>1, <2>4, <1>3, <1>6
  <2>5. CASE i = n + 1
    BY <2>3, <2>5, <1>6
  <2> QED BY <2>4, <2>5, <1>4
<1>11. Returned(ss)'
  BY <1>7, <1>8, <1>9 DEF Returned
<1> QED BY <1>7, <1>10, <1>11 DEF RsRight

(* Nothing is lost where a block ends: what is left there is no fragment.  *)
LEMMA LostRefill ==
  ASSUME NEW fs, Layout(fs), NEW j \in DOMAIN fs, Assembled(fs, j), NoneLost(fs, j),
         Len(reader.buffer) < HeaderSize, ~reader.eof, At' = reader.end,
         Len(reader.buffer) \in Nat, At \in Nat, reader.end \in Nat,
         At + Len(reader.buffer) = reader.end, reader'.scratch = reader.scratch,
         HeaderSize <= Len(reader'.buffer) \/ reader'.eof
  PROVE  Assembled(fs, j)' /\ NoneLost(fs, j)'
<1>1. \A i \in DOMAIN fs : j < i => At <= fs[i].at
  <2>1. ~(HeaderSize <= Len(reader.buffer))
    BY LogConstants
  <2> QED BY <2>1 DEF NoneLost
<1>2. At <= At' /\ EndAt(fs[j]) \in Nat
  BY InLayout
<1>3. Assembled(fs, j)'
  <2>1. EndAt(fs[j]) <= At'
    <3>1. EndAt(fs[j]) <= At
      BY DEF Assembled
    <3> QED BY <3>1, <1>2
  <2> QED BY <2>1 DEF Assembled, InLog!Payload
<1>4. ASSUME NEW i \in DOMAIN fs, j < i
      PROVE  At' <= fs[i].at \/ Passed(fs[i])'
  <2>1. CASE ~Complete(fs[i])
    BY <2>1 DEF Passed
  <2>2. CASE Complete(fs[i])
    <3> DEFINE x == fs[i].at
               f == FullSize(fs[i])
               y == EndAt(fs[i])
    <3>1. x \in Nat /\ f \in Nat /\ HeaderSize <= f /\ y = x + f
      BY <2>2, InLayout
    <3>2. At <= x
      BY <1>1, <1>4
    <3> HIDE DEF x, f, y
    <3>3. At' < y
      BY <3>1, <3>2, LogConstants
    <3> QED BY <3>3 DEF Passed, y
  <2> QED BY <2>1, <2>2
<1>5. NoneLost(fs, j)'
  BY <1>4 DEF NoneLost
<1> QED BY <1>3, <1>5

LEMMA NoneBehind ==
  ASSUME NEW fs, Layout(fs), NEW l \in DOMAIN fs, At' = EndAt(fs[l])
  PROVE  NoneLost(fs, l)'
<1>1. \A i \in DOMAIN fs : l < i => At' <= fs[i].at
  BY LayoutOrder
<1> QED BY <1>1 DEF NoneLost

-----------------------------------------------------------------------------
(* The steps of the reader.                                                *)
Moved(fs) ==
  /\ LogStays /\ FileRight(fs)' /\ ReaderRight' /\ reader.on /\ reader'.on /\ ~reader.done
  /\ reader'.initial = reader.initial /\ At \in Nat
  /\ At' \in Nat /\ At <= At' /\ Layout(fs)
Flags == /\ reader'.fragmented = reader.fragmented /\ reader'.resyncing = reader.resyncing
         /\ reader'.scratch = reader.scratch /\ reader'.reported = reader.reported

LEMMA ReadBlockIs ==
  ASSUME NEW fs, FileRight(fs), ReaderRight, InLog!ReadBlock
  PROVE  /\ Moved(fs) /\ read' = read /\ Flags /\ ~reader'.done
         /\ Len(reader.buffer) < HeaderSize /\ ~reader.eof
         /\ At' = reader.end /\ reader'.end \in Nat /\ reader'.end <= reader.end + BlockSize
         /\ HeaderSize <= Len(reader'.buffer) \/ reader'.eof
<1>1. /\ ReaderRight' /\ At' = reader.end /\ reader'.end \in Nat
      /\ reader'.end <= reader.end + BlockSize
      /\ HeaderSize <= Len(reader'.buffer) \/ reader'.eof
  BY Refills
<1>2. /\ Layout(fs) /\ At \in Nat /\ reader.end \in Nat
      /\ At <= reader.end /\ reader \in Reader
  BY Reading
<1>3. /\ LogStays /\ read' = read /\ Len(reader.buffer) < HeaderSize /\ ~reader.eof
      /\ reader.on /\ ~reader.done
  BY DEF InLog!ReadBlock, InLog!Others, LogStays, InLog!Running
<1>4. /\ reader'.on = reader.on /\ reader'.done = reader.done
      /\ reader'.initial = reader.initial
      /\ reader'.fragmented = reader.fragmented /\ reader'.resyncing = reader.resyncing
      /\ reader'.scratch = reader.scratch /\ reader'.reported = reader.reported
  BY <1>2 DEF InLog!ReadBlock, Reader
<1>5. FileRight(fs)'
  BY <1>3, <1>4, FileStays
<1> QED BY <1>1, <1>2, <1>3, <1>4, <1>5 DEF Moved, Flags

LEMMA EndOfFileIs ==
  ASSUME NEW fs, FileRight(fs), ReaderRight, InLog!EndOfFile
  PROVE  /\ Moved(fs) /\ read' = read /\ Flags /\ reader'.done
         /\ Len(reader.buffer) < HeaderSize /\ reader.eof
<1>2. /\ Layout(fs) /\ At \in Nat /\ reader.end \in Nat
      /\ At <= reader.end /\ reader \in Reader
  BY Reading
<1>3. /\ LogStays /\ read' = read /\ Len(reader.buffer) < HeaderSize /\ reader.eof
      /\ reader.on /\ ~reader.done
      /\ reader' = [reader EXCEPT !.buffer = <<>>, !.done = TRUE]
  BY DEF InLog!EndOfFile, InLog!Others, LogStays, InLog!Running
<1>4. /\ reader'.on = reader.on /\ reader'.done /\ reader'.initial = reader.initial
      /\ reader'.fragmented = reader.fragmented /\ reader'.resyncing = reader.resyncing
      /\ reader'.scratch = reader.scratch /\ reader'.reported = reader.reported
      /\ reader'.buffer = <<>> /\ reader'.end = reader.end /\ reader'.eof = reader.eof
  BY <1>2, <1>3 DEF Reader
<1>5. reader' \in Reader
  <2>1. <<>> \in Seq(LogCell)
    OBVIOUS
  <2> QED BY <2>1, <1>2, <1>3 DEF Reader
<1>6. read' \in Seq(Payloads) /\ (reader'.resyncing => ~reader'.fragmented) /\ log' = log
  BY <1>3, <1>4 DEF ReaderRight, LogStays
<1>7. ReaderRight' /\ At' = reader.end /\ At <= At'
  BY <1>3, <1>4, <1>5, <1>6, Empties
<1>8. FileRight(fs)'
  BY <1>3, <1>4, FileStays
<1> QED BY <1>2, <1>3, <1>4, <1>7, <1>8 DEF Moved, Flags

LEMMA TruncatedIs ==
  ASSUME NEW fs, FileRight(fs), ReaderRight, InLog!Truncated
  PROVE  /\ Moved(fs) /\ read' = read /\ Flags /\ reader'.done
         /\ InLog!Ready /\ ~InLog!Valid /\ reader.eof
<1>2. /\ Layout(fs) /\ At \in Nat /\ reader.end \in Nat
      /\ At <= reader.end /\ reader \in Reader
  BY Reading
<1>3. /\ LogStays /\ read' = read /\ InLog!Ready /\ ~InLog!Valid /\ reader.eof
      /\ reader.on /\ ~reader.done
      /\ reader' = [reader EXCEPT !.buffer = <<>>, !.done = TRUE]
  BY DEF InLog!Truncated, InLog!Others, LogStays, InLog!Ready, InLog!Running
<1>4. /\ reader'.on = reader.on /\ reader'.done /\ reader'.initial = reader.initial
      /\ reader'.fragmented = reader.fragmented /\ reader'.resyncing = reader.resyncing
      /\ reader'.scratch = reader.scratch /\ reader'.reported = reader.reported
      /\ reader'.buffer = <<>> /\ reader'.end = reader.end /\ reader'.eof = reader.eof
  BY <1>2, <1>3 DEF Reader
<1>5. reader' \in Reader
  <2>1. <<>> \in Seq(LogCell)
    OBVIOUS
  <2> QED BY <2>1, <1>2, <1>3 DEF Reader
<1>6. read' \in Seq(Payloads) /\ (reader'.resyncing => ~reader'.fragmented) /\ log' = log
  BY <1>3, <1>4 DEF ReaderRight, LogStays
<1>7. ReaderRight' /\ At' = reader.end /\ At <= At'
  BY <1>3, <1>4, <1>5, <1>6, Empties
<1>8. FileRight(fs)'
  BY <1>3, <1>4, FileStays
<1> QED BY <1>2, <1>3, <1>4, <1>7, <1>8 DEF Moved, Flags

LEMMA BadRecordIs ==
  ASSUME NEW fs, FileRight(fs), ReaderRight, InLog!BadRecord
  PROVE  /\ Moved(fs) /\ read' = read /\ ~reader'.done
         /\ ~reader'.fragmented /\ ~reader'.resyncing
         /\ InLog!Ready /\ ~InLog!Valid /\ ~(InLog!TooLong /\ reader.eof)
         /\ At' = reader.end /\ reader'.end = reader.end
<1>2. /\ Layout(fs) /\ At \in Nat /\ reader.end \in Nat
      /\ At <= reader.end /\ reader \in Reader
  BY Reading
<1>3. /\ LogStays /\ read' = read /\ InLog!Ready
      /\ ~InLog!Valid /\ ~(InLog!TooLong /\ reader.eof)
      /\ reader.on /\ ~reader.done
  BY DEF InLog!BadRecord, InLog!Others, LogStays, InLog!Ready, InLog!Running
<1>4. PICK b, c \in BOOLEAN : reader' = [InLog!Dropped(reader) EXCEPT !.buffer = <<>>, !.reported = b]
                              /\ InLog!Dropped(reader) = [reader EXCEPT !.resyncing = FALSE, !.fragmented = FALSE,
                                                                        !.scratch = <<>>, !.reported = c]
  <2>1. InLog!Dropped(reader) = [reader EXCEPT !.resyncing = FALSE, !.fragmented = FALSE,
                                               !.scratch = <<>>, !.reported = reader.reported \/ reader.fragmented]
    BY <1>2 DEF InLog!Dropped, Reader
  <2>2. reader' = [InLog!Dropped(reader) EXCEPT !.buffer = <<>>,
                         !.reported = InLog!Dropped(reader).reported \/ InLog!Header.kind # "zero"]
    BY DEF InLog!BadRecord
  <2>3. (reader.reported \/ reader.fragmented) \in BOOLEAN
        /\ (InLog!Dropped(reader).reported \/ InLog!Header.kind # "zero") \in BOOLEAN
    BY Zenon
  <2> QED BY <2>1, <2>2, <2>3, Zenon
<1>5. /\ reader'.on = reader.on /\ reader'.done = reader.done
      /\ reader'.initial = reader.initial
      /\ ~reader'.fragmented /\ ~reader'.resyncing
      /\ reader'.buffer = <<>> /\ reader'.end = reader.end /\ reader'.eof = reader.eof
  BY <1>2, <1>4 DEF Reader
<1>6. reader' \in Reader
  <2>1. <<>> \in Payloads
    BY DEF Payloads
  <2>2. <<>> \in Seq(LogCell)
    OBVIOUS
  <2>3. InLog!Dropped(reader) \in Reader
    BY <2>1, <1>2, <1>4 DEF Reader
  <2> QED BY <2>2, <2>3, <1>4 DEF Reader
<1>7. read' \in Seq(Payloads) /\ log' = log
  BY <1>3 DEF ReaderRight, LogStays
<1>8. ReaderRight' /\ At' = reader.end /\ At <= At'
  BY <1>3, <1>5, <1>6, <1>7, Empties
<1>9. FileRight(fs)'
  BY <1>3, <1>5, FileStays
<1> QED BY <1>2, <1>3, <1>5, <1>8, <1>9 DEF Moved

Behind(fs, l) ==
  /\ Here(fs, l) /\ Moved(fs) /\ At' = EndAt(fs[l])
  /\ reader'.end = reader.end /\ ~reader'.done

LEMMA PassesOn ==
  ASSUME NEW fs, FileRight(fs), ReaderRight, NEW l, Here(fs, l), LogStays,
         reader' \in Reader, reader.on, ~reader.done, reader'.on = reader.on,
         reader'.done = reader.done, reader'.initial = reader.initial,
         reader'.buffer = InLog!Rest, reader'.end = reader.end, reader'.eof = reader.eof,
         read' \in Seq(Payloads), reader'.resyncing => ~reader'.fragmented
  PROVE  Behind(fs, l)
<1>1. Layout(fs) /\ At \in Nat
  BY Reading
<1>2. /\ InLog!Extent \in Nat /\ InLog!Extent <= Len(reader.buffer)
      /\ At + InLog!Extent = EndAt(fs[l])
      /\ At < EndAt(fs[l]) /\ l \in DOMAIN fs
  BY DEF Here
<1>3. ReaderRight' /\ At' = At + InLog!Extent
  <2>1. log' = log
    BY DEF LogStays
  <2> QED BY <1>2, <2>1, Advances
<1>4. FileRight(fs)'
  BY FileStays
<1>5. At' = EndAt(fs[l]) /\ At' \in Nat /\ At <= At'
  <2>1. EndAt(fs[l]) \in Nat
    BY <1>1, <1>2, InLayout
  <2> QED BY <2>1, <1>1, <1>2, <1>3
<1> QED BY <1>1, <1>3, <1>4, <1>5 DEF Behind, Moved

LEMMA HereIs ==
  ASSUME NEW fs, FileRight(fs), ReaderRight, NEW l, Here(fs, l)
  PROVE  /\ l \in DOMAIN fs /\ fs[l].rec \in Nat
         /\ fs[l].to \in Nat /\ InLog!Header.data \in Payloads
         /\ InLog!Header.data = InLog!Payload(fs[l].rec, fs[l].from, fs[l].to)
         /\ InLog!Header.type \in {"full", "first", "middle", "last"}
         /\ InLog!Header.type = "full" <=> fs[l].begin /\ fs[l].end
         /\ InLog!Header.type = "first" <=> fs[l].begin /\ ~fs[l].end
         /\ InLog!Header.type = "middle" <=> ~fs[l].begin /\ ~fs[l].end
         /\ InLog!Header.type = "last" <=> ~fs[l].begin /\ fs[l].end
         /\ fs[l].begin => fs[l].from = 0
         /\ fs[l].end => /\ InLog!Whole(fs[l].rec) = InLog!Payload(fs[l].rec, 0, fs[l].to)
                         /\ InLog!Whole(fs[l].rec) \in Payloads
<1>1. /\ l \in DOMAIN fs /\ InLog!Header.data = DataOf(fs[l])
      /\ InLog!Header.type = TypeOf(fs[l])
  BY DEF Here
<1>2. Layout(fs) /\ RecordsRight(fs)
  BY DEF FileRight
<1>3. /\ fs[l] \in Fragment /\ FragmentRight(fs[l]) /\ fs[l].rec \in Nat /\ fs[l].to \in Nat
      /\ fs[l].begin \in BOOLEAN /\ fs[l].end \in BOOLEAN
  BY <1>1, <1>2, InLayout
<1>4. /\ InLog!Header.data \in Payloads
      /\ InLog!Header.type \in {"full", "first", "middle", "last"}
  BY <1>1, <1>3, CellsAre
<1>5. /\ InLog!Header.type = "full" <=> fs[l].begin /\ fs[l].end
      /\ InLog!Header.type = "first" <=> fs[l].begin /\ ~fs[l].end
      /\ InLog!Header.type = "middle" <=> ~fs[l].begin /\ ~fs[l].end
      /\ InLog!Header.type = "last" <=> ~fs[l].begin /\ fs[l].end
  BY <1>1, <1>3, RecordTypes DEF TypeOf
<1>6. ASSUME fs[l].end
      PROVE  /\ InLog!Whole(fs[l].rec) = InLog!Payload(fs[l].rec, 0, fs[l].to)
             /\ InLog!Whole(fs[l].rec) \in Payloads
  <2>1. fs[l].to = written[fs[l].rec].len
    BY <1>1, <1>2, <1>6 DEF RecordsRight, InRecord
  <2>2. InLog!Whole(fs[l].rec) = InLog!Payload(fs[l].rec, 0, fs[l].to)
    BY <2>1 DEF InLog!Whole
  <2>3. PICK y \in Nat : y = 0
    OBVIOUS
  <2>4. InLog!Payload(fs[l].rec, y, fs[l].to) \in Payloads
    <3>1. y <= fs[l].to
      BY <2>3, <1>3
    <3> QED BY <3>1, <1>3, PayloadIs
  <2> QED BY <2>2, <2>3, <2>4
<1>7. fs[l].begin => fs[l].from = 0
  BY <1>3 DEF FragmentRight
<1> QED BY <1>1, <1>3, <1>4, <1>5, <1>6, <1>7 DEF DataOf

LEMMA RestIs ==
  ASSUME NEW fs, FileRight(fs), ReaderRight, NEW l, Here(fs, l)
  PROVE  InLog!Rest \in Seq(LogCell)
<1> DEFINE x == InLog!Extent
           n == Len(reader.buffer)
<1>1. x \in Nat /\ x <= n
  BY DEF Here
<1>2. reader.buffer \in Seq(LogCell) /\ n \in Nat
  BY Reading
<1> HIDE DEF x, n
<1>3. SubSeq(reader.buffer, x + 1, n) \in Seq(LogCell)
  BY <1>1, <1>2, Stretch DEF n
<1> QED BY <1>3 DEF x, n, InLog!Rest

LEMMA SkipEarlyIs ==
  ASSUME NEW fs, FileRight(fs), ReaderRight, InLog!SkipEarly
  PROVE  \E l \in DOMAIN fs : /\ Behind(fs, l) /\ read' = read /\ ~reader'.fragmented
                              /\ At < reader.initial
<1>1. /\ LogStays /\ read' = read /\ InLog!Ready /\ InLog!Valid /\ reader.on /\ ~reader.done
      /\ At < reader.initial
  BY DEF InLog!SkipEarly, InLog!Others, LogStays, InLog!Ready, InLog!Running,
       InLog!Early, At
<1>2. PICK l \in DOMAIN fs : Here(fs, l)
  BY <1>1, FragmentHere
<1>3. reader \in Reader
  BY Reading
<1>4. PICK c \in BOOLEAN : reader' = [InLog!Dropped(reader) EXCEPT !.buffer = InLog!Rest]
                           /\ InLog!Dropped(reader) = [reader EXCEPT !.resyncing = FALSE, !.fragmented = FALSE,
                                                                     !.scratch = <<>>, !.reported = c]
  <2>1. InLog!Dropped(reader) = [reader EXCEPT !.resyncing = FALSE, !.fragmented = FALSE,
                                               !.scratch = <<>>, !.reported = reader.reported \/ reader.fragmented]
    BY <1>3 DEF InLog!Dropped, Reader
  <2>2. reader' = [InLog!Dropped(reader) EXCEPT !.buffer = InLog!Rest]
    BY DEF InLog!SkipEarly
  <2>3. (reader.reported \/ reader.fragmented) \in BOOLEAN
    BY Zenon
  <2> QED BY <2>1, <2>2, <2>3, Zenon
<1>5. /\ reader'.on = reader.on /\ reader'.done = reader.done
      /\ reader'.initial = reader.initial
      /\ ~reader'.fragmented /\ ~reader'.resyncing
      /\ reader'.buffer = InLog!Rest /\ reader'.end = reader.end /\ reader'.eof = reader.eof
  BY <1>3, <1>4 DEF Reader
<1>6. InLog!Rest \in Seq(LogCell)
  BY <1>2, RestIs
<1>7. reader' \in Reader
  <2>1. <<>> \in Payloads
    BY DEF Payloads
  <2>2. InLog!Dropped(reader) \in Reader
    BY <2>1, <1>3, <1>4 DEF Reader
  <2> QED BY <2>2, <1>4, <1>6 DEF Reader
<1>8. read' \in Seq(Payloads)
  BY <1>1 DEF ReaderRight
<1>9. Behind(fs, l)
  BY <1>1, <1>2, <1>5, <1>7, <1>8, PassesOn
<1> QED BY <1>1, <1>5, <1>9

LEMMA ResyncIs ==
  ASSUME NEW fs, FileRight(fs), ReaderRight, InLog!Resync
  PROVE  \E l \in DOMAIN fs : /\ Behind(fs, l) /\ read' = read /\ reader.resyncing /\ ~fs[l].begin
                              /\ ~reader.fragmented /\ ~reader'.fragmented
<1>1. /\ LogStays /\ read' = read /\ InLog!Ready /\ InLog!Valid /\ reader.on /\ ~reader.done
      /\ reader.resyncing /\ InLog!Header.type \in {"middle", "last"}
      /\ reader' = [reader EXCEPT !.buffer = InLog!Rest, !.resyncing = InLog!Header.type = "middle"]
  BY DEF InLog!Resync, InLog!Others, LogStays, InLog!Arrived, InLog!Ready, InLog!Running
<1>2. PICK l \in DOMAIN fs : Here(fs, l)
  BY <1>1, FragmentHere
<1>3. reader \in Reader /\ ~reader.fragmented
  BY <1>1, Reading DEF ReaderRight
<1>4. PICK b \in BOOLEAN : reader' = [reader EXCEPT !.buffer = InLog!Rest, !.resyncing = b]
  <2>1. (InLog!Header.type = "middle") \in BOOLEAN
    BY Zenon
  <2> QED BY <2>1, <1>1, Zenon
<1>5. /\ reader'.on = reader.on /\ reader'.done = reader.done
      /\ reader'.initial = reader.initial
      /\ reader'.fragmented = reader.fragmented
      /\ reader'.buffer = InLog!Rest /\ reader'.end = reader.end /\ reader'.eof = reader.eof
  BY <1>3, <1>4 DEF Reader
<1>6. InLog!Rest \in Seq(LogCell)
  BY <1>2, RestIs
<1>7. reader' \in Reader
  BY <1>3, <1>4, <1>6 DEF Reader
<1>8. read' \in Seq(Payloads)
  BY <1>1 DEF ReaderRight
<1>9. Behind(fs, l)
  BY <1>1, <1>2, <1>3, <1>5, <1>7, <1>8, PassesOn
<1>10. ~fs[l].begin
  BY <1>1, <1>2, HereIs
<1> QED BY <1>1, <1>3, <1>5, <1>9, <1>10

LEMMA FullRecordIs ==
  ASSUME NEW fs, FileRight(fs), ReaderRight, InLog!FullRecord
  PROVE  \E l \in DOMAIN fs :
           /\ Behind(fs, l) /\ fs[l].begin /\ fs[l].end
           /\ read' = Append(read, InLog!Whole(fs[l].rec))
           /\ InLog!Whole(fs[l].rec) \in Payloads
           /\ ~reader'.fragmented /\ ~reader'.resyncing
           /\ reader'.reported => reader.reported \/ reader.fragmented
<1>1. /\ LogStays /\ InLog!Ready /\ InLog!Valid /\ reader.on /\ ~reader.done
      /\ InLog!Header.type = "full" /\ read' = Append(read, InLog!Header.data)
      /\ reader' = [reader EXCEPT !.buffer = InLog!Rest, !.resyncing = FALSE, !.fragmented = FALSE,
                                  !.scratch = <<>>, !.reported = reader.reported \/ InLog!Unfinished]
  BY DEF InLog!FullRecord, InLog!Others, LogStays, InLog!Arrived, InLog!Ready,
       InLog!Running
<1>2. PICK l \in DOMAIN fs : Here(fs, l)
  BY <1>1, FragmentHere
<1>3. reader \in Reader
  BY Reading
<1>4. PICK b \in BOOLEAN : /\ b => reader.reported \/ reader.fragmented
                           /\ reader' = [reader EXCEPT !.buffer = InLog!Rest, !.resyncing = FALSE,
                                            !.fragmented = FALSE, !.scratch = <<>>, !.reported = b]
  <2>1. (reader.reported \/ InLog!Unfinished) \in BOOLEAN
        /\ (reader.reported \/ InLog!Unfinished => reader.reported \/ reader.fragmented)
    BY Zenon DEF InLog!Unfinished
  <2> QED BY <2>1, <1>1, Zenon
<1>5. /\ reader'.on = reader.on /\ reader'.done = reader.done
      /\ reader'.initial = reader.initial
      /\ ~reader'.fragmented /\ ~reader'.resyncing /\ (reader'.reported <=> b)
      /\ reader'.buffer = InLog!Rest /\ reader'.end = reader.end /\ reader'.eof = reader.eof
  BY <1>3, <1>4 DEF Reader
<1>6. InLog!Rest \in Seq(LogCell)
  BY <1>2, RestIs
<1>7. reader' \in Reader
  <2>1. <<>> \in Payloads
    BY DEF Payloads
  <2> QED BY <2>1, <1>3, <1>4, <1>6 DEF Reader
<1>8. /\ fs[l].begin /\ fs[l].end /\ InLog!Header.data = InLog!Whole(fs[l].rec)
      /\ InLog!Whole(fs[l].rec) \in Payloads
  <2>1. fs[l].begin /\ fs[l].end
    BY <1>1, <1>2, HereIs
  <2>2. /\ InLog!Header.data = InLog!Payload(fs[l].rec, fs[l].from, fs[l].to)
        /\ fs[l].from = 0
        /\ InLog!Whole(fs[l].rec) = InLog!Payload(fs[l].rec, 0, fs[l].to)
        /\ InLog!Whole(fs[l].rec) \in Payloads
    BY <2>1, <1>2, HereIs
  <2> QED BY <2>1, <2>2
<1>9. read' \in Seq(Payloads)
  <2>1. read \in Seq(Payloads)
    BY DEF ReaderRight
  <2> QED BY <2>1, <1>1, <1>8
<1>10. Behind(fs, l)
  BY <1>1, <1>2, <1>5, <1>7, <1>9, PassesOn
<1> QED BY <1>1, <1>4, <1>5, <1>8, <1>10

LEMMA FirstFragmentIs ==
  ASSUME NEW fs, FileRight(fs), ReaderRight, InLog!FirstFragment
  PROVE  \E l \in DOMAIN fs :
           /\ Behind(fs, l) /\ fs[l].begin /\ ~fs[l].end /\ read' = read
           /\ reader'.fragmented /\ ~reader'.resyncing
           /\ reader'.scratch = InLog!Payload(fs[l].rec, 0, fs[l].to)
           /\ reader'.reported => reader.reported \/ reader.fragmented
<1>1. /\ LogStays /\ InLog!Ready /\ InLog!Valid /\ reader.on /\ ~reader.done
      /\ InLog!Header.type = "first" /\ read' = read
      /\ reader' = [reader EXCEPT !.buffer = InLog!Rest, !.resyncing = FALSE, !.fragmented = TRUE,
                                  !.scratch = InLog!Header.data,
                                  !.reported = reader.reported \/ InLog!Unfinished]
  BY DEF InLog!FirstFragment, InLog!Others, LogStays, InLog!Arrived, InLog!Ready,
       InLog!Running
<1>2. PICK l \in DOMAIN fs : Here(fs, l)
  BY <1>1, FragmentHere
<1>3. reader \in Reader
  BY Reading
<1>4. PICK b \in BOOLEAN : /\ b => reader.reported \/ reader.fragmented
                           /\ reader' = [reader EXCEPT !.buffer = InLog!Rest, !.resyncing = FALSE,
                                            !.fragmented = TRUE, !.scratch = InLog!Header.data,
                                            !.reported = b]
  <2>1. (reader.reported \/ InLog!Unfinished) \in BOOLEAN
        /\ (reader.reported \/ InLog!Unfinished => reader.reported \/ reader.fragmented)
    BY Zenon DEF InLog!Unfinished
  <2> QED BY <2>1, <1>1, Zenon
<1>5. /\ reader'.on = reader.on /\ reader'.done = reader.done
      /\ reader'.initial = reader.initial
      /\ reader'.fragmented /\ ~reader'.resyncing /\ (reader'.reported <=> b)
      /\ reader'.buffer = InLog!Rest /\ reader'.end = reader.end /\ reader'.eof = reader.eof
      /\ reader'.scratch = InLog!Header.data
  BY <1>3, <1>4 DEF Reader
<1>6. InLog!Rest \in Seq(LogCell)
  BY <1>2, RestIs
<1>7. /\ fs[l].begin /\ ~fs[l].end
      /\ InLog!Header.data = InLog!Payload(fs[l].rec, 0, fs[l].to)
      /\ InLog!Header.data \in Payloads
  <2>1. fs[l].begin /\ ~fs[l].end
    BY <1>1, <1>2, HereIs
  <2>2. /\ InLog!Header.data = InLog!Payload(fs[l].rec, fs[l].from, fs[l].to)
        /\ fs[l].from = 0
        /\ InLog!Header.data \in Payloads
    BY <2>1, <1>2, HereIs
  <2> QED BY <2>1, <2>2
<1>8. reader' \in Reader
  BY <1>3, <1>4, <1>6, <1>7 DEF Reader
<1>9. read' \in Seq(Payloads)
  BY <1>1 DEF ReaderRight
<1>10. Behind(fs, l)
  BY <1>1, <1>2, <1>5, <1>8, <1>9, PassesOn
<1> QED BY <1>1, <1>4, <1>5, <1>7, <1>10

LEMMA NextFragmentIs ==
  ASSUME NEW fs, FileRight(fs), ReaderRight, InLog!NextFragment
  PROVE  \E l \in DOMAIN fs :
           /\ Behind(fs, l) /\ ~fs[l].begin /\ ~reader.resyncing /\ ~reader'.resyncing
           /\ ~reader.fragmented => read' = read /\ ~reader'.fragmented
           /\ reader.fragmented => reader'.reported = reader.reported
           /\ reader.fragmented /\ ~fs[l].end =>
                /\ read' = read /\ reader'.fragmented
                /\ reader'.scratch = reader.scratch \o InLog!Payload(fs[l].rec, fs[l].from, fs[l].to)
           /\ reader.fragmented /\ fs[l].end =>
                /\ read' = Append(read, reader.scratch \o InLog!Payload(fs[l].rec, fs[l].from, fs[l].to))
                /\ ~reader'.fragmented
<1> DEFINE whole == reader.scratch \o InLog!Header.data
<1>1. /\ LogStays /\ InLog!Ready /\ InLog!Valid
      /\ reader.on /\ ~reader.done /\ ~reader.resyncing
      /\ InLog!Header.type \in {"middle", "last"}
      /\ IF ~reader.fragmented
         THEN /\ reader' = [reader EXCEPT !.buffer = InLog!Rest, !.reported = TRUE]
              /\ read' = read
         ELSE IF InLog!Header.type = "middle"
         THEN /\ reader' = [reader EXCEPT !.buffer = InLog!Rest, !.scratch = whole]
              /\ read' = read
         ELSE /\ reader' = [reader EXCEPT !.buffer = InLog!Rest, !.scratch = <<>>, !.fragmented = FALSE]
              /\ read' = Append(read, whole)
  BY DEF InLog!NextFragment, InLog!Others, LogStays, InLog!Arrived, InLog!Ready,
       InLog!Running
<1>2. PICK l \in DOMAIN fs : Here(fs, l)
  BY <1>1, FragmentHere
<1>3. reader \in Reader /\ read \in Seq(Payloads)
  BY Reading DEF ReaderRight
<1>4. InLog!Rest \in Seq(LogCell)
  BY <1>2, RestIs
<1>5. /\ ~fs[l].begin /\ (InLog!Header.type = "middle" <=> ~fs[l].end)
      /\ InLog!Header.data = InLog!Payload(fs[l].rec, fs[l].from, fs[l].to)
      /\ InLog!Header.data \in Payloads
  BY <1>1, <1>2, HereIs
<1>6. whole \in Payloads
  <2>1. reader.scratch \in Seq(Nat \X Nat) /\ InLog!Header.data \in Seq(Nat \X Nat)
    BY <1>3, <1>5 DEF Reader, Payloads
  <2>2. whole \in Seq(Nat \X Nat)
    BY <2>1, Joined
  <2> QED BY <2>2 DEF Payloads
<1>7. whole = reader.scratch \o InLog!Payload(fs[l].rec, fs[l].from, fs[l].to)
  BY <1>5
<1>8. <<>> \in Payloads
  BY DEF Payloads
<1> HIDE DEF whole
<1> DEFINE Kept == /\ reader' \in Reader /\ reader'.on = reader.on /\ reader'.done = reader.done
                   /\ reader'.initial = reader.initial /\ ~reader'.resyncing
                   /\ reader'.buffer = InLog!Rest /\ reader'.end = reader.end
                   /\ reader'.eof = reader.eof
                   /\ read' \in Seq(Payloads)
<1>9. CASE ~reader.fragmented
  <2>1. reader' = [reader EXCEPT !.buffer = InLog!Rest, !.reported = TRUE] /\ read' = read
    BY <1>1, <1>9
  <2>2. Kept /\ ~reader'.fragmented
    BY <2>1, <1>1, <1>3, <1>4, <1>9 DEF Reader
  <2> HIDE DEF Kept
  <2>3. Kept /\ (reader'.resyncing => ~reader'.fragmented)
    BY <2>2
  <2>4. Behind(fs, l)
    BY <2>3, <1>1, <1>2, PassesOn DEF Kept
  <2> QED BY <2>1, <2>2, <2>4, <1>1, <1>5, <1>9 DEF Kept
<1>10. CASE reader.fragmented /\ InLog!Header.type = "middle"
  <2>1. reader' = [reader EXCEPT !.buffer = InLog!Rest, !.scratch = whole] /\ read' = read
    BY <1>1, <1>10
  <2>2. /\ Kept /\ reader'.fragmented /\ reader'.scratch = whole
        /\ reader'.reported = reader.reported
    BY <2>1, <1>1, <1>3, <1>4, <1>6, <1>10 DEF Reader
  <2> HIDE DEF Kept
  <2>3. Kept /\ (reader'.resyncing => ~reader'.fragmented)
    BY <2>2 DEF Kept
  <2>4. Behind(fs, l)
    BY <2>3, <1>1, <1>2, PassesOn DEF Kept
  <2> QED BY <2>1, <2>2, <2>4, <1>1, <1>5, <1>7, <1>10 DEF Kept
<1>11. CASE reader.fragmented /\ InLog!Header.type # "middle"
  <2>1. /\ reader' = [reader EXCEPT !.buffer = InLog!Rest, !.scratch = <<>>, !.fragmented = FALSE]
        /\ read' = Append(read, whole)
    BY <1>1, <1>11
  <2>5. read' \in Seq(Payloads)
    BY <2>1, <1>3, <1>6
  <2>6. /\ reader' \in Reader /\ reader'.on = reader.on /\ reader'.done = reader.done
        /\ reader'.initial = reader.initial
        /\ ~reader'.resyncing /\ reader'.buffer = InLog!Rest
        /\ reader'.end = reader.end /\ reader'.eof = reader.eof
        /\ ~reader'.fragmented /\ reader'.reported = reader.reported
    BY <2>1, <1>1, <1>3, <1>4, <1>8 DEF Reader
  <2>2. Kept /\ ~reader'.fragmented /\ reader'.reported = reader.reported
    BY <2>5, <2>6
  <2> HIDE DEF Kept
  <2>3. Kept /\ (reader'.resyncing => ~reader'.fragmented)
    BY <2>2
  <2>4. Behind(fs, l)
    BY <2>3, <1>1, <1>2, PassesOn DEF Kept
  <2> QED BY <2>1, <2>2, <2>4, <1>1, <1>5, <1>7, <1>11 DEF Kept
<1> QED BY <1>9, <1>10, <1>11

-----------------------------------------------------------------------------
(* What is returned: the fragments put together are those of one record.   *)
LEMMA Joins ==
  ASSUME NEW fs, Layout(fs), NEW l \in DOMAIN fs, NEW j \in DOMAIN fs,
         Complete(fs[l]), fs[l].at = At, ~fs[l].begin, Assembled(fs, j), NoneLost(fs, j)
  PROVE  /\ fs[l].rec = fs[j].rec /\ fs[l].at < EndAt(fs[l])
         /\ reader.scratch \o InLog!Payload(fs[l].rec, fs[l].from, fs[l].to)
              = InLog!Payload(fs[l].rec, 0, fs[l].to)
<1>1. Len(fs) \in Nat /\ DOMAIN fs = 1 .. Len(fs)
  BY InLayout
<1>2. \A i \in DOMAIN fs : Complete(fs[i]) => fs[i].at < EndAt(fs[i]) /\ fs[i].at \in Nat
  <2> SUFFICES ASSUME NEW i \in DOMAIN fs, Complete(fs[i])
               PROVE  fs[i].at < EndAt(fs[i]) /\ fs[i].at \in Nat
    OBVIOUS
  <2>1. /\ fs[i].at \in Nat /\ FullSize(fs[i]) \in Nat /\ HeaderSize <= FullSize(fs[i])
        /\ EndAt(fs[i]) = fs[i].at + FullSize(fs[i])
    BY InLayout
  <2> QED BY <2>1, LogConstants
<1>3. /\ EndAt(fs[j]) <= At /\ At < EndAt(fs[l]) /\ At \in Nat
      /\ EndAt(fs[j]) \in Nat /\ EndAt(fs[l]) \in Nat
  BY <1>2, InLayout DEF Assembled
<1>4. ~(l <= j)
  <2> SUFFICES ASSUME l <= j PROVE FALSE
    OBVIOUS
  <2>1. EndAt(fs[l]) <= EndAt(fs[j])
    BY Ascending
  <2> QED BY <2>1, <1>3
<1>5. PICK k \in DOMAIN fs : k = l - 1
  <2>1. l - 1 \in DOMAIN fs
    BY <1>1, <1>4
  <2> QED BY <2>1
<1>6. Follows(fs[k], fs[l])
  <2>1. k \in 1 .. Len(fs) - 1 /\ k + 1 = l
    BY <1>1, <1>5
  <2> QED BY <2>1 DEF Layout
<1>7. /\ fs[l].rec = fs[k].rec /\ Complete(fs[k])
      /\ fs[l].from = fs[k].to /\ EndAt(fs[k]) <= At
  BY <1>6 DEF Follows
<1>8. k = j
  <2> SUFFICES ASSUME j < k PROVE FALSE
    BY <1>1, <1>4, <1>5
  <2>1. fs[k].at < EndAt(fs[k]) /\ fs[k].at \in Nat /\ EndAt(fs[k]) \in Nat
    BY <1>2, <1>7, InLayout
  <2>2. At <= fs[k].at \/ Passed(fs[k])
    BY DEF NoneLost
  <2>3. CASE At <= fs[k].at
    BY <2>1, <2>3, <1>3, <1>7
  <2>4. CASE Passed(fs[k])
    <3>1. At < EndAt(fs[k])
      BY <2>4, <1>7 DEF Passed
    <3> QED BY <3>1, <2>1, <1>3, <1>7
  <2> QED BY <2>2, <2>3, <2>4
<1>9. /\ fs[l].rec \in Nat /\ fs[l].from \in Nat
      /\ fs[l].to \in Nat /\ fs[l].from <= fs[l].to
  BY InLayout DEF FragmentRight
<1>10. reader.scratch = InLog!Payload(fs[l].rec, 0, fs[l].from)
  BY <1>7, <1>8 DEF Assembled
<1>11. fs[l].at < EndAt(fs[l])
  BY <1>2
<1>12. InLog!Payload(fs[l].rec, 0, fs[l].from) \o InLog!Payload(fs[l].rec, fs[l].from, fs[l].to)
             = InLog!Payload(fs[l].rec, 0, fs[l].to)
  BY <1>9, PayloadsJoin
<1> QED BY <1>7, <1>8, <1>10, <1>11, <1>12

LEMMA ReadRightLeft ==
  ASSUME NEW fs, ReadRight(fs), Moved(fs), read' = read, reader'.done \/ ~reader'.fragmented
  PROVE  ReadRight(fs)'
<1>1. PICK rs : RsRight(fs, rs)
  BY ReadRightIs
<1>2. LogStays /\ At \in Nat /\ At' \in Nat /\ At <= At' /\ Layout(fs)
  BY DEF Moved
<1>3. RsRight(fs, rs)'
  BY <1>1, <1>2, RsKept
<1> QED BY <1>3, IsReadRight

LEMMA ReadBlockReads ==
  ASSUME NEW fs, FileRight(fs), ReaderRight, ReadRight(fs), InLog!ReadBlock
  PROVE  ReadRight(fs)'
<1>1. /\ Moved(fs) /\ read' = read /\ Flags /\ ~reader'.done
      /\ Len(reader.buffer) < HeaderSize /\ ~reader.eof /\ At' = reader.end
      /\ HeaderSize <= Len(reader'.buffer) \/ reader'.eof
  BY ReadBlockIs
<1>2. /\ Layout(fs) /\ At \in Nat /\ reader.end \in Nat /\ Len(reader.buffer) \in Nat
      /\ At + Len(reader.buffer) = reader.end
  BY Reading
<1>3. PICK rs : /\ RsRight(fs, rs)
                /\ reader.fragmented /\ ~reader.done => \E j \in DOMAIN fs : InProgress(fs, rs, j)
  BY ReadRightIs
<1>4. RsRight(fs, rs)' /\ \A r : Earlier(rs, r) => Earlier(rs, r)'
  BY <1>1, <1>2, <1>3, RsKept DEF Moved
<1>5. ASSUME reader'.fragmented PROVE \E j \in DOMAIN fs : InProgress(fs, rs, j)'
  <2>1. PICK j \in DOMAIN fs : InProgress(fs, rs, j)
    BY <1>1, <1>3, <1>5 DEF Flags, Moved
  <2>2. Assembled(fs, j) /\ NoneLost(fs, j) /\ Earlier(rs, fs[j].rec)
    BY <2>1 DEF InProgress
  <2>3. reader'.scratch = reader.scratch
    BY <1>1 DEF Flags
  <2>4. Assembled(fs, j)' /\ NoneLost(fs, j)'
    BY <2>2, <2>3, <1>1, <1>2, LostRefill
  <2>5. Earlier(rs, fs[j].rec)'
    BY <2>2, <1>4
  <2>6. InProgress(fs, rs, j)'
    BY <2>4, <2>5 DEF InProgress
  <2> QED BY <2>6
<1> QED BY <1>4, <1>5, IsReadRight

LEMMA FullRecordReads ==
  ASSUME NEW fs, FileRight(fs), ReaderRight, ReadRight(fs), InLog!FullRecord
  PROVE  ReadRight(fs)'
<1>1. PICK l \in DOMAIN fs :
        /\ Behind(fs, l) /\ fs[l].end
        /\ read' = Append(read, InLog!Whole(fs[l].rec))
        /\ InLog!Whole(fs[l].rec) \in Payloads
        /\ ~reader'.fragmented
  BY FullRecordIs
<1>2. /\ Moved(fs) /\ At' = EndAt(fs[l]) /\ fs[l].at = At /\ At < EndAt(fs[l])
  BY <1>1 DEF Behind, Here
<1>3. LogStays /\ At \in Nat /\ At' \in Nat /\ At <= At' /\ Layout(fs) /\ RecordsRight(fs)
  BY <1>2 DEF Moved, FileRight
<1>4. PICK rs : RsRight(fs, rs)
  BY ReadRightIs
<1>5. Earlier(rs, fs[l].rec)
  <2>1. At <= fs[l].at
    BY <1>2, <1>3
  <2> QED BY <2>1, <1>4 DEF RsRight
<1>6. read \in Seq(Payloads)
  BY DEF ReaderRight
<1>7. \E ss : RsRight(fs, ss)'
  BY <1>1, <1>2, <1>3, <1>4, <1>5, <1>6, RsGrows
<1>8. PICK ss : RsRight(fs, ss)'
  BY <1>7
<1> QED BY <1>1, <1>8, IsReadRight

LEMMA AheadNow ==
  ASSUME NEW fs, Layout(fs), NEW l \in DOMAIN fs, Complete(fs[l]), ~fs[l].end,
         At' = EndAt(fs[l]), reader'.scratch = InLog!Payload(fs[l].rec, 0, fs[l].to),
         NEW rs, Earlier(rs, fs[l].rec)'
  PROVE  InProgress(fs, rs, l)'
<1>1. NoneLost(fs, l)'
  BY NoneBehind
<1>2. EndAt(fs[l]) <= At'
  BY InLayout
<1>3. Assembled(fs, l)'
  BY <1>2 DEF Assembled, InLog!Payload
<1> QED BY <1>1, <1>3 DEF InProgress

LEMMA FirstFragmentReads ==
  ASSUME NEW fs, FileRight(fs), ReaderRight, ReadRight(fs), InLog!FirstFragment
  PROVE  ReadRight(fs)'
<1>1. PICK l \in DOMAIN fs :
        /\ Behind(fs, l) /\ ~fs[l].end /\ read' = read
        /\ reader'.scratch = InLog!Payload(fs[l].rec, 0, fs[l].to)
  BY FirstFragmentIs
<1>2. /\ Moved(fs) /\ At' = EndAt(fs[l]) /\ fs[l].at = At /\ Complete(fs[l])
  BY <1>1 DEF Behind, Here
<1>3. LogStays /\ At \in Nat /\ At' \in Nat /\ At <= At' /\ Layout(fs)
  BY <1>2 DEF Moved
<1>4. PICK rs : RsRight(fs, rs)
  BY ReadRightIs
<1>5. RsRight(fs, rs)' /\ \A r : Earlier(rs, r) => Earlier(rs, r)'
  BY <1>1, <1>3, <1>4, RsKept
<1>6. Earlier(rs, fs[l].rec)
  <2>1. At <= fs[l].at
    BY <1>2, <1>3
  <2> QED BY <2>1, <1>4 DEF RsRight
<1>7. Earlier(rs, fs[l].rec)'
  BY <1>5, <1>6
<1>8. InProgress(fs, rs, l)'
  BY <1>1, <1>2, <1>3, <1>7, AheadNow
<1> QED BY <1>5, <1>8, IsReadRight

LEMMA NextFragmentReads ==
  ASSUME NEW fs, FileRight(fs), ReaderRight, ReadRight(fs), InLog!NextFragment
  PROVE  ReadRight(fs)'
<1>1. PICK l \in DOMAIN fs :
           /\ Behind(fs, l) /\ ~fs[l].begin
           /\ ~reader.fragmented => read' = read /\ ~reader'.fragmented
           /\ reader.fragmented /\ ~fs[l].end =>
                /\ read' = read
                /\ reader'.scratch = reader.scratch \o InLog!Payload(fs[l].rec, fs[l].from, fs[l].to)
           /\ reader.fragmented /\ fs[l].end =>
                /\ read' = Append(read, reader.scratch \o InLog!Payload(fs[l].rec, fs[l].from, fs[l].to))
                /\ ~reader'.fragmented
  BY NextFragmentIs
<1>2. /\ Moved(fs) /\ At' = EndAt(fs[l]) /\ fs[l].at = At /\ Complete(fs[l]) /\ Here(fs, l)
  BY <1>1 DEF Behind, Here
<1>3. /\ LogStays /\ At \in Nat /\ At' \in Nat /\ At <= At' /\ Layout(fs) /\ ~reader.done
      /\ RecordsRight(fs)
  BY <1>2 DEF Moved, FileRight
<1>4. CASE ~reader.fragmented
  BY <1>1, <1>2, <1>4, ReadRightLeft
<1>5. CASE reader.fragmented
  <2>1. PICK rs : /\ RsRight(fs, rs)
                  /\ reader.fragmented /\ ~reader.done => \E j \in DOMAIN fs : InProgress(fs, rs, j)
    BY ReadRightIs
  <2>2. PICK j \in DOMAIN fs : Assembled(fs, j) /\ NoneLost(fs, j) /\ Earlier(rs, fs[j].rec)
    BY <2>1, <1>3, <1>5 DEF InProgress
  <2>3. /\ fs[l].rec = fs[j].rec /\ fs[l].at < EndAt(fs[l])
        /\ reader.scratch \o InLog!Payload(fs[l].rec, fs[l].from, fs[l].to)
             = InLog!Payload(fs[l].rec, 0, fs[l].to)
    BY <2>2, <1>1, <1>2, <1>3, Joins
  <2>4. Earlier(rs, fs[l].rec)
    BY <2>2, <2>3
  <2>5. CASE ~fs[l].end
    <3>1. read' = read /\ reader'.scratch = InLog!Payload(fs[l].rec, 0, fs[l].to)
      BY <2>3, <2>5, <1>1, <1>5
    <3>2. RsRight(fs, rs)' /\ \A r : Earlier(rs, r) => Earlier(rs, r)'
      BY <3>1, <2>1, <1>3, RsKept
    <3>3. Earlier(rs, fs[l].rec)'
      BY <3>2, <2>4
    <3>4. InProgress(fs, rs, l)'
      BY <3>1, <3>3, <2>5, <1>2, <1>3, AheadNow
    <3> QED BY <3>2, <3>4, IsReadRight
  <2>6. CASE fs[l].end
    <3>1. /\ InLog!Whole(fs[l].rec) = InLog!Payload(fs[l].rec, 0, fs[l].to)
          /\ InLog!Whole(fs[l].rec) \in Payloads
      BY <2>6, <1>2, HereIs
    <3>2. read' = Append(read, InLog!Whole(fs[l].rec)) /\ ~reader'.fragmented
      BY <3>1, <2>3, <2>6, <1>1, <1>5
    <3>3. read \in Seq(Payloads)
      BY DEF ReaderRight
    <3>4. \E ss : RsRight(fs, ss)'
      BY <3>1, <3>2, <3>3, <2>1, <2>3, <2>4, <2>6, <1>2, <1>3, RsGrows
    <3>5. PICK ss : RsRight(fs, ss)'
      BY <3>4
    <3> QED BY <3>2, <3>5, IsReadRight
  <2> QED BY <2>5, <2>6
<1> QED BY <1>4, <1>5

-----------------------------------------------------------------------------
(* What is due: it is returned before the reader is done.                  *)
Awaited(fs, r) == ToCome(fs, r) \/ Partly(fs, r)

LEMMA IsDueRight ==
  ASSUME NEW fs, Moved(fs), DueRight(fs),
         \A r \in InLog!Due : Found(r) => Found(r)',
         \A r \in InLog!Due : Awaited(fs, r) => Found(r)' \/ (~reader'.done /\ Awaited(fs, r)')
  PROVE  DueRight(fs)'
<1>1. /\ LogStays /\ reader.on /\ ~reader.done /\ reader'.initial = reader.initial
  BY DEF Moved
<1>2. InLog!Due' = InLog!Due
  BY <1>1 DEF LogStays, InLog!Due, InLog!BlocksOf
<1>3. ASSUME NEW r \in InLog!Due
      PROVE  Found(r)' \/ (~reader'.done /\ (ToCome(fs, r)' \/ Partly(fs, r)'))
  <2>1. Found(r) \/ Awaited(fs, r)
    BY <1>1 DEF DueRight, Awaited
  <2> QED BY <2>1 DEF Awaited
<1> HIDE DEF InLog!Due
<1>4. \A r \in InLog!Due' : Found(r)' \/ (~reader'.done /\ (ToCome(fs, r)' \/ Partly(fs, r)'))
  BY <1>2, <1>3
<1> QED BY <1>4 DEF DueRight

LEMMA FoundStays ==
  ASSUME Len(read) \in Nat, DOMAIN read = 1 .. Len(read), LogStays, read' = read,
         NEW r, Found(r)
  PROVE  Found(r)'
BY DEF Found, LogStays, InLog!Whole, InLog!Payload

LEMMA FoundGrows ==
  ASSUME read \in Seq(Payloads), LogStays, NEW s \in Payloads, read' = Append(read, s)
  PROVE  /\ \A r : Found(r) => Found(r)'
         /\ \A r : s = InLog!Whole(r) => Found(r)'
<1>1. /\ Len(read) \in Nat /\ DOMAIN read = 1 .. Len(read)
      /\ DOMAIN read' = 1 .. Len(read) + 1 /\ read'[Len(read) + 1] = s
      /\ \A i \in DOMAIN read : read'[i] = read[i]
  OBVIOUS
<1>2. \A r : InLog!Whole(r)' = InLog!Whole(r)
  BY DEF LogStays, InLog!Whole, InLog!Payload
<1>3. ASSUME NEW r, Found(r) PROVE Found(r)'
  <2>1. PICK i \in DOMAIN read : read[i] = InLog!Whole(r)
    BY <1>3 DEF Found
  <2>2. i \in DOMAIN read' /\ read'[i] = InLog!Whole(r)
    BY <2>1, <1>1
  <2> QED BY <2>2, <1>2 DEF Found
<1>4. ASSUME NEW r, s = InLog!Whole(r) PROVE Found(r)'
  <2>1. Len(read) + 1 \in DOMAIN read'
    BY <1>1
  <2> QED BY <2>1, <1>1, <1>2, <1>4 DEF Found
<1> QED BY <1>3, <1>4

(* A fragment passed is the one the record waits for, or one before it.    *)
LEMMA PassesDue ==
  ASSUME NEW fs, FileRight(fs), ReaderRight, NEW l, Behind(fs, l), NEW r \in InLog!Due,
         NEW t \in DOMAIN fs, fs[t].rec = r, OnTrack(fs, t), l # t
  PROVE  l < t /\ OnTrack(fs, t)'
<1>1. /\ Layout(fs) /\ At \in Nat /\ reader.end \in Nat
  BY Reading
<1>2. Len(fs) \in Nat /\ DOMAIN fs = 1 .. Len(fs)
  BY <1>1, InLayout
<1>3. /\ l \in DOMAIN fs /\ fs[l].at = At /\ At < EndAt(fs[l]) /\ EndAt(fs[l]) <= reader.end
      /\ At' = EndAt(fs[l]) /\ reader'.end = reader.end
  BY DEF Behind, Here
<1>4. fs[t].at \in Nat /\ EndAt(fs[l]) \in Nat
  BY <1>1, <1>3, InLayout
<1>5. CASE reader.end <= fs[t].at
  <2>1. At < fs[t].at
    BY <1>1, <1>3, <1>4, <1>5
  <2>2. ~(t <= l)
    <3> SUFFICES ASSUME t <= l PROVE FALSE
      OBVIOUS
    <3>1. fs[t].at <= fs[l].at
      BY <1>1, <1>3, Ascending
    <3> QED BY <3>1, <2>1, <1>1, <1>3, <1>4
  <2>3. l < t
    BY <2>2, <1>2, <1>3
  <2>4. At' <= fs[t].at /\ reader'.end <= fs[t].at
    BY <1>1, <1>3, <1>4, <1>5
  <2> QED BY <2>3, <2>4 DEF OnTrack
<1>6. CASE \E k \in 1 .. t : fs[k].at = At
  <2>1. PICK k \in 1 .. t : fs[k].at = At
    BY <1>6
  <2>2. k \in DOMAIN fs /\ k <= t
    BY <2>1, <1>2
  <2>3. fs[k].at < EndAt(fs[k]) /\ EndAt(fs[k]) \in Nat
    BY <2>2, <1>1, DueFacts, InLayout
  <2>4. k = l
    <3>1. Within(At + 1, fs[k]) /\ Within(At + 1, fs[l]) /\ At + 1 \in Int
      BY <2>1, <2>3, <1>1, <1>3, <1>4 DEF Within
    <3> QED BY <3>1, <2>2, <1>1, <1>3, OneFragment
  <2>5. l < t
    BY <2>2, <2>4, <1>2
  <2>6. OnTrack(fs, t)'
    BY <2>5, <1>3, Advance
  <2> QED BY <2>5, <2>6
<1> QED BY <1>5, <1>6 DEF OnTrack

(* The rest of the record that was begun.                                  *)
LEMMA PassesPartly ==
  ASSUME NEW fs, FileRight(fs), ReaderRight, NEW l, Behind(fs, l), NEW r \in InLog!Due,
         Partly(fs, r)
  PROVE  /\ reader.fragmented /\ ~reader.resyncing /\ fs[l].rec = r /\ ~fs[l].begin
         /\ reader.scratch \o InLog!Payload(fs[l].rec, fs[l].from, fs[l].to)
              = InLog!Payload(fs[l].rec, 0, fs[l].to)
<1>1. /\ Layout(fs) /\ At \in Nat
  BY Reading
<1>2. Len(fs) \in Nat /\ DOMAIN fs = 1 .. Len(fs)
  BY <1>1, InLayout
<1>3. /\ l \in DOMAIN fs /\ fs[l].at = At /\ At < EndAt(fs[l])
  BY DEF Behind, Here
<1>4. PICK k \in DOMAIN fs : /\ fs[k].rec = r /\ Assembled(fs, k)
                             /\ k < Len(fs) /\ OnTrack(fs, k + 1)
  BY DEF Partly
<1>5. PICK t \in DOMAIN fs : t = k + 1
  <2>1. k + 1 \in DOMAIN fs
    BY <1>2, <1>4
  <2> QED BY <2>1
<1>6. fs[t].rec = r /\ ~fs[k].end
  <2>1. written[r].whole
    BY <1>4, DueFacts
  <2>2. InRecord(fs, k) /\ ~fs[k].end
    BY <1>4 DEF FileRight, RecordsRight, Assembled
  <2> QED BY <2>1, <2>2, <1>4, <1>5 DEF InRecord
<1>7. Follows(fs[k], fs[t])
  <2>1. k \in 1 .. Len(fs) - 1
    BY <1>2, <1>4
  <2> QED BY <2>1, <1>1, <1>5 DEF Layout
<1>8. /\ ~fs[t].begin /\ fs[t].from = fs[k].to
  <2>1. fs[k].rec \in Nat
    BY <1>1, InLayout
  <2>2. fs[t].rec # fs[k].rec + 1
    BY <2>1, <1>4, <1>6
  <2> QED BY <2>2, <1>7 DEF Follows
<1>9. l = t
  <2> SUFFICES ASSUME l # t PROVE FALSE
    OBVIOUS
  <2>1. OnTrack(fs, t)
    BY <1>4, <1>5
  <2>2. l < t
    BY <2>1, <1>6, PassesDue
  <2>3. l <= k
    BY <2>2, <1>2, <1>3, <1>5
  <2>4. EndAt(fs[l]) <= EndAt(fs[k]) /\ EndAt(fs[l]) \in Nat /\ EndAt(fs[k]) \in Nat
    BY <2>3, <1>1, <1>3, Ascending, InLayout
  <2>5. EndAt(fs[k]) <= At
    BY <1>4 DEF Assembled
  <2> QED BY <2>4, <2>5, <1>1, <1>3
<1>10. /\ fs[l].rec \in Nat /\ fs[l].from \in Nat
       /\ fs[l].to \in Nat /\ fs[l].from <= fs[l].to
  BY <1>1, <1>3, InLayout DEF FragmentRight
<1>11. reader.scratch = InLog!Payload(fs[l].rec, 0, fs[l].from)
  BY <1>4, <1>6, <1>8, <1>9 DEF Assembled
<1>12. InLog!Payload(fs[l].rec, 0, fs[l].from) \o InLog!Payload(fs[l].rec, fs[l].from, fs[l].to)
             = InLog!Payload(fs[l].rec, 0, fs[l].to)
  BY <1>10, PayloadsJoin
<1>13. reader.fragmented /\ ~reader.resyncing
  BY DEF Partly
<1> QED BY <1>6, <1>8, <1>9, <1>11, <1>12, <1>13

(* A fragment of a record that is due begins the rest of it.               *)
LEMMA BeginsPartly ==
  ASSUME NEW fs, FileRight(fs), ReaderRight, NEW l, Behind(fs, l), NEW r \in InLog!Due,
         fs[l].rec = r, ~fs[l].end, reader'.fragmented, ~reader'.resyncing,
         reader'.scratch = InLog!Payload(fs[l].rec, 0, fs[l].to)
  PROVE  Partly(fs, r)'
<1>1. /\ Layout(fs) /\ At \in Nat
  BY Reading
<1>2. Len(fs) \in Nat /\ DOMAIN fs = 1 .. Len(fs)
  BY <1>1, InLayout
<1>3. /\ l \in DOMAIN fs /\ fs[l].at = At /\ Complete(fs[l]) /\ At' = EndAt(fs[l])
      /\ reader'.end = reader.end
  BY DEF Behind, Here
<1>4. l < Len(fs) /\ fs[l + 1].rec = r
  <2>1. written[r].whole
    BY <1>3, DueFacts
  <2>2. InRecord(fs, l)
    BY <1>3 DEF FileRight, RecordsRight
  <2> QED BY <2>1, <2>2 DEF InRecord
<1>5. PICK t \in DOMAIN fs : t = l + 1
  <2>1. l + 1 \in DOMAIN fs
    BY <1>2, <1>3, <1>4
  <2> QED BY <2>1
<1>6. l < t /\ fs[t].rec = r
  BY <1>2, <1>3, <1>4, <1>5
<1>7. OnTrack(fs, t)'
  BY <1>3, <1>6, Advance
<1>8. EndAt(fs[l]) <= At'
  BY <1>1, <1>3, InLayout
<1>9. Assembled(fs, l)'
  BY <1>3, <1>8 DEF Assembled, InLog!Payload
<1>10. OnTrack(fs, l + 1)'
  BY <1>5, <1>7
<1> QED BY <1>3, <1>4, <1>9, <1>10 DEF Partly

(* Where no fragment is passed.                                            *)
LEMMA DueKept ==
  ASSUME NEW fs, ReaderRight, Moved(fs), DueRight(fs), read' = read,
         \A r \in InLog!Due : Awaited(fs, r) => ~reader'.done /\ Awaited(fs, r)'
  PROVE  DueRight(fs)'
<1>1. Len(read) \in Nat /\ DOMAIN read = 1 .. Len(read) /\ LogStays
  <2>1. read \in Seq(Payloads)
    BY DEF ReaderRight
  <2> QED BY <2>1 DEF Moved
<1>2. \A r \in InLog!Due : Found(r) => Found(r)'
  BY <1>1, FoundStays
<1> QED BY <1>2, IsDueRight

LEMMA ReadBlockDue ==
  ASSUME NEW fs, FileRight(fs), ReaderRight, DueRight(fs), InLog!ReadBlock
  PROVE  DueRight(fs)'
<1>1. /\ Moved(fs) /\ read' = read /\ Flags /\ ~reader'.done
      /\ Len(reader.buffer) < HeaderSize /\ ~reader.eof
      /\ At' = reader.end /\ reader'.end \in Nat /\ reader'.end <= reader.end + BlockSize
  BY ReadBlockIs
<1>2. ASSUME NEW r \in InLog!Due, NEW t \in DOMAIN fs, fs[t].rec = r, OnTrack(fs, t)
      PROVE  OnTrack(fs, t)'
  BY <1>1, <1>2, Refilled
<1>3. /\ At \in Nat /\ At' \in Nat /\ At <= At' /\ Layout(fs)
  BY <1>1 DEF Moved
<1>4. Len(fs) \in Nat /\ DOMAIN fs = 1 .. Len(fs)
  BY <1>3, InLayout
<1>5. ASSUME NEW r \in InLog!Due, ToCome(fs, r) PROVE ToCome(fs, r)'
  <2>1. PICK k \in DOMAIN fs : fs[k].rec = r /\ fs[k].begin /\ OnTrack(fs, k)
    BY <1>5 DEF ToCome
  <2>2. OnTrack(fs, k)'
    BY <2>1, <1>2
  <2> QED BY <2>1, <2>2 DEF ToCome
<1>6. ASSUME NEW r \in InLog!Due, Partly(fs, r) PROVE Partly(fs, r)'
  <2>1. PICK k \in DOMAIN fs : /\ fs[k].rec = r /\ Assembled(fs, k)
                               /\ k < Len(fs) /\ OnTrack(fs, k + 1)
    BY <1>6 DEF Partly
  <2>2. PICK t \in DOMAIN fs : t = k + 1
    <3>1. k + 1 \in DOMAIN fs
      BY <2>1, <1>4
    <3> QED BY <3>1
  <2>3. fs[t].rec = r
    <3>1. written[r].whole
      BY <2>1, DueFacts
    <3>2. InRecord(fs, k) /\ ~fs[k].end
      BY <2>1 DEF FileRight, RecordsRight, Assembled
    <3> QED BY <3>1, <3>2, <2>1, <2>2 DEF InRecord
  <2>4. OnTrack(fs, t)'
    BY <2>1, <2>2, <2>3, <1>2
  <2>5. OnTrack(fs, k + 1)'
    BY <2>2, <2>4
  <2>6. Assembled(fs, k)'
    <3>1. EndAt(fs[k]) \in Nat /\ EndAt(fs[k]) <= At
      BY <2>1, <1>3, InLayout DEF Assembled
    <3>2. EndAt(fs[k]) <= At'
      BY <3>1, <1>3
    <3>3. reader'.scratch = reader.scratch
      BY <1>1 DEF Flags
    <3> QED BY <3>2, <3>3, <2>1 DEF Assembled, InLog!Payload
  <2>7. reader'.fragmented /\ ~reader'.resyncing
    BY <1>1, <1>6 DEF Partly, Flags
  <2> QED BY <2>1, <2>5, <2>6, <2>7 DEF Partly
<1>7. \A r \in InLog!Due : Awaited(fs, r) => Awaited(fs, r)'
  BY <1>5, <1>6 DEF Awaited
<1> QED BY <1>1, <1>7, DueKept

(* At the end of the file, or before what is no fragment, none is due of   *)
(* what the buffer holds.                                                  *)
LEMMA EndsBehind ==
  ASSUME NEW fs, FileRight(fs), ReaderRight, NEW r \in InLog!Due,
         NEW t \in DOMAIN fs, fs[t].rec = r, OnTrack(fs, t), reader.eof, InLog!Running
  PROVE  HeaderSize <= Len(reader.buffer) /\ InLog!Valid
<1>1. /\ Layout(fs) /\ At \in Nat /\ reader.end \in Nat /\ Len(reader.buffer) \in Nat
      /\ At + Len(reader.buffer) = reader.end /\ Len(log) \in Nat
  BY Reading
<1>2. Len(fs) \in Nat /\ DOMAIN fs = 1 .. Len(fs)
  BY <1>1, InLayout
<1>3. EndAt(fs[t]) <= written[r].end /\ written[r].end <= Len(log) /\ written[r] \in Record
  BY DueFacts
<1>4. /\ fs[t].at < EndAt(fs[t]) /\ fs[t].at \in Nat /\ EndAt(fs[t]) \in Nat
  <2>1. t <= t
    BY <1>2
  <2> QED BY <2>1, <1>1, DueFacts, InLayout
<1>5. EndAt(fs[t]) <= reader.end
  <2>1. reader.end = Len(log) /\ written[r].end \in Nat
    BY <1>3 DEF ReaderRight, Record
  <2> QED BY <2>1, <1>1, <1>3, <1>4
<1>6. fs[t].at < reader.end
  BY <1>1, <1>4, <1>5
<1>7. PICK l \in 1 .. t : fs[l].at = At
  BY <1>1, <1>4, <1>6 DEF OnTrack
<1>8. l \in DOMAIN fs /\ l <= t
  BY <1>2, <1>7
<1>9. Complete(fs[l])
  BY <1>8, DueFacts
<1>10. EndAt(fs[l]) <= EndAt(fs[t])
  BY <1>1, <1>8, Ascending
<1>11. HeaderSize <= Len(reader.buffer)
  <2> DEFINE f == FullSize(fs[l])
             b == EndAt(fs[l])
             c == EndAt(fs[t])
  <2>1. f \in Nat /\ HeaderSize <= f /\ b = At + f /\ b \in Nat
    BY <1>1, <1>7, <1>8, <1>9, InLayout
  <2>2. c \in Nat /\ c <= reader.end /\ b <= c
    BY <1>4, <1>5, <1>10
  <2> HIDE DEF f, b, c
  <2> QED BY <2>1, <2>2, <1>1, LogConstants
<1>12. InLog!Ready
  BY <1>1, <1>11, LogConstants DEF InLog!Ready
<1>13. InLog!Valid
  BY <1>6, <1>7, <1>12, Reached
<1> QED BY <1>11, <1>13

LEMMA NoneAtTheEnd ==
  ASSUME NEW fs, FileRight(fs), ReaderRight, InLog!Running, reader.eof,
         Len(reader.buffer) < HeaderSize \/ ~InLog!Valid
  PROVE  \A r \in InLog!Due : ~Awaited(fs, r)
<1> SUFFICES ASSUME NEW r \in InLog!Due, Awaited(fs, r) PROVE FALSE
  OBVIOUS
<1>1. /\ Layout(fs) /\ Len(reader.buffer) \in Nat
  BY Reading
<1>2. Len(fs) \in Nat /\ DOMAIN fs = 1 .. Len(fs)
  BY <1>1, InLayout
<1>3. PICK t \in DOMAIN fs : fs[t].rec = r /\ OnTrack(fs, t)
  <2>1. CASE ToCome(fs, r)
    BY <2>1 DEF ToCome
  <2>2. CASE Partly(fs, r)
    <3>1. PICK k \in DOMAIN fs : /\ fs[k].rec = r /\ Assembled(fs, k)
                                 /\ k < Len(fs) /\ OnTrack(fs, k + 1)
      BY <2>2 DEF Partly
    <3>2. k + 1 \in DOMAIN fs
      BY <3>1, <1>2
    <3>3. written[r].whole
      BY <3>1, DueFacts
    <3>4. InRecord(fs, k) /\ ~fs[k].end
      BY <3>1 DEF FileRight, RecordsRight, Assembled
    <3>5. fs[k + 1].rec = r
      BY <3>3, <3>4, <3>1 DEF InRecord
    <3> QED BY <3>1, <3>2, <3>5
  <2> QED BY <2>1, <2>2 DEF Awaited
<1>4. HeaderSize <= Len(reader.buffer) /\ InLog!Valid
  BY <1>3, EndsBehind
<1> QED BY <1>1, <1>4, LogConstants

LEMMA EndOfFileDue ==
  ASSUME NEW fs, FileRight(fs), ReaderRight, DueRight(fs), InLog!EndOfFile
  PROVE  DueRight(fs)'
<1>1. /\ Moved(fs) /\ read' = read /\ Len(reader.buffer) < HeaderSize /\ reader.eof
  BY EndOfFileIs
<1>2. InLog!Running
  BY DEF InLog!EndOfFile
<1>3. \A r \in InLog!Due : ~Awaited(fs, r)
  BY <1>1, <1>2, NoneAtTheEnd
<1> QED BY <1>1, <1>3, DueKept

LEMMA TruncatedDue ==
  ASSUME NEW fs, FileRight(fs), ReaderRight, DueRight(fs), InLog!Truncated
  PROVE  DueRight(fs)'
<1>1. /\ Moved(fs) /\ read' = read /\ ~InLog!Valid /\ reader.eof
  BY TruncatedIs
<1>2. InLog!Running
  BY DEF InLog!Truncated, InLog!Ready
<1>3. \A r \in InLog!Due : ~Awaited(fs, r)
  BY <1>1, <1>2, NoneAtTheEnd
<1> QED BY <1>1, <1>3, DueKept

LEMMA BadRecordDue ==
  ASSUME NEW fs, FileRight(fs), ReaderRight, DueRight(fs), InLog!BadRecord
  PROVE  DueRight(fs)'
<1>1. /\ Moved(fs) /\ read' = read /\ ~reader'.done /\ InLog!Ready /\ ~InLog!Valid
      /\ At' = reader.end /\ reader'.end = reader.end
  BY BadRecordIs
<1>2. /\ Layout(fs) /\ At \in Nat /\ reader.end \in Nat /\ Len(reader.buffer) \in Nat
      /\ At + Len(reader.buffer) = reader.end
  BY Reading
<1>3. Len(fs) \in Nat /\ DOMAIN fs = 1 .. Len(fs)
  BY <1>2, InLayout
<1>4. ASSUME NEW r \in InLog!Due, NEW t \in DOMAIN fs, fs[t].rec = r, OnTrack(fs, t)
      PROVE  reader.end <= fs[t].at /\ fs[t].at \in Nat
  <2>1. fs[t].at \in Nat
    BY <1>2, InLayout
  <2>2. ~(fs[t].at < reader.end)
    <3> SUFFICES ASSUME fs[t].at < reader.end PROVE FALSE
      OBVIOUS
    <3>1. PICK l \in 1 .. t : fs[l].at = At
      BY <2>1, <1>2, <1>4 DEF OnTrack
    <3>2. InLog!Valid
      BY <3>1, <1>1, <1>4, Reached
    <3> QED BY <3>2, <1>1
  <2> QED BY <2>1, <2>2, <1>2
<1>5. ASSUME NEW r \in InLog!Due, ToCome(fs, r) PROVE ToCome(fs, r)'
  <2>1. PICK k \in DOMAIN fs : fs[k].rec = r /\ fs[k].begin /\ OnTrack(fs, k)
    BY <1>5 DEF ToCome
  <2>2. reader.end <= fs[k].at
    BY <2>1, <1>4
  <2>3. At' <= fs[k].at /\ reader'.end <= fs[k].at
    BY <2>2, <1>1
  <2>4. OnTrack(fs, k)'
    BY <2>3 DEF OnTrack
  <2> QED BY <2>1, <2>4 DEF ToCome
<1>6. ASSUME NEW r \in InLog!Due, Partly(fs, r) PROVE FALSE
  <2>1. PICK k \in DOMAIN fs : /\ fs[k].rec = r /\ Assembled(fs, k)
                               /\ k < Len(fs) /\ OnTrack(fs, k + 1)
    BY <1>6 DEF Partly
  <2>2. PICK t \in DOMAIN fs : t = k + 1
    <3>1. k + 1 \in DOMAIN fs
      BY <2>1, <1>3
    <3> QED BY <3>1
  <2>3. fs[t].rec = r
    <3>1. written[r].whole
      BY <2>1, DueFacts
    <3>2. InRecord(fs, k) /\ ~fs[k].end
      BY <2>1 DEF FileRight, RecordsRight, Assembled
    <3> QED BY <3>1, <3>2, <2>1, <2>2 DEF InRecord
  <2>4. reader.end <= fs[t].at /\ fs[t].at \in Nat
    BY <2>1, <2>2, <2>3, <1>4
  <2>5. Aligned(fs, t)
    <3>1. t <= t
      BY <1>3
    <3> QED BY <3>1, <2>3, DueFacts
  <2>6. fs[t].at = EndAt(fs[k]) \/ fs[t].at < EndAt(fs[k]) + HeaderSize
    BY <2>2, <2>5, <1>2, AlignedAt
  <2>7. EndAt(fs[k]) \in Nat /\ EndAt(fs[k]) <= At
    BY <2>1, <1>2, InLayout DEF Assembled
  <2>8. HeaderSize <= Len(reader.buffer)
    BY <1>1, <1>2, LogConstants DEF InLog!Ready
  <2> QED BY <2>4, <2>6, <2>7, <2>8, <1>2, LogConstants
<1>7. \A r \in InLog!Due : Awaited(fs, r) => Awaited(fs, r)'
  BY <1>5, <1>6 DEF Awaited
<1> QED BY <1>1, <1>7, DueKept

(* Where a fragment is passed.                                             *)
LEMMA ComesCloser ==
  ASSUME NEW fs, FileRight(fs), ReaderRight, NEW l, Behind(fs, l), NEW r \in InLog!Due,
         ToCome(fs, r)
  PROVE  ToCome(fs, r)' \/ (l \in DOMAIN fs /\ fs[l].rec = r /\ fs[l].begin)
<1>1. PICK k \in DOMAIN fs : fs[k].rec = r /\ fs[k].begin /\ OnTrack(fs, k)
  BY DEF ToCome
<1>2. CASE l = k
  BY <1>1, <1>2
<1>3. CASE l # k
  <2>1. OnTrack(fs, k)'
    BY <1>1, <1>3, PassesDue
  <2> QED BY <2>1, <1>1 DEF ToCome
<1> QED BY <1>2, <1>3

LEMMA SkipEarlyDue ==
  ASSUME NEW fs, FileRight(fs), ReaderRight, DueRight(fs), InLog!SkipEarly
  PROVE  DueRight(fs)'
<1>1. PICK l \in DOMAIN fs : Behind(fs, l) /\ read' = read /\ At < reader.initial
  BY SkipEarlyIs
<1>2. Moved(fs) /\ ~reader'.done /\ fs[l].at = At
  BY <1>1 DEF Behind, Here
<1>3. /\ Layout(fs) /\ At \in Nat /\ reader.initial \in Nat
  <2>1. Layout(fs) /\ At \in Nat /\ reader \in Reader
    BY Reading
  <2> QED BY <2>1 DEF Reader
<1>4. ASSUME NEW r \in InLog!Due, NEW t \in DOMAIN fs, fs[t].rec = r
      PROVE  At < fs[t].at /\ fs[t].at \in Nat
  <2>1. /\ reader.initial <= written[r].start /\ written[r].start <= fs[t].at
        /\ written[r] \in Record
    BY <1>4, DueFacts
  <2>2. written[r].start \in Nat /\ fs[t].at \in Nat
    BY <2>1, <1>3, InLayout DEF Record
  <2> QED BY <2>1, <2>2, <1>1, <1>3
<1>5. ASSUME NEW r \in InLog!Due, ToCome(fs, r) PROVE ToCome(fs, r)'
  <2>1. ToCome(fs, r)' \/ fs[l].rec = r
    BY <1>1, <1>5, ComesCloser
  <2>2. CASE fs[l].rec = r
    <3>1. At < fs[l].at
      BY <2>2, <1>4
    <3> QED BY <3>1, <1>2, <1>3
  <2> QED BY <2>1, <2>2
<1>6. ASSUME NEW r \in InLog!Due, Partly(fs, r) PROVE FALSE
  <2>1. fs[l].rec = r
    BY <1>1, <1>6, PassesPartly
  <2>2. At < fs[l].at
    BY <2>1, <1>4
  <2> QED BY <2>2, <1>2, <1>3
<1>7. \A r \in InLog!Due : Awaited(fs, r) => Awaited(fs, r)'
  BY <1>5, <1>6 DEF Awaited
<1> QED BY <1>1, <1>2, <1>7, DueKept

LEMMA ResyncDue ==
  ASSUME NEW fs, FileRight(fs), ReaderRight, DueRight(fs), InLog!Resync
  PROVE  DueRight(fs)'
<1>1. PICK l \in DOMAIN fs : Behind(fs, l) /\ read' = read /\ reader.resyncing /\ ~fs[l].begin
  BY ResyncIs
<1>2. Moved(fs) /\ ~reader'.done
  BY <1>1 DEF Behind
<1>5. ASSUME NEW r \in InLog!Due, ToCome(fs, r) PROVE ToCome(fs, r)'
  BY <1>1, <1>5, ComesCloser
<1>6. ASSUME NEW r \in InLog!Due, Partly(fs, r) PROVE FALSE
  BY <1>1, <1>6 DEF Partly
<1>7. \A r \in InLog!Due : Awaited(fs, r) => Awaited(fs, r)'
  BY <1>5, <1>6 DEF Awaited
<1> QED BY <1>1, <1>2, <1>7, DueKept

LEMMA FullRecordDue ==
  ASSUME NEW fs, FileRight(fs), ReaderRight, DueRight(fs), InLog!FullRecord
  PROVE  DueRight(fs)'
<1>1. PICK l \in DOMAIN fs :
        /\ Behind(fs, l) /\ fs[l].begin
        /\ read' = Append(read, InLog!Whole(fs[l].rec))
        /\ InLog!Whole(fs[l].rec) \in Payloads
  BY FullRecordIs
<1>2. Moved(fs) /\ ~reader'.done /\ LogStays
  BY <1>1 DEF Behind, Moved
<1>3. read \in Seq(Payloads)
  BY DEF ReaderRight
<1>4. PICK s \in Payloads : s = InLog!Whole(fs[l].rec)
  BY <1>1
<1>5. read' = Append(read, s)
  BY <1>1, <1>4
<1>6. /\ \A r : Found(r) => Found(r)'
      /\ \A r : s = InLog!Whole(r) => Found(r)'
  BY <1>2, <1>3, <1>5, FoundGrows
<1>7. ASSUME NEW r \in InLog!Due, Awaited(fs, r) PROVE Found(r)' \/ Awaited(fs, r)'
  <2>1. CASE ToCome(fs, r)
    <3>1. ToCome(fs, r)' \/ fs[l].rec = r
      BY <2>1, <1>1, ComesCloser
    <3>2. CASE fs[l].rec = r
      BY <3>2, <1>4, <1>6
    <3> QED BY <3>1, <3>2 DEF Awaited
  <2>2. CASE Partly(fs, r)
    BY <2>2, <1>1, PassesPartly
  <2> QED BY <2>1, <2>2, <1>7 DEF Awaited
<1> QED BY <1>2, <1>6, <1>7, IsDueRight

LEMMA FirstFragmentDue ==
  ASSUME NEW fs, FileRight(fs), ReaderRight, DueRight(fs), InLog!FirstFragment
  PROVE  DueRight(fs)'
<1>1. PICK l \in DOMAIN fs :
        /\ Behind(fs, l) /\ fs[l].begin /\ ~fs[l].end /\ read' = read
        /\ reader'.fragmented /\ ~reader'.resyncing
        /\ reader'.scratch = InLog!Payload(fs[l].rec, 0, fs[l].to)
  BY FirstFragmentIs
<1>2. Moved(fs) /\ ~reader'.done
  BY <1>1 DEF Behind
<1>3. ASSUME NEW r \in InLog!Due, Awaited(fs, r) PROVE Awaited(fs, r)'
  <2>1. CASE ToCome(fs, r)
    <3>1. ToCome(fs, r)' \/ fs[l].rec = r
      BY <2>1, <1>1, ComesCloser
    <3>2. CASE fs[l].rec = r
      <4>1. Partly(fs, r)'
        BY <3>2, <1>1, BeginsPartly
      <4> QED BY <4>1 DEF Awaited
    <3> QED BY <3>1, <3>2 DEF Awaited
  <2>2. CASE Partly(fs, r)
    BY <2>2, <1>1, PassesPartly
  <2> QED BY <2>1, <2>2, <1>3 DEF Awaited
<1> QED BY <1>1, <1>2, <1>3, DueKept

LEMMA NextFragmentDue ==
  ASSUME NEW fs, FileRight(fs), ReaderRight, DueRight(fs), InLog!NextFragment
  PROVE  DueRight(fs)'
<1>1. PICK l \in DOMAIN fs :
           /\ Behind(fs, l) /\ ~fs[l].begin /\ ~reader'.resyncing
           /\ ~reader.fragmented => read' = read /\ ~reader'.fragmented
           /\ reader.fragmented /\ ~fs[l].end =>
                /\ read' = read /\ reader'.fragmented
                /\ reader'.scratch = reader.scratch \o InLog!Payload(fs[l].rec, fs[l].from, fs[l].to)
           /\ reader.fragmented /\ fs[l].end =>
                /\ read' = Append(read, reader.scratch \o InLog!Payload(fs[l].rec, fs[l].from, fs[l].to))
                /\ ~reader'.fragmented
  BY NextFragmentIs
<1>2. Moved(fs) /\ ~reader'.done /\ LogStays /\ Here(fs, l)
  BY <1>1 DEF Behind, Moved
<1>3. ASSUME NEW r \in InLog!Due, ToCome(fs, r) PROVE ToCome(fs, r)'
  BY <1>1, <1>3, ComesCloser
<1>4. ASSUME NEW r \in InLog!Due, Partly(fs, r)
      PROVE  /\ reader.fragmented /\ fs[l].rec = r
             /\ reader.scratch \o InLog!Payload(fs[l].rec, fs[l].from, fs[l].to)
                  = InLog!Payload(fs[l].rec, 0, fs[l].to)
  BY <1>1, <1>4, PassesPartly
<1>5. CASE ~reader.fragmented
  <2>1. \A r \in InLog!Due : Awaited(fs, r) => Awaited(fs, r)'
    BY <1>3, <1>4, <1>5 DEF Awaited
  <2> QED BY <2>1, <1>1, <1>2, <1>5, DueKept
<1>6. CASE reader.fragmented /\ ~fs[l].end
  <2>1. ASSUME NEW r \in InLog!Due, Partly(fs, r) PROVE Partly(fs, r)'
    <3>1. reader'.scratch = InLog!Payload(fs[l].rec, 0, fs[l].to) /\ fs[l].rec = r
      BY <2>1, <1>1, <1>4, <1>6
    <3> QED BY <3>1, <1>1, <1>6, BeginsPartly
  <2>2. \A r \in InLog!Due : Awaited(fs, r) => Awaited(fs, r)'
    BY <2>1, <1>3 DEF Awaited
  <2> QED BY <2>2, <1>1, <1>2, <1>6, DueKept
<1>7. CASE reader.fragmented /\ fs[l].end
  <2>1. PICK s : s = reader.scratch \o InLog!Payload(fs[l].rec, fs[l].from, fs[l].to)
    OBVIOUS
  <2>2. read' = Append(read, s)
    BY <2>1, <1>1, <1>7
  <2>3. /\ InLog!Whole(fs[l].rec) = InLog!Payload(fs[l].rec, 0, fs[l].to)
    BY <1>2, <1>7, HereIs
  <2>4. read \in Seq(Payloads)
    BY DEF ReaderRight
  <2>5. s \in Payloads
    <3>1. reader \in Reader /\ InLog!Header.data \in Payloads
          /\ InLog!Header.data = InLog!Payload(fs[l].rec, fs[l].from, fs[l].to)
      BY <1>2, Reading, HereIs
    <3>2. reader.scratch \in Seq(Nat \X Nat) /\ InLog!Header.data \in Seq(Nat \X Nat)
      BY <3>1 DEF Reader, Payloads
    <3>3. s \in Seq(Nat \X Nat)
      BY <3>1, <3>2, <2>1, Joined
    <3> QED BY <3>3 DEF Payloads
  <2>6. /\ \A r : Found(r) => Found(r)'
        /\ \A r : s = InLog!Whole(r) => Found(r)'
    BY <2>2, <2>4, <2>5, <1>2, FoundGrows
  <2>7. ASSUME NEW r \in InLog!Due, Awaited(fs, r) PROVE Found(r)' \/ Awaited(fs, r)'
    <3>1. CASE ToCome(fs, r)
      BY <3>1, <1>3 DEF Awaited
    <3>2. CASE Partly(fs, r)
      <4>1. s = InLog!Whole(r)
        BY <3>2, <2>1, <2>3, <1>4
      <4> QED BY <4>1, <2>6
    <3> QED BY <3>1, <3>2, <2>7 DEF Awaited
  <2> QED BY <2>6, <2>7, <1>2, IsDueRight
<1> QED BY <1>5, <1>6, <1>7

-----------------------------------------------------------------------------
(* What is reported: nothing of a file that was only cut.                  *)
LEMMA QuietFacts ==
  ASSUME NEW fs, FileRight(fs), Quiet
  PROVE  \A i \in DOMAIN fs :
           /\ Aligned(fs, i) /\ Complete(fs[i]) /\ fs[i].at < EndAt(fs[i])
           /\ ~fs[i].end => i < Len(fs) /\ fs[i + 1].rec = fs[i].rec
<1> SUFFICES ASSUME NEW i \in DOMAIN fs
             PROVE  /\ Aligned(fs, i) /\ Complete(fs[i]) /\ fs[i].at < EndAt(fs[i])
                    /\ ~fs[i].end => i < Len(fs) /\ fs[i + 1].rec = fs[i].rec
  OBVIOUS
<1>1. Layout(fs) /\ RecordsRight(fs) /\ AlignedRight(fs)
  BY DEF FileRight
<1>2. Clean(fs[i].rec)
  BY DEF Quiet, Clean
<1>3. InRecord(fs, i)
  BY <1>1 DEF RecordsRight
<1>4. written[fs[i].rec].whole
  BY <1>1, <1>2, <1>3 DEF RecordsRight, InRecord
<1>5. Complete(fs[i]) /\ (~fs[i].end => i < Len(fs) /\ fs[i + 1].rec = fs[i].rec)
  BY <1>3, <1>4 DEF InRecord
<1>6. Aligned(fs, i)
  BY <1>1, <1>2 DEF AlignedRight
<1>7. /\ fs[i].at \in Nat /\ FullSize(fs[i]) \in Nat /\ HeaderSize <= FullSize(fs[i])
      /\ EndAt(fs[i]) = fs[i].at + FullSize(fs[i])
  BY <1>1, <1>5, InLayout
<1>8. fs[i].at < EndAt(fs[i])
  BY <1>7, LogConstants
<1> QED BY <1>5, <1>6, <1>8

LEMMA IsQuiet ==
  ASSUME NEW fs, Moved(fs),
         Quiet => /\ ~reader'.reported /\ ~reader'.resyncing
                  /\ reader'.done \/ \E k \in 0 .. Len(fs) : AfterFirst(fs, k)'
  PROVE  QuietRight(fs)'
<1>1. Quiet' <=> Quiet
  BY DEF Moved, LogStays, Quiet
<1> QED BY <1>1 DEF QuietRight

LEMMA QuietNow ==
  ASSUME NEW fs, Moved(fs), QuietRight(fs), Quiet
  PROVE  /\ ~reader.reported /\ ~reader.resyncing
         /\ \E k \in 0 .. Len(fs) : AfterFirst(fs, k)
BY DEF Moved, QuietRight

LEMMA QuietDone ==
  ASSUME NEW fs, Moved(fs), QuietRight(fs), Flags, reader'.done
  PROVE  QuietRight(fs)'
<1>1. Quiet => /\ ~reader'.reported /\ ~reader'.resyncing
               /\ reader'.done \/ \E k \in 0 .. Len(fs) : AfterFirst(fs, k)'
  BY QuietNow DEF Flags
<1> QED BY <1>1, IsQuiet

LEMMA ReadBlockQuiet ==
  ASSUME NEW fs, FileRight(fs), ReaderRight, QuietRight(fs), InLog!ReadBlock
  PROVE  QuietRight(fs)'
<1>1. /\ Moved(fs) /\ Flags /\ ~reader'.done
      /\ Len(reader.buffer) < HeaderSize /\ ~reader.eof
      /\ At' = reader.end /\ reader'.end \in Nat
  BY ReadBlockIs
<1>2. /\ Layout(fs) /\ At \in Nat /\ reader.end \in Nat /\ Len(reader.buffer) \in Nat
      /\ At + Len(reader.buffer) = reader.end /\ Len(log) \in Nat /\ reader.end <= Len(log)
  BY Reading
<1>3. Len(fs) \in Nat /\ DOMAIN fs = 1 .. Len(fs)
  BY <1>2, InLayout
<1>4. Multiple(reader.end) /\ log' = log
  BY <1>1 DEF ReaderRight, Moved, LogStays
<1> SUFFICES ASSUME Quiet
             PROVE  /\ ~reader'.reported /\ ~reader'.resyncing
                    /\ reader'.done \/ \E k \in 0 .. Len(fs) : AfterFirst(fs, k)'
  BY <1>1, IsQuiet
<1>5. PICK k \in 0 .. Len(fs) : AfterFirst(fs, k)
  BY <1>1, QuietNow
<1>6. ~reader'.reported /\ ~reader'.resyncing /\ reader'.fragmented = reader.fragmented
  BY <1>1, QuietNow DEF Flags
<1>7. IF k = 0 THEN ~reader'.fragmented
      ELSE EndAt(fs[k]) <= At' /\ (reader'.fragmented <=> ~fs[k].end)
  <2>1. CASE k = 0
    BY <2>1, <1>5, <1>6 DEF AfterFirst
  <2>2. CASE k # 0
    <3>1. k \in DOMAIN fs
      BY <2>2, <1>3
    <3>2. EndAt(fs[k]) \in Nat /\ EndAt(fs[k]) <= At /\ (reader.fragmented <=> ~fs[k].end)
      BY <2>2, <3>1, <1>2, <1>5, InLayout DEF AfterFirst
    <3>3. EndAt(fs[k]) <= At'
      BY <3>2, <1>1, <1>2
    <3> QED BY <2>2, <3>2, <3>3, <1>6
  <2> QED BY <2>1, <2>2
<1>8. CASE k < Len(fs)
  <2>1. PICK l \in DOMAIN fs : l = k + 1
    <3>1. k + 1 \in DOMAIN fs
      BY <1>3, <1>8
    <3> QED BY <3>1
  <2>2. NextIs(fs[l])
    BY <2>1, <1>5, <1>8 DEF AfterFirst
  <2>3. /\ fs[l].at \in Nat /\ FullSize(fs[l]) \in Nat /\ HeaderSize <= FullSize(fs[l])
        /\ Aligned(fs, l)
    BY <1>2, InLayout, QuietFacts
  <2>4. fs[l].at = At'
    <3>1. CASE fs[l].at = At
      <4>1. InBlock(At, At + FullSize(fs[l]))
        BY <3>1, <2>3 DEF Aligned
      <4>2. ~(At < reader.end)
        <5> SUFFICES ASSUME At < reader.end PROVE FALSE
          OBVIOUS
        <5>1. At + FullSize(fs[l]) <= reader.end
          BY <4>1, <2>3, <1>2, <1>4, FitsBefore
        <5> QED BY <5>1, <2>3, <1>1, <1>2, LogConstants
      <4> QED BY <4>2, <3>1, <1>1, <1>2
    <3>2. CASE /\ At < fs[l].at /\ reader.end <= fs[l].at /\ Multiple(fs[l].at)
               /\ fs[l].at < At + HeaderSize
      <4> DEFINE x == fs[l].at
      <4>1. x \in Nat /\ reader.end <= x /\ Multiple(x) /\ x < At + HeaderSize
        BY <3>2, <2>3
      <4> HIDE DEF x
      <4>2. ~(reader.end < x)
        <5> SUFFICES ASSUME reader.end < x PROVE FALSE
          OBVIOUS
        <5>1. reader.end + BlockSize <= x
          BY <4>1, <1>2, <1>4, MultiplesApart
        <5> QED BY <5>1, <4>1, <1>2, LogConstants
      <4>3. x = reader.end
        BY <4>1, <4>2, <1>2
      <4> QED BY <4>3, <1>1 DEF x
    <3> QED BY <3>1, <3>2, <2>2 DEF NextIs
  <2>5. NextIs(fs[l])'
    BY <2>4 DEF NextIs
  <2>6. AfterFirst(fs, k)'
    BY <2>1, <2>5, <1>7, <1>8 DEF AfterFirst
  <2> QED BY <2>6, <1>6
<1>9. CASE ~(k < Len(fs))
  <2>1. At = Len(log)
    BY <1>5, <1>9 DEF AfterFirst
  <2>2. At' = Len(log')
    BY <2>1, <1>1, <1>2, <1>4
  <2>3. AfterFirst(fs, k)'
    BY <2>2, <1>7, <1>9 DEF AfterFirst
  <2> QED BY <2>3, <1>6
<1> QED BY <1>8, <1>9

LEMMA EndOfFileQuiet ==
  ASSUME NEW fs, FileRight(fs), ReaderRight, QuietRight(fs), InLog!EndOfFile
  PROVE  QuietRight(fs)'
BY EndOfFileIs, QuietDone

LEMMA TruncatedQuiet ==
  ASSUME NEW fs, FileRight(fs), ReaderRight, QuietRight(fs), InLog!Truncated
  PROVE  QuietRight(fs)'
BY TruncatedIs, QuietDone

(* The reader is before a whole header, or at the end.                     *)
LEMMA BeforeNext ==
  ASSUME NEW fs, FileRight(fs), ReaderRight, Quiet, NEW k \in 0 .. Len(fs), AfterFirst(fs, k),
         HeaderSize <= Len(reader.buffer)
  PROVE  k < Len(fs) /\ fs[k + 1].at = At
<1>2. /\ Layout(fs) /\ At \in Nat /\ reader.end \in Nat /\ Len(reader.buffer) \in Nat
      /\ At + Len(reader.buffer) = reader.end /\ Len(log) \in Nat /\ reader.end <= Len(log)
  BY Reading
<1>3. Len(fs) \in Nat /\ DOMAIN fs = 1 .. Len(fs)
  BY <1>2, InLayout
<1>4. k < Len(fs)
  <2> SUFFICES ASSUME ~(k < Len(fs)) PROVE FALSE
    OBVIOUS
  <2>1. At = Len(log)
    BY DEF AfterFirst
  <2> QED BY <2>1, <1>2, LogConstants
<1>5. NextIs(fs[k + 1])
  BY <1>4 DEF AfterFirst
<1>6. fs[k + 1].at \in Nat
  <2>1. k + 1 \in DOMAIN fs
    BY <1>3, <1>4
  <2> QED BY <2>1, <1>2, InLayout
<1>7. fs[k + 1].at = At
  BY <1>2, <1>5, <1>6, LogConstants DEF NextIs
<1> QED BY <1>4, <1>7

LEMMA BadRecordQuiet ==
  ASSUME NEW fs, FileRight(fs), ReaderRight, QuietRight(fs), InLog!BadRecord
  PROVE  QuietRight(fs)'
<1>1. /\ Moved(fs) /\ InLog!Ready /\ ~InLog!Valid /\ ~(InLog!TooLong /\ reader.eof)
  BY BadRecordIs
<1>2. /\ Layout(fs) /\ At \in Nat /\ reader.end \in Nat /\ Len(reader.buffer) \in Nat
      /\ At + Len(reader.buffer) = reader.end
  BY Reading
<1>3. Len(fs) \in Nat /\ DOMAIN fs = 1 .. Len(fs)
  BY <1>2, InLayout
<1>4. ~Quiet
  <2> SUFFICES ASSUME Quiet PROVE FALSE
    OBVIOUS
  <2>1. PICK k \in 0 .. Len(fs) : AfterFirst(fs, k)
    BY <1>1, QuietNow
  <2>2. HeaderSize <= Len(reader.buffer)
    BY <1>1, <1>2, LogConstants DEF InLog!Ready
  <2>3. k < Len(fs) /\ fs[k + 1].at = At
    BY <2>1, <2>2, BeforeNext
  <2>4. PICK l \in DOMAIN fs : l = k + 1
    <3>1. k + 1 \in DOMAIN fs
      BY <2>3, <1>3
    <3> QED BY <3>1
  <2>5. fs[l].at = At
    BY <2>3, <2>4
  <2> DEFINE f == FullSize(fs[l])
  <2>6. /\ Aligned(fs, l) /\ Complete(fs[l]) /\ fs[l].at < EndAt(fs[l])
        /\ f \in Nat /\ HeaderSize <= f /\ EndAt(fs[l]) = At + f
    BY <2>5, <1>2, QuietFacts, InLayout
  <2>7. damaged = {}
    BY DEF Quiet
  <2>8. ~(EndAt(fs[l]) <= reader.end)
    BY <2>5, <2>6, <2>7, <1>1, ValidHere
  <2>9. InBlock(At, At + f)
    BY <2>5, <2>6 DEF Aligned
  <2>10. fs[l].size = f
    BY <2>6 DEF Complete
  <2> HIDE DEF f
  <2>11. At < reader.end
    BY <2>2, <1>2, LogConstants
  <2>12. ~Multiple(reader.end)
    <3> SUFFICES ASSUME Multiple(reader.end) PROVE FALSE
      OBVIOUS
    <3>1. At + f <= reader.end
      BY <2>6, <2>9, <2>11, <1>2, FitsBefore
    <3> QED BY <3>1, <2>6, <2>8
  <2>13. reader.eof
    BY <2>12 DEF ReaderRight
  <2>14. 0 < fs[l].size
    BY <2>6, <2>10, LogConstants
  <2>15. InLog!Header.kind = "head" /\ InLog!Extent = FullSize(fs[l])
    BY <2>5, <2>7, <2>14, <1>1, HeadHere
  <2>16. Len(reader.buffer) < f
    BY <2>6, <2>8, <1>2
  <2>17. InLog!TooLong
    BY <2>15, <2>16, <2>6, <1>2 DEF InLog!TooLong, f
  <2> QED BY <2>13, <2>17, <1>1
<1> QED BY <1>1, <1>4, IsQuiet

LEMMA SkipEarlyQuiet ==
  ASSUME NEW fs, FileRight(fs), ReaderRight, QuietRight(fs), InLog!SkipEarly
  PROVE  QuietRight(fs)'
<1>1. PICK l \in DOMAIN fs : Behind(fs, l) /\ At < reader.initial
  BY SkipEarlyIs
<1>2. Moved(fs) /\ At \in Nat
  BY <1>1 DEF Behind, Moved
<1>3. ~Quiet
  BY <1>1, <1>2 DEF Quiet
<1> QED BY <1>2, <1>3, IsQuiet

LEMMA ResyncQuiet ==
  ASSUME NEW fs, FileRight(fs), ReaderRight, QuietRight(fs), InLog!Resync
  PROVE  QuietRight(fs)'
<1>1. PICK l \in DOMAIN fs : Behind(fs, l) /\ reader.resyncing
  BY ResyncIs
<1>2. Moved(fs)
  BY <1>1 DEF Behind
<1>3. ~Quiet
  BY <1>1, <1>2, QuietNow
<1> QED BY <1>2, <1>3, IsQuiet

(* The fragment passed is the next one, and begins a record if the one     *)
(* before has ended.                                                       *)
LEMMA NextPassed ==
  ASSUME NEW fs, FileRight(fs), ReaderRight, Quiet, NEW k \in 0 .. Len(fs), AfterFirst(fs, k),
         NEW l, Behind(fs, l)
  PROVE  l = k + 1 /\ (fs[l].begin <=> ~reader.fragmented)
<1>1. /\ Layout(fs) /\ At \in Nat /\ reader.end \in Nat /\ Len(reader.buffer) \in Nat
      /\ At + Len(reader.buffer) = reader.end
  BY Reading
<1>2. Len(fs) \in Nat /\ DOMAIN fs = 1 .. Len(fs)
  BY <1>1, InLayout
<1>3. /\ l \in DOMAIN fs /\ fs[l].at = At /\ At < EndAt(fs[l]) /\ EndAt(fs[l]) <= reader.end
      /\ Complete(fs[l])
  BY DEF Behind, Here
<1>4. HeaderSize <= Len(reader.buffer)
  <2> DEFINE f == FullSize(fs[l])
  <2>1. f \in Nat /\ HeaderSize <= f /\ EndAt(fs[l]) = At + f
    BY <1>1, <1>3, InLayout
  <2> HIDE DEF f
  <2> QED BY <2>1, <1>1, <1>3, LogConstants
<1>5. k < Len(fs) /\ fs[k + 1].at = At
  BY <1>4, BeforeNext
<1>6. PICK m \in DOMAIN fs : m = k + 1
  <2>1. k + 1 \in DOMAIN fs
    BY <1>2, <1>5
  <2> QED BY <2>1
<1>7. l = m
  <2>1. fs[m].at = At /\ fs[m].at < EndAt(fs[m])
    BY <1>5, <1>6, QuietFacts
  <2>2. EndAt(fs[m]) \in Nat /\ EndAt(fs[l]) \in Nat
    BY <1>1, <1>3, InLayout
  <2>3. Within(At + 1, fs[m]) /\ Within(At + 1, fs[l]) /\ At + 1 \in Int
    BY <2>1, <2>2, <1>1, <1>3 DEF Within
  <2> QED BY <2>3, <1>1, <1>3, OneFragment
<1>8. CASE k = 0
  <2>1. ~reader.fragmented
    BY <1>8 DEF AfterFirst
  <2>2. fs # <<>>
    BY <1>2, <1>3
  <2>3. fs[l].begin
    BY <2>2, <1>1, <1>6, <1>7, <1>8 DEF Layout
  <2> QED BY <2>1, <2>3, <1>6, <1>7
<1>9. CASE k # 0
  <2>1. k \in DOMAIN fs /\ k \in 1 .. Len(fs) - 1 /\ l = k + 1 /\ k < l
    BY <1>2, <1>5, <1>6, <1>7, <1>9
  <2>2. reader.fragmented <=> ~fs[k].end
    BY <1>9 DEF AfterFirst
  <2>3. CASE ~fs[k].end
    <3>1. fs[l].rec = fs[k].rec
      BY <2>1, <2>3, QuietFacts
    <3>2. ~fs[l].begin
      BY <3>1, <2>1, <1>1, <1>3, LayoutOrder
    <3> QED BY <3>2, <2>1, <2>2, <2>3
  <2>4. CASE fs[k].end
    <3>1. Follows(fs[k], fs[l])
      BY <2>1, <1>1 DEF Layout
    <3>2. fs[l].begin
      BY <3>1, <2>4 DEF Follows
    <3> QED BY <3>2, <2>1, <2>2, <2>4
  <2> QED BY <2>3, <2>4
<1> QED BY <1>8, <1>9

LEMMA PassedNow ==
  ASSUME NEW fs, FileRight(fs), ReaderRight, Quiet, NEW l, Behind(fs, l),
         reader'.fragmented <=> ~fs[l].end
  PROVE  \E k \in 0 .. Len(fs) : AfterFirst(fs, k)'
<1>1. /\ Layout(fs) /\ At \in Nat /\ reader.end \in Nat
      /\ reader.end <= Len(log) /\ Len(log) \in Nat
  BY Reading
<1>2. Len(fs) \in Nat /\ DOMAIN fs = 1 .. Len(fs)
  BY <1>1, InLayout
<1>3. /\ l \in DOMAIN fs /\ fs[l].at = At /\ At < EndAt(fs[l]) /\ EndAt(fs[l]) <= reader.end
      /\ At' = EndAt(fs[l]) /\ reader'.end = reader.end /\ log' = log
  BY DEF Behind, Here, Moved, LogStays
<1>4. EndAt(fs[l]) \in Nat
  BY <1>1, <1>3, InLayout
<1>5. CASE l < Len(fs)
  <2>1. PICK m \in DOMAIN fs : m = l + 1
    <3>1. l + 1 \in DOMAIN fs
      BY <1>2, <1>3, <1>5
    <3> QED BY <3>1
  <2>2. Aligned(fs, m) /\ fs[m].at \in Nat
    BY <1>1, QuietFacts, InLayout
  <2>3. /\ EndAt(fs[l]) <= fs[m].at
        /\ fs[m].at = EndAt(fs[l]) \/ (Multiple(fs[m].at) /\ fs[m].at < EndAt(fs[l]) + HeaderSize)
    BY <2>1, <2>2, <1>1, <1>3, AlignedAt
  <2>6. NextIs(fs[m])'
    <3>1. CASE fs[m].at = EndAt(fs[l])
      BY <3>1, <1>3 DEF NextIs
    <3>2. CASE fs[m].at # EndAt(fs[l])
      <4> DEFINE x == fs[m].at
                 b == EndAt(fs[l])
      <4>1. /\ x \in Nat /\ b \in Nat /\ b <= x /\ x # b
            /\ Multiple(x) /\ x < b + HeaderSize
            /\ At < b
        BY <2>2, <2>3, <3>2, <1>3, <1>4
      <4> HIDE DEF x, b
      <4>2. At < x /\ b < x
        BY <4>1, <1>1
      <4>3. InBlock(At, reader.end)
        BY DEF ReaderRight
      <4>4. reader.end <= x
        BY <4>1, <4>2, <4>3, <1>1, NextBlock
      <4>5. /\ At' < fs[m].at /\ reader'.end <= fs[m].at /\ Multiple(fs[m].at)
            /\ fs[m].at < At' + HeaderSize
        BY <4>1, <4>2, <4>4, <1>3 DEF x, b
      <4> QED BY <4>5 DEF NextIs
    <3> QED BY <3>1, <3>2
  <2>7. l # 0 /\ EndAt(fs[l]) <= At' /\ NextIs(fs[l + 1])'
    BY <2>1, <2>6, <1>2, <1>3, <1>4
  <2>8. AfterFirst(fs, l)'
    BY <2>7, <1>5 DEF AfterFirst
  <2>9. l \in 0 .. Len(fs)
    BY <1>2, <1>3
  <2> QED BY <2>8, <2>9
<1>6. CASE ~(l < Len(fs))
  <2>1. l = Len(fs) /\ l \in 0 .. Len(fs) /\ l # 0 /\ fs # <<>>
    BY <1>2, <1>3, <1>6
  <2>2. Len(log) <= EndAt(fs[l])
    BY <2>1 DEF FileRight, CellsRight, LastEnd
  <2>3. At' = Len(log') /\ EndAt(fs[l]) <= At'
    BY <2>2, <1>1, <1>3, <1>4
  <2>4. AfterFirst(fs, l)'
    BY <2>1, <2>3, <1>6 DEF AfterFirst
  <2> QED BY <2>1, <2>4
<1> QED BY <1>5, <1>6

LEMMA FullRecordQuiet ==
  ASSUME NEW fs, FileRight(fs), ReaderRight, QuietRight(fs), InLog!FullRecord
  PROVE  QuietRight(fs)'
<1>1. PICK l \in DOMAIN fs :
           /\ Behind(fs, l) /\ fs[l].begin /\ fs[l].end
           /\ ~reader'.fragmented /\ ~reader'.resyncing
           /\ reader'.reported => reader.reported \/ reader.fragmented
  BY FullRecordIs
<1>2. Moved(fs)
  BY <1>1 DEF Behind
<1>3. ASSUME Quiet
      PROVE  ~reader'.reported /\ \E k \in 0 .. Len(fs) : AfterFirst(fs, k)'
  <2>1. ~reader.reported /\ \E k \in 0 .. Len(fs) : AfterFirst(fs, k)
    BY <1>2, <1>3, QuietNow
  <2>2. ~reader.fragmented
    BY <2>1, <1>1, <1>3, NextPassed
  <2>3. \E k \in 0 .. Len(fs) : AfterFirst(fs, k)'
    BY <1>1, <1>3, PassedNow
  <2> QED BY <2>1, <2>2, <2>3, <1>1
<1> QED BY <1>1, <1>2, <1>3, IsQuiet

LEMMA FirstFragmentQuiet ==
  ASSUME NEW fs, FileRight(fs), ReaderRight, QuietRight(fs), InLog!FirstFragment
  PROVE  QuietRight(fs)'
<1>1. PICK l \in DOMAIN fs :
           /\ Behind(fs, l) /\ fs[l].begin /\ ~fs[l].end
           /\ reader'.fragmented /\ ~reader'.resyncing
           /\ reader'.reported => reader.reported \/ reader.fragmented
  BY FirstFragmentIs
<1>2. Moved(fs)
  BY <1>1 DEF Behind
<1>3. ASSUME Quiet
      PROVE  ~reader'.reported /\ \E k \in 0 .. Len(fs) : AfterFirst(fs, k)'
  <2>1. ~reader.reported /\ \E k \in 0 .. Len(fs) : AfterFirst(fs, k)
    BY <1>2, <1>3, QuietNow
  <2>2. ~reader.fragmented
    BY <2>1, <1>1, <1>3, NextPassed
  <2>3. \E k \in 0 .. Len(fs) : AfterFirst(fs, k)'
    BY <1>1, <1>3, PassedNow
  <2> QED BY <2>1, <2>2, <2>3, <1>1
<1> QED BY <1>1, <1>2, <1>3, IsQuiet

LEMMA NextFragmentQuiet ==
  ASSUME NEW fs, FileRight(fs), ReaderRight, QuietRight(fs), InLog!NextFragment
  PROVE  QuietRight(fs)'
<1>1. PICK l \in DOMAIN fs :
           /\ Behind(fs, l) /\ ~fs[l].begin /\ ~reader'.resyncing
           /\ reader.fragmented => reader'.reported = reader.reported
           /\ reader.fragmented /\ ~fs[l].end => reader'.fragmented
           /\ reader.fragmented /\ fs[l].end => ~reader'.fragmented
  BY NextFragmentIs
<1>2. Moved(fs)
  BY <1>1 DEF Behind
<1>3. ASSUME Quiet
      PROVE  ~reader'.reported /\ \E k \in 0 .. Len(fs) : AfterFirst(fs, k)'
  <2>1. ~reader.reported /\ \E k \in 0 .. Len(fs) : AfterFirst(fs, k)
    BY <1>2, <1>3, QuietNow
  <2>2. reader.fragmented
    BY <2>1, <1>1, <1>3, NextPassed
  <2>3. reader'.fragmented <=> ~fs[l].end
    BY <2>2, <1>1
  <2>4. \E k \in 0 .. Len(fs) : AfterFirst(fs, k)'
    BY <2>3, <1>1, <1>3, PassedNow
  <2> QED BY <2>1, <2>2, <2>4, <1>1
<1> QED BY <1>1, <1>2, <1>3, IsQuiet

-----------------------------------------------------------------------------
(* The steps together.                                                     *)
LEMMA LogInvAgain ==
  ASSUME NEW fs \in Seq(Fragment), Moved(fs), ReadRight(fs)', DueRight(fs)', QuietRight(fs)'
  PROVE  LogInv'
BY DEF Moved, LogInv

LEMMA PieceKeeps ==
  ASSUME LogInv, InLog!ReadBlock \/ InLog!EndOfFile \/ InLog!BadRecord \/ InLog!Truncated
  PROVE  LogInv'
<1>1. PICK fs \in Seq(Fragment) :
        FileRight(fs) /\ ReaderRight /\ ReadRight(fs) /\ DueRight(fs) /\ QuietRight(fs)
  BY DEF LogInv
<1>2. CASE InLog!ReadBlock
  <2>1. Moved(fs)
    BY <1>1, <1>2, ReadBlockIs
  <2>2. ReadRight(fs)' /\ DueRight(fs)' /\ QuietRight(fs)'
    BY <1>1, <1>2, ReadBlockReads, ReadBlockDue, ReadBlockQuiet
  <2> QED BY <2>1, <2>2, LogInvAgain
<1>3. CASE InLog!EndOfFile
  <2>1. Moved(fs) /\ read' = read /\ reader'.done
    BY <1>1, <1>3, EndOfFileIs
  <2>2. ReadRight(fs)'
    BY <2>1, <1>1, ReadRightLeft
  <2>3. DueRight(fs)' /\ QuietRight(fs)'
    BY <1>1, <1>3, EndOfFileDue, EndOfFileQuiet
  <2> QED BY <2>1, <2>2, <2>3, LogInvAgain
<1>4. CASE InLog!BadRecord
  <2>1. Moved(fs) /\ read' = read /\ ~reader'.fragmented
    BY <1>1, <1>4, BadRecordIs
  <2>2. ReadRight(fs)'
    BY <2>1, <1>1, ReadRightLeft
  <2>3. DueRight(fs)' /\ QuietRight(fs)'
    BY <1>1, <1>4, BadRecordDue, BadRecordQuiet
  <2> QED BY <2>1, <2>2, <2>3, LogInvAgain
<1>5. CASE InLog!Truncated
  <2>1. Moved(fs) /\ read' = read /\ reader'.done
    BY <1>1, <1>5, TruncatedIs
  <2>2. ReadRight(fs)'
    BY <2>1, <1>1, ReadRightLeft
  <2>3. DueRight(fs)' /\ QuietRight(fs)'
    BY <1>1, <1>5, TruncatedDue, TruncatedQuiet
  <2> QED BY <2>1, <2>2, <2>3, LogInvAgain
<1> QED BY <1>2, <1>3, <1>4, <1>5

LEMMA FragmentKeeps ==
  ASSUME LogInv, InLog!SkipEarly \/ InLog!Resync \/ InLog!FullRecord \/ InLog!FirstFragment \/ InLog!NextFragment
  PROVE  LogInv'
<1>1. PICK fs \in Seq(Fragment) :
        FileRight(fs) /\ ReaderRight /\ ReadRight(fs) /\ DueRight(fs) /\ QuietRight(fs)
  BY DEF LogInv
<1>2. CASE InLog!SkipEarly
  <2>1. Moved(fs) /\ read' = read /\ ~reader'.fragmented
    BY <1>1, <1>2, SkipEarlyIs DEF Behind
  <2>2. ReadRight(fs)'
    BY <2>1, <1>1, ReadRightLeft
  <2>3. DueRight(fs)' /\ QuietRight(fs)'
    BY <1>1, <1>2, SkipEarlyDue, SkipEarlyQuiet
  <2> QED BY <2>1, <2>2, <2>3, LogInvAgain
<1>3. CASE InLog!Resync
  <2>1. Moved(fs) /\ read' = read /\ ~reader'.fragmented
    BY <1>1, <1>3, ResyncIs DEF Behind
  <2>2. ReadRight(fs)'
    BY <2>1, <1>1, ReadRightLeft
  <2>3. DueRight(fs)' /\ QuietRight(fs)'
    BY <1>1, <1>3, ResyncDue, ResyncQuiet
  <2> QED BY <2>1, <2>2, <2>3, LogInvAgain
<1>4. CASE InLog!FullRecord
  <2>1. Moved(fs)
    BY <1>1, <1>4, FullRecordIs DEF Behind
  <2>2. ReadRight(fs)' /\ DueRight(fs)' /\ QuietRight(fs)'
    BY <1>1, <1>4, FullRecordReads, FullRecordDue, FullRecordQuiet
  <2> QED BY <2>1, <2>2, LogInvAgain
<1>5. CASE InLog!FirstFragment
  <2>1. Moved(fs)
    BY <1>1, <1>5, FirstFragmentIs DEF Behind
  <2>2. ReadRight(fs)' /\ DueRight(fs)' /\ QuietRight(fs)'
    BY <1>1, <1>5, FirstFragmentReads, FirstFragmentDue, FirstFragmentQuiet
  <2> QED BY <2>1, <2>2, LogInvAgain
<1>6. CASE InLog!NextFragment
  <2>1. Moved(fs)
    BY <1>1, <1>6, NextFragmentIs DEF Behind
  <2>2. ReadRight(fs)' /\ DueRight(fs)' /\ QuietRight(fs)'
    BY <1>1, <1>6, NextFragmentReads, NextFragmentDue, NextFragmentQuiet
  <2> QED BY <2>1, <2>2, LogInvAgain
<1> QED BY <1>2, <1>3, <1>4, <1>5, <1>6

LEMMA LogNextStep ==
  ASSUME LogInv, InLog!Next
  PROVE  LogInv'
<1>1. ASSUME NEW n \in Lengths, InLog!AddRecord(n) PROVE LogInv'
  BY <1>1, AddRecordKeeps
<1>2. ASSUME NEW n \in Lengths, InLog!TornRecord(n) PROVE LogInv'
  BY <1>2, TornRecordKeeps
<1>3. CASE InLog!Cut
  BY <1>3, CutKeeps
<1>4. CASE InLog!Damage
  BY <1>4, DamageKeeps
<1>5. CASE InLog!OpenAtStart \/ InLog!OpenLater
  BY <1>5, OpenKeeps
<1>6. CASE InLog!ReadBlock \/ InLog!EndOfFile \/ InLog!BadRecord \/ InLog!Truncated
  BY <1>6, PieceKeeps
<1>7. CASE InLog!SkipEarly \/ InLog!Resync \/ InLog!FullRecord \/ InLog!FirstFragment \/ InLog!NextFragment
  BY <1>7, FragmentKeeps
<1> QED BY <1>1, <1>2, <1>3, <1>4, <1>5, <1>6, <1>7 DEF InLog!Next

LEMMA LogStutters ==
  ASSUME LogInv, UNCHANGED inLog
  PROVE  LogInv'
<1>1. /\ log' = log /\ blockOffset' = blockOffset /\ written' = written /\ torn' = torn
      /\ damaged' = damaged /\ reader' = reader /\ read' = read
  BY DEF inLog
<1>2. PICK fs \in Seq(Fragment) :
        FileRight(fs) /\ ReaderRight /\ ReadRight(fs) /\ DueRight(fs) /\ QuietRight(fs)
  BY DEF LogInv
<1>3. FileRight(fs)'
  BY <1>1, <1>2, FileStays DEF LogStays
<1>4. ReaderRight'
  BY <1>1, <1>2 DEF ReaderRight, At, InBlock, Multiple, InLog!NoReader
<1>5. ReadRight(fs)'
  <2>1. PICK rs : /\ RsRight(fs, rs)
                  /\ reader.fragmented /\ ~reader.done => \E j \in DOMAIN fs : InProgress(fs, rs, j)
    BY <1>2, ReadRightIs
  <2>2. LogStays /\ Layout(fs) /\ At \in Nat /\ At' \in Nat /\ At <= At'
    <3>1. Layout(fs) /\ At \in Nat
      BY <1>2, Reading
    <3>2. At' = At
      BY <1>1 DEF At
    <3> QED BY <3>1, <3>2, <1>1 DEF LogStays
  <2>3. RsRight(fs, rs)'
    BY <2>1, <2>2, <1>1, RsKept
  <2>4. \A j \in DOMAIN fs : InProgress(fs, rs, j) => InProgress(fs, rs, j)'
    BY <1>1 DEF InProgress, Assembled, NoneLost, Passed, Earlier, At, InLog!Payload
  <2>5. reader'.fragmented /\ ~reader'.done => \E j \in DOMAIN fs : InProgress(fs, rs, j)'
    BY <2>1, <2>4, <1>1
  <2> QED BY <2>3, <2>5, IsReadRight
<1>6. InLog!Due' = InLog!Due
  BY <1>1 DEF InLog!Due, InLog!BlocksOf
<1>7. DueRight(fs)'
  BY <1>1, <1>2, <1>6
     DEF DueRight, Found, ToCome, Partly, OnTrack, Assembled, At, InLog!Whole, InLog!Payload
<1>8. QuietRight(fs)'
  BY <1>1, <1>2 DEF QuietRight, Quiet, AfterFirst, NextIs, Multiple, At
<1> QED BY <1>2, <1>3, <1>4, <1>5, <1>7, <1>8 DEF LogInv

LEMMA LogInvReplays ==
  ASSUME LogInv
  PROVE  InLog!LogIsReplayed
<1>1. PICK fs \in Seq(Fragment) :
        FileRight(fs) /\ ReaderRight /\ ReadRight(fs) /\ DueRight(fs) /\ QuietRight(fs)
  BY DEF LogInv
<1>2. \E rs \in [DOMAIN read -> DOMAIN written] :
       /\ \A i, j \in DOMAIN read : i < j => rs[i] < rs[j]
       /\ \A i \in DOMAIN read : read[i] = InLog!Whole(rs[i])
  BY <1>1 DEF ReadRight, Returned
<1>3. reader.done => reader.on
  BY <1>1 DEF ReaderRight, InLog!NoReader
<1>4. reader.done => \A r \in InLog!Due : \E i \in DOMAIN read : read[i] = InLog!Whole(r)
  BY <1>1, <1>3 DEF DueRight, Found
<1>5. reader.done /\ torn = 0 /\ damaged = {} /\ reader.initial = 0 => ~reader.reported
  BY <1>1, <1>3 DEF QuietRight, Quiet
<1> QED BY <1>2, <1>4, <1>5 DEF InLog!LogIsReplayed

LEMMA LogInStorage ==
  ASSUME [Next]_vars
  PROVE  InLog!Next \/ UNCHANGED inLog
BY DEF Next, vars

(* LogInv is inductive: every append, whole or torn, every cut, damage and *)
(* opening, and every step of the Reader keeps it.                         *)
THEOREM LogInvHolds == Spec => []LogInv
<1>1. Init => LogInv
  BY LogStarts DEF Init
<1>2. LogInv /\ [Next]_vars => LogInv'
  BY LogInStorage, LogNextStep, LogStutters
<1> QED BY <1>1, <1>2, PTL DEF Spec

(* A Reader returns whole records and only written ones, in their order,   *)
(* misses none of those before a torn append, in undamaged blocks and      *)
(* before the end of the file, and reports nothing of a file that was only *)
(* cut, for any sizes of blocks and headers, any lengths and any faults.   *)
THEOREM LogStaysReadable == Spec => []LogIsReplayed
<1>1. LogInv => LogIsReplayed
  BY LogInvReplays DEF LogIsReplayed
<1> QED BY <1>1, LogInvHolds, PTL
==============================================================================
