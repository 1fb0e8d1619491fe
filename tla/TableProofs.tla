---------------------------- MODULE TableProofs -----------------------------
(***************************************************************************)
(* Theorems of a table file (Table), for all keys, bytes and intervals,    *)
(* and, with those of the other parts (StorageProofs, LogProofs), that     *)
(* every part of MCStorage keeps its types.                                *)
(*                                                                         *)
(* Packs says that a block gives back the keys it was built from.          *)
(* TableInv says that the blocks of a table hold the keys one after the    *)
(* other, that each key of the index divides a block from the next, that   *)
(* a block's user keys are in the filter of its offset, and that the       *)
(* iterator is at its place in the keys.                                   *)
(***************************************************************************)
EXTENDS StorageProofs, LogProofs

-----------------------------------------------------------------------------
(* Blocks of a table file.                                                 *)

(* Keys: the bytes of a user key and a sequence number, in their order.    *)

TKeys == Seq(Nat) \ {<<>>}

(* From the byte behind the first n on, a is before b.                     *)
Differ(a, b, n) ==
  /\ n <= Len(a) /\ n < Len(b)
  /\ \A j \in 1 .. n : a[j] = b[j]
  /\ n < Len(a) => a[n + 1] < b[n + 1]
Smaller(a, b) == \E n \in Nat : Differ(a, b, n)

LEMMA TableMin ==
  ASSUME NEW n \in Nat, NEW S \in SUBSET (0 .. n), S # {}
  PROVE  InTable!Min(S) \in S /\ \A k \in S : InTable!Min(S) <= k
<1>1. PICK m \in S : \A k \in S : m <= k
  BY LeastOf
<1> QED BY <1>1 DEF InTable!Min

LEMMA TableMax ==
  ASSUME NEW n \in Nat, NEW S \in SUBSET (0 .. n), S # {}
  PROVE  InTable!Max(S) \in S /\ \A k \in S : k <= InTable!Max(S)
<1> DEFINE R == {k \in 0 .. n : n - k \in S}
<1>1. R \in SUBSET (0 .. n) /\ R # {}
  <2>1. PICK k \in S : TRUE
    OBVIOUS
  <2>2. n - k \in 0 .. n /\ n - (n - k) = k
    OBVIOUS
  <2> QED BY <2>2
<1>2. PICK m \in R : \A k \in R : m <= k
  BY <1>1, LeastOf
<1>3. n - m \in S /\ \A k \in S : k <= n - m
  <2>1. ASSUME NEW k \in S PROVE k <= n - m
    <3>1. n - k \in R
      <4>1. k \in 0 .. n /\ n - k \in 0 .. n /\ n - (n - k) = k
        OBVIOUS
      <4> QED BY <4>1
    <3>2. m <= n - k /\ m \in 0 .. n /\ k \in 0 .. n
      BY <3>1, <1>2
    <3> QED BY <3>2
  <2> QED BY <2>1
<1> HIDE DEF R
<1>4. \E x \in S : \A y \in S : x >= y
  BY <1>3
<1>5. InTable!Max(S) \in S /\ \A y \in S : InTable!Max(S) >= y
  BY <1>4 DEF InTable!Max
<1> QED BY <1>5

LEMMA SharedIs ==
  ASSUME NEW a \in Seq(Nat), NEW b \in Seq(Nat)
  PROVE  /\ InTable!SharedPrefix(a, b) \in Nat
         /\ InTable!SharedPrefix(a, b) <= Len(a) /\ InTable!SharedPrefix(a, b) <= Len(b)
         /\ \A j \in 1 .. InTable!SharedPrefix(a, b) : a[j] = b[j]
         /\ InTable!SharedPrefix(a, b) < Len(a) /\ InTable!SharedPrefix(a, b) < Len(b)
            => a[InTable!SharedPrefix(a, b) + 1] # b[InTable!SharedPrefix(a, b) + 1]
         /\ InTable!SharedPrefix(a, b) < InTable!Min({Len(a), Len(b)}) <=>
                    /\ InTable!SharedPrefix(a, b) < Len(a)
                    /\ InTable!SharedPrefix(a, b) < Len(b)
<1> DEFINE n == InTable!Min({Len(a), Len(b)})
           S == {i \in 0 .. n : \A j \in 1 .. i : a[j] = b[j]}
<1>1. Len(a) \in Nat /\ Len(b) \in Nat
  OBVIOUS
<1>2. /\ n \in Nat /\ n <= Len(a) /\ n <= Len(b) /\ n \in {Len(a), Len(b)}
  <2>1. {Len(a), Len(b)} \in SUBSET (0 .. Len(a) + Len(b)) /\ Len(a) + Len(b) \in Nat
    BY <1>1
  <2> QED BY <1>1, <2>1, TableMin
<1>3. 0 \in S /\ S \in SUBSET (0 .. n)
  BY <1>2
<1>4. InTable!SharedPrefix(a, b) = InTable!Max(S)
  BY DEF InTable!SharedPrefix
<1> DEFINE m == InTable!Max(S)
<1>5. m \in S /\ \A k \in S : k <= m
  BY <1>2, <1>3, TableMax
<1>6. m \in 0 .. n /\ \A j \in 1 .. m : a[j] = b[j]
  BY <1>5
<1>7. ASSUME m < Len(a), m < Len(b) PROVE a[m + 1] # b[m + 1]
  <2> SUFFICES ASSUME a[m + 1] = b[m + 1] PROVE FALSE
    OBVIOUS
  <2>1. m + 1 \in 0 .. n
    BY <1>1, <1>2, <1>6, <1>7
  <2> HIDE DEF m, n
  <2>2. \A j \in 1 .. m + 1 : a[j] = b[j]
    BY <1>2, <1>6
  <2>3. m + 1 \in S
    BY <2>1, <2>2
  <2>4. m \in Int /\ m + 1 <= m
    <3> HIDE DEF S
    <3> QED BY <1>5, <1>6, <2>3
  <2> QED BY <2>4
<1> HIDE DEF m, S, n
<1> USE DEF m
<1>8. m \in Nat /\ m <= Len(a) /\ m <= Len(b)
  BY <1>1, <1>2, <1>6
<1>9. m < n <=> m < Len(a) /\ m < Len(b)
  BY <1>1, <1>2, <1>8
<1> QED BY <1>4, <1>6, <1>7, <1>8, <1>9 DEF n

LEMMA BytesBeforeIs ==
  ASSUME NEW a \in Seq(Nat), NEW b \in Seq(Nat)
  PROVE  InTable!BytesBefore(a, b) <=> Smaller(a, b)
<1> DEFINE n == InTable!SharedPrefix(a, b)
<1>1. /\ n \in Nat /\ n <= Len(a) /\ n <= Len(b)
      /\ \A j \in 1 .. n : a[j] = b[j]
      /\ n < Len(a) /\ n < Len(b) => a[n + 1] # b[n + 1]
  BY SharedIs
<1>2. Len(a) \in Nat /\ Len(b) \in Nat
  OBVIOUS
<1>3. \A i \in 1 .. Len(a) : a[i] \in Nat
  OBVIOUS
<1>4. \A i \in 1 .. Len(b) : b[i] \in Nat
  OBVIOUS
<1>5. InTable!BytesBefore(a, b) <=> IF n = Len(a) THEN n < Len(b) ELSE n < Len(b) /\ a[n + 1] < b[n + 1]
  BY DEF InTable!BytesBefore
<1> HIDE DEF n
<1>6. ASSUME InTable!BytesBefore(a, b) PROVE Smaller(a, b)
  <2>1. Differ(a, b, n)
    BY <1>1, <1>2, <1>5, <1>6 DEF Differ
  <2> QED BY <1>1, <2>1 DEF Smaller
<1>7. ASSUME Smaller(a, b) PROVE InTable!BytesBefore(a, b)
  <2>1. PICK m \in Nat : Differ(a, b, m)
    BY <1>7 DEF Smaller
  <2>2. /\ m <= Len(a) /\ m < Len(b) /\ \A j \in 1 .. m : a[j] = b[j]
        /\ m < Len(a) => a[m + 1] < b[m + 1]
    BY <2>1 DEF Differ
  <2>3. ~(n < m)
    <3> SUFFICES ASSUME n < m PROVE FALSE
      OBVIOUS
    <3>1. n + 1 \in 1 .. m /\ n < Len(a) /\ n < Len(b)
      BY <1>1, <1>2, <2>2
    <3> QED BY <1>1, <2>2, <3>1
  <2>4. ~(m < n)
    <3> SUFFICES ASSUME m < n PROVE FALSE
      OBVIOUS
    <3>1. m + 1 \in 1 .. n /\ m < Len(a) /\ m + 1 \in 1 .. Len(a)
      BY <1>1, <1>2, <2>2
    <3>2. a[m + 1] \in Nat /\ a[m + 1] = b[m + 1] /\ a[m + 1] < b[m + 1]
      BY <1>1, <1>3, <2>2, <3>1
    <3> QED BY <3>2
  <2>5. m = n
    BY <1>1, <2>3, <2>4
  <2> QED BY <1>1, <1>2, <1>5, <2>2, <2>5
<1> QED BY <1>6, <1>7

LEMMA SmallerTrans ==
  ASSUME NEW a \in Seq(Nat), NEW b \in Seq(Nat), NEW c \in Seq(Nat),
         Smaller(a, b), Smaller(b, c)
  PROVE  Smaller(a, c)
<1>1. PICK m \in Nat : Differ(a, b, m)
  BY DEF Smaller
<1>2. PICK n \in Nat : Differ(b, c, n)
  BY DEF Smaller
<1>3. /\ m <= Len(a) /\ m < Len(b) /\ \A j \in 1 .. m : a[j] = b[j]
      /\ m < Len(a) => a[m + 1] < b[m + 1]
  BY <1>1 DEF Differ
<1>4. /\ n <= Len(b) /\ n < Len(c) /\ \A j \in 1 .. n : b[j] = c[j]
      /\ n < Len(b) => b[n + 1] < c[n + 1]
  BY <1>2 DEF Differ
<1>5. /\ Len(a) \in Nat /\ Len(b) \in Nat /\ Len(c) \in Nat
  OBVIOUS
<1>6. \A i \in 1 .. Len(a) : a[i] \in Nat
  OBVIOUS
<1>7. \A i \in 1 .. Len(b) : b[i] \in Nat
  OBVIOUS
<1>8. \A i \in 1 .. Len(c) : c[i] \in Nat
  OBVIOUS
<1>9. CASE m < n
  <2>1. Differ(a, c, m)
    <3>1. m < Len(c) /\ \A j \in 1 .. m : a[j] = c[j]
      BY <1>3, <1>4, <1>5, <1>9
    <3>2. m + 1 \in 1 .. n
      BY <1>9
    <3>3. b[m + 1] = c[m + 1]
      BY <3>2, <1>4
    <3> QED BY <1>3, <3>1, <3>3 DEF Differ
  <2> QED BY <2>1 DEF Smaller
<1>10. CASE n < m
  <2>1. n + 1 \in 1 .. m /\ n < Len(a) /\ n < Len(b)
    BY <1>3, <1>5, <1>10
  <2>2. a[n + 1] = b[n + 1] /\ b[n + 1] < c[n + 1]
    BY <2>1, <1>3, <1>4
  <2>3. \A j \in 1 .. n : a[j] = c[j]
    BY <1>3, <1>4, <1>10
  <2>4. Differ(a, c, n)
    BY <1>4, <2>1, <2>2, <2>3 DEF Differ
  <2> QED BY <2>4 DEF Smaller
<1>11. CASE m = n
  <2>1. n < Len(b) /\ \A j \in 1 .. n : a[j] = c[j]
    BY <1>3, <1>4, <1>11
  <2>2. n < Len(a) => a[n + 1] < c[n + 1]
    <3> SUFFICES ASSUME n < Len(a) PROVE a[n + 1] < c[n + 1]
      OBVIOUS
    <3>1. n + 1 \in 1 .. Len(a) /\ n + 1 \in 1 .. Len(b) /\ n + 1 \in 1 .. Len(c)
      BY <1>4, <1>5, <2>1
    <3>2. a[n + 1] \in Nat /\ b[n + 1] \in Nat /\ c[n + 1] \in Nat
      BY <3>1, <1>6, <1>7, <1>8
    <3>3. a[n + 1] < b[n + 1] /\ b[n + 1] < c[n + 1]
      BY <1>3, <1>4, <1>11, <2>1
    <3> QED BY <3>2, <3>3
  <2>3. Differ(a, c, n)
    BY <1>3, <1>4, <1>11, <2>1, <2>2 DEF Differ
  <2> QED BY <2>3 DEF Smaller
<1> QED BY <1>9, <1>10, <1>11

LEMMA SmallerIrreflexive ==
  ASSUME NEW a \in Seq(Nat)
  PROVE  ~Smaller(a, a)
<1> SUFFICES ASSUME NEW m \in Nat, Differ(a, a, m) PROVE FALSE
  BY DEF Smaller
<1>1. m < Len(a) /\ a[m + 1] < a[m + 1] /\ Len(a) \in Nat
  BY DEF Differ
<1>2. m + 1 \in 1 .. Len(a)
  BY <1>1
<1>3. a[m + 1] \in Nat
  BY <1>2
<1> QED BY <1>1, <1>3

LEMMA SmallerTotal ==
  ASSUME NEW a \in Seq(Nat), NEW b \in Seq(Nat)
  PROVE  a = b \/ Smaller(a, b) \/ Smaller(b, a)
<1> DEFINE n == InTable!SharedPrefix(a, b)
<1>1. /\ n \in Nat /\ n <= Len(a) /\ n <= Len(b)
      /\ \A j \in 1 .. n : a[j] = b[j]
      /\ n < Len(a) /\ n < Len(b) => a[n + 1] # b[n + 1]
  BY SharedIs
<1>2. Len(a) \in Nat /\ Len(b) \in Nat
  OBVIOUS
<1>3. \A i \in 1 .. Len(a) : a[i] \in Nat
  OBVIOUS
<1>4. \A i \in 1 .. Len(b) : b[i] \in Nat
  OBVIOUS
<1> HIDE DEF n
<1>5. CASE n = Len(a) /\ n = Len(b)
  <2>1. Len(a) = Len(b) /\ \A j \in 1 .. Len(a) : a[j] = b[j]
    BY <1>1, <1>5
  <2>2. a = b
    BY <2>1, SeqEqual
  <2> QED BY <2>2
<1>6. CASE n < Len(b) /\ (n = Len(a) \/ a[n + 1] < b[n + 1])
  <2>1. Differ(a, b, n)
    BY <1>1, <1>2, <1>6 DEF Differ
  <2> QED BY <1>1, <2>1 DEF Smaller
<1>7. CASE n < Len(a) /\ (n = Len(b) \/ b[n + 1] < a[n + 1])
  <2>1. Differ(b, a, n)
    BY <1>1, <1>2, <1>7 DEF Differ
  <2> QED BY <1>1, <2>1 DEF Smaller
<1>8. n < Len(a) /\ n < Len(b) => a[n + 1] \in Nat /\ b[n + 1] \in Nat
  BY <1>1, <1>2, <1>3, <1>4
<1> QED BY <1>1, <1>2, <1>5, <1>6, <1>7, <1>8

-----------------------------------------------------------------------------
LEMMA TableConstants ==
  /\ MaxByte \in Nat /\ MaxSeq \in Nat
  /\ RestartInterval \in Nat \ {0} /\ FilterBase \in Nat \ {0}
  /\ TableUserKeys \subseteq Seq(Nat) \ {<<>>}
<1>1. /\ MaxByte \in Nat /\ MaxSeq \in Nat
      /\ RestartInterval \in Nat \ {0} /\ FilterBase \in Nat \ {0}
      /\ TableUserKeys \subseteq Seq(0 .. MaxByte) \ {<<>>}
  BY StorageAssumption DEF InTable!TableAssumption
<1>2. ASSUME NEW s \in Seq(0 .. MaxByte) PROVE s \in Seq(Nat)
  BY <1>1
<1> QED BY <1>1, <1>2

LEMMA PartIs ==
  ASSUME NEW S, NEW s \in Seq(S), NEW m \in 1 .. Len(s) + 1, NEW n \in m - 1 .. Len(s)
  PROVE  /\ SubSeq(s, m, n) \in Seq(S) /\ Len(SubSeq(s, m, n)) = n - m + 1
         /\ \A i \in 1 .. n - m + 1 : SubSeq(s, m, n)[i] = s[m + i - 1]
<1>1. Len(s) \in Nat /\ \A i \in 1 .. Len(s) : s[i] \in S
  OBVIOUS
<1>2. m \in Int /\ n \in Int /\ \A i \in m .. n : s[i] \in S
  BY <1>1
<1>3. /\ SubSeq(s, m, n) \in Seq(S)
      /\ Len(SubSeq(s, m, n)) = IF m <= n THEN n - m + 1 ELSE 0
      /\ \A i \in 1 .. n - m + 1 : SubSeq(s, m, n)[i] = s[m + i - 1]
  BY <1>2, SubSeqProperties
<1> QED BY <1>1, <1>3

LEMMA TKeyIs ==
  ASSUME NEW k \in TKeys
  PROVE  /\ InTable!ExtractUserKey(k) \in Seq(Nat) /\ InTable!Last(k) \in Nat
         /\ Len(k) \in Nat \ {0} /\ Len(InTable!ExtractUserKey(k)) = Len(k) - 1
         /\ \A i \in 1 .. Len(k) - 1 : InTable!ExtractUserKey(k)[i] = k[i]
         /\ InTable!Last(k) = k[Len(k)]
<1>1. k \in Seq(Nat) /\ k # <<>> /\ Len(k) \in Nat \ {0}
  BY DEF TKeys
<1>2. InTable!ExtractUserKey(k) = SubSeq(k, 1, Len(k) - 1) /\ InTable!Last(k) = k[Len(k)]
  BY DEF InTable!ExtractUserKey, InTable!Front, InTable!Last
<1>3. \A i \in 1 .. Len(k) : k[i] \in Nat
  BY <1>1
<1>4. k[Len(k)] \in Nat
  BY <1>1, <1>3
<1>5. /\ SubSeq(k, 1, Len(k) - 1) \in Seq(Nat)
      /\ Len(SubSeq(k, 1, Len(k) - 1)) = Len(k) - 1
      /\ \A i \in 1 .. Len(k) - 1 : SubSeq(k, 1, Len(k) - 1)[i] = k[i]
  <2> DEFINE n == Len(k) - 1
  <2>1. n \in 0 .. Len(k) /\ 1 \in 1 .. Len(k) + 1 /\ n - 1 + 1 = n
    BY <1>1
  <2> HIDE DEF n
  <2>2. /\ SubSeq(k, 1, n) \in Seq(Nat) /\ Len(SubSeq(k, 1, n)) = n
        /\ \A i \in 1 .. n : SubSeq(k, 1, n)[i] = k[i]
    BY <1>1, <2>1
  <2> QED BY <2>2 DEF n
<1> QED BY <1>1, <1>2, <1>4, <1>5

LEMMA TKeySame ==
  ASSUME NEW a \in TKeys, NEW b \in TKeys,
         InTable!ExtractUserKey(a) = InTable!ExtractUserKey(b), InTable!Last(a) = InTable!Last(b)
  PROVE  a = b
<1>1. /\ Len(a) \in Nat \ {0} /\ Len(b) \in Nat \ {0}
      /\ Len(InTable!ExtractUserKey(a)) = Len(a) - 1
      /\ Len(InTable!ExtractUserKey(b)) = Len(b) - 1
      /\ \A i \in 1 .. Len(a) - 1 : InTable!ExtractUserKey(a)[i] = a[i]
      /\ \A i \in 1 .. Len(b) - 1 : InTable!ExtractUserKey(b)[i] = b[i]
      /\ InTable!Last(a) = a[Len(a)] /\ InTable!Last(b) = b[Len(b)]
  BY TKeyIs
<1>2. Len(a) = Len(b)
  BY <1>1
<1>3. \A i \in 1 .. Len(a) - 1 : a[i] = b[i]
  BY <1>1, <1>2
<1>4. a[Len(a)] = b[Len(a)]
  BY <1>1, <1>2
<1>5. \A i \in 1 .. Len(a) : a[i] = b[i]
  BY <1>1, <1>3, <1>4
<1>6. a \in Seq(Nat) /\ b \in Seq(Nat)
  BY DEF TKeys
<1> QED BY <1>2, <1>5, <1>6

LEMMA TKeyMade ==
  ASSUME NEW u \in Seq(Nat), NEW s \in Nat
  PROVE  /\ InTable!InternalKey(u, s) \in TKeys
         /\ InTable!ExtractUserKey(InTable!InternalKey(u, s)) = u
         /\ InTable!Last(InTable!InternalKey(u, s)) = s
<1> DEFINE k == InTable!InternalKey(u, s)
<1>1. /\ k = Append(u, s) /\ k \in Seq(Nat) /\ Len(k) = Len(u) + 1 /\ Len(u) \in Nat
      /\ \A i \in 1 .. Len(u) : k[i] = u[i]
      /\ k[Len(u) + 1] = s
  BY DEF InTable!InternalKey
<1>2. k \in TKeys
  BY <1>1 DEF TKeys
<1> HIDE DEF k
<1>0. /\ InTable!ExtractUserKey(k) \in Seq(Nat)
      /\ Len(InTable!ExtractUserKey(k)) = Len(k) - 1
      /\ \A i \in 1 .. Len(k) - 1 : InTable!ExtractUserKey(k)[i] = k[i]
      /\ InTable!Last(k) = k[Len(k)]
  BY <1>2, TKeyIs
<1>a. Len(k) - 1 = Len(u)
  BY <1>1
<1>3. /\ InTable!ExtractUserKey(k) \in Seq(Nat) /\ Len(InTable!ExtractUserKey(k)) = Len(u)
      /\ \A i \in 1 .. Len(u) : InTable!ExtractUserKey(k)[i] = u[i]
      /\ InTable!Last(k) = s
  BY <1>0, <1>1, <1>a
<1>4. InTable!ExtractUserKey(k) = u
  BY <1>3
<1> QED BY <1>2, <1>3, <1>4 DEF k

LEMMA BeforeIs ==
  ASSUME NEW a \in TKeys, NEW b \in TKeys
  PROVE  InTable!Before(a, b) <=>
                 \/ Smaller(InTable!ExtractUserKey(a), InTable!ExtractUserKey(b))
                 \/ InTable!ExtractUserKey(a) = InTable!ExtractUserKey(b) /\ InTable!Last(a) > InTable!Last(b)
BY TKeyIs, BytesBeforeIs DEF InTable!Before

LEMMA BeforeTrans ==
  ASSUME NEW a \in TKeys, NEW b \in TKeys, NEW c \in TKeys,
         InTable!Before(a, b), InTable!Before(b, c)
  PROVE  InTable!Before(a, c)
<1> DEFINE U(k) == InTable!ExtractUserKey(k)
<1>1. /\ U(a) \in Seq(Nat) /\ U(b) \in Seq(Nat) /\ U(c) \in Seq(Nat)
      /\ InTable!Last(a) \in Nat /\ InTable!Last(b) \in Nat /\ InTable!Last(c) \in Nat
  BY TKeyIs
<1>2. Smaller(U(a), U(b)) \/ (U(a) = U(b) /\ InTable!Last(a) > InTable!Last(b))
  BY BeforeIs
<1>3. Smaller(U(b), U(c)) \/ (U(b) = U(c) /\ InTable!Last(b) > InTable!Last(c))
  BY BeforeIs
<1>4. Smaller(U(a), U(b)) /\ Smaller(U(b), U(c)) => Smaller(U(a), U(c))
  BY <1>1, SmallerTrans
<1> HIDE DEF U
<1>5. Smaller(U(a), U(c)) \/ (U(a) = U(c) /\ InTable!Last(a) > InTable!Last(c))
  BY <1>1, <1>2, <1>3, <1>4
<1> QED BY <1>5, BeforeIs DEF U

LEMMA BeforeTotal ==
  ASSUME NEW a \in TKeys, NEW b \in TKeys
  PROVE  a = b \/ InTable!Before(a, b) \/ InTable!Before(b, a)
<1> DEFINE U(k) == InTable!ExtractUserKey(k)
<1>1. /\ U(a) \in Seq(Nat) /\ U(b) \in Seq(Nat)
      /\ InTable!Last(a) \in Nat /\ InTable!Last(b) \in Nat
  BY TKeyIs
<1>2. U(a) = U(b) \/ Smaller(U(a), U(b)) \/ Smaller(U(b), U(a))
  BY <1>1, SmallerTotal
<1>3. U(a) = U(b) /\ InTable!Last(a) = InTable!Last(b) => a = b
  BY TKeySame
<1> QED BY <1>1, <1>2, <1>3, BeforeIs

LEMMA BeforeIrreflexive ==
  ASSUME NEW a \in TKeys
  PROVE  ~InTable!Before(a, a)
BY TKeyIs, BeforeIs, SmallerIrreflexive

(* What is not before comes after, or is the same.                         *)
LEMMA BeforeFrom ==
  ASSUME NEW a \in TKeys, NEW b \in TKeys, NEW c \in TKeys
  PROVE  /\ ~InTable!Before(b, a) /\ InTable!Before(b, c) => InTable!Before(a, c)
         /\ InTable!Before(a, b) /\ ~InTable!Before(c, b) => InTable!Before(a, c)
         /\ InTable!Before(a, b) => ~InTable!Before(b, a)
         /\ ~InTable!Before(b, a) /\ ~InTable!Before(c, b) => ~InTable!Before(c, a)
BY BeforeTrans, BeforeTotal, BeforeIrreflexive

LEMMA SeparatorIs ==
  ASSUME NEW a \in Seq(Nat), NEW b \in Seq(Nat)
  PROVE  /\ InTable!BytesSeparator(a, b) \in Seq(Nat)
         /\ Smaller(a, InTable!BytesSeparator(a, b)) => Smaller(InTable!BytesSeparator(a, b), b)
<1> DEFINE n == InTable!SharedPrefix(a, b)
           x == Append(SubSeq(a, 1, n), a[n + 1] + 1)
<1>1. /\ n \in Nat /\ n <= Len(a) /\ n <= Len(b)
      /\ \A j \in 1 .. n : a[j] = b[j]
      /\ n < InTable!Min({Len(a), Len(b)}) <=> n < Len(a) /\ n < Len(b)
  BY SharedIs
<1>2. Len(a) \in Nat /\ Len(b) \in Nat /\ \A i \in 1 .. Len(a) : a[i] \in Nat
  OBVIOUS
<1>3. InTable!BytesSeparator(a, b) =
              IF n < InTable!Min({Len(a), Len(b)}) /\ a[n + 1] < MaxByte /\ a[n + 1] + 1 < b[n + 1]
              THEN x ELSE a
  BY DEF InTable!BytesSeparator
<1> HIDE DEF n
<1>4. CASE n < InTable!Min({Len(a), Len(b)}) /\ a[n + 1] < MaxByte /\ a[n + 1] + 1 < b[n + 1]
  <2>1. n < Len(a) /\ n < Len(b) /\ n + 1 \in 1 .. Len(a)
    BY <1>1, <1>2, <1>4
  <2>2. a[n + 1] \in Nat /\ a[n + 1] + 1 \in Nat
    BY <1>2, <2>1
  <2>3. /\ SubSeq(a, 1, n) \in Seq(Nat) /\ Len(SubSeq(a, 1, n)) = n
        /\ \A i \in 1 .. n : SubSeq(a, 1, n)[i] = a[i]
    BY <1>1, <1>2
  <2>4. /\ x \in Seq(Nat) /\ Len(x) = n + 1 /\ \A i \in 1 .. n : x[i] = a[i]
        /\ x[n + 1] = a[n + 1] + 1
    BY <1>1, <2>2, <2>3
  <2> HIDE DEF x
  <2>5. Differ(x, b, n)
    BY <1>1, <1>4, <2>1, <2>4 DEF Differ
  <2>6. Smaller(x, b)
    BY <1>1, <2>5 DEF Smaller
  <2> QED BY <1>3, <1>4, <2>4, <2>6
<1>5. CASE ~(n < InTable!Min({Len(a), Len(b)}) /\ a[n + 1] < MaxByte /\ a[n + 1] + 1 < b[n + 1])
  BY <1>3, <1>5, SmallerIrreflexive
<1> QED BY <1>4, <1>5

LEMMA SuccessorType ==
  ASSUME NEW a \in Seq(Nat)
  PROVE  InTable!BytesSuccessor(a) \in Seq(Nat)
<1> DEFINE low == {i \in DOMAIN a : a[i] # MaxByte}
           m == InTable!Min(low)
<1>1. Len(a) \in Nat /\ DOMAIN a = 1 .. Len(a) /\ \A i \in 1 .. Len(a) : a[i] \in Nat
  OBVIOUS
<1>2. InTable!BytesSuccessor(a) = IF low = {} THEN a ELSE Append(SubSeq(a, 1, m - 1), a[m] + 1)
  BY DEF InTable!BytesSuccessor
<1>3. CASE low # {}
  <2>1. low \in SUBSET (0 .. Len(a))
    BY <1>1
  <2>2. m \in low
    BY <1>1, <1>3, <2>1, TableMin
  <2>3. m \in 1 .. Len(a)
    BY <1>1, <2>2
  <2> HIDE DEF m, low
  <2>4. a[m] \in Nat
    BY <1>1, <2>3
  <2>5. SubSeq(a, 1, m - 1) \in Seq(Nat)
    BY <1>1, <2>3
  <2> QED BY <1>2, <1>3, <2>4, <2>5
<1> QED BY <1>2, <1>3

LEMMA ShortenedIs ==
  ASSUME NEW k \in TKeys, NEW user \in Seq(Nat)
  PROVE  /\ InTable!Shortened(k, user) \in TKeys
         /\ ~InTable!Before(InTable!Shortened(k, user), k)
         /\ \/ InTable!Shortened(k, user) = k
            \/ /\ Smaller(InTable!ExtractUserKey(k), user)
               /\ InTable!Shortened(k, user) = InTable!InternalKey(user, MaxSeq)
<1> DEFINE u == InTable!ExtractUserKey(k)
           x == InTable!InternalKey(user, MaxSeq)
<1>1. u \in Seq(Nat)
  BY TKeyIs
<1>2. InTable!Shortened(k, user) = k \/ (Smaller(u, user) /\ InTable!Shortened(k, user) = x)
  BY <1>1, BytesBeforeIs DEF InTable!Shortened
<1>3. x \in TKeys /\ InTable!ExtractUserKey(x) = user
  BY TableConstants, TKeyMade
<1> HIDE DEF u, x
<1>4. ASSUME Smaller(u, user) PROVE ~InTable!Before(x, k)
  <2>1. InTable!Before(k, x)
    BY <1>3, <1>4, BeforeIs DEF u
  <2> QED BY <1>3, <2>1, BeforeFrom
<1> QED BY <1>2, <1>3, <1>4, BeforeIrreflexive DEF u, x

LEMMA ShortestSeparatorIs ==
  ASSUME NEW k \in TKeys, NEW limit \in TKeys, InTable!Before(k, limit)
  PROVE  /\ InTable!FindShortestSeparator(k, limit) \in TKeys
         /\ ~InTable!Before(InTable!FindShortestSeparator(k, limit), k)
         /\ \/ InTable!FindShortestSeparator(k, limit) = k
            \/ Smaller(InTable!ExtractUserKey(InTable!FindShortestSeparator(k, limit)),
                       InTable!ExtractUserKey(limit))
<1> DEFINE user == InTable!BytesSeparator(InTable!ExtractUserKey(k), InTable!ExtractUserKey(limit))
           x == InTable!Shortened(k, user)
<1>1. InTable!ExtractUserKey(k) \in Seq(Nat) /\ InTable!ExtractUserKey(limit) \in Seq(Nat)
  BY TKeyIs
<1>2. /\ user \in Seq(Nat)
      /\ Smaller(InTable!ExtractUserKey(k), user) => Smaller(user, InTable!ExtractUserKey(limit))
  BY <1>1, SeparatorIs
<1>3. InTable!FindShortestSeparator(k, limit) = x
  BY DEF InTable!FindShortestSeparator
<1> HIDE DEF user
<1>4. /\ x \in TKeys /\ ~InTable!Before(x, k)
      /\ x = k \/ (Smaller(InTable!ExtractUserKey(k), user) /\ x = InTable!InternalKey(user, MaxSeq))
  BY <1>2, ShortenedIs
<1> HIDE DEF x
<1>5. ASSUME Smaller(InTable!ExtractUserKey(k), user), x = InTable!InternalKey(user, MaxSeq)
      PROVE  Smaller(InTable!ExtractUserKey(x), InTable!ExtractUserKey(limit))
  <2>1. InTable!ExtractUserKey(x) = user
    BY <1>2, <1>5, TableConstants, TKeyMade
  <2> QED BY <1>2, <1>5, <2>1
<1> QED BY <1>3, <1>4, <1>5

LEMMA ShortSuccessorIs ==
  ASSUME NEW k \in TKeys
  PROVE  /\ InTable!FindShortSuccessor(k) \in TKeys
         /\ ~InTable!Before(InTable!FindShortSuccessor(k), k)
BY TKeyIs, SuccessorType, ShortenedIs DEF InTable!FindShortSuccessor

-----------------------------------------------------------------------------
(* Blocks: the keys they hold.                                             *)

TEntry == [shared : Nat, rest : Seq(Nat), value : Nat]

(* Every entry brings its key out of the one before, at a restart point    *)
(* out of nothing.                                                         *)
Packs(b, ks) ==
  /\ ks \in Seq(TKeys)
  /\ b.entries \in Seq(TEntry) /\ Len(b.entries) = Len(ks)
  /\ b.restarts \in Seq(Nat \ {0}) /\ b.restarts # <<>> /\ b.restarts[1] = 1
  /\ ks = <<>> => b.restarts = <<1>> /\ b.counter = 0 /\ b.last = <<>>
  /\ ks # <<>> => /\ Len(b.restarts) <= Len(ks) /\ b.last = ks[Len(ks)]
                  /\ \A q \in 1 .. Len(b.restarts) : b.restarts[q] <= Len(ks)
  /\ \A q \in 1 .. Len(b.restarts) :
       ks # <<>> => /\ b.entries[b.restarts[q]].shared = 0
                    /\ b.entries[b.restarts[q]].rest = ks[b.restarts[q]]
  /\ b.counter \in Nat
  /\ \A i \in 2 .. Len(ks) : InTable!Parsed(ks[i - 1], b.entries[i]) = ks[i]

KeysAscend(ks) == \A i, j \in DOMAIN ks : i < j => InTable!Before(ks[i], ks[j])

LEMMA NothingHeld == Packs(InTable!NoBlock, <<>>)
<1>1. /\ InTable!NoBlock.entries = <<>> /\ InTable!NoBlock.restarts = <<1>>
      /\ InTable!NoBlock.counter = 0 /\ InTable!NoBlock.last = <<>>
  BY DEF InTable!NoBlock
<1>2. <<>> \in Seq(TKeys) /\ <<>> \in Seq(TEntry) /\ Len(<<>>) = 0
  OBVIOUS
<1>3. <<1>> \in Seq(Nat \ {0}) /\ <<1>> # <<>> /\ <<1>>[1] = 1 /\ Len(<<1>>) = 1
  OBVIOUS
<1> QED BY <1>1, <1>2, <1>3 DEF Packs

LEMMA Glued ==
  ASSUME NEW a \in Seq(Nat), NEW k \in Seq(Nat), NEW n \in Nat,
         n <= Len(a), n <= Len(k), \A j \in 1 .. n : a[j] = k[j]
  PROVE  /\ SubSeq(k, n + 1, Len(k)) \in Seq(Nat)
         /\ SubSeq(a, 1, n) \o SubSeq(k, n + 1, Len(k)) = k
<1>1. Len(a) \in Nat /\ Len(k) \in Nat
  OBVIOUS
<1> DEFINE p == SubSeq(a, 1, n)
           q == SubSeq(k, n + 1, Len(k))
<1>2. p \in Seq(Nat) /\ Len(p) = n /\ \A i \in 1 .. n : p[i] = a[i]
  <2>1. 1 \in 1 .. Len(a) + 1 /\ n \in 1 - 1 .. Len(a) /\ n - 1 + 1 = n
    BY <1>1
  <2>2. \A i \in 1 .. n : 1 + i - 1 = i
    OBVIOUS
  <2> QED BY <2>1, <2>2, PartIs
<1>3. q \in Seq(Nat) /\ Len(q) = Len(k) - n /\ \A i \in 1 .. Len(k) - n : q[i] = k[n + i]
  <2> DEFINE m == n + 1
             l == Len(k)
  <2>1. /\ m \in 1 .. l + 1 /\ l \in m - 1 .. l /\ l - m + 1 = l - n
    BY <1>1
  <2>2. \A i \in 1 .. l - n : m + i - 1 = n + i
    BY <1>1
  <2> HIDE DEF m
  <2>3. /\ SubSeq(k, m, l) \in Seq(Nat) /\ Len(SubSeq(k, m, l)) = l - m + 1
        /\ \A i \in 1 .. l - m + 1 : SubSeq(k, m, l)[i] = k[m + i - 1]
    BY <2>1, PartIs
  <2> QED BY <2>1, <2>2, <2>3 DEF m
<1> HIDE DEF p, q
<1>4. /\ p \o q \in Seq(Nat) /\ Len(p \o q) = Len(k)
      /\ \A i \in 1 .. Len(k) : (p \o q)[i] = IF i <= n THEN p[i] ELSE q[i - n]
  <2>1. /\ p \o q \in Seq(Nat) /\ Len(p \o q) = Len(p) + Len(q)
        /\ \A i \in 1 .. Len(p) + Len(q) :
             (p \o q)[i] = IF i <= Len(p) THEN p[i] ELSE q[i - Len(p)]
    <3>1. p \in Seq(Nat) /\ q \in Seq(Nat)
      BY <1>2, <1>3
    <3> QED BY ONLY <3>1, ConcatProperties
  <2>2. Len(p) = n /\ Len(p) + Len(q) = Len(k)
    BY <1>1, <1>2, <1>3
  <2> QED BY <2>1, <2>2
<1>5. ASSUME NEW i \in 1 .. Len(k) PROVE (p \o q)[i] = k[i]
  <2>1. CASE i <= n
    <3>1. i \in 1 .. n
      BY <2>1
    <3> QED BY <1>2, <1>4, <2>1, <3>1
  <2>2. CASE i > n
    <3>1. i - n \in 1 .. Len(k) - n /\ n + (i - n) = i
      BY <1>1, <2>2
    <3>2. q[i - n] = k[i]
      BY <1>3, <3>1
    <3>3. ~(i <= n)
      BY <1>1, <2>2
    <3> QED BY <1>4, <3>2, <3>3
  <2>3. i <= n \/ i > n
    BY <1>1
  <2> QED BY <2>1, <2>2, <2>3
<1>6. p \o q = k
  <2> DEFINE x == p \o q
  <2>1. x \in Seq(Nat) /\ Len(x) = Len(k) /\ \A i \in 1 .. Len(k) : x[i] = k[i]
    BY <1>4, <1>5
  <2> HIDE DEF x
  <2>2. x = k
    BY <2>1, SeqEqual
  <2> QED BY <2>2 DEF x
<1> QED BY <1>3, <1>6 DEF p, q

LEMMA PacksAdded ==
  ASSUME NEW b, NEW ks, Packs(b, ks), NEW k \in TKeys, NEW v \in Nat, NEW interval \in Nat \ {0}
  PROVE  /\ Packs(InTable!AddTo(b, k, v, interval), Append(ks, k))
         /\ \E e \in TEntry :
              e.value = v /\ InTable!AddTo(b, k, v, interval).entries = Append(b.entries, e)
<1> DEFINE restart == b.counter >= interval
           shared == IF restart THEN 0 ELSE InTable!SharedPrefix(b.last, k)
           e == [shared |-> shared, rest |-> SubSeq(k, shared + 1, Len(k)), value |-> v]
           c == InTable!AddTo(b, k, v, interval)
           n == Len(ks)
           ls == Append(ks, k)
<1>1. /\ c.entries = Append(b.entries, e)
      /\ c.restarts = IF restart THEN Append(b.restarts, Len(b.entries) + 1) ELSE b.restarts
      /\ c.counter = IF restart THEN 1 ELSE b.counter + 1
      /\ c.last = k
  BY DEF InTable!AddTo
<1>2. /\ ks \in Seq(TKeys) /\ n \in Nat
      /\ b.entries \in Seq(TEntry) /\ Len(b.entries) = n
      /\ b.restarts \in Seq(Nat \ {0}) /\ b.restarts # <<>> /\ b.restarts[1] = 1
      /\ b.counter \in Nat
  BY DEF Packs
<1>3. /\ n = 0 => b.restarts = <<1>> /\ b.counter = 0 /\ b.last = <<>>
      /\ n # 0 => /\ Len(b.restarts) <= n /\ b.last = ks[n]
                  /\ \A q \in 1 .. Len(b.restarts) :
                       /\ b.restarts[q] <= n
                       /\ b.entries[b.restarts[q]].shared = 0
                       /\ b.entries[b.restarts[q]].rest = ks[b.restarts[q]]
  <2>1. n = 0 <=> ks = <<>>
    BY <1>2
  <2> QED BY <2>1 DEF Packs
<1>4. \A i \in 2 .. n : InTable!Parsed(ks[i - 1], b.entries[i]) = ks[i]
  BY DEF Packs
<1>5. k \in Seq(Nat) /\ k # <<>> /\ Len(k) \in Nat
  BY DEF TKeys
<1>6. b.last \in Seq(Nat)
  <2>1. CASE n = 0
    <3>1. b.last = <<>> /\ <<>> \in Seq(Nat)
      BY <1>3, <2>1
    <3> QED BY <3>1
  <2>2. CASE n # 0
    <3>1. n \in 1 .. Len(ks)
      BY <1>2, <2>2
    <3>2. ks[n] \in TKeys
      BY <1>2, <3>1
    <3> QED BY <1>3, <2>2, <3>2 DEF TKeys
  <2> QED BY <2>1, <2>2
<1>7. /\ shared \in Nat /\ shared <= Len(b.last) /\ shared <= Len(k)
      /\ \A j \in 1 .. shared : b.last[j] = k[j]
  <2>1. CASE restart
    BY <1>5, <1>6, <2>1
  <2>2. CASE ~restart
    BY <1>5, <1>6, <2>2, SharedIs
  <2> QED BY <2>1, <2>2
<1> HIDE DEF shared, c
<1>8. /\ SubSeq(k, shared + 1, Len(k)) \in Seq(Nat)
      /\ SubSeq(b.last, 1, shared) \o SubSeq(k, shared + 1, Len(k)) = k
  BY <1>5, <1>6, <1>7, Glued
<1>9. e \in TEntry
  BY <1>7, <1>8 DEF TEntry
<1>10. e.shared = shared /\ e.rest = SubSeq(k, shared + 1, Len(k)) /\ e.value = v
  OBVIOUS
<1>11. shared = 0 => e.rest = k
  <2>1. ASSUME shared = 0 PROVE SubSeq(k, shared + 1, Len(k)) = k
    BY <2>1, <1>5
  <2> QED BY <2>1, <1>10
<1> HIDE DEF e
<1>12. /\ ls \in Seq(TKeys) /\ Len(ls) = n + 1 /\ ls # <<>>
       /\ \A i \in 1 .. n : ls[i] = ks[i]
       /\ ls[n + 1] = k
  BY <1>2
<1>13. /\ c.entries \in Seq(TEntry) /\ Len(c.entries) = n + 1
       /\ \A i \in 1 .. n : c.entries[i] = b.entries[i]
       /\ c.entries[n + 1] = e
  BY <1>1, <1>2, <1>9
<1> HIDE DEF ls
<1>14. n = 0 => ~restart /\ shared = 0
  <2>1. ASSUME n = 0 PROVE ~restart
    BY <2>1, <1>3
  <2>2. ASSUME n = 0 PROVE shared = 0
    <3>1. Len(b.last) = 0
      BY <2>2, <1>3
    <3> QED BY <1>7, <3>1
  <2> QED BY <2>1, <2>2
<1>15. /\ c.restarts \in Seq(Nat \ {0}) /\ c.restarts # <<>> /\ c.restarts[1] = 1
       /\ Len(c.restarts) <= n + 1
       /\ \A q \in 1 .. Len(c.restarts) :
            \/ q \in 1 .. Len(b.restarts) /\ c.restarts[q] = b.restarts[q]
            \/ restart /\ c.restarts[q] = n + 1
  <2>1. CASE restart
    <3>1. c.restarts = Append(b.restarts, n + 1) /\ n + 1 \in Nat \ {0}
      BY <1>1, <1>2, <2>1
    <3>2. /\ c.restarts \in Seq(Nat \ {0}) /\ Len(c.restarts) = Len(b.restarts) + 1
          /\ Len(b.restarts) \in Nat \ {0}
          /\ \A q \in 1 .. Len(b.restarts) : c.restarts[q] = b.restarts[q]
          /\ c.restarts[Len(b.restarts) + 1] = n + 1
      BY <3>1, <1>2
    <3>3. n # 0 /\ Len(b.restarts) <= n
      BY <1>3, <1>14, <2>1
    <3>4. \A q \in 1 .. Len(c.restarts) : q \in 1 .. Len(b.restarts) \/ q = Len(b.restarts) + 1
      BY ONLY <3>2
    <3>5. Len(c.restarts) <= n + 1
      BY <1>2, <3>2, <3>3
    <3>6. c.restarts # <<>> /\ c.restarts[1] = 1
      <4>1. Len(c.restarts) # 0 /\ 1 \in 1 .. Len(b.restarts)
        BY ONLY <3>2
      <4>2. Len(<<>>) = 0
        OBVIOUS
      <4>3. c.restarts[1] = b.restarts[1] /\ b.restarts[1] = 1
        BY <1>2, <3>2, <4>1
      <4> QED BY ONLY <4>1, <4>2, <4>3
    <3> QED BY ONLY <2>1, <3>2, <3>4, <3>5, <3>6
  <2>2. CASE ~restart
    <3>1. c.restarts = b.restarts
      BY <1>1, <2>2
    <3>2. Len(b.restarts) <= n + 1
      <4>1. CASE n = 0
        <5>1. Len(b.restarts) = 1
          BY <1>3, <4>1
        <5> QED BY <4>1, <5>1
      <4>2. CASE n # 0
        BY <1>2, <1>3, <4>2
      <4> QED BY <4>1, <4>2
    <3> QED BY <1>2, <3>1, <3>2
  <2> QED BY <2>1, <2>2
<1>16. ASSUME NEW q \in 1 .. Len(c.restarts)
       PROVE  /\ c.restarts[q] <= n + 1
              /\ c.entries[c.restarts[q]].shared = 0
              /\ c.entries[c.restarts[q]].rest = ls[c.restarts[q]]
  <2>1. CASE restart /\ c.restarts[q] = n + 1
    <3>1. shared = 0
      BY <2>1 DEF shared
    <3> QED BY <1>2, <1>10, <1>11, <1>12, <1>13, <2>1, <3>1
  <2>2. CASE q \in 1 .. Len(b.restarts) /\ c.restarts[q] = b.restarts[q]
    <3>1. CASE n = 0
      <4>1. c.restarts[q] = 1 /\ shared = 0
        <5>1. b.restarts = <<1>> /\ Len(<<1>>) = 1 /\ <<1>>[1] = 1
          BY <1>3, <3>1
        <5>2. q = 1
          BY <2>2, <5>1
        <5> QED BY <2>2, <5>1, <5>2, <1>14, <3>1
      <4> QED BY <1>10, <1>11, <1>12, <1>13, <3>1, <4>1
    <3>2. CASE n # 0
      <4>1. b.restarts[q] \in 1 .. n
        BY <1>2, <1>3, <2>2, <3>2
      <4>2. /\ c.entries[b.restarts[q]] = b.entries[b.restarts[q]]
            /\ ls[b.restarts[q]] = ks[b.restarts[q]]
        BY <1>12, <1>13, <4>1
      <4>3. /\ b.entries[b.restarts[q]].shared = 0
            /\ b.entries[b.restarts[q]].rest = ks[b.restarts[q]]
        BY <1>3, <2>2, <3>2
      <4>4. b.restarts[q] <= n + 1
        BY <1>2, <4>1
      <4> QED BY <2>2, <4>2, <4>3, <4>4
    <3> QED BY <3>1, <3>2
  <2> QED BY <1>15, <2>1, <2>2
<1>17. ASSUME NEW i \in 2 .. n + 1
       PROVE  InTable!Parsed(ls[i - 1], c.entries[i]) = ls[i]
  <2>1. CASE i = n + 1
    <3>1. n # 0 /\ i - 1 = n /\ n \in 1 .. n
      BY <1>2, <1>17, <2>1
    <3>2. ls[i - 1] = b.last /\ c.entries[i] = e /\ ls[i] = k
      BY <1>3, <1>12, <1>13, <2>1, <3>1
    <3>3. InTable!Parsed(b.last, e) = k
      BY <1>8, <1>10 DEF InTable!Parsed
    <3> QED BY <3>2, <3>3
  <2>2. CASE i # n + 1
    <3>1. i \in 2 .. n /\ i - 1 \in 1 .. n /\ i \in 1 .. n
      BY <1>2, <1>17, <2>2
    <3> QED BY <1>4, <1>12, <1>13, <3>1
  <2> QED BY <2>1, <2>2
<1>18. c.counter \in Nat /\ c.last = ls[Len(ls)]
  BY <1>1, <1>2, <1>12
<1>19. Packs(c, ls)
  BY <1>12, <1>13, <1>15, <1>16, <1>17, <1>18 DEF Packs
<1>20. \E x \in TEntry : x.value = v /\ c.entries = Append(b.entries, x)
  BY <1>1, <1>9, <1>10
<1> QED BY <1>19, <1>20 DEF c, ls

-----------------------------------------------------------------------------
(* Where an iterator of a block is.                                        *)

PlacedIn(b, ks, it, i) ==
  /\ i \in 1 .. Len(ks) /\ it.at = i /\ it.key = ks[i]
  /\ it.restart \in 1 .. Len(b.restarts)

LEMMA PacksIs ==
  ASSUME NEW b, NEW ks, Packs(b, ks)
  PROVE  /\ ks \in Seq(TKeys) /\ Len(ks) \in Nat /\ Len(b.entries) = Len(ks)
         /\ b.entries \in Seq(TEntry)
         /\ InTable!End(b) = Len(ks) + 1
         /\ b.restarts \in Seq(Nat \ {0}) /\ Len(b.restarts) \in Nat \ {0}
         /\ b.restarts[1] = 1 /\ InTable!NumRestarts(b) = Len(b.restarts)
         /\ \A q \in 1 .. Len(b.restarts) :
              /\ b.restarts[q] \in Nat \ {0}
              /\ Len(ks) # 0 => /\ b.restarts[q] \in 1 .. Len(ks)
                                /\ b.entries[b.restarts[q]].shared = 0
                                /\ b.entries[b.restarts[q]].rest = ks[b.restarts[q]]
         /\ \A i \in 1 .. Len(ks) : ks[i] \in TKeys /\ ks[i] \in Seq(Nat)
<1>1. /\ ks \in Seq(TKeys) /\ Len(ks) \in Nat /\ Len(b.entries) = Len(ks)
      /\ b.entries \in Seq(TEntry)
      /\ b.restarts \in Seq(Nat \ {0}) /\ b.restarts # <<>> /\ b.restarts[1] = 1
  BY DEF Packs
<1>2. InTable!End(b) = Len(ks) + 1 /\ InTable!NumRestarts(b) = Len(b.restarts)
  BY <1>1 DEF InTable!End, InTable!NumRestarts
<1>3. Len(b.restarts) \in Nat \ {0}
  BY <1>1
<1>4. ASSUME NEW q \in 1 .. Len(b.restarts)
      PROVE  /\ b.restarts[q] \in Nat \ {0}
             /\ Len(ks) # 0 => /\ b.restarts[q] \in 1 .. Len(ks)
                               /\ b.entries[b.restarts[q]].shared = 0
                               /\ b.entries[b.restarts[q]].rest = ks[b.restarts[q]]
  <2>1. b.restarts[q] \in Nat \ {0}
    BY <1>1
  <2>2. ASSUME Len(ks) # 0
        PROVE  /\ b.restarts[q] <= Len(ks)
               /\ b.entries[b.restarts[q]].shared = 0
               /\ b.entries[b.restarts[q]].rest = ks[b.restarts[q]]
    <3>1. ks # <<>>
      BY <1>1, <2>2
    <3> QED BY <3>1 DEF Packs
  <2> QED BY <1>1, <2>1, <2>2
<1>5. ASSUME NEW i \in 1 .. Len(ks) PROVE ks[i] \in TKeys /\ ks[i] \in Seq(Nat)
  <2>1. ks[i] \in TKeys
    BY <1>1
  <2> QED BY <2>1 DEF TKeys
<1> QED BY <1>1, <1>2, <1>3, <1>4, <1>5

(* The keys put together from a restart point on are those of the block.   *)
LEMMA KeyFromIs ==
  ASSUME NEW b, NEW ks, Packs(b, ks), NEW r \in 1 .. Len(b.restarts),
         NEW i \in b.restarts[r] .. Len(ks)
  PROVE  InTable!KeyFrom(b, r, i) = ks[i]
<1> DEFINE s == b.restarts[r]
           Step(f, j) == IF j < s THEN <<>> ELSE InTable!Parsed(f[j - 1], b.entries[j])
           Whole(f) == f = [j \in 0 .. i |-> Step(f, j)]
           key == CHOOSE f : Whole(f)
           g == [j \in 0 .. i |-> IF j < s THEN <<>> ELSE ks[j]]
<1>1. /\ Len(ks) \in Nat /\ s \in Nat \ {0} /\ i \in Nat /\ s <= i /\ i <= Len(ks)
      /\ s \in 1 .. Len(ks) /\ b.entries[s].shared = 0 /\ b.entries[s].rest = ks[s]
      /\ ks[s] \in Seq(Nat)
  <2>1. /\ Len(ks) \in Nat /\ s \in Nat \ {0}
        /\ Len(ks) # 0 => /\ s \in 1 .. Len(ks)
                          /\ b.entries[s].shared = 0 /\ b.entries[s].rest = ks[s]
        /\ \A j \in 1 .. Len(ks) : ks[j] \in Seq(Nat)
    BY PacksIs
  <2>2. i \in s .. Len(ks)
    OBVIOUS
  <2> HIDE DEF s
  <2>3. i \in Nat /\ s <= i /\ i <= Len(ks) /\ Len(ks) # 0
    BY ONLY <2>1, <2>2
  <2> QED BY ONLY <2>1, <2>3
<1>2. InTable!KeyFrom(b, r, i) = key[i]
  BY Zenon DEF InTable!KeyFrom
<1>3. \A j \in 2 .. Len(ks) : InTable!Parsed(ks[j - 1], b.entries[j]) = ks[j]
  BY DEF Packs
<1>4. InTable!Parsed(<<>>, b.entries[s]) = ks[s]
  <2>1. SubSeq(<<>>, 1, 0) = <<>> /\ <<>> \o ks[s] = ks[s]
    BY <1>1
  <2> QED BY <1>1, <2>1 DEF InTable!Parsed
<1> HIDE DEF s
<1>5. ASSUME NEW j \in 0 .. i PROVE g[j] = Step(g, j)
  <2>1. CASE j < s
    BY <2>1
  <2>2. CASE j = s
    <3>1. j - 1 \in 0 .. i /\ j - 1 < s /\ ~(j < s)
      BY <1>1, <2>2
    <3>2. g[j - 1] = <<>> /\ g[j] = ks[s]
      BY <2>2, <3>1
    <3> HIDE DEF g
    <3>3. Step(g, j) = InTable!Parsed(<<>>, b.entries[s])
      BY <2>2, <3>1, <3>2
    <3> QED BY <1>4, <3>2, <3>3
  <2>3. CASE j > s
    <3>1. j - 1 \in 0 .. i /\ ~(j - 1 < s) /\ ~(j < s) /\ j \in 2 .. Len(ks)
      BY <1>1, <2>3
    <3>2. g[j - 1] = ks[j - 1] /\ g[j] = ks[j]
      BY <3>1
    <3> HIDE DEF g
    <3> QED BY <1>3, <3>1, <3>2
  <2>4. j < s \/ j = s \/ j > s
    BY <1>1
  <2> QED BY <2>1, <2>2, <2>3, <2>4
<1>6. Whole(g)
  <2>1. g = [j \in 0 .. i |-> g[j]]
    OBVIOUS
  <2> HIDE DEF g, Step
  <2> QED BY <1>5, <2>1
<1>7. Whole(key)
  <2> HIDE DEF Whole, g
  <2> QED BY <1>6
<1>8. ASSUME NEW j \in 0 .. i PROVE key[j] = Step(key, j)
  <2> HIDE DEF key, Step
  <2> QED BY <1>7
<1> HIDE DEF key, g, Whole
<1> DEFINE Bad == {j \in 0 .. i : s <= j /\ key[j] # ks[j]}
<1>9. Bad = {}
  <2> SUFFICES ASSUME Bad # {} PROVE FALSE
    OBVIOUS
  <2>1. Bad \in SUBSET (0 .. i)
    OBVIOUS
  <2>2. PICK m \in Bad : \A j \in Bad : m <= j
    BY <1>1, <2>1, LeastOf
  <2>3. m \in 0 .. i /\ s <= m /\ key[m] # ks[m]
    OBVIOUS
  <2>4. key[m] = InTable!Parsed(key[m - 1], b.entries[m])
    BY <1>1, <1>8, <2>3
  <2>5. CASE m = s
    <3>1. m - 1 \in 0 .. i /\ m - 1 < s
      BY <1>1, <2>3, <2>5
    <3>2. key[m - 1] = <<>>
      BY <1>8, <3>1
    <3> QED BY <1>4, <2>3, <2>4, <2>5, <3>2
  <2>6. CASE m # s
    <3>1. m - 1 \in 0 .. i /\ s <= m - 1 /\ ~(m <= m - 1) /\ m \in 2 .. Len(ks)
      BY <1>1, <2>3, <2>6
    <3>2. key[m - 1] = ks[m - 1]
      BY <2>2, <3>1
    <3> QED BY <1>3, <2>3, <2>4, <3>1, <3>2
  <2> QED BY <2>5, <2>6
<1>10. key[i] = ks[i]
  BY <1>1, <1>9
<1> QED BY <1>2, <1>10

LEMMA RestartOfIs ==
  ASSUME NEW b, NEW ks, Packs(b, ks), NEW r \in 1 .. Len(b.restarts), NEW i
  PROVE  InTable!RestartOf(b, r, i) \in 1 .. Len(b.restarts)
<1> DEFINE n == Len(b.restarts)
           S == {r} \cup {q \in 1 .. n : b.restarts[q] < i}
<1>1. n \in Nat /\ InTable!NumRestarts(b) = n
  BY PacksIs
<1>2. InTable!RestartOf(b, r, i) = InTable!Max(S)
  BY <1>1 DEF InTable!RestartOf
<1>3. S \in SUBSET (0 .. n) /\ S # {} /\ S \in SUBSET (1 .. n)
  BY <1>1
<1> HIDE DEF S
<1>4. InTable!Max(S) \in S
  BY <1>1, <1>3, TableMax
<1> QED BY <1>2, <1>3, <1>4

LEMMA ParseFromIs ==
  ASSUME NEW b, NEW ks, Packs(b, ks), NEW r \in 1 .. Len(b.restarts),
         NEW i \in Nat
  PROVE  /\ i \in b.restarts[r] .. Len(ks) => PlacedIn(b, ks, InTable!ParseFrom(b, r, i), i)
         /\ i > Len(ks) => InTable!ParseFrom(b, r, i) = InTable!Invalid(b)
<1>1. InTable!End(b) = Len(ks) + 1 /\ Len(ks) \in Nat /\ b.restarts[r] \in Nat \ {0}
  BY PacksIs
<1>2. i > Len(ks) => InTable!ParseFrom(b, r, i) = InTable!Invalid(b)
  BY <1>1 DEF InTable!ParseFrom
<1>3. ASSUME i \in b.restarts[r] .. Len(ks)
      PROVE  PlacedIn(b, ks, InTable!ParseFrom(b, r, i), i)
  <2>1. ~(i >= InTable!End(b)) /\ i \in 1 .. Len(ks)
    BY <1>1, <1>3
  <2>2. InTable!ParseFrom(b, r, i) = InTable!Position(i, InTable!RestartOf(b, r, i), InTable!KeyFrom(b, r, i))
    BY <2>1 DEF InTable!ParseFrom
  <2>3. /\ InTable!ParseFrom(b, r, i).at = i
        /\ InTable!ParseFrom(b, r, i).restart = InTable!RestartOf(b, r, i)
        /\ InTable!ParseFrom(b, r, i).key = InTable!KeyFrom(b, r, i)
    BY <2>2 DEF InTable!Position
  <2>4. InTable!KeyFrom(b, r, i) = ks[i]
    BY <1>3, KeyFromIs
  <2>5. InTable!RestartOf(b, r, i) \in 1 .. Len(b.restarts)
    BY RestartOfIs
  <2> QED BY <2>1, <2>3, <2>4, <2>5 DEF PlacedIn
<1> QED BY <1>2, <1>3

LEMMA FirstInIs ==
  ASSUME NEW b, NEW ks, Packs(b, ks), ks # <<>>
  PROVE  PlacedIn(b, ks, InTable!FirstIn(b), 1)
<1>1. /\ ks \in Seq(TKeys) /\ 1 \in 1 .. Len(b.restarts) /\ b.restarts[1] = 1
  BY PacksIs
<1>2. 1 \in b.restarts[1] .. Len(ks)
  BY <1>1
<1> QED BY <1>1, <1>2, ParseFromIs DEF InTable!FirstIn

LEMMA LastInIs ==
  ASSUME NEW b, NEW ks, Packs(b, ks), ks # <<>>
  PROVE  PlacedIn(b, ks, InTable!LastIn(b), Len(ks))
<1> DEFINE r == Len(b.restarts)
           n == Len(ks)
<1>1. /\ ks \in Seq(TKeys) /\ n \in Nat /\ r \in 1 .. r /\ Len(b.entries) = n
      /\ InTable!NumRestarts(b) = r
      /\ n # 0 => b.restarts[r] \in 1 .. n
  BY PacksIs
<1>2. n # 0
  BY <1>1
<1>3. n \in b.restarts[r] .. n
  BY <1>1, <1>2
<1>4. InTable!LastIn(b) = InTable!ParseFrom(b, r, n)
  BY <1>1 DEF InTable!LastIn
<1> QED BY <1>1, <1>3, <1>4, ParseFromIs

LEMMA NextInIs ==
  ASSUME NEW b, NEW ks, Packs(b, ks), NEW it, NEW i, PlacedIn(b, ks, it, i)
  PROVE  /\ i < Len(ks) => PlacedIn(b, ks, InTable!NextIn(b, it), i + 1)
         /\ i = Len(ks) => InTable!NextIn(b, it) = InTable!Invalid(b)
<1>1. /\ InTable!End(b) = Len(ks) + 1 /\ Len(ks) \in Nat
      /\ i \in 1 .. Len(ks) /\ it.at = i /\ it.key = ks[i]
      /\ it.restart \in 1 .. Len(b.restarts)
  BY PacksIs DEF PlacedIn
<1>2. i = Len(ks) => InTable!NextIn(b, it) = InTable!Invalid(b)
  BY <1>1 DEF InTable!NextIn
<1>3. ASSUME i < Len(ks) PROVE PlacedIn(b, ks, InTable!NextIn(b, it), i + 1)
  <2> DEFINE j == i + 1
  <2>1. /\ ~(it.at + 1 >= InTable!End(b)) /\ j \in 2 .. Len(ks)
        /\ j \in 1 .. Len(ks) /\ j - 1 = i
    BY <1>1, <1>3
  <2>2. InTable!NextIn(b, it) = InTable!Position(j, InTable!RestartOf(b, it.restart, j),
                                                 InTable!Parsed(it.key, b.entries[j]))
    BY <1>1, <2>1 DEF InTable!NextIn
  <2> HIDE DEF j
  <2>3. InTable!Parsed(it.key, b.entries[j]) = ks[j]
    BY <1>1, <2>1 DEF Packs
  <2>4. InTable!RestartOf(b, it.restart, j) \in 1 .. Len(b.restarts)
    BY <1>1, RestartOfIs
  <2>5. PlacedIn(b, ks, InTable!NextIn(b, it), j)
    BY <2>1, <2>2, <2>3, <2>4 DEF PlacedIn, InTable!Position
  <2> QED BY <2>5 DEF j
<1> QED BY <1>2, <1>3

LEMMA PrevInIs ==
  ASSUME NEW b, NEW ks, Packs(b, ks), NEW it, NEW i, PlacedIn(b, ks, it, i)
  PROVE  /\ i > 1 => PlacedIn(b, ks, InTable!PrevIn(b, it), i - 1)
         /\ i = 1 => InTable!PrevIn(b, it) = InTable!Invalid(b)
<1> DEFINE S == {r \in 1 .. it.restart : b.restarts[r] < it.at}
<1>1. /\ Len(ks) \in Nat /\ Len(b.restarts) \in Nat /\ b.restarts[1] = 1
      /\ \A q \in 1 .. Len(b.restarts) : b.restarts[q] \in Nat \ {0}
      /\ i \in 1 .. Len(ks) /\ it.at = i /\ it.restart \in 1 .. Len(b.restarts)
  BY PacksIs DEF PlacedIn
<1>2. S \in SUBSET (0 .. Len(b.restarts)) /\ S \in SUBSET (1 .. Len(b.restarts))
  BY <1>1
<1>3. InTable!PrevIn(b, it) = IF S = {} THEN InTable!Invalid(b) ELSE InTable!ParseFrom(b, InTable!Max(S), it.at - 1)
  BY DEF InTable!PrevIn
<1>4. ASSUME i = 1 PROVE S = {}
  BY <1>1, <1>4
<1>5. ASSUME i > 1 PROVE PlacedIn(b, ks, InTable!PrevIn(b, it), i - 1)
  <2>1. 1 \in S
    BY <1>1, <1>5
  <2>2. \A r \in S : b.restarts[r] < i
    BY <1>1
  <2> HIDE DEF S
  <2>3. InTable!Max(S) \in S
    BY <1>1, <1>2, <2>1, TableMax
  <2> DEFINE r == InTable!Max(S)
             j == i - 1
  <2>4. r \in 1 .. Len(b.restarts) /\ b.restarts[r] < i /\ S # {}
    BY <1>2, <2>1, <2>2, <2>3
  <2> HIDE DEF r
  <2>5. j \in Nat /\ j \in b.restarts[r] .. Len(ks)
    BY <1>1, <2>4
  <2> HIDE DEF j
  <2>6. PlacedIn(b, ks, InTable!ParseFrom(b, r, j), j)
    BY <2>4, <2>5, ParseFromIs
  <2> QED BY <1>1, <1>3, <2>4, <2>6 DEF r, j
<1> QED BY <1>3, <1>4, <1>5

-----------------------------------------------------------------------------
(* Block::Iter::Seek: the binary search and the way on from there.         *)

SearchRange(b) == [left : 1 .. InTable!NumRestarts(b), right : 0 .. InTable!NumRestarts(b)]
Middle(p) == (p.left + p.right + 1) \div 2
RestartLess(b, target, q) == InTable!Before(b.entries[b.restarts[q]].rest, target)
Narrowed(b, target, p) ==
  IF RestartLess(b, target, Middle(p))
  THEN [p EXCEPT !.left = Middle(p)] ELSE [p EXCEPT !.right = Middle(p) - 1]
Searches(b, target, f) ==
  f = [p \in SearchRange(b) |->
         IF p.left >= p.right THEN p.left ELSE f[Narrowed(b, target, p)]]

LEMMA RestartBeforeIs ==
  ASSUME NEW b, NEW target
  PROVE  InTable!RestartBefore(b, target)
                 = (CHOOSE f : Searches(b, target, f))[[left |-> 1, right |-> InTable!NumRestarts(b)]]
<1> DEFINE Raw(f) == f = [p \in [left : 1 .. InTable!NumRestarts(b), right : 0 .. InTable!NumRestarts(b)] |->
         LET mid == (p.left + p.right + 1) \div 2 IN
         IF p.left >= p.right THEN p.left
         ELSE IF InTable!Before(b.entries[b.restarts[mid]].rest, target)
              THEN f[[p EXCEPT !.left = mid]] ELSE f[[p EXCEPT !.right = mid - 1]]]
<1>1. InTable!RestartBefore(b, target)
              = (CHOOSE f : Raw(f))[[left |-> 1, right |-> InTable!NumRestarts(b)]]
  BY Zenon DEF InTable!RestartBefore
<1>2. ASSUME NEW f PROVE Raw(f) <=> Searches(b, target, f)
  <2>1. ASSUME NEW p
        PROVE  f[Narrowed(b, target, p)] =
                 IF InTable!Before(b.entries[b.restarts[Middle(p)]].rest, target)
                 THEN f[[p EXCEPT !.left = Middle(p)]] ELSE f[[p EXCEPT !.right = Middle(p) - 1]]
    BY Zenon DEF Narrowed, RestartLess
  <2>2. ASSUME NEW p
        PROVE  (LET mid == (p.left + p.right + 1) \div 2 IN
                 IF p.left >= p.right THEN p.left
                 ELSE IF InTable!Before(b.entries[b.restarts[mid]].rest, target)
                 THEN f[[p EXCEPT !.left = mid]] ELSE f[[p EXCEPT !.right = mid - 1]])
               = (IF p.left >= p.right THEN p.left ELSE f[Narrowed(b, target, p)])
    BY <2>1, Zenon DEF Middle
  <2>3. [p \in SearchRange(b) |-> LET mid == (p.left + p.right + 1) \div 2 IN
         IF p.left >= p.right THEN p.left
         ELSE IF InTable!Before(b.entries[b.restarts[mid]].rest, target)
              THEN f[[p EXCEPT !.left = mid]] ELSE f[[p EXCEPT !.right = mid - 1]]]
        = [p \in SearchRange(b) |-> IF p.left >= p.right THEN p.left ELSE f[Narrowed(b, target, p)]]
    BY <2>2, Zenon
  <2> QED BY <2>3, Zenon DEF Searches, SearchRange
<1> HIDE DEF Raw
<1>3. (CHOOSE f : Raw(f)) = (CHOOSE f : Searches(b, target, f))
  BY <1>2, Zenon
<1> QED BY <1>1, <1>3

(* Each round leaves fewer restart points.                                 *)
RangeLeft(p) == IF p.left >= p.right THEN 0 ELSE p.right - p.left

LEMMA RangeNarrows ==
  ASSUME NEW b, NEW target, InTable!NumRestarts(b) \in Nat \ {0}, NEW p \in SearchRange(b)
  PROVE  /\ p.left \in 1 .. InTable!NumRestarts(b)
         /\ p.right \in 0 .. InTable!NumRestarts(b)
         /\ RangeLeft(p) \in 0 .. InTable!NumRestarts(b)
         /\ p.left < p.right =>
              /\ Middle(p) \in 1 .. InTable!NumRestarts(b)
              /\ Narrowed(b, target, p) \in SearchRange(b)
              /\ (Narrowed(b, target, p).left = Middle(p) /\ RestartLess(b, target, Middle(p)))
                 \/ Narrowed(b, target, p).left = p.left
              /\ RangeLeft(Narrowed(b, target, p)) < RangeLeft(p)
<1> DEFINE n == InTable!NumRestarts(b)
           m == Middle(p)
           x == Narrowed(b, target, p)
<1>1. p.left \in 1 .. n /\ p.right \in 0 .. n /\ p = [left |-> p.left, right |-> p.right]
  BY DEF SearchRange
<1> HIDE DEF n
<1>2. n \in Nat \ {0}
  BY DEF n
<1>3. RangeLeft(p) \in 0 .. n
  BY <1>1, <1>2 DEF RangeLeft
<1>4. ASSUME p.left < p.right
      PROVE  /\ m \in 1 .. n /\ x \in SearchRange(b)
             /\ (x.left = m /\ RestartLess(b, target, m)) \/ x.left = p.left
             /\ RangeLeft(x) < RangeLeft(p)
  <2>1. m \in Int /\ p.left < m /\ m <= p.right
    BY <1>1, <1>4, SMT DEF Middle
  <2>2. RangeLeft(p) = p.right - p.left
    BY <1>1, <1>4 DEF RangeLeft
  <2> HIDE DEF m
  <2>3. m \in 1 .. n
    BY <1>1, <1>2, <2>1
  <2>4. CASE RestartLess(b, target, m)
    <3>1. x = [p EXCEPT !.left = m]
      BY <2>4 DEF Narrowed, m
    <3>2. x = [left |-> m, right |-> p.right]
      BY <1>1, <3>1
    <3>3. x \in SearchRange(b) /\ x.left = m /\ x.right = p.right
      BY <1>1, <2>3, <3>2 DEF SearchRange, n
    <3>4. RangeLeft(x) < RangeLeft(p)
      BY <1>1, <1>4, <2>1, <2>2, <3>3 DEF RangeLeft
    <3> QED BY <2>3, <2>4, <3>3, <3>4
  <2>5. CASE ~RestartLess(b, target, m)
    <3>1. x = [p EXCEPT !.right = m - 1]
      BY <2>5 DEF Narrowed, m
    <3>2. x = [left |-> p.left, right |-> m - 1] /\ m - 1 \in 0 .. n
      BY <1>1, <2>3, <1>2, <3>1
    <3>3. x \in SearchRange(b) /\ x.left = p.left /\ x.right = m - 1
      BY <1>1, <3>2 DEF SearchRange, n
    <3>4. RangeLeft(x) < RangeLeft(p)
      BY <1>1, <1>4, <2>1, <2>2, <3>3 DEF RangeLeft
    <3> QED BY <2>3, <3>3, <3>4
  <2> QED BY <2>4, <2>5
<1> QED BY <1>1, <1>3, <1>4 DEF n

LEMMA SearchDefined ==
  ASSUME NEW b, NEW target, InTable!NumRestarts(b) \in Nat \ {0}
  PROVE  \E f : Searches(b, target, f)
<1> DEFINE n == InTable!NumRestarts(b)
           D(k) == {p \in SearchRange(b) : RangeLeft(p) <= k}
           Step(f, p) == IF p.left >= p.right THEN p.left ELSE f[Narrowed(b, target, p)]
           Exists(k) == \E f : \A p \in D(k) : f[p] = Step(f, p)
           Bad == {k \in 0 .. n : ~Exists(k)}
<1>1. ASSUME NEW p \in SearchRange(b)
      PROVE  /\ RangeLeft(p) \in 0 .. n
             /\ ~(p.left >= p.right) => /\ Narrowed(b, target, p) \in SearchRange(b)
                                        /\ RangeLeft(Narrowed(b, target, p)) < RangeLeft(p)
                                        /\ RangeLeft(Narrowed(b, target, p)) \in 0 .. n
  <2>1. p.left \in Int /\ p.right \in Int
    BY RangeNarrows
  <2>2. ASSUME ~(p.left >= p.right)
        PROVE  /\ Narrowed(b, target, p) \in SearchRange(b)
               /\ RangeLeft(Narrowed(b, target, p)) < RangeLeft(p)
    BY <2>1, <2>2, RangeNarrows
  <2> QED BY <2>2, RangeNarrows
<1>0. n \in Nat
  OBVIOUS
<1> HIDE DEF n
<1>2. Bad = {}
  <2> SUFFICES ASSUME Bad # {} PROVE FALSE
    OBVIOUS
  <2>1. Bad \in SUBSET (0 .. n)
    OBVIOUS
  <2> HIDE DEF Exists
  <2>2. PICK m \in Bad : \A k \in Bad : m <= k
    BY <1>0, <2>1, LeastOf
  <2>3. m \in 0 .. n /\ ~Exists(m)
    OBVIOUS
  <2>4. \E f : \A p \in D(m - 1) : f[p] = Step(f, p)
    <3>1. CASE m = 0
      <4>1. D(m - 1) = {}
        BY <3>1, <1>1
      <4> QED BY <4>1
    <3>2. CASE m # 0
      <4>1. m - 1 \in 0 .. n /\ m - 1 < m
        BY <1>0, <3>2, <2>3
      <4>2. Exists(m - 1)
        BY <4>1, <2>2, <2>3
      <4> QED BY <4>2 DEF Exists
    <3> QED BY <3>1, <3>2
  <2>5. PICK f : \A p \in D(m - 1) : f[p] = Step(f, p)
    BY <2>4
  <2> DEFINE g == [p \in D(m) |-> Step(f, p)]
  <2>6. ASSUME NEW p \in D(m) PROVE g[p] = Step(g, p)
    <3>1. g[p] = Step(f, p)
      OBVIOUS
    <3>2. CASE p.left >= p.right
      BY <3>1, <3>2
    <3>3. CASE ~(p.left >= p.right)
      <4> DEFINE q == Narrowed(b, target, p)
      <4>1. q \in D(m) /\ q \in D(m - 1)
        BY <3>3, <1>1, <2>3
      <4>2. g[q] = Step(f, q) /\ f[q] = Step(f, q)
        BY <4>1, <2>5
      <4>3. g[q] = f[q]
        BY <4>2
      <4> HIDE DEF g
      <4> QED BY <3>1, <3>3, <4>3
    <3> QED BY <3>2, <3>3
  <2>7. Exists(m)
    <3> HIDE DEF g, Step, D
    <3> QED BY <2>6 DEF Exists
  <2> QED BY <2>3, <2>7
<1> HIDE DEF Exists
<1>3. Exists(n)
  <2>1. n \in 0 .. n
    BY <1>0
  <2> QED BY <2>1, <1>2
<1>4. PICK f : \A p \in D(n) : f[p] = Step(f, p)
  BY <1>3 DEF Exists
<1>5. D(n) = SearchRange(b)
  BY <1>1
<1> DEFINE g == [p \in SearchRange(b) |-> f[p]]
<1>6. ASSUME NEW p \in SearchRange(b) PROVE g[p] = Step(g, p)
  <2>1. f[p] = Step(f, p) /\ g[p] = f[p]
    BY <1>4, <1>5
  <2>2. ~(p.left >= p.right) => g[Narrowed(b, target, p)] = f[Narrowed(b, target, p)]
    BY <1>1
  <2> HIDE DEF g
  <2> QED BY <2>1, <2>2
<1>7. g = [p \in SearchRange(b) |-> Step(g, p)]
  <2>1. g = [p \in SearchRange(b) |-> g[p]]
    OBVIOUS
  <2> HIDE DEF g, Step
  <2> QED BY <2>1, <1>6
<1>8. Searches(b, target, g)
  <2> HIDE DEF g
  <2> QED BY <1>7, Zenon DEF Searches
<1> QED BY <1>8

(* What is found is the first restart point or one before the target.      *)
LEMMA RestartFound ==
  ASSUME NEW b, NEW target, InTable!NumRestarts(b) \in Nat \ {0}
  PROVE  /\ InTable!RestartBefore(b, target) \in 1 .. InTable!NumRestarts(b)
         /\ InTable!RestartBefore(b, target) = 1
            \/ RestartLess(b, target, InTable!RestartBefore(b, target))
<1> DEFINE n == InTable!NumRestarts(b)
           f == CHOOSE g : Searches(b, target, g)
           Sound(q) == q \in 1 .. n /\ (q = 1 \/ RestartLess(b, target, q))
           Bad == {k \in 0 .. n : \E p \in SearchRange(b) :
                     RangeLeft(p) = k /\ Sound(p.left) /\ ~Sound(f[p])}
<1>1. Searches(b, target, f)
  BY SearchDefined
<1> HIDE DEF f
<1>2. ASSUME NEW p \in SearchRange(b)
      PROVE  f[p] = IF p.left >= p.right THEN p.left ELSE f[Narrowed(b, target, p)]
  BY <1>1 DEF Searches
<1>0. n \in Nat \ {0}
  OBVIOUS
<1>3. ASSUME NEW p \in SearchRange(b)
      PROVE  /\ p.left \in 1 .. n /\ p.right \in 0 .. n /\ RangeLeft(p) \in 0 .. n
             /\ ~(p.left >= p.right) =>
                  /\ Narrowed(b, target, p) \in SearchRange(b)
                  /\ Sound(p.left) => Sound(Narrowed(b, target, p).left)
                  /\ RangeLeft(Narrowed(b, target, p)) < RangeLeft(p)
  <2>1. p.left \in 1 .. n /\ p.right \in 0 .. n /\ RangeLeft(p) \in 0 .. n
    BY RangeNarrows
  <2>2. ASSUME ~(p.left >= p.right) PROVE p.left < p.right
    BY <2>1, <2>2
  <2> QED BY <2>1, <2>2, RangeNarrows
<1> HIDE DEF n, Sound
<1>4. Bad = {}
  <2> SUFFICES ASSUME Bad # {} PROVE FALSE
    OBVIOUS
  <2>1. Bad \in SUBSET (0 .. n)
    OBVIOUS
  <2>2. PICK m \in Bad : \A k \in Bad : m <= k
    BY <1>0, <2>1, LeastOf
  <2>3. PICK p \in SearchRange(b) : RangeLeft(p) = m /\ Sound(p.left) /\ ~Sound(f[p])
    OBVIOUS
  <2>4. ~(p.left >= p.right) /\ f[p] = f[Narrowed(b, target, p)]
    BY <1>2, <2>3
  <2> DEFINE x == Narrowed(b, target, p)
  <2>5. x \in SearchRange(b) /\ Sound(x.left) /\ RangeLeft(x) < m
    BY <1>3, <2>3, <2>4
  <2>6. ~Sound(f[x])
    BY <2>3, <2>4
  <2> HIDE DEF x
  <2>7. RangeLeft(x) \in Bad
    BY <1>3, <2>5, <2>6
  <2>8. m \in Int /\ RangeLeft(x) \in Int
    BY <2>1, <2>7
  <2>9. m <= RangeLeft(x)
    BY <2>2, <2>7
  <2> QED BY <2>5, <2>8, <2>9
<1>5. [left |-> 1, right |-> n] \in SearchRange(b)
  BY <1>0 DEF SearchRange, n
<1>6. Sound([left |-> 1, right |-> n].left)
  BY <1>0 DEF Sound
<1>7. Sound(f[[left |-> 1, right |-> n]])
  BY <1>3, <1>4, <1>5, <1>6
<1>8. InTable!RestartBefore(b, target) = f[[left |-> 1, right |-> n]]
  BY RestartBeforeIs DEF f, n
<1> QED BY <1>7, <1>8 DEF Sound, n

(* Seek stops at the first key that is not before the target.              *)
LEMMA SeekInIs ==
  ASSUME NEW b, NEW ks, Packs(b, ks), ks # <<>>, KeysAscend(ks), NEW target \in TKeys
  PROVE  \/ /\ \A j \in 1 .. Len(ks) : InTable!Before(ks[j], target)
            /\ InTable!SeekIn(b, target) = InTable!Invalid(b)
         \/ \E i \in 1 .. Len(ks) :
              /\ ~InTable!Before(ks[i], target) /\ \A j \in 1 .. i - 1 : InTable!Before(ks[j], target)
              /\ PlacedIn(b, ks, InTable!SeekIn(b, target), i)
<1> DEFINE r == InTable!RestartBefore(b, target)
           n == Len(ks)
           s == b.restarts[r]
           reached == {i \in s .. n : ~InTable!Before(InTable!KeyFrom(b, r, i), target)}
           m == InTable!Min(reached \cup {n + 1})
<1>1. /\ n \in Nat /\ n # 0 /\ Len(b.entries) = n /\ InTable!End(b) = n + 1
      /\ InTable!NumRestarts(b) \in Nat \ {0} /\ InTable!NumRestarts(b) = Len(b.restarts)
      /\ b.restarts[1] = 1 /\ \A i \in 1 .. n : ks[i] \in TKeys
  BY PacksIs
<1>2. InTable!SeekIn(b, target) = InTable!ParseFrom(b, r, m)
  BY <1>1 DEF InTable!SeekIn
<1>3. r \in 1 .. Len(b.restarts) /\ (r = 1 \/ RestartLess(b, target, r))
  BY <1>1, RestartFound
<1> HIDE DEF r
<1>4. s \in 1 .. n /\ b.entries[s].rest = ks[s]
  BY <1>1, <1>3, PacksIs
<1>5. \A i \in s .. n : InTable!KeyFrom(b, r, i) = ks[i]
  BY <1>3, KeyFromIs
<1>6. reached = {i \in s .. n : ~InTable!Before(ks[i], target)}
  BY <1>5
<1>7. ASSUME NEW j \in 1 .. s - 1 PROVE InTable!Before(ks[j], target)
  <2>1. r # 1
    BY <1>1, <1>4
  <2>2. InTable!Before(ks[s], target)
    BY <1>3, <1>4, <2>1 DEF RestartLess
  <2>3. j \in 1 .. n /\ j < s /\ DOMAIN ks = 1 .. n
    <3>1. ks \in Seq(TKeys)
      BY PacksIs
    <3> QED BY <1>1, <1>4, <3>1
  <2>4. InTable!Before(ks[j], ks[s])
    BY <1>4, <2>3 DEF KeysAscend
  <2> QED BY <1>1, <1>4, <2>2, <2>3, <2>4, BeforeTrans
<1> HIDE DEF s, reached
<1>8. reached \cup {n + 1} \in SUBSET (0 .. n + 1) /\ n + 1 \in Nat
  BY <1>1, <1>4, <1>6
<1>9. m \in reached \cup {n + 1} /\ \A k \in reached \cup {n + 1} : m <= k
  BY <1>8, TableMin
<1> HIDE DEF m
<1>10. ASSUME NEW j \in 1 .. n, j < m PROVE InTable!Before(ks[j], target)
  <2>1. CASE j < s
    <3>1. j \in 1 .. s - 1
      BY <1>4, <2>1
    <3> QED BY <1>7, <3>1
  <2>2. CASE j >= s
    <3>1. j \in s .. n
      BY <1>4, <2>2
    <3>2. m \in Int
      BY <1>8, <1>9
    <3>3. j \notin reached
      BY <1>9, <1>10, <3>2
    <3> QED BY <1>6, <3>1, <3>3
  <2>3. j < s \/ j >= s
    BY <1>4
  <2> QED BY <2>1, <2>2, <2>3
<1>11. CASE m = n + 1
  <2>1. \A j \in 1 .. n : InTable!Before(ks[j], target)
    BY <1>1, <1>10, <1>11
  <2>2. m \in Nat /\ m > n
    BY <1>1, <1>11
  <2>3. InTable!SeekIn(b, target) = InTable!Invalid(b)
    BY <1>2, <1>3, <2>2, ParseFromIs
  <2> QED BY <2>1, <2>3
<1>12. CASE m \in reached
  <2>1. m \in s .. n /\ ~InTable!Before(ks[m], target)
    BY <1>6, <1>12
  <2>2. m \in 1 .. n /\ m \in Nat /\ \A j \in 1 .. m - 1 : j \in 1 .. n /\ j < m
    BY <1>1, <1>4, <2>1
  <2>3. \A j \in 1 .. m - 1 : InTable!Before(ks[j], target)
    BY <1>10, <2>2
  <2>4. PlacedIn(b, ks, InTable!SeekIn(b, target), m)
    BY <1>2, <1>3, <2>1, <2>2, ParseFromIs DEF s
  <2> QED BY <2>1, <2>2, <2>3, <2>4
<1> QED BY <1>9, <1>11, <1>12

-----------------------------------------------------------------------------
(* The invariant of a table file and its iterator.                         *)

TableKeys == {InTable!InternalKey(u, s) : u \in TableUserKeys, s \in 1 .. MaxSeq - 1}
TBlock == [entries : Seq(TEntry), restarts : Seq(Nat), counter : Nat, last : Seq(Nat)]
TTable == [data : TBlock, index : TBlock, blocks : Seq(TBlock), offsets : Seq(Nat),
           pending : BOOLEAN, filters : Seq(SUBSET TableUserKeys),
           filterKeys : SUBSET TableUserKeys, closed : BOOLEAN]

(* The n keys behind the first o; a block that holds those.                *)
Slice(ks, o, n) == [i \in 1 .. n |-> ks[o + i]]
PacksFrom(ks, b, o) ==
  /\ o \in Nat /\ o + Len(b.entries) <= Len(ks)
  /\ Packs(b, Slice(ks, o, Len(b.entries)))
  /\ \A i \in 1 .. Len(b.entries) : b.entries[i].value = o + i

EndOf(t, n) == t.offsets[n] + Len(t.blocks[n].entries)
OpenStart(ks, t) == Len(ks) - Len(t.data.entries)

(* The blocks hold the keys one after the other, the open one the rest.    *)
Laid(ks, t) ==
  /\ Len(t.offsets) = Len(t.blocks)
  /\ PacksFrom(ks, t.data, OpenStart(ks, t))
  /\ t.blocks = <<>> => OpenStart(ks, t) = 0
  /\ t.blocks # <<>> => t.offsets[1] = 0 /\ EndOf(t, Len(t.blocks)) = OpenStart(ks, t)
  /\ \A n \in 1 .. Len(t.blocks) :
       /\ PacksFrom(ks, t.blocks[n], t.offsets[n]) /\ t.blocks[n].entries # <<>>
       /\ EndOf(t, n) <= OpenStart(ks, t)
       /\ n < Len(t.blocks) => /\ t.offsets[n + 1] = EndOf(t, n)
                               /\ EndOf(t, n) < OpenStart(ks, t)

(* The index: a block's last key or a key of a user key that divides it    *)
(* from the next one's first.                                              *)
Divides(ks, e, x) ==
  /\ ~InTable!Before(x, ks[e])
  /\ e < Len(ks) => x = ks[e] \/ Smaller(InTable!ExtractUserKey(x), InTable!ExtractUserKey(ks[e + 1]))
Indexed(ks, t, ik) ==
  /\ Packs(t.index, ik) /\ KeysAscend(ik)
  /\ Len(ik) = Len(t.blocks) - (IF t.pending THEN 1 ELSE 0)
  /\ \A n \in 1 .. Len(ik) : t.index.entries[n].value = n /\ Divides(ks, EndOf(t, n), ik[n])

(* The filters: a block's user keys are in the one of its offset.          *)
FilterOf(t, f) == IF f < Len(t.filters) THEN t.filters[f + 1] ELSE t.filterKeys
Filtered(ks, t) ==
  /\ \A n \in 1 .. Len(t.blocks) :
       /\ t.offsets[n] \div FilterBase <= Len(t.filters)
       /\ \A i \in 1 .. Len(t.blocks[n].entries) :
            InTable!ExtractUserKey(ks[t.offsets[n] + i]) \in FilterOf(t, t.offsets[n] \div FilterBase)
  /\ ~t.closed => /\ Len(t.filters) = OpenStart(ks, t) \div FilterBase
                  /\ \A i \in OpenStart(ks, t) + 1 .. Len(ks) : InTable!ExtractUserKey(ks[i]) \in t.filterKeys

TableRight(ks, t, ik) ==
  /\ ks \in Seq(TableKeys) /\ KeysAscend(ks) /\ t \in TTable
  /\ Laid(ks, t) /\ Indexed(ks, t, ik) /\ Filtered(ks, t)
  /\ t.pending <=> t.blocks # <<>> /\ t.data.entries = <<>> /\ ~t.closed
  /\ t.closed => t.data.entries = <<>> /\ ks # <<>>

(* An iterator at a place in the keys is at its block and entry.           *)
WithinBlock(ks, t, ik, it, g, n) ==
  /\ PlacedIn(t.index, ik, it.index, n) /\ it.block = t.blocks[n]
  /\ PlacedIn(t.blocks[n], Slice(ks, t.offsets[n], Len(t.blocks[n].entries)),
              it.data, g - t.offsets[n])
AtPlace(ks, t, ik, it, g) ==
  /\ g \in 0 .. Len(ks) /\ it.index.at \in 1 .. InTable!End(t.index)
  /\ g # 0 => \E n \in 1 .. Len(t.blocks) : WithinBlock(ks, t, ik, it, g, n)
  /\ g = 0 => ~InTable!Valid(it.block, it.data)

TableInv ==
  \E ik : /\ TableRight(keys, table, ik)
          /\ AtPlace(keys, table, ik, tableIter, place)
          /\ ~table.closed => tableIter = InTable!Unplaced /\ place = 0

-----------------------------------------------------------------------------
LEMMA TableKeysAre ==
  /\ TableKeys \subseteq TKeys
  /\ \A k \in TableKeys : InTable!ExtractUserKey(k) \in TableUserKeys
<1> SUFFICES ASSUME NEW u \in TableUserKeys, NEW s \in 1 .. MaxSeq - 1
             PROVE  /\ InTable!InternalKey(u, s) \in TKeys
                    /\ InTable!ExtractUserKey(InTable!InternalKey(u, s)) \in TableUserKeys
  BY DEF TableKeys
<1>1. u \in Seq(Nat) /\ s \in Nat
  BY TableConstants
<1> QED BY <1>1, TKeyMade

LEMMA SliceIs ==
  ASSUME NEW ks \in Seq(TKeys), NEW o \in Nat, NEW n \in Nat, o + n <= Len(ks)
  PROVE  /\ Slice(ks, o, n) \in Seq(TKeys) /\ Len(Slice(ks, o, n)) = n
         /\ \A i \in 1 .. n : Slice(ks, o, n)[i] = ks[o + i]
         /\ KeysAscend(ks) => KeysAscend(Slice(ks, o, n))
<1>1. Len(ks) \in Nat /\ DOMAIN ks = 1 .. Len(ks) /\ \A i \in 1 .. Len(ks) : ks[i] \in TKeys
  OBVIOUS
<1>2. \A i \in 1 .. n : o + i \in 1 .. Len(ks)
  BY <1>1
<1> DEFINE p == Slice(ks, o, n)
<1>3. p = [i \in 1 .. n |-> ks[o + i]]
  BY DEF Slice
<1>4. p \in [1 .. n -> TKeys]
  BY <1>1, <1>2, <1>3
<1>5. p \in Seq(TKeys) /\ Len(p) = n /\ DOMAIN p = 1 .. n
  BY <1>4
<1>6. \A i \in 1 .. n : p[i] = ks[o + i]
  BY <1>3
<1> HIDE DEF p
<1>7. ASSUME KeysAscend(ks) PROVE KeysAscend(p)
  <2> SUFFICES ASSUME NEW i \in 1 .. n, NEW j \in 1 .. n, i < j PROVE InTable!Before(p[i], p[j])
    BY <1>5 DEF KeysAscend
  <2>1. o + i \in 1 .. Len(ks) /\ o + j \in 1 .. Len(ks) /\ o + i < o + j
    BY <1>2
  <2>2. InTable!Before(ks[o + i], ks[o + j])
    BY <1>1, <1>7, <2>1 DEF KeysAscend
  <2> QED BY <1>6, <2>2
<1> QED BY <1>5, <1>6, <1>7 DEF p

LEMMA PacksFromIs ==
  ASSUME NEW ks \in Seq(TKeys), NEW b, NEW o, PacksFrom(ks, b, o)
  PROVE  /\ o \in Nat /\ b.entries \in Seq(TEntry) /\ Len(b.entries) \in Nat
         /\ o + Len(b.entries) <= Len(ks)
         /\ Packs(b, Slice(ks, o, Len(b.entries)))
         /\ Len(Slice(ks, o, Len(b.entries))) = Len(b.entries)
         /\ \A i \in 1 .. Len(b.entries) : b.entries[i].value = o + i
<1>1. /\ o \in Nat /\ o + Len(b.entries) <= Len(ks)
      /\ Packs(b, Slice(ks, o, Len(b.entries)))
      /\ \A i \in 1 .. Len(b.entries) : b.entries[i].value = o + i
  BY DEF PacksFrom
<1>2. b.entries \in Seq(TEntry)
  BY <1>1, PacksIs
<1>3. Len(b.entries) \in Nat
  BY <1>2
<1> QED BY <1>1, <1>2, <1>3, SliceIs

(* Keys added behind do not touch what a block holds.                      *)
LEMMA PacksFromGrows ==
  ASSUME NEW ks \in Seq(TKeys), NEW k \in TKeys, NEW b, NEW o, PacksFrom(ks, b, o)
  PROVE  PacksFrom(Append(ks, k), b, o)
<1> DEFINE n == Len(b.entries)
           ls == Append(ks, k)
<1>1. /\ o \in Nat /\ n \in Nat /\ o + n <= Len(ks) /\ Packs(b, Slice(ks, o, n))
      /\ \A i \in 1 .. n : b.entries[i].value = o + i
  BY PacksFromIs
<1>2. Len(ks) \in Nat /\ Len(ls) = Len(ks) + 1 /\ \A i \in 1 .. Len(ks) : ls[i] = ks[i]
  OBVIOUS
<1> HIDE DEF ls
<1>3. \A i \in 1 .. n : o + i \in 1 .. Len(ks)
  BY <1>1, <1>2
<1>4. Slice(ls, o, n) = Slice(ks, o, n)
  BY <1>2, <1>3 DEF Slice
<1>5. o + n <= Len(ls)
  BY <1>1, <1>2
<1>6. PacksFrom(ls, b, o)
  BY <1>1, <1>4, <1>5 DEF PacksFrom
<1> QED BY <1>6 DEF ls

LEMMA BlockAdded ==
  ASSUME NEW b, NEW ks, Packs(b, ks), NEW k \in TKeys, NEW v \in Nat, NEW interval \in Nat \ {0}
  PROVE  InTable!AddTo(b, k, v, interval) \in TBlock
<1> DEFINE c == InTable!AddTo(b, k, v, interval)
<1>1. Packs(c, Append(ks, k))
  BY PacksAdded
<1>2. c.entries \in Seq(TEntry) /\ c.restarts \in Seq(Nat \ {0}) /\ c.counter \in Nat
  BY <1>1 DEF Packs
<1>3. c.last = k /\ c = [entries |-> c.entries, restarts |-> c.restarts,
                         counter |-> c.counter, last |-> c.last]
  BY DEF InTable!AddTo
<1> HIDE DEF c
<1>4. c.restarts \in Seq(Nat)
  BY <1>2
<1>5. k \in Seq(Nat)
  BY DEF TKeys
<1>6. c \in TBlock
  BY <1>2, <1>3, <1>4, <1>5 DEF TBlock
<1> QED BY <1>6 DEF c

(* The next key is put into the block that holds all that are left.        *)
LEMMA PacksFromAdded ==
  ASSUME NEW ks \in Seq(TKeys), NEW k \in TKeys, NEW b, NEW o, PacksFrom(ks, b, o),
         o + Len(b.entries) = Len(ks)
  PROVE  /\ PacksFrom(Append(ks, k), InTable!AddTo(b, k, Len(ks) + 1, RestartInterval), o)
         /\ InTable!AddTo(b, k, Len(ks) + 1, RestartInterval) \in TBlock
         /\ Len(InTable!AddTo(b, k, Len(ks) + 1, RestartInterval).entries) = Len(b.entries) + 1
<1> DEFINE n == Len(b.entries)
           ls == Append(ks, k)
           v == Len(ks) + 1
           c == InTable!AddTo(b, k, v, RestartInterval)
           p == Slice(ks, o, n)
<1>1. /\ o \in Nat /\ n \in Nat /\ o + n = Len(ks) /\ Packs(b, p)
      /\ b.entries \in Seq(TEntry)
      /\ \A i \in 1 .. n : b.entries[i].value = o + i
  BY PacksFromIs
<1>2. /\ Len(ks) \in Nat /\ Len(ls) = Len(ks) + 1 /\ \A i \in 1 .. Len(ks) : ls[i] = ks[i]
      /\ ls[Len(ks) + 1] = k /\ ls \in Seq(TKeys)
  OBVIOUS
<1>3. v \in Nat /\ RestartInterval \in Nat \ {0}
  BY <1>2, TableConstants
<1> HIDE DEF ls, v, n
<1>b. o + n <= Len(ks)
  BY <1>1, <1>2
<1>4. p \in Seq(TKeys) /\ Len(p) = n /\ \A i \in 1 .. n : p[i] = ks[o + i]
  BY <1>1, <1>b, SliceIs
<1> HIDE DEF c, p
<1>5. c \in TBlock /\ Packs(c, Append(p, k))
  BY <1>1, <1>3, BlockAdded, PacksAdded DEF c
<1>a. \E e \in TEntry : e.value = v /\ InTable!AddTo(b, k, v, RestartInterval).entries = Append(b.entries, e)
  <2>1. Packs(b, p)
    BY <1>1
  <2> QED BY ONLY <1>3, <2>1, k \in TKeys, PacksAdded
<1>6. PICK e \in TEntry : e.value = v /\ c.entries = Append(b.entries, e)
  BY <1>a DEF c
<1>7. /\ Len(c.entries) = n + 1 /\ c.entries[n + 1] = e
      /\ \A i \in 1 .. n : c.entries[i] = b.entries[i]
  BY <1>1, <1>6
<1>8. Append(p, k) = Slice(ls, o, n + 1)
  <2> DEFINE q == Append(p, k)
             r == Slice(ls, o, n + 1)
  <2>1. q \in Seq(TKeys) /\ Len(q) = n + 1 /\ q[n + 1] = k /\ \A i \in 1 .. n : q[i] = p[i]
    BY <1>4, <1>1
  <2>2. r \in Seq(TKeys) /\ Len(r) = n + 1 /\ \A i \in 1 .. n + 1 : r[i] = ls[o + i]
    <3>1. n + 1 \in Nat /\ o + (n + 1) <= Len(ls)
      BY <1>1, <1>2
    <3> QED BY <1>1, <1>2, <3>1, SliceIs
  <2> HIDE DEF q, r
  <2>3. ASSUME NEW i \in 1 .. n + 1 PROVE q[i] = r[i]
    <3>1. CASE i = n + 1
      <4>1. o + i = Len(ks) + 1
        BY <1>1, <1>2, <3>1
      <4>2. r[i] = k
        BY <1>2, <2>2, <4>1
      <4> QED BY <2>1, <3>1, <4>2
    <3>2. CASE i # n + 1
      <4>1. i \in 1 .. n /\ o + i \in 1 .. Len(ks)
        BY <1>1, <3>2
      <4>2. q[i] = ks[o + i] /\ r[i] = ls[o + i] /\ ls[o + i] = ks[o + i]
        BY <1>2, <1>4, <2>1, <2>2, <4>1
      <4> QED BY <4>2
    <3> QED BY <3>1, <3>2
  <2>4. q = r
    BY <2>1, <2>2, <2>3, SeqEqual
  <2> QED BY <2>4 DEF q, r
<1>9. ASSUME NEW i \in 1 .. n + 1 PROVE c.entries[i].value = o + i
  <2>1. CASE i = n + 1
    <3>1. v = o + i
      BY <1>1, <1>2, <2>1 DEF v
    <3> QED BY <1>6, <1>7, <2>1, <3>1
  <2>2. CASE i # n + 1
    <3>1. i \in 1 .. n
      BY <1>1, <2>2
    <3> QED BY <1>1, <1>7, <3>1
  <2> QED BY <2>1, <2>2
<1>10. o + (n + 1) <= Len(ls)
  BY <1>1, <1>2
<1>11. PacksFrom(ls, c, o)
  BY <1>1, <1>5, <1>7, <1>8, <1>9, <1>10 DEF PacksFrom
<1> QED BY <1>5, <1>7, <1>11 DEF ls, v, c, n

-----------------------------------------------------------------------------
LEMMA TableFields ==
  ASSUME NEW t \in TTable
  PROVE  /\ t.data \in TBlock /\ t.index \in TBlock /\ t.blocks \in Seq(TBlock)
         /\ t.offsets \in Seq(Nat) /\ t.pending \in BOOLEAN /\ t.closed \in BOOLEAN
         /\ t.filters \in Seq(SUBSET TableUserKeys) /\ t.filterKeys \in SUBSET TableUserKeys
BY DEF TTable

LEMMA TableLaid ==
  ASSUME NEW ks, NEW t, NEW ik, TableRight(ks, t, ik)
  PROVE  /\ ks \in Seq(TKeys) /\ Len(ks) \in Nat
         /\ t.blocks \in Seq(TBlock) /\ Len(t.blocks) \in Nat
         /\ Len(t.offsets) = Len(t.blocks)
         /\ OpenStart(ks, t) \in Nat /\ Len(t.data.entries) \in Nat
         /\ OpenStart(ks, t) + Len(t.data.entries) = Len(ks)
         /\ PacksFrom(ks, t.data, OpenStart(ks, t))
         /\ \A n \in 1 .. Len(t.blocks) :
              /\ t.offsets[n] \in Nat /\ PacksFrom(ks, t.blocks[n], t.offsets[n])
              /\ Len(t.blocks[n].entries) \in Nat \ {0}
              /\ EndOf(t, n) \in 1 .. Len(ks) /\ t.offsets[n] < EndOf(t, n)
              /\ EndOf(t, n) <= OpenStart(ks, t)
              /\ n < Len(t.blocks) => EndOf(t, n) < OpenStart(ks, t)
              /\ n = Len(t.blocks) => EndOf(t, n) = OpenStart(ks, t)
         /\ t.pending => /\ Len(t.blocks) \in 1 .. Len(t.blocks) /\ OpenStart(ks, t) = Len(ks)
                         /\ ~t.closed
<1>1. /\ ks \in Seq(TableKeys) /\ t \in TTable /\ Laid(ks, t)
      /\ t.pending <=> t.blocks # <<>> /\ t.data.entries = <<>> /\ ~t.closed
  BY DEF TableRight
<1>2. ks \in Seq(TKeys)
  BY <1>1, TableKeysAre
<1>3. t.blocks \in Seq(TBlock) /\ t.offsets \in Seq(Nat)
  BY <1>1, TableFields
<1>4. /\ Len(t.offsets) = Len(t.blocks)
      /\ PacksFrom(ks, t.data, OpenStart(ks, t))
      /\ t.blocks # <<>> => EndOf(t, Len(t.blocks)) = OpenStart(ks, t)
      /\ \A n \in 1 .. Len(t.blocks) :
           /\ PacksFrom(ks, t.blocks[n], t.offsets[n]) /\ t.blocks[n].entries # <<>>
           /\ EndOf(t, n) <= OpenStart(ks, t)
           /\ n < Len(t.blocks) => EndOf(t, n) < OpenStart(ks, t)
  BY <1>1 DEF Laid
<1>5. Len(ks) \in Nat /\ Len(t.blocks) \in Nat
  BY <1>2, <1>3
<1>6. OpenStart(ks, t) \in Nat /\ Len(t.data.entries) \in Nat
  BY <1>2, <1>4, PacksFromIs
<1>7. OpenStart(ks, t) + Len(t.data.entries) = Len(ks)
  BY <1>5, <1>6 DEF OpenStart
<1>8. ASSUME NEW n \in 1 .. Len(t.blocks)
      PROVE  /\ t.offsets[n] \in Nat /\ PacksFrom(ks, t.blocks[n], t.offsets[n])
             /\ Len(t.blocks[n].entries) \in Nat \ {0}
             /\ EndOf(t, n) \in 1 .. Len(ks) /\ t.offsets[n] < EndOf(t, n)
             /\ EndOf(t, n) <= OpenStart(ks, t)
             /\ n < Len(t.blocks) => EndOf(t, n) < OpenStart(ks, t)
             /\ n = Len(t.blocks) => EndOf(t, n) = OpenStart(ks, t)
  <2>1. /\ t.offsets[n] \in Nat /\ t.blocks[n].entries \in Seq(TEntry)
        /\ Len(t.blocks[n].entries) \in Nat
    BY <1>2, <1>4, PacksFromIs
  <2>2. Len(t.blocks[n].entries) # 0
    BY <1>4, <2>1
  <2>3. /\ EndOf(t, n) = t.offsets[n] + Len(t.blocks[n].entries)
        /\ EndOf(t, n) <= OpenStart(ks, t)
    BY <1>4 DEF EndOf
  <2>4. t.blocks # <<>>
    BY <1>3
  <2> DEFINE o == t.offsets[n]
             l == Len(t.blocks[n].entries)
             s == OpenStart(ks, t)
             z == Len(ks)
  <2>5. /\ o \in Nat /\ l \in Nat /\ l # 0 /\ EndOf(t, n) = o + l /\ EndOf(t, n) <= s
        /\ s \in Nat /\ z \in Nat /\ s <= z
    BY <1>5, <1>6, <1>7, <2>1, <2>2, <2>3
  <2> HIDE DEF o, l, s, z
  <2>6. EndOf(t, n) \in 1 .. z /\ o < EndOf(t, n) /\ l \in Nat \ {0}
    BY <2>5
  <2>7. n = Len(t.blocks) => EndOf(t, n) = s
    BY <1>4, <2>4 DEF s
  <2> QED BY <1>4, <2>1, <2>5, <2>6, <2>7 DEF o, l, s, z
<1>9. ASSUME t.pending
      PROVE  Len(t.blocks) \in 1 .. Len(t.blocks) /\ OpenStart(ks, t) = Len(ks) /\ ~t.closed
  <2>1. t.blocks # <<>> /\ t.data.entries = <<>> /\ ~t.closed
    BY <1>1, <1>9
  <2>2. Len(t.data.entries) = 0
    BY <2>1
  <2>3. Len(t.blocks) # 0
    BY <1>3, <2>1
  <2> QED BY <1>5, <1>6, <1>7, <2>1, <2>2, <2>3
<1> QED BY <1>2, <1>3, <1>4, <1>5, <1>6, <1>7, <1>8, <1>9

(* The entry for a block is added to the index when a key of the next is   *)
(* known, or at the end.                                                   *)
IndexGrown(t, ik, x) ==
  LET b == InTable!AddTo(t.index, x, Len(t.blocks), 1) IN
  /\ InTable!AddIndex(t, x) = [t EXCEPT !.index = b, !.pending = FALSE]
  /\ InTable!AddIndex(t, x) \in TTable
  /\ Packs(b, Append(ik, x)) /\ KeysAscend(Append(ik, x))
  /\ Len(Append(ik, x)) = Len(t.blocks)
  /\ \A n \in 1 .. Len(t.blocks) :
       /\ b.entries[n].value = n
       /\ \/ n < Len(t.blocks) /\ Append(ik, x)[n] = ik[n] /\ n \in 1 .. Len(ik)
          \/ n = Len(t.blocks) /\ Append(ik, x)[n] = x

LEMMA IndexAdded ==
  ASSUME NEW ks, NEW t, NEW ik, TableRight(ks, t, ik), t.pending = TRUE,
         NEW x \in TKeys, ~InTable!Before(x, ks[Len(ks)])
  PROVE  IndexGrown(t, ik, x)
<1> DEFINE b == InTable!AddTo(t.index, x, Len(t.blocks), 1)
           jk == Append(ik, x)
           m == Len(t.blocks)
<1>1. /\ ks \in Seq(TKeys) /\ Len(ks) \in Nat /\ m \in Nat /\ m \in 1 .. m
      /\ OpenStart(ks, t) = Len(ks)
      /\ \A n \in 1 .. m : /\ EndOf(t, n) \in 1 .. Len(ks)
                           /\ n < m => EndOf(t, n) < Len(ks)
  BY TableLaid
<1>2. /\ Packs(t.index, ik) /\ KeysAscend(ik) /\ Len(ik) = m - 1
      /\ \A n \in 1 .. Len(ik) : t.index.entries[n].value = n /\ Divides(ks, EndOf(t, n), ik[n])
  BY DEF TableRight, Indexed
<1>3. KeysAscend(ks) /\ t \in TTable
  BY DEF TableRight
<1>4. ik \in Seq(TKeys) /\ t.index.entries \in Seq(TEntry) /\ Len(t.index.entries) = m - 1
  BY <1>2, PacksIs
<1>a. Packs(t.index, ik) /\ m \in Nat /\ 1 \in Nat \ {0}
  BY <1>1, <1>2
<1> HIDE DEF m
<1>5. /\ Packs(InTable!AddTo(t.index, x, m, 1), jk)
      /\ InTable!AddTo(t.index, x, m, 1) \in TBlock
  BY ONLY <1>a, x \in TKeys, PacksAdded, BlockAdded
<1>6. \E e \in TEntry : e.value = m /\ InTable!AddTo(t.index, x, m, 1).entries = Append(t.index.entries, e)
  <2> DEFINE i == t.index
             j == 1
  <2>1. Packs(i, ik) /\ m \in Nat /\ j \in Nat \ {0}
    BY <1>a
  <2> HIDE DEF i, j
  <2>2. \E e \in TEntry : e.value = m /\ InTable!AddTo(i, x, m, j).entries = Append(i.entries, e)
    BY ONLY <2>1, x \in TKeys, PacksAdded
  <2> QED BY <2>2 DEF i, j
<1>7. PICK e \in TEntry : e.value = m /\ InTable!AddTo(t.index, x, m, 1).entries = Append(t.index.entries, e)
  BY <1>6
<1> USE DEF m
<1>8. Packs(b, jk) /\ b \in TBlock /\ b.entries = Append(t.index.entries, e)
  BY <1>5, <1>7
<1> HIDE DEF b, m
<1>9. /\ jk \in Seq(TKeys) /\ Len(jk) = m /\ jk[m] = x
      /\ \A n \in 1 .. m - 1 : jk[n] = ik[n]
  BY <1>1, <1>2, <1>4
<1>10. /\ b.entries[m] = e /\ \A n \in 1 .. m - 1 : b.entries[n] = t.index.entries[n]
  BY <1>1, <1>4, <1>8
<1> HIDE DEF jk
<1>11. ASSUME NEW n \in 1 .. m - 1 PROVE InTable!Before(ik[n], x)
  <2> DEFINE e1 == EndOf(t, n)
             z == Len(ks)
  <2>1. n \in 1 .. m /\ n < m /\ n \in 1 .. Len(ik)
    BY <1>1, <1>2
  <2>2. e1 \in 1 .. z /\ e1 < z /\ Divides(ks, e1, ik[n])
    BY <1>1, <1>2, <2>1
  <2> HIDE DEF e1
  <2>3. e1 + 1 \in 1 .. z /\ e1 \in 1 .. z /\ z \in 1 .. z /\ DOMAIN ks = 1 .. z
    BY <1>1, <2>2
  <2>4. ik[n] \in TKeys /\ ks[e1] \in TKeys /\ ks[e1 + 1] \in TKeys /\ ks[z] \in TKeys
    BY <1>1, <1>4, <2>1, <2>3
  <2>5. InTable!Before(ks[e1], ks[e1 + 1])
    BY <1>3, <2>2, <2>3 DEF KeysAscend
  <2>6. InTable!Before(ik[n], ks[e1 + 1])
    <3>1. ik[n] = ks[e1] \/ Smaller(InTable!ExtractUserKey(ik[n]), InTable!ExtractUserKey(ks[e1 + 1]))
      BY <2>2 DEF Divides
    <3> QED BY <2>4, <2>5, <3>1, BeforeIs
  <2>7. ~InTable!Before(ks[z], ks[e1 + 1])
    <3>1. e1 + 1 = z \/ e1 + 1 < z
      BY <1>1, <2>2
    <3>2. ASSUME e1 + 1 < z PROVE InTable!Before(ks[e1 + 1], ks[z])
      BY <1>3, <2>3, <3>2 DEF KeysAscend
    <3> QED BY <2>4, <3>1, <3>2, BeforeFrom, BeforeIrreflexive
  <2>8. InTable!Before(ik[n], ks[z])
    BY <2>4, <2>6, <2>7, BeforeFrom
  <2> QED BY <2>4, <2>8, BeforeFrom
<1>12. KeysAscend(jk)
  <2> SUFFICES ASSUME NEW i \in 1 .. m, NEW j \in 1 .. m, i < j PROVE InTable!Before(jk[i], jk[j])
    <3>1. DOMAIN jk = 1 .. m
      BY <1>9
    <3> QED BY <3>1 DEF KeysAscend
  <2>1. i \in 1 .. m - 1
    BY <1>1
  <2>2. CASE j = m
    BY <1>9, <1>11, <2>1, <2>2
  <2>3. CASE j # m
    <3>1. j \in 1 .. m - 1 /\ i \in DOMAIN ik /\ j \in DOMAIN ik
      BY <1>1, <1>2, <1>4, <2>1, <2>3
    <3>2. InTable!Before(ik[i], ik[j])
      BY <1>2, <3>1 DEF KeysAscend
    <3> QED BY <1>9, <2>1, <3>1, <3>2
  <2> QED BY <2>2, <2>3
<1>13. ASSUME NEW n \in 1 .. m
       PROVE  /\ b.entries[n].value = n
              /\ \/ n < m /\ jk[n] = ik[n] /\ n \in 1 .. Len(ik)
                 \/ n = m /\ jk[n] = x
  <2>1. CASE n = m
    BY <1>7, <1>9, <1>10, <2>1
  <2>2. CASE n # m
    <3>1. n \in 1 .. m - 1 /\ n < m /\ n \in 1 .. Len(ik)
      BY <1>1, <1>2, <2>2
    <3> QED BY <1>2, <1>9, <1>10, <3>1
  <2> QED BY <2>1, <2>2
<1>14. InTable!AddIndex(t, x) = [t EXCEPT !.index = b, !.pending = FALSE]
  BY DEF InTable!AddIndex, b
<1>15. InTable!AddIndex(t, x) \in TTable
  BY <1>3, <1>8, <1>14 DEF TTable
<1> QED BY <1>8, <1>9, <1>12, <1>13, <1>14, <1>15 DEF b, jk, m, IndexGrown

LEMMA DividesGrows ==
  ASSUME NEW ks \in Seq(TKeys), NEW k, NEW e \in 1 .. Len(ks), NEW x, Divides(ks, e, x),
         e = Len(ks) => x = ks[e] \/ Smaller(InTable!ExtractUserKey(x), InTable!ExtractUserKey(k)),
         NEW ls, ls = Append(ks, k)
  PROVE  Divides(ls, e, x)
<1>1. /\ Len(ks) \in Nat /\ Len(ls) = Len(ks) + 1 /\ ls[Len(ks) + 1] = k
      /\ \A i \in 1 .. Len(ks) : ls[i] = ks[i]
  OBVIOUS
<1>2. /\ ~InTable!Before(x, ks[e])
      /\ e < Len(ks) => x = ks[e] \/ Smaller(InTable!ExtractUserKey(x), InTable!ExtractUserKey(ks[e + 1]))
  BY DEF Divides
<1>3. ls[e] = ks[e]
  BY <1>1
<1>4. e = Len(ks) => ls[e + 1] = k
  BY <1>1
<1>5. e < Len(ks) => ls[e + 1] = ks[e + 1]
  BY <1>1
<1>6. e = Len(ks) \/ e < Len(ks)
  BY <1>1
<1> QED BY <1>2, <1>3, <1>4, <1>5, <1>6 DEF Divides

(* With the next key the index has an entry for every block that is full.  *)
AllIndexed(ls, t, u) ==
  /\ u \in TTable /\ u.blocks = t.blocks /\ u.offsets = t.offsets /\ u.data = t.data
  /\ u.filters = t.filters /\ u.filterKeys = t.filterKeys /\ u.closed = FALSE
  /\ u.pending = FALSE
  /\ \E jk : Indexed(ls, u, jk)

LEMMA IndexedForNext ==
  ASSUME NEW ks, NEW t, NEW ik, TableRight(ks, t, ik), t.closed = FALSE, NEW k \in TableKeys,
         ks # <<>> => InTable!Before(ks[Len(ks)], k),
         NEW u, u = IF ks = <<>> THEN t
                    ELSE InTable!AddIndex(t, InTable!FindShortestSeparator(ks[Len(ks)], k)),
         NEW ls, ls = Append(ks, k)
  PROVE  AllIndexed(ls, t, u)
<1> DEFINE m == Len(t.blocks)
           z == Len(ks)
<1>1. /\ ks \in Seq(TKeys) /\ z \in Nat /\ m \in Nat
      /\ OpenStart(ks, t) \in Nat /\ Len(t.data.entries) \in Nat
      /\ OpenStart(ks, t) + Len(t.data.entries) = z
      /\ t.blocks \in Seq(TBlock)
      /\ \A n \in 1 .. m : EndOf(t, n) \in 1 .. z /\ EndOf(t, n) <= OpenStart(ks, t)
      /\ t.pending => m \in 1 .. m /\ OpenStart(ks, t) = z
  BY TableLaid
<1>2. /\ t \in TTable /\ Indexed(ks, t, ik)
      /\ t.pending <=> t.blocks # <<>> /\ t.data.entries = <<>> /\ ~t.closed
  BY DEF TableRight
<1>3. t.pending \in BOOLEAN /\ t.closed = FALSE
  BY <1>2, TableFields
<1>4. k \in TKeys /\ \A i \in 1 .. z : ks[i] \in TKeys
  BY <1>1, TableKeysAre
<1>5. /\ Packs(t.index, ik) /\ KeysAscend(ik) /\ Len(ik) = m - (IF t.pending THEN 1 ELSE 0)
      /\ \A n \in 1 .. Len(ik) : t.index.entries[n].value = n /\ Divides(ks, EndOf(t, n), ik[n])
  BY <1>2 DEF Indexed
<1>6. CASE t.pending = TRUE
  <2> DEFINE x == InTable!FindShortestSeparator(ks[z], k)
             b == InTable!AddTo(t.index, x, m, 1)
             jk == Append(ik, x)
  <2>1. z \in 1 .. z /\ ks # <<>>
    <3>1. EndOf(t, m) \in 1 .. z
      BY <1>1, <1>6
    <3>2. z # 0
      BY <1>1, <3>1
    <3> QED BY <1>1, <3>2
  <2>2. /\ x \in TKeys /\ ~InTable!Before(x, ks[z])
        /\ x = ks[z] \/ Smaller(InTable!ExtractUserKey(x), InTable!ExtractUserKey(k))
    BY <1>4, <2>1, ShortestSeparatorIs
  <2>3. u = InTable!AddIndex(t, x)
    BY <2>1
  <2> HIDE DEF x
  <2>4. /\ u = [t EXCEPT !.index = b, !.pending = FALSE] /\ u \in TTable
        /\ Packs(b, jk) /\ KeysAscend(jk) /\ Len(jk) = m
        /\ \A n \in 1 .. m :
             /\ b.entries[n].value = n
             /\ \/ n < m /\ jk[n] = ik[n] /\ n \in 1 .. Len(ik)
                \/ n = m /\ jk[n] = x
    <3>1. /\ TableRight(ks, t, ik) /\ t.pending = TRUE
          /\ x \in TKeys /\ ~InTable!Before(x, ks[Len(ks)])
      BY <1>6, <2>2
    <3>2. IndexGrown(t, ik, x)
      BY ONLY <3>1, IndexAdded
    <3>3. /\ InTable!AddIndex(t, x) = [t EXCEPT !.index = b, !.pending = FALSE]
          /\ InTable!AddIndex(t, x) \in TTable
          /\ Packs(b, jk) /\ KeysAscend(jk) /\ Len(jk) = m
          /\ \A n \in 1 .. m :
               /\ b.entries[n].value = n
               /\ \/ n < m /\ jk[n] = ik[n] /\ n \in 1 .. Len(ik)
                  \/ n = m /\ jk[n] = x
      BY ONLY <3>2, Zenon DEF IndexGrown
    <3> HIDE DEF b, jk
    <3> QED BY ONLY <2>3, <3>3
  <2> HIDE DEF b, jk, m
  <2>5. /\ u.blocks = t.blocks /\ u.offsets = t.offsets /\ u.data = t.data
        /\ u.filters = t.filters /\ u.filterKeys = t.filterKeys /\ u.closed = t.closed
        /\ u.pending = FALSE /\ u.index = b
    BY <1>2, <2>4 DEF TTable
  <2>6. \A n \in 1 .. m : EndOf(u, n) = EndOf(t, n)
    BY <2>5 DEF EndOf
  <2>7. ASSUME NEW n \in 1 .. m PROVE Divides(ls, EndOf(t, n), jk[n])
    <3>1. EndOf(t, n) \in 1 .. z
      BY <1>1
    <3>2. CASE n < m /\ jk[n] = ik[n] /\ n \in 1 .. Len(ik)
      <4>1. Divides(ks, EndOf(t, n), ik[n])
        BY <1>5, <3>2
      <4>2. EndOf(t, n) < z
        <5>1. n < Len(t.blocks) /\ n \in 1 .. Len(t.blocks)
          BY <3>2 DEF m
        <5>2. EndOf(t, n) < OpenStart(ks, t)
          BY <5>1, TableLaid
        <5> QED BY <1>1, <1>6, <5>2
      <4>3. EndOf(t, n) # z
        BY <3>1, <4>2
      <4> QED BY <1>1, <3>1, <3>2, <4>1, <4>3, DividesGrows
    <3>3. CASE n = m /\ jk[n] = x
      <4>1. EndOf(t, n) = z
        <5>1. n = Len(t.blocks) /\ n \in 1 .. Len(t.blocks)
          BY <3>3 DEF m
        <5>2. EndOf(t, n) = OpenStart(ks, t)
          BY <5>1, TableLaid
        <5> QED BY <1>1, <1>6, <5>2
      <4>2. Divides(ks, z, x)
        BY <1>1, <2>2 DEF Divides
      <4>3. z \in 1 .. Len(ks) /\ Divides(ls, z, x)
        BY <1>1, <2>1, <2>2, <4>2, DividesGrows
      <4> QED BY <3>3, <4>1, <4>3
    <3> QED BY <2>4, <3>2, <3>3
  <2>8. Len(u.blocks) - (IF u.pending THEN 1 ELSE 0) = m
    <3>1. m \in Nat /\ Len(u.blocks) = m
      BY <1>1, <2>5 DEF m
    <3> QED BY <2>5, <3>1
  <2>9. Indexed(ls, u, jk)
    BY <2>4, <2>5, <2>6, <2>7, <2>8 DEF Indexed
  <2> QED BY <1>3, <2>4, <2>5, <2>9 DEF AllIndexed
<1>7. CASE t.pending = FALSE
  <2>1. u = t
    BY <1>7 DEF InTable!AddIndex
  <2>2. Len(ik) = m
    <3>1. Len(ik) = m - 0
      BY <1>5, <1>7
    <3> QED BY <1>1, <3>1
  <2>3. ASSUME NEW n \in 1 .. m PROVE Divides(ls, EndOf(t, n), ik[n])
    <3>1. EndOf(t, n) \in 1 .. z /\ Divides(ks, EndOf(t, n), ik[n])
      BY <1>1, <1>5, <2>2
    <3>2. t.data.entries # <<>>
      <4>1. t.blocks # <<>>
        BY <1>1
      <4> QED BY <1>2, <1>7, <4>1
    <3>3. Len(t.data.entries) # 0
      <4>1. t.data.entries \in Seq(TEntry)
        BY <1>2, TableFields DEF TBlock
      <4> QED BY <3>2, <4>1
    <3>4. EndOf(t, n) < z
      BY <1>1, <3>1, <3>3
    <3>5. EndOf(t, n) # z
      BY <3>1, <3>4
    <3> QED BY <1>1, <3>1, <3>5, DividesGrows
  <2>4. Indexed(ls, u, ik)
    BY <1>5, <2>1, <2>2, <2>3 DEF Indexed
  <2> QED BY <1>2, <1>3, <1>7, <2>1, <2>4 DEF AllIndexed
<1> QED BY <1>3, <1>6, <1>7

-----------------------------------------------------------------------------
LEMMA KeysAscendAdded ==
  ASSUME NEW ks \in Seq(TKeys), KeysAscend(ks), NEW k \in TKeys,
         ks # <<>> => InTable!Before(ks[Len(ks)], k)
  PROVE  KeysAscend(Append(ks, k))
<1> DEFINE ls == Append(ks, k)
           z == Len(ks)
<1>1. /\ z \in Nat /\ DOMAIN ks = 1 .. z /\ DOMAIN ls = 1 .. z + 1 /\ ls[z + 1] = k
      /\ \A i \in 1 .. z : ls[i] = ks[i] /\ ks[i] \in TKeys
  OBVIOUS
<1> HIDE DEF ls
<1> SUFFICES ASSUME NEW i \in 1 .. z + 1, NEW j \in 1 .. z + 1, i < j
             PROVE  InTable!Before(ls[i], ls[j])
  BY <1>1 DEF KeysAscend, ls
<1>2. i \in 1 .. z
  BY <1>1
<1>3. CASE j = z + 1
  <2>1. ks # <<>> /\ z \in 1 .. z
    BY <1>1, <1>2
  <2>2. InTable!Before(ks[z], k)
    BY <2>1
  <2>3. i = z \/ InTable!Before(ks[i], ks[z])
    <3> SUFFICES ASSUME i # z PROVE InTable!Before(ks[i], ks[z])
      OBVIOUS
    <3>1. z \in Nat /\ i \in 1 .. z /\ i # z
      BY <1>1, <1>2
    <3>2. i < z
      BY ONLY <3>1
    <3> QED BY <1>1, <1>2, <2>1, <3>2 DEF KeysAscend
  <2>4. InTable!Before(ks[i], k)
    <3>1. ks[i] \in TKeys /\ ks[z] \in TKeys
      BY <1>1, <1>2, <2>1
    <3> QED BY <2>2, <2>3, <3>1, BeforeTrans
  <2> QED BY <1>1, <1>2, <1>3, <2>4
<1>4. CASE j # z + 1
  <2>1. j \in 1 .. z
    BY <1>1, <1>4
  <2>2. InTable!Before(ks[i], ks[j])
    BY <1>1, <1>2, <2>1 DEF KeysAscend
  <2> QED BY <1>1, <1>2, <2>1, <2>2
<1> QED BY <1>3, <1>4

LEMMA DivMonotone ==
  ASSUME NEW w \in Nat \ {0}, NEW a \in Nat, NEW b \in Nat, a <= b
  PROVE  a \div w \in Nat /\ b \div w \in Nat /\ a \div w <= b \div w
<1> DEFINE p == a \div w
           q == b \div w
<1>1. /\ p \in Nat /\ a % w \in 0 .. w - 1 /\ a = w * p + (a % w)
  <2>1. w \in Int /\ w > 0 /\ a \in Nat
    OBVIOUS
  <2> QED BY ONLY <2>1, SMT
<1>2. /\ q \in Nat /\ b % w \in 0 .. w - 1 /\ b = w * q + (b % w)
  <2>1. w \in Int /\ w > 0 /\ b \in Nat
    OBVIOUS
  <2> QED BY ONLY <2>1, SMT
<1> DEFINE c == a % w
           d == b % w
<1> HIDE DEF p, q, c, d
<1>3. p <= q
  <2> SUFFICES ASSUME ~(p <= q) PROVE FALSE
    OBVIOUS
  <2>1. PICK e \in Nat : p = q + 1 + e
    <3>1. p - q - 1 \in Nat /\ p = q + 1 + (p - q - 1)
      BY <1>1, <1>2
    <3> QED BY <3>1
  <2>2. w * e \in Nat /\ w * q \in Nat /\ w * p \in Nat
    BY <1>1, <1>2, <2>1, SMT
  <2>3. w * p = w * q + w + w * e
    BY <1>1, <1>2, <2>1, SMT
  <2>4. a = w * p + c /\ b = w * q + d /\ c \in 0 .. w - 1 /\ d \in 0 .. w - 1
    BY <1>1, <1>2 DEF c, d
  <2> DEFINE x == w * p
             y == w * q
             v == w * e
  <2>5. /\ a = x + c /\ b = y + d /\ x = y + w + v /\ x \in Nat /\ y \in Nat /\ v \in Nat
        /\ c \in 0 .. w - 1 /\ d \in 0 .. w - 1 /\ w \in Nat /\ a <= b
    BY <2>2, <2>3, <2>4
  <2> HIDE DEF x, y, v
  <2> QED BY ONLY <2>5
<1> QED BY <1>1, <1>2, <1>3 DEF p, q

(* Filters are made for the ranges before the offset's, the first with the *)
(* keys there are.                                                         *)
Started(w, n, s) ==
  /\ s \in TTable /\ s.data = w.data /\ s.index = w.index /\ s.blocks = w.blocks
  /\ s.offsets = w.offsets /\ s.pending = w.pending /\ s.closed = w.closed
  /\ Len(w.filters) <= n \div FilterBase => Len(s.filters) = n \div FilterBase
  /\ Len(w.filters) \in Nat /\ Len(s.filters) >= Len(w.filters)
  /\ \A f \in 0 .. Len(w.filters) : FilterOf(s, f) = FilterOf(w, f)

LEMMA FiltersStarted ==
  ASSUME NEW w \in TTable, NEW n \in Nat, NEW s, s = InTable!StartBlock(w, n)
  PROVE  Started(w, n, s)
<1> DEFINE l == Len(w.filters)
           q == n \div FilterBase
           empty == [i \in 1 .. (q - l) - 1 |-> {}]
           fs == w.filters \o <<w.filterKeys>> \o empty
<1>1. /\ w.filters \in Seq(SUBSET TableUserKeys)
      /\ w.filterKeys \in SUBSET TableUserKeys /\ l \in Nat
  BY TableFields
<1>2. q \in Nat
  BY TableConstants, SMT
<1>3. s = IF q - l <= 0 THEN w ELSE [w EXCEPT !.filters = fs, !.filterKeys = {}]
  BY DEF InTable!StartBlock
<1> HIDE DEF l, q
<1>4. CASE q - l <= 0
  BY <1>1, <1>2, <1>3, <1>4 DEF l, q, Started
<1>5. CASE ~(q - l <= 0)
  <2>1. /\ <<w.filterKeys>> \in Seq(SUBSET TableUserKeys) /\ Len(<<w.filterKeys>>) = 1
        /\ <<w.filterKeys>>[1] = w.filterKeys
    BY <1>1
  <2>2. (q - l) - 1 \in Nat
    BY <1>1, <1>2, <1>5
  <2> DEFINE e == (q - l) - 1
             g == w.filters \o <<w.filterKeys>>
  <2>3. empty \in Seq(SUBSET TableUserKeys) /\ Len(empty) = e
    <3>1. e \in Nat /\ empty = [i \in 1 .. e |-> {}]
      BY <2>2
    <3> HIDE DEF e, empty
    <3>2. empty \in [1 .. e -> SUBSET TableUserKeys]
      BY <3>1
    <3>3. empty \in Seq(SUBSET TableUserKeys)
      BY <3>1, <3>2
    <3>4. DOMAIN empty = 1 .. e
      BY <3>1
    <3> QED BY <3>1, <3>3, <3>4
  <2> HIDE DEF empty, e
  <2>4. /\ g \in Seq(SUBSET TableUserKeys) /\ Len(g) = l + 1
        /\ \A i \in 1 .. l : g[i] = w.filters[i]
        /\ g[l + 1] = w.filterKeys
    <3>1. /\ g \in Seq(SUBSET TableUserKeys) /\ Len(g) = Len(w.filters) + Len(<<w.filterKeys>>)
          /\ \A i \in 1 .. Len(w.filters) + Len(<<w.filterKeys>>) :
               g[i] = IF i <= Len(w.filters) THEN w.filters[i]
                      ELSE <<w.filterKeys>>[i - Len(w.filters)]
      BY <1>1, <2>1, ConcatProperties
    <3> HIDE DEF g
    <3>2. /\ g \in Seq(SUBSET TableUserKeys) /\ Len(g) = l + 1
          /\ \A i \in 1 .. l + 1 : g[i] = IF i <= l THEN w.filters[i]
                                          ELSE <<w.filterKeys>>[i - l]
      BY <2>1, <3>1 DEF l
    <3>3. g[l + 1] = w.filterKeys
      <4> DEFINE i == l + 1
      <4>1. i \in 1 .. l + 1 /\ ~(i <= l) /\ i - l = 1
        BY <1>1
      <4> HIDE DEF i
      <4>2. g[i] = <<w.filterKeys>>[i - l]
        BY <3>2, <4>1
      <4>3. g[i] = w.filterKeys
        BY <2>1, <4>1, <4>2
      <4> QED BY <4>3 DEF i
    <3>4. \A i \in 1 .. l : i \in 1 .. l + 1 /\ i <= l
      BY <1>1
    <3> QED BY <3>2, <3>3, <3>4
  <2> HIDE DEF g
  <2>5. /\ fs \in Seq(SUBSET TableUserKeys) /\ Len(fs) = q
        /\ \A i \in 1 .. l + 1 : fs[i] = g[i]
    <3>1. /\ g \o empty \in Seq(SUBSET TableUserKeys) /\ Len(g \o empty) = Len(g) + Len(empty)
          /\ \A i \in 1 .. Len(g) + Len(empty) :
               (g \o empty)[i] = IF i <= Len(g) THEN g[i] ELSE empty[i - Len(g)]
      BY <2>3, <2>4, ConcatProperties
    <3>2. Len(g) + Len(empty) = q
      BY <1>1, <1>2, <2>2, <2>3, <2>4 DEF e
    <3>3. \A i \in 1 .. l + 1 : i \in 1 .. q /\ i <= Len(g)
      BY <1>1, <1>2, <1>5, <2>4
    <3>4. fs = g \o empty
      BY DEF g
    <3> QED BY <3>1, <3>2, <3>3, <3>4
  <2> HIDE DEF fs
  <2>6. s = [w EXCEPT !.filters = fs, !.filterKeys = {}]
    BY <1>3, <1>5
  <2>7. s.filters = fs /\ s.filterKeys = {}
    BY <2>6 DEF TTable
  <2>8. s \in TTable
    BY <2>5, <2>6 DEF TTable
  <2>9. ASSUME NEW f \in 0 .. l PROVE FilterOf(s, f) = FilterOf(w, f)
    <3>1. f < q /\ f + 1 \in 1 .. l + 1
      BY <1>1, <1>2, <1>5
    <3>2. FilterOf(s, f) = g[f + 1]
      BY <2>5, <2>7, <3>1 DEF FilterOf
    <3>3. CASE f = l
      BY <2>4, <3>2, <3>3 DEF FilterOf, l
    <3>4. CASE f # l
      <4>1. f < l /\ f + 1 \in 1 .. l
        BY <1>1, <3>4
      <4> QED BY <2>4, <3>2, <4>1 DEF FilterOf, l
    <3> QED BY <3>3, <3>4
  <2>10. /\ s.data = w.data /\ s.index = w.index /\ s.blocks = w.blocks
         /\ s.offsets = w.offsets /\ s.pending = w.pending /\ s.closed = w.closed
    BY <2>6 DEF TTable
  <2>11. Len(s.filters) = q /\ q >= l
    BY <1>1, <1>2, <1>5, <2>5, <2>7
  <2> QED BY <1>1, <2>8, <2>9, <2>10, <2>11 DEF l, q, Started
<1> QED BY <1>4, <1>5

(* TableBuilder::Add, without the flush.                                   *)
Building(ls, v) == /\ \E jk : TableRight(ls, v, jk)
                   /\ v.closed = FALSE /\ v.data.entries # <<>>

LEMMA KeyAdded ==
  ASSUME NEW ks, NEW t, NEW ik, TableRight(ks, t, ik), t.closed = FALSE, NEW k \in TableKeys,
         ks # <<>> => InTable!Before(ks[Len(ks)], k),
         NEW u, u = IF ks = <<>> THEN t
                    ELSE InTable!AddIndex(t, InTable!FindShortestSeparator(ks[Len(ks)], k)),
         NEW v, v = [u EXCEPT !.data = InTable!AddTo(@, k, Len(Append(ks, k)), RestartInterval),
                              !.filterKeys = @ \cup {InTable!ExtractUserKey(k)}]
  PROVE  Building(Append(ks, k), v)
<1> DEFINE ls == Append(ks, k)
           z == Len(ks)
           m == Len(t.blocks)
           s == OpenStart(ks, t)
           d == InTable!AddTo(t.data, k, z + 1, RestartInterval)
           uk == InTable!ExtractUserKey(k)
<1>1. /\ ks \in Seq(TKeys) /\ z \in Nat /\ m \in Nat /\ Len(t.offsets) = m
      /\ s \in Nat /\ Len(t.data.entries) \in Nat /\ s + Len(t.data.entries) = z
      /\ PacksFrom(ks, t.data, s)
      /\ \A n \in 1 .. m : /\ t.offsets[n] \in Nat /\ PacksFrom(ks, t.blocks[n], t.offsets[n])
                           /\ Len(t.blocks[n].entries) \in Nat \ {0}
                           /\ EndOf(t, n) \in 1 .. z
  BY TableLaid
<1>2. /\ t \in TTable /\ Laid(ks, t) /\ Filtered(ks, t)
      /\ ks \in Seq(TableKeys) /\ KeysAscend(ks)
  BY DEF TableRight
<1>3. k \in TKeys /\ uk \in TableUserKeys
  BY TableKeysAre
<1>4. /\ u \in TTable /\ u.blocks = t.blocks /\ u.offsets = t.offsets /\ u.data = t.data
      /\ u.filters = t.filters /\ u.filterKeys = t.filterKeys /\ u.closed = FALSE
      /\ u.pending = FALSE
      /\ \E jk : Indexed(ls, u, jk)
  <2>1. AllIndexed(ls, t, u)
    BY IndexedForNext
  <2> QED BY <2>1 DEF AllIndexed
<1>5. PICK jk : Indexed(ls, u, jk)
  BY <1>4
<1>6. /\ ls \in Seq(TableKeys) /\ Len(ls) = z + 1 /\ ls[z + 1] = k /\ ls # <<>>
      /\ \A i \in 1 .. z : ls[i] = ks[i]
  <2>1. ks \in Seq(TableKeys) /\ k \in TableKeys
    BY <1>2
  <2> QED BY ONLY <2>1
<1>7. KeysAscend(ls)
  BY <1>1, <1>2, <1>3, KeysAscendAdded
<1>8. /\ PacksFrom(ls, d, s) /\ d \in TBlock /\ Len(d.entries) = Len(t.data.entries) + 1
  BY <1>1, <1>3, PacksFromAdded
<1> HIDE DEF uk, d, ls, s, m
<1>9. v = [u EXCEPT !.data = d, !.filterKeys = u.filterKeys \cup {uk}]
  BY <1>4, <1>6 DEF d, ls, uk
<1>10. /\ v.blocks = t.blocks /\ v.offsets = t.offsets /\ v.data = d /\ v.index = u.index
       /\ v.filters = t.filters /\ v.filterKeys = t.filterKeys \cup {uk}
       /\ v.closed = FALSE /\ v.pending = FALSE
  BY <1>4, <1>9 DEF TTable
<1>11. v \in TTable
  <2>1. u.filterKeys \cup {uk} \in SUBSET TableUserKeys
    BY <1>3, <1>4, TableFields
  <2> HIDE DEF TBlock
  <2> QED BY <1>4, <1>8, <1>9, <2>1 DEF TTable
<1>12. OpenStart(ls, v) = s
  <2>1. s = z - Len(t.data.entries)
    BY DEF s, OpenStart
  <2>2. /\ OpenStart(ls, v) = Len(ls) - Len(v.data.entries) /\ Len(ls) = z + 1
        /\ Len(v.data.entries) = Len(t.data.entries) + 1
        /\ z \in Nat /\ Len(t.data.entries) \in Nat
    BY <1>1, <1>6, <1>8, <1>10 DEF OpenStart
  <2> DEFINE x == Len(t.data.entries)
  <2>3. /\ OpenStart(ls, v) = Len(ls) - Len(v.data.entries) /\ Len(ls) = z + 1
        /\ Len(v.data.entries) = x + 1 /\ z \in Nat /\ x \in Nat /\ s = z - x
    BY <2>1, <2>2
  <2> HIDE DEF x, z
  <2> QED BY ONLY <2>3
<1>13. \A n \in 1 .. m : EndOf(v, n) = EndOf(t, n)
  BY <1>10 DEF EndOf
<1>14. ASSUME NEW n \in 1 .. m PROVE PacksFrom(ls, t.blocks[n], t.offsets[n])
  BY <1>1, <1>3, PacksFromGrows DEF ls
<1>15. Laid(ls, v)
  <2>1. /\ t.blocks = <<>> => s = 0
        /\ t.blocks # <<>> => t.offsets[1] = 0 /\ EndOf(t, m) = s
        /\ \A n \in 1 .. m :
             /\ t.blocks[n].entries # <<>> /\ EndOf(t, n) <= s
             /\ n < m => t.offsets[n + 1] = EndOf(t, n) /\ EndOf(t, n) < s
    BY <1>2 DEF Laid, s, m
  <2>2. t.blocks # <<>> => EndOf(v, m) = s
    BY <1>10, <2>1 DEF EndOf
  <2> QED BY <1>1, <1>8, <1>10, <1>12, <1>13, <1>14, <2>1, <2>2 DEF Laid, m
<1>16. Indexed(ls, v, jk)
  <2>1. \A n : EndOf(v, n) = EndOf(u, n)
    BY <1>4, <1>10 DEF EndOf
  <2> QED BY <1>4, <1>5, <1>10, <2>1 DEF Indexed
<1>17. Filtered(ls, v)
  <2>1. /\ \A n \in 1 .. m :
             /\ t.offsets[n] \div FilterBase <= Len(t.filters)
             /\ \A i \in 1 .. Len(t.blocks[n].entries) :
                  InTable!ExtractUserKey(ks[t.offsets[n] + i])
                          \in FilterOf(t, t.offsets[n] \div FilterBase)
        /\ Len(t.filters) = s \div FilterBase
        /\ \A i \in s + 1 .. z : InTable!ExtractUserKey(ks[i]) \in t.filterKeys
    BY <1>2 DEF Filtered, s, m
  <2>2. \A f : FilterOf(t, f) \subseteq FilterOf(v, f)
    BY <1>10 DEF FilterOf
  <2>3. ASSUME NEW n \in 1 .. m, NEW i \in 1 .. Len(t.blocks[n].entries)
        PROVE  InTable!ExtractUserKey(ls[t.offsets[n] + i])
                       \in FilterOf(v, t.offsets[n] \div FilterBase)
    <3>1. t.offsets[n] + i \in 1 .. z
      <4>1. /\ t.offsets[n] \in Nat /\ Len(t.blocks[n].entries) \in Nat
            /\ t.offsets[n] + Len(t.blocks[n].entries) \in 1 .. z
        <5>1. EndOf(t, n) \in 1 .. z
          BY <1>1
        <5> QED BY <1>1, <5>1 DEF EndOf
      <4>2. z \in Nat
        BY <1>1
      <4> QED BY ONLY <4>1, <4>2, i \in 1 .. Len(t.blocks[n].entries)
    <3>2. ls[t.offsets[n] + i] = ks[t.offsets[n] + i]
      BY <1>6, <3>1
    <3> QED BY <2>1, <2>2, <3>2
  <2>4. ASSUME NEW i \in s + 1 .. z + 1 PROVE InTable!ExtractUserKey(ls[i]) \in v.filterKeys
    <3>1. CASE i = z + 1
      BY <1>6, <1>10, <3>1 DEF uk
    <3>2. CASE i # z + 1
      <4>1. i \in s + 1 .. z /\ i \in 1 .. z
        BY <1>1, <3>2
      <4> QED BY <1>6, <1>10, <2>1, <4>1
    <3> QED BY <3>1, <3>2
  <2> QED BY <1>6, <1>10, <1>12, <2>1, <2>3, <2>4 DEF Filtered, m
<1>18. v.data.entries # <<>>
  <2>1. d.entries \in Seq(TEntry)
    BY <1>8 DEF TBlock
  <2>2. Len(d.entries) # 0
    BY <1>1, <1>8
  <2> QED BY <1>10, <2>1, <2>2
<1>19. TableRight(ls, v, jk)
  BY <1>6, <1>7, <1>10, <1>11, <1>15, <1>16, <1>17, <1>18 DEF TableRight
<1> QED BY <1>10, <1>18, <1>19 DEF ls, Building

-----------------------------------------------------------------------------
(* TableBuilder::Flush of a block with entries.                            *)
LEMMA BlockFlushed ==
  ASSUME NEW ks, NEW t, NEW ik, TableRight(ks, t, ik), t.closed = FALSE, t.data.entries # <<>>,
         NEW w, w = [t EXCEPT !.blocks = Append(@, t.data), !.data = InTable!NoBlock, !.pending = TRUE,
                              !.offsets = Append(@, Len(ks) - Len(t.data.entries))],
         NEW u, u = InTable!StartBlock(w, Len(ks))
  PROVE  TableRight(ks, u, ik) /\ u.closed = FALSE /\ u.pending = TRUE
<1> DEFINE z == Len(ks)
           m == Len(t.blocks)
           s == OpenStart(ks, t)
           d == Len(t.data.entries)
<1>1. /\ ks \in Seq(TKeys) /\ z \in Nat /\ m \in Nat /\ Len(t.offsets) = m
      /\ s \in Nat /\ d \in Nat /\ s + d = z
      /\ PacksFrom(ks, t.data, s)
  BY TableLaid
<1>2. \A n \in 1 .. m : /\ t.offsets[n] \in Nat /\ PacksFrom(ks, t.blocks[n], t.offsets[n])
                        /\ Len(t.blocks[n].entries) \in Nat \ {0}
                        /\ EndOf(t, n) \in 1 .. z /\ EndOf(t, n) <= s
  BY TableLaid
<1>3. /\ t \in TTable /\ Laid(ks, t) /\ Filtered(ks, t)
      /\ ks \in Seq(TableKeys) /\ KeysAscend(ks)
      /\ Indexed(ks, t, ik)
      /\ t.pending <=> t.blocks # <<>> /\ t.data.entries = <<>> /\ ~t.closed
  BY DEF TableRight
<1>4. /\ t.blocks \in Seq(TBlock) /\ t.offsets \in Seq(Nat) /\ t.data \in TBlock
      /\ t.pending = FALSE
  BY <1>3, TableFields
<1>5. d # 0 /\ d > 0 /\ s < z
  <2>1. t.data.entries \in Seq(TEntry)
    BY <1>4 DEF TBlock
  <2>2. d # 0
    BY <2>1
  <2> HIDE DEF d, s, z
  <2> QED BY <1>1, <2>2
<1>6. s = z - d
  BY DEF OpenStart
<1>7. /\ InTable!NoBlock \in TBlock /\ InTable!NoBlock.entries = <<>>
      /\ PacksFrom(ks, InTable!NoBlock, z)
  <2>1. /\ InTable!NoBlock = [entries |-> <<>>, restarts |-> <<1>>, counter |-> 0, last |-> <<>>]
        /\ InTable!NoBlock.entries = <<>>
    BY DEF InTable!NoBlock
  <2>2. /\ <<>> \in Seq(TEntry) /\ <<1>> \in Seq(Nat) /\ <<>> \in Seq(Nat) /\ Len(<<>>) = 0
    OBVIOUS
  <2>3. InTable!NoBlock \in TBlock
    BY <2>1, <2>2 DEF TBlock
  <2>4. Slice(ks, z, 0) = <<>>
    <3>1. z + 0 <= Len(ks) /\ 0 \in Nat
      BY <1>1
    <3>2. Slice(ks, z, 0) \in Seq(TKeys) /\ Len(Slice(ks, z, 0)) = 0
      BY <1>1, <3>1, SliceIs
    <3> QED BY <3>2
  <2>5. Len(InTable!NoBlock.entries) = 0 /\ z + 0 <= Len(ks)
    BY <1>1, <2>1, <2>2
  <2> QED BY <1>1, <2>1, <2>3, <2>4, <2>5, NothingHeld DEF PacksFrom
<1> DEFINE bs == Append(t.blocks, t.data)
           os == Append(t.offsets, s)
<1>8. /\ bs \in Seq(TBlock) /\ Len(bs) = m + 1 /\ bs[m + 1] = t.data
      /\ \A n \in 1 .. m : bs[n] = t.blocks[n]
  BY <1>1, <1>4
<1>9. /\ os \in Seq(Nat) /\ Len(os) = m + 1 /\ os[m + 1] = s
      /\ \A n \in 1 .. m : os[n] = t.offsets[n]
  <2> HIDE DEF s, m
  <2> QED BY <1>1, <1>4
<1>10. w = [t EXCEPT !.blocks = bs, !.data = InTable!NoBlock, !.pending = TRUE, !.offsets = os]
  BY <1>6
<1> HIDE DEF bs, os, s, m, z, d
<1>11. w \in TTable
  <2> HIDE DEF TBlock
  <2> QED BY <1>3, <1>7, <1>8, <1>9, <1>10 DEF TTable
<1>12. /\ w.blocks = bs /\ w.offsets = os /\ w.data = InTable!NoBlock /\ w.index = t.index
       /\ w.filters = t.filters /\ w.filterKeys = t.filterKeys
       /\ w.closed = FALSE /\ w.pending = TRUE
  BY <1>3, <1>10 DEF TTable
<1>13. /\ u \in TTable /\ u.blocks = bs /\ u.offsets = os /\ u.data = InTable!NoBlock
       /\ u.index = t.index /\ u.closed = FALSE /\ u.pending = TRUE
       /\ Len(t.filters) <= z \div FilterBase => Len(u.filters) = z \div FilterBase
       /\ Len(t.filters) \in Nat /\ Len(u.filters) >= Len(t.filters)
       /\ \A f \in 0 .. Len(t.filters) : FilterOf(u, f) = FilterOf(w, f)
  <2>1. u = InTable!StartBlock(w, z)
    BY DEF z
  <2>2. Started(w, z, u)
    BY <1>1, <1>11, <2>1, FiltersStarted
  <2> QED BY <1>12, <2>2 DEF Started
<1>14. \A f : FilterOf(w, f) = FilterOf(t, f)
  BY <1>12 DEF FilterOf
<1>15. OpenStart(ks, u) = z
  <2>1. Len(u.data.entries) = 0
    BY <1>7, <1>13
  <2> QED BY <1>1, <2>1 DEF OpenStart, z
<1>16. /\ \A n \in 1 .. m : EndOf(u, n) = EndOf(t, n)
       /\ EndOf(u, m + 1) = z
  <2>1. ASSUME NEW n \in 1 .. m PROVE EndOf(u, n) = EndOf(t, n)
    BY <1>8, <1>9, <1>13 DEF EndOf
  <2>2. EndOf(u, m + 1) = s + d
    BY <1>8, <1>9, <1>13 DEF EndOf, d
  <2> QED BY <1>1, <2>1, <2>2
<1>17. Laid(ks, u)
  <2>1. /\ t.blocks = <<>> => s = 0
        /\ t.blocks # <<>> => t.offsets[1] = 0 /\ EndOf(t, m) = s
        /\ \A n \in 1 .. m :
             /\ t.blocks[n].entries # <<>>
             /\ n < m => t.offsets[n + 1] = EndOf(t, n) /\ EndOf(t, n) < s
    BY <1>3 DEF Laid, s, m
  <2>2. (t.blocks = <<>> <=> m = 0) /\ m + 1 \in 1 .. m + 1
    BY <1>1, <1>4 DEF m
  <2>3. os[1] = 0
    <3>1. CASE m = 0
      BY <1>9, <2>1, <2>2, <3>1
    <3>2. CASE m # 0
      <4>1. 1 \in 1 .. m
        BY <1>1, <3>2
      <4> QED BY <1>9, <2>1, <2>2, <3>2, <4>1
    <3> QED BY <3>1, <3>2
  <2>4. ASSUME NEW n \in 1 .. m + 1
        PROVE  /\ PacksFrom(ks, bs[n], os[n]) /\ bs[n].entries # <<>>
               /\ EndOf(u, n) <= z
               /\ n < m + 1 => os[n + 1] = EndOf(u, n) /\ EndOf(u, n) < z
    <3>1. CASE n = m + 1
      BY <1>1, <1>8, <1>9, <1>16, <3>1
    <3>2. CASE n # m + 1
      <4>1. n \in 1 .. m
        BY <1>1, <3>2
      <4>2. /\ EndOf(u, n) = EndOf(t, n) /\ EndOf(t, n) <= s /\ EndOf(t, n) \in 1 .. z
        BY <1>2, <1>16, <4>1
      <4>3. EndOf(u, n) < z /\ EndOf(u, n) <= z
        BY <1>1, <1>5, <4>2
      <4>4. os[n + 1] = EndOf(t, n)
        <5>1. CASE n = m
          BY <1>9, <2>1, <2>2, <4>1, <5>1
        <5>2. CASE n # m
          <6>1. n < m /\ n + 1 \in 1 .. m
            BY <1>1, <4>1, <5>2
          <6> QED BY <1>9, <2>1, <4>1, <6>1
        <5> QED BY <5>1, <5>2
      <4>5. PacksFrom(ks, bs[n], os[n]) /\ bs[n].entries # <<>>
        BY <1>2, <1>8, <1>9, <2>1, <4>1
      <4> QED BY <4>2, <4>3, <4>4, <4>5
    <3> QED BY <3>1, <3>2
  <2>5. bs # <<>>
    BY <1>1, <1>8
  <2>6. Len(u.blocks) = m + 1 /\ Len(u.offsets) = m + 1
    BY <1>8, <1>9, <1>13
  <2> QED BY <1>7, <1>13, <1>15, <1>16, <2>3, <2>4, <2>5, <2>6 DEF Laid
<1>18. Indexed(ks, u, ik)
  <2>1. /\ Packs(t.index, ik) /\ KeysAscend(ik) /\ Len(ik) = m - (IF t.pending THEN 1 ELSE 0)
        /\ \A n \in 1 .. Len(ik) : t.index.entries[n].value = n /\ Divides(ks, EndOf(t, n), ik[n])
    BY <1>3 DEF Indexed, m
  <2>2. Len(ik) = m
    BY <1>1, <1>4, <2>1
  <2>3. Len(u.blocks) = m + 1 /\ (m + 1) - 1 = m
    BY <1>1, <1>8, <1>13
  <2>4. Len(ik) = Len(u.blocks) - (IF u.pending THEN 1 ELSE 0)
    BY <1>13, <2>2, <2>3
  <2>5. \A n \in 1 .. Len(ik) : u.index.entries[n].value = n /\ Divides(ks, EndOf(u, n), ik[n])
    BY <1>13, <1>16, <2>1, <2>2
  <2> QED BY <1>13, <2>1, <2>4, <2>5 DEF Indexed
<1>19. Filtered(ks, u)
  <2>1. /\ \A n \in 1 .. m :
             /\ t.offsets[n] \div FilterBase <= Len(t.filters)
             /\ \A i \in 1 .. Len(t.blocks[n].entries) :
                  InTable!ExtractUserKey(ks[t.offsets[n] + i])
                          \in FilterOf(t, t.offsets[n] \div FilterBase)
        /\ Len(t.filters) = s \div FilterBase
        /\ \A i \in s + 1 .. z : InTable!ExtractUserKey(ks[i]) \in t.filterKeys
    BY <1>3 DEF Filtered, s, m, z
  <2>2. Len(t.filters) <= z \div FilterBase /\ z \div FilterBase \in Nat
    <3>1. s \div FilterBase <= z \div FilterBase /\ z \div FilterBase \in Nat
      <4>1. s <= z
        BY <1>1, <1>5
      <4> QED BY <1>1, <4>1, TableConstants, DivMonotone
    <3> QED BY <2>1, <3>1
  <2>3. Len(u.filters) = z \div FilterBase
    BY <1>13, <2>2
  <2>4. ASSUME NEW n \in 1 .. m + 1
        PROVE  /\ os[n] \div FilterBase <= Len(u.filters)
               /\ \A i \in 1 .. Len(bs[n].entries) :
                    InTable!ExtractUserKey(ks[os[n] + i]) \in FilterOf(u, os[n] \div FilterBase)
    <3> DEFINE f == os[n] \div FilterBase
    <3>1. os[n] \in Nat /\ f \in Nat
      <4>1. os[n] \in Nat
        BY <1>1, <1>9
      <4> QED BY <4>1, TableConstants, SMT
    <3> HIDE DEF f
    <3>2. CASE n = m + 1
      <4>1. f = Len(t.filters)
        BY <1>9, <2>1, <3>2 DEF f
      <4>2. FilterOf(u, f) = t.filterKeys
        <5>1. f \in 0 .. Len(t.filters) /\ ~(f < Len(t.filters))
          BY <1>13, <4>1
        <5>2. FilterOf(t, f) = t.filterKeys
          BY <5>1 DEF FilterOf
        <5> QED BY <1>13, <1>14, <5>1, <5>2
      <4>3. ASSUME NEW i \in 1 .. Len(bs[n].entries)
            PROVE  InTable!ExtractUserKey(ks[os[n] + i]) \in t.filterKeys
        <5>1. i \in 1 .. d /\ os[n] = s
          BY <1>8, <1>9, <3>2 DEF d
        <5>2. s + i \in s + 1 .. z
          BY <1>1, <5>1
        <5> QED BY <2>1, <5>1, <5>2
      <4>4. f <= Len(u.filters)
        BY <1>13, <2>2, <2>3, <4>1
      <4> QED BY <4>2, <4>3, <4>4 DEF f
    <3>3. CASE n # m + 1
      <4>1. n \in 1 .. m
        BY <1>1, <3>3
      <4>2. os[n] = t.offsets[n] /\ bs[n] = t.blocks[n]
        BY <1>8, <1>9, <4>1
      <4>3. f <= Len(t.filters)
        BY <2>1, <4>1, <4>2 DEF f
      <4>4. f \in 0 .. Len(t.filters) /\ f <= Len(u.filters)
        BY <1>13, <2>2, <2>3, <3>1, <4>3
      <4>5. FilterOf(u, f) = FilterOf(t, f)
        BY <1>13, <1>14, <4>4
      <4> QED BY <2>1, <4>1, <4>2, <4>4, <4>5 DEF f
    <3> QED BY <3>2, <3>3
  <2>5. Len(u.blocks) = m + 1
    BY <1>8, <1>13
  <2>6. \A i \in z + 1 .. z : FALSE
    BY <1>1
  <2> QED BY <1>13, <1>15, <2>3, <2>4, <2>5, <2>6 DEF Filtered, z
<1>20. bs # <<>>
  BY <1>1, <1>8
<1>21. u.pending <=> u.blocks # <<>> /\ u.data.entries = <<>> /\ ~u.closed
  BY <1>7, <1>13, <1>20
<1> QED BY <1>3, <1>13, <1>17, <1>18, <1>19, <1>21 DEF TableRight

-----------------------------------------------------------------------------
(* TableBuilder::Finish, behind its flush.                                 *)
LEMMA TableFinished ==
  ASSUME NEW ks, NEW t, NEW ik, TableRight(ks, t, ik), t.pending = TRUE, ks # <<>>,
         NEW f, f = IF t.filterKeys = {} THEN t
                    ELSE [t EXCEPT !.filters = Append(@, t.filterKeys), !.filterKeys = {}],
         NEW u, u = [InTable!AddIndex(f, InTable!FindShortSuccessor(ks[Len(ks)])) EXCEPT !.closed = TRUE]
  PROVE  (\E jk : TableRight(ks, u, jk)) /\ u.closed = TRUE
<1> DEFINE z == Len(ks)
           m == Len(t.blocks)
           x == InTable!FindShortSuccessor(ks[Len(ks)])
           b == InTable!AddTo(t.index, x, Len(t.blocks), 1)
           jk == Append(ik, x)
           l == Len(t.filters)
<1>1. /\ ks \in Seq(TKeys) /\ z \in Nat /\ m \in Nat /\ Len(t.offsets) = m
      /\ OpenStart(ks, t) = z
  BY TableLaid
<1>2. /\ t \in TTable /\ Laid(ks, t) /\ Filtered(ks, t)
      /\ ks \in Seq(TableKeys) /\ KeysAscend(ks)
      /\ Indexed(ks, t, ik)
      /\ t.blocks # <<>> /\ t.data.entries = <<>> /\ t.closed = FALSE
  <2>1. /\ t \in TTable /\ Laid(ks, t) /\ Filtered(ks, t)
        /\ ks \in Seq(TableKeys) /\ KeysAscend(ks)
        /\ Indexed(ks, t, ik)
        /\ t.blocks # <<>> /\ t.data.entries = <<>> /\ ~t.closed
    BY DEF TableRight
  <2> QED BY <2>1, TableFields
<1>3. /\ t.filters \in Seq(SUBSET TableUserKeys)
      /\ t.filterKeys \in SUBSET TableUserKeys /\ l \in Nat
      /\ t.offsets \in Seq(Nat)
  BY <1>2, TableFields
<1>4. z \in 1 .. z /\ ks[z] \in TKeys
  <2>1. z # 0
    BY <1>1
  <2>2. z \in 1 .. z
    BY <1>1, <2>1
  <2> QED BY <1>1, <2>2
<1>5. x \in TKeys /\ ~InTable!Before(x, ks[Len(ks)])
  BY <1>4, ShortSuccessorIs
<1> HIDE DEF x
<1>6. IndexGrown(t, ik, x)
  BY <1>5, IndexAdded
<1>7. /\ InTable!AddIndex(t, x) = [t EXCEPT !.index = b, !.pending = FALSE]
      /\ InTable!AddIndex(t, x) \in TTable
      /\ Packs(b, jk) /\ KeysAscend(jk) /\ Len(jk) = m
      /\ \A n \in 1 .. m :
           /\ b.entries[n].value = n
           /\ \/ n < m /\ jk[n] = ik[n] /\ n \in 1 .. Len(ik)
              \/ n = m /\ jk[n] = x
  BY ONLY <1>6, Zenon DEF IndexGrown
<1>8. b \in TBlock
  <2>1. InTable!AddIndex(t, x).index = b
    BY <1>2, <1>7 DEF TTable
  <2> QED BY <1>7, <2>1, TableFields
<1>9. /\ f \in TTable /\ f.data = t.data /\ f.index = t.index /\ f.blocks = t.blocks
      /\ f.offsets = t.offsets /\ f.pending = TRUE /\ f.closed = FALSE
      /\ f.filters = IF t.filterKeys = {} THEN t.filters ELSE Append(t.filters, t.filterKeys)
      /\ f.filterKeys = {}
  <2>1. CASE t.filterKeys = {}
    BY <1>2, <2>1
  <2>2. CASE t.filterKeys # {}
    <3>1. f = [t EXCEPT !.filters = Append(t.filters, t.filterKeys), !.filterKeys = {}]
      BY <2>2
    <3>2. Append(t.filters, t.filterKeys) \in Seq(SUBSET TableUserKeys)
      BY <1>3
    <3>3. f \in TTable
      BY <1>2, <3>1, <3>2 DEF TTable
    <3> QED BY <1>2, <2>2, <3>1, <3>3 DEF TTable
  <2> QED BY <2>1, <2>2
<1>10. InTable!AddIndex(f, x) = [f EXCEPT !.index = b, !.pending = FALSE]
  BY <1>9 DEF InTable!AddIndex
<1> HIDE DEF b, jk
<1>11. u = [f EXCEPT !.index = b, !.pending = FALSE, !.closed = TRUE]
  <2>1. u = [InTable!AddIndex(f, x) EXCEPT !.closed = TRUE]
    BY DEF x
  <2> QED BY <1>9, <1>10, <2>1 DEF TTable
<1>12. /\ u.data = t.data /\ u.index = b /\ u.blocks = t.blocks
       /\ u.offsets = t.offsets /\ u.pending = FALSE /\ u.closed = TRUE
       /\ u.filters = f.filters /\ u.filterKeys = {}
  BY <1>9, <1>11 DEF TTable
<1>13. u \in TTable
  <2> HIDE DEF TBlock
  <2> QED BY <1>8, <1>9, <1>11 DEF TTable
<1>14. \A n : EndOf(u, n) = EndOf(t, n)
  BY <1>12 DEF EndOf
<1>15. Laid(ks, u)
  <2>1. OpenStart(ks, u) = OpenStart(ks, t)
    BY <1>12 DEF OpenStart
  <2>2. Laid(ks, t) /\ u.data = t.data /\ u.blocks = t.blocks /\ u.offsets = t.offsets
    BY <1>2, <1>12
  <2> QED BY ONLY <1>14, <2>1, <2>2 DEF Laid
<1>16. Indexed(ks, u, jk)
  <2>1. /\ Len(ik) = m - (IF t.pending THEN 1 ELSE 0)
        /\ \A n \in 1 .. Len(ik) : Divides(ks, EndOf(t, n), ik[n])
    BY <1>2 DEF Indexed
  <2>2. ASSUME NEW n \in 1 .. m PROVE Divides(ks, EndOf(t, n), jk[n])
    <3>1. CASE n < m /\ jk[n] = ik[n] /\ n \in 1 .. Len(ik)
      BY <2>1, <3>1
    <3>2. CASE n = m /\ jk[n] = x
      <4>1. EndOf(t, n) = z
        BY <1>1, <3>2, TableLaid
      <4>2. Divides(ks, z, x)
        BY <1>1, <1>5 DEF Divides
      <4> QED BY <3>2, <4>1, <4>2
    <3> QED BY <1>7, <3>1, <3>2
  <2>3. Len(jk) = Len(u.blocks) - (IF u.pending THEN 1 ELSE 0)
    <3>1. Len(jk) = m /\ m = m - 0
      BY <1>1, <1>7
    <3> QED BY <1>12, <3>1
  <2>4. \A n \in 1 .. Len(jk) : u.index.entries[n].value = n /\ Divides(ks, EndOf(u, n), jk[n])
    BY <1>7, <1>12, <1>14, <2>2
  <2> QED BY <1>7, <1>12, <2>3, <2>4 DEF Indexed
<1>17. Filtered(ks, u)
  <2>1. /\ \A n \in 1 .. m :
             /\ t.offsets[n] \div FilterBase <= l
             /\ \A i \in 1 .. Len(t.blocks[n].entries) :
                  InTable!ExtractUserKey(ks[t.offsets[n] + i])
                          \in FilterOf(t, t.offsets[n] \div FilterBase)
    BY <1>2 DEF Filtered
  <2>2. l <= Len(f.filters)
    BY <1>3, <1>9
  <2>3. ASSUME NEW n \in 1 .. m
        PROVE  /\ t.offsets[n] \div FilterBase <= Len(u.filters)
               /\ FilterOf(t, t.offsets[n] \div FilterBase)
                    \subseteq FilterOf(u, t.offsets[n] \div FilterBase)
    <3> DEFINE g == t.offsets[n] \div FilterBase
    <3>1. g \in Nat
      <4>1. t.offsets[n] \in Nat
        BY <1>1, <1>3
      <4> QED BY <4>1, TableConstants, DivMonotone
    <3>2. g <= l
      BY <2>1
    <3> HIDE DEF g, l
    <3>3. Len(f.filters) \in Nat /\ g <= Len(f.filters)
      <4>1. Len(f.filters) \in Nat
        BY <1>9, TableFields
      <4> QED BY <1>3, <2>2, <3>1, <3>2, <4>1
    <3>4. FilterOf(t, g) \subseteq FilterOf(u, g)
      <4>1. CASE t.filterKeys = {}
        <5>1. u.filters = t.filters
          BY <1>9, <1>12, <4>1
        <5> QED BY <1>12, <4>1, <5>1 DEF FilterOf
      <4>2. CASE t.filterKeys # {}
        <5>1. /\ u.filters = Append(t.filters, t.filterKeys) /\ Len(u.filters) = l + 1
              /\ u.filters[l + 1] = t.filterKeys
              /\ \A i \in 1 .. l : u.filters[i] = t.filters[i]
          <6>1. u.filters = Append(t.filters, t.filterKeys)
            BY <1>9, <1>12, <4>2
          <6> DEFINE fs == Append(t.filters, t.filterKeys)
          <6>2. /\ Len(fs) = Len(t.filters) + 1 /\ fs[Len(t.filters) + 1] = t.filterKeys
                /\ \A i \in 1 .. Len(t.filters) : fs[i] = t.filters[i]
            BY ONLY <1>3
          <6> QED BY <6>1, <6>2 DEF l
        <5>2. g < Len(u.filters) /\ FilterOf(u, g) = u.filters[g + 1]
          BY <1>3, <3>1, <3>2, <5>1 DEF FilterOf
        <5>3. CASE g = l
          <6>1. FilterOf(t, g) = t.filterKeys
            BY <1>3, <5>3 DEF FilterOf, l
          <6> QED BY <5>1, <5>2, <5>3, <6>1
        <5>4. CASE g # l
          <6>1. g < l /\ g + 1 \in 1 .. l
            BY <1>3, <3>1, <3>2, <5>4
          <6>2. FilterOf(t, g) = t.filters[g + 1]
            BY <6>1 DEF FilterOf, l
          <6> QED BY <5>1, <5>2, <6>1, <6>2
        <5> QED BY <5>3, <5>4
      <4> QED BY <4>1, <4>2
    <3> QED BY <1>12, <3>3, <3>4 DEF g
  <2> QED BY <1>12, <2>1, <2>3 DEF Filtered
<1>18. TableRight(ks, u, jk)
  BY <1>2, <1>12, <1>13, <1>15, <1>16, <1>17 DEF TableRight
<1> QED BY <1>12, <1>18

-----------------------------------------------------------------------------
(* Lookups in a finished table.                                            *)
AllDivided(ks, t, ik) ==
  /\ Packs(t.index, ik) /\ KeysAscend(ik) /\ ik # <<>> /\ Len(ik) = Len(t.blocks)
  /\ ik \in Seq(TKeys) /\ Len(t.blocks) \in Nat \ {0} /\ Len(ks) \in Nat \ {0}
  /\ EndOf(t, Len(t.blocks)) = Len(ks) /\ t.offsets[1] = 0
  /\ \A n \in 1 .. Len(t.blocks) :
       /\ t.index.entries[n].value = n
       /\ Divides(ks, EndOf(t, n), ik[n])
       /\ n < Len(t.blocks) => t.offsets[n + 1] = EndOf(t, n) /\ EndOf(t, n) < Len(ks)

LEMMA TableClosed ==
  ASSUME NEW ks, NEW t, NEW ik, TableRight(ks, t, ik), t.closed = TRUE
  PROVE  AllDivided(ks, t, ik)
<1> DEFINE m == Len(t.blocks)
<1>1. /\ ks \in Seq(TKeys) /\ Len(ks) \in Nat /\ m \in Nat /\ t.blocks \in Seq(TBlock)
      /\ OpenStart(ks, t) \in Nat /\ Len(t.data.entries) \in Nat
      /\ OpenStart(ks, t) + Len(t.data.entries) = Len(ks)
  BY TableLaid
<1>2. /\ Indexed(ks, t, ik) /\ Laid(ks, t)
      /\ t.data.entries = <<>> /\ ks # <<>> /\ t \in TTable
      /\ t.pending <=> t.blocks # <<>> /\ t.data.entries = <<>> /\ ~t.closed
  BY DEF TableRight
<1>3. t.pending = FALSE
  BY <1>2, TableFields
<1>4. OpenStart(ks, t) = Len(ks) /\ Len(ks) # 0
  <2>1. Len(t.data.entries) = 0 /\ Len(ks) # 0
    BY <1>1, <1>2
  <2> QED BY <1>1, <2>1
<1>5. t.blocks # <<>> /\ m # 0
  <2>1. t.blocks # <<>>
    BY <1>2, <1>4 DEF Laid
  <2> QED BY <1>1, <2>1
<1>6. EndOf(t, m) = Len(ks) /\ t.offsets[1] = 0
  BY <1>2, <1>4, <1>5 DEF Laid
<1>7. /\ Packs(t.index, ik) /\ KeysAscend(ik) /\ Len(ik) = m - (IF t.pending THEN 1 ELSE 0)
      /\ \A n \in 1 .. Len(ik) : t.index.entries[n].value = n /\ Divides(ks, EndOf(t, n), ik[n])
  BY <1>2 DEF Indexed
<1>8. Len(ik) = m
  <2>1. Len(ik) = m - 0
    BY <1>3, <1>7
  <2> QED BY <1>1, <2>1
<1>9. ik \in Seq(TKeys)
  BY <1>7, PacksIs
<1>10. ik # <<>>
  BY <1>5, <1>8, <1>9
<1>11. ASSUME NEW n \in 1 .. m, n < m
       PROVE  t.offsets[n + 1] = EndOf(t, n) /\ EndOf(t, n) < Len(ks)
  BY <1>2, <1>4, <1>11 DEF Laid
<1> QED BY <1>1, <1>4, <1>5, <1>6, <1>7, <1>8, <1>9, <1>10, <1>11 DEF AllDivided

LEMMA FirstFromIs ==
  ASSUME keys \in Seq(TKeys), NEW target
  PROVE  /\ (\A j \in 1 .. Len(keys) : InTable!Before(keys[j], target)) => InTable!FirstFrom(target) = 0
         /\ \A i \in 1 .. Len(keys) :
              /\ ~InTable!Before(keys[i], target)
              /\ \A j \in 1 .. i - 1 : InTable!Before(keys[j], target)
              => InTable!FirstFrom(target) = i
<1> DEFINE from == {i \in DOMAIN keys : ~InTable!Before(keys[i], target)}
<1>1. DOMAIN keys = 1 .. Len(keys) /\ Len(keys) \in Nat
  OBVIOUS
<1>2. InTable!FirstFrom(target) = IF from = {} THEN 0 ELSE InTable!Min(from)
  BY DEF InTable!FirstFrom
<1>3. ASSUME \A j \in 1 .. Len(keys) : InTable!Before(keys[j], target) PROVE InTable!FirstFrom(target) = 0
  BY <1>1, <1>2, <1>3
<1>4. ASSUME NEW i \in 1 .. Len(keys), ~InTable!Before(keys[i], target),
             \A j \in 1 .. i - 1 : InTable!Before(keys[j], target)
      PROVE  InTable!FirstFrom(target) = i
  <2>1. i \in from /\ from \in SUBSET (0 .. Len(keys))
    BY <1>1, <1>4
  <2>2. InTable!Min(from) \in from /\ InTable!Min(from) <= i
    <3> HIDE DEF from
    <3> QED BY <1>1, <2>1, TableMin
  <2>3. /\ InTable!Min(from) \in 1 .. Len(keys)
        /\ ~InTable!Before(keys[InTable!Min(from)], target)
    BY <1>1, <2>2
  <2> HIDE DEF from
  <2>4. ~(InTable!Min(from) \in 1 .. i - 1)
    BY <1>4, <2>3
  <2>5. InTable!Min(from) = i
    BY <1>1, <2>2, <2>3, <2>4
  <2> QED BY <1>2, <2>1, <2>5
<1> QED BY <1>3, <1>4

(* The block and the entry a lookup comes to.                              *)
LookedUp(ks, t, ik, target, n) ==
  LET b == t.blocks[n] IN
  /\ PlacedIn(t.index, ik, InTable!SeekIn(t.index, target), n)
  /\ \/ \E i \in 1 .. Len(b.entries) :
          /\ PlacedIn(b, Slice(ks, t.offsets[n], Len(b.entries)), InTable!SeekIn(b, target), i)
          /\ ~InTable!Before(ks[t.offsets[n] + i], target)
          /\ \A j \in 1 .. t.offsets[n] + i - 1 : InTable!Before(ks[j], target)
     \/ /\ InTable!SeekIn(b, target) = InTable!Invalid(b)
        /\ \A j \in 1 .. EndOf(t, n) : InTable!Before(ks[j], target)
        /\ EndOf(t, n) < Len(ks) =>
             /\ ~InTable!Before(ks[EndOf(t, n) + 1], target)
             /\ InTable!ExtractUserKey(ks[EndOf(t, n) + 1]) # InTable!ExtractUserKey(target)

LEMMA KeysAscendBefore ==
  ASSUME NEW ks \in Seq(TKeys), KeysAscend(ks), NEW target \in TKeys,
         NEW e \in 1 .. Len(ks), InTable!Before(ks[e], target), NEW j \in 1 .. e
  PROVE  InTable!Before(ks[j], target)
<1>1. j \in 1 .. Len(ks) /\ DOMAIN ks = 1 .. Len(ks) /\ (j = e \/ j < e)
      /\ ks[j] \in TKeys /\ ks[e] \in TKeys
  OBVIOUS
<1>2. j < e => InTable!Before(ks[j], ks[e])
  BY <1>1 DEF KeysAscend
<1> QED BY <1>1, <1>2, BeforeTrans

LEMMA Searched ==
  ASSUME NEW ks, NEW t, NEW ik, TableRight(ks, t, ik), t.closed = TRUE, NEW target \in TKeys
  PROVE  \/ /\ InTable!SeekIn(t.index, target) = InTable!Invalid(t.index)
            /\ \A j \in 1 .. Len(ks) : InTable!Before(ks[j], target)
         \/ \E n \in 1 .. Len(t.blocks) : LookedUp(ks, t, ik, target, n)
<1> DEFINE m == Len(t.blocks)
           z == Len(ks)
<1>1. /\ Packs(t.index, ik) /\ KeysAscend(ik) /\ ik # <<>> /\ Len(ik) = m
      /\ ik \in Seq(TKeys) /\ m \in Nat \ {0} /\ z \in Nat \ {0}
      /\ EndOf(t, m) = z /\ t.offsets[1] = 0
  <2>1. AllDivided(ks, t, ik)
    BY TableClosed
  <2> QED BY <2>1 DEF AllDivided
<1>2. \A n \in 1 .. m :
        /\ Divides(ks, EndOf(t, n), ik[n])
        /\ n < m => t.offsets[n + 1] = EndOf(t, n) /\ EndOf(t, n) < z
  <2>1. AllDivided(ks, t, ik)
    BY TableClosed
  <2> QED BY <2>1 DEF AllDivided
<1>3. ks \in Seq(TKeys) /\ KeysAscend(ks)
  BY TableLaid DEF TableRight
<1>4. \A n \in 1 .. m :
        /\ t.offsets[n] \in Nat /\ PacksFrom(ks, t.blocks[n], t.offsets[n])
        /\ Len(t.blocks[n].entries) \in Nat \ {0}
        /\ EndOf(t, n) \in 1 .. z /\ t.offsets[n] < EndOf(t, n)
  BY TableLaid
<1>5. \A i \in 1 .. z : ks[i] \in TKeys
  BY <1>3
<1>6. \A n \in 1 .. m : ik[n] \in TKeys
  BY <1>1
(* A block whose index key is before the target is before it.              *)
<1>7. ASSUME NEW n \in 1 .. m, InTable!Before(ik[n], target), NEW j \in 1 .. EndOf(t, n)
      PROVE  InTable!Before(ks[j], target)
  <2>1. EndOf(t, n) \in 1 .. z /\ ~InTable!Before(ik[n], ks[EndOf(t, n)])
    BY <1>2, <1>4 DEF Divides
  <2>2. InTable!Before(ks[EndOf(t, n)], target)
    BY <1>5, <1>6, <1>7, <2>1, BeforeFrom
  <2> QED BY <1>3, <1>7, <2>1, <2>2, KeysAscendBefore
<1>8. \/ /\ \A j \in 1 .. m : InTable!Before(ik[j], target)
         /\ InTable!SeekIn(t.index, target) = InTable!Invalid(t.index)
      \/ \E n \in 1 .. m :
           /\ ~InTable!Before(ik[n], target) /\ \A j \in 1 .. n - 1 : InTable!Before(ik[j], target)
           /\ PlacedIn(t.index, ik, InTable!SeekIn(t.index, target), n)
  BY <1>1, SeekInIs
<1>9. CASE /\ \A j \in 1 .. m : InTable!Before(ik[j], target)
           /\ InTable!SeekIn(t.index, target) = InTable!Invalid(t.index)
  <2>1. m \in 1 .. m
    BY <1>1
  <2> QED BY <1>1, <1>7, <1>9, <2>1
<1>10. ASSUME NEW n \in 1 .. m, ~InTable!Before(ik[n], target),
              \A j \in 1 .. n - 1 : InTable!Before(ik[j], target),
              PlacedIn(t.index, ik, InTable!SeekIn(t.index, target), n)
       PROVE  LookedUp(ks, t, ik, target, n)
  <2> DEFINE b == t.blocks[n]
             o == t.offsets[n]
             l == Len(b.entries)
             p == Slice(ks, o, l)
  <2>1. /\ o \in Nat /\ l \in Nat \ {0} /\ EndOf(t, n) = o + l /\ o + l \in 1 .. z
        /\ PacksFrom(ks, b, o)
    <3>1. EndOf(t, n) = o + l
      BY DEF EndOf
    <3> QED BY <1>4, <3>1
  <2>2. Packs(b, p) /\ p \in Seq(TKeys) /\ Len(p) = l /\ KeysAscend(p)
        /\ \A i \in 1 .. l : p[i] = ks[o + i]
    <3>1. Packs(b, p)
      BY <1>3, <2>1, PacksFromIs
    <3>2. l \in Nat /\ o + l <= Len(ks) /\ o \in Nat
      BY <1>1, <2>1
    <3> QED BY <1>3, <3>1, <3>2, SliceIs
  <2>3. p # <<>>
    BY <2>1, <2>2
  <2>4. ASSUME NEW j \in 1 .. o PROVE InTable!Before(ks[j], target)
    <3>1. n # 1
      BY <1>1, <2>4
    <3>2. n - 1 \in 1 .. m /\ n - 1 < m /\ n - 1 + 1 = n /\ n - 1 \in 1 .. n - 1
      BY <1>1, <3>1
    <3>3. o = EndOf(t, n - 1)
      BY <1>2, <3>2
    <3>4. InTable!Before(ik[n - 1], target)
      BY <1>10, <3>2
    <3> QED BY <1>7, <3>2, <3>3, <3>4
  <2> HIDE DEF p, b, o, l
  <2>5. \/ /\ \A j \in 1 .. l : InTable!Before(p[j], target)
           /\ InTable!SeekIn(b, target) = InTable!Invalid(b)
        \/ \E i \in 1 .. l :
             /\ ~InTable!Before(p[i], target) /\ \A j \in 1 .. i - 1 : InTable!Before(p[j], target)
             /\ PlacedIn(b, p, InTable!SeekIn(b, target), i)
    BY <2>2, <2>3, SeekInIs
  <2>6. CASE /\ \A j \in 1 .. l : InTable!Before(p[j], target)
             /\ InTable!SeekIn(b, target) = InTable!Invalid(b)
    <3>1. InTable!Before(ks[o + l], target)
      <4>1. l \in 1 .. l
        BY <2>1
      <4> QED BY <2>2, <2>6, <4>1
    <3>2. \A j \in 1 .. EndOf(t, n) : InTable!Before(ks[j], target)
      BY <1>3, <2>1, <3>1, KeysAscendBefore
    <3>3. ASSUME EndOf(t, n) < z
          PROVE  /\ ~InTable!Before(ks[EndOf(t, n) + 1], target)
                 /\ InTable!ExtractUserKey(ks[EndOf(t, n) + 1]) # InTable!ExtractUserKey(target)
      <4> DEFINE e == o + l
                 x == ik[n]
                 y == ks[o + l + 1]
      <4>1. e \in 1 .. z /\ e + 1 \in 1 .. z
        BY <1>1, <2>1, <3>3
      <4>2. x \in TKeys /\ ks[e] \in TKeys /\ y \in TKeys
        BY <1>5, <1>6, <4>1
      <4>3. x = ks[e] \/ Smaller(InTable!ExtractUserKey(x), InTable!ExtractUserKey(y))
        BY <1>2, <2>1, <3>3 DEF Divides
      <4>4. InTable!Before(ks[e], target) /\ ~InTable!Before(x, target)
        BY <1>10, <3>1
      <4>5. EndOf(t, n) + 1 = e + 1 /\ ks[EndOf(t, n) + 1] = y
        BY <2>1
      <4> HIDE DEF e, x, y
      <4>6. Smaller(InTable!ExtractUserKey(x), InTable!ExtractUserKey(y))
        BY <4>3, <4>4
      <4>7. InTable!Before(x, y)
        BY <4>2, <4>6, BeforeIs
      <4>8. ~InTable!Before(y, target)
        BY <4>2, <4>4, <4>7, BeforeFrom
      <4>9. InTable!ExtractUserKey(y) # InTable!ExtractUserKey(target)
        BY <4>2, <4>4, <4>6, BeforeIs
      <4> QED BY <4>5, <4>8, <4>9
    <3>4. /\ InTable!SeekIn(b, target) = InTable!Invalid(b)
          /\ \A j \in 1 .. EndOf(t, n) : InTable!Before(ks[j], target)
          /\ EndOf(t, n) < Len(ks) =>
               /\ ~InTable!Before(ks[EndOf(t, n) + 1], target)
               /\ InTable!ExtractUserKey(ks[EndOf(t, n) + 1]) # InTable!ExtractUserKey(target)
      BY <2>6, <3>2, <3>3
    <3> QED BY <1>10, <3>4 DEF LookedUp, b
  <2>7. ASSUME NEW i \in 1 .. l, ~InTable!Before(p[i], target),
               \A j \in 1 .. i - 1 : InTable!Before(p[j], target),
               PlacedIn(b, p, InTable!SeekIn(b, target), i)
        PROVE  LookedUp(ks, t, ik, target, n)
    <3>1. ~InTable!Before(ks[o + i], target)
      BY <2>2, <2>7
    <3>2. ASSUME NEW j \in 1 .. o + i - 1 PROVE InTable!Before(ks[j], target)
      <4>1. CASE j \in 1 .. o
        BY <2>4, <4>1
      <4>2. CASE j \notin 1 .. o
        <5>1. j - o \in 1 .. i - 1 /\ j - o \in 1 .. l /\ o + (j - o) = j
          BY <2>1, <4>2
        <5>2. InTable!Before(p[j - o], target) /\ p[j - o] = ks[o + (j - o)]
          BY <2>2, <2>7, <5>1
        <5> QED BY <5>1, <5>2
      <4> QED BY <4>1, <4>2
    <3> QED BY <1>10, <2>7, <3>1, <3>2 DEF LookedUp, b, o, l, p
  <2> QED BY <2>5, <2>6, <2>7
<1> QED BY <1>8, <1>9, <1>10

-----------------------------------------------------------------------------
(* The two levels of an iterator.                                          *)
AtBlock(it, n) ==
  LET b == table.blocks[n]
      p == Slice(keys, table.offsets[n], Len(b.entries))
  IN /\ InTable!BlockAt(it) = b /\ table.index.entries[it.at].value = n
     /\ InTable!Valid(table.index, it) /\ it.at \in 1 .. InTable!End(table.index)
     /\ Packs(b, p) /\ p # <<>> /\ Len(p) = Len(b.entries)

LEMMA BlockIs ==
  ASSUME NEW ik, TableRight(keys, table, ik), table.closed = TRUE,
         NEW n \in 1 .. Len(table.blocks), NEW it, PlacedIn(table.index, ik, it, n)
  PROVE  AtBlock(it, n)
<1>1. AllDivided(keys, table, ik)
  BY TableClosed
<1>2. /\ Packs(table.index, ik) /\ Len(ik) = Len(table.blocks)
      /\ Len(table.blocks) \in Nat \ {0}
      /\ table.index.entries[n].value = n
  BY <1>1 DEF AllDivided
<1>3. it.at = n
  BY DEF PlacedIn
<1>4. InTable!End(table.index) = Len(ik) + 1
  BY <1>2, PacksIs
<1>5. InTable!BlockAt(it) = table.blocks[n]
  BY <1>2, <1>3 DEF InTable!BlockAt, InTable!Index
<1>6. InTable!Valid(table.index, it) /\ it.at \in 1 .. InTable!End(table.index)
  BY <1>2, <1>3, <1>4 DEF InTable!Valid
<1> DEFINE b == table.blocks[n]
           o == table.offsets[n]
           l == Len(b.entries)
<1>7. keys \in Seq(TKeys) /\ PacksFrom(keys, b, o) /\ l \in Nat \ {0}
  BY TableLaid
<1> HIDE DEF b, o
<1>8. Packs(b, Slice(keys, o, l)) /\ Len(Slice(keys, o, l)) = l
  BY <1>7, PacksFromIs
<1>9. Slice(keys, o, l) # <<>>
  <2>1. Slice(keys, o, l) \in Seq(TKeys)
    BY <1>8, PacksIs
  <2> QED BY <1>7, <1>8, <2>1
<1> QED BY <1>2, <1>3, <1>5, <1>6, <1>8, <1>9 DEF b, o, AtBlock

LEMMA PlacedValid ==
  ASSUME NEW b, NEW ks, Packs(b, ks), NEW it, NEW i
  PROVE  /\ PlacedIn(b, ks, it, i) => InTable!Valid(b, it)
         /\ it = InTable!Invalid(b) => ~InTable!Valid(b, it)
<1>1. InTable!End(b) = Len(ks) + 1 /\ Len(ks) \in Nat
  BY PacksIs
<1>2. InTable!Invalid(b).at = InTable!End(b)
  BY DEF InTable!Invalid, InTable!Position
<1> QED BY <1>1, <1>2 DEF PlacedIn, InTable!Valid

Nowhere(it) == [block |-> InTable!NoBlock, index |-> it, data |-> InTable!Invalid(InTable!NoBlock)]

LEMMA NowhereIs ==
  ASSUME NEW ik, TableRight(keys, table, ik), NEW it, it = InTable!Invalid(table.index)
  PROVE  AtPlace(keys, table, ik, Nowhere(it), 0) /\ ~InTable!Valid(table.index, it)
<1>1. Packs(table.index, ik)
  BY DEF TableRight, Indexed
<1>2. InTable!End(table.index) = Len(ik) + 1 /\ Len(ik) \in Nat
  BY <1>1, PacksIs
<1>3. it.at = InTable!End(table.index)
  BY DEF InTable!Invalid, InTable!Position
<1>4. ~InTable!Valid(table.index, it)
  BY <1>1, PlacedValid
<1>5. ~InTable!Valid(InTable!NoBlock, InTable!Invalid(InTable!NoBlock))
  BY NothingHeld, PlacedValid
<1>6. /\ Nowhere(it).block = InTable!NoBlock /\ Nowhere(it).index = it
      /\ Nowhere(it).data = InTable!Invalid(InTable!NoBlock)
  BY DEF Nowhere
<1>7. Len(keys) \in Nat
  BY TableLaid
<1>8. AtPlace(keys, table, ik, Nowhere(it), 0)
  BY <1>2, <1>3, <1>5, <1>6, <1>7 DEF AtPlace
<1> QED BY <1>4, <1>8

LEMMA SkippedForward ==
  ASSUME NEW ik, TableRight(keys, table, ik), table.closed = TRUE,
         NEW n \in 1 .. Len(table.blocks), NEW it, PlacedIn(table.index, ik, it, n),
         NEW data, NEW g \in Nat,
         \/ PlacedIn(table.blocks[n], Slice(keys, table.offsets[n], Len(table.blocks[n].entries)),
                     data, g - table.offsets[n])
         \/ /\ data = InTable!Invalid(table.blocks[n])
            /\ g = IF EndOf(table, n) = Len(keys) THEN 0 ELSE EndOf(table, n) + 1
  PROVE  AtPlace(keys, table, ik, InTable!SkipForward(it, table.blocks[n], data), g)
<1> DEFINE b == table.blocks[n]
           o == table.offsets[n]
           l == Len(b.entries)
           p == Slice(keys, o, l)
           m == Len(table.blocks)
           z == Len(keys)
           following == InTable!NextIn(table.index, it)
           to == InTable!SkipForward(it, b, data)
<1>1. /\ it.at \in 1 .. InTable!End(table.index) /\ Packs(b, p) /\ Len(p) = l
  <2>1. AtBlock(it, n)
    BY BlockIs
  <2> QED BY <2>1 DEF AtBlock
<1>2. /\ o \in Nat /\ l \in Nat \ {0} /\ EndOf(table, n) \in 1 .. z /\ z \in Nat
      /\ EndOf(table, n) = o + l
  <2>1. EndOf(table, n) = o + l
    BY DEF EndOf
  <2> HIDE DEF o, l
  <2> QED BY <2>1, TableLaid DEF o, l
<1>3. AllDivided(keys, table, ik)
  BY TableClosed
<1>4. /\ Packs(table.index, ik) /\ Len(ik) = m /\ m \in Nat \ {0}
      /\ EndOf(table, m) = z
      /\ n < m => table.offsets[n + 1] = EndOf(table, n) /\ EndOf(table, n) < z
  BY <1>3 DEF AllDivided
<1>5. InTable!Index = table.index
  BY DEF InTable!Index
<1>6. to = IF InTable!Valid(b, data) THEN [block |-> b, index |-> it, data |-> data]
           ELSE IF ~InTable!Valid(table.index, following) THEN Nowhere(following)
           ELSE [block |-> InTable!BlockAt(following), index |-> following, data |-> InTable!FirstIn(InTable!BlockAt(following))]
  BY <1>5, Zenon DEF InTable!SkipForward, Nowhere
<1> HIDE DEF to, following, z, m, p, b, o, l
<1>7. CASE PlacedIn(b, p, data, g - o)
  <2>1. to = [block |-> b, index |-> it, data |-> data]
    BY <1>1, <1>6, <1>7, PlacedValid
  <2>2. to.block = b /\ to.index = it /\ to.data = data
    BY <2>1
  <2>3. g \in 1 .. z
    <3>1. g - o \in 1 .. l
      BY <1>1, <1>7 DEF PlacedIn
    <3> QED BY <1>2, <3>1
  <2>4. WithinBlock(keys, table, ik, to, g, n)
    BY <1>7, <2>2 DEF WithinBlock, b, o, l, p
  <2> QED BY <1>1, <1>2, <2>2, <2>3, <2>4 DEF AtPlace, to, z, b
<1>8. CASE /\ data = InTable!Invalid(b)
           /\ g = IF EndOf(table, n) = z THEN 0 ELSE EndOf(table, n) + 1
  <2>1. ~InTable!Valid(b, data)
    BY <1>1, <1>8, PlacedValid
  <2>2. CASE n = m
    <3>1. following = InTable!Invalid(table.index)
      BY <1>4, <2>2, NextInIs DEF following
    <3>2. /\ AtPlace(keys, table, ik, Nowhere(following), 0)
          /\ ~InTable!Valid(table.index, following)
      BY <3>1, NowhereIs
    <3>3. to = Nowhere(following) /\ g = 0
      BY <1>4, <1>6, <1>8, <2>1, <2>2, <3>2
    <3> QED BY <3>2, <3>3 DEF to, b
  <2>3. CASE n # m
    <3> DEFINE k == n + 1
               c == table.blocks[k]
               j == Len(c.entries)
               q == Slice(keys, table.offsets[k], j)
    <3>1. n < m /\ k \in 1 .. m
      BY <1>4, <2>3 DEF m
    <3>2. PlacedIn(table.index, ik, following, k)
      BY <1>4, <3>1, NextInIs DEF following
    <3>3. /\ g = EndOf(table, n) + 1 /\ table.offsets[k] = EndOf(table, n)
          /\ g \in 1 .. z /\ g - table.offsets[k] = 1
      BY <1>2, <1>4, <1>8, <3>1
    <3> HIDE DEF k
    <3>4. /\ InTable!BlockAt(following) = c /\ InTable!Valid(table.index, following)
          /\ following.at \in 1 .. InTable!End(table.index) /\ Packs(c, q) /\ q # <<>>
          /\ Len(q) = j
      <4>1. k \in 1 .. Len(table.blocks)
        BY <3>1 DEF m
      <4>2. AtBlock(following, k)
        BY <3>2, <4>1, BlockIs
      <4> QED BY <4>2 DEF AtBlock
    <3>5. PlacedIn(c, q, InTable!FirstIn(c), 1)
      BY <3>4, FirstInIs
    <3>6. to = [block |-> c, index |-> following, data |-> InTable!FirstIn(c)]
      BY <1>6, <2>1, <3>4
    <3>7. to.block = c /\ to.index = following /\ to.data = InTable!FirstIn(c)
      BY <3>6
    <3>8. WithinBlock(keys, table, ik, to, g, k)
      BY <3>2, <3>3, <3>5, <3>7 DEF WithinBlock
    <3>9. AtPlace(keys, table, ik, to, g)
      BY <3>1, <3>3, <3>4, <3>7, <3>8 DEF AtPlace, z, m
    <3> QED BY <3>9 DEF to, b
  <2> QED BY <2>2, <2>3
<1> QED BY <1>7, <1>8 DEF b, o, l, p, z

LEMMA SkippedBackward ==
  ASSUME NEW ik, TableRight(keys, table, ik), table.closed = TRUE,
         NEW n \in 1 .. Len(table.blocks), NEW it, PlacedIn(table.index, ik, it, n),
         NEW data, NEW g \in Nat,
         \/ PlacedIn(table.blocks[n], Slice(keys, table.offsets[n], Len(table.blocks[n].entries)),
                     data, g - table.offsets[n])
         \/ data = InTable!Invalid(table.blocks[n]) /\ g = table.offsets[n]
  PROVE  AtPlace(keys, table, ik, InTable!SkipBackward(it, table.blocks[n], data), g)
<1> DEFINE b == table.blocks[n]
           o == table.offsets[n]
           l == Len(b.entries)
           p == Slice(keys, o, l)
           m == Len(table.blocks)
           z == Len(keys)
           prev == InTable!PrevIn(table.index, it)
           to == InTable!SkipBackward(it, b, data)
<1>1. /\ it.at \in 1 .. InTable!End(table.index) /\ Packs(b, p) /\ Len(p) = l
  <2>1. AtBlock(it, n)
    BY BlockIs
  <2> QED BY <2>1 DEF AtBlock
<1>2. /\ o \in Nat /\ l \in Nat \ {0} /\ EndOf(table, n) \in 1 .. z /\ z \in Nat
      /\ EndOf(table, n) = o + l
  <2>1. EndOf(table, n) = o + l
    BY DEF EndOf
  <2> HIDE DEF o, l
  <2> QED BY <2>1, TableLaid DEF o, l
<1>3. AllDivided(keys, table, ik)
  BY TableClosed
<1>4. /\ Packs(table.index, ik) /\ Len(ik) = m /\ m \in Nat \ {0} /\ table.offsets[1] = 0
      /\ \A k \in 1 .. m :
           k < m => table.offsets[k + 1] = EndOf(table, k) /\ EndOf(table, k) < z
  BY <1>3 DEF AllDivided
<1>5. InTable!Index = table.index
  BY DEF InTable!Index
<1>6. to = IF InTable!Valid(b, data) THEN [block |-> b, index |-> it, data |-> data]
           ELSE IF ~InTable!Valid(table.index, prev) THEN Nowhere(prev)
           ELSE [block |-> InTable!BlockAt(prev), index |-> prev, data |-> InTable!LastIn(InTable!BlockAt(prev))]
  BY <1>5, Zenon DEF InTable!SkipBackward, Nowhere
<1> HIDE DEF to, prev, z, m, p, b, o, l
<1>7. CASE PlacedIn(b, p, data, g - o)
  <2>1. to = [block |-> b, index |-> it, data |-> data]
    BY <1>1, <1>6, <1>7, PlacedValid
  <2>2. to.block = b /\ to.index = it /\ to.data = data
    BY <2>1
  <2>3. g \in 1 .. z
    <3>1. g - o \in 1 .. l
      BY <1>1, <1>7 DEF PlacedIn
    <3> QED BY <1>2, <3>1
  <2>4. WithinBlock(keys, table, ik, to, g, n)
    BY <1>7, <2>2 DEF WithinBlock, b, o, l, p
  <2> QED BY <1>1, <1>2, <2>2, <2>3, <2>4 DEF AtPlace, to, z, b
<1>8. CASE data = InTable!Invalid(b) /\ g = o
  <2>1. ~InTable!Valid(b, data)
    BY <1>1, <1>8, PlacedValid
  <2>2. CASE n = 1
    <3>1. prev = InTable!Invalid(table.index)
      BY <1>4, <2>2, PrevInIs DEF prev
    <3>2. AtPlace(keys, table, ik, Nowhere(prev), 0) /\ ~InTable!Valid(table.index, prev)
      BY <3>1, NowhereIs
    <3>3. g = 0
      BY <1>4, <1>8, <2>2 DEF o
    <3>4. to = Nowhere(prev)
      BY <1>6, <2>1, <3>2
    <3> QED BY <3>2, <3>3, <3>4 DEF to, b
  <2>3. CASE n # 1
    <3> DEFINE k == n - 1
               c == table.blocks[k]
               j == Len(c.entries)
               q == Slice(keys, table.offsets[k], j)
    <3>1. n > 1 /\ k \in 1 .. m /\ k < m /\ k + 1 = n
      BY <1>4, <2>3 DEF m
    <3>2. PlacedIn(table.index, ik, prev, k)
      BY <1>4, <3>1, PrevInIs DEF prev
    <3> HIDE DEF k
    <3>3. g = EndOf(table, k)
      BY <1>4, <1>8, <3>1 DEF o
    <3>4. /\ InTable!BlockAt(prev) = c /\ InTable!Valid(table.index, prev)
          /\ prev.at \in 1 .. InTable!End(table.index) /\ Packs(c, q) /\ q # <<>>
          /\ Len(q) = j
      <4>1. k \in 1 .. Len(table.blocks)
        BY <3>1 DEF m
      <4>2. AtBlock(prev, k)
        BY <3>2, <4>1, BlockIs
      <4> QED BY <4>2 DEF AtBlock
    <3>5. PlacedIn(c, q, InTable!LastIn(c), j)
      BY <3>4, LastInIs
    <3>6. EndOf(table, k) \in 1 .. z /\ EndOf(table, k) = table.offsets[k] + j
          /\ table.offsets[k] \in Nat /\ j \in Nat
      <4>1. EndOf(table, k) = table.offsets[k] + j
        BY DEF EndOf
      <4> QED BY <3>1, <4>1, TableLaid DEF m, z
    <3>7. g - table.offsets[k] = j /\ g \in 1 .. z
      <4> HIDE DEF j
      <4> QED BY <3>3, <3>6
    <3>8. to = [block |-> c, index |-> prev, data |-> InTable!LastIn(c)]
      BY <1>6, <2>1, <3>4
    <3>9. to.block = c /\ to.index = prev /\ to.data = InTable!LastIn(c)
      BY <3>8
    <3>10. WithinBlock(keys, table, ik, to, g, k)
      BY <3>2, <3>5, <3>7, <3>9 DEF WithinBlock
    <3>11. AtPlace(keys, table, ik, to, g)
      BY <3>1, <3>4, <3>7, <3>9, <3>10 DEF AtPlace, z, m
    <3> QED BY <3>11 DEF to, b
  <2> QED BY <2>2, <2>3
<1> QED BY <1>7, <1>8 DEF b, o, l, p

-----------------------------------------------------------------------------
LEMMA UnplacedIs ==
  ASSUME NEW ks, NEW t, NEW ik, TableRight(ks, t, ik)
  PROVE  AtPlace(ks, t, ik, InTable!Unplaced, 0)
<1>1. InTable!End(t.index) = Len(ik) + 1 /\ Len(ik) \in Nat
  <2>1. Packs(t.index, ik)
    BY DEF TableRight, Indexed
  <2> QED BY <2>1, PacksIs
<1>2. /\ InTable!Unplaced.block = InTable!NoBlock
      /\ InTable!Unplaced.index = InTable!Invalid(InTable!NoBlock)
      /\ InTable!Unplaced.data = InTable!Invalid(InTable!NoBlock)
  BY DEF InTable!Unplaced
<1>3. InTable!Invalid(InTable!NoBlock).at = 1
  <2>1. InTable!End(InTable!NoBlock) = Len(<<>>) + 1 /\ Len(<<>>) = 0
    BY NothingHeld, PacksIs
  <2> QED BY <2>1 DEF InTable!Invalid, InTable!Position
<1>4. ~InTable!Valid(InTable!NoBlock, InTable!Invalid(InTable!NoBlock))
  BY NothingHeld, PlacedValid
<1>5. Len(ks) \in Nat
  BY TableLaid
<1> QED BY <1>1, <1>2, <1>3, <1>4, <1>5 DEF AtPlace

LEMMA TableInitHolds ==
  ASSUME InTable!Init
  PROVE  TableInv
<1>1. /\ keys = <<>> /\ tableIter = InTable!Unplaced /\ place = 0
      /\ table = [data |-> InTable!NoBlock, index |-> InTable!NoBlock, blocks |-> <<>>, offsets |-> <<>>,
                  pending |-> FALSE, filters |-> <<>>, filterKeys |-> {}, closed |-> FALSE]
  BY DEF InTable!Init
<1>2. /\ table.data = InTable!NoBlock
      /\ table.index = InTable!NoBlock /\ table.blocks = <<>>
      /\ table.offsets = <<>> /\ table.pending = FALSE /\ table.filters = <<>>
      /\ table.filterKeys = {} /\ table.closed = FALSE
  BY <1>1
<1>3. /\ InTable!NoBlock.entries = <<>> /\ Len(<<>>) = 0
      /\ InTable!NoBlock = [entries |-> <<>>, restarts |-> <<1>>, counter |-> 0, last |-> <<>>]
  BY DEF InTable!NoBlock
<1>4. InTable!NoBlock \in TBlock
  <2>1. /\ <<>> \in Seq(TEntry) /\ <<1>> \in Seq(Nat) /\ <<>> \in Seq(Nat)
    OBVIOUS
  <2> QED BY <1>3, <2>1 DEF TBlock
<1>5. table \in TTable
  <2>1. /\ <<>> \in Seq(TBlock) /\ <<>> \in Seq(Nat) /\ <<>> \in Seq(SUBSET TableUserKeys)
        /\ {} \in SUBSET TableUserKeys /\ FALSE \in BOOLEAN
    OBVIOUS
  <2> HIDE DEF TBlock
  <2> QED BY <1>1, <1>4, <2>1 DEF TTable
<1>6. keys \in Seq(TableKeys) /\ KeysAscend(keys) /\ Len(keys) = 0 /\ <<>> \in Seq(TKeys)
  <2>1. DOMAIN keys = {} /\ keys \in Seq(TableKeys)
    BY <1>1
  <2> QED BY <1>1, <2>1 DEF KeysAscend
<1>7. OpenStart(keys, table) = 0
  <2>1. Len(table.data.entries) = 0
    BY <1>2, <1>3
  <2> QED BY <1>6, <2>1 DEF OpenStart
<1>8. Slice(keys, 0, 0) = <<>>
  <2>1. Slice(keys, 0, 0) \in Seq(TKeys) /\ Len(Slice(keys, 0, 0)) = 0
    <3>1. keys \in Seq(TKeys) /\ 0 \in Nat /\ 0 + 0 <= Len(keys)
      BY <1>1, <1>6
    <3> QED BY ONLY <3>1, SliceIs
  <2> QED BY <2>1
<1>9. PacksFrom(keys, InTable!NoBlock, 0)
  BY <1>3, <1>6, <1>8, NothingHeld DEF PacksFrom
<1>10. Laid(keys, table)
  BY <1>2, <1>3, <1>7, <1>9 DEF Laid
<1>11. Indexed(keys, table, <<>>)
  <2>1. KeysAscend(<<>>)
    BY <1>1, <1>6
  <2> QED BY <1>2, <1>3, <2>1, NothingHeld DEF Indexed
<1>12. Filtered(keys, table)
  <2>1. 0 \div FilterBase = 0
    <3>1. FilterBase \in Int /\ FilterBase > 0
      BY TableConstants
    <3> QED BY <3>1, SMT
  <2> QED BY <1>2, <1>3, <1>6, <1>7, <2>1 DEF Filtered
<1>13. TableRight(keys, table, <<>>)
  BY <1>2, <1>3, <1>5, <1>6, <1>10, <1>11, <1>12 DEF TableRight
<1>14. AtPlace(keys, table, <<>>, tableIter, place)
  BY <1>1, <1>13, UnplacedIs
<1> QED BY <1>1, <1>13, <1>14 DEF TableInv

(* The builder at work: the iterator is nowhere.                           *)
LEMMA BuilderStep ==
  ASSUME NEW ks, NEW t, NEW ik, TableRight(ks, t, ik),
         keys' = ks, table' = t, tableIter' = InTable!Unplaced, place' = 0
  PROVE  TableInv'
<1>1. AtPlace(ks, t, ik, InTable!Unplaced, 0)
  BY UnplacedIs
<1> HIDE DEF AtPlace
<1>2. TableRight(keys', table', ik) /\ AtPlace(keys', table', ik, tableIter', place')
  BY <1>1
<1> QED BY <1>2 DEF TableInv

LEMMA AddKeepsTable ==
  ASSUME TableInv, NEW k \in TableKeys, InTable!Add(k)
  PROVE  TableInv'
<1>1. /\ ~table.closed /\ (keys # <<>> => InTable!Before(keys[Len(keys)], k))
      /\ keys' = Append(keys, k) /\ tableIter' = tableIter /\ place' = place
  BY DEF InTable!Add, InTable!Last
<1>2. PICK ik : TableRight(keys, table, ik) /\ (~table.closed => tableIter = InTable!Unplaced /\ place = 0)
  BY DEF TableInv
<1>3. table.closed = FALSE /\ tableIter' = InTable!Unplaced /\ place' = 0
  <2>1. table.closed \in BOOLEAN
    BY <1>2, TableFields DEF TableRight
  <2>2. table.closed = FALSE
    BY <1>1, <2>1
  <2> QED BY <1>1, <1>2, <2>2
<1>4. PICK u : u = IF keys = <<>> THEN table
                   ELSE InTable!AddIndex(table, InTable!FindShortestSeparator(keys[Len(keys)], k))
  OBVIOUS
<1>5. PICK v : v = [u EXCEPT !.data = InTable!AddTo(@, k, Len(Append(keys, k)), RestartInterval),
                             !.filterKeys = @ \cup {InTable!ExtractUserKey(k)}]
  OBVIOUS
<1>6. table' = v \/ table' = InTable!Flush(v)
  BY <1>1, <1>4, <1>5 DEF InTable!Add, InTable!Last
<1>7. /\ \E jk : TableRight(Append(keys, k), v, jk)
      /\ v.closed = FALSE /\ v.data.entries # <<>>
  <2>1. Building(Append(keys, k), v)
    BY <1>1, <1>2, <1>3, <1>4, <1>5, KeyAdded
  <2> QED BY <2>1 DEF Building
<1>8. PICK ls : ls = Append(keys, k)
  OBVIOUS
<1>9. PICK jk : TableRight(ls, v, jk)
  BY <1>7, <1>8
<1>10. CASE table' = v
  BY <1>1, <1>3, <1>8, <1>9, <1>10, BuilderStep
<1>11. CASE table' = InTable!Flush(v)
  <2>1. PICK w : w = [v EXCEPT !.blocks = Append(@, v.data), !.data = InTable!NoBlock,
                               !.pending = TRUE,
                               !.offsets = Append(@, Len(ls) - Len(v.data.entries))]
    OBVIOUS
  <2>2. PICK s : s = InTable!StartBlock(w, Len(ls))
    OBVIOUS
  <2>3. TableRight(ls, s, jk)
    BY <1>7, <1>9, <2>1, <2>2, BlockFlushed
  <2>4. table' = s
    BY <1>1, <1>7, <1>8, <1>11, <2>1, <2>2 DEF InTable!Flush
  <2> QED BY <1>1, <1>3, <1>8, <2>3, <2>4, BuilderStep
<1> QED BY <1>6, <1>10, <1>11

LEMMA FinishKeepsTable ==
  ASSUME TableInv, InTable!Finish
  PROVE  TableInv'
<1>1. /\ ~table.closed /\ keys # <<>> /\ keys' = keys
      /\ tableIter' = tableIter /\ place' = place
  BY DEF InTable!Finish
<1>2. PICK ik : TableRight(keys, table, ik) /\ (~table.closed => tableIter = InTable!Unplaced /\ place = 0)
  BY DEF TableInv
<1>3. table.closed = FALSE /\ tableIter' = InTable!Unplaced /\ place' = 0
  <2>1. table.closed \in BOOLEAN
    BY <1>2, TableFields DEF TableRight
  <2>2. table.closed = FALSE
    BY <1>1, <2>1
  <2> QED BY <1>1, <1>2, <2>2
<1>4. PICK ls : ls = keys
  OBVIOUS
<1>5. PICK t : t = InTable!Flush(table)
  OBVIOUS
<1>6. TableRight(ls, t, ik) /\ t.pending = TRUE
  <2>1. CASE table.data.entries = <<>>
    <3>1. t = table
      BY <1>5, <2>1 DEF InTable!Flush
    <3>2. /\ table.pending <=> table.blocks # <<>> /\ table.data.entries = <<>> /\ ~table.closed
          /\ Laid(keys, table) /\ table \in TTable
      BY <1>2 DEF TableRight
    <3>3. OpenStart(keys, table) # 0
      <4>1. keys \in Seq(TKeys)
        BY <1>2, TableLaid
      <4>2. Len(keys) \in Nat \ {0} /\ Len(<<>>) = 0
        BY <1>1, <4>1
      <4> QED BY <2>1, <4>2 DEF OpenStart
    <3>4. table.blocks # <<>>
      BY <3>2, <3>3 DEF Laid
    <3>5. table.pending \in BOOLEAN
      BY <3>2, TableFields
    <3>6. table.pending = TRUE
      BY <1>1, <2>1, <3>2, <3>4, <3>5
    <3> QED BY <1>2, <1>4, <3>1, <3>6
  <2>2. CASE table.data.entries # <<>>
    <3>1. PICK w : w = [table EXCEPT !.blocks = Append(@, table.data), !.data = InTable!NoBlock,
                                     !.pending = TRUE,
                                     !.offsets = Append(@, Len(ls) - Len(table.data.entries))]
      OBVIOUS
    <3>2. t = InTable!StartBlock(w, Len(ls))
      BY <1>1, <1>4, <1>5, <2>2, <3>1 DEF InTable!Flush
    <3> QED BY <1>2, <1>3, <1>4, <2>2, <3>1, <3>2, BlockFlushed
  <2> QED BY <2>1, <2>2
<1>7. PICK f : f = IF t.filterKeys = {} THEN t
                   ELSE [t EXCEPT !.filters = Append(@, t.filterKeys), !.filterKeys = {}]
  OBVIOUS
<1>8. PICK u : u = [InTable!AddIndex(f, InTable!FindShortSuccessor(ls[Len(ls)])) EXCEPT !.closed = TRUE]
  OBVIOUS
<1>9. table' = u
  BY <1>4, <1>5, <1>7, <1>8 DEF InTable!Finish, InTable!Last
<1>10. ls # <<>>
  BY <1>1, <1>4
<1>11. PICK jk : TableRight(ls, u, jk)
  BY <1>6, <1>7, <1>8, <1>10, TableFinished
<1> QED BY <1>1, <1>3, <1>4, <1>9, <1>11, BuilderStep

-----------------------------------------------------------------------------
(* Where a move of the iterator puts it.                                   *)
LEMMA Opened ==
  ASSUME TableInv
  PROVE  /\ table.closed \in BOOLEAN
         /\ table.closed => \E ik : /\ TableRight(keys, table, ik)
                                    /\ AtPlace(keys, table, ik, tableIter, place)
                                    /\ table.closed = TRUE
<1>1. PICK ik : TableRight(keys, table, ik) /\ AtPlace(keys, table, ik, tableIter, place)
  BY DEF TableInv
<1>2. table.closed \in BOOLEAN
  BY <1>1, TableFields DEF TableRight
<1> QED BY <1>1, <1>2

LEMMA MovedKeeps ==
  ASSUME NEW ik, TableRight(keys, table, ik), table.closed = TRUE,
         NEW it, NEW g, AtPlace(keys, table, ik, it, g), InTable!Moved(it, g)
  PROVE  TableInv'
<1>1. keys' = keys /\ table' = table /\ tableIter' = it /\ place' = g
  BY DEF InTable!Moved
<1> HIDE DEF TableRight, AtPlace
<1>2. TableRight(keys', table', ik) /\ AtPlace(keys', table', ik, tableIter', place')
  BY <1>1
<1>3. table'.closed = TRUE
  BY <1>1
<1> QED BY <1>2, <1>3 DEF TableInv

LEMMA TargetsAre ==
  ASSUME NEW target \in InTable!Targets
  PROVE  target \in TKeys
<1>1. PICK u \in TableUserKeys, s \in 1 .. MaxSeq : target = InTable!InternalKey(u, s)
  BY DEF InTable!Targets
<1>2. u \in Seq(Nat) /\ s \in Nat
  BY TableConstants
<1> QED BY <1>1, <1>2, TKeyMade

Sought(target) ==
  LET it == InTable!SeekIn(table.index, target) IN
  IF InTable!Valid(table.index, it)
  THEN InTable!SkipForward(it, InTable!BlockAt(it), InTable!SeekIn(InTable!BlockAt(it), target)) ELSE Nowhere(it)

LEMMA SoughtPlaced ==
  ASSUME NEW ik, TableRight(keys, table, ik), table.closed = TRUE, NEW target \in TKeys
  PROVE  AtPlace(keys, table, ik, Sought(target), InTable!FirstFrom(target))
<1> DEFINE it == InTable!SeekIn(table.index, target)
<1>1. keys \in Seq(TKeys) /\ Len(keys) \in Nat
  BY TableLaid
<1>2. CASE /\ it = InTable!Invalid(table.index)
           /\ \A j \in 1 .. Len(keys) : InTable!Before(keys[j], target)
  <2>1. AtPlace(keys, table, ik, Nowhere(it), 0) /\ ~InTable!Valid(table.index, it)
    BY <1>2, NowhereIs
  <2>2. InTable!FirstFrom(target) = 0
    BY <1>1, <1>2, FirstFromIs
  <2>3. Sought(target) = Nowhere(it)
    BY <2>1, Zenon DEF Sought
  <2> HIDE DEF it
  <2> QED BY <2>1, <2>2, <2>3
<1>3. ASSUME NEW n \in 1 .. Len(table.blocks), LookedUp(keys, table, ik, target, n)
      PROVE  AtPlace(keys, table, ik, Sought(target), InTable!FirstFrom(target))
  <2> DEFINE b == table.blocks[n]
             o == table.offsets[n]
             p == Slice(keys, o, Len(b.entries))
             data == InTable!SeekIn(b, target)
             g == InTable!FirstFrom(target)
  <2>1. PlacedIn(table.index, ik, it, n)
    BY <1>3 DEF LookedUp
  <2>2. InTable!BlockAt(it) = b /\ InTable!Valid(table.index, it)
    <3>1. AtBlock(it, n)
      BY <2>1, BlockIs
    <3> QED BY <3>1 DEF AtBlock
  <2>3. Sought(target) = InTable!SkipForward(it, b, data)
    BY <2>2, Zenon DEF Sought
  <2>4. /\ o \in Nat /\ EndOf(table, n) \in 1 .. Len(keys) /\ Len(b.entries) \in Nat
        /\ EndOf(table, n) = o + Len(b.entries)
    <3>1. EndOf(table, n) = o + Len(b.entries)
      BY DEF EndOf
    <3> QED BY <3>1, TableLaid
  <2>5. \/ \E i \in 1 .. Len(b.entries) :
             /\ PlacedIn(b, p, data, i)
             /\ ~InTable!Before(keys[o + i], target)
             /\ \A j \in 1 .. o + i - 1 : InTable!Before(keys[j], target)
        \/ /\ data = InTable!Invalid(b)
           /\ \A j \in 1 .. EndOf(table, n) : InTable!Before(keys[j], target)
           /\ EndOf(table, n) < Len(keys) => ~InTable!Before(keys[EndOf(table, n) + 1], target)
    BY <1>3 DEF LookedUp
  <2>6. g \in Nat /\ (\/ PlacedIn(b, p, data, g - o)
                      \/ /\ data = InTable!Invalid(b)
                         /\ g = IF EndOf(table, n) = Len(keys) THEN 0 ELSE EndOf(table, n) + 1)
    <3> HIDE DEF b, p, o, data
    <3>1. ASSUME NEW i \in 1 .. Len(b.entries), PlacedIn(b, p, data, i),
                 ~InTable!Before(keys[o + i], target),
                 \A j \in 1 .. o + i - 1 : InTable!Before(keys[j], target)
          PROVE  g \in Nat /\ PlacedIn(b, p, data, g - o)
      <4> DEFINE e == o + i
      <4>1. e \in 1 .. Len(keys) /\ e \in Nat /\ e - o = i
        BY <1>1, <2>4
      <4>2. ~InTable!Before(keys[e], target) /\ \A j \in 1 .. e - 1 : InTable!Before(keys[j], target)
        <5>1. ~InTable!Before(keys[e], target)
          BY <3>1
        <5>2. ASSUME NEW j \in 1 .. e - 1 PROVE InTable!Before(keys[j], target)
          <6>1. j \in 1 .. o + i - 1
            BY <2>4, <5>2
          <6> QED BY <3>1, <6>1
        <5> QED BY <5>1, <5>2
      <4> HIDE DEF e
      <4>3. g = e
        BY <1>1, <4>1, <4>2, FirstFromIs
      <4>4. g \in Nat /\ g - o = i
        BY <4>1, <4>3
      <4> QED BY <3>1, <4>4
    <3>2. ASSUME \A j \in 1 .. EndOf(table, n) : InTable!Before(keys[j], target),
                 EndOf(table, n) < Len(keys) => ~InTable!Before(keys[EndOf(table, n) + 1], target)
          PROVE  /\ g = IF EndOf(table, n) = Len(keys) THEN 0 ELSE EndOf(table, n) + 1
                 /\ g \in Nat
      <4>1. CASE EndOf(table, n) = Len(keys)
        <5>1. g = 0
          BY <1>1, <3>2, <4>1, FirstFromIs
        <5> QED BY <4>1, <5>1
      <4>2. CASE EndOf(table, n) # Len(keys)
        <5> DEFINE e == EndOf(table, n) + 1
        <5>1. e \in 1 .. Len(keys) /\ e - 1 = EndOf(table, n) /\ EndOf(table, n) < Len(keys)
          BY <1>1, <2>4, <4>2
        <5>2. ~InTable!Before(keys[e], target) /\ \A j \in 1 .. e - 1 : InTable!Before(keys[j], target)
          BY <3>2, <5>1
        <5> HIDE DEF e
        <5>3. g = e
          BY <1>1, <5>1, <5>2, FirstFromIs
        <5>4. g \in Nat
          BY <5>1, <5>3
        <5> QED BY <4>2, <5>3, <5>4 DEF e
      <4> QED BY <4>1, <4>2
    <3> HIDE DEF g
    <3> QED BY <2>5, <3>1, <3>2
  <2>7. AtPlace(keys, table, ik, InTable!SkipForward(it, b, data), g)
    <3> HIDE DEF it, data, g
    <3> QED BY <2>1, <2>6, SkippedForward
  <2> QED BY <2>3, <2>7
<1> QED BY <1>2, <1>3, Searched

-----------------------------------------------------------------------------
LEMMA SeekKeepsTable ==
  ASSUME TableInv, NEW target \in InTable!Targets, InTable!Seek(target)
  PROVE  TableInv'
<1>1. table.closed
  BY DEF InTable!Seek
<1>2. PICK ik : TableRight(keys, table, ik) /\ table.closed = TRUE
  BY <1>1, Opened
<1>3. target \in TKeys
  BY TargetsAre
<1>4. InTable!Moved(Sought(target), InTable!FirstFrom(target))
  <2>1. InTable!Index = table.index
    BY DEF InTable!Index
  <2>2. InTable!Moved(IF InTable!Valid(table.index, InTable!SeekIn(table.index, target))
                      THEN InTable!SkipForward(InTable!SeekIn(table.index, target),
                                               InTable!BlockAt(InTable!SeekIn(table.index, target)),
                                               InTable!SeekIn(InTable!BlockAt(InTable!SeekIn(table.index, target)), target))
                      ELSE Nowhere(InTable!SeekIn(table.index, target)),
                      InTable!FirstFrom(target))
    BY <2>1, Zenon DEF InTable!Seek, Nowhere
  <2> QED BY <2>2, Zenon DEF Sought
<1>5. PICK to : to = Sought(target)
  OBVIOUS
<1>6. PICK g : g = InTable!FirstFrom(target)
  OBVIOUS
<1>7. AtPlace(keys, table, ik, Sought(target), InTable!FirstFrom(target))
  BY <1>2, <1>3, SoughtPlaced
<1>8. AtPlace(keys, table, ik, to, g) /\ InTable!Moved(to, g)
  BY <1>4, <1>5, <1>6, <1>7
<1> QED BY <1>2, <1>8, MovedKeeps

LEMMA FirstKeepsTable ==
  ASSUME TableInv, InTable!SeekToFirst
  PROVE  TableInv'
<1>1. table.closed
  BY DEF InTable!SeekToFirst
<1>2. PICK ik : TableRight(keys, table, ik) /\ table.closed = TRUE
  BY <1>1, Opened
<1> DEFINE it == InTable!FirstIn(table.index)
           b == table.blocks[1]
           o == table.offsets[1]
           p == Slice(keys, o, Len(b.entries))
<1>3. InTable!Moved(InTable!SkipForward(it, InTable!BlockAt(it), InTable!FirstIn(InTable!BlockAt(it))), 1)
  <2>1. InTable!Index = table.index
    BY DEF InTable!Index
  <2> QED BY <2>1, Zenon DEF InTable!SeekToFirst
<1>4. /\ Packs(table.index, ik) /\ ik # <<>> /\ 1 \in 1 .. Len(table.blocks)
      /\ table.offsets[1] = 0
  <2>1. AllDivided(keys, table, ik)
    BY <1>2, TableClosed
  <2> QED BY <2>1 DEF AllDivided
<1>5. PlacedIn(table.index, ik, it, 1)
  BY <1>4, FirstInIs
<1>6. InTable!BlockAt(it) = b /\ Packs(b, p) /\ p # <<>>
  <2>1. AtBlock(it, 1)
    BY <1>2, <1>4, <1>5, BlockIs
  <2> QED BY <2>1 DEF AtBlock
<1>7. PlacedIn(b, p, InTable!FirstIn(b), 1)
  BY <1>6, FirstInIs
<1>8. PlacedIn(b, p, InTable!FirstIn(b), 1 - o)
  <2>1. 1 - o = 1
    BY <1>4
  <2> HIDE DEF p
  <2> QED BY <1>7, <2>1
<1> HIDE DEF it
<1>9. AtPlace(keys, table, ik, InTable!SkipForward(it, b, InTable!FirstIn(b)), 1)
  <2>1. 1 \in Nat
    OBVIOUS
  <2> QED BY <1>2, <1>4, <1>5, <1>8, <2>1, SkippedForward
<1>10. PICK to : to = InTable!SkipForward(it, b, InTable!FirstIn(b))
  OBVIOUS
<1>11. AtPlace(keys, table, ik, to, 1) /\ InTable!Moved(to, 1)
  BY <1>3, <1>6, <1>9, <1>10
<1> QED BY <1>2, <1>11, MovedKeeps

LEMMA LastKeepsTable ==
  ASSUME TableInv, InTable!SeekToLast
  PROVE  TableInv'
<1>1. table.closed
  BY DEF InTable!SeekToLast
<1>2. PICK ik : TableRight(keys, table, ik) /\ table.closed = TRUE
  BY <1>1, Opened
<1> DEFINE it == InTable!LastIn(table.index)
           m == Len(table.blocks)
           b == table.blocks[m]
           o == table.offsets[m]
           p == Slice(keys, o, Len(b.entries))
           z == Len(keys)
<1>3. InTable!Moved(InTable!SkipBackward(it, InTable!BlockAt(it), InTable!LastIn(InTable!BlockAt(it))), z)
  <2>1. InTable!Index = table.index
    BY DEF InTable!Index
  <2> QED BY <2>1, Zenon DEF InTable!SeekToLast
<1>4. /\ Packs(table.index, ik) /\ ik # <<>> /\ m \in 1 .. Len(table.blocks)
      /\ Len(ik) = m /\ EndOf(table, m) = z /\ z \in Nat
  <2>1. AllDivided(keys, table, ik)
    BY <1>2, TableClosed
  <2>2. /\ Packs(table.index, ik) /\ ik # <<>> /\ m \in Nat \ {0}
        /\ Len(ik) = m /\ EndOf(table, m) = z /\ z \in Nat \ {0}
    BY <2>1 DEF AllDivided
  <2> QED BY <2>2
<1>5. PlacedIn(table.index, ik, it, m)
  BY <1>4, LastInIs
<1>6. InTable!BlockAt(it) = b /\ Packs(b, p) /\ p # <<>> /\ Len(p) = Len(b.entries)
  <2>1. AtBlock(it, m)
    BY <1>2, <1>4, <1>5, BlockIs
  <2> QED BY <2>1 DEF AtBlock
<1>7. PlacedIn(b, p, InTable!LastIn(b), Len(p))
  BY <1>6, LastInIs
<1>8. z - o = Len(p)
  <2>1. o + Len(b.entries) = z
    BY <1>4 DEF EndOf
  <2>2. o \in Nat /\ Len(b.entries) \in Nat
    BY <1>2, <1>4, TableLaid
  <2> QED BY <1>4, <1>6, <2>1, <2>2
<1>9. PlacedIn(b, p, InTable!LastIn(b), z - o)
  <2> HIDE DEF p, z, o, b
  <2> QED BY <1>7, <1>8
<1>10. AtPlace(keys, table, ik, InTable!SkipBackward(it, b, InTable!LastIn(b)), z)
  <2> HIDE DEF it, z, m
  <2> QED BY <1>2, <1>4, <1>5, <1>9, SkippedBackward
<1> HIDE DEF it, z, m, b
<1>11. PICK to : to = InTable!SkipBackward(it, b, InTable!LastIn(b))
  OBVIOUS
<1>12. PICK g : g = z
  OBVIOUS
<1>13. AtPlace(keys, table, ik, to, g) /\ InTable!Moved(to, g)
  BY <1>3, <1>6, <1>10, <1>11, <1>12
<1> QED BY <1>2, <1>13, MovedKeeps

(* The entry an iterator is at.                                            *)
EntryOf(ik, it, g, n, i) ==
  LET b == table.blocks[n]
      p == Slice(keys, table.offsets[n], Len(b.entries))
  IN /\ PlacedIn(table.index, ik, it.index, n) /\ it.block = b
     /\ PlacedIn(b, p, it.data, i) /\ Packs(b, p) /\ Len(p) = Len(b.entries)
     /\ g = table.offsets[n] + i /\ p[i] = keys[g]

LEMMA PlaceIs ==
  ASSUME NEW ik, TableRight(keys, table, ik), table.closed = TRUE,
         NEW it, NEW g, AtPlace(keys, table, ik, it, g), g # 0
  PROVE  \E n \in 1 .. Len(table.blocks) : \E i \in 1 .. Len(table.blocks[n].entries) :
           EntryOf(ik, it, g, n, i)
<1>1. PICK n \in 1 .. Len(table.blocks) : WithinBlock(keys, table, ik, it, g, n)
  BY DEF AtPlace
<1> DEFINE b == table.blocks[n]
           o == table.offsets[n]
           l == Len(b.entries)
           p == Slice(keys, o, l)
<1>2. /\ PlacedIn(table.index, ik, it.index, n)
      /\ it.block = b /\ PlacedIn(b, p, it.data, g - o)
  BY <1>1 DEF WithinBlock
<1>3. Packs(b, p) /\ Len(p) = l
  <2>1. AtBlock(it.index, n)
    BY <1>2, BlockIs
  <2> QED BY <2>1 DEF AtBlock
<1>4. keys \in Seq(TKeys) /\ o \in Nat /\ l \in Nat /\ o + l <= Len(keys) /\ g \in Nat
  <2>1. keys \in Seq(TKeys) /\ PacksFrom(keys, b, o) /\ Len(keys) \in Nat
    BY TableLaid
  <2>2. g \in 0 .. Len(keys)
    BY DEF AtPlace
  <2> HIDE DEF b, o
  <2> QED BY <2>1, <2>2, PacksFromIs
<1> HIDE DEF o, l
<1>5. g - o \in 1 .. l
  BY <1>2, <1>3 DEF PlacedIn
<1> DEFINE i == g - o
<1>6. i \in 1 .. l /\ o + i = g
  BY <1>4, <1>5
<1>7. p[i] = keys[g]
  <2> HIDE DEF i
  <2>1. p[i] = keys[o + i]
    BY <1>4, <1>6, SliceIs
  <2> QED BY <1>6, <2>1
<1> HIDE DEF i, p
<1>8. PlacedIn(b, p, it.data, i)
  BY <1>2 DEF i
<1>9. EntryOf(ik, it, g, n, i)
  BY <1>2, <1>3, <1>6, <1>7, <1>8 DEF EntryOf, o, l, p
<1> QED BY <1>6, <1>9 DEF l

-----------------------------------------------------------------------------
LEMMA NextKeepsTable ==
  ASSUME TableInv, InTable!IterNext
  PROVE  TableInv'
<1> DEFINE z == Len(keys)
           h == IF place = z THEN 0 ELSE place + 1
<1>1. /\ table.closed /\ place # 0
      /\ InTable!Moved(InTable!SkipForward(tableIter.index, tableIter.block,
                                           InTable!NextIn(tableIter.block, tableIter.data)), h)
  BY Zenon DEF InTable!IterNext, InTable!AtEntry
<1>2. PICK ik : /\ TableRight(keys, table, ik) /\ table.closed = TRUE
                /\ AtPlace(keys, table, ik, tableIter, place)
  BY <1>1, Opened
<1>20. PICK n \in 1 .. Len(table.blocks) :
         \E i \in 1 .. Len(table.blocks[n].entries) : EntryOf(ik, tableIter, place, n, i)
  BY <1>1, <1>2, PlaceIs
<1>3. PICK i \in 1 .. Len(table.blocks[n].entries) : EntryOf(ik, tableIter, place, n, i)
  BY <1>20
<1> DEFINE b == table.blocks[n]
           o == table.offsets[n]
           l == Len(b.entries)
           p == Slice(keys, o, l)
           it == tableIter.index
           data == InTable!NextIn(b, tableIter.data)
           e == EndOf(table, n)
<1>4. /\ PlacedIn(table.index, ik, it, n) /\ tableIter.block = b
      /\ PlacedIn(b, p, tableIter.data, i) /\ Packs(b, p) /\ Len(p) = l /\ place = o + i
  BY <1>3 DEF EntryOf
<1>5. o \in Nat /\ l \in Nat /\ e = o + l /\ e <= z /\ z \in Nat /\ i \in 1 .. l
  <2>1. e = o + l
    BY DEF EndOf
  <2>2. o \in Nat /\ l \in Nat /\ e \in 1 .. z /\ z \in Nat
    BY <1>2, TableLaid
  <2> HIDE DEF o, l, e, z
  <2> QED BY <2>1, <2>2 DEF l
<1>6. (i < l => PlacedIn(b, p, data, i + 1)) /\ (i = l => data = InTable!Invalid(b))
  <2> HIDE DEF b, p
  <2> QED BY <1>4, NextInIs
<1>7. h \in Nat /\ (PlacedIn(b, p, data, h - o) \/ (data = InTable!Invalid(b) /\ h = IF e = z THEN 0 ELSE e + 1))
  <2> HIDE DEF b, p, o, l, e, z, data
  <2>1. CASE i < l
    <3>1. h = place + 1 /\ h \in Nat /\ h - o = i + 1
      BY <1>4, <1>5, <2>1
    <3> QED BY <1>6, <2>1, <3>1
  <2>2. CASE i = l
    <3>1. place = e /\ h \in Nat
      BY <1>4, <1>5, <2>2
    <3> QED BY <1>6, <2>2, <3>1
  <2> QED BY <1>5, <2>1, <2>2
<1>8. AtPlace(keys, table, ik, InTable!SkipForward(it, b, data), h)
  <2> HIDE DEF data, h, it
  <2> QED BY <1>2, <1>4, <1>7, SkippedForward
<1>9. PICK to : to = InTable!SkipForward(it, b, data)
  OBVIOUS
<1>10. PICK g : g = h
  OBVIOUS
<1>11. AtPlace(keys, table, ik, to, g) /\ InTable!Moved(to, g)
  <2>1. InTable!Moved(InTable!SkipForward(it, b, data), h)
    BY <1>1, <1>4
  <2> HIDE DEF data, h, it, b
  <2> QED BY <1>8, <1>9, <1>10, <2>1
<1> QED BY <1>2, <1>11, MovedKeeps

LEMMA PrevKeepsTable ==
  ASSUME TableInv, InTable!IterPrev
  PROVE  TableInv'
<1> DEFINE h == place - 1
<1>1. /\ table.closed /\ place # 0
      /\ InTable!Moved(InTable!SkipBackward(tableIter.index, tableIter.block,
                                            InTable!PrevIn(tableIter.block, tableIter.data)), h)
  BY Zenon DEF InTable!IterPrev, InTable!AtEntry
<1>2. PICK ik : /\ TableRight(keys, table, ik) /\ table.closed = TRUE
                /\ AtPlace(keys, table, ik, tableIter, place)
  BY <1>1, Opened
<1>20. PICK n \in 1 .. Len(table.blocks) :
         \E i \in 1 .. Len(table.blocks[n].entries) : EntryOf(ik, tableIter, place, n, i)
  BY <1>1, <1>2, PlaceIs
<1>3. PICK i \in 1 .. Len(table.blocks[n].entries) : EntryOf(ik, tableIter, place, n, i)
  BY <1>20
<1> DEFINE b == table.blocks[n]
           o == table.offsets[n]
           l == Len(b.entries)
           p == Slice(keys, o, l)
           it == tableIter.index
           data == InTable!PrevIn(b, tableIter.data)
<1>4. /\ PlacedIn(table.index, ik, it, n) /\ tableIter.block = b
      /\ PlacedIn(b, p, tableIter.data, i) /\ Packs(b, p) /\ place = o + i
  BY <1>3 DEF EntryOf
<1>5. o \in Nat /\ l \in Nat /\ i \in 1 .. l
  <2>1. o \in Nat /\ l \in Nat
    BY <1>2, TableLaid
  <2> HIDE DEF o, l
  <2> QED BY <2>1 DEF l
<1>6. (i > 1 => PlacedIn(b, p, data, i - 1)) /\ (i = 1 => data = InTable!Invalid(b))
  <2> HIDE DEF b, p
  <2> QED BY <1>4, PrevInIs
<1>7. h \in Nat /\ (PlacedIn(b, p, data, h - o) \/ (data = InTable!Invalid(b) /\ h = o))
  <2> HIDE DEF b, p, o, l, data
  <2>1. CASE i > 1
    <3>1. h \in Nat /\ h - o = i - 1
      BY <1>4, <1>5, <2>1
    <3> QED BY <1>6, <2>1, <3>1
  <2>2. CASE i = 1
    <3>1. h = o /\ h \in Nat
      BY <1>4, <1>5, <2>2
    <3> QED BY <1>6, <2>2, <3>1
  <2> QED BY <1>5, <2>1, <2>2
<1>8. AtPlace(keys, table, ik, InTable!SkipBackward(it, b, data), h)
  <2> HIDE DEF data, h, it
  <2> QED BY <1>2, <1>4, <1>7, SkippedBackward
<1>9. PICK to : to = InTable!SkipBackward(it, b, data)
  OBVIOUS
<1>10. PICK g : g = h
  OBVIOUS
<1>11. AtPlace(keys, table, ik, to, g) /\ InTable!Moved(to, g)
  <2>1. InTable!Moved(InTable!SkipBackward(it, b, data), h)
    BY <1>1, <1>4
  <2> HIDE DEF data, h, it, b
  <2> QED BY <1>8, <1>9, <1>10, <2>1
<1> QED BY <1>2, <1>11, MovedKeeps

LEMMA TableNextStep ==
  ASSUME TableInv, InTable!Next
  PROVE  TableInv'
<1>1. ASSUME NEW u \in TableUserKeys, NEW s \in 1 .. MaxSeq - 1, InTable!Add(InTable!InternalKey(u, s))
      PROVE  TableInv'
  <2>1. PICK k : k = InTable!InternalKey(u, s)
    OBVIOUS
  <2>2. k \in TableKeys
    BY <2>1 DEF TableKeys
  <2>3. InTable!Add(k)
    BY <1>1, <2>1
  <2> QED BY <2>2, <2>3, AddKeepsTable
<1>2. CASE InTable!Finish
  BY <1>2, FinishKeepsTable
<1>3. ASSUME NEW target \in InTable!Targets, InTable!Seek(target) PROVE TableInv'
  BY <1>3, SeekKeepsTable
<1>4. CASE InTable!SeekToFirst
  BY <1>4, FirstKeepsTable
<1>5. CASE InTable!SeekToLast
  BY <1>5, LastKeepsTable
<1>6. CASE InTable!IterNext
  BY <1>6, NextKeepsTable
<1>7. CASE InTable!IterPrev
  BY <1>7, PrevKeepsTable
<1> QED BY <1>1, <1>2, <1>3, <1>4, <1>5, <1>6, <1>7 DEF InTable!Next

LEMMA TableStutters ==
  ASSUME TableInv, UNCHANGED inTable
  PROVE  TableInv'
<1>1. /\ keys' = keys /\ table' = table /\ tableIter' = tableIter /\ place' = place
  BY DEF inTable
<1>2. PICK ik : /\ TableRight(keys, table, ik) /\ AtPlace(keys, table, ik, tableIter, place)
                /\ ~table.closed => tableIter = InTable!Unplaced /\ place = 0
  BY DEF TableInv
<1> HIDE DEF TableRight, AtPlace
<1>3. TableRight(keys', table', ik) /\ AtPlace(keys', table', ik, tableIter', place')
  BY <1>1, <1>2
<1>4. InTable!Unplaced' = InTable!Unplaced
  BY DEF InTable!Unplaced, InTable!NoBlock, InTable!Invalid, InTable!Position,
       InTable!End, InTable!NumRestarts
<1> QED BY <1>1, <1>2, <1>3, <1>4 DEF TableInv

-----------------------------------------------------------------------------
(* What the invariant says of lookups and of the iterator.                 *)
LEMMA GetFindsKey ==
  ASSUME NEW ik, TableRight(keys, table, ik), table.closed = TRUE, NEW target \in TKeys,
         InTable!FirstFrom(target) # 0,
         InTable!ExtractUserKey(keys[InTable!FirstFrom(target)]) = InTable!ExtractUserKey(target)
  PROVE  InTable!InternalGet(target) = InTable!FirstFrom(target)
<1> DEFINE it == InTable!SeekIn(table.index, target)
           u == InTable!ExtractUserKey(target)
<1>1. keys \in Seq(TKeys) /\ Len(keys) \in Nat
  BY TableLaid
<1>2. ~(\A j \in 1 .. Len(keys) : InTable!Before(keys[j], target))
  BY <1>1, FirstFromIs
<1>3. PICK n \in 1 .. Len(table.blocks) : LookedUp(keys, table, ik, target, n)
  BY <1>2, Searched
<1> DEFINE b == table.blocks[n]
           o == table.offsets[n]
           l == Len(b.entries)
           p == Slice(keys, o, l)
           data == InTable!SeekIn(b, target)
           f == o \div FilterBase
<1>4. /\ o \in Nat /\ l \in Nat /\ EndOf(table, n) \in 1 .. Len(keys)
      /\ EndOf(table, n) = o + l /\ PacksFrom(keys, b, o)
  <2>1. EndOf(table, n) = o + l
    BY DEF EndOf
  <2> QED BY <2>1, TableLaid
<1>5. PICK i \in 1 .. l : /\ PlacedIn(b, p, data, i) /\ ~InTable!Before(keys[o + i], target)
                          /\ \A j \in 1 .. o + i - 1 : InTable!Before(keys[j], target)
  <2>1. SUFFICES ASSUME \A j \in 1 .. EndOf(table, n) : InTable!Before(keys[j], target),
                        EndOf(table, n) < Len(keys) =>
                          /\ ~InTable!Before(keys[EndOf(table, n) + 1], target)
                          /\ InTable!ExtractUserKey(keys[EndOf(table, n) + 1]) # u
                 PROVE  FALSE
    BY <1>3 DEF LookedUp
  <2>2. EndOf(table, n) < Len(keys)
    BY <1>2, <1>4, <2>1
  <2> DEFINE e == EndOf(table, n) + 1
  <2>3. e \in 1 .. Len(keys) /\ e - 1 = EndOf(table, n)
    BY <1>1, <1>4, <2>2
  <2>4. /\ ~InTable!Before(keys[e], target) /\ InTable!ExtractUserKey(keys[e]) # u
        /\ \A j \in 1 .. e - 1 : InTable!Before(keys[j], target)
    BY <2>1, <2>2, <2>3
  <2> HIDE DEF e
  <2>5. InTable!FirstFrom(target) = e
    BY <1>1, <2>3, <2>4, FirstFromIs
  <2> QED BY <2>4, <2>5
<1> DEFINE g == o + i
<1>6. g \in 1 .. Len(keys) /\ g \in Nat
  <2>1. o \in Nat /\ l \in Nat /\ o + l \in 1 .. Len(keys) /\ Len(keys) \in Nat /\ i \in 1 .. l
    BY <1>1, <1>4
  <2> HIDE DEF o, l
  <2> QED BY ONLY <2>1
<1>7. InTable!FirstFrom(target) = g
  <2>1. ~InTable!Before(keys[g], target)
    BY <1>5
  <2>2. ASSUME NEW j \in 1 .. g - 1 PROVE InTable!Before(keys[j], target)
    <3>1. j \in 1 .. o + i - 1
      BY <1>4, <2>2
    <3> QED BY <1>5, <3>1
  <2> HIDE DEF g
  <2> QED BY <1>1, <1>6, <2>1, <2>2, FirstFromIs
<1>8. /\ InTable!Valid(table.index, it) /\ table.index.entries[it.at].value = n
      /\ Packs(b, p) /\ Len(p) = l
  <2>1. PlacedIn(table.index, ik, it, n)
    BY <1>3 DEF LookedUp
  <2>2. AtBlock(it, n)
    BY <2>1, BlockIs
  <2> QED BY <2>2 DEF AtBlock
<1>9. InTable!Valid(b, data) /\ data.at = i
  <2> HIDE DEF b, p, data
  <2> QED BY <1>5, <1>8, PlacedValid DEF PlacedIn
<1>10. b.entries[i].value = g
  BY <1>4 DEF PacksFrom
<1>11. InTable!KeyMayMatch(o, u)
  <2>1. Filtered(keys, table)
    BY DEF TableRight
  <2>2. InTable!ExtractUserKey(keys[g]) \in FilterOf(table, f)
    BY <2>1 DEF Filtered
  <2>3. u \in FilterOf(table, f)
    BY <1>7, <2>2
  <2> HIDE DEF f, u
  <2>4. f < Len(table.filters) => u \in table.filters[f + 1]
    BY <2>3 DEF FilterOf
  <2> QED BY <2>4 DEF InTable!KeyMayMatch, f
<1>12. InTable!InternalGet(target) = b.entries[data.at].value
  <2>1. InTable!Index = table.index
    BY DEF InTable!Index
  <2> QED BY <1>8, <1>9, <1>11, <2>1, Zenon DEF InTable!InternalGet
<1> QED BY <1>7, <1>9, <1>10, <1>12

LEMMA TableInvFinds ==
  ASSUME TableInv
  PROVE  InTable!TableIsItsKeys
<1> SUFFICES ASSUME table.closed
             PROVE  /\ \A target \in InTable!Targets :
                         /\ InTable!FirstFrom(target) # 0
                         /\ InTable!ExtractUserKey(keys[InTable!FirstFrom(target)]) = InTable!ExtractUserKey(target)
                         => InTable!InternalGet(target) = InTable!FirstFrom(target)
                    /\ place # 0 <=> InTable!Valid(tableIter.block, tableIter.data)
                    /\ place # 0 => tableIter.data.key = keys[place]
  BY Zenon DEF InTable!TableIsItsKeys
<1>1. PICK ik : /\ TableRight(keys, table, ik) /\ table.closed = TRUE
                /\ AtPlace(keys, table, ik, tableIter, place)
  BY Opened
<1>2. ASSUME NEW target \in InTable!Targets, InTable!FirstFrom(target) # 0,
             InTable!ExtractUserKey(keys[InTable!FirstFrom(target)]) = InTable!ExtractUserKey(target)
      PROVE  InTable!InternalGet(target) = InTable!FirstFrom(target)
  BY <1>1, <1>2, TargetsAre, GetFindsKey
<1>3. place = 0 => ~InTable!Valid(tableIter.block, tableIter.data)
  BY <1>1 DEF AtPlace
<1>4. ASSUME place # 0
      PROVE  /\ InTable!Valid(tableIter.block, tableIter.data)
             /\ tableIter.data.key = keys[place]
  <2>1. PICK n \in 1 .. Len(table.blocks) :
          \E i \in 1 .. Len(table.blocks[n].entries) : EntryOf(ik, tableIter, place, n, i)
    BY <1>1, <1>4, PlaceIs
  <2>2. PICK i \in 1 .. Len(table.blocks[n].entries) : EntryOf(ik, tableIter, place, n, i)
    BY <2>1
  <2> DEFINE b == table.blocks[n]
             p == Slice(keys, table.offsets[n], Len(b.entries))
  <2>3. /\ tableIter.block = b /\ PlacedIn(b, p, tableIter.data, i)
        /\ Packs(b, p) /\ p[i] = keys[place]
    BY <2>2 DEF EntryOf
  <2> HIDE DEF b, p
  <2>4. InTable!Valid(b, tableIter.data)
    BY <2>3, PlacedValid
  <2>5. tableIter.data.key = p[i]
    BY <2>3 DEF PlacedIn
  <2> QED BY <2>3, <2>4, <2>5
<1> QED BY <1>2, <1>3, <1>4

LEMMA TableInvTyped ==
  ASSUME TableInv
  PROVE  InTable!TypeOK
<1>1. PICK ik : TableRight(keys, table, ik) /\ AtPlace(keys, table, ik, tableIter, place)
  BY DEF TableInv
<1>2. InTable!ToSet(keys) \subseteq {InTable!InternalKey(u, s) : u \in TableUserKeys, s \in 1 .. MaxSeq - 1}
  <2>1. keys \in Seq(TableKeys)
    BY <1>1 DEF TableRight
  <2>2. \A i \in DOMAIN keys : keys[i] \in TableKeys
    BY <2>1
  <2>3. InTable!ToSet(keys) \subseteq TableKeys
    BY <2>2 DEF InTable!ToSet
  <2> QED BY <2>3 DEF TableKeys
<1>3. /\ Laid(keys, table) /\ Indexed(keys, table, ik) /\ table \in TTable
  BY <1>1 DEF TableRight
<1>4. Len(table.offsets) = Len(table.blocks)
  BY <1>3 DEF Laid
<1>5. Len(InTable!Index.entries) = Len(table.blocks) - (IF table.pending THEN 1 ELSE 0)
  <2>1. Packs(table.index, ik) /\ Len(ik) = Len(table.blocks) - (IF table.pending THEN 1 ELSE 0)
    BY <1>3 DEF Indexed
  <2>2. Len(table.index.entries) = Len(ik)
    BY <2>1, PacksIs
  <2> QED BY <2>1, <2>2 DEF InTable!Index
<1>6. ASSUME NEW b \in InTable!ToSet(table.blocks)
      PROVE  b.entries # <<>> /\ Len(b.restarts) <= Len(b.entries)
  <2>1. table.blocks \in Seq(TBlock)
    BY <1>3, TableFields
  <2>2. PICK n \in 1 .. Len(table.blocks) : b = table.blocks[n]
    BY <2>1 DEF InTable!ToSet
  <2>3. PacksFrom(keys, b, table.offsets[n]) /\ b.entries # <<>>
    BY <1>3, <2>2 DEF Laid
  <2>4. keys \in Seq(TKeys)
    BY <1>1, TableLaid
  <2> DEFINE p == Slice(keys, table.offsets[n], Len(b.entries))
  <2>5. Packs(b, p) /\ Len(p) = Len(b.entries) /\ b.entries \in Seq(TEntry)
    BY <2>3, <2>4, PacksFromIs
  <2> HIDE DEF p
  <2>6. p # <<>>
    <3>1. Len(b.entries) # 0 /\ Len(<<>>) = 0
      BY <2>3, <2>5
    <3> QED BY <2>5, <3>1
  <2>7. Len(b.restarts) <= Len(p)
    BY <2>5, <2>6 DEF Packs
  <2> QED BY <2>3, <2>5, <2>7
<1>7. table.filters \in Seq(SUBSET TableUserKeys)
  BY <1>3, TableFields
<1>8. place \in 0 .. Len(keys) /\ tableIter.index.at \in 1 .. InTable!End(InTable!Index)
  BY <1>1 DEF AtPlace, InTable!Index
<1> QED BY <1>2, <1>4, <1>5, <1>6, <1>7, <1>8 DEF InTable!TypeOK

LEMMA TableInStorage ==
  ASSUME [Next]_vars
  PROVE  InTable!Next \/ UNCHANGED inTable
BY DEF Next, vars

(* TableInv is inductive: every key the builder adds, with or without a    *)
(* Flush after it, Finish and every move of the iterator keep it.          *)
THEOREM TableInvHolds == Spec => []TableInv
<1>1. Init => TableInv
  BY TableInitHolds DEF Init
<1>2. TableInv /\ [Next]_vars => TableInv'
  BY TableInStorage, TableNextStep, TableStutters
<1> QED BY <1>1, <1>2, PTL DEF Spec

(* Get gives the first entry that is not before its target whenever that   *)
(* is of the target's user key, past index, filter and restart points, and *)
(* the two-level iterator is at the entry of the place in the sorted keys  *)
(* it was moved to, for any keys, blocks, restart and filter intervals.    *)
THEOREM TableStaysItsKeys == Spec => []TableIsItsKeys
<1>1. TableInv => TableIsItsKeys
  BY TableInvFinds DEF TableIsItsKeys
<1> QED BY <1>1, TableInvHolds, PTL
-----------------------------------------------------------------------------
(* The types of all parts.                                                 *)

(* A write gives its entry the next number, so there are as many.          *)
HistoryCounted ==
  IsFiniteSet(history) /\ lastSeq = Cardinality(history)

LEMMA HistoryStaysCounted ==
  ASSUME HistoryCounted, LevelsInv, [Next]_vars
  PROVE  HistoryCounted'
<1>1. lastSeq \in Nat /\ \A e \in history : e.seq <= lastSeq
  BY DEF LevelsInv, LevelsTyped
<1>2. ASSUME NEW k \in InLevels!Keys, NEW del \in BOOLEAN, InLevels!Write(k, del)
      PROVE  HistoryCounted'
  <2> DEFINE e == [key |-> k, seq |-> lastSeq + 1, del |-> del]
  <2>1. history' = history \cup {e} /\ lastSeq' = lastSeq + 1
    BY <1>2 DEF InLevels!Write
  <2>2. e \notin history
    BY <1>1
  <2> HIDE DEF e
  <2>3. IsFiniteSet(history \cup {e}) /\ Cardinality(history \cup {e}) = Cardinality(history) + 1
    BY <2>2, FS_AddElement DEF HistoryCounted
  <2>4. Cardinality(history)' = Cardinality(history \cup {e})
    BY <2>1
  <2> QED BY <2>1, <2>3, <2>4 DEF HistoryCounted
<1>3. ASSUME UNCHANGED <<lastSeq, history>> PROVE HistoryCounted'
  <2>1. history' = history /\ lastSeq' = lastSeq
    BY <1>3
  <2>2. Cardinality(history)' = Cardinality(history)
    BY <2>1
  <2> QED BY <2>1, <2>2 DEF HistoryCounted
<1>4. ASSUME UNCHANGED inLevels PROVE HistoryCounted'
  BY <1>3, <1>4 DEF inLevels
<1>5. InLevels!Next \/ UNCHANGED inLevels
  BY LevelsInStorage
<1> QED BY <1>2, <1>3, <1>4, <1>5
     DEF InLevels!Next, InLevels!CompactMemTable, InLevels!GetSnapshot, InLevels!Reopen,
         InLevels!ReleaseSnapshot, InLevels!Move, InLevels!BackgroundCompaction,
         InLevels!ManualCompaction, InLevels!CompactRange, InLevels!NextLevel,
         InLevels!InstallCompactionResults

(* A call of CompactRange goes through levels the database has.            *)
CallTyped ==
  manual.on => /\ manual.level \in Nat /\ manual.max \in 1 .. Levels - 1
               /\ manual.level < manual.max
               /\ manual.begin \in InLevels!Keys /\ manual.end \in InLevels!Keys
               /\ manual.rest \in InLevels!Keys
CallIs ==
  /\ manual \in [on : BOOLEAN, waiting : BOOLEAN, level : Nat, max : Nat,
                 begin : Nat, end : Nat, rest : Nat]
  /\ CallTyped

LEMMA CallStaysTyped ==
  ASSUME CallIs, LevelsInv, [Next]_vars
  PROVE  CallIs'
<1> DEFINE R == [on : BOOLEAN, waiting : BOOLEAN, level : Nat, max : Nat,
                 begin : Nat, end : Nat, rest : Nat]
<1>0. manual \in R /\ CallTyped /\ LevelsTyped
  BY DEF CallIs, LevelsInv
<1>1. InLevels!NoCall \in R /\ InLevels!NoCall.on = FALSE
  BY DEF InLevels!NoCall
<1>2. ASSUME NEW range \in Ranges, InLevels!CompactRange(range[1], range[2]) PROVE CallIs'
  <2> DEFINE begin == range[1]
             end == range[2]
             deep == {l \in 1 .. Levels - 1 : InLevels!Reached(l, begin, end) # {}}
             max == InLevels!Max({1} \cup deep)
  <2>1. begin \in InLevels!Keys /\ end \in InLevels!Keys
    BY StorageAssumption DEF InLevels!LevelsAssumption, InLevels!Keys
  <2>2. max \in 1 .. Levels - 1
    <3> DEFINE S == {1} \cup deep
    <3>1. S \in SUBSET (0 .. Levels - 1) /\ S # {} /\ S \subseteq 1 .. Levels - 1 /\ Levels - 1 \in Nat
      BY LevelConstants
    <3> HIDE DEF S
    <3>2. InList!Max(S) \in S
      BY <3>1, MaxExists
    <3>3. InList!Max(S) = InLevels!Max(S)
      BY DEF InList!Max, InLevels!Max
    <3> QED BY <3>1, <3>2, <3>3 DEF S
  <2>3. manual' = [on |-> TRUE, waiting |-> mem # {}, level |-> 0, max |-> max,
                   begin |-> begin, end |-> end, rest |-> begin]
    BY <1>2 DEF InLevels!CompactRange, InLevels!MaxLevelWithFiles
  <2>4. InLevels!Keys \subseteq Nat /\ 1 .. Levels - 1 \subseteq Nat
    BY LevelConstants
  <2> HIDE DEF begin, end, max
  <2>5. (mem # {}) \in BOOLEAN
    OBVIOUS
  <2>6. manual'.on = TRUE /\ manual'.level = 0 /\ manual'.max = max /\ manual'.begin = begin
        /\ manual'.end = end /\ manual'.rest = begin
    BY <2>3
  <2>7. manual' \in R
    BY <2>1, <2>2, <2>3, <2>4, <2>5
  <2>8. CallTyped'
    BY <2>1, <2>2, <2>6 DEF CallTyped, InLevels!Keys
  <2> QED BY <2>7, <2>8 DEF CallIs
<1>3. ASSUME NEW l \in 0 .. Levels - 2, InLevels!ManualCompaction(l) PROVE CallIs'
  <2>1. l \in InLevels!Level
    BY LevelConstants
  <2>2. PICK inputs \in InLevels!ManualInputs(l, manual.rest, manual.end) :
          \E c \in InLevels!SetupOtherInputs(l, inputs) : \E f \in c.inputs :
            manual' = [manual EXCEPT !.rest = InLevels!Largest(f)]
    BY <1>3 DEF InLevels!ManualCompaction
  <2>3. PICK c \in InLevels!SetupOtherInputs(l, inputs) : \E f \in c.inputs :
          manual' = [manual EXCEPT !.rest = InLevels!Largest(f)]
    BY <2>2
  <2>4. PICK f \in c.inputs : manual' = [manual EXCEPT !.rest = InLevels!Largest(f)]
    BY <2>3
  <2>5. c.inputs \subseteq levels[l]
    <3>1. Picked(l, inputs)
      BY <1>0, <2>1, ManualInputsPick
    <3>2. Chosen(l, c)
      BY <1>0, <3>1, SetupChooses
    <3> QED BY <3>2 DEF Chosen, Picked
  <2>6. InLevels!Largest(f) \in InLevels!Keys
    BY <1>0, <2>1, <2>5, LevelsAreFiles, FileKeys DEF FilesOf
  <2>7. manual.on /\ InLevels!Keys \subseteq Nat
    BY <1>3, LevelConstants DEF InLevels!ManualCompaction, InLevels!ManualReady
  <2>8. /\ manual'.level = manual.level /\ manual'.max = manual.max /\ manual'.begin = manual.begin
        /\ manual'.end = manual.end /\ manual'.rest = InLevels!Largest(f) /\ manual' \in R
    BY <1>0, <2>4, <2>6, <2>7
  <2>9. CallTyped'
    BY <1>0, <2>6, <2>7, <2>8 DEF CallTyped, InLevels!Keys
  <2> QED BY <2>8, <2>9 DEF CallIs
<1>4. ASSUME InLevels!NextLevel PROVE CallIs'
  <2>1. CASE manual.level + 1 = manual.max
    BY <1>1, <1>4, <2>1 DEF InLevels!NextLevel, CallIs, CallTyped
  <2>2. CASE manual.level + 1 # manual.max
    <3>1. manual.on /\ manual' = [manual EXCEPT !.level = @ + 1, !.rest = manual.begin]
      BY <1>4, <2>2 DEF InLevels!NextLevel, InLevels!ManualReady
    <3>2. /\ manual'.level = manual.level + 1 /\ manual'.max = manual.max
          /\ manual'.begin = manual.begin /\ manual'.end = manual.end
          /\ manual'.rest = manual.begin /\ manual' \in R
      <4>1. manual.level + 1 \in Nat /\ manual.begin \in Nat
        BY <1>0
      <4> QED BY <1>0, <3>1, <4>1
    <3>3. manual.level + 1 < manual.max
      <4>1. manual.level \in Nat /\ manual.max \in Int /\ manual.level < manual.max
        BY <1>0, <3>1, LevelConstants DEF CallTyped
      <4> QED BY <2>2, <4>1
    <3>4. CallTyped'
      BY <1>0, <3>1, <3>2, <3>3 DEF CallTyped, InLevels!Keys
    <3> QED BY <3>2, <3>4 DEF CallIs
  <2> QED BY <2>1, <2>2
<1>5. ASSUME InLevels!CompactMemTable PROVE CallIs'
  <2>1. manual' = [manual EXCEPT !.waiting = FALSE]
    BY <1>5 DEF InLevels!CompactMemTable
  <2>2. /\ manual'.on = manual.on /\ manual'.level = manual.level /\ manual'.max = manual.max
        /\ manual'.begin = manual.begin /\ manual'.end = manual.end
        /\ manual'.rest = manual.rest /\ manual' \in R
    BY <1>0, <2>1
  <2> QED BY <1>0, <2>2 DEF CallIs, CallTyped, InLevels!Keys
<1>6. ASSUME manual' = InLevels!NoCall PROVE CallIs'
  BY <1>1, <1>6 DEF CallIs, CallTyped
<1>7. ASSUME manual' = manual PROVE CallIs'
  BY <1>0, <1>7 DEF CallIs, CallTyped, InLevels!Keys
<1>8. ASSUME UNCHANGED inLevels PROVE CallIs'
  BY <1>7, <1>8 DEF inLevels
<1>9. InLevels!Next \/ UNCHANGED inLevels
  BY LevelsInStorage
<1> QED BY <1>2, <1>3, <1>4, <1>5, <1>6, <1>7, <1>8, <1>9
     DEF InLevels!Next, InLevels!Write, InLevels!GetSnapshot, InLevels!Reopen,
         InLevels!ReleaseSnapshot, InLevels!Move, InLevels!BackgroundCompaction,
         InLevels!InstallCompactionResults

LEMMA LevelsInvTyped ==
  ASSUME LevelsInv, HistoryCounted, CallIs
  PROVE  InLevels!TypeOK
<1>1. LevelsTyped /\ JobTyped
  BY DEF LevelsInv
<1>2. lastSeq = InLevels!Cardinality(history)
  <2>1. InLevels!Cardinality(history) = Cardinality(history)
    BY DEF InLevels!Cardinality, Cardinality
  <2> QED BY <2>1 DEF HistoryCounted
<1>3. ASSUME NEW l \in InLevels!Level, NEW f \in levels[l]
      PROVE  f.number \in 0 .. next - 1 /\ f.entries \subseteq history /\ f.entries # {}
  <2>1. f \in FileOf(history)
    BY <1>1 DEF LevelsTyped
  <2> QED BY <2>1 DEF FileOf
<1>4. manual.on => /\ manual.level < manual.max /\ manual.max < Levels
                   /\ {manual.begin, manual.end, manual.rest} \subseteq InLevels!Keys
  BY LevelConstants DEF CallIs, CallTyped
<1> QED BY <1>1, <1>2, <1>3, <1>4 DEF InLevels!TypeOK, LevelsTyped, JobTyped

LEMMA LogInvTyped ==
  ASSUME LogInv
  PROVE  InLog!TypeOK
<1>1. PICK fs \in Seq(Fragment) : FileRight(fs) /\ ReaderRight
  BY DEF LogInv
<1>2. blockOffset \in 0 .. BlockSize /\ damaged \subseteq DOMAIN log
  BY <1>1 DEF FileRight, AlignedRight, CellsRight
<1>3. reader.end <= Len(log) /\ (reader.eof => reader.end = Len(log))
  BY <1>1 DEF ReaderRight
<1>4. Len(reader.buffer) <= BlockSize
  <2>1. PICK a \in Int : a <= At /\ reader.end <= a + BlockSize
    BY <1>1 DEF ReaderRight, InBlock
  <2>2. reader \in Reader
    BY <1>1 DEF ReaderRight
  <2>3. reader.end \in Nat /\ Len(reader.buffer) \in Nat
    BY <2>2 DEF Reader
  <2> QED BY <2>1, <2>3, LogConstants DEF At
<1> QED BY <1>2, <1>3, <1>4 DEF InLog!TypeOK

LEMMA CacheInvTyped ==
  ASSUME CacheInv, capacity \in Capacities
  PROVE  InCache!TypeOK
<1>1. Fits(cache, Held, 0) /\ ClientsRight /\ Held \in Holding
  BY HeldIs DEF CacheInv
<1>2. cache \in CacheRecord /\ \A e \in InCache!Ids : EntryRight(cache, Held, e)
  BY <1>1 DEF Fits
<1> DEFINE Typed == [table : CachedTables \cup {0}, refs : 0 .. Cardinality(Clients) + 1,
                     inCache : BOOLEAN]
<1>3. ASSUME NEW e \in InCache!Ids PROVE cache.entries[e] \in Typed
  <2>1. cache.entries[e] \in CacheEntry
    BY <1>2, RecordIs
  <2>2. cache.entries[e].refs
          = Cardinality(Held[e]) + (IF cache.entries[e].inCache THEN 1 ELSE 0)
    BY <1>2 DEF EntryRight
  <2>3. Cardinality(Held[e]) \in Nat /\ Cardinality(Held[e]) <= Cardinality(Clients)
    <3>1. Held[e] \in SUBSET Clients
      BY <1>1 DEF Holding
    <3> QED BY <3>1, CacheConstants, FS_Subset, FS_CardinalityType
  <2>4. cache.entries[e].refs \in 0 .. Cardinality(Clients) + 1
    BY <2>2, <2>3, CacheConstants
  <2> QED BY <2>1, <2>4 DEF CacheEntry
<1>4. cache.entries \in [InCache!Ids -> Typed]
  BY <1>2, <1>3, RecordIs
<1>5. InCache!ToSet(cache.lru) \subseteq InCache!Ids
  BY <1>2, RecordIs DEF InCache!ToSet
<1>6. cache.usage \in Nat
  <2>1. IsFiniteSet(Cached(cache))
    BY CacheConstants, FS_Subset DEF Cached
  <2> QED BY <1>1, <2>1, FS_CardinalityType DEF Fits
<1>7. cache.inUse \subseteq InCache!Ids /\ cache.hash \in [CachedTables -> InCache!Ids \cup {0}]
  BY <1>2, RecordIs
<1> QED BY <1>1, <1>4, <1>5, <1>6, <1>7, CacheConstants DEF InCache!TypeOK, ClientsRight

LEMMA IterInvTyped ==
  ASSUME IterInv
  PROVE  InIter!TypeOK
<1>1. ChildrenRight /\ Stands(merged) /\ dbIter \in DBIter /\ shown \in InIter!Shown \cup {0}
  BY DEF IterInv, Position
<1>2. shown \in InIter!UserKeys \cup {0}
  BY <1>1 DEF InIter!Shown
<1>3. merged.forward \in BOOLEAN
  <2>1. merged \in Merged
    BY <1>1 DEF Stands
  <2> QED BY <2>1 DEF Merged
<1>4. dbIter.pc \in {"rest", "next", "turn", "prev"} /\ dbIter.saved \in InIter!UserKeys \cup {0}
  BY <1>1 DEF DBIter
<1> QED BY <1>1, <1>2, <1>3, <1>4
     DEF InIter!TypeOK, ChildrenRight, Stands, Children, InIter!None

CapacityGiven == part = "cache" => capacity \in Capacities

(* Every part keeps its types in its behaviours: the files of each level   *)
(* hold entries that were written and are not empty, the log's reader has  *)
(* no more than a block, the cache counts no more references than there    *)
(* can be, the iterator's children stand at entries of theirs, and every   *)
(* block of a table has its offset and its index entry.                    *)
THEOREM StorageTyped == Spec => []TypeOK
<1>1. Init => HistoryCounted /\ CapacityGiven
  <2>1. Cardinality({}) = 0 /\ IsFiniteSet({})
    BY FS_EmptySet
  <2> QED BY <2>1 DEF Init, InLevels!Init, InCache!Init, HistoryCounted, CapacityGiven
<1>2. HistoryCounted /\ LevelsInv /\ [Next]_vars => HistoryCounted'
  BY HistoryStaysCounted
<1>5. Init => CallIs
  BY DEF Init, InLevels!Init, InLevels!NoCall, CallIs, CallTyped
<1>6. CallIs /\ LevelsInv /\ [Next]_vars => CallIs'
  BY CallStaysTyped
<1>3. CapacityGiven /\ [Next]_vars => CapacityGiven'
  <2> SUFFICES ASSUME CapacityGiven, [Next]_vars PROVE CapacityGiven'
    OBVIOUS
  <2>1. part' = part
    BY DEF Next, vars
  <2>2. capacity' = capacity
    BY CacheInStorage DEF inCache, InCache!Next, InCache!FindTable, InCache!Opened,
       InCache!NotOpened, InCache!Release, InCache!Evict, InCache!Prune
  <2> QED BY <2>1, <2>2 DEF CapacityGiven
<1>4. LevelsInv /\ HistoryCounted /\ CallIs /\ LogInv /\ ListInv /\ CacheInv /\ CapacityGiven
      /\ IterInv /\ TableInv => TypeOK
  BY LevelsInvTyped, LogInvTyped, CacheInvTyped, IterInvTyped, TableInvTyped
     DEF TypeOK, ListInv, CapacityGiven
<1> QED BY <1>1, <1>2, <1>3, <1>4, <1>5, <1>6, LevelsInvHolds, LogInvHolds, ListInvHolds, CacheInvHolds,
           IterInvHolds, TableInvHolds, PTL DEF Spec
==============================================================================
