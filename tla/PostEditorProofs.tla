-------------------------- MODULE PostEditorProofs --------------------------
(***************************************************************************)
(* Proofs about PostEditor, for every number of devices, posts and images. *)
(*                                                                         *)
(* TypeCorrect.  The inductive invariant TypeInv adds to the types that    *)
(* every image anything refers to has been named (RangeInv).               *)
(*                                                                         *)
(* LockedForItsUpload is inductive given TypeInv: an upload ends only by   *)
(* closing the screen that waits for it or by marking its device failed.   *)
(*                                                                         *)
(* PostsSoundAlways, from PostInv, which is TypeInv with                   *)
(*   StampInv    behind a change in its queue waits the stamp of its post, *)
(*   StampedInv  a change in the database without its stamp has one unsent,*)
(*   OwnInv      an image belongs to one post and one write, and nothing   *)
(*               names it before its upload is done,                       *)
(*   SeenInv     until the write of an image has landed, only its own      *)
(*               device knows the image,                                   *)
(*   DoomInv     who is named an image that is gone has the write of       *)
(*               another image unsent, behind the one that names the first.*)
(* When an upload is done its device deletes the image it replaces and     *)
(* queues the new one last.  OwnInv says no other post has the deleted     *)
(* image, and SeenInv that the writes still to name it are in that same    *)
(* queue, so that the new image lands after them.                          *)
(***************************************************************************)
EXTENDS PostEditor, SequenceTheorems, FiniteSetTheorems, WellFoundedInduction,
        TLAPS

-----------------------------------------------------------------------------
(* A bounded set of numbers has a greatest element.                        *)
LEMMA MaxExists ==
  ASSUME NEW n \in Nat, NEW S \in SUBSET (1 .. n), S # {}
  PROVE  Max(S) \in S /\ \A m \in S : m <= Max(S)
<1> DEFINE Above(m) == {k \in S : k > m}
           T == {Above(m) : m \in S}
<1>1. IsFiniteSet(1 .. n)
  BY FS_Interval
<1>2. IsFiniteSet(S)
  BY <1>1, FS_Subset
<1>3. \A U \in SUBSET S : IsFiniteSet(U)
  BY <1>2, FS_Subset
<1>4. T \subseteq FiniteSubsetsOf(S) /\ T # {}
  BY <1>3 DEF FiniteSubsetsOf
<1>5. PICK U \in T : \A V \in T : ~(<<V, U>> \in StrictSubsetOrdering(S))
  BY <1>4, FS_StrictSubsetOrderingWellFounded, WFMin
<1>6. PICK m \in S : U = Above(m)
  OBVIOUS
<1>7. \A k \in S : k <= m
  <2> SUFFICES ASSUME NEW k \in S, ~(k <= m) PROVE FALSE
    OBVIOUS
  <2>1. k \in Nat /\ m \in Nat /\ k > m /\ \A x \in S : x \in Nat
    OBVIOUS
  <2>a. \A x \in S : x > k => x > m
    BY <2>1
  <2>b. k \in Above(m) /\ k \notin Above(k)
    BY <2>1
  <2>2. k \in U /\ k \notin Above(k) /\ Above(k) \subseteq U
    BY <1>6, <2>a, <2>b
  <2>3. <<Above(k), U>> \in StrictSubsetOrdering(S)
    BY <1>6, <2>2 DEF StrictSubsetOrdering
  <2> QED BY <1>5, <2>3
<1>8. \A k \in S : m >= k
  BY <1>7
<1>9. Max(S) \in S /\ \A k \in S : Max(S) >= k
  BY <1>8 DEF Max
<1> QED BY <1>9

(* Sequences of writes.                                                    *)
LEMMA WriteType ==
  ASSUME NEW kind \in {"record", "field", "image", "deleted", "stamp"},
         NEW p \in Posts, NEW i \in Nat
  PROVE  /\ Write(kind, p, i) \in Put
         /\ Write(kind, p, i).kind = kind /\ Write(kind, p, i).post = p
         /\ Write(kind, p, i).image = i
BY DEF Write, Put

LEMMA UpdateWrites ==
  ASSUME NEW p \in Posts, NEW i \in Nat, NEW w, w = UpdatePostParameters(p, i)
  PROVE  /\ w \in Seq(Put)
         /\ Len(w) = (IF i = 0 THEN 3 ELSE 4)
         /\ w[1] = Write("field", p, 0) /\ w[2] = Write("field", p, 0)
         /\ i # 0 => w[3] = Write("image", p, i)
         /\ w[Len(w)] = Write("stamp", p, 0)
<1> DEFINE f == Write("field", p, 0)
           m == Write("image", p, i)
           s == Write("stamp", p, 0)
<1>1. f \in Put /\ m \in Put /\ s \in Put
  BY WriteType
<1>2. w = <<f, f>> \o (IF i = 0 THEN <<>> ELSE <<m>>) \o <<s>>
  BY DEF UpdatePostParameters
<1> HIDE DEF f, m, s
<1>3. /\ <<f, f>> \in Seq(Put) /\ <<>> \in Seq(Put) /\ <<m>> \in Seq(Put)
      /\ <<s>> \in Seq(Put) /\ <<m, s>> \in Seq(Put)
      /\ Len(<<f, f>>) = 2 /\ Len(<<>>) = 0 /\ Len(<<m>>) = 1 /\ Len(<<s>>) = 1
      /\ <<f, f>>[1] = f /\ <<f, f>>[2] = f /\ <<m>>[1] = m /\ <<s>>[1] = s
  BY <1>1
<1>4. CASE i = 0
  <2>1. w = <<f, f>> \o <<s>>
    BY <1>2, <1>3, <1>4, ConcatEmptySeq
  <2>2. w \in Seq(Put) /\ Len(w) = 3 /\ w[1] = f /\ w[2] = f /\ w[3] = s
    BY <1>3, <2>1, ConcatProperties
  <2> QED BY <1>4, <2>2 DEF f, s
<1>5. CASE i # 0
  <2> DEFINE t == <<f, f>> \o <<m>>
  <2>0. (IF i = 0 THEN <<>> ELSE <<m>>) = <<m>>
    BY <1>5
  <2>1. w = t \o <<s>>
    BY <1>2, <2>0
  <2>2. t \in Seq(Put) /\ Len(t) = 3 /\ t[1] = f /\ t[2] = f /\ t[3] = m
    BY <1>3, ConcatProperties
  <2> HIDE DEF t
  <2> DEFINE last == <<s>>
  <2>3. last \in Seq(Put) /\ Len(last) = 1 /\ last[1] = s /\ w = t \o last
    BY <1>3, <2>1
  <2> HIDE DEF last
  <2>b. /\ t \o last \in Seq(Put) /\ Len(t \o last) = Len(t) + Len(last)
        /\ \A k \in 1 .. Len(t) + Len(last) :
             (t \o last)[k] = IF k <= Len(t) THEN t[k] ELSE last[k - Len(t)]
    BY <2>2, <2>3, ConcatProperties
  <2>4. /\ w \in Seq(Put) /\ Len(w) = 4
        /\ \A k \in 1 .. 4 : w[k] = IF k <= 3 THEN t[k] ELSE last[k - 3]
    BY <2>2, <2>3, <2>b
  <2>5. w[1] = f /\ w[2] = f /\ w[3] = m /\ w[4] = s
    BY <2>2, <2>3, <2>4
  <2> QED BY <1>5, <2>4, <2>5 DEF f, m, s
<1> QED BY <1>4, <1>5

LEMMA DeletedWrites ==
  ASSUME NEW p \in Posts, NEW w, w = SetPostAsDeleted(p)
  PROVE  /\ w \in Seq(Put) /\ Len(w) = 2
         /\ w[1] = Write("deleted", p, 0) /\ w[2] = Write("stamp", p, 0)
<1>1. Write("deleted", p, 0) \in Put /\ Write("stamp", p, 0) \in Put
  BY WriteType
<1> QED BY <1>1 DEF SetPostAsDeleted

LEMMA RecordWrites ==
  ASSUME NEW p \in Posts, NEW i \in Nat, NEW w, w = <<Write("record", p, i)>>
  PROVE  w \in Seq(Put) /\ Len(w) = 1 /\ w[1] = Write("record", p, i)
<1>1. Write("record", p, i) \in Put
  BY WriteType
<1> QED BY <1>1

(* What the list shows of a post is nothing or the image the database or   *)
(* one of the writes laid over it gives the post.                          *)
LEMMA ShownIs ==
  ASSUME TypeOK, NEW d \in Devices, NEW p \in Posts,
         NEW laid \in SUBSET (1 .. Len(puts[d]))
  PROVE  \/ Shown(d, p, laid) = 0
         \/ Shown(d, p, laid) = db[p].image
         \/ \E n \in laid : /\ puts[d][n].post = p
                            /\ puts[d][n].kind \in {"record", "image"}
                            /\ Shown(d, p, laid) = puts[d][n].image
<1> DEFINE own == {n \in laid : puts[d][n].post = p}
           named == {n \in own : puts[d][n].kind \in {"record", "image"}}
<1>1. Len(puts[d]) \in Nat
  BY LenProperties DEF TypeOK
<1>2. CASE named = {}
  BY <1>2 DEF Shown
<1>3. CASE named # {}
  <2>1. Max(named) \in named
    BY <1>1, <1>3, MaxExists
  <2>2. Shown(d, p, laid) \in {0, puts[d][Max(named)].image}
    BY <1>3 DEF Shown
  <2> QED BY <2>1, <2>2
<1> QED BY <1>2, <1>3

(* What a queue is after writes are added to it.                           *)
LEMMA EnqueueQueue ==
  ASSUME TypeOK, NEW d \in Devices, NEW w \in Seq(Put), Enqueue(d, w)
  PROVE  /\ puts' \in [Devices -> Seq(Put)] /\ Len(w) \in Nat
         /\ Len(puts[d]) \in Nat /\ Len(puts'[d]) = Len(puts[d]) + Len(w)
         /\ \A n \in 1 .. Len(puts[d]) : puts'[d][n] = puts[d][n]
         /\ \A k \in 1 .. Len(w) : puts'[d][Len(puts[d]) + k] = w[k]
         /\ \A n \in 1 .. Len(puts'[d]) :
              \/ n \in 1 .. Len(puts[d])
              \/ \E k \in 1 .. Len(w) : n = Len(puts[d]) + k
         /\ \A e \in Devices \ {d} : puts'[e] = puts[e]
<1>1. puts[d] \in Seq(Put) /\ puts \in [Devices -> Seq(Put)]
  BY DEF TypeOK
<1>2. puts'[d] = puts[d] \o w /\ \A e \in Devices \ {d} : puts'[e] = puts[e]
  BY <1>1 DEF Enqueue
<1>3. /\ puts[d] \o w \in Seq(Put)
      /\ Len(puts[d] \o w) = Len(puts[d]) + Len(w)
      /\ \A i \in 1 .. Len(puts[d]) + Len(w) : (puts[d] \o w)[i] =
            IF i <= Len(puts[d]) THEN puts[d][i] ELSE w[i - Len(puts[d])]
  BY <1>1, ConcatProperties
<1>4. Len(puts[d]) \in Nat /\ Len(w) \in Nat
  BY <1>1, LenProperties
<1>5. puts' \in [Devices -> Seq(Put)]
  BY <1>1, <1>3 DEF Enqueue
<1>6. \A n \in 1 .. Len(puts[d]) : puts'[d][n] = puts[d][n]
  BY <1>2, <1>3, <1>4
<1>7. ASSUME NEW k \in 1 .. Len(w) PROVE puts'[d][Len(puts[d]) + k] = w[k]
  <2>1. /\ Len(puts[d]) + k \in 1 .. Len(puts[d]) + Len(w)
        /\ ~(Len(puts[d]) + k <= Len(puts[d]))
        /\ (Len(puts[d]) + k) - Len(puts[d]) = k
    BY <1>4
  <2> QED BY <1>2, <1>3, <2>1
<1>8. ASSUME NEW n \in 1 .. Len(puts'[d]), n \notin 1 .. Len(puts[d])
      PROVE  \E k \in 1 .. Len(w) : n = Len(puts[d]) + k
  <2>1. n - Len(puts[d]) \in 1 .. Len(w) /\ n = Len(puts[d]) + (n - Len(puts[d]))
    BY <1>2, <1>3, <1>4, <1>8
  <2> QED BY <2>1
<1> QED BY <1>2, <1>3, <1>4, <1>5, <1>6, <1>7, <1>8

(* What a queue is after its oldest write was acknowledged.                *)
LEMMA AcknowledgeQueue ==
  ASSUME TypeOK, NEW d \in Devices, Acknowledge(d)
  PROVE  /\ puts' \in [Devices -> Seq(Put)] /\ sent' \in [Devices -> Nat]
         /\ Len(puts[d]) \in Nat /\ Len(puts'[d]) = Len(puts[d]) - 1
         /\ sent[d] \in Nat /\ sent'[d] = sent[d] - 1 /\ sent'[d] <= Len(puts'[d])
         /\ \A n \in 1 .. Len(puts'[d]) :
              n + 1 \in 1 .. Len(puts[d]) /\ puts'[d][n] = puts[d][n + 1]
         /\ \A e \in Devices \ {d} : puts'[e] = puts[e] /\ sent'[e] = sent[e]
<1>1. /\ puts[d] \in Seq(Put) /\ puts \in [Devices -> Seq(Put)]
      /\ sent \in [Devices -> Nat] /\ sent[d] \in Nat /\ sent[d] <= Len(puts[d])
  BY DEF TypeOK
<1>2. /\ sent[d] > 0 /\ puts' = [puts EXCEPT ![d] = Tail(puts[d])]
      /\ sent' = [sent EXCEPT ![d] = sent[d] - 1]
  BY DEF Acknowledge
<1>3. Len(puts[d]) \in Nat /\ puts[d] # <<>>
  BY <1>1, <1>2, LenProperties, EmptySeq
<1>4. /\ Tail(puts[d]) \in Seq(Put) /\ Len(Tail(puts[d])) = Len(puts[d]) - 1
      /\ \A i \in 1 .. Len(Tail(puts[d])) : Tail(puts[d])[i] = puts[d][i + 1]
  BY <1>1, <1>3, HeadTailProperties
<1>5. /\ puts'[d] = Tail(puts[d]) /\ sent'[d] = sent[d] - 1
      /\ puts' \in [Devices -> Seq(Put)] /\ sent' \in [Devices -> Nat]
      /\ \A e \in Devices \ {d} : puts'[e] = puts[e] /\ sent'[e] = sent[e]
  BY <1>1, <1>2, <1>4
<1>6. \A n \in 1 .. Len(puts'[d]) :
        n + 1 \in 1 .. Len(puts[d]) /\ puts'[d][n] = puts[d][n + 1]
  BY <1>3, <1>4, <1>5
<1> QED BY <1>1, <1>2, <1>3, <1>4, <1>5, <1>6

LEMMA PutFields ==
  ASSUME TypeOK, NEW d \in Devices, NEW n \in 1 .. Len(puts[d])
  PROVE  /\ puts[d][n] \in Put /\ puts[d][n].post \in Posts
         /\ puts[d][n].image \in Nat
         /\ puts[d][n].kind \in {"record", "field", "image", "deleted", "stamp"}
<1>1. puts[d][n] \in Put
  BY ElementOfSeq DEF TypeOK
<1> QED BY <1>1 DEF Put

LEMMA AfterType ==
  ASSUME NEW r \in Record, NEW w \in Put
  PROVE  /\ After(r, w) \in Record
         /\ After(r, w).image =
              IF w.kind \in {"record", "image"} THEN w.image ELSE r.image
         /\ After(r, w).unstamped =
              IF w.kind \in {"record", "stamp"} THEN FALSE ELSE TRUE
<1>1. /\ w.kind \in {"record", "field", "image", "deleted", "stamp"}
      /\ w.image \in Nat
  BY DEF Put
<1>2. CASE w.kind = "record"
  BY <1>1, <1>2 DEF After, Absent, Record
<1>3. CASE w.kind = "field"
  BY <1>1, <1>3 DEF After, Record
<1>4. CASE w.kind = "image"
  BY <1>1, <1>4 DEF After, Record
<1>5. CASE w.kind = "deleted"
  BY <1>1, <1>5 DEF After, Record
<1>6. CASE w.kind = "stamp"
  BY <1>1, <1>6 DEF After, Record
<1> QED BY <1>1, <1>2, <1>3, <1>4, <1>5, <1>6

(* The write that lands, and what it makes of its post.                    *)
LEMMA LandIs ==
  ASSUME TypeOK, NEW d \in Devices, Land(d)
  PROVE  \E n \in 1 .. Len(puts[d]) :
           /\ n = sent[d] + 1 /\ sent' = [sent EXCEPT ![d] = n]
           /\ db' \in [Posts -> Record]
           /\ db'[puts[d][n].post] = After(db[puts[d][n].post], puts[d][n])
           /\ \A p \in Posts \ {puts[d][n].post} : db'[p] = db[p]
<1> DEFINE n == sent[d] + 1
           w == puts[d][n]
<1>1. n \in 1 .. Len(puts[d])
  <2>1. Len(puts[d]) \in Nat /\ sent[d] \in Nat
    BY LenProperties DEF TypeOK
  <2> QED BY <2>1 DEF Land
<1>2. w \in Put /\ w.post \in Posts
  BY <1>1, PutFields
<1>3. db' = [db EXCEPT ![w.post] = After(db[w.post], w)]
  BY DEF Land, Apply
<1>4. sent' = [sent EXCEPT ![d] = n]
  BY DEF Land
<1>5. db \in [Posts -> Record] /\ After(db[w.post], w) \in Record
  BY <1>2, AfterType DEF TypeOK
<1> HIDE DEF n
<1> QED BY <1>1, <1>2, <1>3, <1>4, <1>5 DEF n

-----------------------------------------------------------------------------
(* Types.                                                                  *)

(* Every image anything refers to has been named.                          *)
RangeInv ==
  /\ \A p \in Posts : db[p].image <= images
  /\ \A d \in Devices :
       /\ \A p \in Posts : list[d][p] <= images
       /\ screen[d].old <= images
       /\ screen[d].post # NoPost => screen[d].old # 0
       /\ \A n \in 1 .. Len(puts[d]) : puts[d][n].image <= images
  /\ \A u \in uploads :
       /\ 0 < u.image /\ u.image <= images /\ u.old <= images
       /\ u.post # NoPost => u.old # 0

TypeInv == TypeOK /\ RangeInv

ScreenEdit(d, s) == screen' = [screen EXCEPT ![d] = s]

LEMMA ScreenFields ==
  ASSUME TypeOK, NEW d \in Devices
  PROVE  /\ screen[d] \in Screen /\ screen[d].post \in Posts \cup {NoPost}
         /\ screen[d].old \in Nat /\ screen[d].waitsFor \in Nat
         /\ screen[d].stage \in {"closed", "fetching", "editing", "locked"}
BY DEF TypeOK, Screen

LEMMA ClosedScreen ==
  /\ Closed \in Screen /\ Closed.old = 0 /\ Closed.post = NoPost
  /\ Closed.stage = "closed" /\ Closed.waitsFor = 0
BY DEF Closed, Screen

LEMMA RecordFields ==
  ASSUME TypeOK, NEW p \in Posts
  PROVE  db[p] \in Record /\ db[p].image \in Nat /\ db[p].unstamped \in BOOLEAN
BY DEF TypeOK, Record

LEMMA UploadFields ==
  ASSUME TypeOK, NEW u \in uploads
  PROVE  /\ u.device \in Devices /\ u.post \in Posts \cup {NoPost}
         /\ u.old \in Nat /\ u.image \in Nat
<1>1. u \in Upload
  BY DEF TypeOK
<1> QED BY <1>1 DEF Upload

(* Only a screen changes: to one whose image has been named.               *)
LEMMA ScreenType ==
  ASSUME TypeInv, NEW d \in Devices, NEW s \in Screen, ScreenEdit(d, s),
         s.old <= images, s.post # NoPost => s.old # 0,
         UNCHANGED <<remote, list, network, lost, repeated, images, stops, drops>>,
         failed' \subseteq Devices, edits' \in Nat
  PROVE  TypeInv'
<1>1. UNCHANGED <<db, storage, list, puts, sent, uploads, deletions, images>>
  BY DEF remote, network
<1>2. TypeOK'
  BY <1>1 DEF TypeInv, TypeOK, ScreenEdit
<1>3. \A e \in Devices : screen'[e] = IF e = d THEN s ELSE screen[e]
  BY DEF TypeInv, TypeOK, ScreenEdit
<1>4. RangeInv'
  BY <1>1, <1>3 DEF TypeInv, RangeInv
<1> QED BY <1>2, <1>4 DEF TypeInv

LEMMA EditScreens ==
  ASSUME TypeInv, NEW d \in Devices,
         \/ OpenNew(d) \/ \E p \in Posts : OpenEdit(d, p)
         \/ ImageLoaded(d) \/ ImageNotLoaded(d) \/ Pick(d) \/ Cancel(d)
         \/ TapOutside(d)
  PROVE  /\ UNCHANGED <<remote, list, network, lost, repeated, images, stops, drops>>
         /\ failed' \subseteq Devices /\ edits' \in Nat /\ failed \subseteq failed'
         /\ \E s \in Screen :
              /\ ScreenEdit(d, s)
              /\ s.post # NoPost => s.old # 0
              /\ \/ s.old = screen[d].old /\ s.post = screen[d].post
                 \/ s.post = NoPost /\ s.old = 0
                 \/ s.post # NoPost /\ s.old = list[d][s.post]
              /\ s.stage = "locked" => d \in failed' \/ s = screen[d]
<1> USE DEF TypeInv
<1>0. /\ TypeOK /\ edits \in Nat /\ failed \subseteq Devices
      /\ screen[d].post # NoPost => screen[d].old # 0
  BY DEF TypeOK, RangeInv
<1>1. CASE OpenNew(d)
  <2> DEFINE s == [Closed EXCEPT !.stage = "editing"]
  <2>1. /\ s \in Screen /\ s.old = 0 /\ s.post = NoPost /\ s.stage # "locked"
    BY DEF Closed, Screen
  <2>2. ScreenEdit(d, s)
    BY <1>1 DEF OpenNew, ScreenEdit
  <2> HIDE DEF s
  <2> QED BY <1>0, <1>1, <2>1, <2>2 DEF OpenNew
<1>2. ASSUME NEW p \in Posts, OpenEdit(d, p)
      PROVE  /\ UNCHANGED <<remote, list, network, lost, repeated, images, stops, drops>>
             /\ failed' \subseteq Devices /\ edits' \in Nat /\ failed \subseteq failed'
             /\ \E s \in Screen :
                  /\ ScreenEdit(d, s) /\ s.stage # "locked"
                  /\ s.post # NoPost /\ s.old # 0 /\ s.old = list[d][s.post]
  <2> DEFINE s == [Closed EXCEPT !.stage = "fetching", !.post = p, !.old = list[d][p]]
  <2>0. list[d][p] \in Nat /\ p # NoPost /\ list[d][p] # 0
    BY <1>2, PostEditorAssumption, ZenonT(40) DEF TypeOK, OpenEdit
  <2>1. /\ s \in Screen /\ s.old = list[d][p] /\ s.post = p /\ s.stage # "locked"
    BY <2>0 DEF Closed, Screen
  <2>2. ScreenEdit(d, s)
    BY <1>2 DEF OpenEdit, ScreenEdit
  <2> HIDE DEF s
  <2>3. \E t \in Screen :
          /\ ScreenEdit(d, t) /\ t.stage # "locked"
          /\ t.post # NoPost /\ t.old # 0 /\ t.old = list[d][t.post]
    BY <2>0, <2>1, <2>2
  <2>4. /\ UNCHANGED <<remote, list, network, lost, repeated, images, stops, drops>>
        /\ failed' = failed /\ edits' = edits + 1
    BY <1>2 DEF OpenEdit
  <2> QED BY <1>0, <2>3, <2>4
<1>3. CASE ImageLoaded(d)
  <2> DEFINE s == [screen[d] EXCEPT !.stage = "editing", !.hasImage = TRUE]
  <2>1. /\ s \in Screen /\ s.old = screen[d].old /\ s.post = screen[d].post
        /\ s.stage # "locked"
    BY <1>0, ScreenFields DEF Screen
  <2>2. ScreenEdit(d, s)
    BY <1>3 DEF ImageLoaded, ScreenEdit
  <2> HIDE DEF s
  <2> QED BY <1>0, <1>3, <2>1, <2>2 DEF ImageLoaded, history
<1>4. CASE ImageNotLoaded(d)
  <2> DEFINE s == [screen[d] EXCEPT !.stage = "locked"]
  <2>1. /\ s \in Screen /\ s.old = screen[d].old /\ s.post = screen[d].post
    BY <1>0, ScreenFields DEF Screen
  <2>2. ScreenEdit(d, s)
    BY <1>4 DEF ImageNotLoaded, ScreenEdit
  <2>3. failed' = failed \cup {d}
    BY <1>4 DEF ImageNotLoaded
  <2> HIDE DEF s
  <2> QED BY <1>0, <1>4, <2>1, <2>2, <2>3 DEF ImageNotLoaded
<1>5. CASE Pick(d)
  <2>0. PICK hasImage \in BOOLEAN :
          screen' = [screen EXCEPT ![d].hasImage = hasImage,
                                   ![d].isImageSelected = TRUE]
    BY <1>5 DEF Pick
  <2> DEFINE s == [screen[d] EXCEPT !.hasImage = hasImage, !.isImageSelected = TRUE]
  <2>1. /\ s \in Screen /\ s.old = screen[d].old /\ s.post = screen[d].post
        /\ s.stage = screen[d].stage
    BY <1>0, ScreenFields DEF Screen
  <2>2. ScreenEdit(d, s)
    BY <2>0 DEF ScreenEdit
  <2>3. s.stage # "locked"
    BY <1>5, <2>1 DEF Pick
  <2> HIDE DEF s
  <2> QED BY <1>0, <1>5, <2>1, <2>2, <2>3 DEF Pick, history
<1>6. CASE Cancel(d) \/ TapOutside(d)
  <2>1. ScreenEdit(d, Closed)
    BY <1>6 DEF Cancel, TapOutside, ScreenEdit
  <2> QED BY <1>0, <1>6, <2>1, ClosedScreen DEF Cancel, TapOutside, history
<1> QED BY <1>1, <1>2, <1>3, <1>4, <1>5, <1>6

LEMMA SubmitImageType ==
  ASSUME TypeInv, NEW d \in Devices, SubmitImage(d)
  PROVE  TypeInv'
<1> USE DEF TypeInv
<1> DEFINE u == [device |-> d, post |-> screen[d].post, old |-> screen[d].old,
                 image |-> images']
           s == [screen[d] EXCEPT !.stage = "locked", !.waitsFor = images']
<1>1. /\ images' = images + 1 /\ uploads' = uploads \cup {u} /\ ScreenEdit(d, s)
      /\ UNCHANGED <<remote, list, puts, sent, deletions, failed, lost, repeated,
                     edits, stops, drops>>
  BY DEF SubmitImage, ScreenEdit
<1>2. images \in Nat /\ images' \in Nat /\ images <= images'
  BY <1>1 DEF TypeOK
<1>3. /\ u \in Upload /\ u.image = images' /\ u.old = screen[d].old
      /\ u.post = screen[d].post /\ u.device = d
  BY <1>2, ScreenFields DEF Upload
<1>4. s \in Screen /\ s.old = screen[d].old /\ s.post = screen[d].post
  BY <1>2, ScreenFields DEF Screen
<1> HIDE DEF u, s
<1>5. \A i \in 1 .. images : i \in 1 .. images'
  BY <1>2
<1>6. storage' \subseteq 1 .. images' /\ deletions' \subseteq 1 .. images'
  BY <1>1, <1>5 DEF TypeOK, remote
<1>7. TypeOK'
  BY <1>1, <1>2, <1>3, <1>4, <1>6 DEF TypeOK, ScreenEdit, remote
<1>8. \A n \in Nat : n <= images => n <= images'
  BY <1>2
<1>9. \A e \in Devices : screen'[e].old = screen[e].old /\ screen'[e].post = screen[e].post
  BY <1>1, <1>4 DEF TypeOK, ScreenEdit
<1>10. RangeInv'
  <2>1. \A p \in Posts : db'[p].image <= images'
    BY <1>1, <1>8, RecordFields DEF RangeInv, remote
  <2>2. ASSUME NEW e \in Devices
        PROVE  /\ \A p \in Posts : list'[e][p] <= images'
               /\ screen'[e].old <= images'
               /\ screen'[e].post # NoPost => screen'[e].old # 0
               /\ \A n \in 1 .. Len(puts'[e]) : puts'[e][n].image <= images'
    <3>1. \A p \in Posts : list'[e][p] <= images'
      BY <1>1, <1>8 DEF RangeInv, TypeOK
    <3>2. /\ screen'[e].old <= images'
          /\ screen'[e].post # NoPost => screen'[e].old # 0
      BY <1>8, <1>9, ScreenFields DEF RangeInv
    <3>3. \A n \in 1 .. Len(puts'[e]) : puts'[e][n].image <= images'
      BY <1>1, <1>8, PutFields DEF RangeInv
    <3> QED BY <3>1, <3>2, <3>3
  <2>3. ASSUME NEW v \in uploads'
        PROVE  /\ 0 < v.image /\ v.image <= images' /\ v.old <= images'
               /\ v.post # NoPost => v.old # 0
    <3>1. CASE v \in uploads
      BY <1>8, <3>1, UploadFields DEF RangeInv
    <3>2. CASE v = u
      <4>1. 0 < images' /\ images' <= images'
        BY <1>1, <1>2 DEF TypeOK
      <4>2. u.old <= images'
        BY <1>3, <1>8, ScreenFields DEF RangeInv
      <4> QED BY <1>3, <3>2, <4>1, <4>2 DEF RangeInv
    <3> QED BY <1>1, <3>1, <3>2
  <2> QED BY <2>1, <2>2, <2>3 DEF RangeInv
<1> QED BY <1>7, <1>10

(* The writes an editor queues are of one post, end with its stamp or are  *)
(* the whole record, and name at most the image i.                         *)
Edits(w, p, i) ==
  /\ w \in Seq(Put) /\ Len(w) >= 1
  /\ \A k \in 1 .. Len(w) :
       /\ w[k].post = p /\ w[k].image \in {0, i}
       /\ w[k].kind \notin {"record", "stamp"} => k < Len(w) /\ w[Len(w)].kind = "stamp"
       /\ w[k].kind \in {"record", "image"} => w[k].image = i

LEMMA UpdateEdits ==
  ASSUME NEW p \in Posts, NEW i \in Nat, NEW w, w = UpdatePostParameters(p, i)
  PROVE  /\ Edits(w, p, i) /\ w[Len(w)].kind = "stamp"
         /\ \A k \in 1 .. Len(w) : w[k].kind # "record"
         /\ i = 0 => \A k \in 1 .. Len(w) : w[k].kind # "image"
         /\ i # 0 => \E k \in 1 .. Len(w) :
              /\ w[k].kind = "image"
              /\ \A j \in 1 .. Len(w) : w[j].kind = "image" => j = k
<1>1. /\ w \in Seq(Put) /\ Len(w) = (IF i = 0 THEN 3 ELSE 4)
      /\ w[1] = Write("field", p, 0) /\ w[2] = Write("field", p, 0)
      /\ i # 0 => w[3] = Write("image", p, i)
      /\ w[Len(w)] = Write("stamp", p, 0)
  BY UpdateWrites
<1>2. /\ Write("field", p, 0).kind = "field" /\ Write("field", p, 0).post = p
      /\ Write("field", p, 0).image = 0
      /\ Write("image", p, i).kind = "image" /\ Write("image", p, i).post = p
      /\ Write("image", p, i).image = i
      /\ Write("stamp", p, 0).kind = "stamp" /\ Write("stamp", p, 0).post = p
      /\ Write("stamp", p, 0).image = 0
  BY WriteType
<1>3. CASE i = 0
  <2>1. Len(w) = 3 /\ w[3] = Write("stamp", p, 0)
    BY <1>1, <1>3
  <2>2. \A k \in 1 .. Len(w) : k = 1 \/ k = 2 \/ k = 3
    BY <2>1
  <2> QED BY <1>1, <1>2, <1>3, <2>1, <2>2 DEF Edits
<1>4. CASE i # 0
  <2>1. Len(w) = 4 /\ w[4] = Write("stamp", p, 0) /\ w[3] = Write("image", p, i)
    BY <1>1, <1>4
  <2>2. \A k \in 1 .. Len(w) : k = 1 \/ k = 2 \/ k = 3 \/ k = 4
    BY <2>1
  <2>3. Edits(w, p, i)
    BY <1>1, <1>2, <2>1, <2>2 DEF Edits
  <2>4. 3 \in 1 .. Len(w) /\ \A j \in 1 .. Len(w) : w[j].kind = "image" => j = 3
    BY <1>1, <1>2, <2>1, <2>2
  <2>5. \A k \in 1 .. Len(w) : w[k].kind # "record"
    BY <1>1, <1>2, <2>1, <2>2
  <2> QED BY <1>1, <1>2, <1>4, <2>1, <2>3, <2>4, <2>5
<1> QED BY <1>3, <1>4

LEMMA DeletedEdits ==
  ASSUME NEW p \in Posts, NEW w, w = SetPostAsDeleted(p)
  PROVE  /\ Edits(w, p, 0)
         /\ \A k \in 1 .. Len(w) : w[k].kind \notin {"record", "image"}
<1>1. /\ w \in Seq(Put) /\ Len(w) = 2
      /\ w[1] = Write("deleted", p, 0) /\ w[2] = Write("stamp", p, 0)
  BY DeletedWrites
<1>2. \A k \in 1 .. Len(w) : k = 1 \/ k = 2
  BY <1>1
<1> QED BY <1>1, <1>2, WriteType DEF Edits

LEMMA RecordEdits ==
  ASSUME NEW p \in Posts, NEW i \in Nat, NEW w, w = <<Write("record", p, i)>>
  PROVE  Edits(w, p, i) /\ Len(w) = 1 /\ w[1].kind = "record"
<1>1. w \in Seq(Put) /\ Len(w) = 1 /\ w[1] = Write("record", p, i)
  BY RecordWrites
<1> QED BY <1>1, WriteType DEF Edits

(* What one of the three adds to a device's queue.                         *)
LEMMA EnqueueType ==
  ASSUME TypeInv, NEW d \in Devices, NEW p \in Posts, NEW i \in Nat, i <= images,
         NEW w, Edits(w, p, i), Enqueue(d, w)
  PROVE  /\ puts' \in [Devices -> Seq(Put)]
         /\ \A e \in Devices : /\ sent[e] <= Len(puts'[e])
                               /\ \A n \in 1 .. Len(puts'[e]) :
                                    puts'[e][n].image <= images
<1> USE DEF TypeInv
<1>1. /\ puts' \in [Devices -> Seq(Put)] /\ Len(w) \in Nat
      /\ Len(puts[d]) \in Nat /\ Len(puts'[d]) = Len(puts[d]) + Len(w)
      /\ \A n \in 1 .. Len(puts[d]) : puts'[d][n] = puts[d][n]
      /\ \A k \in 1 .. Len(w) : puts'[d][Len(puts[d]) + k] = w[k]
      /\ \A n \in 1 .. Len(puts'[d]) : \/ n \in 1 .. Len(puts[d])
                                       \/ \E k \in 1 .. Len(w) : n = Len(puts[d]) + k
      /\ \A e \in Devices \ {d} : puts'[e] = puts[e]
  BY EnqueueQueue DEF Edits
<1>2. \A e \in Devices : sent[e] \in Nat /\ sent[e] <= Len(puts[e])
  BY DEF TypeOK
<1>3. sent[d] <= Len(puts'[d])
  BY <1>1, <1>2
<1>4. images \in Nat /\ 0 <= images
  BY DEF TypeOK
<1>5. \A n \in 1 .. Len(puts'[d]) : puts'[d][n].image <= images
  <2>1. \A n \in 1 .. Len(puts[d]) : puts'[d][n].image <= images
    <3>1. \A n \in 1 .. Len(puts[d]) : puts[d][n].image <= images
      BY DEF RangeInv
    <3> QED BY <1>1, <3>1
  <2>2. ASSUME NEW k \in 1 .. Len(w)
        PROVE  puts'[d][Len(puts[d]) + k].image <= images
    <3>1. w[k].image \in {0, i}
      BY DEF Edits
    <3>2. puts'[d][Len(puts[d]) + k] = w[k]
      BY <1>1
    <3>3. w[k].image <= images
      BY <1>4, <3>1
    <3> QED BY <3>2, <3>3
  <2> QED BY <1>1, <2>1, <2>2
<1>6. ASSUME NEW e \in Devices, e # d
      PROVE  /\ sent[e] <= Len(puts'[e])
             /\ \A n \in 1 .. Len(puts'[e]) : puts'[e][n].image <= images
  <2>1. puts'[e] = puts[e]
    BY <1>1, <1>6
  <2>2. sent[e] <= Len(puts'[e])
    BY <1>2, <2>1
  <2>3. \A n \in 1 .. Len(puts'[e]) : puts'[e][n].image <= images
    BY <2>1 DEF RangeInv
  <2> QED BY <2>2, <2>3
<1> QED BY <1>1, <1>3, <1>5, <1>6

LEMMA SubmitType ==
  ASSUME TypeInv, NEW d \in Devices, SubmitText(d) \/ Delete(d)
  PROVE  /\ TypeInv'
         /\ \E w : Edits(w, screen[d].post, 0) /\ Enqueue(d, w)
                   /\ \A k \in 1 .. Len(w) : w[k].kind \notin {"record", "image"}
<1> USE DEF TypeInv
<1>1. /\ screen[d].post \in Posts /\ ScreenEdit(d, Closed)
      /\ UNCHANGED <<remote, list, sent, uploads, deletions, history>>
  BY ScreenFields DEF SubmitText, Delete, ScreenEdit
<1>2. PICK w : /\ Edits(w, screen[d].post, 0) /\ Enqueue(d, w)
               /\ \A k \in 1 .. Len(w) : w[k].kind \notin {"record", "image"}
  BY <1>1, UpdateEdits, DeletedEdits DEF SubmitText, Delete
<1>3. /\ puts' \in [Devices -> Seq(Put)]
      /\ \A e \in Devices : /\ sent[e] <= Len(puts'[e])
                            /\ \A n \in 1 .. Len(puts'[e]) : puts'[e][n].image <= images
  <2>1. 0 <= images
    BY DEF TypeOK
  <2> QED BY <1>1, <1>2, <2>1, EnqueueType
<1>4. /\ screen' \in [Devices -> Screen]
      /\ \A e \in Devices : screen'[e] = IF e = d THEN Closed ELSE screen[e]
  BY <1>1, ClosedScreen DEF TypeOK, ScreenEdit
<1>5. TypeOK'
  BY <1>1, <1>3, <1>4 DEF TypeOK, remote, history
<1>6. RangeInv'
  <2>1. 0 <= images
    BY DEF TypeOK
  <2> QED BY <1>1, <1>3, <1>4, <2>1, ClosedScreen DEF RangeInv, remote, history
<1> QED BY <1>2, <1>5, <1>6

(* What an upload that succeeds adds to its device's queue: the record of  *)
(* a post nothing refers to, or an edit with the one write of the image.   *)
AddsRecord(u, p, w) ==
  u.post = NoPost /\ Unused(p) /\ Len(w) = 1 /\ w[1].kind = "record"

AddsImage(u, p, w) ==
  /\ u.post = p
  /\ \A k \in 1 .. Len(w) : w[k].kind # "record"
  /\ \E k \in 1 .. Len(w) :
       /\ w[k].kind = "image"
       /\ \A j \in 1 .. Len(w) : w[j].kind = "image" => j = k

LEMMA UploadedIs ==
  ASSUME TypeInv, NEW u \in uploads, Uploaded(u)
  PROVE  \E p \in Posts : \E w :
           /\ Edits(w, p, u.image) /\ Enqueue(u.device, w)
           /\ AddsRecord(u, p, w) \/ AddsImage(u, p, w)
<1> USE DEF TypeInv
<1>1. u.image \in Nat /\ u.image # 0 /\ u.post \in Posts \cup {NoPost}
  <2>1. u.image \in Nat /\ 0 < u.image
    BY UploadFields DEF RangeInv
  <2> QED BY <2>1, UploadFields
<1>2. CASE u.post = NoPost
  <2>1. PICK p \in Posts : /\ Unused(p)
                           /\ Enqueue(u.device, <<Write("record", p, u.image)>>)
    BY <1>2 DEF Uploaded
  <2> DEFINE w == <<Write("record", p, u.image)>>
  <2>2. Edits(w, p, u.image) /\ Len(w) = 1 /\ w[1].kind = "record"
    BY <1>1, RecordEdits
  <2>3. Enqueue(u.device, w)
    BY <2>1
  <2> HIDE DEF w
  <2> QED BY <1>2, <2>1, <2>2, <2>3 DEF AddsRecord
<1>3. CASE u.post # NoPost
  <2> DEFINE w == UpdatePostParameters(u.post, u.image)
  <2>1. Enqueue(u.device, w) /\ u.post \in Posts
    BY <1>1, <1>3 DEF Uploaded
  <2>2. Edits(w, u.post, u.image) /\ AddsImage(u, u.post, w)
    BY <1>1, <2>1, UpdateEdits DEF AddsImage
  <2> HIDE DEF w
  <2> QED BY <2>1, <2>2
<1> QED BY <1>2, <1>3

LEMMA UploadedFrame ==
  ASSUME TypeInv, NEW u \in uploads, Uploaded(u)
  PROVE  /\ uploads' = uploads \ {u} /\ storage' = storage \cup {u.image}
         /\ deletions' = IF u.post = NoPost THEN deletions ELSE deletions \cup {u.old}
         /\ UNCHANGED <<db, list, sent, history>>
         /\ \/ screen' = screen /\ screen[u.device].waitsFor # u.image
            \/ /\ screen[u.device].waitsFor = u.image
               /\ ScreenEdit(u.device, Closed)
BY DEF Uploaded, DeletedOld, Completed, ScreenEdit

LEMMA UploadedType ==
  ASSUME TypeInv, NEW u \in uploads, Uploaded(u)
  PROVE  TypeInv'
<1> USE DEF TypeInv
<1>1. PICK p \in Posts : \E w : Edits(w, p, u.image) /\ Enqueue(u.device, w)
  BY UploadedIs
<1>2. /\ uploads' = uploads \ {u} /\ storage' = storage \cup {u.image}
      /\ deletions' = IF u.post = NoPost THEN deletions ELSE deletions \cup {u.old}
      /\ UNCHANGED <<db, list, sent, history>>
      /\ screen' = screen \/ ScreenEdit(u.device, Closed)
  BY UploadedFrame
<1>3. /\ u.device \in Devices /\ u.image \in Nat /\ u.old \in Nat
      /\ 0 < u.image /\ u.image <= images /\ u.old <= images
      /\ u.post # NoPost => u.old # 0
  BY UploadFields DEF RangeInv
<1>4. /\ puts' \in [Devices -> Seq(Put)]
      /\ \A e \in Devices : /\ sent[e] <= Len(puts'[e])
                            /\ \A n \in 1 .. Len(puts'[e]) : puts'[e][n].image <= images
  BY <1>1, <1>3, EnqueueType
<1>5. /\ screen' \in [Devices -> Screen]
      /\ \A e \in Devices : screen'[e] = screen[e] \/ screen'[e] = Closed
  BY <1>2, <1>3, ClosedScreen DEF TypeOK, ScreenEdit
<1>6. images \in Nat /\ 0 <= images
  BY DEF TypeOK
<1>7. storage' \subseteq 1 .. images /\ deletions' \subseteq 1 .. images
  <2>1. u.image \in 1 .. images /\ (u.post # NoPost => u.old \in 1 .. images)
    BY <1>3, <1>6
  <2> QED BY <1>2, <2>1 DEF TypeOK
<1>8. TypeOK'
  BY <1>2, <1>4, <1>5, <1>7 DEF TypeOK, history
<1>9. images' = images /\ db' = db /\ list' = list
  BY <1>2 DEF history
<1>10. RangeInv'
  <2>1. ASSUME NEW e \in Devices
        PROVE  /\ screen'[e].old <= images
               /\ screen'[e].post # NoPost => screen'[e].old # 0
    BY <1>5, <1>6, ClosedScreen DEF RangeInv
  <2>2. \A v \in uploads' : /\ 0 < v.image /\ v.image <= images /\ v.old <= images
                            /\ v.post # NoPost => v.old # 0
    BY <1>2 DEF RangeInv
  <2> QED BY <1>4, <1>9, <2>1, <2>2 DEF RangeInv
<1> QED BY <1>8, <1>10

LEMMA NotUploadedType ==
  ASSUME TypeInv, NEW u \in uploads, NotUploaded(u)
  PROVE  TypeInv'
<1> USE DEF TypeInv
<1>1. /\ uploads' = uploads \ {u} /\ storage' \subseteq storage \cup {u.image}
      /\ failed' = failed \cup {u.device}
      /\ UNCHANGED <<db, device, puts, sent, deletions, lost, repeated, images,
                     edits, stops, drops>>
  BY DEF NotUploaded
<1>2. u.device \in Devices /\ u.image \in 1 .. images
  <2>1. u.device \in Devices /\ u.image \in Nat /\ 0 < u.image /\ u.image <= images
    BY UploadFields DEF RangeInv
  <2> QED BY <2>1 DEF TypeOK
<1>3. TypeOK'
  BY <1>1, <1>2 DEF TypeOK, device
<1>4. RangeInv'
  BY <1>1 DEF RangeInv, device
<1> QED BY <1>3, <1>4

LEMMA LandType ==
  ASSUME TypeInv, NEW d \in Devices, Land(d)
  PROVE  TypeInv'
<1> USE DEF TypeInv
<1>1. PICK n \in 1 .. Len(puts[d]) :
           /\ n = sent[d] + 1 /\ sent' = [sent EXCEPT ![d] = n]
           /\ db' \in [Posts -> Record]
           /\ db'[puts[d][n].post] = After(db[puts[d][n].post], puts[d][n])
           /\ \A p \in Posts \ {puts[d][n].post} : db'[p] = db[p]
  BY LandIs
<1>2. UNCHANGED <<storage, device, puts, uploads, deletions, history>>
  BY DEF Land
<1>3. n \in Nat /\ n <= Len(puts[d])
  BY LenProperties DEF TypeOK
<1>4. \A e \in Devices : sent'[e] \in Nat /\ sent'[e] <= Len(puts'[e])
  BY <1>1, <1>2, <1>3 DEF TypeOK
<1>5. TypeOK'
  BY <1>1, <1>2, <1>3, <1>4 DEF TypeOK, device, history
<1>6. puts[d][n] \in Put /\ puts[d][n].post \in Posts
  BY PutFields
<1>7. After(db[puts[d][n].post], puts[d][n]).image <= images
  <2>1. puts[d][n].image <= images /\ db[puts[d][n].post].image <= images
    BY <1>6 DEF RangeInv
  <2> QED BY <1>6, <2>1, AfterType, RecordFields
<1>8. \A p \in Posts : db'[p].image <= images
  BY <1>1, <1>7 DEF RangeInv
<1>9. RangeInv'
  BY <1>2, <1>8 DEF RangeInv, device, history
<1> QED BY <1>5, <1>9

LEMMA AcknowledgeType ==
  ASSUME TypeInv, NEW d \in Devices, Acknowledge(d)
  PROVE  TypeInv'
<1> USE DEF TypeInv
<1>1. /\ puts' \in [Devices -> Seq(Put)] /\ sent' \in [Devices -> Nat]
      /\ sent'[d] <= Len(puts'[d])
      /\ \A n \in 1 .. Len(puts'[d]) :
           n + 1 \in 1 .. Len(puts[d]) /\ puts'[d][n] = puts[d][n + 1]
      /\ \A e \in Devices \ {d} : puts'[e] = puts[e] /\ sent'[e] = sent[e]
  BY AcknowledgeQueue
<1>2. UNCHANGED <<remote, device, uploads, deletions, history>>
  BY DEF Acknowledge
<1>3. \A e \in Devices : sent'[e] <= Len(puts'[e])
  BY <1>1 DEF TypeOK
<1>4. TypeOK'
  BY <1>1, <1>2, <1>3 DEF TypeOK, remote, device, history
<1>5. \A e \in Devices : \A n \in 1 .. Len(puts'[e]) : puts'[e][n].image <= images
  <2>1. \A e \in Devices : \A n \in 1 .. Len(puts[e]) : puts[e][n].image <= images
    BY DEF RangeInv
  <2>2. \A n \in 1 .. Len(puts'[d]) : puts'[d][n].image <= images
    BY <1>1, <2>1
  <2>3. \A e \in Devices \ {d} : \A n \in 1 .. Len(puts'[e]) : puts'[e][n].image <= images
    BY <1>1, <2>1
  <2> QED BY <2>2, <2>3
<1>6. RangeInv'
  BY <1>2, <1>5 DEF RangeInv, remote, device, history
<1> QED BY <1>4, <1>6

LEMMA DropType ==
  ASSUME TypeInv, NEW d \in Devices, Drop(d)
  PROVE  TypeInv'
<1> USE DEF TypeInv
<1>1. /\ drops' = drops + 1 /\ sent' = [sent EXCEPT ![d] = 0]
      /\ repeated' = repeated \cup {puts[d][n].post : n \in 1 .. sent[d]}
      /\ UNCHANGED <<remote, device, puts, uploads, deletions, failed, lost, images,
                     edits, stops>>
  BY DEF Drop
<1>2. \A n \in 1 .. sent[d] : puts[d][n].post \in Posts
  <2>1. sent[d] \in Nat /\ Len(puts[d]) \in Nat /\ sent[d] <= Len(puts[d])
    BY LenProperties DEF TypeOK
  <2>2. \A n \in 1 .. sent[d] : n \in 1 .. Len(puts[d])
    BY <2>1
  <2> QED BY <2>2, PutFields
<1>3. \A e \in Devices : sent'[e] \in Nat /\ sent'[e] <= Len(puts'[e])
  <2>1. \A e \in Devices : Len(puts[e]) \in Nat
    BY LenProperties DEF TypeOK
  <2> QED BY <1>1, <2>1 DEF TypeOK
<1>4. sent' \in [Devices -> Nat]
  BY <1>1 DEF TypeOK
<1>5. TypeOK'
  BY <1>1, <1>2, <1>3, <1>4 DEF TypeOK, remote, device
<1>6. RangeInv'
  BY <1>1 DEF RangeInv, remote, device
<1> QED BY <1>5, <1>6

LEMMA StopType ==
  ASSUME TypeInv, NEW d \in Devices, Stop(d)
  PROVE  TypeInv'
<1> USE DEF TypeInv
<1>1. /\ stops' = stops + 1 /\ ScreenEdit(d, Closed)
      /\ puts' = [puts EXCEPT ![d] = <<>>] /\ sent' = [sent EXCEPT ![d] = 0]
      /\ lost' = lost \cup {puts[d][n].post : n \in sent[d] + 1 .. Len(puts[d])}
      /\ uploads' \subseteq uploads
      /\ UNCHANGED <<remote, list, deletions, failed, repeated, images, edits, drops>>
  BY DEF Stop, ScreenEdit
<1>2. \A n \in sent[d] + 1 .. Len(puts[d]) : puts[d][n].post \in Posts
  <2>1. sent[d] \in Nat /\ Len(puts[d]) \in Nat
    BY LenProperties DEF TypeOK
  <2>2. \A n \in sent[d] + 1 .. Len(puts[d]) : n \in 1 .. Len(puts[d])
    BY <2>1
  <2> QED BY <2>2, PutFields
<1>3. /\ puts' \in [Devices -> Seq(Put)] /\ Len(puts'[d]) = 0
      /\ \A e \in Devices \ {d} : puts'[e] = puts[e]
  <2>1. <<>> \in Seq(Put) /\ Len(<<>>) = 0
    OBVIOUS
  <2> QED BY <1>1, <2>1 DEF TypeOK
<1>4. /\ sent' \in [Devices -> Nat]
      /\ \A e \in Devices : sent'[e] <= Len(puts'[e])
  BY <1>1, <1>3 DEF TypeOK
<1>5. /\ screen' \in [Devices -> Screen]
      /\ \A e \in Devices : screen'[e] = IF e = d THEN Closed ELSE screen[e]
  BY <1>1, ClosedScreen DEF TypeOK, ScreenEdit
<1>6. TypeOK'
  BY <1>1, <1>2, <1>3, <1>4, <1>5 DEF TypeOK, remote
<1>7. images \in Nat /\ 0 <= images
  BY DEF TypeOK
<1>8. RangeInv'
  <2>1. ASSUME NEW e \in Devices
        PROVE  \A n \in 1 .. Len(puts'[e]) : puts'[e][n].image <= images
    BY <1>3 DEF RangeInv
  <2>2. ASSUME NEW e \in Devices
        PROVE  /\ screen'[e].old <= images
               /\ screen'[e].post # NoPost => screen'[e].old # 0
    BY <1>5, <1>7, ClosedScreen DEF RangeInv
  <2> QED BY <1>1, <2>1, <2>2 DEF RangeInv, remote
<1> QED BY <1>6, <1>8

LEMMA RefreshType ==
  ASSUME TypeInv, NEW d \in Devices, Refresh(d)
  PROVE  TypeInv'
<1> USE DEF TypeInv
<1>1. PICK laid \in {{}, DOMAIN puts[d]} :
        list' = [list EXCEPT ![d] = [p \in Posts |-> Shown(d, p, laid)]]
  BY DEF Refresh
<1>2. UNCHANGED <<remote, screen, network, history>>
  BY DEF Refresh
<1>3. laid \in SUBSET (1 .. Len(puts[d]))
  BY LenProperties DEF TypeOK
<1>4. ASSUME NEW p \in Posts
      PROVE  Shown(d, p, laid) \in Nat /\ Shown(d, p, laid) <= images
  <2>1. images \in Nat /\ 0 <= images
    BY DEF TypeOK
  <2>2. db[p].image \in Nat /\ db[p].image <= images
    BY RecordFields DEF RangeInv
  <2>3. \A n \in 1 .. Len(puts[d]) : puts[d][n].image \in Nat /\ puts[d][n].image <= images
    BY PutFields DEF RangeInv
  <2> QED BY <1>3, <2>1, <2>2, <2>3, ShownIs
<1>5. list' \in [Devices -> [Posts -> Nat]]
  BY <1>1, <1>4 DEF TypeOK
<1>6. TypeOK'
  BY <1>2, <1>5 DEF TypeOK, remote, network, history
<1>7. \A e \in Devices : \A p \in Posts : list'[e][p] <= images
  BY <1>1, <1>4 DEF TypeOK, RangeInv
<1>8. RangeInv'
  BY <1>2, <1>7 DEF RangeInv, remote, network, history
<1> QED BY <1>6, <1>8

LEMMA DeletedType ==
  ASSUME TypeInv, NEW i \in deletions, Deleted(i)
  PROVE  TypeInv'
<1> USE DEF TypeInv
<1>1. /\ deletions' \subseteq deletions /\ storage' \subseteq storage
      /\ UNCHANGED <<db, device, puts, sent, uploads, history>>
  BY DEF Deleted
<1>2. TypeOK'
  BY <1>1 DEF TypeOK, device, history
<1>3. RangeInv'
  BY <1>1 DEF RangeInv, device, history
<1> QED BY <1>2, <1>3

LEMMA TypeInit == Init => TypeInv
<1> SUFFICES ASSUME Init PROVE TypeInv
  OBVIOUS
<1>1. <<>> \in Seq(Put) /\ Len(<<>>) = 0
  OBVIOUS
<1>2. Absent \in Record /\ Absent.image = 0
  BY DEF Absent, Record
<1>3. TypeOK
  BY <1>1, <1>2, ClosedScreen DEF Init, TypeOK
<1>4. RangeInv
  BY <1>1, <1>2, ClosedScreen DEF Init, RangeInv
<1> QED BY <1>3, <1>4 DEF TypeInv

LEMMA EditType ==
  ASSUME TypeInv, NEW d \in Devices, Edit(d)
  PROVE  TypeInv'
<1>1. CASE \/ OpenNew(d) \/ \E p \in Posts : OpenEdit(d, p)
           \/ ImageLoaded(d) \/ ImageNotLoaded(d) \/ Pick(d) \/ Cancel(d)
           \/ TapOutside(d)
  <2>1. PICK s \in Screen :
          /\ ScreenEdit(d, s)
          /\ s.post # NoPost => s.old # 0
          /\ \/ s.old = screen[d].old /\ s.post = screen[d].post
             \/ s.post = NoPost /\ s.old = 0
             \/ s.post # NoPost /\ s.old = list[d][s.post]
    BY <1>1, EditScreens
  <2>2. s.old <= images
    <3>1. 0 <= images
      BY DEF TypeInv, TypeOK
    <3>2. s.post # NoPost => s.post \in Posts
      BY DEF Screen
    <3> QED BY <2>1, <3>1, <3>2 DEF TypeInv, RangeInv
  <2>3. /\ UNCHANGED <<remote, list, network, lost, repeated, images, stops, drops>>
        /\ failed' \subseteq Devices /\ edits' \in Nat
    BY <1>1, EditScreens
  <2> QED BY <2>1, <2>2, <2>3, ScreenType
<1>2. CASE SubmitImage(d)
  BY <1>2, SubmitImageType
<1>3. CASE SubmitText(d) \/ Delete(d)
  BY <1>3, SubmitType
<1> QED BY <1>1, <1>2, <1>3 DEF Edit

LEMMA TypeStep == TypeInv /\ [Next]_vars => TypeInv'
<1> SUFFICES ASSUME TypeInv, [Next]_vars PROVE TypeInv'
  OBVIOUS
<1>1. ASSUME NEW d \in Devices, Edit(d) PROVE TypeInv'
  BY <1>1, EditType
<1>2. ASSUME NEW d \in Devices, Refresh(d) PROVE TypeInv'
  BY <1>2, RefreshType
<1>3. ASSUME NEW d \in Devices, Stop(d) PROVE TypeInv'
  BY <1>3, StopType
<1>4. ASSUME NEW u \in uploads, Uploaded(u) PROVE TypeInv'
  BY <1>4, UploadedType
<1>5. ASSUME NEW u \in uploads, NotUploaded(u) PROVE TypeInv'
  BY <1>5, NotUploadedType
<1>6. ASSUME NEW d \in Devices, Land(d) PROVE TypeInv'
  BY <1>6, LandType
<1>7. ASSUME NEW d \in Devices, Acknowledge(d) PROVE TypeInv'
  BY <1>7, AcknowledgeType
<1>8. ASSUME NEW d \in Devices, Drop(d) PROVE TypeInv'
  BY <1>8, DropType
<1>9. ASSUME NEW i \in deletions, Deleted(i) PROVE TypeInv'
  BY <1>9, DeletedType
<1>10. CASE UNCHANGED vars
  BY <1>10 DEF vars, remote, device, network, history, TypeInv, TypeOK, RangeInv
<1> QED BY <1>1, <1>2, <1>3, <1>4, <1>5, <1>6, <1>7, <1>8, <1>9, <1>10
        DEF Next, Transfer

(* What the variables hold has the shape the code gives it.                *)
THEOREM TypeCorrect == Spec => []TypeOK
<1>1. TypeInv => TypeOK
  BY DEF TypeInv
<1> QED BY <1>1, TypeInit, TypeStep, PTL DEF Spec

-----------------------------------------------------------------------------
(* Locked screens.                                                         *)

LEMMA LockedStep ==
  ASSUME TypeInv, LockedWhileUploading, [Next]_vars
  PROVE  LockedWhileUploading'
<1> USE DEF TypeInv
<1> SUFFICES ASSUME NEW d \in Devices, d \notin failed', screen'[d].stage = "locked"
             PROVE  \E u \in uploads' : u.device = d /\ u.image = screen'[d].waitsFor
  BY DEF LockedWhileUploading
<1> DEFINE Mine(u) == u.device = d /\ u.image = screen[d].waitsFor
<1>0. d \notin failed /\ screen[d].stage = "locked" => \E u \in uploads : Mine(u)
  BY DEF LockedWhileUploading
<1>s. screen \in [Devices -> Screen]
  BY DEF TypeOK
(* Neither the screen nor its upload goes.                                 *)
<1>1. ASSUME screen'[d] = screen[d], failed \subseteq failed', uploads \subseteq uploads'
      PROVE  \E u \in uploads' : u.device = d /\ u.image = screen'[d].waitsFor
  <2>1. PICK u \in uploads : Mine(u)
    BY <1>0, <1>1
  <2> QED BY <1>1, <2>1
<1>2. ASSUME NEW e \in Devices, Edit(e)
      PROVE  \E u \in uploads' : u.device = d /\ u.image = screen'[d].waitsFor
  <2>1. CASE \/ OpenNew(e) \/ \E p \in Posts : OpenEdit(e, p)
             \/ ImageLoaded(e) \/ ImageNotLoaded(e) \/ Pick(e) \/ Cancel(e)
             \/ TapOutside(e)
    <3>1. /\ failed \subseteq failed' /\ UNCHANGED network
          /\ \E s \in Screen : /\ ScreenEdit(e, s)
                               /\ s.stage = "locked" => e \in failed' \/ s = screen[e]
      BY <2>1, EditScreens
    <3>2. screen'[d] = screen[d] /\ uploads' = uploads
      BY <1>s, <3>1 DEF ScreenEdit, network
    <3> QED BY <1>1, <3>1, <3>2
  <2>2. CASE SubmitImage(e)
    <3>1. /\ uploads' = uploads \cup {[device |-> e, post |-> screen[e].post,
                                       old |-> screen[e].old, image |-> images']}
          /\ screen' = [screen EXCEPT ![e].stage = "locked", ![e].waitsFor = images']
          /\ failed' = failed
      BY <2>2 DEF SubmitImage
    <3>2. CASE d = e
      <4>1. screen'[d].waitsFor = images'
        BY <1>s, <3>1, <3>2 DEF Screen
      <4> DEFINE v == [device |-> e, post |-> screen[e].post, old |-> screen[e].old,
                       image |-> images']
      <4>2. v \in uploads' /\ v.device = e /\ v.image = images'
        BY <3>1
      <4> HIDE DEF v
      <4> QED BY <3>2, <4>1, <4>2
    <3>3. CASE d # e
      <4>1. screen'[d] = screen[d]
        BY <1>s, <3>1, <3>3
      <4> QED BY <1>1, <3>1, <4>1
    <3> QED BY <3>2, <3>3
  <2>3. CASE SubmitText(e) \/ Delete(e)
    <3>1. ScreenEdit(e, Closed) /\ uploads' = uploads /\ failed' = failed
      BY <2>3 DEF SubmitText, Delete, ScreenEdit, history
    <3>2. screen'[d] = screen[d]
      BY <1>s, <3>1, ClosedScreen DEF ScreenEdit
    <3> QED BY <1>1, <3>1, <3>2
  <2> QED BY <1>2, <2>1, <2>2, <2>3 DEF Edit
<1>3. ASSUME NEW e \in Devices, Stop(e)
      PROVE  \E u \in uploads' : u.device = d /\ u.image = screen'[d].waitsFor
  <2>1. /\ ScreenEdit(e, Closed) /\ failed' = failed
        /\ uploads' = {u \in uploads : u.device # e}
    BY <1>3 DEF Stop, ScreenEdit
  <2>2. d # e /\ screen'[d] = screen[d]
    BY <1>s, <2>1, ClosedScreen DEF ScreenEdit
  <2>3. PICK u \in uploads : Mine(u)
    BY <1>0, <2>1, <2>2
  <2> QED BY <2>1, <2>2, <2>3
<1>4. ASSUME NEW u \in uploads, Uploaded(u)
      PROVE  \E v \in uploads' : v.device = d /\ v.image = screen'[d].waitsFor
  <2>1. /\ uploads' = uploads \ {u} /\ failed' = failed
        /\ \/ screen' = screen /\ screen[u.device].waitsFor # u.image
           \/ ScreenEdit(u.device, Closed)
    BY <1>4, UploadedFrame DEF history
  <2>2. /\ screen'[d] = screen[d]
        /\ d = u.device => screen[d].waitsFor # u.image
    BY <1>s, <2>1, ClosedScreen DEF ScreenEdit
  <2>3. PICK v \in uploads : Mine(v)
    BY <1>0, <2>1, <2>2
  <2> QED BY <2>1, <2>2, <2>3
<1>5. ASSUME NEW u \in uploads, NotUploaded(u)
      PROVE  \E v \in uploads' : v.device = d /\ v.image = screen'[d].waitsFor
  <2>1. /\ uploads' = uploads \ {u} /\ screen' = screen
        /\ failed' = failed \cup {u.device}
    BY <1>5 DEF NotUploaded, device
  <2>2. PICK v \in uploads : Mine(v)
    BY <1>0, <2>1
  <2> QED BY <2>1, <2>2
<1>6. ASSUME NEW e \in Devices, Refresh(e) \/ Land(e) \/ Acknowledge(e) \/ Drop(e)
      PROVE  \E u \in uploads' : u.device = d /\ u.image = screen'[d].waitsFor
  BY <1>1, <1>6 DEF Refresh, Land, Acknowledge, Drop, device, network, history
<1>7. ASSUME NEW i \in deletions, Deleted(i)
      PROVE  \E u \in uploads' : u.device = d /\ u.image = screen'[d].waitsFor
  BY <1>1, <1>7 DEF Deleted, device, history
<1>8. CASE UNCHANGED vars
  BY <1>1, <1>8 DEF vars, device, network, history
<1> QED BY <1>2, <1>3, <1>4, <1>5, <1>6, <1>7, <1>8 DEF Next, Transfer

LEMMA LockedInit == Init => LockedWhileUploading
BY ClosedScreen DEF Init, LockedWhileUploading

(* A screen stays locked only for its own upload, unless a transfer failed *)
(* on the device.                                                          *)
THEOREM LockedForItsUpload == Spec => []LockedWhileUploading
<1>1. TypeInv /\ LockedWhileUploading /\ [Next]_vars => LockedWhileUploading'
  BY LockedStep
<1> QED BY <1>1, LockedInit, TypeInit, TypeStep, PTL DEF Spec

-----------------------------------------------------------------------------
(* The writes the server has not seen, and what each action makes of them. *)

Unsent(d) == sent[d] + 1 .. Len(puts[d])

LEMMA UnsentIs ==
  ASSUME TypeOK, NEW d \in Devices
  PROVE  /\ sent[d] \in Nat /\ Len(puts[d]) \in Nat
         /\ \A n : n \in Unsent(d) <=> n \in 1 .. Len(puts[d]) /\ n > sent[d]
<1>1. sent[d] \in Nat /\ Len(puts[d]) \in Nat
  BY LenProperties DEF TypeOK
<1> QED BY <1>1 DEF Unsent

LEMMA UnsentNext ==
  ASSUME TypeOK', NEW d \in Devices
  PROVE  /\ sent'[d] \in Nat /\ Len(puts'[d]) \in Nat
         /\ \A n : n \in Unsent(d)' <=> n \in 1 .. Len(puts'[d]) /\ n > sent'[d]
<1>1. sent'[d] \in Nat /\ Len(puts'[d]) \in Nat
  BY LenProperties DEF TypeOK
<1> QED BY <1>1 DEF Unsent

(* Queues to which the writes w are added.                                 *)
Added(d, w) ==
  /\ \A e \in Devices : \A n \in Unsent(e) : n \in Unsent(e)' /\ puts'[e][n] = puts[e][n]
  /\ \A n \in 1 .. Len(puts[d]) : n \in 1 .. Len(puts'[d]) /\ puts'[d][n] = puts[d][n]
  /\ \A k \in 1 .. Len(w) : /\ Len(puts[d]) + k \in Unsent(d)'
                            /\ puts'[d][Len(puts[d]) + k] = w[k]
  /\ \A n \in 1 .. Len(puts'[d]) : \/ n \in 1 .. Len(puts[d])
                                   \/ \E k \in 1 .. Len(w) : n = Len(puts[d]) + k
  /\ \A n \in Unsent(d)' : \/ n \in Unsent(d)
                           \/ \E k \in 1 .. Len(w) : n = Len(puts[d]) + k
  /\ \A e \in Devices \ {d} : puts'[e] = puts[e] /\ sent'[e] = sent[e]

LEMMA AddedIs ==
  ASSUME TypeOK, TypeOK', NEW d \in Devices, NEW w \in Seq(Put), Enqueue(d, w),
         UNCHANGED sent
  PROVE  Added(d, w) /\ Len(puts[d]) \in Nat /\ Len(w) \in Nat
<1>1. /\ Len(w) \in Nat
      /\ Len(puts[d]) \in Nat /\ Len(puts'[d]) = Len(puts[d]) + Len(w)
      /\ \A n \in 1 .. Len(puts[d]) : puts'[d][n] = puts[d][n]
      /\ \A k \in 1 .. Len(w) : puts'[d][Len(puts[d]) + k] = w[k]
      /\ \A n \in 1 .. Len(puts'[d]) : \/ n \in 1 .. Len(puts[d])
                                       \/ \E k \in 1 .. Len(w) : n = Len(puts[d]) + k
      /\ \A e \in Devices \ {d} : puts'[e] = puts[e]
  BY EnqueueQueue
<1>2. /\ sent[d] \in Nat /\ sent[d] <= Len(puts[d])
      /\ \A n : n \in Unsent(d) <=> n \in 1 .. Len(puts[d]) /\ n > sent[d]
  BY UnsentIs DEF TypeOK
<1>3. \A n : n \in Unsent(d)' <=> n \in 1 .. Len(puts'[d]) /\ n > sent[d]
  BY <1>1, <1>2 DEF Unsent
<1>4. \A n \in 1 .. Len(puts[d]) : n \in 1 .. Len(puts'[d])
  BY <1>1
<1>5. \A k \in 1 .. Len(w) : Len(puts[d]) + k \in Unsent(d)'
  <2>1. \A k \in 1 .. Len(w) : Len(puts[d]) + k \in 1 .. Len(puts'[d])
                               /\ Len(puts[d]) + k > sent[d]
    BY <1>1, <1>2
  <2> QED BY <1>3, <2>1
<1>6. \A n \in Unsent(d) : n \in Unsent(d)' /\ puts'[d][n] = puts[d][n]
  BY <1>1, <1>2, <1>3, <1>4
<1>7. \A n \in Unsent(d)' : \/ n \in Unsent(d)
                            \/ \E k \in 1 .. Len(w) : n = Len(puts[d]) + k
  BY <1>1, <1>2, <1>3
<1>8. \A e \in Devices \ {d} : puts'[e] = puts[e] /\ sent'[e] = sent[e]
  BY <1>1
<1>9. \A e \in Devices \ {d} : Unsent(e)' = Unsent(e)
  BY <1>8 DEF Unsent
<1>10. \A e \in Devices : \A n \in Unsent(e) : n \in Unsent(e)' /\ puts'[e][n] = puts[e][n]
  BY <1>6, <1>8, <1>9
<1> QED BY <1>1, <1>4, <1>5, <1>7, <1>8, <1>10 DEF Added

(* Queues of which the oldest write is gone: the others move up.           *)
MovedUp(d) ==
  /\ \A n \in 1 .. Len(puts'[d]) : n + 1 \in 1 .. Len(puts[d]) /\ puts'[d][n] = puts[d][n + 1]
  /\ \A n \in Unsent(d)' : n + 1 \in Unsent(d) /\ puts'[d][n] = puts[d][n + 1]
  /\ \A n \in Unsent(d) : n - 1 \in Unsent(d)' /\ puts'[d][n - 1] = puts[d][n]
  /\ \A n \in 2 .. Len(puts[d]) : n - 1 \in 1 .. Len(puts'[d])
                                  /\ puts'[d][n - 1] = puts[d][n]
  /\ \A e \in Devices \ {d} : puts'[e] = puts[e] /\ sent'[e] = sent[e]

LEMMA MovedUpIs ==
  ASSUME TypeOK, TypeOK', NEW d \in Devices, Acknowledge(d)
  PROVE  MovedUp(d)
<1>1. /\ Len(puts[d]) \in Nat /\ Len(puts'[d]) = Len(puts[d]) - 1
      /\ sent[d] \in Nat /\ sent'[d] = sent[d] - 1
      /\ \A n \in 1 .. Len(puts'[d]) :
           n + 1 \in 1 .. Len(puts[d]) /\ puts'[d][n] = puts[d][n + 1]
      /\ \A e \in Devices \ {d} : puts'[e] = puts[e] /\ sent'[e] = sent[e]
  BY AcknowledgeQueue
<1>2. sent[d] > 0
  BY DEF Acknowledge
<1>3. \A n : n \in Unsent(d) <=> n \in 1 .. Len(puts[d]) /\ n > sent[d]
  BY UnsentIs
<1>4. \A n : n \in Unsent(d)' <=> n \in 1 .. Len(puts'[d]) /\ n > sent'[d]
  BY <1>1, <1>2 DEF Unsent
<1>5. \A n \in Unsent(d)' : n + 1 \in Unsent(d) /\ puts'[d][n] = puts[d][n + 1]
  BY <1>1, <1>3, <1>4, SMTT(30)
<1>6. ASSUME NEW n \in 2 .. Len(puts[d])
      PROVE  n - 1 \in 1 .. Len(puts'[d]) /\ puts'[d][n - 1] = puts[d][n]
  <2>1. n - 1 \in 1 .. Len(puts'[d]) /\ (n - 1) + 1 = n
    BY <1>1
  <2>2. puts'[d][n - 1] = puts[d][(n - 1) + 1]
    BY <1>1, <2>1
  <2> QED BY <2>1, <2>2
<1>7. ASSUME NEW n \in Unsent(d)
      PROVE  n - 1 \in Unsent(d)' /\ puts'[d][n - 1] = puts[d][n]
  <2>1. n \in 2 .. Len(puts[d]) /\ n - 1 > sent'[d]
    BY <1>1, <1>2, <1>3
  <2> QED BY <1>4, <1>6, <2>1
<1> QED BY <1>1, <1>5, <1>6, <1>7 DEF MovedUp

(* The writes of a connection that broke are unsent again.                 *)
LEMMA DropIs ==
  ASSUME TypeOK, NEW d \in Devices, Drop(d)
  PROVE  /\ puts' = puts /\ repeated \subseteq repeated'
         /\ \A e \in Devices : \A n \in Unsent(e) : n \in Unsent(e)'
         /\ \A e \in Devices : \A n \in Unsent(e)' :
              puts[e][n].post \notin repeated' => n \in Unsent(e)
         /\ \A e \in Devices : \A n \in Unsent(e)' : n \in 1 .. Len(puts[e])
<1>1. /\ puts' = puts /\ sent' = [sent EXCEPT ![d] = 0]
      /\ repeated' = repeated \cup {puts[d][n].post : n \in 1 .. sent[d]}
  BY DEF Drop
<1>2. \A e \in Devices : /\ sent[e] \in Nat /\ Len(puts[e]) \in Nat
                         /\ sent[e] <= Len(puts[e])
  BY UnsentIs DEF TypeOK
<1>3. \A e \in Devices \ {d} : Unsent(e)' = Unsent(e)
  BY <1>1 DEF Unsent, TypeOK
<1>4. Unsent(d)' = 1 .. Len(puts[d])
  <2>1. sent'[d] + 1 = 1
    BY <1>1 DEF TypeOK
  <2> QED BY <1>1, <2>1 DEF Unsent
<1>5. \A e \in Devices : \A n \in Unsent(e) : n \in 1 .. Len(puts[e])
  BY UnsentIs
<1>6. \A n \in Unsent(d)' : n \in Unsent(d) \/ n \in 1 .. sent[d]
  <2>1. \A n \in 1 .. Len(puts[d]) : n \in Unsent(d) \/ n \in 1 .. sent[d]
    BY <1>2, UnsentIs
  <2> QED BY <1>4, <2>1
<1>7. ASSUME NEW e \in Devices, NEW n \in Unsent(e)', puts[e][n].post \notin repeated'
      PROVE  n \in Unsent(e)
  BY <1>1, <1>3, <1>6, <1>7
<1>8. \A e \in Devices : \A n \in Unsent(e) : n \in Unsent(e)'
  BY <1>3, <1>4, <1>5
<1>9. \A e \in Devices : \A n \in Unsent(e)' : n \in 1 .. Len(puts[e])
  BY <1>3, <1>4, <1>5
<1> QED BY <1>1, <1>7, <1>8, <1>9

(* The writes of a process that died are gone; the unsent ones are lost.   *)
LEMMA StopIs ==
  ASSUME TypeOK, NEW d \in Devices, Stop(d)
  PROVE  /\ Len(puts'[d]) = 0 /\ (\A n : n \notin Unsent(d)')
         /\ \A e \in Devices \ {d} : puts'[e] = puts[e] /\ Unsent(e)' = Unsent(e)
         /\ lost \subseteq lost'
         /\ \A n \in Unsent(d) : puts[d][n].post \in lost'
<1>1. /\ puts' = [puts EXCEPT ![d] = <<>>] /\ sent' = [sent EXCEPT ![d] = 0]
      /\ lost' = lost \cup {puts[d][n].post : n \in sent[d] + 1 .. Len(puts[d])}
  BY DEF Stop
<1>2. /\ puts'[d] = <<>> /\ sent'[d] = 0
      /\ \A e \in Devices \ {d} : puts'[e] = puts[e] /\ sent'[e] = sent[e]
  BY <1>1 DEF TypeOK
<1>3. Len(puts'[d]) = 0
  BY <1>2
<1>4. \A n : n \notin Unsent(d)'
  BY <1>2, <1>3 DEF Unsent
<1>5. \A e \in Devices \ {d} : Unsent(e)' = Unsent(e)
  BY <1>2 DEF Unsent
<1>6. \A n \in Unsent(d) : puts[d][n].post \in lost'
  BY <1>1 DEF Unsent
<1> QED BY <1>1, <1>2, <1>3, <1>4, <1>5, <1>6

(* The write that lands is unsent no longer; the others of its device that *)
(* are unsent come after it.                                               *)
LEMMA LandUnsent ==
  ASSUME TypeOK, NEW d \in Devices, NEW n \in 1 .. Len(puts[d]), n = sent[d] + 1,
         sent' = [sent EXCEPT ![d] = n], puts' = puts
  PROVE  /\ n \in Unsent(d)
         /\ \A e \in Devices : \A m \in Unsent(e)' : m \in Unsent(e)
         /\ \A e \in Devices : \A m \in Unsent(e) : m \in Unsent(e)' \/ (e = d /\ m = n)
         /\ \A m \in Unsent(d)' : m > n
         /\ \A m \in 1 .. Len(puts[d]) : m > n => m \in Unsent(d)'
<1>1. sent[d] \in Nat /\ Len(puts[d]) \in Nat
  BY UnsentIs
<1>2. \A e \in Devices \ {d} : Unsent(e)' = Unsent(e)
  BY DEF Unsent, TypeOK
<1>3. Unsent(d)' = n + 1 .. Len(puts[d]) /\ Unsent(d) = n .. Len(puts[d])
  BY DEF Unsent, TypeOK
<1>4. n \in Nat
  BY <1>1
<1>5. /\ n \in Unsent(d)
      /\ \A m \in Unsent(d)' : m \in Unsent(d) /\ m > n
      /\ \A m \in Unsent(d) : m \in Unsent(d)' \/ m = n
      /\ \A m \in 1 .. Len(puts[d]) : m > n => m \in Unsent(d)'
  BY <1>1, <1>3, <1>4
<1> QED BY <1>2, <1>5

-----------------------------------------------------------------------------
(* Stamps.                                                                 *)

(* Behind a change in its queue waits the stamp of the same post.          *)
StampFollows(d, n) ==
  puts[d][n].kind \in {"field", "image", "deleted"} =>
    \E m \in 1 .. Len(puts[d]) :
      m > n /\ puts[d][m].kind = "stamp" /\ puts[d][m].post = puts[d][n].post

StampInv == \A d \in Devices : \A n \in 1 .. Len(puts[d]) : StampFollows(d, n)

StampWaits(p) ==
  \E d \in Devices : \E n \in Unsent(d) :
    puts[d][n].post = p /\ puts[d][n].kind = "stamp"

StampedInv == \A p \in Posts \ lost : db[p].unstamped => StampWaits(p)

LEMMA StampedIs == StampedInv <=> EveryChangeIsStamped
BY DEF StampedInv, StampWaits, EveryChangeIsStamped, Unsent

(* Writes are added: with their stamps.                                    *)
LEMMA AddedStamp ==
  ASSUME TypeOK, TypeOK', StampInv, StampedInv, NEW d \in Devices, NEW p \in Posts,
         NEW i \in Nat, NEW w, Edits(w, p, i), Enqueue(d, w),
         UNCHANGED <<sent, db, lost>>
  PROVE  StampInv' /\ StampedInv'
<1>1. Added(d, w) /\ Len(puts[d]) \in Nat /\ Len(w) \in Nat
  BY AddedIs DEF Edits
<1>2. ASSUME NEW e \in Devices, NEW n \in 1 .. Len(puts'[e])
      PROVE  StampFollows(e, n)'
  <2>1. CASE e # d
    <3>1. puts'[e] = puts[e]
      BY <1>1, <2>1 DEF Added
    <3> QED BY <1>2, <3>1 DEF StampInv, StampFollows
  <2>2. CASE e = d /\ n \in 1 .. Len(puts[d])
    <3> SUFFICES ASSUME puts'[d][n].kind \in {"field", "image", "deleted"}
                 PROVE  \E m \in 1 .. Len(puts'[d]) :
                          /\ m > n /\ puts'[d][m].kind = "stamp"
                          /\ puts'[d][m].post = puts'[d][n].post
      BY <2>2 DEF StampFollows
    <3>1. \A m \in 1 .. Len(puts[d]) : m \in 1 .. Len(puts'[d]) /\ puts'[d][m] = puts[d][m]
      BY <1>1 DEF Added
    <3>2. PICK m \in 1 .. Len(puts[d]) :
            m > n /\ puts[d][m].kind = "stamp" /\ puts[d][m].post = puts[d][n].post
      BY <2>2, <3>1 DEF StampInv, StampFollows
    <3> QED BY <2>2, <3>1, <3>2
  <2>3. ASSUME e = d, NEW k \in 1 .. Len(w), n = Len(puts[d]) + k
        PROVE  StampFollows(e, n)'
    <3> SUFFICES ASSUME puts'[d][n].kind \in {"field", "image", "deleted"}
                 PROVE  \E m \in 1 .. Len(puts'[d]) :
                          /\ m > n /\ puts'[d][m].kind = "stamp"
                          /\ puts'[d][m].post = puts'[d][n].post
      BY <2>3 DEF StampFollows
    <3>1. puts'[d][n] = w[k]
      BY <1>1, <2>3 DEF Added
    <3>2. /\ w[k].post = p /\ k < Len(w) /\ w[Len(w)].kind = "stamp"
          /\ Len(w) \in 1 .. Len(w) /\ w[Len(w)].post = p
      BY <1>1, <3>1 DEF Edits
    <3> DEFINE m == Len(puts[d]) + Len(w)
    <3>3. m \in Unsent(d)' /\ puts'[d][m] = w[Len(w)]
      BY <1>1, <3>2 DEF Added
    <3>4. m \in 1 .. Len(puts'[d])
      BY <3>3, UnsentNext
    <3>5. m > n
      BY <1>1, <2>3, <3>2
    <3> HIDE DEF m
    <3> QED BY <3>1, <3>2, <3>3, <3>4, <3>5
  <2> QED BY <1>1, <1>2, <2>1, <2>2, <2>3 DEF Added
<1>3. ASSUME NEW a \in Posts \ lost, db[a].unstamped
      PROVE  StampWaits(a)'
  <2>a. PICK e \in Devices : \E n \in Unsent(e) :
          puts[e][n].post = a /\ puts[e][n].kind = "stamp"
    BY <1>3 DEF StampedInv, StampWaits
  <2>1. PICK n \in Unsent(e) : puts[e][n].post = a /\ puts[e][n].kind = "stamp"
    BY <2>a
  <2>2. n \in Unsent(e)' /\ puts'[e][n] = puts[e][n]
    BY <1>1 DEF Added
  <2> QED BY <2>1, <2>2 DEF StampWaits
<1> QED BY <1>2, <1>3 DEF StampInv, StampedInv

LEMMA LandStamp ==
  ASSUME TypeOK, TypeOK', StampInv, StampedInv, NEW d \in Devices, Land(d)
  PROVE  StampInv' /\ StampedInv'
<1>1. PICK n \in 1 .. Len(puts[d]) :
           /\ n = sent[d] + 1 /\ sent' = [sent EXCEPT ![d] = n]
           /\ db'[puts[d][n].post] = After(db[puts[d][n].post], puts[d][n])
           /\ \A p \in Posts \ {puts[d][n].post} : db'[p] = db[p]
  BY LandIs
<1>2. puts' = puts /\ lost' = lost
  BY DEF Land, history
<1>3. /\ \A e \in Devices : \A m \in Unsent(e) : m \in Unsent(e)' \/ (e = d /\ m = n)
      /\ \A m \in 1 .. Len(puts[d]) : m > n => m \in Unsent(d)'
  BY <1>1, <1>2, LandUnsent
<1>4. StampInv'
  BY <1>2 DEF StampInv, StampFollows
<1>5. puts[d][n] \in Put /\ puts[d][n].post \in Posts
      /\ puts[d][n].kind \in {"record", "field", "image", "deleted", "stamp"}
  BY PutFields
<1>6. ASSUME NEW p \in Posts \ lost, db'[p].unstamped
      PROVE  StampWaits(p)'
  <2>1. CASE p = puts[d][n].post
    <3>1. db[p] \in Record
      BY RecordFields
    <3>2. puts[d][n].kind \in {"field", "image", "deleted"}
      BY <1>1, <1>5, <1>6, <2>1, <3>1, AfterType
    <3>3. PICK m \in 1 .. Len(puts[d]) :
            m > n /\ puts[d][m].kind = "stamp" /\ puts[d][m].post = puts[d][n].post
      BY <3>2 DEF StampInv, StampFollows
    <3>4. m \in Unsent(d)' /\ puts'[d][m] = puts[d][m]
      BY <1>2, <1>3, <3>3
    <3> QED BY <2>1, <3>3, <3>4 DEF StampWaits
  <2>2. CASE p # puts[d][n].post
    <3>1. db[p].unstamped
      BY <1>1, <1>6, <2>2
    <3>a. PICK e \in Devices : \E m \in Unsent(e) :
            puts[e][m].post = p /\ puts[e][m].kind = "stamp"
      BY <1>6, <3>1 DEF StampedInv, StampWaits
    <3>2. PICK m \in Unsent(e) : puts[e][m].post = p /\ puts[e][m].kind = "stamp"
      BY <3>a
    <3>3. m \in Unsent(e)' /\ puts'[e][m] = puts[e][m]
      BY <1>2, <1>3, <2>2, <3>2
    <3> QED BY <3>2, <3>3 DEF StampWaits
  <2> QED BY <2>1, <2>2
<1> QED BY <1>2, <1>4, <1>6 DEF StampedInv

LEMMA AcknowledgeStamp ==
  ASSUME TypeOK, TypeOK', StampInv, StampedInv, NEW d \in Devices, Acknowledge(d)
  PROVE  StampInv' /\ StampedInv'
<1>1. MovedUp(d)
  BY MovedUpIs
<1>2. db' = db /\ lost' = lost
  BY DEF Acknowledge, remote, history
<1>3. ASSUME NEW e \in Devices, NEW n \in 1 .. Len(puts'[e])
      PROVE  StampFollows(e, n)'
  <2>1. CASE e # d
    <3>1. puts'[e] = puts[e]
      BY <1>1, <2>1 DEF MovedUp
    <3> QED BY <1>3, <3>1 DEF StampInv, StampFollows
  <2>2. CASE e = d
    <3> SUFFICES ASSUME puts'[d][n].kind \in {"field", "image", "deleted"}
                 PROVE  \E m \in 1 .. Len(puts'[d]) :
                          /\ m > n /\ puts'[d][m].kind = "stamp"
                          /\ puts'[d][m].post = puts'[d][n].post
      BY <2>2 DEF StampFollows
    <3>1. n + 1 \in 1 .. Len(puts[d]) /\ puts'[d][n] = puts[d][n + 1]
      BY <1>1, <1>3, <2>2 DEF MovedUp
    <3>2. PICK m \in 1 .. Len(puts[d]) :
            m > n + 1 /\ puts[d][m].kind = "stamp" /\ puts[d][m].post = puts[d][n + 1].post
      BY <3>1 DEF StampInv, StampFollows
    <3>3. m \in 2 .. Len(puts[d]) /\ m - 1 > n
      BY <1>3, <3>2
    <3>4. m - 1 \in 1 .. Len(puts'[d]) /\ puts'[d][m - 1] = puts[d][m]
      BY <1>1, <3>3 DEF MovedUp
    <3> QED BY <3>1, <3>2, <3>3, <3>4
  <2> QED BY <2>1, <2>2
<1>4. ASSUME NEW a \in Posts \ lost, db[a].unstamped
      PROVE  StampWaits(a)'
  <2>a. PICK e \in Devices : \E n \in Unsent(e) :
          puts[e][n].post = a /\ puts[e][n].kind = "stamp"
    BY <1>4 DEF StampedInv, StampWaits
  <2>1. PICK n \in Unsent(e) : puts[e][n].post = a /\ puts[e][n].kind = "stamp"
    BY <2>a
  <2>2. CASE e = d
    BY <1>1, <2>1, <2>2 DEF StampWaits, MovedUp
  <2>3. CASE e # d
    <3>1. n \in Unsent(e)' /\ puts'[e][n] = puts[e][n]
      BY <1>1, <2>3 DEF MovedUp, Unsent
    <3> QED BY <2>1, <3>1 DEF StampWaits
  <2> QED BY <2>2, <2>3
<1> QED BY <1>2, <1>3, <1>4 DEF StampInv, StampedInv

LEMMA DropStamp ==
  ASSUME TypeOK, StampInv, StampedInv, NEW d \in Devices, Drop(d)
  PROVE  StampInv' /\ StampedInv'
<1>1. /\ puts' = puts /\ \A e \in Devices : \A n \in Unsent(e) : n \in Unsent(e)'
      /\ db' = db /\ lost' = lost
  BY DropIs DEF Drop, remote
<1>2. \A p \in Posts : StampWaits(p) => StampWaits(p)'
  BY <1>1 DEF StampWaits
<1> QED BY <1>1, <1>2 DEF StampInv, StampFollows, StampedInv

LEMMA StopStamp ==
  ASSUME TypeOK, StampInv, StampedInv, NEW d \in Devices, Stop(d)
  PROVE  StampInv' /\ StampedInv'
<1>1. /\ Len(puts'[d]) = 0
      /\ \A e \in Devices \ {d} : puts'[e] = puts[e] /\ Unsent(e)' = Unsent(e)
      /\ lost \subseteq lost'
      /\ \A n \in Unsent(d) : puts[d][n].post \in lost'
  BY StopIs
<1>2. db' = db
  BY DEF Stop, remote
<1>3. StampInv'
  BY <1>1 DEF StampInv, StampFollows
<1>4. ASSUME NEW p \in Posts \ lost', db[p].unstamped PROVE StampWaits(p)'
  <2>a. PICK e \in Devices : \E n \in Unsent(e) :
          puts[e][n].post = p /\ puts[e][n].kind = "stamp"
    BY <1>1, <1>4 DEF StampedInv, StampWaits
  <2>1. PICK n \in Unsent(e) : puts[e][n].post = p /\ puts[e][n].kind = "stamp"
    BY <2>a
  <2> QED BY <1>1, <1>4, <2>1 DEF StampWaits
<1> QED BY <1>2, <1>3, <1>4 DEF StampedInv

LEMMA SameStamp ==
  ASSUME StampInv, StampedInv, UNCHANGED <<puts, sent, db, lost>>
  PROVE  StampInv' /\ StampedInv'
BY DEF StampInv, StampFollows, StampedInv, StampWaits, Unsent

LEMMA StampStep ==
  ASSUME TypeInv, TypeInv', StampInv, StampedInv, [Next]_vars
  PROVE  StampInv' /\ StampedInv'
<1> USE DEF TypeInv
<1>1. ASSUME NEW d \in Devices, Edit(d) PROVE StampInv' /\ StampedInv'
  <2>1. CASE SubmitText(d) \/ Delete(d)
    <3>1. PICK w : Edits(w, screen[d].post, 0) /\ Enqueue(d, w)
      BY <2>1, SubmitType
    <3>2. screen[d].post \in Posts /\ UNCHANGED <<sent, db, lost>>
      BY <2>1, ScreenFields DEF SubmitText, Delete, remote, history
    <3> QED BY <3>1, <3>2, AddedStamp
  <2>2. CASE SubmitImage(d)
    BY <2>2, SameStamp DEF SubmitImage, remote
  <2>3. CASE \/ OpenNew(d) \/ \E p \in Posts : OpenEdit(d, p)
             \/ ImageLoaded(d) \/ ImageNotLoaded(d) \/ Pick(d) \/ Cancel(d)
             \/ TapOutside(d)
    <3>1. UNCHANGED <<remote, network, lost>>
      BY <2>3, EditScreens
    <3> QED BY <3>1, SameStamp DEF remote, network
  <2> QED BY <1>1, <2>1, <2>2, <2>3 DEF Edit
<1>2. ASSUME NEW d \in Devices, Refresh(d) PROVE StampInv' /\ StampedInv'
  BY <1>2, SameStamp DEF Refresh, remote, network, history
<1>3. ASSUME NEW d \in Devices, Stop(d) PROVE StampInv' /\ StampedInv'
  BY <1>3, StopStamp
<1>4. ASSUME NEW u \in uploads, Uploaded(u) PROVE StampInv' /\ StampedInv'
  <2>1. PICK p \in Posts : \E w : Edits(w, p, u.image) /\ Enqueue(u.device, w)
    BY <1>4, UploadedIs
  <2>2. PICK w : Edits(w, p, u.image) /\ Enqueue(u.device, w)
    BY <2>1
  <2>3. UNCHANGED <<sent, db, lost>>
    BY <1>4, UploadedFrame DEF history
  <2> QED BY <2>2, <2>3, AddedStamp, UploadFields
<1>5. ASSUME NEW u \in uploads, NotUploaded(u) PROVE StampInv' /\ StampedInv'
  BY <1>5, SameStamp DEF NotUploaded
<1>6. ASSUME NEW d \in Devices, Land(d) PROVE StampInv' /\ StampedInv'
  BY <1>6, LandStamp
<1>7. ASSUME NEW d \in Devices, Acknowledge(d) PROVE StampInv' /\ StampedInv'
  BY <1>7, AcknowledgeStamp
<1>8. ASSUME NEW d \in Devices, Drop(d) PROVE StampInv' /\ StampedInv'
  BY <1>8, DropStamp
<1>9. ASSUME NEW i \in deletions, Deleted(i) PROVE StampInv' /\ StampedInv'
  BY <1>9, SameStamp DEF Deleted, history
<1>10. CASE UNCHANGED vars
  BY <1>10, SameStamp DEF vars, remote, network, history
<1> QED BY <1>1, <1>2, <1>3, <1>4, <1>5, <1>6, <1>7, <1>8, <1>9, <1>10
        DEF Next, Transfer

LEMMA StampInit == Init => StampInv /\ StampedInv
<1>1. Len(<<>>) = 0
  OBVIOUS
<1> QED BY <1>1 DEF Init, StampInv, StampedInv, Absent

-----------------------------------------------------------------------------
(* Images belong to one post.                                              *)

Image == Nat \ {0}

Names(put, x) == put.kind \in {"record", "image"} /\ put.image = x

QueueNames(p, x) ==
  \E d \in Devices : \E n \in 1 .. Len(puts[d]) :
    puts[d][n].post = p /\ Names(puts[d][n], x)

(* The device d takes x for the image of p.                                *)
Shows(d, p, x) ==
  list[d][p] = x \/ (screen[d].post = p /\ screen[d].old = x)

Replaces(u, p, x) == u.post = p /\ u.old = x

Named(p, x) ==
  \/ db[p].image = x
  \/ QueueNames(p, x)
  \/ \E d \in Devices : Shows(d, p, x)
  \/ \E u \in uploads : Replaces(u, p, x)

OnePost ==
  \A x \in Image : \A a, b \in Posts : Named(a, x) /\ Named(b, x) => a = b

UploadsAreFresh ==
  \A u \in uploads : u.image \notin deletions /\ \A a \in Posts : ~Named(a, u.image)

OneWrite ==
  \A x \in Image : \A d, e \in Devices :
    \A m \in 1 .. Len(puts[d]), n \in 1 .. Len(puts[e]) :
      Names(puts[d][m], x) /\ Names(puts[e][n], x) => d = e /\ m = n

OneUpload == \A u, v \in uploads : u.image = v.image => u = v

OwnInv == OnePost /\ UploadsAreFresh /\ OneWrite /\ OneUpload

(* No post is named an image it was not named before.                      *)
Kept == \A p \in Posts : \A x \in Image : Named(p, x)' => Named(p, x)

LEMMA UploadImages ==
  ASSUME TypeInv, NEW u \in uploads
  PROVE  /\ u.image \in Image /\ u.image <= images
         /\ u.post \in Posts => u.old \in Image
<1>1. u.image \in Nat /\ u.image <= images /\ 0 < u.image /\ u.old \in Nat
  BY UploadFields DEF TypeInv, RangeInv
<1>2. u.post # NoPost => u.old # 0
  BY DEF TypeInv, RangeInv
<1> QED BY <1>1, <1>2, PostEditorAssumption DEF Image

LEMMA OwnKept ==
  ASSUME TypeInv, OwnInv, Kept, OneWrite', uploads' \subseteq uploads,
         deletions' \subseteq deletions
  PROVE  OwnInv'
<1>1. OnePost'
  BY DEF OwnInv, OnePost, Kept
<1>2. UploadsAreFresh'
  BY UploadImages DEF OwnInv, UploadsAreFresh, Kept
<1>3. OneUpload'
  BY DEF OwnInv, OneUpload
<1> QED BY <1>1, <1>2, <1>3 DEF OwnInv

LEMMA EditNamed ==
  ASSUME TypeInv, NEW d \in Devices, NEW s \in Screen, ScreenEdit(d, s),
         \/ s.old = screen[d].old /\ s.post = screen[d].post
         \/ s.post = NoPost /\ s.old = 0
         \/ s.post # NoPost /\ s.old = list[d][s.post],
         UNCHANGED <<db, puts, list, uploads>>
  PROVE  Kept
<1> SUFFICES ASSUME NEW p \in Posts, NEW x \in Image, Named(p, x)'
             PROVE  Named(p, x)
  BY DEF Kept
<1>1. \A e \in Devices : screen'[e] = IF e = d THEN s ELSE screen[e]
  BY DEF TypeInv, TypeOK, ScreenEdit
<1>2. ASSUME NEW e \in Devices, Shows(e, p, x)' PROVE Shows(e, p, x)
  BY <1>1, <1>2, PostEditorAssumption DEF Shows
<1> QED BY <1>2 DEF Named, QueueNames

LEMMA AddedNamed ==
  ASSUME TypeOK, NEW d \in Devices, NEW w, Added(d, w),
         NEW p \in Posts, NEW x, QueueNames(p, x)'
  PROVE  \/ QueueNames(p, x)
         \/ \E k \in 1 .. Len(w) : w[k].post = p /\ Names(w[k], x)
<1>a. PICK e \in Devices : \E n \in 1 .. Len(puts'[e]) :
        puts'[e][n].post = p /\ Names(puts'[e][n], x)
  BY DEF QueueNames, Names
<1>1. PICK n \in 1 .. Len(puts'[e]) : puts'[e][n].post = p /\ Names(puts'[e][n], x)
  BY <1>a
<1>2. CASE e # d
  BY <1>1, <1>2 DEF Added, QueueNames
<1>3. CASE e = d
  <2>1. CASE n \in 1 .. Len(puts[d])
    <3>1. puts'[d][n] = puts[d][n]
      BY <2>1 DEF Added
    <3> QED BY <1>1, <1>3, <2>1, <3>1 DEF QueueNames
  <2>2. ASSUME NEW k \in 1 .. Len(w), n = Len(puts[d]) + k
        PROVE  w[k].post = p /\ Names(w[k], x)
    <3>1. puts'[d][n] = w[k]
      BY <2>2 DEF Added
    <3> QED BY <1>1, <1>3, <3>1
  <2> QED BY <1>1, <1>3, <2>1, <2>2 DEF Added
<1> QED BY <1>2, <1>3

LEMMA AddedOneWrite ==
  ASSUME TypeOK, NEW d \in Devices, NEW w, Added(d, w), OneWrite,
         \A k \in 1 .. Len(w) : \A x \in Image : ~Names(w[k], x)
  PROVE  OneWrite'
<1> SUFFICES ASSUME NEW x \in Image, NEW e \in Devices, NEW f \in Devices,
                    NEW m \in 1 .. Len(puts'[e]), NEW n \in 1 .. Len(puts'[f]),
                    Names(puts'[e][m], x), Names(puts'[f][n], x)
             PROVE  e = f /\ m = n
  BY DEF OneWrite, Names
<1>1. \A g \in Devices : \A k \in 1 .. Len(puts'[g]) : Names(puts'[g][k], x) =>
        k \in 1 .. Len(puts[g]) /\ puts'[g][k] = puts[g][k]
  BY DEF Added
<1> QED BY <1>1 DEF OneWrite

(* Text is changed, or a post is deleted: no image is named.               *)
LEMMA SubmitOwn ==
  ASSUME TypeInv, TypeInv', OwnInv, NEW d \in Devices, SubmitText(d) \/ Delete(d)
  PROVE  OwnInv'
<1> USE DEF TypeInv
<1>1. PICK w : /\ Edits(w, screen[d].post, 0) /\ Enqueue(d, w)
               /\ \A k \in 1 .. Len(w) : w[k].kind \notin {"record", "image"}
  BY SubmitType
<1>2. /\ ScreenEdit(d, Closed) /\ UNCHANGED <<db, list, sent, uploads, deletions>>
  BY DEF SubmitText, Delete, ScreenEdit, remote
<1>3. Added(d, w)
  BY <1>1, <1>2, AddedIs DEF Edits
<1>4. OneWrite'
  BY <1>1, <1>3, AddedOneWrite DEF Names, OwnInv
<1>5. Kept
  <2> SUFFICES ASSUME NEW p \in Posts, NEW x \in Image, Named(p, x)'
               PROVE  Named(p, x)
    BY DEF Kept
  <2>1. QueueNames(p, x)' => QueueNames(p, x)
    BY <1>1, <1>3, AddedNamed DEF Names
  <2>2. \A e \in Devices : screen'[e] = IF e = d THEN Closed ELSE screen[e]
    BY <1>2 DEF TypeOK, ScreenEdit
  <2>3. ASSUME NEW e \in Devices, Shows(e, p, x)' PROVE Shows(e, p, x)
    BY <1>2, <2>2, <2>3, ClosedScreen, PostEditorAssumption DEF Shows
  <2> QED BY <1>2, <2>1, <2>3 DEF Named
<1> QED BY <1>2, <1>4, <1>5, OwnKept

(* The image of a new upload is new.                                       *)
LEMMA NewImage ==
  ASSUME TypeInv, NEW p \in Posts, NEW x \in Nat, x > images
  PROVE  ~Named(p, x)
<1> USE DEF TypeInv
<1>1. images \in Nat
  BY DEF TypeOK
<1>2. db[p].image # x
  <2>1. db[p].image \in Nat /\ db[p].image <= images
    BY RecordFields DEF RangeInv
  <2> QED BY <1>1, <2>1
<1>3. ~QueueNames(p, x)
  <2>1. \A d \in Devices : \A n \in 1 .. Len(puts[d]) :
          puts[d][n].image \in Nat /\ puts[d][n].image <= images
    BY PutFields DEF RangeInv
  <2> QED BY <1>1, <2>1 DEF QueueNames, Names
<1>4. \A d \in Devices : ~Shows(d, p, x)
  <2>1. \A d \in Devices : list[d][p] \in Nat /\ list[d][p] <= images
    BY DEF RangeInv, TypeOK
  <2>2. \A d \in Devices : screen[d].old \in Nat /\ screen[d].old <= images
    BY ScreenFields DEF RangeInv
  <2> QED BY <1>1, <2>1, <2>2 DEF Shows
<1>5. \A u \in uploads : ~Replaces(u, p, x)
  <2>1. \A u \in uploads : u.old \in Nat /\ u.old <= images
    BY UploadFields DEF RangeInv
  <2> QED BY <1>1, <2>1 DEF Replaces
<1> QED BY <1>2, <1>3, <1>4, <1>5 DEF Named

LEMMA SubmitImageIs ==
  ASSUME TypeInv, NEW d \in Devices, SubmitImage(d)
  PROVE  \E u : /\ uploads' = uploads \cup {u} /\ u.image = images + 1
                /\ u.device = d /\ u.post = screen[d].post /\ u.old = screen[d].old
                /\ \A e \in Devices : /\ screen'[e].post = screen[e].post
                                      /\ screen'[e].old = screen[e].old
<1> USE DEF TypeInv
<1> DEFINE u == [device |-> d, post |-> screen[d].post, old |-> screen[d].old,
                 image |-> images']
           s == [screen[d] EXCEPT !.stage = "locked", !.waitsFor = images']
<1>1. images' = images + 1 /\ uploads' = uploads \cup {u} /\ ScreenEdit(d, s)
  BY DEF SubmitImage, ScreenEdit
<1>2. /\ u.image = images' /\ u.device = d /\ u.post = screen[d].post
      /\ u.old = screen[d].old
  OBVIOUS
<1>3. s.old = screen[d].old /\ s.post = screen[d].post
  BY ScreenFields DEF Screen
<1> HIDE DEF u, s
<1>4. \A e \in Devices : /\ screen'[e].post = screen[e].post
                         /\ screen'[e].old = screen[e].old
  BY <1>1, <1>3 DEF TypeOK, ScreenEdit
<1> QED BY <1>1, <1>2, <1>4

LEMMA SubmitImageOwn ==
  ASSUME TypeInv, OwnInv, NEW d \in Devices, SubmitImage(d)
  PROVE  OwnInv' /\ Kept
<1> USE DEF TypeInv
<1>1. PICK u : /\ uploads' = uploads \cup {u} /\ u.image = images + 1
               /\ u.post = screen[d].post /\ u.old = screen[d].old
               /\ \A e \in Devices : /\ screen'[e].post = screen[e].post
                                     /\ screen'[e].old = screen[e].old
  BY SubmitImageIs
<1>2. UNCHANGED <<db, list, puts, deletions>>
  BY DEF SubmitImage, remote
<1>3. images \in Nat /\ u.image \in Nat /\ u.image > images
  BY <1>1 DEF TypeOK
<1>4. Kept
  <2> SUFFICES ASSUME NEW p \in Posts, NEW x \in Image, Named(p, x)'
               PROVE  Named(p, x)
    BY DEF Kept
  <2>1. ASSUME NEW e \in Devices, Shows(e, p, x)' PROVE Shows(e, p, x)
    BY <1>1, <1>2, <2>1 DEF Shows
  <2>2. Replaces(u, p, x) => Shows(d, p, x)
    BY <1>1 DEF Replaces, Shows
  <2>3. QueueNames(p, x)' => QueueNames(p, x)
    BY <1>2 DEF QueueNames
  <2> QED BY <1>1, <1>2, <2>1, <2>2, <2>3 DEF Named, Replaces
<1>5. u.image \notin deletions /\ \A v \in uploads : v.image # u.image
  <2>1. u.image \notin deletions
    BY <1>3 DEF TypeOK
  <2>2. \A v \in uploads : v.image \in Nat /\ v.image <= images
    BY UploadFields DEF RangeInv
  <2> QED BY <1>3, <2>1, <2>2
<1>6. OnePost' /\ OneWrite'
  BY <1>2, <1>4 DEF OwnInv, OnePost, Kept, OneWrite
<1>7. UploadsAreFresh'
  <2>1. ASSUME NEW v \in uploads, NEW a \in Posts PROVE ~Named(a, v.image)'
    BY <1>4, UploadImages DEF OwnInv, UploadsAreFresh, Kept
  <2>2. ASSUME NEW a \in Posts PROVE ~Named(a, u.image)'
    <3>1. u.image \in Image
      BY <1>3 DEF Image
    <3> QED BY <1>3, <1>4, <3>1, NewImage DEF Kept
  <2> QED BY <1>1, <1>2, <1>5, <2>1, <2>2 DEF OwnInv, UploadsAreFresh
<1>8. OneUpload'
  BY <1>1, <1>5 DEF OwnInv, OneUpload
<1> QED BY <1>4, <1>6, <1>7, <1>8 DEF OwnInv

(* An upload is done: its image, which nothing named, is given to a post.  *)
LEMMA UploadedNames ==
  ASSUME TypeInv, TypeInv', OwnInv, NEW u \in uploads, Uploaded(u),
         NEW p \in Posts, NEW w, Edits(w, p, u.image), Enqueue(u.device, w)
  PROVE  /\ Added(u.device, w)
         /\ \A a \in Posts : \A x \in Image :
              Named(a, x)' => Named(a, x) \/ (a = p /\ x = u.image)
<1> USE DEF TypeInv
<1>1. /\ UNCHANGED <<db, list, sent>> /\ uploads' = uploads \ {u}
      /\ screen' = screen \/ ScreenEdit(u.device, Closed)
  BY UploadedFrame
<1>2. Added(u.device, w) /\ u.device \in Devices
  BY <1>1, AddedIs, UploadFields DEF Edits
<1>3. ASSUME NEW a \in Posts, NEW x \in Image, Named(a, x)', ~Named(a, x)
      PROVE  a = p /\ x = u.image
  <2>1. \A e \in Devices : screen'[e] = screen[e] \/ screen'[e] = Closed
    BY <1>1, <1>2, ClosedScreen DEF TypeOK, ScreenEdit
  <2>2. ASSUME NEW e \in Devices, Shows(e, a, x)' PROVE Shows(e, a, x)
    BY <1>1, <2>1, <2>2, ClosedScreen, PostEditorAssumption DEF Shows
  <2>3. QueueNames(a, x)' /\ ~QueueNames(a, x)
    BY <1>1, <1>3, <2>2 DEF Named
  <2>4. PICK k \in 1 .. Len(w) : w[k].post = a /\ Names(w[k], x)
    BY <1>2, <2>3, AddedNamed
  <2> QED BY <2>4 DEF Edits, Names
<1> QED BY <1>2, <1>3

LEMMA UploadedOneWrite ==
  ASSUME TypeInv, OwnInv, NEW u \in uploads, NEW p \in Posts, NEW w,
         Edits(w, p, u.image), AddsRecord(u, p, w) \/ AddsImage(u, p, w),
         Added(u.device, w)
  PROVE  OneWrite'
<1> USE DEF TypeInv
<1> SUFFICES ASSUME NEW x \in Image, NEW e \in Devices, NEW f \in Devices,
                    NEW m \in 1 .. Len(puts'[e]), NEW n \in 1 .. Len(puts'[f]),
                    Names(puts'[e][m], x), Names(puts'[f][n], x)
             PROVE  e = f /\ m = n
  BY DEF OneWrite, Names
<1> DEFINE d == u.device
           Old(g, k) == k \in 1 .. Len(puts[g]) /\ puts'[g][k] = puts[g][k]
           New(g, k) == g = d /\ \E j \in 1 .. Len(w) :
                          k = Len(puts[d]) + j /\ puts'[g][k] = w[j]
<1>0. d \in Devices
  BY UploadFields
<1>1. \A g \in Devices : \A k \in 1 .. Len(puts'[g]) : Old(g, k) \/ New(g, k)
  <2> SUFFICES ASSUME NEW g \in Devices, NEW k \in 1 .. Len(puts'[g])
               PROVE  Old(g, k) \/ New(g, k)
    OBVIOUS
  <2>1. CASE g # d
    BY <2>1 DEF Added
  <2>2. CASE g = d /\ k \in 1 .. Len(puts[d])
    <3>1. puts'[d][k] = puts[d][k]
      BY <2>2 DEF Added
    <3> QED BY <2>2, <3>1
  <2>3. ASSUME g = d, NEW j \in 1 .. Len(w), k = Len(puts[d]) + j
        PROVE  New(g, k)
    <3>1. puts'[d][k] = w[j]
      BY <2>3 DEF Added
    <3> QED BY <2>3, <3>1
  <2>4. g = d => k \in 1 .. Len(puts[d]) \/ \E j \in 1 .. Len(w) : k = Len(puts[d]) + j
    BY DEF Added
  <2> QED BY <2>1, <2>2, <2>3, <2>4
<1>2. \A j, k \in 1 .. Len(w) : Names(w[j], x) /\ Names(w[k], x) => j = k
  <2>1. CASE AddsRecord(u, p, w)
    BY <2>1 DEF AddsRecord
  <2>2. CASE AddsImage(u, p, w)
    BY <2>2 DEF AddsImage, Names
  <2> QED BY <2>1, <2>2
<1>3. \A j \in 1 .. Len(w) : Names(w[j], x) => x = u.image
  BY DEF Edits, Names
<1>4. u.image = x => \A g \in Devices : \A k \in 1 .. Len(puts[g]) : ~Names(puts[g][k], x)
  <2> SUFFICES ASSUME u.image = x, NEW g \in Devices, NEW k \in 1 .. Len(puts[g]),
                      Names(puts[g][k], x)
               PROVE  FALSE
    OBVIOUS
  <2>1. puts[g][k].post \in Posts
    BY PutFields
  <2>2. Named(puts[g][k].post, x)
    BY <2>1 DEF Named, QueueNames
  <2> QED BY <2>1, <2>2 DEF OwnInv, UploadsAreFresh
<1>5. CASE Old(e, m) /\ Old(f, n)
  BY <1>5 DEF OwnInv, OneWrite
<1>6. CASE New(e, m) /\ New(f, n)
  <2>1. PICK j \in 1 .. Len(w) : m = Len(puts[d]) + j /\ puts'[e][m] = w[j]
    BY <1>6
  <2>2. PICK k \in 1 .. Len(w) : n = Len(puts[d]) + k /\ puts'[f][n] = w[k]
    BY <1>6
  <2>3. j = k
    BY <1>2, <2>1, <2>2
  <2> QED BY <1>6, <2>1, <2>2, <2>3
<1>7. CASE Old(e, m) /\ New(f, n)
  BY <1>3, <1>4, <1>7
<1>8. CASE New(e, m) /\ Old(f, n)
  BY <1>3, <1>4, <1>8
<1> HIDE DEF Old, New, d
<1> QED BY <1>1, <1>5, <1>6, <1>7, <1>8

LEMMA UploadedOwn ==
  ASSUME TypeInv, TypeInv', OwnInv, NEW u \in uploads, Uploaded(u)
  PROVE  OwnInv'
<1> USE DEF TypeInv
<1>1. PICK p \in Posts : \E w :
           /\ Edits(w, p, u.image) /\ Enqueue(u.device, w)
           /\ AddsRecord(u, p, w) \/ AddsImage(u, p, w)
  BY UploadedIs
<1>2. PICK w : /\ Edits(w, p, u.image) /\ Enqueue(u.device, w)
               /\ AddsRecord(u, p, w) \/ AddsImage(u, p, w)
  BY <1>1
<1>3. /\ Added(u.device, w)
      /\ \A a \in Posts : \A x \in Image :
           Named(a, x)' => Named(a, x) \/ (a = p /\ x = u.image)
  BY <1>2, UploadedNames
<1>4. /\ uploads' = uploads \ {u}
      /\ deletions' = IF u.post = NoPost THEN deletions ELSE deletions \cup {u.old}
  BY UploadedFrame
<1>5. OneWrite'
  BY <1>2, <1>3, UploadedOneWrite
<1>6. OnePost'
  <2> SUFFICES ASSUME NEW x \in Image, NEW a \in Posts, NEW b \in Posts,
                      Named(a, x)', Named(b, x)'
               PROVE  a = b
    BY DEF OnePost
  <2>1. x = u.image => ~Named(a, x) /\ ~Named(b, x)
    BY DEF OwnInv, UploadsAreFresh
  <2> QED BY <1>3, <2>1 DEF OwnInv, OnePost
<1>7. UploadsAreFresh'
  <2> SUFFICES ASSUME NEW v \in uploads, v # u
               PROVE  v.image \notin deletions' /\ \A a \in Posts : ~Named(a, v.image)'
    BY <1>4 DEF UploadsAreFresh
  <2>1. v.image # u.image /\ v.image \in Image
    BY UploadImages DEF OwnInv, OneUpload
  <2>2. \A a \in Posts : ~Named(a, v.image)'
    BY <1>3, <2>1 DEF OwnInv, UploadsAreFresh
  <2>3. u.post # NoPost => v.image # u.old
    <3>1. u.post # NoPost => u.post \in Posts /\ Named(u.post, u.old)
      BY UploadFields DEF Named, Replaces
    <3> QED BY <3>1 DEF OwnInv, UploadsAreFresh
  <2>4. v.image \notin deletions'
    BY <1>4, <2>3 DEF OwnInv, UploadsAreFresh
  <2> QED BY <2>2, <2>4
<1>8. OneUpload'
  BY <1>4 DEF OwnInv, OneUpload
<1> QED BY <1>5, <1>6, <1>7, <1>8 DEF OwnInv

LEMMA NotUploadedOwn ==
  ASSUME TypeInv, OwnInv, NEW u \in uploads, NotUploaded(u)
  PROVE  OwnInv'
<1>1. uploads' = uploads \ {u} /\ UNCHANGED <<db, screen, list, puts, deletions>>
  BY DEF NotUploaded, device
<1>2. Kept
  BY <1>1 DEF Kept, Named, QueueNames, Shows
<1>3. OneWrite'
  BY <1>1 DEF OwnInv, OneWrite
<1> QED BY <1>1, <1>2, <1>3, OwnKept

LEMMA LandImage ==
  ASSUME TypeOK, NEW d \in Devices, NEW n \in 1 .. Len(puts[d]),
         db'[puts[d][n].post] = After(db[puts[d][n].post], puts[d][n]),
         \A p \in Posts \ {puts[d][n].post} : db'[p] = db[p],
         NEW p \in Posts
  PROVE  \/ db'[p].image = db[p].image
            /\ (p = puts[d][n].post => puts[d][n].kind \notin {"record", "image"})
         \/ p = puts[d][n].post /\ Names(puts[d][n], db'[p].image)
<1>1. puts[d][n] \in Put /\ db[p] \in Record
  BY PutFields, RecordFields
<1>2. CASE p # puts[d][n].post
  BY <1>2
<1>3. CASE p = puts[d][n].post
  <2>1. After(db[p], puts[d][n]).image =
          IF puts[d][n].kind \in {"record", "image"} THEN puts[d][n].image ELSE db[p].image
    BY <1>1, AfterType
  <2> QED BY <1>3, <2>1 DEF Names
<1> QED BY <1>2, <1>3

LEMMA LandOwn ==
  ASSUME TypeInv, OwnInv, NEW d \in Devices, Land(d)
  PROVE  OwnInv'
<1> USE DEF TypeInv
<1>1. PICK n \in 1 .. Len(puts[d]) :
           /\ db'[puts[d][n].post] = After(db[puts[d][n].post], puts[d][n])
           /\ \A p \in Posts \ {puts[d][n].post} : db'[p] = db[p]
  BY LandIs
<1>2. UNCHANGED <<screen, list, puts, uploads, deletions>>
  BY DEF Land, device
<1>3. Kept
  <2> SUFFICES ASSUME NEW p \in Posts, NEW x \in Image, Named(p, x)'
               PROVE  Named(p, x)
    BY DEF Kept
  <2>1. QueueNames(p, x)' <=> QueueNames(p, x)
    BY <1>2 DEF QueueNames
  <2>2. \A e \in Devices : Shows(e, p, x)' <=> Shows(e, p, x)
    BY <1>2 DEF Shows
  <2>3. db'[p].image = x => db[p].image = x \/ QueueNames(p, x)
    BY <1>1, LandImage DEF QueueNames
  <2> QED BY <1>2, <2>1, <2>2, <2>3 DEF Named
<1>4. OneWrite'
  BY <1>2 DEF OwnInv, OneWrite
<1> QED BY <1>2, <1>3, <1>4, OwnKept

LEMMA AcknowledgeOwn ==
  ASSUME TypeInv, TypeInv', OwnInv, NEW d \in Devices, Acknowledge(d)
  PROVE  OwnInv'
<1> USE DEF TypeInv
<1>1. MovedUp(d)
  BY MovedUpIs
<1>2. UNCHANGED <<db, screen, list, uploads, deletions>>
  BY DEF Acknowledge, remote, device
<1>3. ASSUME NEW p \in Posts, NEW x \in Image, QueueNames(p, x)'
      PROVE  QueueNames(p, x)
  <2>a. PICK e \in Devices : \E n \in 1 .. Len(puts'[e]) :
          puts'[e][n].post = p /\ Names(puts'[e][n], x)
    BY <1>3 DEF QueueNames, Names
  <2>1. PICK n \in 1 .. Len(puts'[e]) : puts'[e][n].post = p /\ Names(puts'[e][n], x)
    BY <2>a
  <2>2. CASE e = d
    BY <1>1, <2>1, <2>2 DEF MovedUp, QueueNames
  <2>3. CASE e # d
    BY <1>1, <2>1, <2>3 DEF MovedUp, QueueNames
  <2> QED BY <2>2, <2>3
<1>4. Kept
  BY <1>2, <1>3 DEF Kept, Named, Shows
<1>5. OneWrite'
  <2> SUFFICES ASSUME NEW x \in Image, NEW e \in Devices, NEW f \in Devices,
                      NEW m \in 1 .. Len(puts'[e]), NEW n \in 1 .. Len(puts'[f]),
                      Names(puts'[e][m], x), Names(puts'[f][n], x)
               PROVE  e = f /\ m = n
    BY DEF OneWrite, Names
  <2> DEFINE i == IF e = d THEN m + 1 ELSE m
             j == IF f = d THEN n + 1 ELSE n
  <2>1. i \in 1 .. Len(puts[e]) /\ puts'[e][m] = puts[e][i]
    BY <1>1 DEF MovedUp
  <2>2. j \in 1 .. Len(puts[f]) /\ puts'[f][n] = puts[f][j]
    BY <1>1 DEF MovedUp
  <2>3. e = f /\ i = j
    BY <2>1, <2>2 DEF OwnInv, OneWrite
  <2>4. m \in Int /\ n \in Int
    OBVIOUS
  <2> QED BY <2>3, <2>4
<1> QED BY <1>2, <1>4, <1>5, OwnKept

LEMMA StopOwn ==
  ASSUME TypeInv, OwnInv, NEW d \in Devices, Stop(d)
  PROVE  OwnInv'
<1> USE DEF TypeInv
<1>1. /\ Len(puts'[d]) = 0
      /\ \A e \in Devices \ {d} : puts'[e] = puts[e]
  BY StopIs
<1>2. /\ UNCHANGED <<db, list, deletions>> /\ uploads' \subseteq uploads
      /\ ScreenEdit(d, Closed)
  BY DEF Stop, remote, ScreenEdit
<1>3. \A e \in Devices : \A n \in 1 .. Len(puts'[e]) :
        n \in 1 .. Len(puts[e]) /\ puts'[e][n] = puts[e][n]
  BY <1>1
<1>4. OneWrite'
  BY <1>3 DEF OwnInv, OneWrite
<1>5. Kept
  <2> SUFFICES ASSUME NEW p \in Posts, NEW x \in Image, Named(p, x)'
               PROVE  Named(p, x)
    BY DEF Kept
  <2>1. QueueNames(p, x)' => QueueNames(p, x)
    BY <1>3 DEF QueueNames
  <2>2. \A e \in Devices : screen'[e] = IF e = d THEN Closed ELSE screen[e]
    BY <1>2 DEF TypeOK, ScreenEdit
  <2>3. ASSUME NEW e \in Devices, Shows(e, p, x)' PROVE Shows(e, p, x)
    BY <1>2, <2>2, <2>3, ClosedScreen, PostEditorAssumption DEF Shows
  <2> QED BY <1>2, <2>1, <2>3 DEF Named
<1> QED BY <1>2, <1>4, <1>5, OwnKept

(* What a list shows of a post, the database or the device's own writes    *)
(* named.                                                                  *)
LEMMA RefreshShows ==
  ASSUME TypeInv, NEW d \in Devices, Refresh(d),
         NEW e \in Devices, NEW p \in Posts, NEW x \in Image, Shows(e, p, x)'
  PROVE  \/ Shows(e, p, x)
         \/ db[p].image = x
         \/ e = d /\ \E n \in 1 .. Len(puts[d]) :
                        puts[d][n].post = p /\ Names(puts[d][n], x)
<1> USE DEF TypeInv
<1>1. PICK laid \in {{}, DOMAIN puts[d]} :
        list' = [list EXCEPT ![d] = [q \in Posts |-> Shown(d, q, laid)]]
  BY DEF Refresh
<1>2. screen' = screen
  BY DEF Refresh
<1>3. laid \in SUBSET (1 .. Len(puts[d]))
  BY LenProperties DEF TypeOK
<1>4. CASE list'[e][p] # x
  BY <1>2, <1>4 DEF Shows
<1>5. CASE list'[e][p] = x /\ e # d
  <2>1. list[e][p] = x
    BY <1>1, <1>5 DEF TypeOK
  <2> QED BY <2>1 DEF Shows
<1>6. CASE list'[e][p] = x /\ e = d
  <2>1. Shown(d, p, laid) = x
    BY <1>1, <1>6 DEF TypeOK
  <2>2. \/ Shown(d, p, laid) = 0
        \/ Shown(d, p, laid) = db[p].image
        \/ \E n \in laid : /\ puts[d][n].post = p
                           /\ puts[d][n].kind \in {"record", "image"}
                           /\ Shown(d, p, laid) = puts[d][n].image
    BY <1>3, ShownIs
  <2>3. x # 0
    BY DEF Image
  <2> QED BY <1>3, <1>6, <2>1, <2>2, <2>3 DEF Names
<1> QED BY <1>4, <1>5, <1>6

LEMMA RefreshOwn ==
  ASSUME TypeInv, OwnInv, NEW d \in Devices, Refresh(d)
  PROVE  OwnInv'
<1>1. UNCHANGED <<db, puts, uploads, deletions>>
  BY DEF Refresh, remote, network
<1>2. Kept
  <2> SUFFICES ASSUME NEW p \in Posts, NEW x \in Image, Named(p, x)'
               PROVE  Named(p, x)
    BY DEF Kept
  <2>1. QueueNames(p, x)' => QueueNames(p, x)
    BY <1>1 DEF QueueNames
  <2>2. ASSUME NEW e \in Devices, Shows(e, p, x)' PROVE Named(p, x)
    BY <2>2, RefreshShows DEF Named, QueueNames
  <2> QED BY <1>1, <2>1, <2>2 DEF Named
<1>3. OneWrite'
  BY <1>1 DEF OwnInv, OneWrite
<1> QED BY <1>1, <1>2, <1>3, OwnKept

LEMMA SameOwn ==
  ASSUME TypeInv, OwnInv, UNCHANGED <<db, list, screen, puts, uploads>>,
         deletions' \subseteq deletions
  PROVE  OwnInv'
<1>1. Kept
  BY DEF Kept, Named, QueueNames, Shows
<1>2. OneWrite'
  BY DEF OwnInv, OneWrite
<1> QED BY <1>1, <1>2, OwnKept

LEMMA OwnStep ==
  ASSUME TypeInv, TypeInv', OwnInv, [Next]_vars
  PROVE  OwnInv'
<1> USE DEF TypeInv
<1>1. ASSUME NEW d \in Devices, Edit(d) PROVE OwnInv'
  <2>1. CASE SubmitText(d) \/ Delete(d)
    BY <2>1, SubmitOwn
  <2>2. CASE SubmitImage(d)
    BY <2>2, SubmitImageOwn
  <2>3. CASE \/ OpenNew(d) \/ \E p \in Posts : OpenEdit(d, p)
             \/ ImageLoaded(d) \/ ImageNotLoaded(d) \/ Pick(d) \/ Cancel(d)
             \/ TapOutside(d)
    <3>1. UNCHANGED <<db, puts, list, uploads, deletions>>
      BY <2>3, EditScreens DEF remote, network
    <3>2. Kept
      BY <2>3, <3>1, EditScreens, EditNamed
    <3>3. OneWrite'
      BY <3>1 DEF OwnInv, OneWrite
    <3> QED BY <3>1, <3>2, <3>3, OwnKept
  <2> QED BY <1>1, <2>1, <2>2, <2>3 DEF Edit
<1>2. ASSUME NEW d \in Devices, Refresh(d) PROVE OwnInv'
  BY <1>2, RefreshOwn
<1>3. ASSUME NEW d \in Devices, Stop(d) PROVE OwnInv'
  BY <1>3, StopOwn
<1>4. ASSUME NEW u \in uploads, Uploaded(u) PROVE OwnInv'
  BY <1>4, UploadedOwn
<1>5. ASSUME NEW u \in uploads, NotUploaded(u) PROVE OwnInv'
  BY <1>5, NotUploadedOwn
<1>6. ASSUME NEW d \in Devices, Land(d) PROVE OwnInv'
  BY <1>6, LandOwn
<1>7. ASSUME NEW d \in Devices, Acknowledge(d) PROVE OwnInv'
  BY <1>7, AcknowledgeOwn
<1>8. ASSUME NEW d \in Devices, Drop(d) PROVE OwnInv'
  BY <1>8, SameOwn DEF Drop, remote, device
<1>9. ASSUME NEW i \in deletions, Deleted(i) PROVE OwnInv'
  BY <1>9, SameOwn DEF Deleted, device
<1>10. CASE UNCHANGED vars
  BY <1>10, SameOwn DEF vars, remote, device, network
<1> QED BY <1>1, <1>2, <1>3, <1>4, <1>5, <1>6, <1>7, <1>8, <1>9, <1>10
        DEF Next, Transfer

LEMMA OwnInit == Init => OwnInv
<1> SUFFICES ASSUME Init PROVE OwnInv
  OBVIOUS
<1>1. Len(<<>>) = 0
  OBVIOUS
<1>2. uploads = {} /\ \A d \in Devices : Len(puts[d]) = 0
  BY <1>1 DEF Init
<1>3. \A p \in Posts : \A x \in Image : ~Named(p, x)
  BY <1>2, ClosedScreen DEF Init, Named, QueueNames, Shows, Absent, Image
<1> QED BY <1>2, <1>3 DEF OwnInv, OnePost, UploadsAreFresh, OneWrite, OneUpload

-----------------------------------------------------------------------------
(* Who waits for an image.                                                 *)

Waits(e, n, p, x) ==
  n \in Unsent(e) /\ puts[e][n].post = p /\ Names(puts[e][n], x)

(* Device d has seen that p has image x, and may replace x for it.         *)
Saw(d, p, x) ==
  Shows(d, p, x) \/ \E u \in uploads : u.device = d /\ Replaces(u, p, x)

(* No write that has yet to land names the image a post has.               *)
LandedOnce ==
  \A p \in Posts \ repeated : \A x \in Image : db[p].image = x =>
    \A e \in Devices : \A n \in Unsent(e) : ~Waits(e, n, p, x)

(* An image whose write has yet to land is known to its own device only.   *)
SeenByOwner ==
  \A p \in Posts \ repeated : \A x \in Image : \A d, e \in Devices :
    Saw(d, p, x) => \A n \in Unsent(e) : Waits(e, n, p, x) => d = e

SeenInv == LandedOnce /\ SeenByOwner

LEMMA UnsentNames ==
  ASSUME TypeOK, NEW e \in Devices, NEW n, NEW p, NEW x, Waits(e, n, p, x)
  PROVE  n \in 1 .. Len(puts[e]) /\ QueueNames(p, x) /\ Named(p, x)
<1>1. n \in 1 .. Len(puts[e])
  BY UnsentIs DEF Waits
<1> QED BY <1>1 DEF Waits, QueueNames, Named

LEMMA SawNamed ==
  ASSUME NEW d \in Devices, NEW p, NEW x, Saw(d, p, x)
  PROVE  Named(p, x)
BY DEF Saw, Named

LEMMA SeenKept ==
  ASSUME SeenInv, repeated \subseteq repeated', \A p \in Posts : db'[p].image = db[p].image,
         \A d \in Devices : \A p \in Posts : \A x \in Image : Saw(d, p, x)' => Saw(d, p, x),
         \A e \in Devices : \A p \in Posts \ repeated' : \A x \in Image :
           (\E n \in Unsent(e)' : Waits(e, n, p, x)') => \E n \in Unsent(e) : Waits(e, n, p, x)
  PROVE  SeenInv'
<1>1. ASSUME NEW p \in Posts \ repeated', NEW x \in Image, db'[p].image = x,
             NEW e \in Devices, NEW n \in Unsent(e)', Waits(e, n, p, x)'
      PROVE  FALSE
  BY <1>1 DEF SeenInv, LandedOnce
<1>2. ASSUME NEW p \in Posts \ repeated', NEW x \in Image, NEW d \in Devices,
             NEW e \in Devices, Saw(d, p, x)', NEW n \in Unsent(e)', Waits(e, n, p, x)'
      PROVE  d = e
  BY <1>2 DEF SeenInv, SeenByOwner
<1>3. LandedOnce'
  BY <1>1 DEF LandedOnce
<1>4. SeenByOwner'
  BY <1>2 DEF SeenByOwner
<1> QED BY <1>3, <1>4 DEF SeenInv

LEMMA SameWaits ==
  ASSUME UNCHANGED <<puts, sent>>
  PROVE  \A e \in Devices : \A p, x :
           (\E n \in Unsent(e)' : Waits(e, n, p, x)') => \E n \in Unsent(e) : Waits(e, n, p, x)
BY DEF Waits, Unsent, Names

LEMMA AddedWaits ==
  ASSUME TypeOK, NEW d \in Devices, NEW w, Added(d, w), Len(puts[d]) \in Nat,
         NEW e \in Devices, NEW p \in Posts, NEW x, NEW n \in Unsent(e)',
         Waits(e, n, p, x)'
  PROVE  \/ Waits(e, n, p, x)
         \/ e = d /\ \E k \in 1 .. Len(w) :
                        n = Len(puts[d]) + k /\ w[k].post = p /\ Names(w[k], x)
<1>1. puts'[e][n].post = p /\ Names(puts'[e][n], x)
  BY DEF Waits, Names
<1>2. CASE e # d
  BY <1>1, <1>2 DEF Added, Waits, Unsent
<1>3. CASE e = d
  <2>1. CASE n \in Unsent(d)
    <3>1. puts'[d][n] = puts[d][n]
      BY <2>1 DEF Added
    <3> QED BY <1>1, <1>3, <2>1, <3>1 DEF Waits
  <2>2. ASSUME NEW k \in 1 .. Len(w), n = Len(puts[d]) + k
        PROVE  w[k].post = p /\ Names(w[k], x)
    <3>1. puts'[d][n] = w[k]
      BY <2>2 DEF Added
    <3> QED BY <1>1, <1>3, <3>1
  <2> QED BY <1>3, <2>1, <2>2 DEF Added
<1> QED BY <1>2, <1>3

LEMMA SubmitSeen ==
  ASSUME TypeInv, TypeInv', SeenInv, NEW d \in Devices, SubmitText(d) \/ Delete(d)
  PROVE  SeenInv'
<1> USE DEF TypeInv
<1>1. PICK w : /\ Edits(w, screen[d].post, 0) /\ Enqueue(d, w)
               /\ \A k \in 1 .. Len(w) : w[k].kind \notin {"record", "image"}
  BY SubmitType
<1>2. /\ ScreenEdit(d, Closed) /\ UNCHANGED <<db, list, sent, uploads, repeated>>
  BY DEF SubmitText, Delete, ScreenEdit, remote, history
<1>3. Added(d, w) /\ Len(puts[d]) \in Nat
  BY <1>1, <1>2, AddedIs DEF Edits
<1>4. \A e \in Devices : screen'[e] = IF e = d THEN Closed ELSE screen[e]
  BY <1>2 DEF TypeOK, ScreenEdit
<1>5. ASSUME NEW e \in Devices, NEW p \in Posts, NEW x \in Image, Saw(e, p, x)'
      PROVE  Saw(e, p, x)
  <2>1. Shows(e, p, x)' => Shows(e, p, x)
    BY <1>2, <1>4, ClosedScreen, PostEditorAssumption DEF Shows
  <2> QED BY <1>2, <1>5, <2>1 DEF Saw, Replaces
<1>6. ASSUME NEW e \in Devices, NEW p \in Posts, NEW x \in Image,
             NEW n \in Unsent(e)', Waits(e, n, p, x)'
      PROVE  Waits(e, n, p, x)
  BY <1>1, <1>3, <1>6, AddedWaits DEF Names
<1>7. ASSUME NEW e \in Devices, NEW p \in Posts, NEW x \in Image,
             NEW n \in Unsent(e)', Waits(e, n, p, x)'
      PROVE  \E m \in Unsent(e) : Waits(e, m, p, x)
  BY <1>6, <1>7 DEF Waits
<1> QED BY <1>2, <1>5, <1>7, SeenKept

LEMMA SubmitImageSeen ==
  ASSUME TypeInv, SeenInv, NEW d \in Devices, SubmitImage(d)
  PROVE  SeenInv'
<1> USE DEF TypeInv
<1>1. PICK u : /\ uploads' = uploads \cup {u} /\ u.device = d
               /\ u.post = screen[d].post /\ u.old = screen[d].old
               /\ \A e \in Devices : /\ screen'[e].post = screen[e].post
                                     /\ screen'[e].old = screen[e].old
  BY SubmitImageIs
<1>2. UNCHANGED <<db, list, puts, sent, repeated>>
  BY DEF SubmitImage, remote
<1>3. ASSUME NEW e \in Devices, NEW p \in Posts, NEW x \in Image, Saw(e, p, x)'
      PROVE  Saw(e, p, x)
  <2>1. Shows(e, p, x)' => Shows(e, p, x)
    BY <1>1, <1>2 DEF Shows
  <2>2. u.device = e /\ Replaces(u, p, x) => Shows(e, p, x)
    BY <1>1 DEF Replaces, Shows
  <2>3. Shows(e, p, x)' \/ \E v \in uploads' : v.device = e /\ Replaces(v, p, x)
    BY <1>3 DEF Saw, Replaces
  <2> QED BY <1>1, <2>1, <2>2, <2>3 DEF Saw
<1> QED BY <1>2, <1>3, SameWaits, SeenKept

LEMMA EditSeen ==
  ASSUME TypeInv, SeenInv, NEW d \in Devices,
         \/ OpenNew(d) \/ \E p \in Posts : OpenEdit(d, p)
         \/ ImageLoaded(d) \/ ImageNotLoaded(d) \/ Pick(d) \/ Cancel(d)
         \/ TapOutside(d)
  PROVE  SeenInv'
<1> USE DEF TypeInv
<1>1. UNCHANGED <<db, list, puts, sent, uploads, repeated>>
  BY EditScreens DEF remote, network
<1>2. PICK s \in Screen :
         /\ ScreenEdit(d, s)
         /\ \/ s.old = screen[d].old /\ s.post = screen[d].post
            \/ s.post = NoPost /\ s.old = 0
            \/ s.post # NoPost /\ s.old = list[d][s.post]
  BY EditScreens
<1>3. \A e \in Devices : screen'[e] = IF e = d THEN s ELSE screen[e]
  BY <1>2 DEF TypeOK, ScreenEdit
<1>4. ASSUME NEW e \in Devices, NEW p \in Posts, NEW x \in Image, Saw(e, p, x)'
      PROVE  Saw(e, p, x)
  <2>1. Shows(e, p, x)' => Shows(e, p, x)
    BY <1>1, <1>2, <1>3, PostEditorAssumption DEF Shows
  <2> QED BY <1>1, <1>4, <2>1 DEF Saw, Replaces
<1> QED BY <1>1, <1>4, SameWaits, SeenKept

(* The write of the uploaded image is new to all.                          *)
LEMMA UploadedSeen ==
  ASSUME TypeInv, TypeInv', OwnInv, SeenInv, NEW u \in uploads, Uploaded(u)
  PROVE  SeenInv'
<1> USE DEF TypeInv
<1>1. PICK q \in Posts : \E w : Edits(w, q, u.image) /\ Enqueue(u.device, w)
  BY UploadedIs
<1>2. PICK w : Edits(w, q, u.image) /\ Enqueue(u.device, w)
  BY <1>1
<1>3. /\ UNCHANGED <<db, list, sent, repeated>> /\ uploads' = uploads \ {u}
      /\ screen' = screen \/ ScreenEdit(u.device, Closed)
  BY UploadedFrame DEF history
<1>4. Added(u.device, w) /\ Len(puts[u.device]) \in Nat /\ u.device \in Devices
  BY <1>2, <1>3, AddedIs, UploadFields DEF Edits
<1>5. \A e \in Devices : screen'[e] = screen[e] \/ screen'[e] = Closed
  BY <1>3, <1>4, ClosedScreen DEF TypeOK, ScreenEdit
<1>6. ASSUME NEW e \in Devices, NEW p \in Posts, NEW x \in Image, Saw(e, p, x)'
      PROVE  Saw(e, p, x)
  <2>1. Shows(e, p, x)' => Shows(e, p, x)
    BY <1>3, <1>5, ClosedScreen, PostEditorAssumption DEF Shows
  <2> QED BY <1>3, <1>6, <2>1 DEF Saw, Replaces
<1>7. ASSUME NEW e \in Devices, NEW p \in Posts, NEW x \in Image,
             NEW n \in Unsent(e)', Waits(e, n, p, x)'
      PROVE  Waits(e, n, p, x) \/ x = u.image
  <2>1. \A k \in 1 .. Len(w) : Names(w[k], x) => x = u.image
    BY <1>2 DEF Edits, Names
  <2> QED BY <1>4, <1>7, <2>1, AddedWaits
<1>8. \A p \in Posts : ~Named(p, u.image)
  BY DEF OwnInv, UploadsAreFresh
<1>9. ASSUME NEW p \in Posts \ repeated', NEW x \in Image, db'[p].image = x,
             NEW e \in Devices, NEW n \in Unsent(e)', Waits(e, n, p, x)'
      PROVE  FALSE
  <2>1. x # u.image
    BY <1>3, <1>8, <1>9 DEF Named
  <2>2. Waits(e, n, p, x) /\ n \in Unsent(e)
    BY <1>7, <1>9, <2>1 DEF Waits
  <2> QED BY <1>3, <1>9, <2>2 DEF SeenInv, LandedOnce
<1>10. ASSUME NEW p \in Posts \ repeated', NEW x \in Image, NEW d \in Devices,
              NEW e \in Devices, Saw(d, p, x)', NEW n \in Unsent(e)', Waits(e, n, p, x)'
       PROVE  d = e
  <2>1. Saw(d, p, x) /\ x # u.image
    BY <1>6, <1>8, <1>10, SawNamed
  <2>2. Waits(e, n, p, x) /\ n \in Unsent(e)
    BY <1>7, <1>10, <2>1 DEF Waits
  <2> QED BY <1>3, <2>1, <2>2 DEF SeenInv, SeenByOwner
<1>11. LandedOnce'
  BY <1>9 DEF LandedOnce
<1>12. SeenByOwner'
  BY <1>10 DEF SeenByOwner
<1> QED BY <1>11, <1>12 DEF SeenInv

LEMMA LandSeen ==
  ASSUME TypeInv, OwnInv, SeenInv, NEW d \in Devices, Land(d)
  PROVE  SeenInv'
<1> USE DEF TypeInv
<1>1. PICK n \in 1 .. Len(puts[d]) :
           /\ n = sent[d] + 1 /\ sent' = [sent EXCEPT ![d] = n]
           /\ db'[puts[d][n].post] = After(db[puts[d][n].post], puts[d][n])
           /\ \A p \in Posts \ {puts[d][n].post} : db'[p] = db[p]
  BY LandIs
<1>2. UNCHANGED <<screen, list, puts, uploads, repeated>>
  BY DEF Land, device, history
<1>3. /\ n \in Unsent(d)
      /\ \A e \in Devices : \A m \in Unsent(e)' : m \in Unsent(e)
      /\ \A m \in Unsent(d)' : m > n
  BY <1>1, <1>2, LandUnsent
<1>4. \A e \in Devices : \A p, x : \A m \in Unsent(e)' : Waits(e, m, p, x)' => Waits(e, m, p, x)
  BY <1>2, <1>3 DEF Waits, Names
<1>5. ASSUME NEW p \in Posts \ repeated, NEW x \in Image, db'[p].image = x,
             NEW e \in Devices, NEW m \in Unsent(e)', Waits(e, m, p, x)
      PROVE  FALSE
  <2>1. CASE db[p].image = x
    BY <1>5, <2>1 DEF SeenInv, LandedOnce, Waits
  <2>2. CASE p = puts[d][n].post /\ Names(puts[d][n], x)
    <3>1. Names(puts[e][m], x) /\ m \in 1 .. Len(puts[e])
      BY <1>5, UnsentNames DEF Waits
    <3>2. d = e /\ n = m
      BY <2>2, <3>1 DEF OwnInv, OneWrite
    <3>3. n \in Int /\ n > n
      BY <1>3, <1>5, <3>2
    <3> QED BY <3>3
  <2> QED BY <1>1, <1>5, <2>1, <2>2, LandImage
<1>6. LandedOnce'
  BY <1>2, <1>4, <1>5 DEF LandedOnce
<1>7. \A e \in Devices : \A p, x : Saw(e, p, x)' => Saw(e, p, x)
  BY <1>2 DEF Saw, Shows, Replaces
<1>8. ASSUME NEW p \in Posts \ repeated', NEW x \in Image, NEW f \in Devices,
              NEW e \in Devices, Saw(f, p, x)', NEW m \in Unsent(e)', Waits(e, m, p, x)'
       PROVE  f = e
  <2>1. Saw(f, p, x) /\ p \in Posts \ repeated
    BY <1>2, <1>7, <1>8
  <2>2. m \in Unsent(e) /\ Waits(e, m, p, x)
    BY <1>4, <1>8 DEF Waits
  <2> QED BY <2>1, <2>2 DEF SeenInv, SeenByOwner
<1>9. SeenByOwner'
  BY <1>8 DEF SeenByOwner
<1> QED BY <1>6, <1>9 DEF SeenInv

LEMMA AcknowledgeSeen ==
  ASSUME TypeInv, TypeInv', SeenInv, NEW d \in Devices, Acknowledge(d)
  PROVE  SeenInv'
<1> USE DEF TypeInv
<1>1. MovedUp(d)
  BY MovedUpIs
<1>2. UNCHANGED <<db, screen, list, uploads, repeated>>
  BY DEF Acknowledge, remote, device, history
<1>3. ASSUME NEW e \in Devices, NEW p \in Posts, NEW x \in Image,
             NEW n \in Unsent(e)', Waits(e, n, p, x)'
      PROVE  \E m \in Unsent(e) : Waits(e, m, p, x)
  <2>1. puts'[e][n].post = p /\ Names(puts'[e][n], x)
    BY <1>3 DEF Waits, Names
  <2>2. CASE e = d
    <3>1. n + 1 \in Unsent(d) /\ puts'[d][n] = puts[d][n + 1]
      BY <1>1, <1>3, <2>2 DEF MovedUp
    <3>2. Waits(d, n + 1, p, x)
      BY <2>1, <2>2, <3>1 DEF Waits
    <3> QED BY <2>2, <3>1, <3>2
  <2>3. CASE e # d
    <3>1. n \in Unsent(e) /\ puts'[e] = puts[e]
      BY <1>1, <1>3, <2>3 DEF MovedUp, Unsent
    <3> QED BY <2>1, <3>1 DEF Waits
  <2> QED BY <2>2, <2>3
<1>4. \A e \in Devices : \A p, x : Saw(e, p, x)' => Saw(e, p, x)
  BY <1>2 DEF Saw, Shows, Replaces
<1> QED BY <1>2, <1>3, <1>4, SeenKept

LEMMA DropSeen ==
  ASSUME TypeInv, SeenInv, NEW d \in Devices, Drop(d)
  PROVE  SeenInv'
<1> USE DEF TypeInv
<1>1. /\ puts' = puts /\ repeated \subseteq repeated'
      /\ \A e \in Devices : \A n \in Unsent(e)' :
           puts[e][n].post \notin repeated' => n \in Unsent(e)
  BY DropIs
<1>2. UNCHANGED <<db, screen, list, uploads>>
  BY DEF Drop, remote, device
<1>3. ASSUME NEW e \in Devices, NEW p \in Posts \ repeated', NEW x \in Image,
             NEW n \in Unsent(e)', Waits(e, n, p, x)'
      PROVE  \E m \in Unsent(e) : Waits(e, m, p, x)
  <2>1. puts[e][n].post = p /\ Names(puts[e][n], x)
    BY <1>1, <1>3 DEF Waits, Names
  <2> QED BY <1>1, <2>1 DEF Waits
<1>4. \A e \in Devices : \A p, x : Saw(e, p, x)' => Saw(e, p, x)
  BY <1>2 DEF Saw, Shows, Replaces
<1> QED BY <1>1, <1>2, <1>3, <1>4, SeenKept

LEMMA StopSeen ==
  ASSUME TypeInv, SeenInv, NEW d \in Devices, Stop(d)
  PROVE  SeenInv'
<1> USE DEF TypeInv
<1>1. /\ \A n : n \notin Unsent(d)'
      /\ \A e \in Devices \ {d} : puts'[e] = puts[e] /\ Unsent(e)' = Unsent(e)
  BY StopIs
<1>2. /\ UNCHANGED <<db, list, repeated>> /\ uploads' \subseteq uploads
      /\ ScreenEdit(d, Closed)
  BY DEF Stop, remote, ScreenEdit
<1>3. ASSUME NEW e \in Devices, NEW p \in Posts, NEW x \in Image,
             NEW n \in Unsent(e)', Waits(e, n, p, x)'
      PROVE  \E m \in Unsent(e) : Waits(e, m, p, x)
  <2>1. e # d
    BY <1>1
  <2>2. n \in Unsent(e) /\ puts'[e] = puts[e]
    BY <1>1, <2>1
  <2>3. puts'[e][n].post = p /\ Names(puts'[e][n], x)
    BY <1>3 DEF Waits, Names
  <2> QED BY <2>2, <2>3 DEF Waits
<1>4. \A e \in Devices : screen'[e] = IF e = d THEN Closed ELSE screen[e]
  BY <1>2 DEF TypeOK, ScreenEdit
<1>5. ASSUME NEW e \in Devices, NEW p \in Posts, NEW x \in Image, Saw(e, p, x)'
      PROVE  Saw(e, p, x)
  <2>1. Shows(e, p, x)' => Shows(e, p, x)
    BY <1>2, <1>4, ClosedScreen, PostEditorAssumption DEF Shows
  <2> QED BY <1>2, <1>5, <2>1 DEF Saw, Replaces
<1> QED BY <1>2, <1>3, <1>5, SeenKept

(* What a device comes to see has landed, or is its own.                   *)
LEMMA RefreshSeen ==
  ASSUME TypeInv, OwnInv, SeenInv, NEW d \in Devices, Refresh(d)
  PROVE  SeenInv'
<1> USE DEF TypeInv
<1>1. UNCHANGED <<db, puts, sent, uploads, repeated>>
  BY DEF Refresh, remote, network, history
<1>2. \A e \in Devices : \A n : \A p, x : Waits(e, n, p, x)' <=> Waits(e, n, p, x)
  BY <1>1 DEF Waits, Unsent, Names
<1>3. \A e \in Devices : Unsent(e)' = Unsent(e)
  BY <1>1 DEF Unsent
<1>4. LandedOnce'
  BY <1>1, <1>2, <1>3 DEF SeenInv, LandedOnce
<1>5. ASSUME NEW p \in Posts \ repeated, NEW x \in Image, NEW f \in Devices,
             NEW e \in Devices, Saw(f, p, x)', NEW n \in Unsent(e), Waits(e, n, p, x)
      PROVE  f = e
  <2>1. CASE Saw(f, p, x)
    BY <1>5, <2>1 DEF SeenInv, SeenByOwner
  <2>2. CASE db[p].image = x
    BY <1>5, <2>2 DEF SeenInv, LandedOnce
  <2>3. ASSUME f = d, NEW m \in 1 .. Len(puts[d]), Names(puts[d][m], x)
        PROVE  f = e
    <3>1. n \in 1 .. Len(puts[e]) /\ Names(puts[e][n], x)
      BY <1>5, UnsentNames DEF Waits
    <3> QED BY <2>3, <3>1 DEF OwnInv, OneWrite
  <2>4. Shows(f, p, x)' \/ Saw(f, p, x)
    BY <1>1, <1>5 DEF Saw, Replaces
  <2>5. Shows(f, p, x) => Saw(f, p, x)
    BY DEF Saw
  <2> QED BY <2>1, <2>2, <2>3, <2>4, <2>5, RefreshShows
<1>6. SeenByOwner'
  BY <1>1, <1>2, <1>3, <1>5 DEF SeenByOwner
<1> QED BY <1>4, <1>6 DEF SeenInv

LEMMA SeenStep ==
  ASSUME TypeInv, TypeInv', OwnInv, SeenInv, [Next]_vars
  PROVE  SeenInv'
<1> USE DEF TypeInv
<1>1. ASSUME NEW d \in Devices, Edit(d) PROVE SeenInv'
  <2>1. CASE SubmitText(d) \/ Delete(d)
    BY <2>1, SubmitSeen
  <2>2. CASE SubmitImage(d)
    BY <2>2, SubmitImageSeen
  <2>3. CASE \/ OpenNew(d) \/ \E p \in Posts : OpenEdit(d, p)
             \/ ImageLoaded(d) \/ ImageNotLoaded(d) \/ Pick(d) \/ Cancel(d)
             \/ TapOutside(d)
    BY <2>3, EditSeen
  <2> QED BY <1>1, <2>1, <2>2, <2>3 DEF Edit
<1>2. ASSUME NEW d \in Devices, Refresh(d) PROVE SeenInv'
  BY <1>2, RefreshSeen
<1>3. ASSUME NEW d \in Devices, Stop(d) PROVE SeenInv'
  BY <1>3, StopSeen
<1>4. ASSUME NEW u \in uploads, Uploaded(u) PROVE SeenInv'
  BY <1>4, UploadedSeen
<1>5. ASSUME UNCHANGED <<db, screen, list, puts, sent, repeated>>, uploads' \subseteq uploads
      PROVE  SeenInv'
  <2>1. \A e \in Devices : \A p, x : Saw(e, p, x)' => Saw(e, p, x)
    BY <1>5 DEF Saw, Shows, Replaces
  <2> QED BY <1>5, <2>1, SameWaits, SeenKept
<1>6. ASSUME NEW u \in uploads, NotUploaded(u) PROVE SeenInv'
  BY <1>5, <1>6 DEF NotUploaded, device
<1>7. ASSUME NEW d \in Devices, Land(d) PROVE SeenInv'
  BY <1>7, LandSeen
<1>8. ASSUME NEW d \in Devices, Acknowledge(d) PROVE SeenInv'
  BY <1>8, AcknowledgeSeen
<1>9. ASSUME NEW d \in Devices, Drop(d) PROVE SeenInv'
  BY <1>9, DropSeen
<1>10. ASSUME NEW i \in deletions, Deleted(i) PROVE SeenInv'
  BY <1>5, <1>10 DEF Deleted, device, history
<1>11. CASE UNCHANGED vars
  BY <1>5, <1>11 DEF vars, remote, device, network, history
<1> QED BY <1>1, <1>2, <1>3, <1>4, <1>6, <1>7, <1>8, <1>9, <1>10, <1>11
        DEF Next, Transfer

LEMMA SeenInit == Init => SeenInv
<1> SUFFICES ASSUME Init PROVE SeenInv
  OBVIOUS
<1>1. TypeInv
  BY TypeInit
<1>2. \A e \in Devices : \A n \in Unsent(e) : n \in 1 .. Len(puts[e])
  BY <1>1, UnsentIs DEF TypeInv
<1>3. Len(<<>>) = 0
  OBVIOUS
<1>4. \A e \in Devices : \A n : n \notin Unsent(e)
  BY <1>2, <1>3 DEF Init
<1> QED BY <1>4 DEF SeenInv, LandedOnce, SeenByOwner

-----------------------------------------------------------------------------
(* Images that are gone.                                                   *)

Doomed(x) ==
  (\A u \in uploads : u.image # x) /\ (x \notin storage \/ x \in deletions)

(* Another image of post p waits behind the n-th write of device d.        *)
Follows(d, n, p) ==
  \E m \in Unsent(d) : m > n /\ puts[d][m].post = p /\ puts[d][m].kind = "image"

ImageWaits(p) ==
  \E d \in Devices : \E n \in Unsent(d) : puts[d][n].post = p /\ puts[d][n].kind = "image"

(* A post has an image that is gone only until its next image lands, and   *)
(* a write that is to give it such an image is followed by another.        *)
Replaced ==
  \A p \in Posts \ (lost \cup repeated) : \A x \in Image :
    Doomed(x) /\ db[p].image = x => ImageWaits(p)

Overwritten ==
  \A p \in Posts \ (lost \cup repeated) : \A x \in Image : Doomed(x) =>
    \A d \in Devices : \A n \in Unsent(d) : Waits(d, n, p, x) => Follows(d, n, p)

DoomInv == Replaced /\ Overwritten

(* What is named is not doomed when it is still being uploaded.            *)
LEMMA DoomedImages ==
  ASSUME TypeInv, OwnInv, DoomInv, NEW p \in Posts, p \notin lost, p \notin repeated,
         db[p].image \in Image
  PROVE  db[p].image \in storage \/ ImageWaits(p)
<1> DEFINE x == db[p].image
<1>1. CASE \E u \in uploads : u.image = x
  <2>1. Named(p, x)
    BY DEF Named
  <2> QED BY <1>1, <2>1 DEF OwnInv, UploadsAreFresh
<1>2. CASE Doomed(x)
  BY <1>2 DEF DoomInv, Replaced
<1> QED BY <1>1, <1>2 DEF Doomed

LEMMA DoomKept ==
  ASSUME DoomInv, lost \subseteq lost', repeated \subseteq repeated',
         \A p \in Posts : db'[p].image = db[p].image,
         \A x \in Image : Doomed(x)' => Doomed(x),
         \A p \in Posts \ (lost' \cup repeated') : ImageWaits(p) => ImageWaits(p)',
         \A p \in Posts \ (lost' \cup repeated') : \A x \in Image : \A e \in Devices :
           \A n \in Unsent(e)' : Waits(e, n, p, x)' =>
             \E m \in Unsent(e) :
               /\ Waits(e, m, p, x)
               /\ Follows(e, m, p) => Follows(e, n, p)'
  PROVE  DoomInv'
<1>1. ASSUME NEW p \in Posts \ (lost' \cup repeated'), NEW x \in Image, Doomed(x)',
             db'[p].image = x
      PROVE  ImageWaits(p)'
  BY <1>1 DEF DoomInv, Replaced
<1>2. ASSUME NEW p \in Posts \ (lost' \cup repeated'), NEW x \in Image, Doomed(x)',
             NEW e \in Devices, NEW n \in Unsent(e)', Waits(e, n, p, x)'
      PROVE  Follows(e, n, p)'
  <2>1. PICK m \in Unsent(e) : /\ Waits(e, m, p, x)
                               /\ Follows(e, m, p) => Follows(e, n, p)'
    BY <1>2
  <2> QED BY <1>2, <2>1 DEF DoomInv, Overwritten
<1>3. Replaced'
  BY <1>1 DEF Replaced
<1>4. Overwritten'
  BY <1>2 DEF Overwritten
<1> QED BY <1>3, <1>4 DEF DoomInv

LEMMA SameDoom ==
  ASSUME DoomInv, UNCHANGED <<puts, sent, db, lost, repeated>>,
         \A x \in Image : Doomed(x)' => Doomed(x)
  PROVE  DoomInv'
<1>1. \A e \in Devices : \A n, p : Follows(e, n, p)' <=> Follows(e, n, p)
  BY DEF Follows, Unsent
<1>2. \A e \in Devices : \A n, p, x : Waits(e, n, p, x)' <=> Waits(e, n, p, x)
  BY DEF Waits, Unsent, Names
<1>3. \A p : ImageWaits(p)' <=> ImageWaits(p)
  BY DEF ImageWaits, Unsent
<1>4. \A e \in Devices : Unsent(e)' = Unsent(e)
  BY DEF Unsent
<1> QED BY <1>1, <1>2, <1>3, <1>4, DoomKept

(* Writes of no image are added.                                           *)
LEMMA SubmitDoom ==
  ASSUME TypeInv, TypeInv', DoomInv, NEW d \in Devices, SubmitText(d) \/ Delete(d)
  PROVE  DoomInv'
<1> USE DEF TypeInv
<1>1. PICK w : /\ Edits(w, screen[d].post, 0) /\ Enqueue(d, w)
               /\ \A k \in 1 .. Len(w) : w[k].kind \notin {"record", "image"}
  BY SubmitType
<1>2. UNCHANGED <<db, storage, sent, uploads, deletions, lost, repeated>>
  BY DEF SubmitText, Delete, remote, history
<1>3. Added(d, w) /\ Len(puts[d]) \in Nat
  BY <1>1, <1>2, AddedIs DEF Edits
<1>4. \A e \in Devices : \A n \in Unsent(e) : n \in Unsent(e)' /\ puts'[e][n] = puts[e][n]
  BY <1>3 DEF Added
<1>5. \A x \in Image : Doomed(x)' => Doomed(x)
  BY <1>2 DEF Doomed
<1>6. \A p : ImageWaits(p) => ImageWaits(p)'
  BY <1>4 DEF ImageWaits
<1>7. \A e \in Devices : \A n, p : Follows(e, n, p) => Follows(e, n, p)'
  BY <1>4 DEF Follows
<1>8. ASSUME NEW e \in Devices, NEW p \in Posts, NEW x \in Image,
             NEW n \in Unsent(e)', Waits(e, n, p, x)'
      PROVE  n \in Unsent(e) /\ Waits(e, n, p, x)
  BY <1>1, <1>3, <1>8, AddedWaits DEF Names, Waits
<1> QED BY <1>2, <1>5, <1>6, <1>7, <1>8, DoomKept

LEMMA SubmitImageDoom ==
  ASSUME TypeInv, DoomInv, NEW d \in Devices, SubmitImage(d)
  PROVE  DoomInv'
<1>1. UNCHANGED <<db, storage, puts, sent, deletions, lost, repeated>>
      /\ uploads \subseteq uploads'
  BY DEF SubmitImage, remote
<1>2. \A x \in Image : Doomed(x)' => Doomed(x)
  BY <1>1 DEF Doomed
<1> QED BY <1>1, <1>2, SameDoom

(* The image that is to be deleted is replaced by a write that comes last  *)
(* in the queue all writes that still name it are in.                      *)
LEMMA UploadedDoom ==
  ASSUME TypeInv, TypeInv', OwnInv, SeenInv, DoomInv, NEW u \in uploads, Uploaded(u)
  PROVE  DoomInv'
<1> USE DEF TypeInv
<1> DEFINE d == u.device
<1>a. PICK q \in Posts : \E w : /\ Edits(w, q, u.image) /\ Enqueue(d, w)
                                /\ AddsRecord(u, q, w) \/ AddsImage(u, q, w)
  BY UploadedIs
<1>1. PICK w : /\ Edits(w, q, u.image) /\ Enqueue(d, w)
               /\ AddsRecord(u, q, w) \/ AddsImage(u, q, w)
  BY <1>a
<1>2. /\ UNCHANGED <<db, sent, lost, repeated>> /\ uploads' = uploads \ {u}
      /\ storage' = storage \cup {u.image}
      /\ deletions' = IF u.post = NoPost THEN deletions ELSE deletions \cup {u.old}
  BY UploadedFrame DEF history
<1>3. Added(d, w) /\ Len(puts[d]) \in Nat /\ d \in Devices
  BY <1>1, <1>2, AddedIs, UploadFields DEF Edits
<1>4. \A e \in Devices : \A n \in Unsent(e) : n \in Unsent(e)' /\ puts'[e][n] = puts[e][n]
  BY <1>3 DEF Added
<1>5. \A p : ImageWaits(p) => ImageWaits(p)'
  BY <1>4 DEF ImageWaits
<1>6. \A e \in Devices : \A n, p : Follows(e, n, p) => Follows(e, n, p)'
  BY <1>4 DEF Follows
<1>7. /\ u.image \notin deletions /\ \A p \in Posts : ~Named(p, u.image)
      /\ u.post # NoPost => u.post \in Posts /\ Named(u.post, u.old) /\ u.image # u.old
                            /\ Saw(d, u.post, u.old)
  <2>1. u.image \notin deletions /\ \A p \in Posts : ~Named(p, u.image)
    BY DEF OwnInv, UploadsAreFresh
  <2>2. u.post # NoPost => u.post \in Posts /\ Named(u.post, u.old) /\ Saw(d, u.post, u.old)
    BY <1>3, UploadFields DEF Named, Replaces, Saw
  <2> QED BY <2>1, <2>2
<1>8. ASSUME NEW x \in Image, Doomed(x)'
      PROVE  /\ x # u.image
             /\ ~Doomed(x) => u.post # NoPost /\ x = u.old
  <2>1. x # u.image
    BY <1>2, <1>7, <1>8 DEF Doomed
  <2>2. \A v \in uploads : v.image # x
    BY <1>2, <1>8, <2>1 DEF Doomed
  <2>3. ~Doomed(x) => x \in storage /\ x \notin deletions
    BY <2>2 DEF Doomed
  <2> QED BY <1>2, <1>8, <2>1, <2>3 DEF Doomed
<1>9. ASSUME u.post # NoPost
      PROVE  \E m \in Unsent(d)' : /\ puts'[d][m].post = u.post
                                   /\ puts'[d][m].kind = "image"
                                   /\ m > Len(puts[d])
  <2>1. q = u.post /\ AddsImage(u, q, w)
    BY <1>1, <1>9 DEF AddsRecord, AddsImage
  <2>2. PICK k \in 1 .. Len(w) : w[k].kind = "image" /\ w[k].post = q
    BY <1>1, <2>1 DEF AddsImage, Edits
  <2> DEFINE m == Len(puts[d]) + k
  <2>3. m \in Unsent(d)' /\ puts'[d][m] = w[k]
    BY <1>3 DEF Added
  <2>4. m > Len(puts[d])
    BY <1>3
  <2> HIDE DEF m
  <2> QED BY <2>1, <2>2, <2>3, <2>4
<1>10. ASSUME NEW p \in Posts \ (lost' \cup repeated'), NEW x \in Image, Doomed(x)',
              db'[p].image = x
       PROVE  ImageWaits(p)'
  <2>1. CASE Doomed(x)
    BY <1>2, <1>5, <1>10, <2>1 DEF DoomInv, Replaced
  <2>2. CASE ~Doomed(x)
    <3>1. u.post # NoPost /\ x = u.old
      BY <1>8, <1>10, <2>2
    <3>2. p = u.post
      BY <1>2, <1>7, <1>10, <3>1 DEF Named, OwnInv, OnePost
    <3> QED BY <1>3, <1>9, <3>1, <3>2 DEF ImageWaits
  <2> QED BY <2>1, <2>2
<1>11. ASSUME NEW p \in Posts \ (lost' \cup repeated'), NEW x \in Image, Doomed(x)',
              NEW e \in Devices, NEW n \in Unsent(e)', Waits(e, n, p, x)'
       PROVE  Follows(e, n, p)'
  <2>1. Waits(e, n, p, x)
    <3>1. x # u.image
      BY <1>8, <1>11
    <3>2. \A k \in 1 .. Len(w) : ~Names(w[k], x)
      BY <1>1, <3>1 DEF Edits, Names
    <3> QED BY <1>3, <1>11, <3>2, AddedWaits
  <2>2. n \in Unsent(e) /\ Named(p, x)
    BY <2>1, UnsentNames DEF Waits
  <2>3. CASE Doomed(x)
    BY <1>2, <1>6, <1>11, <2>1, <2>2, <2>3 DEF DoomInv, Overwritten
  <2>4. CASE ~Doomed(x)
    <3>1. u.post # NoPost /\ x = u.old
      BY <1>8, <1>11, <2>4
    <3>2. p = u.post
      BY <1>7, <2>2, <3>1 DEF OwnInv, OnePost
    <3>3. e = d
      BY <1>2, <1>3, <1>7, <1>11, <2>1, <2>2, <3>1, <3>2 DEF SeenInv, SeenByOwner
    <3>4. n \in 1 .. Len(puts[d])
      BY <2>1, <3>3, UnsentNames
    <3>5. PICK m \in Unsent(d)' : /\ puts'[d][m].post = u.post
                                  /\ puts'[d][m].kind = "image"
                                  /\ m > Len(puts[d])
      BY <1>9, <3>1
    <3>6. m > n
      <4>1. m \in 1 .. Len(puts'[d]) /\ Len(puts'[d]) \in Nat
        BY <1>3, UnsentNext
      <4> QED BY <1>3, <3>4, <3>5, <4>1
    <3> QED BY <3>2, <3>3, <3>5, <3>6 DEF Follows
  <2> QED BY <2>3, <2>4
<1>12. Replaced'
  BY <1>10 DEF Replaced
<1>13. Overwritten'
  BY <1>11 DEF Overwritten
<1> QED BY <1>12, <1>13 DEF DoomInv

(* An upload that ends without its image leaves it doomed, but unnamed.    *)
LEMMA UnnamedDoom ==
  ASSUME TypeInv, OwnInv, NEW x \in Image, uploads' \subseteq uploads, deletions' = deletions,
         storage \subseteq storage', Doomed(x)', ~Doomed(x),
         NEW p \in Posts
  PROVE  ~Named(p, x)
BY DEF Doomed, OwnInv, UploadsAreFresh

LEMMA NotUploadedDoom ==
  ASSUME TypeInv, OwnInv, DoomInv, NEW u \in uploads, NotUploaded(u)
  PROVE  DoomInv'
<1> USE DEF TypeInv
<1>1. /\ UNCHANGED <<db, puts, sent, deletions, lost, repeated>>
      /\ uploads' \subseteq uploads /\ storage \subseteq storage'
  BY DEF NotUploaded
<1>2. \A e \in Devices : \A n, p : Follows(e, n, p)' <=> Follows(e, n, p)
  BY <1>1 DEF Follows, Unsent
<1>3. \A e \in Devices : \A n, p, x : Waits(e, n, p, x)' <=> Waits(e, n, p, x)
  BY <1>1 DEF Waits, Unsent, Names
<1>4. \A p : ImageWaits(p)' <=> ImageWaits(p)
  BY <1>1 DEF ImageWaits, Unsent
<1>5. \A e \in Devices : Unsent(e)' = Unsent(e)
  BY <1>1 DEF Unsent
<1>6. ASSUME NEW p \in Posts \ (lost \cup repeated), NEW x \in Image, Doomed(x)',
             db[p].image = x
      PROVE  ImageWaits(p)
  <2>1. Named(p, x)
    BY <1>6 DEF Named
  <2>2. Doomed(x)
    BY <1>1, <1>6, <2>1, UnnamedDoom
  <2> QED BY <1>6, <2>2 DEF DoomInv, Replaced
<1>7. ASSUME NEW p \in Posts \ (lost \cup repeated), NEW x \in Image, Doomed(x)',
             NEW e \in Devices, NEW n \in Unsent(e), Waits(e, n, p, x)
      PROVE  Follows(e, n, p)
  <2>1. Named(p, x)
    BY <1>7, UnsentNames
  <2>2. Doomed(x)
    BY <1>1, <1>7, <2>1, UnnamedDoom
  <2> QED BY <1>7, <2>2 DEF DoomInv, Overwritten
<1>8. Replaced'
  BY <1>1, <1>4, <1>6 DEF Replaced
<1>9. Overwritten'
  BY <1>1, <1>2, <1>3, <1>5, <1>7 DEF Overwritten
<1> QED BY <1>8, <1>9 DEF DoomInv

LEMMA StopDoom ==
  ASSUME TypeInv, OwnInv, DoomInv, NEW d \in Devices, Stop(d)
  PROVE  DoomInv'
<1> USE DEF TypeInv
<1>1. /\ \A n : n \notin Unsent(d)'
      /\ \A e \in Devices \ {d} : puts'[e] = puts[e] /\ Unsent(e)' = Unsent(e)
      /\ lost \subseteq lost'
      /\ \A n \in Unsent(d) : puts[d][n].post \in lost'
  BY StopIs
<1>2. /\ UNCHANGED <<db, storage, deletions, repeated>> /\ uploads' \subseteq uploads
  BY DEF Stop, remote
<1>3. ASSUME NEW p \in Posts \ (lost' \cup repeated'), NEW x \in Image, Doomed(x)',
             db'[p].image = x
      PROVE  ImageWaits(p)'
  <2>1. Named(p, x)
    BY <1>2, <1>3 DEF Named
  <2>2. Doomed(x)
    BY <1>2, <1>3, <2>1, UnnamedDoom
  <2>a. PICK e \in Devices : \E n \in Unsent(e) :
          puts[e][n].post = p /\ puts[e][n].kind = "image"
    BY <1>1, <1>2, <1>3, <2>2 DEF DoomInv, Replaced, ImageWaits
  <2>3. PICK n \in Unsent(e) : puts[e][n].post = p /\ puts[e][n].kind = "image"
    BY <2>a
  <2>4. e # d
    BY <1>1, <1>3, <2>3
  <2> QED BY <1>1, <2>3, <2>4 DEF ImageWaits
<1>4. ASSUME NEW p \in Posts \ (lost' \cup repeated'), NEW x \in Image, Doomed(x)',
             NEW e \in Devices, NEW n \in Unsent(e)', Waits(e, n, p, x)'
      PROVE  Follows(e, n, p)'
  <2>1. e # d
    BY <1>1, <1>4
  <2>2. puts'[e] = puts[e] /\ Unsent(e)' = Unsent(e)
    BY <1>1, <2>1
  <2>3. Waits(e, n, p, x) /\ n \in Unsent(e)
    BY <1>4, <2>2 DEF Waits, Names
  <2>4. Doomed(x)
    BY <1>2, <1>4, <2>3, UnsentNames, UnnamedDoom
  <2>5. Follows(e, n, p)
    BY <1>1, <1>2, <1>4, <2>3, <2>4 DEF DoomInv, Overwritten
  <2> QED BY <2>2, <2>5 DEF Follows
<1>5. Replaced'
  BY <1>3 DEF Replaced
<1>6. Overwritten'
  BY <1>4 DEF Overwritten
<1> QED BY <1>5, <1>6 DEF DoomInv

LEMMA LandDoom ==
  ASSUME TypeInv, DoomInv, NEW d \in Devices, Land(d)
  PROVE  DoomInv'
<1> USE DEF TypeInv
<1>1. PICK n \in 1 .. Len(puts[d]) :
           /\ n = sent[d] + 1 /\ sent' = [sent EXCEPT ![d] = n]
           /\ db'[puts[d][n].post] = After(db[puts[d][n].post], puts[d][n])
           /\ \A p \in Posts \ {puts[d][n].post} : db'[p] = db[p]
  BY LandIs
<1>2. UNCHANGED <<storage, puts, uploads, deletions, lost, repeated>>
  BY DEF Land, history
<1>3. /\ n \in Unsent(d)
      /\ \A e \in Devices : \A m \in Unsent(e)' : m \in Unsent(e)
      /\ \A e \in Devices : \A m \in Unsent(e) : m \in Unsent(e)' \/ (e = d /\ m = n)
      /\ \A m \in Unsent(d)' : m > n
      /\ \A m \in 1 .. Len(puts[d]) : m > n => m \in Unsent(d)'
  BY <1>1, <1>2, LandUnsent
<1>4. \A x : Doomed(x)' <=> Doomed(x)
  BY <1>2 DEF Doomed
<1>5. ASSUME NEW p \in Posts, Follows(d, n, p) PROVE ImageWaits(p)'
  <2>1. PICK m \in Unsent(d) : m > n /\ puts[d][m].post = p /\ puts[d][m].kind = "image"
    BY <1>5 DEF Follows
  <2>2. m \in 1 .. Len(puts[d])
    BY <2>1, UnsentIs
  <2>3. m \in Unsent(d)'
    BY <1>3, <2>1, <2>2
  <2> QED BY <1>2, <2>1, <2>3 DEF ImageWaits
<1>6. ASSUME NEW p \in Posts \ (lost \cup repeated), NEW x \in Image, Doomed(x),
             db'[p].image = x
      PROVE  ImageWaits(p)'
  <2>1. CASE /\ db[p].image = x
             /\ p = puts[d][n].post => puts[d][n].kind \notin {"record", "image"}
    <3>a. PICK e \in Devices : \E m \in Unsent(e) :
            puts[e][m].post = p /\ puts[e][m].kind = "image"
      BY <1>6, <2>1 DEF DoomInv, Replaced, ImageWaits
    <3>1. PICK m \in Unsent(e) : puts[e][m].post = p /\ puts[e][m].kind = "image"
      BY <3>a
    <3>2. m \in Unsent(e)'
      BY <1>3, <2>1, <3>1
    <3> QED BY <1>2, <3>1, <3>2 DEF ImageWaits
  <2>2. CASE p = puts[d][n].post /\ Names(puts[d][n], x)
    <3>1. Waits(d, n, p, x)
      BY <1>3, <2>2 DEF Waits
    <3> QED BY <1>3, <1>5, <1>6, <3>1 DEF DoomInv, Overwritten
  <2> QED BY <1>1, <1>6, <2>1, <2>2, LandImage
<1>7. ASSUME NEW p \in Posts \ (lost \cup repeated), NEW x \in Image, Doomed(x),
             NEW e \in Devices, NEW k \in Unsent(e)', Waits(e, k, p, x)'
      PROVE  Follows(e, k, p)'
  <2>1. Waits(e, k, p, x) /\ k \in Unsent(e)
    BY <1>2, <1>3, <1>7 DEF Waits, Names
  <2>2. Follows(e, k, p)
    BY <1>7, <2>1 DEF DoomInv, Overwritten
  <2>3. PICK m \in Unsent(e) : m > k /\ puts[e][m].post = p /\ puts[e][m].kind = "image"
    BY <2>2 DEF Follows
  <2>4. m \in Unsent(e)'
    <3>1. CASE e # d
      BY <1>3, <3>1
    <3>2. CASE e = d
      <4>1. k > n /\ m \in 1 .. Len(puts[d]) /\ k \in 1 .. Len(puts[d])
        BY <1>3, <1>7, <2>1, <3>2, UnsentIs
      <4>2. m > n
        BY <2>3, <4>1
      <4> QED BY <1>3, <3>2, <4>1, <4>2
    <3> QED BY <3>1, <3>2
  <2> QED BY <1>2, <2>3, <2>4 DEF Follows
<1>8. Replaced'
  BY <1>2, <1>4, <1>6 DEF Replaced
<1>9. Overwritten'
  BY <1>2, <1>4, <1>7 DEF Overwritten
<1> QED BY <1>8, <1>9 DEF DoomInv

LEMMA AcknowledgeDoom ==
  ASSUME TypeInv, TypeInv', DoomInv, NEW d \in Devices, Acknowledge(d)
  PROVE  DoomInv'
<1> USE DEF TypeInv
<1>1. MovedUp(d)
  BY MovedUpIs
<1>2. UNCHANGED <<db, storage, uploads, deletions, lost, repeated>>
  BY DEF Acknowledge, remote, history
<1>3. \A x : Doomed(x)' => Doomed(x)
  BY <1>2 DEF Doomed
<1>4. ASSUME NEW p \in Posts, ImageWaits(p) PROVE ImageWaits(p)'
  <2>a. PICK e \in Devices : \E m \in Unsent(e) :
          puts[e][m].post = p /\ puts[e][m].kind = "image"
    BY <1>4 DEF ImageWaits
  <2>1. PICK m \in Unsent(e) : puts[e][m].post = p /\ puts[e][m].kind = "image"
    BY <2>a
  <2>2. CASE e = d
    BY <1>1, <2>1, <2>2 DEF MovedUp, ImageWaits
  <2>3. CASE e # d
    <3>1. m \in Unsent(e)' /\ puts'[e] = puts[e]
      BY <1>1, <2>3 DEF MovedUp, Unsent
    <3> QED BY <2>1, <3>1 DEF ImageWaits
  <2> QED BY <2>2, <2>3
<1>5. ASSUME NEW p \in Posts, NEW x \in Image, NEW e \in Devices,
             NEW n \in Unsent(e)', Waits(e, n, p, x)'
      PROVE  \E m \in Unsent(e) : /\ Waits(e, m, p, x)
                                  /\ Follows(e, m, p) => Follows(e, n, p)'
  <2>1. puts'[e][n].post = p /\ Names(puts'[e][n], x)
    BY <1>5 DEF Waits, Names
  <2>2. CASE e = d
    <3>1. n + 1 \in Unsent(d) /\ puts'[d][n] = puts[d][n + 1] /\ n \in 1 .. Len(puts'[d])
      BY <1>1, <1>5, <2>2, UnsentNext DEF MovedUp
    <3>2. Waits(d, n + 1, p, x)
      BY <2>1, <2>2, <3>1 DEF Waits
    <3>3. ASSUME Follows(d, n + 1, p) PROVE Follows(d, n, p)'
      <4>1. PICK m \in Unsent(d) :
              m > n + 1 /\ puts[d][m].post = p /\ puts[d][m].kind = "image"
        BY <3>3 DEF Follows
      <4>2. m - 1 \in Unsent(d)' /\ puts'[d][m - 1] = puts[d][m]
        BY <1>1, <4>1 DEF MovedUp
      <4>3. m - 1 > n
        <5>1. m \in 1 .. Len(puts[d])
          BY <4>1, UnsentIs
        <5> QED BY <3>1, <4>1, <5>1
      <4> QED BY <4>1, <4>2, <4>3 DEF Follows
    <3> QED BY <2>2, <3>1, <3>2, <3>3
  <2>3. CASE e # d
    <3>1. n \in Unsent(e) /\ Unsent(e)' = Unsent(e) /\ puts'[e] = puts[e]
      BY <1>1, <1>5, <2>3 DEF MovedUp, Unsent
    <3>2. Waits(e, n, p, x)
      BY <2>1, <3>1 DEF Waits
    <3>3. Follows(e, n, p) => Follows(e, n, p)'
      BY <3>1 DEF Follows
    <3> QED BY <3>1, <3>2, <3>3
  <2> QED BY <2>2, <2>3
<1> QED BY <1>2, <1>3, <1>4, <1>5, DoomKept

LEMMA DropDoom ==
  ASSUME TypeInv, DoomInv, NEW d \in Devices, Drop(d)
  PROVE  DoomInv'
<1> USE DEF TypeInv
<1>1. /\ puts' = puts /\ repeated \subseteq repeated'
      /\ \A e \in Devices : \A n \in Unsent(e) : n \in Unsent(e)'
      /\ \A e \in Devices : \A n \in Unsent(e)' :
           puts[e][n].post \notin repeated' => n \in Unsent(e)
  BY DropIs
<1>2. UNCHANGED <<db, storage, uploads, deletions, lost>>
  BY DEF Drop, remote
<1>3. \A x : Doomed(x)' => Doomed(x)
  BY <1>2 DEF Doomed
<1>4. \A p : ImageWaits(p) => ImageWaits(p)'
  BY <1>1 DEF ImageWaits
<1>5. \A e \in Devices : \A n, p : Follows(e, n, p) => Follows(e, n, p)'
  BY <1>1 DEF Follows
<1>6. ASSUME NEW p \in Posts \ (lost' \cup repeated'), NEW x \in Image, NEW e \in Devices,
             NEW n \in Unsent(e)', Waits(e, n, p, x)'
      PROVE  n \in Unsent(e) /\ Waits(e, n, p, x)
  <2>1. puts[e][n].post = p /\ Names(puts[e][n], x)
    BY <1>1, <1>6 DEF Waits, Names
  <2> QED BY <1>1, <1>6, <2>1 DEF Waits
<1> QED BY <1>1, <1>2, <1>3, <1>4, <1>5, <1>6, DoomKept

LEMMA DoomStep ==
  ASSUME TypeInv, TypeInv', OwnInv, SeenInv, DoomInv, [Next]_vars
  PROVE  DoomInv'
<1> USE DEF TypeInv
<1>0. ASSUME UNCHANGED <<storage, uploads, deletions, puts, sent, db, lost, repeated>>
      PROVE  DoomInv'
  <2>1. \A x : Doomed(x)' => Doomed(x)
    BY <1>0 DEF Doomed
  <2> QED BY <1>0, <2>1, SameDoom
<1>1. ASSUME NEW d \in Devices, Edit(d) PROVE DoomInv'
  <2>1. CASE SubmitText(d) \/ Delete(d)
    BY <2>1, SubmitDoom
  <2>2. CASE SubmitImage(d)
    BY <2>2, SubmitImageDoom
  <2>3. CASE \/ OpenNew(d) \/ \E p \in Posts : OpenEdit(d, p)
             \/ ImageLoaded(d) \/ ImageNotLoaded(d) \/ Pick(d) \/ Cancel(d)
             \/ TapOutside(d)
    <3>1. UNCHANGED <<remote, network, lost, repeated>>
      BY <2>3, EditScreens
    <3> QED BY <1>0, <3>1 DEF remote, network
  <2> QED BY <1>1, <2>1, <2>2, <2>3 DEF Edit
<1>2. ASSUME NEW d \in Devices, Refresh(d) PROVE DoomInv'
  BY <1>0, <1>2 DEF Refresh, remote, network, history
<1>3. ASSUME NEW d \in Devices, Stop(d) PROVE DoomInv'
  BY <1>3, StopDoom
<1>4. ASSUME NEW u \in uploads, Uploaded(u) PROVE DoomInv'
  BY <1>4, UploadedDoom
<1>5. ASSUME NEW u \in uploads, NotUploaded(u) PROVE DoomInv'
  BY <1>5, NotUploadedDoom
<1>6. ASSUME NEW d \in Devices, Land(d) PROVE DoomInv'
  BY <1>6, LandDoom
<1>7. ASSUME NEW d \in Devices, Acknowledge(d) PROVE DoomInv'
  BY <1>7, AcknowledgeDoom
<1>8. ASSUME NEW d \in Devices, Drop(d) PROVE DoomInv'
  BY <1>8, DropDoom
<1>9. ASSUME NEW i \in deletions, Deleted(i) PROVE DoomInv'
  <2>1. /\ UNCHANGED <<db, puts, sent, uploads, lost, repeated>>
        /\ deletions' = deletions \ {i} /\ storage' \in {storage, storage \ {i}}
    BY <1>9 DEF Deleted, history
  <2>2. \A x : Doomed(x)' => Doomed(x)
    BY <2>1 DEF Doomed
  <2> QED BY <2>1, <2>2, SameDoom
<1>10. CASE UNCHANGED vars
  BY <1>0, <1>10 DEF vars, remote, network, history
<1> QED BY <1>1, <1>2, <1>3, <1>4, <1>5, <1>6, <1>7, <1>8, <1>9, <1>10
        DEF Next, Transfer

LEMMA DoomInit == Init => DoomInv
<1> SUFFICES ASSUME Init PROVE DoomInv
  OBVIOUS
<1>1. TypeInv
  BY TypeInit
<1>2. Len(<<>>) = 0
  OBVIOUS
<1>3. \A e \in Devices : \A n : n \notin Unsent(e)
  BY <1>1, <1>2, UnsentIs DEF TypeInv, Init
<1>4. \A p \in Posts : db[p].image \notin Image
  BY DEF Init, Absent, Image
<1> QED BY <1>3, <1>4 DEF DoomInv, Replaced, Overwritten

-----------------------------------------------------------------------------
(* Posts.                                                                  *)

PostInv == TypeInv /\ StampInv /\ StampedInv /\ OwnInv /\ SeenInv /\ DoomInv

LEMMA PostStep == PostInv /\ [Next]_vars => PostInv'
<1> SUFFICES ASSUME PostInv, [Next]_vars PROVE PostInv'
  OBVIOUS
<1>1. TypeInv'
  BY TypeStep DEF PostInv
<1>2. StampInv' /\ StampedInv'
  BY <1>1, StampStep DEF PostInv
<1>3. OwnInv'
  BY <1>1, OwnStep DEF PostInv
<1>4. SeenInv'
  BY <1>1, SeenStep DEF PostInv
<1>5. DoomInv'
  BY <1>1, DoomStep DEF PostInv
<1> QED BY <1>1, <1>2, <1>3, <1>4, <1>5 DEF PostInv

LEMMA PostsSound == PostInv => PostsAreSound
<1> SUFFICES ASSUME PostInv PROVE PostsAreSound
  OBVIOUS
<1>1. EveryChangeIsStamped
  BY StampedIs DEF PostInv
<1>2. ASSUME NEW p \in Posts \ (lost \cup repeated)
      PROVE  db[p].image \in storage \cup {0} \/ ImageWaits(p)
  <2>1. db[p].image \in Nat
    BY RecordFields DEF PostInv, TypeInv
  <2> QED BY <1>2, <2>1, DoomedImages DEF PostInv, Image
<1>3. ImagesNotDangling
  BY <1>2 DEF ImagesNotDangling, ImageWaits, Unsent
<1> QED BY <1>1, <1>3 DEF PostsAreSound

(* A post never refers to an image that is gone, unless its next one is on *)
(* its way or one of its writes was lost or sent twice; and a change is    *)
(* never without its stamp, unless a write was lost.                       *)
THEOREM PostsSoundAlways == Spec => []PostsAreSound
<1>1. Init => PostInv
  BY TypeInit, StampInit, OwnInit, SeenInit, DoomInit DEF PostInv
<1> QED BY <1>1, PostStep, PostsSound, PTL DEF Spec
=============================================================================
