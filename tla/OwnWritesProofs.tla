-------------------------- MODULE OwnWritesProofs --------------------------
(***************************************************************************)
(* Theorems of OwnWrites, for every number of posts, writes, taps, stops   *)
(* and repeated connections and for every offset of the device's clock.    *)
(*                                                                         *)
(* BaseInv puts the versions of a post in order: the tables' is not beyond *)
(* that of any event on its way, those are in order and not beyond the     *)
(* SDK's copy, and that is not beyond the database's.  CoverInv says that  *)
(* an event in which no estimate hides a post has, for every server stamp  *)
(* it shows, all that the database had stamped up to it; with it a         *)
(* watermark that is the server's leaves nothing behind.  OwnInv says what *)
(* comes out of the queue once it has been handled (Final): the SDK's view *)
(* of a post, and so the database's like of it when no write of the post   *)
(* is under way, because a like is always followed by the stamp that       *)
(* brings the post into the range of the query.                            *)
(***************************************************************************)
EXTENDS OwnWrites, SequenceTheorems, FiniteSetTheorems, WellFoundedInduction,
        TLAPS

-----------------------------------------------------------------------------
(* Numbers.  A function on a finite set has a greatest value.              *)
LEMMA Greatest ==
  ASSUME NEW S, IsFiniteSet(S), S # {}, NEW f \in [S -> Nat]
  PROVE  \E m \in S : \A k \in S : f[k] <= f[m]
<1> DEFINE Above(m) == {k \in S : f[k] > f[m]}
           T == {Above(m) : m \in S}
<1>1. \A U \in SUBSET S : IsFiniteSet(U)
  BY FS_Subset
<1>2. T \subseteq FiniteSubsetsOf(S) /\ T # {}
  <2>1. \A m \in S : Above(m) \in SUBSET S
    OBVIOUS
  <2> HIDE DEF Above
  <2>2. \A m \in S : Above(m) \in FiniteSubsetsOf(S)
    BY <1>1, <2>1 DEF FiniteSubsetsOf
  <2> QED BY <2>2
<1>3. PICK U \in T : \A V \in T : ~(<<V, U>> \in StrictSubsetOrdering(S))
  BY <1>2, FS_StrictSubsetOrderingWellFounded, WFMin
<1>4. PICK m \in S : U = Above(m)
  OBVIOUS
<1>5. \A k \in S : f[k] <= f[m]
  <2> SUFFICES ASSUME NEW k \in S, ~(f[k] <= f[m]) PROVE FALSE
    OBVIOUS
  <2>1. f[k] > f[m] /\ \A x \in S : f[x] \in Nat
    OBVIOUS
  <2>2. \A x \in S : f[x] > f[k] => f[x] > f[m]
    BY <2>1
  <2>3. k \in Above(m) /\ k \notin Above(k)
    BY <2>1
  <2>4. k \in U /\ k \notin Above(k) /\ Above(k) \subseteq U
    BY <1>4, <2>2, <2>3
  <2>5. <<Above(k), U>> \in StrictSubsetOrdering(S)
    BY <1>4, <2>4 DEF StrictSubsetOrdering
  <2> QED BY <1>3, <2>5
<1> QED BY <1>5

LEMMA MaxExists ==
  ASSUME NEW n \in Nat, NEW S \in SUBSET (1 .. n), S # {}
  PROVE  Max(S) \in S /\ \A m \in S : m <= Max(S)
<1>1. IsFiniteSet(S)
  <2>1. IsFiniteSet(1 .. n)
    BY FS_Interval
  <2> QED BY <2>1, FS_Subset
<1> DEFINE f == [k \in S |-> k]
<1>2. f \in [S -> Nat] /\ \A k \in S : f[k] = k
  OBVIOUS
<1> HIDE DEF f
<1>3. PICK m \in S : \A k \in S : f[k] <= f[m]
  BY <1>1, <1>2, Greatest
<1>4. m \in S /\ \A k \in S : m >= k
  BY <1>2, <1>3
<1>5. Max(S) \in S /\ \A k \in S : Max(S) >= k
  BY <1>4 DEF Max
<1> QED BY <1>5

-----------------------------------------------------------------------------
(* Sequences.                                                              *)
LEMMA ConcatIs ==
  ASSUME NEW S, NEW s \in Seq(S), NEW t \in Seq(S), NEW c, c = s \o t
  PROVE  /\ c \in Seq(S) /\ Len(s) \in Nat /\ Len(t) \in Nat
         /\ Len(c) = Len(s) + Len(t)
         /\ \A i \in 1 .. Len(s) : c[i] = s[i]
         /\ \A k \in 1 .. Len(t) : c[Len(s) + k] = t[k]
         /\ \A i \in 1 .. Len(c) : \/ i \in 1 .. Len(s)
                                   \/ \E k \in 1 .. Len(t) : i = Len(s) + k
<1>1. /\ s \o t \in Seq(S) /\ Len(s \o t) = Len(s) + Len(t)
      /\ \A i \in 1 .. Len(s) + Len(t) : (s \o t)[i] =
            IF i <= Len(s) THEN s[i] ELSE t[i - Len(s)]
  BY ConcatProperties
<1>2. Len(s) \in Nat /\ Len(t) \in Nat
  BY LenProperties
<1>3. \A i \in 1 .. Len(s) : c[i] = s[i]
  BY <1>1, <1>2
<1>4. ASSUME NEW k \in 1 .. Len(t) PROVE c[Len(s) + k] = t[k]
  <2>1. /\ Len(s) + k \in 1 .. Len(s) + Len(t) /\ ~(Len(s) + k <= Len(s))
        /\ (Len(s) + k) - Len(s) = k
    BY <1>2
  <2> QED BY <1>1, <2>1
<1>5. ASSUME NEW i \in 1 .. Len(c), i \notin 1 .. Len(s)
      PROVE  \E k \in 1 .. Len(t) : i = Len(s) + k
  <2>1. i - Len(s) \in 1 .. Len(t) /\ i = Len(s) + (i - Len(s))
    BY <1>1, <1>2, <1>5
  <2> QED BY <2>1
<1> QED BY <1>1, <1>2, <1>3, <1>4, <1>5

LEMMA AppendIs ==
  ASSUME NEW S, NEW s \in Seq(S), NEW x \in S, NEW c, c = Append(s, x)
  PROVE  /\ c \in Seq(S) /\ Len(s) \in Nat /\ Len(c) = Len(s) + 1
         /\ c[Len(s) + 1] = x /\ \A i \in 1 .. Len(s) : c[i] = s[i]
BY AppendProperties, LenProperties

LEMMA TailIs ==
  ASSUME NEW S, NEW s \in Seq(S), s # <<>>, NEW t, t = Tail(s)
  PROVE  /\ t \in Seq(S) /\ Len(s) \in Nat /\ Len(t) \in Nat
         /\ Len(s) = Len(t) + 1 /\ Head(s) = s[1] /\ Head(s) \in S
         /\ \A i \in 1 .. Len(t) : i + 1 \in 1 .. Len(s) /\ t[i] = s[i + 1]
<1>1. /\ t \in Seq(S) /\ Len(t) = Len(s) - 1 /\ Head(s) \in S
      /\ \A i \in 1 .. Len(t) : t[i] = s[i + 1]
  BY HeadTailProperties
<1>2. Len(s) \in Nat /\ Len(t) \in Nat /\ Head(s) = s[1]
  BY <1>1, LenProperties
<1> QED BY <1>1, <1>2

(* A sequence with its first n elements taken off.                         *)
LEMMA RestIs ==
  ASSUME NEW S, NEW s \in Seq(S), NEW n \in 0 .. Len(s),
         NEW t, t = SubSeq(s, n + 1, Len(s))
  PROVE  /\ t \in Seq(S) /\ Len(s) \in Nat /\ Len(t) = Len(s) - n
         /\ \A i \in 1 .. Len(t) : n + i \in 1 .. Len(s) /\ t[i] = s[n + i]
<1>1. Len(s) \in Nat /\ \A i \in 1 .. Len(s) : s[i] \in S
  BY LenProperties, ElementOfSeq
<1>2. n + 1 \in Int /\ Len(s) \in Int /\ \A i \in n + 1 .. Len(s) : s[i] \in S
  BY <1>1
<1>3. /\ t \in Seq(S) /\ Len(t) = IF n + 1 <= Len(s) THEN Len(s) - (n + 1) + 1 ELSE 0
      /\ \A i \in 1 .. Len(s) - (n + 1) + 1 : t[i] = s[(n + 1) + i - 1]
  BY <1>2, SubSeqProperties
<1>4. Len(t) = Len(s) - n
  BY <1>1, <1>3
<1>5. ASSUME NEW i \in 1 .. Len(t)
      PROVE  n + i \in 1 .. Len(s) /\ t[i] = s[n + i]
  <2>1. n + i \in 1 .. Len(s) /\ (n + 1) + i - 1 = n + i
    BY <1>1, <1>4
  <2>2. i \in 1 .. Len(s) - (n + 1) + 1
    BY <1>1, <1>4
  <2> QED BY <1>3, <2>1, <2>2
<1> QED BY <1>1, <1>3, <1>4, <1>5

(* The first n elements of a sequence.                                     *)
LEMMA FirstIs ==
  ASSUME NEW S, NEW s \in Seq(S), NEW n \in 0 .. Len(s),
         NEW t, t = SubSeq(s, 1, n)
  PROVE  /\ t \in Seq(S) /\ Len(s) \in Nat /\ Len(t) = n
         /\ DOMAIN t = 1 .. n
         /\ \A i \in 1 .. n : i \in 1 .. Len(s) /\ t[i] = s[i]
<1>1. Len(s) \in Nat /\ \A i \in 1 .. Len(s) : s[i] \in S
  BY LenProperties, ElementOfSeq
<1>2. \A i \in 1 .. n : s[i] \in S
  BY <1>1
<1>3. /\ t \in Seq(S) /\ Len(t) = IF 1 <= n THEN n - 1 + 1 ELSE 0
      /\ \A i \in 1 .. n - 1 + 1 : t[i] = s[1 + i - 1]
  BY <1>1, <1>2, SubSeqProperties
<1>4. Len(t) = n
  BY <1>1, <1>3
<1>5. \A i \in 1 .. n : i \in 1 .. Len(s) /\ t[i] = s[i]
  <2> TAKE i \in 1 .. n
  <2>1. i \in 1 .. n - 1 + 1 /\ 1 + i - 1 = i
    BY <1>1
  <2> QED BY <1>1, <1>3, <2>1
<1> QED BY <1>1, <1>3, <1>4, <1>5, LenProperties

-----------------------------------------------------------------------------
(* The view.                                                               *)

LEMMA PostIs ==
  ASSUME NEW v \in Post
  PROVE  v.ver \in Nat /\ v.ts \in Nat /\ v.like \in BOOLEAN
BY DEF Post

LEMMA PostsAre ==
  /\ Nothing \in Post /\ Nothing.ver = 0 /\ Nothing.ts = 0 /\ ~Nothing.like
  /\ None \in Posts /\ \A p \in PostIds : None[p] = Nothing
BY DEF Nothing, Post, None, Posts

LEMMA PutIs ==
  ASSUME NEW w \in Put
  PROVE  /\ w.kind \in {"like", "unlike", "stamp"} /\ w.post \in PostIds
         /\ w.estimate \in Nat
BY DEF Put

LEMMA NewPut ==
  ASSUME NEW kind \in {"like", "unlike", "stamp"}, NEW p \in PostIds,
         NEW estimate \in Nat
  PROVE  [kind |-> kind, post |-> p, estimate |-> estimate] \in Put
BY DEF Put

LEMMA OverlaidIs ==
  ASSUME NEW v \in Post, NEW p \in PostIds, NEW over \in Seq(Put)
  PROVE  /\ Overlaid(v, p, over) \in Post
         /\ Overlaid(v, p, over).ver = v.ver
         /\ (\A i \in 1 .. Len(over) : ~(over[i].post = p /\ over[i].kind = "stamp"))
              => Overlaid(v, p, over).ts = v.ts
         /\ (\A i \in 1 .. Len(over) : over[i].post # p) => Overlaid(v, p, over) = v
<1> DEFINE own    == {i \in DOMAIN over : over[i].post = p}
           likes  == {i \in own : over[i].kind # "stamp"}
           stamps == {i \in own : over[i].kind = "stamp"}
           ts     == IF stamps = {} THEN v.ts ELSE over[Max(stamps)].estimate
           like   == IF likes = {} THEN v.like
                     ELSE over[Max(likes)].kind = "like"
<1>1. Overlaid(v, p, over) = [ver |-> v.ver, ts |-> ts, like |-> like]
  BY DEF Overlaid
<1>2. DOMAIN over = 1 .. Len(over) /\ Len(over) \in Nat
  BY LenProperties
<1>3. v.ver \in Nat /\ v.ts \in Nat /\ v.like \in BOOLEAN
  BY PostIs
<1>4. ts \in Nat
  <2>1. CASE stamps = {}
    BY <1>3, <2>1
  <2>2. CASE stamps # {}
    <3>1. Max(stamps) \in 1 .. Len(over)
      BY <1>2, <2>2, MaxExists
    <3>2. over[Max(stamps)] \in Put
      BY <3>1, ElementOfSeq
    <3> QED BY <2>2, <3>2, PutIs
  <2> QED BY <2>1, <2>2
<1>5. like \in BOOLEAN
  BY <1>3
<1>6. (\A i \in 1 .. Len(over) : ~(over[i].post = p /\ over[i].kind = "stamp"))
         => ts = v.ts
  BY <1>2
<1>7. (\A i \in 1 .. Len(over) : over[i].post # p) => ts = v.ts /\ like = v.like
  BY <1>2
<1>8. v = [ver |-> v.ver, ts |-> v.ts, like |-> v.like]
  BY DEF Post
<1> HIDE DEF ts, like
<1>9. [ver |-> v.ver, ts |-> ts, like |-> like] \in Post
  BY <1>3, <1>4, <1>5 DEF Post
<1> QED BY <1>1, <1>6, <1>7, <1>8, <1>9

LEMMA InRangeIs ==
  ASSUME NEW v \in Post, NEW start \in Nat
  PROVE  /\ InRange(v, start) \in Post
         /\ v.ts >= start => InRange(v, start) = v
         /\ ~(v.ts >= start) => InRange(v, start) = Nothing
BY PostsAre DEF InRange

(* What the view shows of a post is the SDK's copy of it with this         *)
(* device's writes over it.                                                *)
LEMMA LaidIs ==
  ASSUME NEW K \in Posts, NEW over \in Seq(Put), from \in Nat
  PROVE  /\ Laid(K, over) \in Posts
         /\ \A p \in PostIds :
              /\ Laid(K, over)[p] \in Post /\ K[p] \in Post
              /\ Laid(K, over)[p] # Nothing =>
                   K[p] # Nothing /\ Laid(K, over)[p].ver = K[p].ver
              /\ (\A i \in 1 .. Len(over) :
                    ~(over[i].post = p /\ over[i].kind = "stamp"))
                 => /\ Laid(K, over)[p] # Nothing =>
                         Laid(K, over)[p].ts = K[p].ts
                    /\ from >= 1 /\ K[p].ts >= from => Laid(K, over)[p] # Nothing
              /\ (\A i \in 1 .. Len(over) : over[i].post # p) =>
                   /\ Laid(K, over)[p] # Nothing => Laid(K, over)[p] = K[p]
                   /\ from >= 1 /\ K[p].ts >= from => Laid(K, over)[p] = K[p]
<1>1. ASSUME NEW p \in PostIds
      PROVE  /\ K[p] \in Post
             /\ Laid(K, over)[p] = IF K[p] = Nothing THEN Nothing
                                   ELSE InRange(Overlaid(K[p], p, over), from)
  BY DEF Laid, Posts
<1>2. ASSUME NEW p \in PostIds
      PROVE  /\ Laid(K, over)[p] \in Post
             /\ Laid(K, over)[p] # Nothing =>
                  K[p] # Nothing /\ Laid(K, over)[p].ver = K[p].ver
             /\ (\A i \in 1 .. Len(over) :
                   ~(over[i].post = p /\ over[i].kind = "stamp"))
                => /\ Laid(K, over)[p] # Nothing => Laid(K, over)[p].ts = K[p].ts
                   /\ from >= 1 /\ K[p].ts >= from => Laid(K, over)[p] # Nothing
             /\ (\A i \in 1 .. Len(over) : over[i].post # p) =>
                  /\ Laid(K, over)[p] # Nothing => Laid(K, over)[p] = K[p]
                  /\ from >= 1 /\ K[p].ts >= from => Laid(K, over)[p] = K[p]
  <2>1. CASE K[p] = Nothing
    BY <1>1, <2>1, PostsAre
  <2>2. CASE K[p] # Nothing
    <3> DEFINE o == Overlaid(K[p], p, over)
    <3>1. /\ o \in Post /\ o.ver = K[p].ver
          /\ (\A i \in 1 .. Len(over) :
                ~(over[i].post = p /\ over[i].kind = "stamp")) => o.ts = K[p].ts
          /\ (\A i \in 1 .. Len(over) : over[i].post # p) => o = K[p]
      BY <1>1, OverlaidIs
    <3>2. Laid(K, over)[p] = InRange(o, from)
      BY <1>1, <2>2
    <3> HIDE DEF o
    <3>3. /\ InRange(o, from) \in Post
          /\ o.ts >= from => InRange(o, from) = o
          /\ ~(o.ts >= from) => InRange(o, from) = Nothing
      BY <3>1, InRangeIs
    <3>4. o.ts \in Nat /\ K[p].ts \in Nat
      BY <1>1, <3>1, PostIs
    <3>5. from >= 1 /\ o.ts >= from => o # Nothing
      BY <3>4, PostsAre
    <3>6. InRange(o, from) # Nothing => InRange(o, from) = o
      BY <3>3
    <3> QED BY <2>2, <3>1, <3>2, <3>3, <3>4, <3>5, <3>6
  <2> QED BY <2>1, <2>2
<1>3. Laid(K, over) \in Posts
  <2>1. Laid(K, over) = [p \in PostIds |-> Laid(K, over)[p]]
    BY DEF Laid
  <2> QED BY <1>2, <2>1 DEF Posts
<1> QED BY <1>1, <1>2, <1>3

(* The block an event of the view of K is.                                 *)
Raised(K, over) ==
  [kind |-> "event", guessed |-> Guessed({K}, over), posts |-> Laid(K, over)]

LEMMA NoEvents ==
  ASSUME NEW over, NEW over2 PROVE Events({}, over, {}, over2) = <<>>
BY DEF Events, View

LEMMA FirstEvent ==
  ASSUME NEW over, NEW over2, NEW K \in Posts
  PROVE  Events({}, over, {K}, over2) = <<Raised(K, over2)>>
<1>1. View({}, over) = {} /\ View({K}, over2) = {Laid(K, over2)}
  BY DEF View
<1>2. (CHOOSE posts \in View({K}, over2) : TRUE) = Laid(K, over2)
  BY <1>1
<1> QED BY <1>1, <1>2 DEF Events, Raised

LEMMA NextEvent ==
  ASSUME NEW over, NEW over2, NEW J \in Posts, NEW K \in Posts
  PROVE  /\ Laid(J, over) = Laid(K, over2) =>
              Events({J}, over, {K}, over2) = <<>>
         /\ Laid(J, over) # Laid(K, over2) =>
              Events({J}, over, {K}, over2) = <<Raised(K, over2)>>
<1>1. View({J}, over) = {Laid(J, over)} /\ View({K}, over2) = {Laid(K, over2)}
  BY DEF View
<1>2. (CHOOSE posts \in View({K}, over2) : TRUE) = Laid(K, over2)
  BY <1>1
<1>3. CASE Laid(J, over) = Laid(K, over2)
  <2>1. View({J}, over) = View({K}, over2)
    BY <1>1, <1>3
  <2> QED BY <1>3, <2>1 DEF Events
<1>4. CASE Laid(J, over) # Laid(K, over2)
  <2>1. View({J}, over) # View({K}, over2)
    BY <1>1, <1>4
  <2> QED BY <1>2, <1>4, <2>1 DEF Events, Raised
<1> QED BY <1>3, <1>4

LEMMA RaisedIs ==
  ASSUME NEW K \in Posts, NEW over \in Seq(Put), from \in Nat
  PROVE  /\ Raised(K, over) \in Block /\ Raised(K, over).kind = "event"
         /\ Raised(K, over).posts = Laid(K, over)
         /\ Raised(K, over).guessed \subseteq PostIds
         /\ \A p \in PostIds :
              p \in Raised(K, over).guessed <=>
                /\ K[p] # Nothing
                /\ \E i \in 1 .. Len(over) :
                     over[i].post = p /\ over[i].kind = "stamp"
<1>1. DOMAIN over = 1 .. Len(over)
  BY LenProperties
<1>2. \A p \in PostIds : p \in Guessed({K}, over) <=>
                /\ K[p] # Nothing
                /\ \E i \in 1 .. Len(over) :
                     over[i].post = p /\ over[i].kind = "stamp"
  BY <1>1 DEF Guessed
<1>3. Guessed({K}, over) \subseteq PostIds
  BY DEF Guessed
<1>4. Laid(K, over) \in Posts
  BY LaidIs
<1>5. Raised(K, over) \in Block
  BY <1>3, <1>4 DEF Raised, Block
<1> QED BY <1>2, <1>3, <1>5 DEF Raised

LEMMA BlockIs ==
  ASSUME NEW b \in Block
  PROVE  \/ b.kind = "event" /\ b.posts \in Posts /\ b.guessed \subseteq PostIds
         \/ b.kind = "removed" /\ b.post \in PostIds
BY DEF Block

(* The completions of the removals among the first n writes.               *)
LEMMA RemovalsAre ==
  ASSUME NEW done \in Seq(Put), NEW removals \in Removals(done)
  PROVE  /\ removals \in Seq(Block)
         /\ \A i \in 1 .. Len(removals) : removals[i].kind = "removed"
         /\ \A n \in 1 .. Len(done) : done[n].kind = "unlike" =>
              \E i \in 1 .. Len(removals) : removals[i].post = done[n].post
<1> DEFINE unlikes == {i \in DOMAIN done : done[i].kind = "unlike"}
           size == Cardinality(unlikes)
<1>1. DOMAIN done = 1 .. Len(done) /\ Len(done) \in Nat
  BY LenProperties
<1>2. IsFiniteSet(1 .. Len(done))
  BY <1>1, FS_Interval
<1>3. size \in Nat
  BY <1>1, <1>2, FS_Subset, FS_CardinalityType
<1>4. PICK order \in Ascending(unlikes) :
        removals = [i \in DOMAIN order |->
                      [kind |-> "removed", post |-> done[order[i]].post]]
  BY DEF Removals
<1> HIDE DEF size
<1>5. /\ order \in [1 .. size -> unlikes]
      /\ \A n \in unlikes : \E i \in 1 .. size : order[i] = n
  BY <1>4 DEF Ascending, size
<1>6. removals = [i \in 1 .. size |->
                    [kind |-> "removed", post |-> done[order[i]].post]]
  BY <1>4, <1>5
<1>7. \A i \in 1 .. size : /\ order[i] \in 1 .. Len(done)
                           /\ done[order[i]].post \in PostIds
  BY <1>1, <1>5, ElementOfSeq, PutIs
<1>8. \A i \in 1 .. size :
        [kind |-> "removed", post |-> done[order[i]].post] \in Block
  BY <1>7 DEF Block
<1>9. removals \in Seq(Block) /\ Len(removals) = size
  BY <1>3, <1>6, <1>8
<1>10. \A i \in 1 .. Len(removals) : /\ removals[i].kind = "removed"
                                     /\ removals[i].post = done[order[i]].post
  BY <1>6, <1>9
<1>11. ASSUME NEW n \in 1 .. Len(done), done[n].kind = "unlike"
       PROVE  \E i \in 1 .. Len(removals) : removals[i].post = done[n].post
  <2>1. PICK i \in 1 .. size : order[i] = n
    BY <1>1, <1>5, <1>11
  <2> QED BY <1>9, <1>10, <2>1
<1> QED BY <1>9, <1>10, <1>11

(* An event that shows anything has a newest post.                         *)
LEMMA NewestIs ==
  ASSUME NEW posts \in Posts, NEW n, n = NewestOf(posts), Delivered(posts) # {}
  PROVE  /\ n \in PostIds /\ posts[n] # Nothing
         /\ \A q \in PostIds : posts[q] # Nothing => posts[q].ts <= posts[n].ts
<1> DEFINE S == Delivered(posts)
           f == [q \in S |-> posts[q].ts]
<1>1. S \subseteq PostIds /\ IsFiniteSet(S)
  BY OwnWritesAssumption, FS_Subset DEF Delivered
<1>2. f \in [S -> Nat] /\ \A q \in S : f[q] = posts[q].ts
  BY <1>1, PostIs DEF Posts
<1> HIDE DEF f, S
<1>3. PICK m \in S : \A q \in S : f[q] <= f[m]
  BY <1>1, <1>2, Greatest DEF S
<1>4. \A q \in S : posts[q].ts <= posts[m].ts
  BY <1>2, <1>3
<1>5. n \in S /\ \A q \in S : posts[q].ts <= posts[n].ts
  BY <1>3, <1>4 DEF NewestOf, S
<1> QED BY <1>5 DEF S, Delivered

-----------------------------------------------------------------------------
(* Types.                                                                  *)

OneView == \A J, K \in known : J = K

TypeInv == TypeOK /\ OneView

LEMMA KnownIs ==
  ASSUME TypeInv
  PROVE  \/ known = {}
         \/ \E K \in Posts : known = {K}
BY DEF TypeInv, TypeOK, OneView

(* A sequence that is empty or has one block.                              *)
LEMMA OneBlock ==
  ASSUME NEW K \in Posts, NEW over \in Seq(Put), from \in Nat,
         NEW e, e = <<Raised(K, over)>>
  PROVE  e \in Seq(Block) /\ Len(e) = 1 /\ e[1] = Raised(K, over)
<1>1. Raised(K, over) \in Block
  BY RaisedIs
<1> QED BY <1>1

LEMMA EventsType ==
  ASSUME TypeInv, NEW over, NEW over2 \in Seq(Put)
  PROVE  /\ Events(known, over, known, over2) \in Seq(Block)
         /\ known = {} => Events(known, over, known, over2) = <<>>
         /\ \A K \in Posts : known = {K} =>
              /\ Laid(K, over) = Laid(K, over2) =>
                   Events(known, over, known, over2) = <<>>
              /\ Laid(K, over) # Laid(K, over2) =>
                   Events(known, over, known, over2) = <<Raised(K, over2)>>
<1>1. from \in Nat /\ <<>> \in Seq(Block)
  BY EmptySeq DEF TypeInv, TypeOK
<1>2. known = {} => Events(known, over, known, over2) = <<>>
  BY NoEvents
<1>3. ASSUME NEW K \in Posts, known = {K}
      PROVE  /\ Laid(K, over) = Laid(K, over2) =>
                  Events(known, over, known, over2) = <<>>
             /\ Laid(K, over) # Laid(K, over2) =>
                  Events(known, over, known, over2) = <<Raised(K, over2)>>
  BY <1>3, NextEvent
<1>4. ASSUME NEW K \in Posts, known = {K}
      PROVE  Events(known, over, known, over2) \in Seq(Block)
  BY <1>1, <1>3, <1>4, OneBlock
<1>5. Events(known, over, known, over2) \in Seq(Block)
  BY <1>1, <1>2, <1>4, KnownIs
<1> QED BY <1>2, <1>3, <1>5

LEMMA EstimateType == TypeOK => Estimate \subseteq Nat
BY DEF Estimate

(* What a tap does to the writes and the wire: one write, or a like and    *)
(* its stamp.                                                              *)
LEMMA TapPuts ==
  ASSUME TypeInv, NEW p \in PostIds, OnLikeSubmit(p)
  PROVE  \/ \E put \in Put :
              /\ put.kind = "unlike" /\ put.post = p
              /\ puts' = Append(puts, put)
              /\ wire' = wire \o Events(known, puts, known, Append(puts, put))
         \/ \E put \in Put, stamp \in Put :
              /\ put.kind = "like" /\ put.post = p
              /\ stamp.kind = "stamp" /\ stamp.post = p
              /\ puts' = Append(Append(puts, put), stamp)
              /\ wire' = (wire \o Events(known, puts, known, Append(puts, put)))
                   \o Events(known, Append(puts, put), known,
                             Append(Append(puts, put), stamp))
<1>1. CASE feedList[p].like
  <2> DEFINE put == [kind |-> "unlike", post |-> p, estimate |-> 0]
  <2>1. put \in Put /\ put.kind = "unlike" /\ put.post = p
    BY NewPut
  <2>2. /\ puts' = Append(puts, put)
        /\ wire' = wire \o Events(known, puts, known, Append(puts, put))
    BY <1>1 DEF OnLikeSubmit, RemoveLike, Set
  <2> QED BY <2>1, <2>2
<1>2. CASE ~feedList[p].like
  <2>1. AddLike(p)
    BY <1>2 DEF OnLikeSubmit
  <2>2. PICK estimate \in Estimate :
         LET one == Append(puts, [kind |-> "like", post |-> p, estimate |-> 0])
             two == Append(one, [kind |-> "stamp", post |-> p, estimate |-> estimate])
         IN /\ puts' = two
            /\ wire' = wire \o Events(known, puts, known, one)
                            \o Events(known, one, known, two)
    BY <2>1 DEF AddLike
  <2> DEFINE put == [kind |-> "like", post |-> p, estimate |-> 0]
             stamp == [kind |-> "stamp", post |-> p, estimate |-> estimate]
  <2>3. estimate \in Nat
    BY EstimateType DEF TypeInv
  <2>4. /\ put \in Put /\ put.kind = "like" /\ put.post = p
        /\ stamp \in Put /\ stamp.kind = "stamp" /\ stamp.post = p
    BY <2>3, NewPut
  <2>5. /\ puts' = Append(Append(puts, put), stamp)
        /\ wire' = (wire \o Events(known, puts, known, Append(puts, put)))
                   \o Events(known, Append(puts, put), known,
                             Append(Append(puts, put), stamp))
    BY <2>2
  <2> QED BY <2>4, <2>5
<1> QED BY <1>1, <1>2

LEMMA RemovedPuts ==
  ASSUME TypeInv, Removed
  PROVE  /\ wire # <<>> /\ Head(wire).kind = "removed"
         /\ Head(wire).post \in PostIds
         /\ \E stamp \in Put :
              /\ stamp.kind = "stamp" /\ stamp.post = Head(wire).post
              /\ puts' = Append(puts, stamp)
              /\ wire' = Tail(wire) \o Events(known, puts, known, puts')
<1>1. wire # <<>> /\ Head(wire).kind = "removed" /\ RemovedStamp(Head(wire).post)
  BY DEF Removed
<1>2. Head(wire).post \in PostIds
  BY <1>1, HeadTailProperties, BlockIs DEF TypeInv, TypeOK
<1>3. PICK estimate \in Estimate :
        LET more == Append(puts, [kind |-> "stamp", post |-> Head(wire).post,
                                  estimate |-> estimate])
        IN puts' = more /\ wire' = Tail(wire) \o Events(known, puts, known, more)
  BY <1>1 DEF RemovedStamp
<1> DEFINE stamp == [kind |-> "stamp", post |-> Head(wire).post,
                     estimate |-> estimate]
<1>4. estimate \in Nat
  BY EstimateType DEF TypeInv
<1>5. stamp \in Put /\ stamp.kind = "stamp" /\ stamp.post = Head(wire).post
  BY <1>2, <1>4, NewPut
<1>6. /\ puts' = Append(puts, stamp)
      /\ wire' = Tail(wire) \o Events(known, puts, known, puts')
  BY <1>3
<1> QED BY <1>1, <1>2, <1>5, <1>6

(* What the SDK has from the server after a Receive.                       *)
Heard == [p \in PostIds |-> InRange(server[p], from)]

LEMMA HeardIs ==
  ASSUME TypeOK
  PROVE  /\ Heard \in Posts
         /\ \A p \in PostIds :
              /\ server[p] \in Post
              /\ server[p].ts >= from => Heard[p] = server[p]
              /\ ~(server[p].ts >= from) => Heard[p] = Nothing
<1>1. from \in Nat /\ \A p \in PostIds : server[p] \in Post
  BY DEF TypeOK, Posts
<1>2. \A p \in PostIds :
        /\ Heard[p] \in Post
        /\ server[p].ts >= from => Heard[p] = server[p]
        /\ ~(server[p].ts >= from) => Heard[p] = Nothing
  BY <1>1, InRangeIs DEF Heard
<1> QED BY <1>1, <1>2 DEF Heard, Posts

(* The writes not yet acknowledged after a Receive.                        *)
Rest == SubSeq(puts, landed + 1, Len(puts))

LEMMA ReceiveIs ==
  ASSUME TypeInv, Receive
  PROVE  /\ up /\ known' = {Heard} /\ puts' = Rest /\ landed' = 0
         /\ \E removals \in Removals(SubSeq(puts, 1, landed)) :
              wire' = (wire \o Events(known, puts, {Heard}, Rest)) \o removals
         /\ UNCHANGED <<db, up, from, app, hole, lost, count>>
BY DEF Receive, Heard, Rest

LEMMA ReceiveEventsType ==
  ASSUME TypeInv
  PROVE  /\ Heard \in Posts /\ Rest \in Seq(Put)
         /\ Events(known, puts, {Heard}, Rest) \in Seq(Block)
         /\ known = {} =>
              Events(known, puts, {Heard}, Rest) = <<Raised(Heard, Rest)>>
         /\ \A K \in Posts : known = {K} =>
              /\ Laid(K, puts) = Laid(Heard, Rest) =>
                   Events(known, puts, {Heard}, Rest) = <<>>
              /\ Laid(K, puts) # Laid(Heard, Rest) =>
                   Events(known, puts, {Heard}, Rest) = <<Raised(Heard, Rest)>>
<1>1. /\ from \in Nat /\ puts \in Seq(Put) /\ landed \in 0 .. Len(puts)
      /\ <<>> \in Seq(Block)
  BY EmptySeq DEF TypeInv, TypeOK
<1>2. Heard \in Posts /\ Rest \in Seq(Put)
  BY <1>1, HeardIs, RestIs DEF TypeInv, Rest
<1>3. known = {} => Events(known, puts, {Heard}, Rest) = <<Raised(Heard, Rest)>>
  BY <1>2, FirstEvent
<1>4. ASSUME NEW K \in Posts, known = {K}
      PROVE  /\ Laid(K, puts) = Laid(Heard, Rest) =>
                  Events(known, puts, {Heard}, Rest) = <<>>
             /\ Laid(K, puts) # Laid(Heard, Rest) =>
                  Events(known, puts, {Heard}, Rest) = <<Raised(Heard, Rest)>>
  BY <1>2, <1>4, NextEvent
<1>5. \/ Events(known, puts, {Heard}, Rest) = <<>>
      \/ Events(known, puts, {Heard}, Rest) = <<Raised(Heard, Rest)>>
  BY <1>3, <1>4, KnownIs
<1>6. Events(known, puts, {Heard}, Rest) \in Seq(Block)
  BY <1>1, <1>2, <1>5, OneBlock
<1> QED BY <1>2, <1>3, <1>4, <1>6

(* The database after a write of this device.                              *)
LEMMA LandIs ==
  ASSUME TypeOK, Land, NEW put, put = puts[landed + 1]
  PROVE  /\ put \in Put /\ landed + 1 \in 1 .. Len(puts) /\ landed' = landed + 1
         /\ clock' \in Nat /\ server' \in Posts
         /\ put.kind = "stamp" => clock' > clock
         /\ put.kind # "stamp" => clock' = clock
         /\ server'[put.post].ver = server[put.post].ver
         /\ server'[put.post].ts =
              IF put.kind = "stamp" THEN clock' ELSE server[put.post].ts
         /\ put.kind = "stamp" => server'[put.post].like = server[put.post].like
         /\ \A p \in PostIds : p # put.post => server'[p] = server[p]
         /\ UNCHANGED <<up, from, known, puts, wire, app, hole, lost, count>>
<1>1. landed \in 0 .. Len(puts) /\ landed < Len(puts) /\ Len(puts) \in Nat
  BY LenProperties DEF Land, TypeOK
<1>2. put \in Put /\ landed + 1 \in 1 .. Len(puts)
  BY <1>1, ElementOfSeq DEF TypeOK
<1>3. /\ landed' = landed + 1
      /\ IF put.kind = "stamp" THEN \E d \in Deltas : clock' = clock + d
                               ELSE clock' = clock
      /\ server' = [server EXCEPT ![put.post] = After(server[put.post], put, clock')]
      /\ UNCHANGED <<up, from, known, puts, wire, app, hole, lost, count>>
  BY DEF Land
<1>4. /\ clock' \in Nat
      /\ put.kind = "stamp" => clock' > clock
      /\ put.kind # "stamp" => clock' = clock
  <2>1. IF put.kind = "stamp" THEN \E d \in Deltas : clock' = clock + d
                              ELSE clock' = clock
    BY <1>3
  <2>2. clock \in Nat /\ \A d \in Deltas : d \in Nat /\ d > 0
    BY OwnWritesAssumption DEF TypeOK
  <2>3. CASE put.kind = "stamp"
    <3>1. PICK d \in Deltas : clock' = clock + d
      BY <2>1, <2>3
    <3>2. d \in Nat /\ d > 0
      BY <2>2
    <3> QED BY <2>2, <2>3, <3>1, <3>2
  <2>4. CASE put.kind # "stamp"
    BY <2>1, <2>2, <2>4
  <2> QED BY <2>3, <2>4
<1>5. put.post \in PostIds /\ put.kind \in {"like", "unlike", "stamp"}
  BY <1>2, PutIs
<1>6. server \in [PostIds -> Post] /\ server[put.post] \in Post
  BY <1>5 DEF TypeOK, Posts
<1> DEFINE a == After(server[put.post], put, clock')
<1>7. /\ a \in Post /\ a.ver = server[put.post].ver
      /\ a.ts = IF put.kind = "stamp" THEN clock' ELSE server[put.post].ts
      /\ put.kind = "stamp" => a.like = server[put.post].like
  <2>1. CASE put.kind = "like"
    BY <1>4, <1>6, <2>1 DEF After, Post
  <2>2. CASE put.kind = "unlike"
    BY <1>4, <1>6, <2>2 DEF After, Post
  <2>3. CASE put.kind = "stamp"
    BY <1>4, <1>6, <2>3 DEF After, Post
  <2> QED BY <1>5, <2>1, <2>2, <2>3
<1>8. server' = [server EXCEPT ![put.post] = a]
  BY <1>3
<1> HIDE DEF a
<1>9. /\ server' \in Posts /\ server'[put.post] = a
      /\ \A p \in PostIds : p # put.post => server'[p] = server[p]
  BY <1>5, <1>6, <1>7, <1>8 DEF Posts
<1> QED BY <1>2, <1>3, <1>4, <1>7, <1>9

LEMMA WriteIs ==
  ASSUME TypeOK, NEW p \in PostIds, Write(p)
  PROVE  /\ clock' \in Nat /\ clock' > clock /\ server' \in Posts
         /\ server'[p].ver = server[p].ver + 1 /\ server'[p].ts = clock'
         /\ server'[p].like = server[p].like
         /\ \A q \in PostIds : q # p => server'[q] = server[q]
         /\ UNCHANGED <<up, sdk, wire, app, hole, lost, taps, stops, drops>>
<1>1. clock' \in Nat /\ clock' > clock
  BY OwnWritesAssumption, SMTT(30) DEF Write, TypeOK
<1>2. server \in [PostIds -> Post] /\ server[p] \in Post
  BY DEF TypeOK, Posts
<1> DEFINE v == [ver |-> server[p].ver + 1, ts |-> clock', like |-> server[p].like]
<1>3. /\ v \in Post /\ v.ver = server[p].ver + 1 /\ v.ts = clock'
      /\ v.like = server[p].like
  BY <1>1, <1>2 DEF Post
<1>4. server' = [server EXCEPT ![p] = v]
  BY DEF Write
<1> HIDE DEF v
<1>5. /\ server' \in Posts /\ server'[p] = v
      /\ \A q \in PostIds : q # p => server'[q] = server[q]
  BY <1>2, <1>3, <1>4 DEF Posts
<1> QED BY <1>1, <1>3, <1>5 DEF Write

LEMMA StoreIs ==
  ASSUME TypeOK, NEW posts \in Posts, Store(posts)
  PROVE  /\ rows' \in Posts
         /\ \A p \in PostIds :
              rows'[p] = IF posts[p] # Nothing THEN posts[p] ELSE rows[p]
BY DEF Store, TypeOK, Posts

(* What the callback of an event does, with e for the event.               *)
LEMMA EventIs ==
  ASSUME TypeInv, Event, NEW e, e = Head(wire)
  PROVE  /\ wire # <<>> /\ wire' = Tail(wire)
         /\ e \in Block /\ e.kind = "event" /\ e.posts \in Posts
         /\ Store(e.posts) /\ rows' \in Posts
         /\ lud' \in Nat /\ claim' \in {"server", "estimate"} /\ feedList' \in Posts
         /\ \/ UNCHANGED <<lud, claim, feedList>>
            \/ \E n \in PostIds :
                 /\ e.posts[n] # Nothing /\ lud' = e.posts[n].ts
                 /\ claim' = IF \E p \in e.guessed : p = n \/ e.posts[p] = Nothing
                             THEN "estimate" ELSE "server"
         /\ UNCHANGED <<db, up, sdk, hole, lost, count>>
<1>1. /\ wire # <<>> /\ wire' = Tail(wire) /\ e.kind = "event" /\ Store(e.posts)
      /\ UNCHANGED <<db, up, sdk, hole, lost, count>>
  BY DEF Event
<1>2. e \in Block /\ e.posts \in Posts
  BY <1>1, HeadTailProperties, BlockIs DEF TypeInv, TypeOK
<1>3. rows' \in Posts
  BY <1>1, <1>2, StoreIs DEF TypeInv
<1>4. PICK seen \in GetLastUpdate :
        IF \E p \in PostIds : e.posts[p].ts > seen + 1
        THEN /\ lud' = e.posts[NewestOf(e.posts)].ts
             /\ claim' = IF \E p \in e.guessed :
                              p = NewestOf(e.posts) \/ e.posts[p] = Nothing
                         THEN "estimate" ELSE "server"
             /\ feedList' = rows'
        ELSE UNCHANGED <<lud, claim, feedList>>
  BY DEF Event
<1>5. seen \in Nat
  BY DEF GetLastUpdate, TypeInv, TypeOK
<1>6. CASE \E p \in PostIds : e.posts[p].ts > seen + 1
  <2>1. PICK p \in PostIds : e.posts[p].ts > seen + 1
    BY <1>6
  <2>2. e.posts[p] # Nothing
    BY <1>2, <1>5, <2>1, PostsAre, PostIs DEF Posts
  <2>3. Delivered(e.posts) # {}
    BY <2>2 DEF Delivered
  <2> DEFINE n == NewestOf(e.posts)
  <2>4. n \in PostIds /\ e.posts[n] # Nothing
    BY <1>2, <2>3, NewestIs
  <2>5. /\ lud' = e.posts[n].ts
        /\ claim' = IF \E q \in e.guessed : q = n \/ e.posts[q] = Nothing
                    THEN "estimate" ELSE "server"
        /\ feedList' = rows'
    BY <1>4, <1>6
  <2> HIDE DEF n
  <2>6. e.posts[n].ts \in Nat
    BY <1>2, <2>4, PostIs DEF Posts
  <2> QED BY <1>1, <1>2, <1>3, <2>4, <2>5, <2>6
<1>7. CASE ~\E p \in PostIds : e.posts[p].ts > seen + 1
  <2>1. UNCHANGED <<lud, claim, feedList>>
    BY <1>4, <1>7
  <2>2. lud \in Nat /\ claim \in {"server", "estimate"} /\ feedList \in Posts
    BY DEF TypeInv, TypeOK
  <2> QED BY <1>1, <1>2, <1>3, <2>1, <2>2
<1> QED BY <1>6, <1>7

LEMMA TypeInit == Init => TypeInv
<1> SUFFICES ASSUME Init PROVE TypeInv
  OBVIOUS
<1>0. <<>> \in Seq(Put) /\ <<>> \in Seq(Block) /\ Len(<<>>) = 0
  BY EmptySeq
<1>a. None \in Posts
  BY PostsAre
<1>1. TypeOK
  <2>1. server \in Posts /\ rows \in Posts /\ feedList \in Posts
    BY <1>a DEF Init
  <2>2. puts \in Seq(Put) /\ wire \in Seq(Block) /\ landed \in 0 .. Len(puts)
    BY <1>0 DEF Init
  <2>3. /\ clock \in Nat /\ up \in BOOLEAN /\ from \in Nat /\ known \subseteq Posts
        /\ lud \in Nat /\ claim \in {"server", "estimate"} /\ hole \in BOOLEAN
        /\ lost \subseteq PostIds /\ writes \in Nat /\ taps \in Nat
        /\ stops \in Nat /\ drops \in Nat
    BY DEF Init
  <2> QED BY <2>1, <2>2, <2>3 DEF TypeOK
<1> QED BY <1>1 DEF TypeInv, OneView, Init

LEMMA TypeStep == TypeInv /\ [Next]_vars => TypeInv'
<1> SUFFICES ASSUME TypeInv, [Next]_vars PROVE TypeInv'
  OBVIOUS
<1>a. puts \in Seq(Put) /\ wire \in Seq(Block) /\ TypeOK
  BY DEF TypeInv, TypeOK
<1>1. ASSUME NEW p \in PostIds, OnLikeSubmit(p) PROVE TypeInv'
  <2>1. puts' \in Seq(Put) /\ wire' \in Seq(Block)
    <3>1. CASE \E put \in Put :
                 /\ put.kind = "unlike" /\ put.post = p
                 /\ puts' = Append(puts, put)
                 /\ wire' = wire \o Events(known, puts, known, Append(puts, put))
      <4>1. PICK put \in Put :
                 /\ puts' = Append(puts, put)
                 /\ wire' = wire \o Events(known, puts, known, Append(puts, put))
        BY <3>1
      <4>2. Append(puts, put) \in Seq(Put)
        BY <1>a, AppendIs
      <4>3. Events(known, puts, known, Append(puts, put)) \in Seq(Block)
        BY <4>2, EventsType
      <4> QED BY <1>a, <4>1, <4>2, <4>3, ConcatIs
    <3>2. CASE \E put \in Put, stamp \in Put :
              /\ put.kind = "like" /\ put.post = p
              /\ stamp.kind = "stamp" /\ stamp.post = p
              /\ puts' = Append(Append(puts, put), stamp)
              /\ wire' = (wire \o Events(known, puts, known, Append(puts, put)))
                   \o Events(known, Append(puts, put), known,
                             Append(Append(puts, put), stamp))
      <4>1. PICK put \in Put, stamp \in Put :
              /\ puts' = Append(Append(puts, put), stamp)
              /\ wire' = (wire \o Events(known, puts, known, Append(puts, put)))
                   \o Events(known, Append(puts, put), known,
                             Append(Append(puts, put), stamp))
        BY <3>2
      <4>2. Append(puts, put) \in Seq(Put)
        BY <1>a, AppendIs
      <4>3. Append(Append(puts, put), stamp) \in Seq(Put)
        BY <4>2, AppendIs
      <4>4. Events(known, puts, known, Append(puts, put)) \in Seq(Block)
        BY <4>2, EventsType
      <4>5. Events(known, Append(puts, put), known,
                   Append(Append(puts, put), stamp)) \in Seq(Block)
        BY <4>3, EventsType
      <4>6. (wire \o Events(known, puts, known, Append(puts, put))) \in Seq(Block)
        BY <1>a, <4>4, ConcatIs
      <4>7. wire' \in Seq(Block)
        BY <4>1, <4>5, <4>6, ConcatIs
      <4> QED BY <4>1, <4>3, <4>7
    <3> QED BY <1>1, <3>1, <3>2, TapPuts
  <2>2. /\ taps' \in Nat
        /\ UNCHANGED <<db, up, from, known, landed, app, hole, lost, writes,
                       stops, drops>>
    BY <1>1, <1>a DEF OnLikeSubmit, TypeOK
  <2>3. Len(puts') \in Nat /\ Len(puts) \in Nat /\ Len(puts') >= Len(puts)
    <3>1. \A put \in Put : Len(Append(puts, put)) = Len(puts) + 1
      BY <1>a, AppendIs
    <3>2. \A put \in Put, stamp \in Put :
            Len(Append(Append(puts, put), stamp)) = Len(puts) + 2
      <4> TAKE put \in Put, stamp \in Put
      <4>1. Append(puts, put) \in Seq(Put) /\ Len(puts) \in Nat
        BY <1>a, AppendIs
      <4>2. Len(Append(Append(puts, put), stamp)) = Len(Append(puts, put)) + 1
        BY <4>1, AppendIs
      <4> QED BY <3>1, <4>1, <4>2
    <3>3. Len(puts) \in Nat
      BY <1>a, LenProperties
    <3>4. \/ Len(puts') = Len(puts) + 1
          \/ Len(puts') = Len(puts) + 2
      BY <1>1, <3>1, <3>2, TapPuts
    <3> QED BY <3>3, <3>4
  <2>4. landed' \in 0 .. Len(puts')
    BY <1>a, <2>2, <2>3 DEF TypeOK
  <2> QED BY <1>a, <2>1, <2>2, <2>4 DEF TypeInv, TypeOK, OneView, db, app
<1>2. ASSUME NEW p \in PostIds, Write(p) PROVE TypeInv'
  <2>1. writes' \in Nat
    BY <1>2, <1>a DEF Write, TypeOK
  <2> QED BY <1>2, <1>a, <2>1, WriteIs
          DEF TypeInv, TypeOK, OneView, db, sdk, app, count
<1>3. CASE Removed
  <2>1. PICK stamp \in Put :
          /\ puts' = Append(puts, stamp)
          /\ wire' = Tail(wire) \o Events(known, puts, known, puts')
    BY <1>3, RemovedPuts
  <2>2. puts' \in Seq(Put) /\ Len(puts') = Len(puts) + 1 /\ Len(puts) \in Nat
    BY <1>a, <2>1, AppendIs
  <2>3. Tail(wire) \in Seq(Block)
    BY <1>3, <1>a, TailIs DEF Removed
  <2>4. wire' \in Seq(Block)
    <3>1. Events(known, puts, known, puts') \in Seq(Block)
      BY <2>2, EventsType
    <3> QED BY <2>1, <2>3, <3>1, ConcatIs
  <2>5. UNCHANGED <<db, up, from, known, landed, app, hole, lost, count>>
    BY <1>3 DEF Removed
  <2>6. landed' \in 0 .. Len(puts')
    BY <1>a, <2>2, <2>5 DEF TypeOK
  <2> QED BY <1>a, <2>2, <2>4, <2>5, <2>6 DEF TypeInv, TypeOK, OneView, db, app, count
<1>4. CASE Event
  <2> DEFINE e == Head(wire)
  <2>1. /\ wire # <<>> /\ wire' = Tail(wire) /\ rows' \in Posts
        /\ lud' \in Nat /\ claim' \in {"server", "estimate"} /\ feedList' \in Posts
        /\ UNCHANGED <<db, up, sdk, hole, lost, count>>
    BY <1>4, EventIs
  <2>2. wire' \in Seq(Block)
    BY <1>a, <2>1, TailIs
  <2> QED BY <1>a, <2>1, <2>2 DEF TypeInv, TypeOK, OneView, db, sdk, count
<1>5. CASE Land
  <2>1. landed' \in 0 .. Len(puts)
    BY <1>5, <1>a DEF Land, TypeOK
  <2> QED BY <1>5, <1>a, <2>1, LandIs DEF TypeInv, TypeOK, OneView, db, app, count
<1>6. CASE Receive
  <2>1. /\ known' = {Heard} /\ puts' = Rest /\ landed' = 0
        /\ UNCHANGED <<db, up, from, app, hole, lost, count>>
    BY <1>6, ReceiveIs
  <2>2. Heard \in Posts /\ Rest \in Seq(Put)
    BY ReceiveEventsType
  <2>3. wire' \in Seq(Block)
    <3>1. PICK removals \in Removals(SubSeq(puts, 1, landed)) :
            wire' = (wire \o Events(known, puts, {Heard}, Rest)) \o removals
      BY <1>6, ReceiveIs
    <3>2. Events(known, puts, {Heard}, Rest) \in Seq(Block)
      BY ReceiveEventsType
    <3>3. SubSeq(puts, 1, landed) \in Seq(Put)
      BY <1>a, FirstIs DEF TypeOK
    <3>4. removals \in Seq(Block)
      BY <3>3, RemovalsAre
    <3>5. wire \o Events(known, puts, {Heard}, Rest) \in Seq(Block)
      BY <1>a, <3>2, ConcatIs
    <3> QED BY <3>1, <3>4, <3>5, ConcatIs
  <2>4. landed' \in 0 .. Len(puts')
    BY <2>1, <2>2, LenProperties
  <2> QED BY <1>a, <2>1, <2>2, <2>3, <2>4 DEF TypeInv, TypeOK, OneView, db, app, count
<1>7. CASE Drop
  <2>1. landed' \in 0 .. Len(puts) /\ drops' \in Nat
    BY <1>7, <1>a, LenProperties DEF Drop, TypeOK
  <2> QED BY <1>7, <1>a, <2>1 DEF Drop, TypeInv, TypeOK, OneView, db, app
<1>8. CASE Launch
  <2>1. from' \in Nat
    BY <1>8, <1>a DEF Launch, GetLastUpdate, TypeOK
  <2> QED BY <1>8, <1>a, <2>1 DEF Launch, TypeInv, TypeOK, OneView, db, count
<1>9. CASE Stop
  <2>1. /\ stops' \in Nat /\ up' \in BOOLEAN /\ from' \in Nat /\ known' = {}
        /\ puts' = <<>> /\ landed' = 0 /\ wire' = <<>> /\ feedList' \in Posts
        /\ hole' \in BOOLEAN
        /\ UNCHANGED <<db, rows, lud, claim, writes, taps, drops>>
    <3>1. None \in Posts
      BY PostsAre
    <3>2. hole' = (hole \/ claim = "estimate")
      BY <1>9 DEF Stop
    <3>3. hole' \in BOOLEAN
      BY <3>2, Zenon
    <3>4. stops' \in Nat
      BY <1>9, <1>a DEF Stop, TypeOK
    <3>5. feedList' \in Posts
      BY <1>9, <3>1 DEF Stop
    <3> QED BY <1>9, <3>3, <3>4, <3>5 DEF Stop
  <2>2. puts' \in Seq(Put) /\ wire' \in Seq(Block) /\ Len(puts') = 0
    BY <2>1, EmptySeq
  <2>3. ASSUME NEW i \in DOMAIN wire
        PROVE  /\ wire[i].kind = "removed" => wire[i].post \in PostIds
               /\ wire[i].kind = "event" => Delivered(wire[i].posts) \subseteq PostIds
    <3>1. wire[i] \in Block
      BY <1>a, LenProperties, ElementOfSeq
    <3> QED BY <3>1, BlockIs DEF Delivered
  <2>4. \A i \in DOMAIN puts : puts[i].post \in PostIds
    BY <1>a, LenProperties, ElementOfSeq, PutIs
  <2>5. lost' \subseteq PostIds
    <3>1. lost \subseteq PostIds
      BY <1>a DEF TypeOK
    <3>2. {puts[i].post : i \in DOMAIN puts} \subseteq PostIds
      BY <2>4
    <3>3. {wire[i].post : i \in {j \in DOMAIN wire : wire[j].kind = "removed"}}
            \subseteq PostIds
      BY <2>3
    <3>4. UNION {Delivered(wire[i].posts) :
                   i \in {j \in DOMAIN wire : wire[j].kind = "event"}} \subseteq PostIds
      BY <2>3
    <3> QED BY <1>9, <3>1, <3>2, <3>3, <3>4 DEF Stop
  <2>6. landed' \in 0 .. Len(puts')
    BY <2>1, <2>2
  <2> QED BY <1>a, <2>1, <2>2, <2>5, <2>6 DEF TypeInv, TypeOK, OneView, db
<1>10. CASE UNCHANGED vars
  BY <1>a, <1>10 DEF TypeInv, TypeOK, OneView, vars, db, sdk, app, count
<1> QED BY <1>1, <1>2, <1>3, <1>4, <1>5, <1>6, <1>7, <1>8, <1>9, <1>10 DEF Next

(* Every reachable state is well typed, and the SDK's view of the query is *)
(* one.                                                                    *)
THEOREM TypeCorrect == Spec => []TypeOK
<1>1. TypeInv => TypeOK
  BY DEF TypeInv
<1> QED BY <1>1, TypeInit, TypeStep, PTL DEF Spec

-----------------------------------------------------------------------------
(* Versions and stamps on their way to the tables.                         *)

Shows(b, p) == b.kind = "event" /\ b.posts[p] # Nothing

(* A process that does not run has nothing under way.                      *)
DownInv ==
  ~up => /\ known = {} /\ puts = <<>> /\ wire = <<>> /\ landed = 0
         /\ hole \/ claim = "server"

(* The query starts within what the database has stamped.                  *)
StartInv == /\ up => from >= 1
            /\ ~hole => from <= clock + 1

StampInv ==
  \A p \in PostIds : /\ server[p].ts <= clock
                     /\ server[p].ts = 0 => server[p].ver = 0

RowsInv == \A p \in PostIds : rows[p].ver <= server[p].ver

(* The SDK's copy of a post is one the database had, and not behind the    *)
(* tables.                                                                 *)
KnownInv ==
  \A K \in known : \A p \in PostIds : K[p] # Nothing =>
    /\ from <= K[p].ts /\ K[p].ts <= server[p].ts
    /\ rows[p].ver <= K[p].ver /\ K[p].ver <= server[p].ver

LudInv == ~hole /\ claim = "server" => lud <= clock

(* Events show a post in the order of its versions, between the tables and *)
(* the SDK's copy, and only an estimate is ahead of the database's clock.  *)
OrderInv(held, w) ==
  /\ held = {} => \A i \in 1 .. Len(w) : w[i].kind # "event"
  /\ \A i \in 1 .. Len(w), p \in PostIds : Shows(w[i], p) =>
       /\ rows[p].ver <= w[i].posts[p].ver
       /\ \A K \in held : K[p] # Nothing /\ w[i].posts[p].ver <= K[p].ver
       /\ p \notin w[i].guessed => w[i].posts[p].ts <= clock
       /\ \A j \in 1 .. Len(w) : j >= i /\ Shows(w[j], p) =>
            w[i].posts[p].ver <= w[j].posts[p].ver

BaseInv ==
  /\ TypeInv /\ DownInv /\ StartInv /\ StampInv /\ RowsInv /\ KnownInv /\ LudInv
  /\ OrderInv(known, wire)

(* A queue with one more block behind it.                                  *)
Longer(w, e, w2) ==
  /\ w2 \in Seq(Block) /\ Len(w2) = Len(w) + 1 /\ w2[Len(w) + 1] = e
  /\ \A i \in 1 .. Len(w) : w2[i] = w[i]

LEMMA LongerIs ==
  ASSUME NEW w \in Seq(Block), NEW K \in Posts, NEW over \in Seq(Put),
         from \in Nat, NEW w2, w2 = w \o <<Raised(K, over)>>
  PROVE  Longer(w, Raised(K, over), w2)
<1> DEFINE e == <<Raised(K, over)>>
<1>1. e \in Seq(Block) /\ Len(e) = 1 /\ e[1] = Raised(K, over)
  BY OneBlock
<1>2. w2 = w \o e
  OBVIOUS
<1> HIDE DEF e
<1>3. /\ w2 \in Seq(Block) /\ Len(w2) = Len(w) + Len(e)
      /\ \A i \in 1 .. Len(w) : w2[i] = w[i]
      /\ \A k \in 1 .. Len(e) : w2[Len(w) + k] = e[k]
  BY <1>1, <1>2, ConcatIs
<1> QED BY <1>1, <1>3 DEF Longer

(* What laying a write over the view does to the queue: by the SDK's copy, *)
(* and as the two ways it goes.                                            *)
LEMMA RaiseAt ==
  ASSUME TypeInv, NEW w \in Seq(Block), NEW over, NEW over2 \in Seq(Put),
         NEW w2, w2 = w \o Events(known, over, known, over2)
  PROVE  /\ known = {} => w2 = w
         /\ \A K \in Posts : known = {K} =>
              \/ w2 = w /\ Laid(K, over) = Laid(K, over2)
              \/ Longer(w, Raised(K, over2), w2)
<1>1. from \in Nat
  BY DEF TypeInv, TypeOK
<1>2. CASE known = {}
  <2>1. w2 = w \o <<>>
    BY <1>2, EventsType
  <2>2. w2 = w
    BY <2>1, ConcatEmptySeq
  <2> QED BY <1>2, <2>2
<1>3. ASSUME NEW K \in Posts, known = {K}, Laid(K, over) = Laid(K, over2)
      PROVE  w2 = w
  <2>1. w2 = w \o <<>>
    BY <1>3, EventsType
  <2> QED BY <2>1, ConcatEmptySeq
<1>4. ASSUME NEW K \in Posts, known = {K}, Laid(K, over) # Laid(K, over2)
      PROVE  Longer(w, Raised(K, over2), w2)
  <2>1. w2 = w \o <<Raised(K, over2)>>
    BY <1>4, EventsType
  <2> QED BY <1>1, <2>1, LongerIs
<1> QED BY <1>2, <1>3, <1>4

LEMMA RaiseIs ==
  ASSUME TypeInv, NEW w \in Seq(Block), NEW over, NEW over2 \in Seq(Put),
         NEW w2, w2 = w \o Events(known, over, known, over2)
  PROVE  \/ /\ w2 = w
            /\ \A K \in known : Laid(K, over) = Laid(K, over2)
         \/ \E K \in Posts : known = {K} /\ Longer(w, Raised(K, over2), w2)
<1>1. known = {} => w2 = w
  BY RaiseAt
<1>2. \A K \in Posts : known = {K} =>
        \/ w2 = w /\ Laid(K, over) = Laid(K, over2)
        \/ Longer(w, Raised(K, over2), w2)
  BY RaiseAt
<1>3. CASE known = {}
  BY <1>1, <1>3
<1>4. ASSUME NEW K \in Posts, known = {K}
      PROVE  \/ /\ w2 = w
                /\ \A J \in known : Laid(J, over) = Laid(J, over2)
             \/ \E J \in Posts : known = {J} /\ Longer(w, Raised(J, over2), w2)
  <2>1. CASE w2 = w /\ Laid(K, over) = Laid(K, over2)
    BY <1>4, <2>1
  <2>2. CASE Longer(w, Raised(K, over2), w2)
    BY <1>4, <2>2
  <2> QED BY <1>2, <1>4, <2>1, <2>2
<1> QED BY <1>3, <1>4, KnownIs

(* What news of the server does to the queue, before the completions.      *)
LEMMA HearIs ==
  ASSUME TypeInv, NEW w2, w2 = wire \o Events(known, puts, {Heard}, Rest)
  PROVE  \/ /\ w2 = wire
            /\ \E K \in Posts : known = {K} /\ Laid(K, puts) = Laid(Heard, Rest)
         \/ Longer(wire, Raised(Heard, Rest), w2)
<1>1. /\ from \in Nat /\ wire \in Seq(Block) /\ Heard \in Posts
      /\ Rest \in Seq(Put)
  BY ReceiveEventsType DEF TypeInv, TypeOK
<1>2. ASSUME w2 = wire \o <<Raised(Heard, Rest)>>
      PROVE  Longer(wire, Raised(Heard, Rest), w2)
  BY <1>1, <1>2, LongerIs
<1>3. CASE known = {}
  BY <1>2, <1>3, ReceiveEventsType
<1>4. ASSUME NEW K \in Posts, known = {K}, Laid(K, puts) = Laid(Heard, Rest)
      PROVE  w2 = wire
  <2>1. w2 = wire \o <<>>
    BY <1>4, ReceiveEventsType
  <2> QED BY <1>1, <2>1, ConcatEmptySeq
<1>5. ASSUME NEW K \in Posts, known = {K}, Laid(K, puts) # Laid(Heard, Rest)
      PROVE  Longer(wire, Raised(Heard, Rest), w2)
  BY <1>2, <1>5, ReceiveEventsType
<1> QED BY <1>3, <1>4, <1>5, KnownIs

(* Blocks behind the queue that show nothing.                              *)
Completed(w, w2) ==
  /\ w2 \in Seq(Block) /\ Len(w) \in Nat /\ Len(w2) \in Nat
  /\ Len(w) <= Len(w2) /\ \A i \in 1 .. Len(w) : w2[i] = w[i]
  /\ \A i \in 1 .. Len(w2) : i \in 1 .. Len(w) \/ w2[i].kind = "removed"

LEMMA CompletedIs ==
  ASSUME NEW w \in Seq(Block), NEW done \in Seq(Put),
         NEW removals \in Removals(done), NEW w2, w2 = w \o removals
  PROVE  Completed(w, w2)
<1>1. /\ removals \in Seq(Block)
      /\ \A i \in 1 .. Len(removals) : removals[i].kind = "removed"
  BY RemovalsAre
<1>2. /\ w2 \in Seq(Block) /\ Len(w) \in Nat /\ Len(removals) \in Nat
      /\ Len(w2) = Len(w) + Len(removals)
      /\ \A i \in 1 .. Len(w) : w2[i] = w[i]
      /\ \A k \in 1 .. Len(removals) : w2[Len(w) + k] = removals[k]
      /\ \A i \in 1 .. Len(w2) : \/ i \in 1 .. Len(w)
                                 \/ \E k \in 1 .. Len(removals) : i = Len(w) + k
  <2>1. removals \in Seq(Block)
    BY <1>1
  <2>2. /\ w2 \in Seq(Block) /\ Len(w) \in Nat /\ Len(removals) \in Nat
        /\ Len(w2) = Len(w) + Len(removals)
        /\ \A i \in 1 .. Len(w) : w2[i] = w[i]
        /\ \A k \in 1 .. Len(removals) : w2[Len(w) + k] = removals[k]
    BY <2>1, ConcatIs
  <2>3. ASSUME NEW i \in 1 .. Len(w2), i \notin 1 .. Len(w)
        PROVE  \E k \in 1 .. Len(removals) : i = Len(w) + k
    <3>1. i - Len(w) \in 1 .. Len(removals) /\ i = Len(w) + (i - Len(w))
      BY <2>2, <2>3
    <3> QED BY <3>1
  <2> QED BY <2>2, <2>3
<1>3. Len(w) <= Len(w2)
  <2>1. \A a, b, c \in Nat : c = a + b => a <= c
    OBVIOUS
  <2>2. Len(w2) \in Nat
    BY <1>2
  <2> QED BY <1>2, <2>1, <2>2
<1>4. ASSUME NEW i \in 1 .. Len(w2), i \notin 1 .. Len(w)
      PROVE  w2[i].kind = "removed"
  <2>1. PICK k \in 1 .. Len(removals) : i = Len(w) + k
    BY <1>2, <1>4
  <2>2. w2[i] = removals[k]
    BY <1>2, <2>1
  <2> QED BY <1>1, <2>2
<1>5. \A i \in 1 .. Len(w2) : i \in 1 .. Len(w) \/ w2[i].kind = "removed"
  BY <1>4
<1>6. w2 \in Seq(Block) /\ Len(w) \in Nat /\ Len(w2) \in Nat
  BY <1>2
<1>7. \A i \in 1 .. Len(w) : w2[i] = w[i]
  BY <1>2
<1> QED BY <1>3, <1>5, <1>6, <1>7 DEF Completed

(* Blocks on the queue are blocks.                                         *)
LEMMA WireIs ==
  ASSUME NEW w \in Seq(Block), NEW i \in 1 .. Len(w)
  PROVE  /\ Len(w) \in Nat /\ w[i] \in Block
         /\ w[i].kind = "event" =>
              /\ w[i].posts \in Posts /\ w[i].guessed \subseteq PostIds
              /\ \A p \in PostIds : w[i].posts[p] \in Post
         /\ w[i].kind # "event" => w[i].kind = "removed" /\ w[i].post \in PostIds
<1>1. w[i] \in Block /\ Len(w) \in Nat
  BY ElementOfSeq, LenProperties
<1> QED BY <1>1, BlockIs DEF Posts

-----------------------------------------------------------------------------
(* How the order of events is kept.                                        *)

LEMMA OrderRaise ==
  ASSUME TypeOK, NEW K \in Posts, NEW over \in Seq(Put), NEW w \in Seq(Block),
         NEW w2, Longer(w, Raised(K, over), w2), OrderInv({K}, w),
         \A p \in PostIds : K[p] # Nothing =>
           K[p].ts <= clock /\ rows[p].ver <= K[p].ver
  PROVE  OrderInv({K}, w2)
<1> DEFINE e == Raised(K, over)
<1>1. /\ e.kind = "event" /\ e.posts = Laid(K, over)
      /\ \A p \in PostIds : p \in e.guessed <=>
            /\ K[p] # Nothing
            /\ \E i \in 1 .. Len(over) : over[i].post = p /\ over[i].kind = "stamp"
  BY RaisedIs DEF TypeOK
<1>2. ASSUME NEW p \in PostIds, e.posts[p] # Nothing
      PROVE  /\ K[p] # Nothing /\ e.posts[p].ver = K[p].ver
             /\ p \notin e.guessed => e.posts[p].ts = K[p].ts
  <2>1. from \in Nat /\ e.posts[p] = Laid(K, over)[p]
    BY <1>1 DEF TypeOK
  <2>2. K[p] # Nothing /\ e.posts[p].ver = K[p].ver
    BY <1>2, <2>1, LaidIs
  <2>3. ASSUME p \notin e.guessed PROVE e.posts[p].ts = K[p].ts
    <3>1. \A i \in 1 .. Len(over) : ~(over[i].post = p /\ over[i].kind = "stamp")
      BY <1>1, <2>2, <2>3
    <3> QED BY <1>2, <2>1, <3>1, LaidIs
  <2> QED BY <2>2, <2>3
<1>3. /\ w2 \in Seq(Block) /\ Len(w) \in Nat /\ Len(w2) = Len(w) + 1
      /\ w2[Len(w) + 1] = e /\ \A i \in 1 .. Len(w) : w2[i] = w[i]
  BY LenProperties DEF Longer
<1> HIDE DEF e
<1>4. \A i \in 1 .. Len(w2) : i \in 1 .. Len(w) \/ i = Len(w) + 1
  BY <1>3
<1>5. \A p \in PostIds : K[p].ver \in Nat
  BY PostIs DEF Posts
<1>6. ASSUME NEW i \in 1 .. Len(w2), NEW p \in PostIds, Shows(w2[i], p)
      PROVE  /\ rows[p].ver <= w2[i].posts[p].ver
             /\ K[p] # Nothing /\ w2[i].posts[p].ver <= K[p].ver
             /\ p \notin w2[i].guessed => w2[i].posts[p].ts <= clock
             /\ \A j \in 1 .. Len(w2) : j >= i /\ Shows(w2[j], p) =>
                  w2[i].posts[p].ver <= w2[j].posts[p].ver
  <2>1. CASE i = Len(w) + 1
    <3>1. w2[i] = e /\ e.posts[p] # Nothing
      BY <1>3, <1>6, <2>1 DEF Shows
    <3>2. \A j \in 1 .. Len(w2) : j >= i => j = i
      BY <1>3, <2>1
    <3>3. w2[i].posts[p].ver <= w2[i].posts[p].ver
      BY <1>2, <1>5, <3>1
    <3> QED BY <1>2, <1>5, <3>1, <3>2, <3>3
  <2>2. CASE i \in 1 .. Len(w)
    <3>1. w2[i] = w[i]
      BY <1>3, <2>2
    <3>2. /\ rows[p].ver <= w[i].posts[p].ver
          /\ K[p] # Nothing /\ w[i].posts[p].ver <= K[p].ver
          /\ p \notin w[i].guessed => w[i].posts[p].ts <= clock
          /\ \A j \in 1 .. Len(w) : j >= i /\ Shows(w[j], p) =>
               w[i].posts[p].ver <= w[j].posts[p].ver
      BY <1>6, <2>2, <3>1 DEF OrderInv
    <3>3. ASSUME NEW j \in 1 .. Len(w2), j >= i, Shows(w2[j], p)
          PROVE  w[i].posts[p].ver <= w2[j].posts[p].ver
      <4>1. CASE j \in 1 .. Len(w)
        BY <1>3, <3>2, <3>3, <4>1
      <4>2. CASE j = Len(w) + 1
        <5>1. w2[j] = e /\ e.posts[p] # Nothing
          BY <1>3, <3>3, <4>2 DEF Shows
        <5> QED BY <1>2, <3>2, <5>1
      <4> QED BY <1>4, <4>1, <4>2
    <3> QED BY <3>1, <3>2, <3>3
  <2> QED BY <1>4, <2>1, <2>2
<1>7. {K} # {}
  OBVIOUS
<1> QED BY <1>6, <1>7 DEF OrderInv

LEMMA OrderCompleted ==
  ASSUME NEW held, NEW w \in Seq(Block), NEW w2, Completed(w, w2),
         OrderInv(held, w)
  PROVE  OrderInv(held, w2)
<1>1. \A i \in 1 .. Len(w2), p \in PostIds : Shows(w2[i], p) =>
         i \in 1 .. Len(w) /\ w2[i] = w[i] /\ Shows(w[i], p)
  BY DEF Completed, Shows
<1>2. \A i \in 1 .. Len(w2) : w2[i].kind = "event" =>
         i \in 1 .. Len(w) /\ w2[i] = w[i] /\ w[i].kind = "event"
  BY DEF Completed
<1>3. held = {} => \A i \in 1 .. Len(w2) : w2[i].kind # "event"
  BY <1>2 DEF OrderInv
<1>4. ASSUME NEW i \in 1 .. Len(w2), NEW p \in PostIds, Shows(w2[i], p)
      PROVE  /\ rows[p].ver <= w2[i].posts[p].ver
             /\ \A K \in held : K[p] # Nothing /\ w2[i].posts[p].ver <= K[p].ver
             /\ p \notin w2[i].guessed => w2[i].posts[p].ts <= clock
             /\ \A j \in 1 .. Len(w2) : j >= i /\ Shows(w2[j], p) =>
                  w2[i].posts[p].ver <= w2[j].posts[p].ver
  BY <1>1, <1>4 DEF OrderInv
<1> QED BY <1>3, <1>4 DEF OrderInv

(* The head taken off a queue.                                             *)
LEMMA OrderTail ==
  ASSUME NEW held, NEW w \in Seq(Block), w # <<>>, OrderInv(held, w),
         NEW w2, w2 = Tail(w)
  PROVE  OrderInv(held, w2)
<1>1. /\ Len(w) \in Nat /\ Len(w2) \in Nat
      /\ \A i \in 1 .. Len(w2) : i + 1 \in 1 .. Len(w) /\ w2[i] = w[i + 1]
  BY TailIs
<1>2. held = {} => \A i \in 1 .. Len(w2) : w2[i].kind # "event"
  BY <1>1 DEF OrderInv
<1>3. ASSUME NEW i \in 1 .. Len(w2), NEW p \in PostIds, Shows(w2[i], p)
      PROVE  /\ rows[p].ver <= w2[i].posts[p].ver
             /\ \A K \in held : K[p] # Nothing /\ w2[i].posts[p].ver <= K[p].ver
             /\ p \notin w2[i].guessed => w2[i].posts[p].ts <= clock
             /\ \A j \in 1 .. Len(w2) : j >= i /\ Shows(w2[j], p) =>
                  w2[i].posts[p].ver <= w2[j].posts[p].ver
  <2>1. i + 1 \in 1 .. Len(w) /\ w2[i] = w[i + 1]
    BY <1>1
  <2>2. /\ rows[p].ver <= w[i + 1].posts[p].ver
        /\ \A K \in held : K[p] # Nothing /\ w[i + 1].posts[p].ver <= K[p].ver
        /\ p \notin w[i + 1].guessed => w[i + 1].posts[p].ts <= clock
        /\ \A j \in 1 .. Len(w) : j >= i + 1 /\ Shows(w[j], p) =>
             w[i + 1].posts[p].ver <= w[j].posts[p].ver
    BY <1>3, <2>1 DEF OrderInv
  <2>3. ASSUME NEW j \in 1 .. Len(w2), j >= i, Shows(w2[j], p)
        PROVE  w2[i].posts[p].ver <= w2[j].posts[p].ver
    <3>1. j + 1 \in 1 .. Len(w) /\ w2[j] = w[j + 1] /\ j + 1 >= i + 1
      BY <1>1, <2>3
    <3> QED BY <2>1, <2>2, <2>3, <3>1
  <2> QED BY <2>1, <2>2, <2>3
<1> QED BY <1>2, <1>3 DEF OrderInv

(* News of the server: the SDK's copies only move forward.                 *)
LEMMA OrderHear ==
  ASSUME BaseInv, up
  PROVE  /\ OrderInv({Heard}, wire)
         /\ \A p \in PostIds : Heard[p] # Nothing =>
              /\ Heard[p] = server[p] /\ from <= server[p].ts
              /\ Heard[p].ts <= clock /\ rows[p].ver <= Heard[p].ver
<1>1. ASSUME NEW p \in PostIds, Heard[p] # Nothing
      PROVE  /\ Heard[p] = server[p] /\ from <= server[p].ts
             /\ Heard[p].ts <= clock /\ rows[p].ver <= Heard[p].ver
  <2>1. Heard[p] = server[p] /\ server[p].ts >= from
    BY <1>1, HeardIs DEF BaseInv, TypeInv
  <2>2. from \in Nat /\ server[p].ts \in Nat
    BY PostIs DEF BaseInv, TypeInv, TypeOK, Posts
  <2> QED BY <2>1, <2>2 DEF BaseInv, StampInv, RowsInv
<1>2. ASSUME NEW i \in 1 .. Len(wire), NEW p \in PostIds, Shows(wire[i], p)
      PROVE  Heard[p] # Nothing /\ wire[i].posts[p].ver <= Heard[p].ver
  <2>1. known # {}
    BY <1>2 DEF BaseInv, OrderInv, Shows
  <2>2. PICK K \in known : TRUE
    BY <2>1
  <2>3. K[p] # Nothing /\ wire[i].posts[p].ver <= K[p].ver
    BY <1>2 DEF BaseInv, OrderInv
  <2>4. /\ from <= K[p].ts /\ K[p].ts <= server[p].ts /\ K[p].ver <= server[p].ver
    BY <2>3 DEF BaseInv, KnownInv
  <2>5. /\ K \in Posts /\ wire \in Seq(Block) /\ from \in Nat /\ server \in Posts
    BY DEF BaseInv, TypeInv, TypeOK
  <2>6. /\ wire[i].posts[p].ver \in Nat /\ K[p].ver \in Nat /\ K[p].ts \in Nat
        /\ server[p].ver \in Nat /\ server[p].ts \in Nat
    BY <1>2, <2>5, WireIs, PostIs DEF Shows, Posts
  <2>7. server[p].ts >= from /\ from >= 1
    BY <2>4, <2>5, <2>6 DEF BaseInv, StartInv
  <2>8. Heard[p] = server[p]
    BY <2>7, HeardIs DEF BaseInv, TypeInv
  <2>9. server[p] # Nothing
    BY <2>5, <2>6, <2>7, PostsAre
  <2> QED BY <2>3, <2>4, <2>6, <2>8, <2>9
<1>3. {Heard} # {}
  OBVIOUS
<1> QED BY <1>1, <1>2, <1>3 DEF BaseInv, OrderInv

LEMMA EmptyOrder ==
  ASSUME NEW held, NEW w, w = <<>>
  PROVE  OrderInv(held, w)
<1>1. Len(w) = 0 /\ \A i \in 1 .. Len(w) : FALSE
  BY EmptySeq
<1> QED BY <1>1 DEF OrderInv

LEMMA BaseInit == Init => BaseInv
<1> SUFFICES ASSUME Init PROVE BaseInv
  OBVIOUS
<1>1. TypeInv /\ OrderInv(known, wire)
  BY TypeInit, EmptyOrder DEF Init
<1>2. \A p \in PostIds : /\ server[p] = Nothing /\ rows[p] = Nothing
                         /\ Nothing.ver = 0 /\ Nothing.ts = 0
  BY PostsAre DEF Init
<1>3. StampInv /\ RowsInv
  BY <1>2 DEF StampInv, RowsInv, Init
<1>4. DownInv /\ StartInv /\ KnownInv /\ LudInv
  BY DEF Init, DownInv, StartInv, KnownInv, LudInv
<1> QED BY <1>1, <1>3, <1>4 DEF BaseInv

(* A write is laid over the view.                                          *)
LEMMA OrderLay ==
  ASSUME BaseInv, NEW w \in Seq(Block), OrderInv(known, w), NEW over,
         NEW over2 \in Seq(Put),
         NEW w2, w2 = w \o Events(known, over, known, over2)
  PROVE  w2 \in Seq(Block) /\ OrderInv(known, w2)
<1>1. CASE w2 = w
  BY <1>1
<1>2. ASSUME NEW K \in Posts, known = {K}, Longer(w, Raised(K, over2), w2)
      PROVE  w2 \in Seq(Block) /\ OrderInv(known, w2)
  <2>1. ASSUME NEW p \in PostIds, K[p] # Nothing
        PROVE  K[p].ts <= clock /\ rows[p].ver <= K[p].ver
    <3>1. /\ K[p].ts <= server[p].ts /\ server[p].ts <= clock
          /\ rows[p].ver <= K[p].ver
      BY <1>2, <2>1 DEF BaseInv, KnownInv, StampInv
    <3>2. K[p].ts \in Nat /\ server[p].ts \in Nat /\ clock \in Nat
      BY PostIs DEF BaseInv, TypeInv, TypeOK, Posts
    <3> QED BY <3>1, <3>2
  <2>2. OrderInv({K}, w)
    BY <1>2
  <2>3. TypeOK
    BY DEF BaseInv, TypeInv
  <2>4. OrderInv({K}, w2)
    BY <1>2, <2>1, <2>2, <2>3, OrderRaise
  <2> QED BY <1>2, <2>4 DEF Longer
<1>3. TypeInv
  BY DEF BaseInv
<1> QED BY <1>1, <1>2, <1>3, RaiseIs

(* A step that lays writes over the view and leaves the rest.              *)
LEMMA BaseLay ==
  ASSUME BaseInv, TypeInv', up, OrderInv(known, wire'),
         UNCHANGED <<db, up, from, known, landed, app, hole>>
  PROVE  BaseInv'
<1>1. OrderInv(known, wire)'
  BY DEF OrderInv, Shows, db, app
<1>2. /\ DownInv' /\ StartInv' /\ StampInv' /\ RowsInv' /\ KnownInv' /\ LudInv'
  BY DEF BaseInv, DownInv, StartInv, StampInv, RowsInv, KnownInv, LudInv, db, app
<1> QED BY <1>1, <1>2 DEF BaseInv

LEMMA BaseTap ==
  ASSUME BaseInv, TypeInv', NEW p \in PostIds, OnLikeSubmit(p)
  PROVE  BaseInv'
<1>1. /\ up /\ UNCHANGED <<db, up, from, known, landed, app, hole>>
      /\ TypeInv /\ wire \in Seq(Block) /\ puts \in Seq(Put) /\ OrderInv(known, wire)
  BY DEF OnLikeSubmit, BaseInv, TypeInv, TypeOK
<1>2. ASSUME NEW put \in Put,
             wire' = wire \o Events(known, puts, known, Append(puts, put))
      PROVE  OrderInv(known, wire')
  <2>1. Append(puts, put) \in Seq(Put)
    BY <1>1, AppendIs
  <2> QED BY <1>1, <1>2, <2>1, OrderLay
<1>3. ASSUME NEW put \in Put, NEW stamp \in Put,
             wire' = (wire \o Events(known, puts, known, Append(puts, put)))
                   \o Events(known, Append(puts, put), known,
                             Append(Append(puts, put), stamp))
      PROVE  OrderInv(known, wire')
  <2> DEFINE one == Append(puts, put)
             two == Append(one, stamp)
             w == wire \o Events(known, puts, known, one)
  <2>1. one \in Seq(Put) /\ two \in Seq(Put)
    BY <1>1, AppendIs
  <2>2. wire' = w \o Events(known, one, known, two)
    BY <1>3
  <2>3. w = wire \o Events(known, puts, known, one)
    OBVIOUS
  <2> HIDE DEF one, two, w
  <2>4. w \in Seq(Block) /\ OrderInv(known, w)
    BY <1>1, <2>1, <2>3, OrderLay
  <2> QED BY <1>1, <2>1, <2>2, <2>4, OrderLay
<1>4. OrderInv(known, wire')
  <2>1. \/ \E put \in Put :
             wire' = wire \o Events(known, puts, known, Append(puts, put))
        \/ \E put \in Put, stamp \in Put :
             wire' = (wire \o Events(known, puts, known, Append(puts, put)))
                   \o Events(known, Append(puts, put), known,
                             Append(Append(puts, put), stamp))
    <3>1. TypeInv
      BY <1>1
    <3> QED BY <3>1, TapPuts
  <2> QED BY <1>2, <1>3, <2>1
<1> QED BY <1>1, <1>4, BaseLay

LEMMA BaseRemoved ==
  ASSUME BaseInv, TypeInv', Removed
  PROVE  BaseInv'
<1>1. /\ UNCHANGED <<db, up, from, known, landed, app, hole>>
      /\ wire # <<>> /\ TypeInv /\ wire \in Seq(Block) /\ OrderInv(known, wire)
  BY DEF Removed, BaseInv, TypeInv, TypeOK
<1>2. up
  BY <1>1 DEF BaseInv, DownInv
<1>3. wire' = Tail(wire) \o Events(known, puts, known, puts') /\ puts' \in Seq(Put)
  <2>1. PICK stamp \in Put :
          /\ puts' = Append(puts, stamp)
          /\ wire' = Tail(wire) \o Events(known, puts, known, puts')
    BY <1>1, RemovedPuts
  <2>2. puts' \in Seq(Put)
    BY DEF TypeInv, TypeOK
  <2> QED BY <2>1, <2>2
<1>4. Tail(wire) \in Seq(Block) /\ OrderInv(known, Tail(wire))
  BY <1>1, TailIs, OrderTail
<1>5. OrderInv(known, wire')
  BY <1>3, <1>4, OrderLay
<1> QED BY <1>1, <1>2, <1>5, BaseLay

(* What a step of the database does: it may stamp posts, beyond all it has *)
(* stamped.                                                                *)
Moved ==
  /\ clock' \in Nat /\ clock' >= clock /\ server' \in Posts
  /\ \A p \in PostIds :
       \/ server'[p].ver = server[p].ver /\ server'[p].ts = server[p].ts
       \/ /\ server'[p].ver >= server[p].ver /\ server'[p].ts = clock'
          /\ clock' > clock

LEMMA MovedIs ==
  ASSUME TypeOK
  PROVE  /\ \A p \in PostIds : Write(p) => Moved
         /\ Land => Moved
<1>1. ASSUME NEW p \in PostIds, Write(p) PROVE Moved
  <2>1. \A q \in PostIds : server[q].ver \in Nat /\ clock \in Nat
    BY PostIs DEF TypeOK, Posts
  <2> QED BY <1>1, <2>1, WriteIs DEF Moved
<1>2. ASSUME Land PROVE Moved
  <2> DEFINE put == puts[landed + 1]
  <2>1. /\ clock' \in Nat /\ server' \in Posts
        /\ put.kind = "stamp" => clock' > clock
        /\ put.kind # "stamp" => clock' = clock
        /\ server'[put.post].ver = server[put.post].ver
        /\ server'[put.post].ts =
             IF put.kind = "stamp" THEN clock' ELSE server[put.post].ts
        /\ \A p \in PostIds : p # put.post => server'[p] = server[p]
    BY <1>2, LandIs
  <2> HIDE DEF put
  <2>2. \A q \in PostIds : server[q].ver \in Nat /\ clock \in Nat
    BY PostIs DEF TypeOK, Posts
  <2>3. clock' >= clock
    BY <2>1, <2>2 DEF TypeOK
  <2>4. ASSUME NEW p \in PostIds
        PROVE  \/ server'[p].ver = server[p].ver /\ server'[p].ts = server[p].ts
               \/ /\ server'[p].ver >= server[p].ver /\ server'[p].ts = clock'
                  /\ clock' > clock
    BY <2>1, <2>2
  <2> QED BY <2>1, <2>3, <2>4 DEF Moved
<1> QED BY <1>1, <1>2

LEMMA BaseMoved ==
  ASSUME BaseInv, TypeInv', Moved,
         UNCHANGED <<up, from, known, puts, wire, app, hole>>,
         up \/ UNCHANGED landed
  PROVE  BaseInv'
<1>1. /\ clock \in Nat /\ clock' \in Nat /\ from \in Nat /\ lud \in Nat
      /\ server \in Posts /\ rows \in Posts /\ known \subseteq Posts
      /\ wire \in Seq(Block) /\ server' \in Posts
  BY DEF BaseInv, TypeInv, TypeOK, Moved
<1>2. \A p \in PostIds :
        /\ server[p].ver \in Nat /\ server[p].ts \in Nat /\ rows[p].ver \in Nat
        /\ server'[p].ver \in Nat /\ server'[p].ts \in Nat
  BY <1>1, PostIs DEF Posts
<1>3. DownInv' /\ StartInv' /\ LudInv'
  <2>1. DownInv'
    BY DEF BaseInv, DownInv, app
  <2>2. StartInv'
    <3>1. up' => from' >= 1
      BY DEF BaseInv, StartInv
    <3>2. ~hole' => from' <= clock + 1
      BY DEF BaseInv, StartInv
    <3>3. clock' >= clock /\ from' = from
      BY DEF Moved
    <3>a. clock \in Nat /\ clock' \in Nat /\ from' \in Nat /\ clock' >= clock
      BY <1>1, <3>3
    <3>b. \A f, c, d \in Nat : d >= c /\ f <= c + 1 => f <= d + 1
      OBVIOUS
    <3>4. from' <= clock + 1 => from' <= clock' + 1
      BY <3>a, <3>b, Zenon
    <3>5. ~hole' => from' <= clock' + 1
      BY <3>2, <3>4, Zenon
    <3>6. (up' => from' >= 1) /\ (~hole' => from' <= clock' + 1)
      BY <3>1, <3>5, Zenon
    <3> QED BY <3>6 DEF StartInv
  <2>3. LudInv'
    <3>1. ~hole' /\ claim' = "server" => lud' <= clock
      BY DEF BaseInv, LudInv, app
    <3>2. clock' >= clock /\ lud' = lud
      BY DEF Moved, app
    <3> QED BY <1>1, <3>1, <3>2 DEF LudInv
  <2> QED BY <2>1, <2>2, <2>3
<1>4. StampInv'
  BY <1>1, <1>2 DEF BaseInv, StampInv, Moved
<1>5. RowsInv'
  BY <1>1, <1>2 DEF BaseInv, RowsInv, Moved, app
<1>6. KnownInv'
  <2> SUFFICES ASSUME NEW K \in known, NEW p \in PostIds, K[p] # Nothing
               PROVE  /\ from <= K[p].ts /\ K[p].ts <= server'[p].ts
                      /\ rows[p].ver <= K[p].ver /\ K[p].ver <= server'[p].ver
    BY DEF KnownInv, app
  <2>1. /\ from <= K[p].ts /\ K[p].ts <= server[p].ts
        /\ rows[p].ver <= K[p].ver /\ K[p].ver <= server[p].ver
    BY DEF BaseInv, KnownInv
  <2>2. K[p].ts \in Nat /\ K[p].ver \in Nat
    BY <1>1, PostIs DEF Posts
  <2>3. server[p].ts <= server'[p].ts /\ server[p].ver <= server'[p].ver
    BY <1>1, <1>2 DEF Moved, BaseInv, StampInv
  <2> QED BY <1>2, <2>1, <2>2, <2>3
<1>7. OrderInv(known, wire)'
  <2>1. known = {} => \A i \in 1 .. Len(wire) : wire[i].kind # "event"
    BY DEF BaseInv, OrderInv
  <2>2. ASSUME NEW i \in 1 .. Len(wire), NEW p \in PostIds, Shows(wire[i], p)
        PROVE /\ rows[p].ver <= wire[i].posts[p].ver
              /\ \A K \in known : K[p] # Nothing /\ wire[i].posts[p].ver <= K[p].ver
              /\ p \notin wire[i].guessed => wire[i].posts[p].ts <= clock'
              /\ \A j \in 1 .. Len(wire) : j >= i /\ Shows(wire[j], p) =>
                   wire[i].posts[p].ver <= wire[j].posts[p].ver
    <3>1. /\ rows[p].ver <= wire[i].posts[p].ver
          /\ \A K \in known : K[p] # Nothing /\ wire[i].posts[p].ver <= K[p].ver
          /\ p \notin wire[i].guessed => wire[i].posts[p].ts <= clock
          /\ \A j \in 1 .. Len(wire) : j >= i /\ Shows(wire[j], p) =>
                   wire[i].posts[p].ver <= wire[j].posts[p].ver
      BY <2>2 DEF BaseInv, OrderInv
    <3>2. wire[i].posts[p].ts \in Nat
      BY <1>1, <2>2, WireIs, PostIs DEF Shows
    <3>3. wire[i].posts[p].ts <= clock => wire[i].posts[p].ts <= clock'
      BY <1>1, <3>2 DEF Moved
    <3> QED BY <3>1, <3>3
  <2> QED BY <2>1, <2>2 DEF OrderInv, Shows, app
<1> QED BY <1>3, <1>4, <1>5, <1>6, <1>7 DEF BaseInv

LEMMA BaseReceive ==
  ASSUME BaseInv, TypeInv', Receive
  PROVE  BaseInv'
<1>1. /\ up /\ known' = {Heard} /\ UNCHANGED <<db, up, from, app, hole>>
      /\ TypeInv /\ wire \in Seq(Block) /\ Heard \in Posts /\ Rest \in Seq(Put)
      /\ SubSeq(puts, 1, landed) \in Seq(Put)
  BY ReceiveIs, ReceiveEventsType, FirstIs DEF BaseInv, TypeInv, TypeOK
<1>2. PICK removals \in Removals(SubSeq(puts, 1, landed)) :
        wire' = (wire \o Events(known, puts, {Heard}, Rest)) \o removals
  BY ReceiveIs DEF BaseInv
<1> DEFINE w == wire \o Events(known, puts, {Heard}, Rest)
<1>3. w = wire \o Events(known, puts, {Heard}, Rest) /\ wire' = w \o removals
  BY <1>2
<1> HIDE DEF w
<1>4. w \in Seq(Block) /\ OrderInv({Heard}, w)
  <2>1. CASE w = wire
    BY <1>1, <2>1, OrderHear
  <2>2. CASE Longer(wire, Raised(Heard, Rest), w)
    <3>1. OrderInv({Heard}, wire) /\ TypeOK
      BY <1>1, OrderHear DEF TypeInv
    <3>2. \A p \in PostIds : Heard[p] # Nothing =>
            Heard[p].ts <= clock /\ rows[p].ver <= Heard[p].ver
      BY <1>1, OrderHear
    <3>3. OrderInv({Heard}, w)
      BY <1>1, <2>2, <3>1, <3>2, OrderRaise
    <3> QED BY <2>2, <3>3 DEF Longer
  <2> QED BY <1>1, <1>3, <2>1, <2>2, HearIs
<1>5. OrderInv({Heard}, wire')
  <2>1. Completed(w, wire')
    BY <1>1, <1>3, <1>4, CompletedIs
  <2> QED BY <1>4, <2>1, OrderCompleted
<1>6. OrderInv(known, wire)'
  <2> DEFINE h == Heard
             w2 == wire'
  <2>1. OrderInv({h}, w2) /\ known' = {h} /\ wire' = w2
    BY <1>1, <1>5
  <2> HIDE DEF h, w2
  <2> QED BY <1>1, <2>1 DEF OrderInv, Shows, app, db
<1>7. KnownInv'
  <2> DEFINE h == Heard
  <2>1. ASSUME NEW p \in PostIds, h[p] # Nothing
        PROVE  /\ from <= h[p].ts /\ h[p].ts <= server[p].ts
               /\ rows[p].ver <= h[p].ver /\ h[p].ver <= server[p].ver
    <3>1. /\ h[p] = server[p] /\ from <= server[p].ts /\ rows[p].ver <= h[p].ver
      BY <1>1, <2>1, OrderHear
    <3>2. server[p].ts \in Nat /\ server[p].ver \in Nat
      BY PostIs DEF BaseInv, TypeInv, TypeOK, Posts
    <3> QED BY <3>1, <3>2
  <2>2. known' = {h}
    BY <1>1
  <2> HIDE DEF h
  <2> QED BY <1>1, <2>1, <2>2 DEF KnownInv, app, db
<1>8. DownInv' /\ StartInv' /\ StampInv' /\ RowsInv' /\ LudInv'
  BY <1>1 DEF BaseInv, DownInv, StartInv, StampInv, RowsInv, LudInv, db, app
<1> QED BY <1>6, <1>7, <1>8 DEF BaseInv

(* The event at the head: what it leaves in the tables.                    *)
LEMMA EventTakesIn ==
  ASSUME BaseInv, Event, NEW e, e = Head(wire)
  PROVE  /\ up /\ e = wire[1] /\ 1 \in 1 .. Len(wire) /\ e.kind = "event"
         /\ e.posts \in Posts /\ e.guessed \subseteq PostIds
         /\ known # {}
         /\ \A p \in PostIds :
              /\ e.posts[p] = Nothing => rows'[p] = rows[p]
              /\ e.posts[p] # Nothing =>
                   /\ rows'[p] = e.posts[p] /\ rows[p].ver <= e.posts[p].ver
                   /\ e.posts[p].ver <= server[p].ver
                   /\ \A K \in known : K[p] # Nothing /\ e.posts[p].ver <= K[p].ver
<1>1. /\ TypeInv /\ wire \in Seq(Block) /\ server \in Posts /\ known \subseteq Posts
      /\ OrderInv(known, wire)
  BY DEF BaseInv, TypeInv, TypeOK
<1>2. /\ wire # <<>> /\ e \in Block /\ e.kind = "event" /\ e.posts \in Posts
      /\ Store(e.posts)
  BY <1>1, EventIs
<1>3. e = wire[1] /\ 1 \in 1 .. Len(wire)
  BY <1>1, <1>2, TailIs
<1>4. up
  BY <1>2 DEF BaseInv, DownInv
<1>5. known # {}
  BY <1>1, <1>2, <1>3 DEF OrderInv
<1>6. ASSUME NEW p \in PostIds
      PROVE  /\ e.posts[p] = Nothing => rows'[p] = rows[p]
             /\ e.posts[p] # Nothing =>
                  /\ rows'[p] = e.posts[p] /\ rows[p].ver <= e.posts[p].ver
                  /\ e.posts[p].ver <= server[p].ver
                  /\ \A K \in known : K[p] # Nothing /\ e.posts[p].ver <= K[p].ver
  <2>1. rows'[p] = IF e.posts[p] # Nothing THEN e.posts[p] ELSE rows[p]
    BY <1>1, <1>2, StoreIs DEF TypeInv
  <2>2. CASE e.posts[p] = Nothing
    BY <2>1, <2>2
  <2>3. CASE e.posts[p] # Nothing
    <3>1. Shows(wire[1], p)
      BY <1>2, <1>3, <2>3 DEF Shows
    <3>2. /\ rows[p].ver <= e.posts[p].ver
          /\ \A K \in known : K[p] # Nothing /\ e.posts[p].ver <= K[p].ver
      BY <1>1, <1>3, <3>1 DEF OrderInv
    <3>3. PICK K \in known : TRUE
      BY <1>5
    <3>4. K[p].ver <= server[p].ver
      BY <3>2 DEF BaseInv, KnownInv
    <3>5. e.posts[p].ver \in Nat /\ K[p].ver \in Nat /\ server[p].ver \in Nat
      BY <1>1, <1>2, PostIs DEF Posts
    <3>6. e.posts[p].ver <= server[p].ver
      BY <3>2, <3>4, <3>5
    <3> QED BY <2>1, <2>3, <3>2, <3>6
  <2> QED BY <2>2, <2>3
<1>7. e.guessed \subseteq PostIds
  BY <1>2, BlockIs
<1> QED BY <1>2, <1>3, <1>4, <1>5, <1>6, <1>7

LEMMA BaseEvent ==
  ASSUME BaseInv, TypeInv', Event
  PROVE  BaseInv'
<1> DEFINE e == Head(wire)
<1>1. /\ up /\ e = wire[1] /\ 1 \in 1 .. Len(wire) /\ e.kind = "event"
      /\ e.posts \in Posts /\ known # {}
      /\ \A p \in PostIds :
              /\ e.posts[p] = Nothing => rows'[p] = rows[p]
              /\ e.posts[p] # Nothing =>
                   /\ rows'[p] = e.posts[p] /\ rows[p].ver <= e.posts[p].ver
                   /\ e.posts[p].ver <= server[p].ver
                   /\ \A K \in known : K[p] # Nothing /\ e.posts[p].ver <= K[p].ver
  BY EventTakesIn
<1>2. /\ wire # <<>> /\ wire' = Tail(wire)
      /\ UNCHANGED <<db, up, sdk, hole, lost, count>>
  BY EventIs DEF BaseInv
<1>3. /\ UNCHANGED lud /\ UNCHANGED claim
      \/ \E n \in PostIds :
                 /\ e.posts[n] # Nothing /\ lud' = e.posts[n].ts
                 /\ claim' = IF \E p \in e.guessed : p = n \/ e.posts[p] = Nothing
                             THEN "estimate" ELSE "server"
  BY EventIs DEF BaseInv
<1> HIDE DEF e
<1>4. /\ wire \in Seq(Block) /\ OrderInv(known, wire) /\ rows \in Posts
      /\ server \in Posts /\ known \subseteq Posts
  BY DEF BaseInv, TypeInv, TypeOK
<1>5. DownInv' /\ StartInv' /\ StampInv'
  BY <1>1, <1>2 DEF BaseInv, DownInv, StartInv, StampInv, db, sdk
<1>6. RowsInv'
  <2> SUFFICES ASSUME NEW p \in PostIds PROVE rows'[p].ver <= server[p].ver
    BY <1>2 DEF RowsInv, db
  <2>1. rows[p].ver <= server[p].ver
    BY DEF BaseInv, RowsInv
  <2> QED BY <1>1, <2>1
<1>7. KnownInv'
  <2> SUFFICES ASSUME NEW K \in known, NEW p \in PostIds, K[p] # Nothing
               PROVE  /\ from <= K[p].ts /\ K[p].ts <= server[p].ts
                      /\ rows'[p].ver <= K[p].ver /\ K[p].ver <= server[p].ver
    BY <1>2 DEF KnownInv, db, sdk
  <2>1. /\ from <= K[p].ts /\ K[p].ts <= server[p].ts
        /\ rows[p].ver <= K[p].ver /\ K[p].ver <= server[p].ver
    BY DEF BaseInv, KnownInv
  <2> QED BY <1>1, <2>1
<1>8. LudInv'
  <2>1. CASE UNCHANGED lud /\ UNCHANGED claim
    BY <1>2, <2>1 DEF BaseInv, LudInv, db
  <2>2. ASSUME NEW n \in PostIds, e.posts[n] # Nothing, lud' = e.posts[n].ts,
               claim' = IF \E p \in e.guessed : p = n \/ e.posts[p] = Nothing
                             THEN "estimate" ELSE "server"
        PROVE  LudInv'
    <3>1. claim' = "server" => n \notin e.guessed
      BY <2>2
    <3>2. Shows(wire[1], n)
      BY <1>1, <2>2 DEF Shows
    <3>3. n \notin e.guessed => e.posts[n].ts <= clock
      BY <1>1, <1>4, <3>2 DEF OrderInv
    <3> QED BY <1>2, <2>2, <3>1, <3>3 DEF LudInv, db
  <2> QED BY <1>3, <2>1, <2>2
<1>9. OrderInv(known, wire)'
  <2>1. /\ Len(wire) \in Nat /\ Len(wire') \in Nat
        /\ \A i \in 1 .. Len(wire') : i + 1 \in 1 .. Len(wire) /\ wire'[i] = wire[i + 1]
    BY <1>2, <1>4, TailIs
  <2>2. OrderInv(known, wire')
    BY <1>2, <1>4, OrderTail
  <2>3. ASSUME NEW i \in 1 .. Len(wire'), NEW p \in PostIds, Shows(wire'[i], p)
        PROVE  /\ rows'[p].ver <= wire'[i].posts[p].ver
               /\ \A K \in known : K[p] # Nothing /\ wire'[i].posts[p].ver <= K[p].ver
               /\ p \notin wire'[i].guessed => wire'[i].posts[p].ts <= clock
               /\ \A j \in 1 .. Len(wire') : j >= i /\ Shows(wire'[j], p) =>
                    wire'[i].posts[p].ver <= wire'[j].posts[p].ver
    <3>1. /\ rows[p].ver <= wire'[i].posts[p].ver
          /\ \A K \in known : K[p] # Nothing /\ wire'[i].posts[p].ver <= K[p].ver
          /\ p \notin wire'[i].guessed => wire'[i].posts[p].ts <= clock
          /\ \A j \in 1 .. Len(wire') : j >= i /\ Shows(wire'[j], p) =>
               wire'[i].posts[p].ver <= wire'[j].posts[p].ver
      BY <2>2, <2>3 DEF OrderInv
    <3>2. rows'[p].ver <= wire'[i].posts[p].ver
      <4>1. CASE e.posts[p] = Nothing
        BY <1>1, <3>1, <4>1
      <4>2. CASE e.posts[p] # Nothing
        <5>1. Shows(wire[1], p) /\ rows'[p] = e.posts[p]
          BY <1>1, <4>2 DEF Shows
        <5>2. i + 1 \in 1 .. Len(wire) /\ wire'[i] = wire[i + 1] /\ i + 1 >= 1
          BY <2>1
        <5>3. wire[1].posts[p].ver <= wire[i + 1].posts[p].ver
          BY <1>1, <1>4, <2>3, <5>1, <5>2 DEF OrderInv
        <5> QED BY <1>1, <5>1, <5>2, <5>3
      <4> QED BY <4>1, <4>2
    <3> QED BY <3>1, <3>2
  <2>4. known = {} => \A i \in 1 .. Len(wire') : wire'[i].kind # "event"
    BY <1>1
  <2> QED BY <1>2, <2>3, <2>4 DEF OrderInv, Shows, db, sdk
<1> QED BY <1>5, <1>6, <1>7, <1>8, <1>9 DEF BaseInv

LEMMA BaseLaunch ==
  ASSUME BaseInv, TypeInv', Launch
  PROVE  BaseInv'
<1>1. /\ ~up /\ up' = TRUE /\ (from' = lud + 1 \/ from' = 1)
      /\ UNCHANGED <<db, known, puts, landed, wire, rows, lud, claim, hole, lost,
                     count>>
  BY DEF Launch, GetLastUpdate, BaseInv, TypeInv, TypeOK
<1>2. known = {} /\ wire = <<>> /\ (hole \/ claim = "server")
  BY <1>1 DEF BaseInv, DownInv
<1>3. lud \in Nat /\ clock \in Nat
  BY DEF BaseInv, TypeInv, TypeOK
<1>4. DownInv' /\ StampInv' /\ RowsInv' /\ LudInv'
  BY <1>1 DEF BaseInv, DownInv, StampInv, RowsInv, LudInv, db
<1>5. KnownInv'
  BY <1>1, <1>2 DEF KnownInv
<1>6. StartInv'
  <2>1. from' >= 1
    BY <1>1, <1>3
  <2>2. ~hole => lud <= clock
    BY <1>2 DEF BaseInv, LudInv
  <2>3. lud <= clock => from' <= clock + 1
    BY <1>1, <1>3
  <2>4. ~hole' => from' <= clock' + 1
    <3>1. hole' = hole /\ clock' = clock
      BY <1>1 DEF db
    <3> QED BY <2>2, <2>3, <3>1, Zenon
  <2> QED BY <2>1, <2>4 DEF StartInv
<1>7. OrderInv(known, wire)'
  <2>1. wire' = <<>> /\ Len(wire') = 0 /\ \A i \in 1 .. Len(wire') : FALSE
    BY <1>1, <1>2, EmptySeq
  <2> QED BY <2>1 DEF OrderInv
<1> QED BY <1>4, <1>5, <1>6, <1>7 DEF BaseInv

LEMMA BaseStop ==
  ASSUME BaseInv, TypeInv', Stop
  PROVE  BaseInv'
<1>1. /\ up /\ up' = FALSE /\ from' = 0 /\ known' = {} /\ puts' = <<>>
      /\ landed' = 0 /\ wire' = <<>> /\ hole' = (hole \/ claim = "estimate")
      /\ UNCHANGED <<db, rows, lud, claim, writes, taps, drops>>
  BY DEF Stop
<1>2. /\ lud \in Nat /\ clock \in Nat /\ clock' = clock
      /\ claim \in {"server", "estimate"}
  BY <1>1 DEF BaseInv, TypeInv, TypeOK, db
<1>3. ~hole' => ~hole
  BY <1>1, Zenon
<1>4. hole' \/ claim' = "server"
  <2>1. claim = "server" \/ claim = "estimate"
    BY <1>2
  <2>2. claim' = claim
    BY <1>1
  <2> QED BY <1>1, <2>1, <2>2, Zenon
<1>5. DownInv'
  BY <1>1, <1>4 DEF DownInv
<1>6. StampInv' /\ RowsInv' /\ KnownInv'
  BY <1>1 DEF BaseInv, StampInv, RowsInv, KnownInv, db
<1>7. LudInv'
  <2>1. ~hole /\ claim = "server" => lud <= clock
    BY DEF BaseInv, LudInv
  <2>2. claim' = claim /\ lud' = lud
    BY <1>1
  <2>3. ~hole' /\ claim' = "server" => lud' <= clock'
    BY <1>2, <1>3, <2>1, <2>2, Zenon
  <2> QED BY <2>3 DEF LudInv
<1>8. StartInv'
  <2>1. from' <= clock' + 1
    BY <1>1, <1>2
  <2> QED BY <1>1, <2>1 DEF StartInv
<1>9. OrderInv(known, wire)'
  <2>1. Len(wire') = 0 /\ \A i \in 1 .. Len(wire') : FALSE
    BY <1>1, EmptySeq
  <2> QED BY <2>1 DEF OrderInv
<1> QED BY <1>5, <1>6, <1>7, <1>8, <1>9 DEF BaseInv

LEMMA BaseStep == BaseInv /\ [Next]_vars => BaseInv'
<1> SUFFICES ASSUME BaseInv, [Next]_vars PROVE BaseInv'
  OBVIOUS
<1>0. TypeInv' /\ TypeOK
  BY TypeStep DEF BaseInv, TypeInv
<1>1. ASSUME NEW p \in PostIds, OnLikeSubmit(p) PROVE BaseInv'
  BY <1>0, <1>1, BaseTap
<1>2. ASSUME NEW p \in PostIds, Write(p) PROVE BaseInv'
  <2>1. UNCHANGED <<up, from, known, puts, wire, app, hole>> /\ UNCHANGED landed
    BY <1>0, <1>2, WriteIs DEF sdk
  <2>2. Moved
    BY <1>0, <1>2, MovedIs
  <2> QED BY <1>0, <2>1, <2>2, BaseMoved
<1>3. CASE Removed
  BY <1>0, <1>3, BaseRemoved
<1>4. CASE Event
  BY <1>0, <1>4, BaseEvent
<1>5. CASE Land
  <2>1. UNCHANGED <<up, from, known, puts, wire, app, hole>>
    BY <1>5 DEF Land
  <2>2. Moved
    BY <1>0, <1>5, MovedIs
  <2>3. up
    <3>1. landed < Len(puts) /\ Len(<<>>) = 0
      BY <1>5, EmptySeq DEF Land
    <3> QED BY <3>1 DEF BaseInv, DownInv
  <2> QED BY <1>0, <2>1, <2>2, <2>3, BaseMoved
<1>6. CASE Receive
  BY <1>0, <1>6, BaseReceive
<1>7. CASE Drop
  <2>1. /\ UNCHANGED <<db, up, from, known, puts, wire, app, hole, lost>>
        /\ landed' = 0
    BY <1>7 DEF Drop
  <2>2. OrderInv(known, wire)'
    BY <2>1 DEF BaseInv, OrderInv, Shows, db, app
  <2>3. DownInv' /\ StartInv' /\ StampInv' /\ RowsInv' /\ KnownInv' /\ LudInv'
    BY <2>1 DEF BaseInv, DownInv, StartInv, StampInv, RowsInv, KnownInv, LudInv,
                db, app
  <2> QED BY <1>0, <2>2, <2>3 DEF BaseInv
<1>8. CASE Launch
  BY <1>0, <1>8, BaseLaunch
<1>9. CASE Stop
  BY <1>0, <1>9, BaseStop
<1>10. CASE UNCHANGED vars
  <2>1. UNCHANGED <<db, up, from, known, puts, landed, wire, app, hole, lost>>
    BY <1>10 DEF vars, sdk
  <2>2. OrderInv(known, wire)'
    BY <2>1 DEF BaseInv, OrderInv, Shows, db, app
  <2>3. DownInv' /\ StartInv' /\ StampInv' /\ RowsInv' /\ KnownInv' /\ LudInv'
    BY <2>1 DEF BaseInv, DownInv, StartInv, StampInv, RowsInv, KnownInv, LudInv,
                db, app
  <2> QED BY <1>0, <2>2, <2>3 DEF BaseInv
<1> QED BY <1>1, <1>2, <1>3, <1>4, <1>5, <1>6, <1>7, <1>8, <1>9, <1>10 DEF Next

-----------------------------------------------------------------------------
(* What the watermark covers.                                              *)

(* A view has a post as other devices last wrote it, or the query does not *)
(* reach down to the post.                                                 *)
UpToDate(posts, p) ==
  \/ posts[p] # Nothing /\ posts[p].ver = server[p].ver
  \/ posts[p] = Nothing /\ server[p].ts < from

KnownCover(held) ==
  \A K \in held : \A p, q \in PostIds :
    K[q] # Nothing /\ server[p].ts <= K[q].ts => UpToDate(K, p)

(* An event from which no estimate kept a post.                            *)
Honest(b) == b.kind = "event" /\ \A p \in b.guessed : b.posts[p] # Nothing

(* An honest event has everything up to any stamp of the server it shows.  *)
WireCover(w) ==
  \A i \in 1 .. Len(w) : Honest(w[i]) =>
    \A p, q \in PostIds :
      /\ q \notin w[i].guessed /\ w[i].posts[q] # Nothing
      /\ server[p].ts <= w[i].posts[q].ts
      => UpToDate(w[i].posts, p)

LudCover ==
  ~hole /\ claim = "server" =>
    \A p \in PostIds : server[p].ts <= lud => rows[p].ver = server[p].ver

StartCover ==
  ~hole /\ up =>
    \A p \in PostIds : server[p].ts < from => rows[p].ver = server[p].ver

CoverInv == KnownCover(known) /\ WireCover(wire) /\ LudCover /\ StartCover

LEMMA EmptyCover ==
  ASSUME NEW w, w = <<>> PROVE WireCover(w) /\ KnownCover({})
<1>1. Len(w) = 0 /\ \A i \in 1 .. Len(w) : FALSE
  BY EmptySeq
<1> QED BY <1>1 DEF WireCover, KnownCover

LEMMA CoverInit == Init => CoverInv
<1> SUFFICES ASSUME Init PROVE CoverInv
  OBVIOUS
<1>1. KnownCover(known) /\ WireCover(wire)
  BY EmptyCover DEF Init
<1>2. \A p \in PostIds : server[p] = Nothing /\ rows[p] = Nothing
  BY PostsAre DEF Init
<1>3. LudCover /\ StartCover
  BY <1>2 DEF LudCover, StartCover, Init
<1> QED BY <1>1, <1>3 DEF CoverInv

LEMMA CoverRaise ==
  ASSUME TypeOK, from >= 1, NEW K \in Posts, NEW over \in Seq(Put),
         NEW w \in Seq(Block), NEW w2, Longer(w, Raised(K, over), w2),
         WireCover(w), KnownCover({K}),
         \A p \in PostIds : K[p] # Nothing => from <= K[p].ts
  PROVE  WireCover(w2)
<1> DEFINE e == Raised(K, over)
<1>1. /\ e.kind = "event" /\ e.posts = Laid(K, over) /\ e.guessed \subseteq PostIds
      /\ \A p \in PostIds : p \in e.guessed <=>
            /\ K[p] # Nothing
            /\ \E i \in 1 .. Len(over) : over[i].post = p /\ over[i].kind = "stamp"
  BY RaisedIs DEF TypeOK
<1>2. /\ w2 \in Seq(Block) /\ Len(w) \in Nat /\ Len(w2) = Len(w) + 1
      /\ w2[Len(w) + 1] = e /\ \A i \in 1 .. Len(w) : w2[i] = w[i]
  BY LenProperties DEF Longer
<1> HIDE DEF e
<1>3. \A i \in 1 .. Len(w2) : i \in 1 .. Len(w) \/ i = Len(w) + 1
  BY <1>2
<1>4. ASSUME NEW p \in PostIds, NEW q \in PostIds, Honest(e), q \notin e.guessed,
             e.posts[q] # Nothing, server[p].ts <= e.posts[q].ts
      PROVE  UpToDate(e.posts, p)
  <2>1. from \in Nat /\ e.posts[p] = Laid(K, over)[p] /\ e.posts[q] = Laid(K, over)[q]
    BY <1>1 DEF TypeOK
  <2>2. K[q] # Nothing
    BY <1>4, <2>1, LaidIs
  <2>3. \A i \in 1 .. Len(over) : ~(over[i].post = q /\ over[i].kind = "stamp")
    BY <1>1, <1>4, <2>2
  <2>4. e.posts[q].ts = K[q].ts
    BY <1>4, <2>1, <2>3, LaidIs
  <2>5. UpToDate(K, p)
    BY <1>4, <2>2, <2>4 DEF KnownCover
  <2>6. CASE K[p] = Nothing
    <3>1. e.posts[p] = Nothing
      BY <2>1, <2>6, LaidIs
    <3> QED BY <2>5, <2>6, <3>1 DEF UpToDate
  <2>7. CASE K[p] # Nothing
    <3>1. e.posts[p] # Nothing
      <4>1. CASE p \in e.guessed
        BY <1>4, <4>1 DEF Honest
      <4>2. CASE p \notin e.guessed
        <5>1. \A i \in 1 .. Len(over) : ~(over[i].post = p /\ over[i].kind = "stamp")
          BY <1>1, <2>7, <4>2
        <5>2. K[p].ts >= from
          <6>1. K[p].ts \in Nat
            BY PostIs DEF Posts
          <6> QED BY <2>1, <2>7, <6>1
        <5> QED BY <2>1, <5>1, <5>2, LaidIs
      <4> QED BY <4>1, <4>2
    <3>2. e.posts[p].ver = K[p].ver
      BY <2>1, <3>1, LaidIs
    <3> QED BY <2>5, <2>7, <3>1, <3>2 DEF UpToDate
  <2> QED BY <2>6, <2>7
<1>5. ASSUME NEW i \in 1 .. Len(w2), Honest(w2[i]), NEW p \in PostIds,
             NEW q \in PostIds, q \notin w2[i].guessed, w2[i].posts[q] # Nothing,
             server[p].ts <= w2[i].posts[q].ts
      PROVE  UpToDate(w2[i].posts, p)
  <2>1. CASE i = Len(w) + 1
    <3>1. w2[i] = e
      BY <1>2, <2>1
    <3> QED BY <1>4, <1>5, <3>1
  <2>2. CASE i \in 1 .. Len(w)
    <3>1. w2[i] = w[i]
      BY <1>2, <2>2
    <3> QED BY <1>5, <2>2, <3>1 DEF WireCover
  <2> QED BY <1>3, <2>1, <2>2
<1> QED BY <1>5 DEF WireCover

LEMMA CoverCompleted ==
  ASSUME NEW w \in Seq(Block), NEW w2, Completed(w, w2), WireCover(w)
  PROVE  WireCover(w2)
<1>1. \A i \in 1 .. Len(w2) : Honest(w2[i]) => i \in 1 .. Len(w) /\ w2[i] = w[i]
  BY DEF Completed, Honest
<1> QED BY <1>1 DEF WireCover

LEMMA CoverTail ==
  ASSUME NEW w \in Seq(Block), w # <<>>, WireCover(w), NEW w2, w2 = Tail(w)
  PROVE  WireCover(w2)
<1>1. \A i \in 1 .. Len(w2) : i + 1 \in 1 .. Len(w) /\ w2[i] = w[i + 1]
  BY TailIs
<1> QED BY <1>1 DEF WireCover

LEMMA CoverLay ==
  ASSUME BaseInv, up, KnownCover(known), NEW w \in Seq(Block), WireCover(w),
         NEW over, NEW over2 \in Seq(Put),
         NEW w2, w2 = w \o Events(known, over, known, over2)
  PROVE  w2 \in Seq(Block) /\ WireCover(w2)
<1>1. CASE w2 = w
  BY <1>1
<1>2. ASSUME NEW K \in Posts, known = {K}, Longer(w, Raised(K, over2), w2)
      PROVE  w2 \in Seq(Block) /\ WireCover(w2)
  <2>1. /\ TypeOK /\ from >= 1
        /\ \A p \in PostIds : K[p] # Nothing => from <= K[p].ts
    BY <1>2 DEF BaseInv, TypeInv, StartInv, KnownInv
  <2>2. KnownCover({K})
    BY <1>2
  <2>3. WireCover(w2)
    BY <1>2, <2>1, <2>2, CoverRaise
  <2> QED BY <1>2, <2>3 DEF Longer
<1>3. TypeInv
  BY DEF BaseInv
<1> QED BY <1>1, <1>2, <1>3, RaiseIs

(* A step that lays writes over the view and leaves the rest.              *)
LEMMA CoverLaid ==
  ASSUME CoverInv, WireCover(wire'),
         UNCHANGED <<db, up, from, known, landed, app, hole>>
  PROVE  CoverInv'
<1>1. WireCover(wire)'
  BY DEF WireCover, UpToDate, Honest, db
<1>2. KnownCover(known)'
  BY DEF CoverInv, KnownCover, UpToDate, db
<1>3. LudCover' /\ StartCover'
  BY DEF CoverInv, LudCover, StartCover, db, app
<1> QED BY <1>1, <1>2, <1>3 DEF CoverInv

LEMMA CoverTap ==
  ASSUME BaseInv, CoverInv, NEW p \in PostIds, OnLikeSubmit(p)
  PROVE  CoverInv'
<1>1. /\ up /\ UNCHANGED <<db, up, from, known, landed, app, hole>>
      /\ TypeInv /\ wire \in Seq(Block) /\ puts \in Seq(Put)
      /\ WireCover(wire) /\ KnownCover(known)
  BY DEF OnLikeSubmit, BaseInv, CoverInv, TypeInv, TypeOK
<1>2. ASSUME NEW put \in Put,
             wire' = wire \o Events(known, puts, known, Append(puts, put))
      PROVE  WireCover(wire')
  <2>1. Append(puts, put) \in Seq(Put)
    BY <1>1, AppendIs
  <2> QED BY <1>1, <1>2, <2>1, CoverLay
<1>3. ASSUME NEW put \in Put, NEW stamp \in Put,
             wire' = (wire \o Events(known, puts, known, Append(puts, put)))
                   \o Events(known, Append(puts, put), known,
                             Append(Append(puts, put), stamp))
      PROVE  WireCover(wire')
  <2> DEFINE one == Append(puts, put)
             two == Append(one, stamp)
             w == wire \o Events(known, puts, known, one)
  <2>1. one \in Seq(Put) /\ two \in Seq(Put)
    BY <1>1, AppendIs
  <2>2. wire' = w \o Events(known, one, known, two)
    BY <1>3
  <2>3. w = wire \o Events(known, puts, known, one)
    OBVIOUS
  <2> HIDE DEF one, two, w
  <2>4. w \in Seq(Block) /\ WireCover(w)
    BY <1>1, <2>1, <2>3, CoverLay
  <2> QED BY <1>1, <2>1, <2>2, <2>4, CoverLay
<1>4. WireCover(wire')
  <2>1. \/ \E put \in Put :
             wire' = wire \o Events(known, puts, known, Append(puts, put))
        \/ \E put \in Put, stamp \in Put :
             wire' = (wire \o Events(known, puts, known, Append(puts, put)))
                   \o Events(known, Append(puts, put), known,
                             Append(Append(puts, put), stamp))
    <3>1. TypeInv
      BY <1>1
    <3> QED BY <3>1, TapPuts
  <2> QED BY <1>2, <1>3, <2>1
<1> QED BY <1>1, <1>4, CoverLaid

LEMMA CoverRemoved ==
  ASSUME BaseInv, CoverInv, TypeInv', Removed
  PROVE  CoverInv'
<1>1. /\ UNCHANGED <<db, up, from, known, landed, app, hole>>
      /\ wire # <<>> /\ TypeInv /\ wire \in Seq(Block)
      /\ WireCover(wire) /\ KnownCover(known)
  BY DEF Removed, BaseInv, CoverInv, TypeInv, TypeOK
<1>2. up
  BY <1>1 DEF BaseInv, DownInv
<1>3. wire' = Tail(wire) \o Events(known, puts, known, puts') /\ puts' \in Seq(Put)
  <2>1. PICK stamp \in Put :
          /\ puts' = Append(puts, stamp)
          /\ wire' = Tail(wire) \o Events(known, puts, known, puts')
    BY <1>1, RemovedPuts
  <2>2. puts' \in Seq(Put)
    BY DEF TypeInv, TypeOK
  <2> QED BY <2>1, <2>2
<1>4. Tail(wire) \in Seq(Block) /\ WireCover(Tail(wire))
  BY <1>1, TailIs, CoverTail
<1>5. WireCover(wire')
  BY <1>1, <1>2, <1>3, <1>4, CoverLay
<1> QED BY <1>1, <1>5, CoverLaid

LEMMA CoverMoved ==
  ASSUME BaseInv, CoverInv, Moved,
         UNCHANGED <<up, from, known, puts, wire, app, hole>>
  PROVE  CoverInv'
<1>1. /\ clock \in Nat /\ clock' \in Nat /\ from \in Nat /\ lud \in Nat
      /\ server \in Posts /\ rows \in Posts /\ known \subseteq Posts
      /\ wire \in Seq(Block) /\ server' \in Posts
  BY DEF BaseInv, TypeInv, TypeOK, Moved
<1>2. \A p \in PostIds : server[p].ts \in Nat /\ server'[p].ts \in Nat
  BY <1>1, PostIs DEF Posts
<1>3. ASSUME NEW p \in PostIds, NEW ts \in Nat, ts <= clock, server'[p].ts <= ts
      PROVE  /\ server'[p].ver = server[p].ver /\ server'[p].ts = server[p].ts
  BY <1>1, <1>2, <1>3 DEF Moved
<1>4. ASSUME NEW posts, NEW p \in PostIds, UpToDate(posts, p),
             server'[p].ver = server[p].ver, server'[p].ts = server[p].ts
      PROVE  UpToDate(posts, p)'
  BY <1>4 DEF UpToDate
<1>5. KnownCover(known)'
  <2> SUFFICES ASSUME NEW K \in known, NEW p \in PostIds, NEW q \in PostIds,
                      K[q] # Nothing, server'[p].ts <= K[q].ts
               PROVE  UpToDate(K, p)'
    BY DEF KnownCover
  <2>1. K[q].ts \in Nat /\ K[q].ts <= server[q].ts /\ server[q].ts <= clock
    BY <1>1, PostIs DEF Posts, BaseInv, KnownInv, StampInv
  <2>2. K[q].ts <= clock
    BY <1>1, <1>2, <2>1
  <2>3. server'[p].ver = server[p].ver /\ server'[p].ts = server[p].ts
    BY <1>3, <2>1, <2>2
  <2>4. UpToDate(K, p)
    BY <2>3 DEF CoverInv, KnownCover
  <2> QED BY <1>4, <2>3, <2>4
<1>6. WireCover(wire)'
  <2>1. ASSUME NEW i \in 1 .. Len(wire), Honest(wire[i]), NEW p \in PostIds,
               NEW q \in PostIds, q \notin wire[i].guessed,
               wire[i].posts[q] # Nothing, server'[p].ts <= wire[i].posts[q].ts
        PROVE  UpToDate(wire[i].posts, p)'
    <3>1. Shows(wire[i], q)
      BY <2>1 DEF Shows, Honest
    <3>2. wire[i].posts[q].ts <= clock
      BY <2>1, <3>1 DEF BaseInv, OrderInv
    <3>3. wire[i].posts[q].ts \in Nat
      BY <1>1, <2>1, WireIs, PostIs DEF Honest
    <3>4. server'[p].ver = server[p].ver /\ server'[p].ts = server[p].ts
      BY <1>3, <2>1, <3>2, <3>3
    <3>5. UpToDate(wire[i].posts, p)
      BY <2>1, <3>4 DEF CoverInv, WireCover
    <3> DEFINE posts == wire[i].posts
    <3>6. UpToDate(posts, p) /\ posts' = posts
      BY <3>5
    <3> HIDE DEF posts
    <3>7. wire[i].posts = posts /\ wire' = wire
      BY DEF posts
    <3> QED BY <3>4, <3>5, <3>7 DEF UpToDate
  <2>2. wire' = wire
    OBVIOUS
  <2> QED BY <2>1, <2>2 DEF WireCover, Honest, UpToDate
<1>7. LudCover'
  <2> SUFFICES ASSUME ~hole, claim = "server", NEW p \in PostIds,
                      server'[p].ts <= lud
               PROVE  rows[p].ver = server'[p].ver
    BY DEF LudCover, app
  <2>1. lud <= clock
    BY DEF BaseInv, LudInv
  <2>2. server'[p].ver = server[p].ver /\ server'[p].ts = server[p].ts
    BY <1>1, <1>3, <2>1
  <2> QED BY <2>2 DEF CoverInv, LudCover
<1>8. StartCover'
  <2> SUFFICES ASSUME ~hole, up, NEW p \in PostIds, server'[p].ts < from
               PROVE  rows[p].ver = server'[p].ver
    BY DEF StartCover, app
  <2>1. from <= clock + 1
    BY DEF BaseInv, StartInv
  <2>2. server'[p].ts <= clock
    BY <1>1, <1>2, <2>1
  <2>3. server'[p].ver = server[p].ver /\ server'[p].ts = server[p].ts
    <3>1. server'[p].ts <= server'[p].ts
      BY <1>2
    <3> QED BY <1>2, <1>3, <2>2, <3>1
  <2> QED BY <2>3 DEF CoverInv, StartCover
<1> QED BY <1>5, <1>6, <1>7, <1>8 DEF CoverInv

LEMMA CoverReceive ==
  ASSUME BaseInv, CoverInv, Receive
  PROVE  CoverInv'
<1>1. /\ up /\ known' = {Heard} /\ UNCHANGED <<db, up, from, app, hole>>
      /\ TypeInv /\ wire \in Seq(Block) /\ Heard \in Posts /\ Rest \in Seq(Put)
      /\ SubSeq(puts, 1, landed) \in Seq(Put) /\ WireCover(wire) /\ from >= 1
  BY ReceiveIs, ReceiveEventsType, FirstIs
     DEF BaseInv, CoverInv, TypeInv, TypeOK, StartInv
<1>2. PICK removals \in Removals(SubSeq(puts, 1, landed)) :
        wire' = (wire \o Events(known, puts, {Heard}, Rest)) \o removals
  BY ReceiveIs DEF BaseInv
<1> DEFINE w == wire \o Events(known, puts, {Heard}, Rest)
<1>3. w = wire \o Events(known, puts, {Heard}, Rest) /\ wire' = w \o removals
  BY <1>2
<1> HIDE DEF w
<1>4. KnownCover({Heard})
  <2> SUFFICES ASSUME NEW p \in PostIds PROVE UpToDate(Heard, p)
    BY DEF KnownCover
  <2>1. /\ server[p].ts >= from => Heard[p] = server[p]
        /\ ~(server[p].ts >= from) => Heard[p] = Nothing
    BY <1>1, HeardIs DEF TypeInv
  <2>2. server[p].ts \in Nat /\ from \in Nat
    BY <1>1, PostIs DEF TypeInv, TypeOK, Posts
  <2>3. server[p].ts >= from => server[p] # Nothing
    BY <1>1, <2>2, PostsAre
  <2> QED BY <2>1, <2>2, <2>3 DEF UpToDate
<1>5. w \in Seq(Block) /\ WireCover(w)
  <2>1. CASE w = wire
    BY <1>1, <2>1
  <2>2. CASE Longer(wire, Raised(Heard, Rest), w)
    <3>1. TypeOK /\ \A p \in PostIds : Heard[p] # Nothing => from <= Heard[p].ts
      BY <1>1, OrderHear DEF TypeInv
    <3>2. WireCover(w)
      BY <1>1, <1>4, <2>2, <3>1, CoverRaise
    <3> QED BY <2>2, <3>2 DEF Longer
  <2> QED BY <1>1, <1>3, <2>1, <2>2, HearIs
<1>6. WireCover(wire')
  <2>1. Completed(w, wire')
    BY <1>1, <1>3, <1>5, CompletedIs
  <2> QED BY <1>5, <2>1, CoverCompleted
<1>7. WireCover(wire)'
  <2> DEFINE w2 == wire'
  <2>1. WireCover(w2) /\ wire' = w2
    BY <1>6
  <2> HIDE DEF w2
  <2> QED BY <1>1, <2>1 DEF WireCover, UpToDate, Honest, db
<1>8. KnownCover(known)'
  <2> DEFINE h == Heard
  <2>1. KnownCover({h}) /\ known' = {h}
    BY <1>1, <1>4
  <2> HIDE DEF h
  <2> QED BY <1>1, <2>1 DEF KnownCover, UpToDate, db
<1>9. LudCover' /\ StartCover'
  BY <1>1 DEF CoverInv, LudCover, StartCover, db, app
<1> QED BY <1>7, <1>8, <1>9 DEF CoverInv

LEMMA CoverEvent ==
  ASSUME BaseInv, CoverInv, Event
  PROVE  CoverInv'
<1> DEFINE e == Head(wire)
<1>1. /\ up /\ e = wire[1] /\ 1 \in 1 .. Len(wire) /\ e.kind = "event"
      /\ e.posts \in Posts /\ e.guessed \subseteq PostIds
      /\ \A p \in PostIds :
              /\ e.posts[p] = Nothing => rows'[p] = rows[p]
              /\ e.posts[p] # Nothing =>
                   /\ rows'[p] = e.posts[p] /\ rows[p].ver <= e.posts[p].ver
                   /\ e.posts[p].ver <= server[p].ver
  BY EventTakesIn
<1>2. /\ wire # <<>> /\ wire' = Tail(wire)
      /\ UNCHANGED <<db, up, sdk, hole, lost, count>>
  BY EventIs DEF BaseInv
<1>3. /\ UNCHANGED lud /\ UNCHANGED claim
      \/ \E n \in PostIds :
                 /\ e.posts[n] # Nothing /\ lud' = e.posts[n].ts
                 /\ claim' = IF \E p \in e.guessed : p = n \/ e.posts[p] = Nothing
                             THEN "estimate" ELSE "server"
  BY EventIs DEF BaseInv
<1> HIDE DEF e
<1>4. wire \in Seq(Block) /\ server \in Posts
  BY DEF BaseInv, TypeInv, TypeOK
<1>5. KnownCover(known)'
  BY <1>2 DEF CoverInv, KnownCover, UpToDate, db, sdk
<1>6. WireCover(wire)'
  <2>1. WireCover(wire')
    BY <1>2, <1>4, CoverTail DEF CoverInv
  <2> QED BY <1>2, <2>1 DEF WireCover, UpToDate, Honest, db, sdk
<1>7. ASSUME NEW p \in PostIds, rows[p].ver = server[p].ver
      PROVE  rows'[p].ver = server[p].ver
  <2>1. server[p].ver \in Nat /\ e.posts[p].ver \in Nat
    BY <1>1, <1>4, PostIs DEF Posts
  <2> QED BY <1>1, <1>7, <2>1
<1>8. StartCover'
  BY <1>2, <1>7 DEF CoverInv, StartCover, db, sdk
<1>9. LudCover'
  <2>1. CASE UNCHANGED lud /\ UNCHANGED claim
    BY <1>2, <1>7, <2>1 DEF CoverInv, LudCover, db
  <2>2. ASSUME NEW n \in PostIds, e.posts[n] # Nothing, lud' = e.posts[n].ts,
               claim' = IF \E p \in e.guessed : p = n \/ e.posts[p] = Nothing
                             THEN "estimate" ELSE "server"
        PROVE  LudCover'
    <3> SUFFICES ASSUME ~hole, claim' = "server", NEW p \in PostIds,
                        server[p].ts <= e.posts[n].ts
                 PROVE  rows'[p].ver = server[p].ver
      BY <1>2, <2>2 DEF LudCover, db
    <3>1. n \notin e.guessed /\ Honest(e)
      BY <1>1, <2>2 DEF Honest
    <3>2. UpToDate(e.posts, p)
      BY <1>1, <2>2, <3>1 DEF CoverInv, WireCover
    <3>3. CASE e.posts[p] # Nothing
      BY <1>1, <3>2, <3>3 DEF UpToDate
    <3>4. CASE e.posts[p] = Nothing
      <4>1. rows[p].ver = server[p].ver
        BY <1>1, <3>2, <3>4 DEF UpToDate, CoverInv, StartCover
      <4> QED BY <1>7, <4>1
    <3> QED BY <3>3, <3>4
  <2> QED BY <1>3, <2>1, <2>2
<1> QED BY <1>5, <1>6, <1>8, <1>9 DEF CoverInv

LEMMA CoverLaunch ==
  ASSUME BaseInv, CoverInv, Launch
  PROVE  CoverInv'
<1>1. /\ ~up /\ (from' = lud + 1 \/ from' = 1)
      /\ UNCHANGED <<db, known, puts, landed, wire, rows, lud, claim, hole, lost,
                     count>>
  BY DEF Launch, GetLastUpdate, BaseInv, TypeInv, TypeOK
<1>2. known = {} /\ wire = <<>> /\ (hole \/ claim = "server")
  BY <1>1 DEF BaseInv, DownInv
<1>3. KnownCover(known)'
  BY <1>1, <1>2 DEF KnownCover
<1>4. WireCover(wire)'
  <2>1. wire' = <<>> /\ Len(wire') = 0 /\ \A i \in 1 .. Len(wire') : FALSE
    BY <1>1, <1>2, EmptySeq
  <2> QED BY <2>1 DEF WireCover
<1>5. LudCover'
  BY <1>1 DEF CoverInv, LudCover, db
<1>6. StartCover'
  <2> SUFFICES ASSUME ~hole, NEW p \in PostIds, server[p].ts < from'
               PROVE  rows[p].ver = server[p].ver
    BY <1>1 DEF StartCover, db
  <2>1. /\ server[p].ts \in Nat /\ server[p].ver \in Nat /\ rows[p].ver \in Nat
        /\ lud \in Nat
    BY PostIs DEF BaseInv, TypeInv, TypeOK, Posts
  <2>2. CASE from' = lud + 1
    <3>1. server[p].ts <= lud
      BY <2>1, <2>2
    <3> QED BY <1>2, <3>1 DEF CoverInv, LudCover
  <2>3. CASE from' = 1
    <3>1. server[p].ts = 0
      BY <2>1, <2>3
    <3>2. server[p].ver = 0 /\ rows[p].ver <= server[p].ver
      BY <3>1 DEF BaseInv, StampInv, RowsInv
    <3> QED BY <2>1, <3>2
  <2> QED BY <1>1, <2>2, <2>3
<1> QED BY <1>3, <1>4, <1>5, <1>6 DEF CoverInv

LEMMA CoverStop ==
  ASSUME BaseInv, CoverInv, Stop
  PROVE  CoverInv'
<1>1. /\ up' = FALSE /\ known' = {} /\ wire' = <<>>
      /\ hole' = (hole \/ claim = "estimate")
      /\ UNCHANGED <<db, rows, lud, claim>>
  BY DEF Stop
<1>2. KnownCover(known)'
  BY <1>1 DEF KnownCover
<1>3. WireCover(wire)'
  <2>1. Len(wire') = 0 /\ \A i \in 1 .. Len(wire') : FALSE
    BY <1>1, EmptySeq
  <2> QED BY <2>1 DEF WireCover
<1>4. ~hole' => ~hole
  BY <1>1, Zenon
<1>5. LudCover'
  BY <1>1, <1>4 DEF CoverInv, LudCover, db
<1>6. StartCover'
  BY <1>1 DEF StartCover
<1> QED BY <1>2, <1>3, <1>5, <1>6 DEF CoverInv

LEMMA CoverStep == BaseInv /\ CoverInv /\ [Next]_vars => CoverInv'
<1> SUFFICES ASSUME BaseInv, CoverInv, [Next]_vars PROVE CoverInv'
  OBVIOUS
<1>0. TypeInv' /\ TypeOK
  BY TypeStep DEF BaseInv, TypeInv
<1>1. ASSUME NEW p \in PostIds, OnLikeSubmit(p) PROVE CoverInv'
  BY <1>1, CoverTap
<1>2. ASSUME NEW p \in PostIds, Write(p) PROVE CoverInv'
  <2>1. UNCHANGED <<up, from, known, puts, wire, app, hole>>
    BY <1>0, <1>2, WriteIs DEF sdk
  <2>2. Moved
    BY <1>0, <1>2, MovedIs
  <2> QED BY <2>1, <2>2, CoverMoved
<1>3. CASE Removed
  BY <1>0, <1>3, CoverRemoved
<1>4. CASE Event
  BY <1>4, CoverEvent
<1>5. CASE Land
  <2>1. UNCHANGED <<up, from, known, puts, wire, app, hole>>
    BY <1>5 DEF Land
  <2>2. Moved
    BY <1>0, <1>5, MovedIs
  <2> QED BY <2>1, <2>2, CoverMoved
<1>6. CASE Receive
  BY <1>6, CoverReceive
<1>7. CASE Drop
  BY <1>7 DEF Drop, CoverInv, KnownCover, WireCover, UpToDate, Honest, LudCover,
              StartCover, db, app
<1>8. CASE Launch
  BY <1>8, CoverLaunch
<1>9. CASE Stop
  BY <1>9, CoverStop
<1>10. CASE UNCHANGED vars
  BY <1>10 DEF vars, CoverInv, KnownCover, WireCover, UpToDate, Honest, LudCover,
               StartCover, db, sdk, app
<1> QED BY <1>1, <1>2, <1>3, <1>4, <1>5, <1>6, <1>7, <1>8, <1>9, <1>10 DEF Next

LEMMA NothingMissed == BaseInv /\ CoverInv => MissedOnlyByEstimate
<1> SUFFICES ASSUME BaseInv, CoverInv, NEW p \in PostIds, ~hole,
                    ~(server[p].ts >= (IF up THEN from ELSE lud + 1))
             PROVE  rows[p].ver = server[p].ver
  BY DEF MissedOnlyByEstimate
<1>1. server[p].ts \in Nat /\ from \in Nat /\ lud \in Nat
  BY PostIs DEF BaseInv, TypeInv, TypeOK, Posts
<1>2. CASE up
  <2>1. server[p].ts < from
    BY <1>1, <1>2
  <2> QED BY <1>2, <2>1 DEF CoverInv, StartCover
<1>3. CASE ~up
  <2>1. server[p].ts <= lud
    BY <1>1, <1>3
  <2>2. claim = "server"
    BY <1>3 DEF BaseInv, DownInv
  <2> QED BY <2>1, <2>2 DEF CoverInv, LudCover
<1> QED BY <1>2, <1>3

(* No write of another device stays out of the tables below the point from *)
(* which the query asks, however this device's own likes echo and whenever *)
(* its process dies, unless one died with a watermark in which an estimate *)
(* had a part.                                                             *)
THEOREM MissedByEstimateOnly == Spec => []MissedOnlyByEstimate
<1>1. Init => BaseInv /\ CoverInv
  BY BaseInit, CoverInit
<1>2. BaseInv /\ CoverInv /\ [Next]_vars => (BaseInv /\ CoverInv)'
  BY BaseStep, CoverStep
<1> QED BY <1>1, <1>2, NothingMissed, PTL DEF Spec

-----------------------------------------------------------------------------
(* The user's own like.                                                    *)

(* What the tables will have of a post when the queue w has been handled:  *)
(* the last event that shows it says so, or they have it already.          *)
Final(w, row, p, v) ==
  \/ v = row /\ \A i \in 1 .. Len(w) : ~Shows(w[i], p)
  \/ \E i \in 1 .. Len(w) :
       /\ Shows(w[i], p) /\ v = w[i].posts[p]
       /\ \A j \in 1 .. Len(w) : j > i => ~Shows(w[j], p)

(* The tables will have what the view shows.                               *)
ViewInv(held, over, w) ==
  \A K \in held : \A p \in PostIds, v \in Post :
    Laid(K, over)[p] # Nothing /\ Final(w, rows[p], p, v) => v = Laid(K, over)[p]

(* No write of a post is under way.                                        *)
Settled(over, w, p) ==
  /\ \A i \in 1 .. Len(over) : over[i].post # p
  /\ \A i \in 1 .. Len(w) : w[i].kind = "removed" => w[i].post # p

KnownLike(held, over, w) ==
  \A K \in held : \A p \in PostIds :
    Settled(over, w, p) /\ K[p] # Nothing => K[p].like = server[p].like

(* A like is followed by its stamp, and a stamp that has landed brings the *)
(* post into the range of the query.                                       *)
StampFollows(over) ==
  \A i \in 1 .. Len(over) : over[i].kind = "like" =>
    \E j \in 1 .. Len(over) : /\ j > i /\ over[j].kind = "stamp"
                              /\ over[j].post = over[i].post

LandedStamps ==
  ~hole => \A i \in 1 .. landed :
             puts[i].kind = "stamp" => from <= server[puts[i].post].ts

LikeAt(w, p) ==
  \A v \in Post : Final(w, rows[p], p, v) /\ v # Nothing => v.like = server[p].like

LikeInv(over, w) ==
  ~hole => \A p \in PostIds \ lost : Settled(over, w, p) => LikeAt(w, p)

OwnInv ==
  /\ ViewInv(known, puts, wire) /\ KnownLike(known, puts, wire)
  /\ StampFollows(puts) /\ LandedStamps
  /\ LikeInv(puts, wire)

LEMMA FinalEmpty ==
  ASSUME NEW w, w = <<>>, NEW row, NEW p, NEW v, Final(w, row, p, v)
  PROVE  v = row
<1>1. Len(w) = 0 /\ \A i \in 1 .. Len(w) : FALSE
  BY EmptySeq
<1> QED BY <1>1 DEF Final

LEMMA FinalLonger ==
  ASSUME NEW w \in Seq(Block), NEW e, NEW w2, Longer(w, e, w2), NEW row, NEW p,
         NEW v, Final(w2, row, p, v)
  PROVE  /\ Shows(e, p) => v = e.posts[p]
         /\ ~Shows(e, p) => Final(w, row, p, v)
<1>1. /\ Len(w) \in Nat /\ Len(w2) = Len(w) + 1 /\ w2[Len(w) + 1] = e
      /\ \A i \in 1 .. Len(w) : w2[i] = w[i]
  BY LenProperties DEF Longer
<1>2. /\ Len(w) + 1 \in 1 .. Len(w2)
      /\ \A i \in 1 .. Len(w2) : i \in 1 .. Len(w) \/ i = Len(w) + 1
      /\ \A i \in 1 .. Len(w) : i \in 1 .. Len(w2) /\ Len(w) + 1 > i
  BY <1>1
<1>3. CASE v = row /\ \A i \in 1 .. Len(w2) : ~Shows(w2[i], p)
  <2>1. ~Shows(e, p)
    BY <1>1, <1>2, <1>3
  <2>2. \A i \in 1 .. Len(w) : ~Shows(w[i], p)
    BY <1>1, <1>2, <1>3
  <2> QED BY <1>3, <2>1, <2>2 DEF Final
<1>4. ASSUME NEW i \in 1 .. Len(w2), Shows(w2[i], p), v = w2[i].posts[p],
             \A j \in 1 .. Len(w2) : j > i => ~Shows(w2[j], p)
      PROVE  /\ Shows(e, p) => v = e.posts[p]
             /\ ~Shows(e, p) => Final(w, row, p, v)
  <2>1. CASE i = Len(w) + 1
    BY <1>1, <1>4, <2>1
  <2>2. CASE i \in 1 .. Len(w)
    <3>1. ~Shows(e, p)
      BY <1>1, <1>2, <1>4, <2>2
    <3>2. w2[i] = w[i]
      BY <1>1, <2>2
    <3>3. \A j \in 1 .. Len(w) : j > i => ~Shows(w[j], p)
      BY <1>1, <1>2, <1>4, <2>2
    <3> QED BY <1>4, <2>2, <3>1, <3>2, <3>3 DEF Final
  <2> QED BY <1>2, <2>1, <2>2
<1> QED BY <1>3, <1>4 DEF Final

LEMMA FinalCompleted ==
  ASSUME NEW w \in Seq(Block), NEW w2, Completed(w, w2), NEW row, NEW p, NEW v,
         Final(w2, row, p, v)
  PROVE  Final(w, row, p, v)
<1>1. \A i \in 1 .. Len(w) : i \in 1 .. Len(w2) /\ w2[i] = w[i]
  BY DEF Completed
<1>2. \A i \in 1 .. Len(w2) : Shows(w2[i], p) => i \in 1 .. Len(w)
  BY DEF Completed, Shows
<1>3. CASE v = row /\ \A i \in 1 .. Len(w2) : ~Shows(w2[i], p)
  BY <1>1, <1>3 DEF Final
<1>4. ASSUME NEW i \in 1 .. Len(w2), Shows(w2[i], p), v = w2[i].posts[p],
             \A j \in 1 .. Len(w2) : j > i => ~Shows(w2[j], p)
      PROVE  Final(w, row, p, v)
  <2>1. i \in 1 .. Len(w) /\ w2[i] = w[i]
    BY <1>1, <1>2, <1>4
  <2>2. \A j \in 1 .. Len(w) : j > i => ~Shows(w[j], p)
    BY <1>1, <1>4
  <2> QED BY <1>4, <2>1, <2>2 DEF Final
<1> QED BY <1>3, <1>4 DEF Final

(* Handling the head of the queue changes nothing of what comes out.       *)
LEMMA FinalTail ==
  ASSUME NEW w \in Seq(Block), w # <<>>, NEW w2, w2 = Tail(w), NEW row, NEW row2,
         NEW p, Shows(Head(w), p) => row2 = Head(w).posts[p],
         ~Shows(Head(w), p) => row2 = row,
         NEW v, Final(w2, row2, p, v)
  PROVE  Final(w, row, p, v)
<1>1. /\ Len(w) \in Nat /\ Len(w2) \in Nat /\ Len(w) = Len(w2) + 1
      /\ Head(w) = w[1]
      /\ \A i \in 1 .. Len(w2) : i + 1 \in 1 .. Len(w) /\ w2[i] = w[i + 1]
  BY TailIs
<1>2. /\ 1 \in 1 .. Len(w)
      /\ \A j \in 1 .. Len(w) : j > 1 => j - 1 \in 1 .. Len(w2) /\ w[j] = w2[j - 1]
  <2>1. 1 \in 1 .. Len(w)
    BY <1>1
  <2>2. ASSUME NEW j \in 1 .. Len(w), j > 1
        PROVE  j - 1 \in 1 .. Len(w2) /\ w[j] = w2[j - 1]
    <3>1. j - 1 \in 1 .. Len(w2) /\ (j - 1) + 1 = j
      BY <1>1, <2>2
    <3> QED BY <1>1, <3>1
  <2> QED BY <2>1, <2>2
<1>3. CASE v = row2 /\ \A i \in 1 .. Len(w2) : ~Shows(w2[i], p)
  <2>1. \A j \in 1 .. Len(w) : j > 1 => ~Shows(w[j], p)
    BY <1>2, <1>3
  <2>2. CASE Shows(w[1], p)
    BY <1>1, <1>2, <1>3, <2>1, <2>2 DEF Final
  <2>3. CASE ~Shows(w[1], p)
    <3>1. \A j \in 1 .. Len(w) : j > 1 \/ j = 1
      BY <1>1
    <3>2. \A j \in 1 .. Len(w) : ~Shows(w[j], p)
      BY <2>1, <2>3, <3>1
    <3> QED BY <1>1, <1>3, <2>3, <3>2 DEF Final
  <2> QED BY <2>2, <2>3
<1>4. ASSUME NEW i \in 1 .. Len(w2), Shows(w2[i], p), v = w2[i].posts[p],
             \A j \in 1 .. Len(w2) : j > i => ~Shows(w2[j], p)
      PROVE  Final(w, row, p, v)
  <2>1. i + 1 \in 1 .. Len(w) /\ w2[i] = w[i + 1]
    BY <1>1
  <2>2. ASSUME NEW j \in 1 .. Len(w), j > i + 1 PROVE ~Shows(w[j], p)
    <3>1. j > 1 /\ j - 1 > i
      BY <1>1, <2>2
    <3>2. j - 1 \in 1 .. Len(w2) /\ w[j] = w2[j - 1]
      BY <1>2, <3>1
    <3> QED BY <1>4, <3>1, <3>2
  <2> QED BY <1>4, <2>1, <2>2 DEF Final
<1> QED BY <1>3, <1>4 DEF Final

-----------------------------------------------------------------------------
(* Laying writes over the view.                                            *)

LEMMA ViewRaise ==
  ASSUME from \in Nat, NEW K \in Posts, NEW over \in Seq(Put), NEW w \in Seq(Block),
         NEW w2, Longer(w, Raised(K, over), w2)
  PROVE  ViewInv({K}, over, w2)
<1> DEFINE e == Raised(K, over)
<1>1. e.kind = "event" /\ e.posts = Laid(K, over) /\ Longer(w, e, w2)
  BY RaisedIs
<1> HIDE DEF e
<1> SUFFICES ASSUME NEW p \in PostIds, NEW v \in Post, Laid(K, over)[p] # Nothing,
                    Final(w2, rows[p], p, v)
             PROVE  v = Laid(K, over)[p]
  BY DEF ViewInv
<1>2. Shows(e, p)
  BY <1>1 DEF Shows
<1> QED BY <1>1, <1>2, FinalLonger

LEMMA ViewLay ==
  ASSUME TypeInv, NEW w \in Seq(Block), NEW over, ViewInv(known, over, w),
         NEW over2 \in Seq(Put),
         NEW w2, w2 = w \o Events(known, over, known, over2)
  PROVE  w2 \in Seq(Block) /\ ViewInv(known, over2, w2)
<1>1. CASE w2 = w /\ \A K \in known : Laid(K, over) = Laid(K, over2)
  BY <1>1 DEF ViewInv
<1>2. ASSUME NEW K \in Posts, known = {K}, Longer(w, Raised(K, over2), w2)
      PROVE  w2 \in Seq(Block) /\ ViewInv(known, over2, w2)
  <2>1. from \in Nat
    BY DEF TypeInv, TypeOK
  <2>2. ViewInv({K}, over2, w2)
    BY <1>2, <2>1, ViewRaise
  <2> QED BY <1>2, <2>2 DEF Longer
<1>3. known = {} => w2 = w
  BY RaiseAt
<1>4. \A K \in Posts : known = {K} =>
        \/ w2 = w /\ Laid(K, over) = Laid(K, over2)
        \/ Longer(w, Raised(K, over2), w2)
  BY RaiseAt
<1>5. known = {} \/ \E K \in Posts : known = {K}
  BY KnownIs
<1> QED BY <1>1, <1>2, <1>3, <1>4, <1>5

(* Writes of other posts leave what comes out of a post.                   *)
LEMMA LikeLay ==
  ASSUME TypeInv, NEW w \in Seq(Block), NEW over, NEW over2 \in Seq(Put),
         NEW p \in PostIds, LikeAt(w, p),
         \A i \in 1 .. Len(over2) : over2[i].post # p,
         \A K \in known : K[p] # Nothing => K[p].like = server[p].like,
         NEW w2, w2 = w \o Events(known, over, known, over2)
  PROVE  LikeAt(w2, p)
<1>1. CASE w2 = w
  BY <1>1
<1>2. ASSUME NEW K \in Posts, known = {K}, Longer(w, Raised(K, over2), w2)
      PROVE  LikeAt(w2, p)
  <2> DEFINE e == Raised(K, over2)
  <2>1. /\ from \in Nat /\ e.kind = "event" /\ e.posts = Laid(K, over2)
        /\ Longer(w, e, w2)
    BY <1>2, RaisedIs DEF TypeInv, TypeOK
  <2> HIDE DEF e
  <2> SUFFICES ASSUME NEW v \in Post, Final(w2, rows[p], p, v), v # Nothing
               PROVE  v.like = server[p].like
    BY DEF LikeAt
  <2>2. CASE Shows(e, p)
    <3>1. v = Laid(K, over2)[p]
      BY <2>1, <2>2, FinalLonger
    <3>2. v = K[p]
      BY <2>1, <3>1, LaidIs
    <3> QED BY <1>2, <3>2
  <2>3. CASE ~Shows(e, p)
    <3>1. Final(w, rows[p], p, v)
      BY <2>1, <2>3, FinalLonger
    <3> QED BY <3>1 DEF LikeAt
  <2> QED BY <2>2, <2>3
<1>3. known = {} => w2 = w
  BY RaiseAt, SMTT(30)
<1>4. \A K \in Posts : known = {K} =>
        \/ w2 = w /\ Laid(K, over) = Laid(K, over2)
        \/ Longer(w, Raised(K, over2), w2)
  BY RaiseAt
<1>5. known = {} \/ \E K \in Posts : known = {K}
  BY KnownIs
<1> QED BY <1>1, <1>2, <1>3, <1>4, <1>5

(* What a queue has after a lay is what it had, and maybe an event.        *)
LEMMA LayKeeps ==
  ASSUME TypeInv, NEW w \in Seq(Block), NEW over, NEW over2 \in Seq(Put),
         NEW w2, w2 = w \o Events(known, over, known, over2)
  PROVE  \A i \in 1 .. Len(w) : i \in 1 .. Len(w2) /\ w2[i] = w[i]
<1>1. Events(known, over, known, over2) \in Seq(Block)
  BY EventsType
<1>2. /\ Len(w) \in Nat /\ Len(Events(known, over, known, over2)) \in Nat
      /\ Len(w2) = Len(w) + Len(Events(known, over, known, over2))
      /\ \A i \in 1 .. Len(w) : w2[i] = w[i]
  BY <1>1, ConcatIs
<1> QED BY <1>2

LEMMA OwnInit == Init => OwnInv
<1> SUFFICES ASSUME Init PROVE OwnInv
  OBVIOUS
<1>1. /\ known = {} /\ puts = <<>> /\ wire = <<>> /\ landed = 0 /\ server = None
      /\ rows = None
  BY DEF Init
<1>2. ViewInv(known, puts, wire) /\ KnownLike(known, puts, wire)
  BY <1>1 DEF ViewInv, KnownLike
<1>3. StampFollows(puts) /\ LandedStamps
  <2>1. \A i \in 1 .. Len(puts) : FALSE
    BY <1>1, EmptySeq
  <2>2. \A i \in 1 .. landed : FALSE
    BY <1>1
  <2> QED BY <2>1, <2>2 DEF StampFollows, LandedStamps
<1>4. LikeInv(puts, wire)
  <2>1. ASSUME NEW p \in PostIds, NEW v \in Post, Final(wire, rows[p], p, v)
        PROVE  v = Nothing
    <3>1. v = rows[p]
      BY <1>1, <2>1, FinalEmpty
    <3> QED BY <1>1, <3>1, PostsAre
  <2> QED BY <2>1 DEF LikeInv, LikeAt
<1> QED BY <1>2, <1>3, <1>4 DEF OwnInv

(* One more write is laid over the view.  The queue w may have lost a      *)
(* completion for the post of the write, not for another one.              *)
LEMMA OwnPut ==
  ASSUME TypeInv, NEW w \in Seq(Block), NEW over \in Seq(Put), NEW put \in Put,
         NEW over2, over2 = Append(over, put),
         NEW w2, w2 = w \o Events(known, over, known, over2),
         ViewInv(known, over, w),
         \A K \in known : \A p \in PostIds \ {put.post} :
           Settled(over, w, p) /\ K[p] # Nothing => K[p].like = server[p].like,
         ~hole => \A p \in PostIds \ (lost \cup {put.post}) :
                    Settled(over, w, p) => LikeAt(w, p)
  PROVE  /\ over2 \in Seq(Put) /\ w2 \in Seq(Block)
         /\ ViewInv(known, over2, w2) /\ KnownLike(known, over2, w2)
         /\ LikeInv(over2, w2)
<1>1. /\ over2 \in Seq(Put) /\ Len(over) \in Nat /\ Len(over2) = Len(over) + 1
      /\ over2[Len(over) + 1] = put /\ \A i \in 1 .. Len(over) : over2[i] = over[i]
  BY AppendIs
<1>2. w2 \in Seq(Block) /\ ViewInv(known, over2, w2)
  BY <1>1, ViewLay
<1>3. \A i \in 1 .. Len(w) : i \in 1 .. Len(w2) /\ w2[i] = w[i]
  BY <1>1, LayKeeps
<1>4. ASSUME NEW p \in PostIds, Settled(over2, w2, p)
      PROVE  p # put.post /\ Settled(over, w, p)
  <2>1. Len(over) + 1 \in 1 .. Len(over2) /\ 1 .. Len(over) \subseteq 1 .. Len(over2)
    BY <1>1
  <2> QED BY <1>1, <1>3, <1>4, <2>1 DEF Settled
<1>5. KnownLike(known, over2, w2)
  BY <1>4 DEF KnownLike
<1>6. ASSUME ~hole, NEW p \in PostIds \ lost, Settled(over2, w2, p)
      PROVE  LikeAt(w2, p)
  <2>1. p # put.post /\ Settled(over, w, p)
    BY <1>4, <1>6
  <2>2. LikeAt(w, p)
    BY <1>6, <2>1
  <2>3. \A i \in 1 .. Len(over2) : over2[i].post # p
    BY <1>6 DEF Settled
  <2>4. \A K \in known : K[p] # Nothing => K[p].like = server[p].like
    BY <2>1
  <2> QED BY <1>1, <2>2, <2>3, <2>4, LikeLay
<1>7. LikeInv(over2, w2)
  BY <1>6 DEF LikeInv
<1> QED BY <1>1, <1>2, <1>5, <1>7

(* A like's stamp follows it.                                              *)
LEMMA StampAppended ==
  ASSUME NEW over \in Seq(Put), NEW put \in Put, NEW over2,
         over2 = Append(over, put), put.kind # "like",
         \/ StampFollows(over)
         \/ /\ put.kind = "stamp"
            /\ \A i \in 1 .. Len(over) : over[i].kind = "like" =>
                 \/ over[i].post = put.post
                 \/ \E j \in 1 .. Len(over) : /\ j > i /\ over[j].kind = "stamp"
                                              /\ over[j].post = over[i].post
  PROVE  StampFollows(over2)
<1>1. /\ over2 \in Seq(Put) /\ Len(over) \in Nat /\ Len(over2) = Len(over) + 1
      /\ over2[Len(over) + 1] = put /\ \A i \in 1 .. Len(over) : over2[i] = over[i]
  BY AppendIs
<1> SUFFICES ASSUME NEW i \in 1 .. Len(over2), over2[i].kind = "like"
             PROVE  \E j \in 1 .. Len(over2) : /\ j > i /\ over2[j].kind = "stamp"
                                               /\ over2[j].post = over2[i].post
  BY DEF StampFollows
<1>2. i \in 1 .. Len(over)
  BY <1>1
<1>3. \A j \in 1 .. Len(over) : j \in 1 .. Len(over2)
  BY <1>1
<1>4. Len(over) + 1 \in 1 .. Len(over2) /\ Len(over) + 1 > i
  BY <1>1, <1>2
<1>5. over[i].kind = "like" /\ over2[i] = over[i]
  BY <1>1, <1>2
<1>6. CASE \E j \in 1 .. Len(over) : /\ j > i /\ over[j].kind = "stamp"
                                     /\ over[j].post = over[i].post
  BY <1>1, <1>3, <1>5, <1>6
<1>7. CASE put.kind = "stamp" /\ over[i].post = put.post
  BY <1>1, <1>4, <1>5, <1>7
<1> QED BY <1>2, <1>5, <1>6, <1>7 DEF StampFollows

(* A step that lays writes over the view and leaves the rest.              *)
LEMMA OwnLaid ==
  ASSUME TypeInv, OwnInv,
         ViewInv(known, puts', wire'), KnownLike(known, puts', wire'),
         LikeInv(puts', wire'), StampFollows(puts'),
         \A i \in 1 .. Len(puts) : puts'[i] = puts[i],
         UNCHANGED <<db, from, known, landed, app, hole, lost>>
  PROVE  OwnInv'
<1> DEFINE over == puts'
           w == wire'
<1>1. ViewInv(known, over, w) /\ KnownLike(known, over, w) /\ LikeInv(over, w)
  OBVIOUS
<1>2. over = puts' /\ w = wire'
  OBVIOUS
<1>3. /\ rows' = rows /\ server' = server /\ from' = from /\ known' = known
      /\ landed' = landed /\ hole' = hole /\ lost' = lost
  BY DEF db, app
<1>4. ViewInv(known, puts, wire)'
  BY <1>3 DEF ViewInv, Laid, InRange, Final, Shows
<1>5. KnownLike(known, puts, wire)'
  BY <1>3 DEF KnownLike, Settled
<1>6. LikeInv(puts, wire)'
  BY <1>3 DEF LikeInv, LikeAt, Settled, Final, Shows
<1>7. StampFollows(puts)'
  BY DEF StampFollows
<1>8. LandedStamps'
  <2>1. landed \in 0 .. Len(puts) /\ Len(puts) \in Nat
    BY LenProperties DEF TypeInv, TypeOK
  <2>2. \A i \in 1 .. landed : puts'[i] = puts[i]
    BY <2>1
  <2> QED BY <1>3, <2>2 DEF OwnInv, LandedStamps
<1> QED BY <1>4, <1>5, <1>6, <1>7, <1>8 DEF OwnInv

LEMMA OwnTap ==
  ASSUME BaseInv, OwnInv, NEW p \in PostIds, OnLikeSubmit(p)
  PROVE  OwnInv'
<1>1. /\ TypeInv /\ wire \in Seq(Block) /\ puts \in Seq(Put)
      /\ ViewInv(known, puts, wire) /\ KnownLike(known, puts, wire)
      /\ LikeInv(puts, wire) /\ StampFollows(puts)
      /\ UNCHANGED <<db, from, known, landed, app, hole, lost>>
  BY DEF OnLikeSubmit, BaseInv, TypeInv, TypeOK, OwnInv
<1>2. ASSUME NEW put \in Put, put.kind = "unlike", put.post = p,
             puts' = Append(puts, put),
             wire' = wire \o Events(known, puts, known, Append(puts, put))
      PROVE  OwnInv'
  <2>1. \A K \in known : \A q \in PostIds \ {put.post} :
          Settled(puts, wire, q) /\ K[q] # Nothing => K[q].like = server[q].like
    BY <1>1 DEF KnownLike
  <2>2. ~hole => \A q \in PostIds \ (lost \cup {put.post}) :
                   Settled(puts, wire, q) => LikeAt(wire, q)
    BY <1>1 DEF LikeInv
  <2>3. /\ ViewInv(known, puts', wire') /\ KnownLike(known, puts', wire')
        /\ LikeInv(puts', wire')
    <3> DEFINE more == Append(puts, put)
               w == wire \o Events(known, puts, known, more)
    <3>1. more = Append(puts, put) /\ w = wire \o Events(known, puts, known, more)
      OBVIOUS
    <3>2. puts' = more /\ wire' = w
      BY <1>2
    <3> HIDE DEF more, w
    <3>3. ViewInv(known, more, w) /\ KnownLike(known, more, w) /\ LikeInv(more, w)
      BY <1>1, <2>1, <2>2, <3>1, OwnPut
    <3> QED BY <3>2, <3>3
  <2>4. StampFollows(puts') /\ \A i \in 1 .. Len(puts) : puts'[i] = puts[i]
    <3>1. put.kind # "like"
      BY <1>2
    <3>2. StampFollows(puts')
      BY <1>1, <1>2, <3>1, StampAppended
    <3>3. \A i \in 1 .. Len(puts) : puts'[i] = puts[i]
      BY <1>1, <1>2, AppendIs
    <3> QED BY <3>2, <3>3
  <2> QED BY <1>1, <2>3, <2>4, OwnLaid
<1>3. ASSUME NEW put \in Put, NEW stamp \in Put, put.kind = "like", put.post = p,
             stamp.kind = "stamp", stamp.post = p,
             puts' = Append(Append(puts, put), stamp),
             wire' = (wire \o Events(known, puts, known, Append(puts, put)))
                   \o Events(known, Append(puts, put), known,
                             Append(Append(puts, put), stamp))
      PROVE  OwnInv'
  <2> DEFINE one == Append(puts, put)
             two == Append(one, stamp)
             w == wire \o Events(known, puts, known, one)
             w2 == w \o Events(known, one, known, two)
  <2>1. /\ one = Append(puts, put) /\ two = Append(one, stamp)
        /\ w = wire \o Events(known, puts, known, one)
        /\ w2 = w \o Events(known, one, known, two)
    OBVIOUS
  <2>2. puts' = two /\ wire' = w2
    BY <1>3
  <2> HIDE DEF one, two, w, w2
  <2>3. \A K \in known : \A q \in PostIds \ {put.post} :
          Settled(puts, wire, q) /\ K[q] # Nothing => K[q].like = server[q].like
    BY <1>1 DEF KnownLike
  <2>4. ~hole => \A q \in PostIds \ (lost \cup {put.post}) :
                   Settled(puts, wire, q) => LikeAt(wire, q)
    BY <1>1 DEF LikeInv
  <2>5. /\ one \in Seq(Put) /\ w \in Seq(Block) /\ ViewInv(known, one, w)
        /\ KnownLike(known, one, w) /\ LikeInv(one, w)
    BY <1>1, <2>1, <2>3, <2>4, OwnPut
  <2>6. \A K \in known : \A q \in PostIds \ {stamp.post} :
          Settled(one, w, q) /\ K[q] # Nothing => K[q].like = server[q].like
    BY <2>5 DEF KnownLike
  <2>7. ~hole => \A q \in PostIds \ (lost \cup {stamp.post}) :
                   Settled(one, w, q) => LikeAt(w, q)
    BY <2>5 DEF LikeInv
  <2>8. ViewInv(known, two, w2) /\ KnownLike(known, two, w2) /\ LikeInv(two, w2)
    <3>1. TypeInv /\ two = Append(one, stamp)
          /\ w2 = w \o Events(known, one, known, two)
      BY <1>1, <2>1
    <3>2. one \in Seq(Put) /\ w \in Seq(Block) /\ ViewInv(known, one, w)
      BY <2>5
    <3> QED BY <3>1, <3>2, <2>6, <2>7, OwnPut
  <2>9. /\ Len(puts) \in Nat /\ Len(one) = Len(puts) + 1
        /\ one[Len(puts) + 1] = put /\ \A i \in 1 .. Len(puts) : one[i] = puts[i]
    BY <1>1, <2>1, AppendIs
  <2>10. \A i \in 1 .. Len(one) : two[i] = one[i]
    BY <2>1, <2>5, AppendIs
  <2>11. \A i \in 1 .. Len(one) : one[i].kind = "like" =>
           \/ one[i].post = stamp.post
           \/ \E j \in 1 .. Len(one) : /\ j > i /\ one[j].kind = "stamp"
                                       /\ one[j].post = one[i].post
    <3> SUFFICES ASSUME NEW i \in 1 .. Len(one), one[i].kind = "like",
                        one[i].post # stamp.post
                 PROVE  \E j \in 1 .. Len(one) : /\ j > i /\ one[j].kind = "stamp"
                                                 /\ one[j].post = one[i].post
      OBVIOUS
    <3>1. i # Len(puts) + 1
      BY <1>3, <2>9
    <3>2. i \in 1 .. Len(puts) /\ one[i] = puts[i]
      BY <2>9, <3>1
    <3>3. PICK j \in 1 .. Len(puts) : /\ j > i /\ puts[j].kind = "stamp"
                                      /\ puts[j].post = puts[i].post
      BY <1>1, <3>2 DEF StampFollows
    <3>4. j \in 1 .. Len(one) /\ one[j] = puts[j]
      BY <2>9
    <3> QED BY <3>2, <3>3, <3>4
  <2>12. StampFollows(two)
    BY <1>3, <2>1, <2>5, <2>11, StampAppended
  <2>13. \A i \in 1 .. Len(puts) : puts'[i] = puts[i]
    BY <2>2, <2>9, <2>10
  <2>14. /\ ViewInv(known, puts', wire') /\ KnownLike(known, puts', wire')
         /\ LikeInv(puts', wire') /\ StampFollows(puts')
    BY <2>2, <2>8, <2>12
  <2> QED BY <1>1, <2>13, <2>14, OwnLaid
<1>4. \/ \E put \in Put :
           /\ put.kind = "unlike" /\ put.post = p
           /\ puts' = Append(puts, put)
           /\ wire' = wire \o Events(known, puts, known, Append(puts, put))
      \/ \E put \in Put, stamp \in Put :
           /\ put.kind = "like" /\ put.post = p
           /\ stamp.kind = "stamp" /\ stamp.post = p
           /\ puts' = Append(Append(puts, put), stamp)
           /\ wire' = (wire \o Events(known, puts, known, Append(puts, put)))
                \o Events(known, Append(puts, put), known,
                          Append(Append(puts, put), stamp))
  BY <1>1, TapPuts
<1> QED BY <1>2, <1>3, <1>4

(* Nothing of the head of the queue is left out.                           *)
LEMMA OwnTail ==
  ASSUME TypeInv, wire # <<>>, Head(wire).kind = "removed",
         ViewInv(known, puts, wire), KnownLike(known, puts, wire),
         LikeInv(puts, wire), NEW w, w = Tail(wire)
  PROVE  /\ w \in Seq(Block) /\ ViewInv(known, puts, w)
         /\ \A K \in known : \A q \in PostIds \ {Head(wire).post} :
              Settled(puts, w, q) /\ K[q] # Nothing => K[q].like = server[q].like
         /\ ~hole => \A q \in PostIds \ (lost \cup {Head(wire).post}) :
                       Settled(puts, w, q) => LikeAt(w, q)
<1>1. /\ wire \in Seq(Block) /\ w \in Seq(Block)
      /\ Len(wire) \in Nat /\ Len(w) \in Nat /\ Len(wire) = Len(w) + 1
      /\ Head(wire) = wire[1]
      /\ \A i \in 1 .. Len(w) : i + 1 \in 1 .. Len(wire) /\ w[i] = wire[i + 1]
  <2>1. wire \in Seq(Block)
    BY DEF TypeInv, TypeOK
  <2> QED BY <2>1, TailIs
<1>2. \A p \in PostIds : ~Shows(Head(wire), p)
  BY DEF Shows
<1>3. \A p \in PostIds : \A v : Final(w, rows[p], p, v) => Final(wire, rows[p], p, v)
  BY <1>1, <1>2, FinalTail
<1>4. ViewInv(known, puts, w)
  BY <1>3 DEF ViewInv
<1>5. ASSUME NEW q \in PostIds \ {Head(wire).post}, Settled(puts, w, q)
      PROVE  Settled(puts, wire, q)
  <2> SUFFICES ASSUME NEW i \in 1 .. Len(wire), wire[i].kind = "removed"
               PROVE  wire[i].post # q
    BY <1>5 DEF Settled
  <2>1. CASE i = 1
    BY <1>1, <2>1
  <2>2. CASE i # 1
    <3>1. i - 1 \in 1 .. Len(w) /\ (i - 1) + 1 = i
      BY <1>1, <2>2
    <3>2. w[i - 1] = wire[i]
      BY <1>1, <3>1
    <3> QED BY <1>5, <3>1, <3>2 DEF Settled
  <2> QED BY <2>1, <2>2
<1>6. \A K \in known : \A q \in PostIds \ {Head(wire).post} :
        Settled(puts, w, q) /\ K[q] # Nothing => K[q].like = server[q].like
  BY <1>5 DEF KnownLike
<1>7. ASSUME ~hole, NEW q \in PostIds \ (lost \cup {Head(wire).post}),
             Settled(puts, w, q)
      PROVE  LikeAt(w, q)
  <2>1. LikeAt(wire, q)
    BY <1>5, <1>7 DEF LikeInv
  <2> QED BY <1>3, <2>1 DEF LikeAt
<1> QED BY <1>1, <1>4, <1>6, <1>7

LEMMA OwnRemoved ==
  ASSUME BaseInv, OwnInv, Removed
  PROVE  OwnInv'
<1>1. /\ TypeInv /\ wire \in Seq(Block) /\ puts \in Seq(Put)
      /\ ViewInv(known, puts, wire) /\ KnownLike(known, puts, wire)
      /\ LikeInv(puts, wire) /\ StampFollows(puts)
      /\ UNCHANGED <<db, from, known, landed, app, hole, lost>>
  BY DEF Removed, BaseInv, TypeInv, TypeOK, OwnInv
<1>2. PICK stamp \in Put :
        /\ stamp.kind = "stamp" /\ stamp.post = Head(wire).post
        /\ puts' = Append(puts, stamp)
        /\ wire' = Tail(wire) \o Events(known, puts, known, puts')
  BY <1>1, RemovedPuts
<1> DEFINE w == Tail(wire)
           more == Append(puts, stamp)
           w2 == w \o Events(known, puts, known, more)
<1>3. /\ w = Tail(wire) /\ more = Append(puts, stamp)
      /\ w2 = w \o Events(known, puts, known, more)
  OBVIOUS
<1>4. puts' = more /\ wire' = w2
  BY <1>2
<1> HIDE DEF w, more, w2
<1>5. wire # <<>> /\ Head(wire).kind = "removed"
  BY DEF Removed
<1>6. /\ w \in Seq(Block) /\ ViewInv(known, puts, w)
      /\ \A K \in known : \A q \in PostIds \ {stamp.post} :
           Settled(puts, w, q) /\ K[q] # Nothing => K[q].like = server[q].like
      /\ ~hole => \A q \in PostIds \ (lost \cup {stamp.post}) :
                    Settled(puts, w, q) => LikeAt(w, q)
  <2>1. stamp.post = Head(wire).post
    BY <1>2
  <2> QED BY <1>1, <1>3, <1>5, <2>1, OwnTail
<1>7. ViewInv(known, more, w2) /\ KnownLike(known, more, w2) /\ LikeInv(more, w2)
  BY <1>1, <1>3, <1>6, OwnPut, ZenonT(40)
<1>8. stamp.kind # "like"
  BY <1>2
<1>9. StampFollows(more)
  BY <1>1, <1>3, <1>8, StampAppended
<1>10. \A i \in 1 .. Len(puts) : more[i] = puts[i]
  BY <1>1, <1>3, AppendIs
<1> QED BY <1>1, <1>4, <1>7, <1>9, <1>10, OwnLaid

(* A step of the database that leaves the likes of settled posts.          *)
LEMMA OwnServer ==
  ASSUME TypeInv, OwnInv, LandedStamps',
         UNCHANGED <<from, known, puts, wire, app, hole, lost>>,
         \A p \in PostIds : Settled(puts, wire, p) => server'[p].like = server[p].like
  PROVE  OwnInv'
<1>1. /\ rows' = rows /\ from' = from /\ known' = known /\ puts' = puts
      /\ wire' = wire /\ hole' = hole /\ lost' = lost
  BY DEF app
<1>2. /\ ViewInv(known, puts, wire) /\ KnownLike(known, puts, wire)
      /\ StampFollows(puts) /\ LikeInv(puts, wire)
  BY DEF OwnInv
<1>3. ViewInv(known, puts, wire)'
  BY <1>1, <1>2 DEF ViewInv, Laid, InRange, Final, Shows
<1>4. KnownLike(known, puts, wire)'
  BY <1>1, <1>2 DEF KnownLike, Settled
<1>5. StampFollows(puts)'
  BY <1>1, <1>2 DEF StampFollows
<1>6. LikeInv(puts, wire)'
  <2> SUFFICES ASSUME ~hole', NEW p \in PostIds \ lost', Settled(puts, wire, p)',
                      NEW v \in Post, Final(wire, rows[p], p, v)', v # Nothing
               PROVE  v.like = server'[p].like
    BY DEF LikeInv, LikeAt
  <2>1. Settled(puts, wire, p) /\ Final(wire, rows[p], p, v)
    BY <1>1 DEF Settled, Final, Shows
  <2>2. LikeAt(wire, p)
    BY <1>1, <1>2, <2>1 DEF LikeInv
  <2>3. v.like = server[p].like
    BY <2>1, <2>2 DEF LikeAt
  <2> QED BY <2>1, <2>3
<1> QED BY <1>3, <1>4, <1>5, <1>6 DEF OwnInv

LEMMA OwnWrite ==
  ASSUME BaseInv, OwnInv, NEW p \in PostIds, Write(p)
  PROVE  OwnInv'
<1>1. /\ TypeInv /\ puts \in Seq(Put) /\ landed \in 0 .. Len(puts) /\ from \in Nat
      /\ server \in Posts /\ clock \in Nat
  BY DEF BaseInv, TypeInv, TypeOK
<1>2. /\ clock' \in Nat /\ clock' > clock /\ server'[p].ts = clock'
      /\ server'[p].like = server[p].like
      /\ \A q \in PostIds : q # p => server'[q] = server[q]
      /\ UNCHANGED <<from, known, puts, landed, wire, app, hole, lost>>
  BY <1>1, WriteIs DEF TypeInv, sdk
<1>3. \A q \in PostIds : server'[q].like = server[q].like
  BY <1>2
<1>4. \A q \in PostIds : from <= server[q].ts => from <= server'[q].ts
  <2>1. server[p].ts \in Nat /\ server[p].ts <= clock
    BY <1>1, PostIs DEF BaseInv, StampInv, Posts
  <2>2. from <= server[p].ts => from <= server'[p].ts
    BY <1>1, <1>2, <2>1
  <2> QED BY <1>2, <2>2
<1>5. LandedStamps'
  <2> SUFFICES ASSUME ~hole', NEW i \in 1 .. landed', puts'[i].kind = "stamp"
               PROVE  from' <= server'[puts'[i].post].ts
    BY DEF LandedStamps
  <2>1. ~hole /\ i \in 1 .. landed /\ puts'[i] = puts[i] /\ from' = from
    BY <1>2
  <2>2. i \in 1 .. Len(puts)
    BY <1>1, <2>1
  <2>3. puts[i].post \in PostIds
    BY <1>1, <2>2, ElementOfSeq, PutIs
  <2>4. from <= server[puts[i].post].ts
    BY <2>1 DEF OwnInv, LandedStamps
  <2> QED BY <1>4, <2>1, <2>3, <2>4
<1> QED BY <1>1, <1>2, <1>3, <1>5, OwnServer

LEMMA OwnLand ==
  ASSUME BaseInv, OwnInv, Land
  PROVE  OwnInv'
<1>1. /\ TypeInv /\ TypeOK /\ puts \in Seq(Put) /\ landed \in 0 .. Len(puts)
      /\ from \in Nat /\ server \in Posts /\ clock \in Nat /\ hole \in BOOLEAN
  BY DEF BaseInv, TypeInv, TypeOK
<1> DEFINE put == puts[landed + 1]
<1>2. /\ put \in Put /\ landed + 1 \in 1 .. Len(puts) /\ landed' = landed + 1
      /\ clock' \in Nat
      /\ put.kind = "stamp" => clock' > clock
      /\ put.kind # "stamp" => clock' = clock
      /\ server'[put.post].ts =
           IF put.kind = "stamp" THEN clock' ELSE server[put.post].ts
      /\ \A p \in PostIds : p # put.post => server'[p] = server[p]
      /\ UNCHANGED <<from, known, puts, wire, app, hole, lost>>
  BY <1>1, LandIs
<1>3. put = puts[landed + 1] /\ put.post \in PostIds
  BY <1>2, PutIs
<1> HIDE DEF put
<1>4. \A p \in PostIds : Settled(puts, wire, p) => server'[p].like = server[p].like
  BY <1>2, <1>3 DEF Settled
<1>5. \A q \in PostIds : from <= server[q].ts => from <= server'[q].ts
  <2>1. server[put.post].ts \in Nat /\ server[put.post].ts <= clock
    BY <1>1, <1>3, PostIs DEF BaseInv, StampInv, Posts
  <2>2. from <= server[put.post].ts => from <= server'[put.post].ts
    BY <1>1, <1>2, <2>1
  <2> QED BY <1>2, <2>2
<1>6. ~hole /\ put.kind = "stamp" => from <= server'[put.post].ts
  <2>1. ~hole => from <= clock + 1
    BY DEF BaseInv, StartInv
  <2>2. put.kind = "stamp" => server'[put.post].ts = clock' /\ clock' > clock
    BY <1>2
  <2>3. \A f, c, d \in Nat : d > c /\ f <= c + 1 => f <= d
    OBVIOUS
  <2>4. clock' > clock /\ from <= clock + 1 => from <= clock'
    BY <1>1, <1>2, <2>3, Zenon
  <2> QED BY <2>1, <2>2, <2>4, Zenon
<1>7. LandedStamps'
  <2> SUFFICES ASSUME ~hole', NEW i \in 1 .. landed', puts'[i].kind = "stamp"
               PROVE  from' <= server'[puts'[i].post].ts
    BY DEF LandedStamps
  <2>1. ~hole /\ puts'[i] = puts[i] /\ from' = from /\ puts[i].kind = "stamp"
    BY <1>2
  <2>2. CASE i = landed + 1
    BY <1>3, <1>6, <2>1, <2>2
  <2>3. CASE i # landed + 1
    <3>1. i \in 1 .. landed /\ i \in 1 .. Len(puts)
      BY <1>1, <1>2, <2>3
    <3>2. puts[i].post \in PostIds
      BY <1>1, <3>1, ElementOfSeq, PutIs
    <3>3. from <= server[puts[i].post].ts
      BY <2>1, <3>1 DEF OwnInv, LandedStamps
    <3> QED BY <1>5, <2>1, <3>2, <3>3
  <2> QED BY <2>2, <2>3
<1> QED BY <1>1, <1>2, <1>4, <1>7, OwnServer

LEMMA OwnDrop ==
  ASSUME BaseInv, OwnInv, Drop
  PROVE  OwnInv'
<1>1. /\ TypeInv /\ landed' = 0
      /\ UNCHANGED <<db, from, known, puts, wire, app, hole, lost>>
  BY DEF Drop, BaseInv
<1>2. LandedStamps'
  <2>1. \A i \in 1 .. landed' : FALSE
    BY <1>1
  <2> QED BY <2>1 DEF LandedStamps
<1>3. \A p \in PostIds : server'[p].like = server[p].like
  BY <1>1 DEF db
<1> QED BY <1>1, <1>2, <1>3, OwnServer

LEMMA OwnLaunch ==
  ASSUME BaseInv, OwnInv, Launch
  PROVE  OwnInv'
<1>1. /\ known = {} /\ landed = 0
  BY DEF BaseInv, DownInv, Launch
<1>2. /\ server' = server /\ rows' = rows /\ known' = known /\ puts' = puts
      /\ landed' = landed /\ wire' = wire /\ hole' = hole /\ lost' = lost
  BY DEF Launch, db
<1>3. ViewInv(known, puts, wire)' /\ KnownLike(known, puts, wire)'
  BY <1>1, <1>2 DEF ViewInv, KnownLike
<1>4. StampFollows(puts)'
  BY <1>2 DEF OwnInv, StampFollows
<1>5. LandedStamps'
  <2>1. \A i \in 1 .. landed' : FALSE
    BY <1>1, <1>2
  <2> QED BY <2>1 DEF LandedStamps
<1>6. LikeInv(puts, wire)'
  BY <1>2 DEF OwnInv, LikeInv, LikeAt, Settled, Final, Shows
<1> QED BY <1>3, <1>4, <1>5, <1>6 DEF OwnInv

LEMMA OwnStop ==
  ASSUME BaseInv, OwnInv, Stop
  PROVE  OwnInv'
<1>1. /\ known' = {} /\ puts' = <<>> /\ landed' = 0 /\ wire' = <<>>
      /\ hole' = (hole \/ claim = "estimate")
      /\ lost' = lost \cup {puts[i].post : i \in DOMAIN puts}
                  \cup {wire[i].post : i \in {j \in DOMAIN wire :
                                               wire[j].kind = "removed"}}
                  \cup UNION {Delivered(wire[i].posts) :
                                i \in {j \in DOMAIN wire : wire[j].kind = "event"}}
      /\ server' = server /\ rows' = rows
  BY DEF Stop, db
<1>2. puts \in Seq(Put) /\ wire \in Seq(Block) /\ rows \in Posts
  BY DEF BaseInv, TypeInv, TypeOK
<1>3. DOMAIN puts = 1 .. Len(puts) /\ DOMAIN wire = 1 .. Len(wire)
  BY <1>2, LenProperties
<1>4. ViewInv(known, puts, wire)' /\ KnownLike(known, puts, wire)'
  BY <1>1 DEF ViewInv, KnownLike
<1>5. StampFollows(puts)' /\ LandedStamps'
  <2>1. \A i \in 1 .. Len(puts') : FALSE
    BY <1>1, EmptySeq
  <2>2. \A i \in 1 .. landed' : FALSE
    BY <1>1
  <2> QED BY <2>1, <2>2 DEF StampFollows, LandedStamps
<1>6. ASSUME ~hole', NEW p \in PostIds \ lost', NEW v \in Post,
             Final(wire', rows'[p], p, v), v # Nothing
      PROVE  v.like = server'[p].like
  <2>1. ~hole /\ p \in PostIds \ lost
    <3>1. ~hole
      BY <1>1, <1>6, Zenon
    <3>2. p \in PostIds \ lost
      BY <1>1, <1>6
    <3> QED BY <3>1, <3>2
  <2>2. \A i \in 1 .. Len(puts) : puts[i].post # p
    BY <1>1, <1>3, <1>6
  <2>3. \A i \in 1 .. Len(wire) : wire[i].kind = "removed" => wire[i].post # p
    BY <1>1, <1>3, <1>6
  <2>4. \A i \in 1 .. Len(wire) : ~Shows(wire[i], p)
    <3> SUFFICES ASSUME NEW i \in 1 .. Len(wire), Shows(wire[i], p) PROVE FALSE
      OBVIOUS
    <3>1. wire[i].kind = "event" /\ p \in Delivered(wire[i].posts)
      BY DEF Shows, Delivered
    <3>2. i \in {j \in DOMAIN wire : wire[j].kind = "event"}
      BY <1>3, <3>1
    <3>3. p \in UNION {Delivered(wire[j].posts) :
                         j \in {k \in DOMAIN wire : wire[k].kind = "event"}}
      BY <3>1, <3>2
    <3> QED BY <1>1, <1>6, <3>3
  <2>5. v = rows[p]
    BY <1>1, <1>6, FinalEmpty
  <2>6. Settled(puts, wire, p)
    BY <2>2, <2>3 DEF Settled
  <2>7. Final(wire, rows[p], p, v)
    BY <2>4, <2>5 DEF Final
  <2>8. LikeAt(wire, p)
    BY <2>1, <2>6 DEF OwnInv, LikeInv
  <2> QED BY <1>1, <1>6, <2>7, <2>8 DEF LikeAt
<1>7. LikeInv(puts, wire)'
  <2> SUFFICES ASSUME ~hole', NEW p \in PostIds \ lost', NEW v \in Post,
                      Final(wire, rows[p], p, v)', v # Nothing
               PROVE  v.like = server'[p].like
    BY DEF LikeInv, LikeAt
  <2>1. Final(wire', rows'[p], p, v)
    BY DEF Final, Shows
  <2> QED BY <1>6, <2>1
<1> QED BY <1>4, <1>5, <1>7 DEF OwnInv

LEMMA OwnEvent ==
  ASSUME BaseInv, OwnInv, Event
  PROVE  OwnInv'
<1> DEFINE e == Head(wire)
<1>1. TypeInv /\ TypeOK /\ wire \in Seq(Block)
  BY DEF BaseInv, TypeInv, TypeOK
<1>2. /\ wire # <<>> /\ wire' = Tail(wire) /\ e.kind = "event" /\ e.posts \in Posts
      /\ Store(e.posts) /\ UNCHANGED <<db, up, sdk, hole, lost, count>>
  BY <1>1, EventIs
<1>3. \A p \in PostIds :
        rows'[p] = IF e.posts[p] # Nothing THEN e.posts[p] ELSE rows[p]
  BY <1>1, <1>2, StoreIs
<1>4. \A p \in PostIds : /\ Shows(e, p) => rows'[p] = e.posts[p]
                         /\ ~Shows(e, p) => rows'[p] = rows[p]
  BY <1>2, <1>3 DEF Shows
<1>5. /\ server' = server /\ from' = from /\ known' = known /\ puts' = puts
      /\ landed' = landed /\ hole' = hole /\ lost' = lost
  BY <1>2 DEF db, sdk
<1> DEFINE w == wire'
<1>6. w = wire' /\ w = Tail(wire) /\ e = Head(wire)
  BY <1>2
<1> HIDE DEF w, e
<1>7. ASSUME NEW p \in PostIds, NEW v, Final(w, rows'[p], p, v)
      PROVE  Final(wire, rows[p], p, v)
  <2> DEFINE row == rows'[p]
  <2>1. /\ Shows(Head(wire), p) => row = Head(wire).posts[p]
        /\ ~Shows(Head(wire), p) => row = rows[p]
    BY <1>4, <1>6
  <2>2. Final(w, row, p, v)
    BY <1>7
  <2> HIDE DEF row
  <2> QED BY <1>1, <1>2, <1>6, <2>1, <2>2, FinalTail
<1>8. /\ Len(wire) \in Nat /\ Len(w) \in Nat /\ Len(wire) = Len(w) + 1
      /\ e = wire[1]
      /\ \A i \in 1 .. Len(w) : i + 1 \in 1 .. Len(wire) /\ w[i] = wire[i + 1]
  BY <1>1, <1>2, <1>6, TailIs
<1>9. ASSUME NEW q \in PostIds, Settled(puts, w, q)
      PROVE  Settled(puts, wire, q)
  <2> SUFFICES ASSUME NEW i \in 1 .. Len(wire), wire[i].kind = "removed"
               PROVE  wire[i].post # q
    BY <1>9 DEF Settled
  <2>1. i # 1
    BY <1>2, <1>8
  <2>2. i - 1 \in 1 .. Len(w) /\ (i - 1) + 1 = i
    BY <1>8, <2>1
  <2>3. w[i - 1] = wire[i]
    BY <1>8, <2>2
  <2> QED BY <1>9, <2>2, <2>3 DEF Settled
<1>10. ViewInv(known, puts, wire)'
  <2> SUFFICES ASSUME NEW K \in known', NEW p \in PostIds, NEW v \in Post,
                      Laid(K, puts)'[p] # Nothing, Final(wire, rows[p], p, v)'
               PROVE  v = Laid(K, puts)'[p]
    BY DEF ViewInv
  <2>1. Laid(K, puts)' = Laid(K, puts)
    BY <1>5 DEF Laid, InRange
  <2>2. Final(w, rows'[p], p, v)
    BY <1>6 DEF Final, Shows
  <2> QED BY <1>5, <1>7, <2>1, <2>2 DEF OwnInv, ViewInv
<1>11. KnownLike(known, puts, wire)'
  <2> SUFFICES ASSUME NEW K \in known', NEW p \in PostIds, Settled(puts, wire, p)',
                      K[p] # Nothing
               PROVE  K[p].like = server'[p].like
    BY DEF KnownLike
  <2>1. Settled(puts, w, p)
    BY <1>5, <1>6 DEF Settled
  <2> QED BY <1>5, <1>9, <2>1 DEF OwnInv, KnownLike
<1>12. StampFollows(puts)' /\ LandedStamps'
  BY <1>5 DEF OwnInv, StampFollows, LandedStamps
<1>13. LikeInv(puts, wire)'
  <2> SUFFICES ASSUME ~hole', NEW p \in PostIds \ lost', Settled(puts, wire, p)',
                      NEW v \in Post, Final(wire, rows[p], p, v)', v # Nothing
               PROVE  v.like = server'[p].like
    BY DEF LikeInv, LikeAt
  <2>1. Settled(puts, w, p) /\ Final(w, rows'[p], p, v)
    BY <1>5, <1>6 DEF Settled, Final, Shows
  <2>2. LikeAt(wire, p)
    BY <1>5, <1>9, <2>1 DEF OwnInv, LikeInv
  <2> QED BY <1>5, <1>7, <2>1, <2>2 DEF LikeAt
<1> QED BY <1>10, <1>11, <1>12, <1>13 DEF OwnInv

(* The writes and the queue after news of the server.                      *)
LEMMA HeardBlocks ==
  ASSUME BaseInv, Receive
  PROVE  \E w2 \in Seq(Block) :
           /\ wire' \in Seq(Block) /\ Completed(w2, wire')
           /\ \/ /\ w2 = wire
                 /\ \E K \in Posts : known = {K} /\ Laid(K, puts) = Laid(Heard, Rest)
              \/ Longer(wire, Raised(Heard, Rest), w2)
           /\ \A n \in 1 .. landed : puts[n].kind = "unlike" =>
                \E i \in 1 .. Len(wire') : /\ wire'[i].kind = "removed"
                                           /\ wire'[i].post = puts[n].post
<1>1. TypeInv /\ wire \in Seq(Block) /\ puts \in Seq(Put) /\ landed \in 0 .. Len(puts)
  BY DEF BaseInv, TypeInv, TypeOK
<1> DEFINE done == SubSeq(puts, 1, landed)
           w2 == wire \o Events(known, puts, {Heard}, Rest)
<1>2. PICK removals \in Removals(done) : wire' = w2 \o removals
  BY <1>1, ReceiveIs
<1>3. /\ done \in Seq(Put) /\ Len(done) = landed
      /\ \A n \in 1 .. landed : done[n] = puts[n]
  BY <1>1, FirstIs
<1>4. w2 \in Seq(Block)
  BY <1>1, ReceiveEventsType, ConcatIs
<1>5. \/ /\ w2 = wire
         /\ \E K \in Posts : known = {K} /\ Laid(K, puts) = Laid(Heard, Rest)
      \/ Longer(wire, Raised(Heard, Rest), w2)
  BY <1>1, HearIs
<1> DEFINE w3 == wire'
<1>6. w3 = w2 \o removals /\ removals \in Removals(done)
  BY <1>2
<1> HIDE DEF done, w2
<1> HIDE DEF w3
<1>7. /\ Completed(w2, w3)
      /\ \A n \in 1 .. Len(done) : done[n].kind = "unlike" =>
           \E i \in 1 .. Len(w3) : /\ w3[i].kind = "removed"
                                   /\ w3[i].post = done[n].post
  <2>1. done \in Seq(Put) /\ w3 = w2 \o removals /\ removals \in Removals(done)
    BY <1>3, <1>6
  <2>2. Completed(w2, w3)
    BY <1>4, <2>1, CompletedIs
  <2>3. ASSUME NEW n \in 1 .. Len(done), done[n].kind = "unlike"
        PROVE  \E i \in 1 .. Len(w3) : /\ w3[i].kind = "removed"
                                        /\ w3[i].post = done[n].post
    <3>1. /\ removals \in Seq(Block)
          /\ \A k \in 1 .. Len(removals) : removals[k].kind = "removed"
      BY <2>1, RemovalsAre
    <3>2. PICK k \in 1 .. Len(removals) : removals[k].post = done[n].post
      BY <2>1, <2>3, RemovalsAre
    <3>3. /\ Len(w2) \in Nat /\ Len(removals) \in Nat
          /\ Len(w3) = Len(w2) + Len(removals) /\ w3[Len(w2) + k] = removals[k]
      BY <1>4, <2>1, <3>1, ConcatIs
    <3>4. Len(w2) + k \in 1 .. Len(w3)
      BY <3>3
    <3> QED BY <3>1, <3>2, <3>3, <3>4
  <2> QED BY <2>2, <2>3
<1>8. /\ w3 \in Seq(Block)
      /\ \A n \in 1 .. landed : puts[n].kind = "unlike" =>
           \E i \in 1 .. Len(w3) : /\ w3[i].kind = "removed"
                                   /\ w3[i].post = puts[n].post
  BY <1>3, <1>7 DEF Completed
<1>9. wire' = w3
  BY DEF w3
<1>10. Completed(w2, w3)
  BY <1>7
<1> QED BY <1>4, <1>5, <1>8, <1>9, <1>10

(* A post of which nothing is left to come was settled before, if the      *)
(* query does not ask for it.                                              *)
LEMMA SettledBefore ==
  ASSUME BaseInv, OwnInv, ~hole, NEW p \in PostIds, ~(from <= server[p].ts),
         NEW w2, NEW w3, Settled(Rest, w3, p),
         \A i \in 1 .. Len(wire) : w2[i] = wire[i] /\ i \in 1 .. Len(w2),
         Completed(w2, w3),
         \A n \in 1 .. landed : puts[n].kind = "unlike" =>
           \E i \in 1 .. Len(w3) : w3[i].kind = "removed" /\ w3[i].post = puts[n].post
  PROVE  Settled(puts, wire, p)
<1>1. puts \in Seq(Put) /\ landed \in 0 .. Len(puts) /\ Len(puts) \in Nat
  BY LenProperties DEF BaseInv, TypeInv, TypeOK
<1>2. /\ Len(Rest) = Len(puts) - landed
      /\ \A i \in 1 .. Len(Rest) : Rest[i] = puts[landed + i]
  BY <1>1, RestIs DEF Rest
<1>3. ASSUME NEW i \in 1 .. Len(puts), i > landed PROVE puts[i].post # p
  <2>1. i - landed \in 1 .. Len(Rest) /\ landed + (i - landed) = i
    BY <1>1, <1>2, <1>3
  <2>2. Rest[i - landed] = puts[i]
    BY <1>2, <2>1
  <2> QED BY <2>1, <2>2 DEF Settled
<1>4. ASSUME NEW i \in 1 .. Len(puts), i <= landed, puts[i].kind = "stamp"
      PROVE  puts[i].post # p
  <2>1. i \in 1 .. landed
    BY <1>1, <1>4
  <2>2. from <= server[puts[i].post].ts
    BY <1>4, <2>1 DEF OwnInv, LandedStamps
  <2> QED BY <2>2
<1>5. ASSUME NEW i \in 1 .. Len(puts), puts[i].post = p PROVE FALSE
  <2>1. i \in 1 .. landed /\ puts[i].kind # "stamp"
    BY <1>1, <1>3, <1>4, <1>5
  <2>2. puts[i].kind \in {"like", "unlike", "stamp"}
    BY <1>1, ElementOfSeq, PutIs
  <2>3. CASE puts[i].kind = "unlike"
    BY <1>5, <2>1, <2>3 DEF Settled
  <2>4. CASE puts[i].kind = "like"
    <3>1. PICK j \in 1 .. Len(puts) : /\ j > i /\ puts[j].kind = "stamp"
                                      /\ puts[j].post = p
      BY <1>5, <2>4 DEF OwnInv, StampFollows
    <3>2. j > landed \/ j <= landed
      BY <1>1
    <3> QED BY <1>3, <1>4, <3>1, <3>2
  <2> QED BY <2>1, <2>2, <2>3, <2>4
<1>6. \A i \in 1 .. Len(wire) : i \in 1 .. Len(w3) /\ w3[i] = wire[i]
  BY DEF Completed
<1>7. \A i \in 1 .. Len(wire) : wire[i].kind = "removed" => wire[i].post # p
  BY <1>6 DEF Settled
<1> QED BY <1>5, <1>7 DEF Settled

LEMMA OwnReceive ==
  ASSUME BaseInv, OwnInv, Receive
  PROVE  OwnInv'
<1>1. /\ TypeInv /\ TypeOK /\ wire \in Seq(Block) /\ puts \in Seq(Put)
      /\ landed \in 0 .. Len(puts) /\ from \in Nat /\ server \in Posts
  BY DEF BaseInv, TypeInv, TypeOK
<1>2. /\ up /\ known' = {Heard} /\ puts' = Rest /\ landed' = 0
      /\ UNCHANGED <<db, up, from, app, hole, lost, count>>
  BY <1>1, ReceiveIs
<1>3. /\ server' = server /\ rows' = rows /\ from' = from /\ hole' = hole
      /\ lost' = lost
  BY <1>2 DEF db, app
<1>4. Heard \in Posts /\ Rest \in Seq(Put)
  BY <1>1, ReceiveEventsType
<1>5. \A p \in PostIds : /\ server[p].ts >= from => Heard[p] = server[p]
                         /\ ~(server[p].ts >= from) => Heard[p] = Nothing
  BY <1>1, HeardIs
<1> DEFINE H == Heard
           R == Rest
           w3 == wire'
<1>6. PICK w2 \in Seq(Block) :
        /\ w3 \in Seq(Block) /\ Completed(w2, w3)
        /\ \/ /\ w2 = wire
              /\ \E K \in Posts : known = {K} /\ Laid(K, puts) = Laid(H, R)
           \/ Longer(wire, Raised(H, R), w2)
        /\ \A n \in 1 .. landed : puts[n].kind = "unlike" =>
             \E i \in 1 .. Len(w3) : /\ w3[i].kind = "removed"
                                     /\ w3[i].post = puts[n].post
  BY HeardBlocks
<1>7. /\ H \in Posts /\ R \in Seq(Put) /\ known' = {H} /\ puts' = R /\ wire' = w3
      /\ H = Heard /\ R = Rest
  BY <1>2, <1>4
<1> HIDE DEF H, R, w3
<1>8. ViewInv({H}, R, w2)
  <2>1. ASSUME NEW K \in Posts, w2 = wire, known = {K}, Laid(K, puts) = Laid(H, R)
        PROVE  ViewInv({H}, R, w2)
    BY <2>1 DEF OwnInv, ViewInv
  <2>2. CASE Longer(wire, Raised(H, R), w2)
    BY <1>1, <1>7, <2>2, ViewRaise
  <2> QED BY <1>6, <2>1, <2>2
<1>9. \A p \in PostIds : \A v : Final(w3, rows[p], p, v) => Final(w2, rows[p], p, v)
  BY <1>6, FinalCompleted
<1>10. ViewInv(known, puts, wire)'
  <2> SUFFICES ASSUME NEW K \in known', NEW p \in PostIds, NEW v \in Post,
                      Laid(K, puts)'[p] # Nothing, Final(wire, rows[p], p, v)'
               PROVE  v = Laid(K, puts)'[p]
    BY DEF ViewInv
  <2>1. K = H
    BY <1>7
  <2>2. Laid(K, puts)' = Laid(H, R)
    <3> DEFINE over == puts'
    <3>1. Laid(K, puts)' = Laid(K, over)
      BY <1>3 DEF Laid, InRange
    <3> QED BY <1>7, <2>1, <3>1
  <2>3. Final(w3, rows[p], p, v)
    BY <1>3, <1>7 DEF Final, Shows
  <2> QED BY <1>8, <1>9, <2>2, <2>3 DEF ViewInv
<1>11. KnownLike(known, puts, wire)'
  <2> SUFFICES ASSUME NEW K \in known', NEW p \in PostIds, K[p] # Nothing
               PROVE  K[p].like = server'[p].like
    BY DEF KnownLike
  <2> QED BY <1>3, <1>5, <1>7
<1>12. StampFollows(puts)'
  <2> SUFFICES ASSUME NEW i \in 1 .. Len(R), R[i].kind = "like"
               PROVE  \E j \in 1 .. Len(R) : /\ j > i /\ R[j].kind = "stamp"
                                             /\ R[j].post = R[i].post
    BY <1>7 DEF StampFollows
  <2>1. /\ Len(puts) \in Nat /\ Len(R) = Len(puts) - landed
        /\ \A k \in 1 .. Len(R) : landed + k \in 1 .. Len(puts)
                                  /\ R[k] = puts[landed + k]
    BY <1>1, <1>7, RestIs DEF Rest
  <2>2. PICK j \in 1 .. Len(puts) : /\ j > landed + i /\ puts[j].kind = "stamp"
                                    /\ puts[j].post = puts[landed + i].post
    BY <2>1 DEF OwnInv, StampFollows
  <2>3. j - landed \in 1 .. Len(R) /\ j - landed > i /\ landed + (j - landed) = j
    BY <1>1, <2>1, <2>2
  <2>4. R[j - landed] = puts[j]
    BY <2>1, <2>3
  <2> QED BY <2>1, <2>2, <2>3, <2>4
<1>13. LandedStamps'
  <2>1. \A i \in 1 .. landed' : FALSE
    BY <1>2
  <2> QED BY <2>1 DEF LandedStamps
<1>14. ASSUME ~hole, NEW p \in PostIds \ lost, Settled(R, w3, p), NEW v \in Post,
              Final(w3, rows[p], p, v), v # Nothing
       PROVE  v.like = server[p].like
  <2>1. Final(w2, rows[p], p, v)
    BY <1>9, <1>14
  <2>2. server[p] \in Post /\ server[p].ts \in Nat
    BY <1>1, PostIs DEF Posts
  <2>3. CASE server[p].ts >= from
    <3>1. H[p] = server[p] /\ from >= 1
      BY <1>2, <1>5, <1>7, <2>3 DEF BaseInv, StartInv
    <3>2. \A i \in 1 .. Len(R) : R[i].post # p
      BY <1>14 DEF Settled
    <3>3. Laid(H, R)[p] = server[p]
      BY <1>1, <1>7, <2>3, <3>1, <3>2, LaidIs
    <3>4. server[p] # Nothing
      BY <1>1, <2>2, <2>3, <3>1, PostsAre
    <3>5. v = Laid(H, R)[p]
      BY <1>8, <2>1, <3>3, <3>4 DEF ViewInv
    <3> QED BY <3>3, <3>5
  <2>4. CASE ~(server[p].ts >= from)
    <3>1. H[p] = Nothing /\ ~(from <= server[p].ts)
      BY <1>1, <1>5, <1>7, <2>2, <2>4
    <3>2. Laid(H, R)[p] = Nothing
      BY <1>1, <1>7, <3>1, LaidIs
    <3>3. ~Shows(Raised(H, R), p)
      BY <1>1, <1>7, <3>2, RaisedIs DEF Shows
    <3>4. Final(wire, rows[p], p, v)
      <4>1. CASE w2 = wire
        BY <2>1, <4>1
      <4>2. CASE Longer(wire, Raised(H, R), w2)
        BY <1>1, <2>1, <3>3, <4>2, FinalLonger
      <4> QED BY <1>6, <4>1, <4>2
    <3>5. \A i \in 1 .. Len(wire) : w2[i] = wire[i] /\ i \in 1 .. Len(w2)
      <4>1. Len(wire) \in Nat
        BY <1>1, LenProperties
      <4>2. CASE w2 = wire
        BY <4>2
      <4>3. CASE Longer(wire, Raised(H, R), w2)
        BY <4>1, <4>3 DEF Longer
      <4> QED BY <1>6, <4>2, <4>3
    <3>6. Settled(puts, wire, p)
      BY <1>6, <1>7, <1>14, <3>1, <3>5, SettledBefore
    <3>7. LikeAt(wire, p)
      BY <1>14, <3>6 DEF OwnInv, LikeInv
    <3> QED BY <1>14, <3>4, <3>7 DEF LikeAt
  <2> QED BY <2>3, <2>4
<1>15. LikeInv(puts, wire)'
  <2> SUFFICES ASSUME ~hole', NEW p \in PostIds \ lost', Settled(puts, wire, p)',
                      NEW v \in Post, Final(wire, rows[p], p, v)', v # Nothing
               PROVE  v.like = server'[p].like
    BY DEF LikeInv, LikeAt
  <2>1. Settled(R, w3, p) /\ Final(w3, rows[p], p, v)
    BY <1>3, <1>7 DEF Settled, Final, Shows
  <2> QED BY <1>3, <1>14, <2>1
<1> QED BY <1>10, <1>11, <1>12, <1>13, <1>15 DEF OwnInv

LEMMA OwnStep == BaseInv /\ OwnInv /\ [Next]_vars => OwnInv'
<1> SUFFICES ASSUME BaseInv, OwnInv, [Next]_vars PROVE OwnInv'
  OBVIOUS
<1>1. ASSUME NEW p \in PostIds, OnLikeSubmit(p) PROVE OwnInv'
  BY <1>1, OwnTap
<1>2. ASSUME NEW p \in PostIds, Write(p) PROVE OwnInv'
  BY <1>2, OwnWrite
<1>3. CASE Removed
  BY <1>3, OwnRemoved
<1>4. CASE Event
  BY <1>4, OwnEvent
<1>5. CASE Land
  BY <1>5, OwnLand
<1>6. CASE Receive
  BY <1>6, OwnReceive
<1>7. CASE Drop
  BY <1>7, OwnDrop
<1>8. CASE Launch
  BY <1>8, OwnLaunch
<1>9. CASE Stop
  BY <1>9, OwnStop
<1>10. CASE UNCHANGED vars
  <2>1. /\ TypeInv /\ UNCHANGED <<server, from, known, puts, landed, wire, app>>
        /\ hole' = hole /\ lost' = lost
    BY <1>10 DEF BaseInv, vars, db, sdk
  <2>2. LandedStamps'
    BY <2>1 DEF OwnInv, LandedStamps
  <2> QED BY <2>1, <2>2, OwnServer
<1> QED BY <1>1, <1>2, <1>3, <1>4, <1>5, <1>6, <1>7, <1>8, <1>9, <1>10 DEF Next

LEMMA LikeIsTrue == BaseInv /\ OwnInv => OwnLikeIsTrue
<1> SUFFICES ASSUME BaseInv, OwnInv, ~up, NEW p \in PostIds, rows[p] # Nothing,
                    p \notin lost, ~hole
             PROVE  rows[p].like = server[p].like
  BY DEF OwnLikeIsTrue
<1>1. puts = <<>> /\ wire = <<>> /\ rows[p] \in Post
  BY DEF BaseInv, DownInv, TypeInv, TypeOK, Posts
<1>2. (\A i \in 1 .. Len(puts) : FALSE) /\ (\A i \in 1 .. Len(wire) : FALSE)
  BY <1>1, EmptySeq
<1>3. Settled(puts, wire, p) /\ Final(wire, rows[p], p, rows[p])
  BY <1>2 DEF Settled, Final
<1> QED BY <1>1, <1>3 DEF OwnInv, LikeInv, LikeAt

(* Whatever the order in which a user's likes are sent, applied, heard and *)
(* handed to the cache, and whenever its process dies or its connection    *)
(* repeats them, a cache at rest has the user's like of a post as the      *)
(* database has it, unless a write of the post or its event died with a    *)
(* process or a process died with a watermark that an estimate had a part  *)
(* in.                                                                     *)
THEOREM OwnLikeStaysTrue == Spec => []OwnLikeIsTrue
<1>1. Init => BaseInv /\ OwnInv
  BY BaseInit, OwnInit
<1>2. BaseInv /\ OwnInv /\ [Next]_vars => (BaseInv /\ OwnInv)'
  BY BaseStep, OwnStep
<1> QED BY <1>1, <1>2, LikeIsTrue, PTL DEF Spec
=============================================================================
