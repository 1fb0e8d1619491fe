--------------------------- MODULE FeedSyncProofs ---------------------------
(***************************************************************************)
(* Proofs about FeedSync for every set of posts and all bounds.  What is   *)
(* under way to the device is, for each post, a version the database has   *)
(* held, not older than what the device has taken in, and in order.  So    *)
(* whatever is handled, fully or in part, moves every post forward, and    *)
(* nothing that arrives after a tombstone predates it.                     *)
(*                                                                         *)
(* The second half is about stamps: what the watermark covers.  Versions   *)
(* are ordered by stamps as by numbers, so a post stamped now is beyond    *)
(* everything the device and the wire know, and from then on a feed event  *)
(* that brings it comes before any event that moves the watermark to it.   *)
(***************************************************************************)
EXTENDS FeedSync, SequenceTheorems, TLAPS

-----------------------------------------------------------------------------
(* Types.                                                                  *)

LEMMA FeedResultType ==
  ASSUME NEW posts \in Posts PROVE FeedResult(posts) \in Posts
BY DEF FeedResult, Posts, Version, Nothing

(* Appending an event keeps the wire well typed.                           *)
LEMMA AppendType ==
  ASSUME wire \in Seq(Message), NEW q \in Queries, NEW e \in BOOLEAN,
         NEW posts \in Posts
  PROVE  Append(wire, [query |-> q, early |-> e, posts |-> posts]) \in Seq(Message)
<1>1. [query |-> q, early |-> e, posts |-> posts] \in Message
  BY DEF Message
<1> QED BY <1>1, AppendProperties

LEMMA CommitType ==
  ASSUME TypeOK, NEW p \in PostIds, NEW v \in Version, Commit(p, v)
  PROVE  /\ server' \in Posts /\ wire' \in Seq(Message) /\ writes' \in Nat
         /\ UNCHANGED <<disk, app, link, asks, live, gap, stops, drops>>
<1>1. server' \in Posts /\ writes' \in Nat
  BY DEF Commit, TypeOK, Posts
<1>2. FeedResult(server') \in Posts
  BY <1>1 DEF FeedResult, Posts, Version, Nothing
<1>3. Append(wire, [query |-> "feed", early |-> FALSE,
                    posts |-> FeedResult(server')]) \in Seq(Message)
  BY <1>2, AppendType DEF TypeOK, Queries
<1>4. wire' \in Seq(Message)
  BY <1>3 DEF Commit, TypeOK
<1> QED BY <1>1, <1>4 DEF Commit

LEMMA StampType ==
  ASSUME TypeOK, NEW p \in PostIds, Stamp(p)
  PROVE  clock' \in Nat /\ tied' \subseteq PostIds
<1>1. clock' \in Nat
  BY FeedSyncAssumption DEF Stamp, TypeOK
<1>2. tied' \subseteq PostIds
  BY DEF Stamp, TypeOK
<1> QED BY <1>1, <1>2

LEMMA StoreType ==
  ASSUME TypeOK, NEW posts \in Posts, NEW done \in SUBSET PostIds,
         Store(posts, done)
  PROVE  rows' \in Posts /\ tomb' \in [PostIds -> Nat]
<1>1. \A p \in PostIds : posts[p] \in Version /\ posts[p].ver \in Nat
  BY DEF Posts, Version
<1>2. Nothing \in Version
  BY DEF Nothing, Version
<1> QED BY <1>1, <1>2 DEF Store, TypeOK, Posts

LEMMA HandlerType ==
  ASSUME TypeOK, NEW posts \in Posts, NEW seen \in Nat, SqlHandler(posts, seen)
  PROVE  rows' \in Posts /\ tomb' \in [PostIds -> Nat] /\ lud' \in Nat
<1>1. Delivered(posts) \subseteq PostIds
  BY DEF Delivered
<1>2. rows' \in Posts /\ tomb' \in [PostIds -> Nat]
  BY <1>1, StoreType DEF SqlHandler
<1>3. \A p \in PostIds : posts[p].ts \in Nat
  BY DEF Posts, Version
<1>4. lud' \in Nat
  BY <1>1, <1>3 DEF SqlHandler, TypeOK
<1> QED BY <1>2, <1>4

LEMMA OwnType == ASSUME NEW posts \in Posts PROVE Own(posts) \in Posts
BY DEF Own, Posts, Nothing, Version

LEMMA NoneType == None \in Posts
BY DEF None, Posts, Nothing, Version

(* The head of a nonempty wire is a message and its tail a wire.           *)
LEMMA WireHead ==
  ASSUME TypeOK, wire # <<>>
  PROVE  /\ Head(wire) \in Message /\ Head(wire).posts \in Posts
         /\ Tail(wire) \in Seq(Message)
<1>1. Head(wire) \in Message /\ Tail(wire) \in Seq(Message)
  BY HeadTailProperties DEF TypeOK
<1> QED BY <1>1 DEF Message

LEMMA EmptyType == <<>> \in Seq(Message) /\ <<>> \in Seq(Queries)
OBVIOUS

(* What stopping leaves behind, the tables aside.                          *)
LEMMA StopType ==
  ASSUME TypeOK, Stop, rows' \in Posts, tomb' \in [PostIds -> Nat]
  PROVE  TypeOK'
<1>1. wire' \in Seq(Message) /\ asks' \in Seq(Queries)
  BY EmptyType DEF Stop
<1>2. stops' \in Nat
  BY DEF Stop, TypeOK
<1>3. gap' \in {"none", "open", "lost"}
  BY DEF Stop, TypeOK
<1>4. /\ up' \in BOOLEAN /\ from' \in Nat /\ view' \subseteq Posts
      /\ listens' \subseteq Queries /\ userSet' \in BOOLEAN
      /\ link' \in BOOLEAN /\ live' \in BOOLEAN
  BY DEF Stop
<1>5. feedList' \in Posts /\ userList' \in Posts
  BY NoneType DEF Stop
<1>6. UNCHANGED <<db, lud, drops>>
  BY DEF Stop
<1> QED BY <1>1, <1>2, <1>3, <1>4, <1>5, <1>6 DEF TypeOK, db

LEMMA TypeStep == TypeOK /\ [Next]_vars => TypeOK'
<1> SUFFICES ASSUME TypeOK, [Next]_vars PROVE TypeOK'
  OBVIOUS
<1>1. ASSUME NEW p \in PostIds, Create(p) PROVE TypeOK'
  <2>1. Commit(p, [ver |-> 1, ts |-> clock', diedAt |-> 0])
    BY <1>1 DEF Create
  <2>2. clock' \in Nat /\ tied' \subseteq PostIds
    BY <1>1, StampType DEF Create
  <2>3. [ver |-> 1, ts |-> clock', diedAt |-> 0] \in Version
    BY <2>2 DEF Version
  <2> QED BY <1>1, <2>1, <2>2, <2>3, CommitType
          DEF Create, TypeOK, disk, app
<1>2. ASSUME NEW p \in PostIds, NEW deletes \in BOOLEAN, WriteField(p, deletes)
      PROVE  TypeOK'
  <2> DEFINE v == [ver |-> server[p].ver + 1, ts |-> server[p].ts,
                   diedAt |-> IF deletes THEN server[p].ver + 1
                              ELSE server[p].diedAt]
  <2>1. Commit(p, v)
    BY <1>2 DEF WriteField
  <2>2. v \in Version
    BY DEF TypeOK, Posts, Version
  <2> HIDE DEF v
  <2> QED BY <1>2, <2>1, <2>2, CommitType DEF WriteField, TypeOK, disk, app
<1>3. ASSUME NEW p \in PostIds, WriteStamp(p) PROVE TypeOK'
  <2> DEFINE v == [ver |-> server[p].ver + 1, ts |-> clock',
                   diedAt |-> server[p].diedAt]
  <2>1. Commit(p, v)
    BY <1>3 DEF WriteStamp
  <2>2. clock' \in Nat /\ tied' \subseteq PostIds
    BY <1>3, StampType DEF WriteStamp
  <2>3. v \in Version
    BY <2>2, SMTT(30) DEF TypeOK, Posts, Version
  <2> HIDE DEF v
  <2> QED BY <1>3, <2>1, <2>2, <2>3, CommitType
          DEF WriteStamp, TypeOK, disk, app
<1>4. CASE Launch
  BY <1>4 DEF Launch, GetLastUpdate, TypeOK, Queries, db, disk, net
<1>5. CASE Quit
  BY <1>5, StopType DEF Quit, TypeOK
<1>6. CASE KilledInHandler
  <2>1. PICK done \in SUBSET Delivered(Head(wire).posts) :
          Store(Head(wire).posts, done)
    BY <1>6 DEF KilledInHandler
  <2>2. done \in SUBSET PostIds /\ Head(wire).posts \in Posts
    BY <1>6, WireHead DEF KilledInHandler, Delivered
  <2>3. rows' \in Posts /\ tomb' \in [PostIds -> Nat]
    BY <2>1, <2>2, StoreType
  <2> QED BY <1>6, <2>3, StopType DEF KilledInHandler
<1>7. CASE OpenProfile
  BY <1>7, OwnType DEF OpenProfile, TypeOK, Queries, db, disk
<1>8. CASE Connect
  <2>1. /\ <<"feed", "profile">> \in Seq(Queries) /\ <<"feed">> \in Seq(Queries)
        /\ <<"profile", "feed">> \in Seq(Queries)
    BY DEF Queries
  <2>2. asks' \in Seq(Queries)
    BY <1>8, <2>1 DEF Connect
  <2> QED BY <1>8, <2>2 DEF Connect, TypeOK, db, disk, app
<1>9. CASE Drop
  <2>1. wire' \in Seq(Message)
    BY <1>9 DEF Drop, TypeOK
  <2>2. asks' \in Seq(Queries)
    BY <1>9, EmptyType DEF Drop
  <2>3. drops' \in Nat
    BY <1>9 DEF Drop, TypeOK
  <2>4. link' \in BOOLEAN /\ live' \in BOOLEAN
    BY <1>9 DEF Drop
  <2>5. UNCHANGED <<db, disk, app, gap, stops>>
    BY <1>9 DEF Drop
  <2> QED BY <2>1, <2>2, <2>3, <2>4, <2>5 DEF TypeOK, db, disk, app
<1>10. CASE AnswerFeed
  <2>1. FeedResult(server) \in Posts
    BY FeedResultType DEF TypeOK
  <2>2. wire' \in Seq(Message)
    BY <1>10, <2>1, AppendType DEF AnswerFeed, TypeOK, Queries
  <2> QED BY <1>10, <2>2 DEF AnswerFeed, TypeOK, db, disk, app
<1>11. CASE AnswerProfile
  <2>1. Own(server) \in Posts
    BY OwnType DEF TypeOK
  <2>2. wire' \in Seq(Message)
    BY <1>11, <2>1, AppendType DEF AnswerProfile, TypeOK, Queries
  <2> QED BY <1>11, <2>2 DEF AnswerProfile, TypeOK, db, disk, app
<1>12. CASE FeedEvent
  <2> DEFINE posts == Head(wire).posts
  <2>1. posts \in Posts /\ Tail(wire) \in Seq(Message)
    BY <1>12, WireHead DEF FeedEvent
  <2>2. PICK seen \in GetLastUpdate :
          /\ SqlHandler(posts, seen)
          /\ view' = {posts}
          /\ feedList' = IF IsUpdated(posts, seen) THEN rows' ELSE feedList
          /\ userList' = IF /\ IsUpdated(posts, seen) /\ userSet
                            /\ Delivered(posts) \cap Mine # {}
                         THEN Own(rows') ELSE userList
    BY <1>12 DEF FeedEvent
  <2>3. rows' \in Posts /\ tomb' \in [PostIds -> Nat] /\ lud' \in Nat
    BY <2>1, <2>2, HandlerType DEF GetLastUpdate, TypeOK
  <2>4. Own(rows') \in Posts
    BY <2>3, OwnType
  <2> HIDE DEF posts
  <2> QED BY <1>12, <2>1, <2>2, <2>3, <2>4 DEF FeedEvent, TypeOK, db
<1>13. CASE ProfileEvent
  <2> DEFINE posts == Head(wire).posts
  <2>1. posts \in Posts /\ Tail(wire) \in Seq(Message)
    BY <1>13, WireHead DEF ProfileEvent
  <2>2. CASE "profile" \in listens
    <3>1. PICK seen \in GetLastUpdate : SqlHandler(posts, seen)
      BY <1>13, <2>2 DEF ProfileEvent
    <3>2. rows' \in Posts /\ tomb' \in [PostIds -> Nat] /\ lud' \in Nat
      BY <2>1, <3>1, HandlerType DEF GetLastUpdate, TypeOK
    <3>3. Own(rows') \in Posts
      BY <3>2, OwnType
    <3> HIDE DEF posts
    <3> QED BY <1>13, <2>1, <2>2, <3>2, <3>3 DEF ProfileEvent, TypeOK, db
  <2>3. CASE "profile" \notin listens
    BY <1>13, <2>1, <2>3 DEF ProfileEvent, TypeOK, db, disk
  <2> QED BY <2>2, <2>3
<1>14. CASE UNCHANGED vars
  BY <1>14 DEF vars, db, disk, app, net, TypeOK
<1> QED BY <1>1, <1>2, <1>3, <1>4, <1>5, <1>6, <1>7, <1>8, <1>9, <1>10, <1>11,
           <1>12, <1>13, <1>14 DEF Next, Write

LEMMA InitType == Init => TypeOK
<1> SUFFICES ASSUME Init PROVE TypeOK
  OBVIOUS
<1>1. tomb \in [PostIds -> Nat]
  BY DEF Init
<1> QED BY <1>1, NoneType, EmptyType DEF Init, TypeOK

(* Every reachable state is well typed.                                    *)
THEOREM TypeCorrect == Spec => []TypeOK
BY InitType, TypeStep, PTL DEF Spec

-----------------------------------------------------------------------------
(* The invariant.                                                          *)

(* v is what the database held for a post that is now at s, or nothing.    *)
Past(v, s) ==
  v = Nothing \/ /\ v.ver \in 1 .. s.ver
                 /\ v.diedAt = IF s.diedAt > 0 /\ s.diedAt <= v.ver
                               THEN s.diedAt ELSE 0

ServerInv == \A p \in PostIds : Past(server[p], server[p])

DiskInv ==
  \A p \in PostIds :
    /\ rows[p] # Nothing =>
         Past(rows[p], server[p]) /\ rows[p].diedAt = 0 /\ tomb[p] = 0
    /\ tomb[p] > 0 =>
         /\ rows[p] = Nothing
         /\ server[p].diedAt > 0
         /\ server[p].diedAt <= tomb[p] /\ tomb[p] <= server[p].ver

(* v is a version the device can take in after all it has.                 *)
Fresh(v, p) == v # Nothing => Past(v, server[p]) /\ Copy[p] <= v.ver

WireInv ==
  /\ \A i \in 1 .. Len(wire), p \in PostIds : Fresh(wire[i].posts[p], p)
  /\ \A i, j \in 1 .. Len(wire), p \in PostIds :
       i <= j /\ wire[i].posts[p] # Nothing /\ wire[j].posts[p] # Nothing
         => wire[i].posts[p].ver <= wire[j].posts[p].ver

Inv == TypeOK /\ ServerInv /\ DiskInv /\ WireInv

LEMMA VersionType ==
  ASSUME NEW posts \in Posts, NEW p \in PostIds
  PROVE  /\ posts[p] \in Version
         /\ posts[p].ver \in Nat /\ posts[p].ts \in Nat
         /\ posts[p].diedAt \in Nat
BY DEF Posts, Version

LEMMA NothingFields ==
  Nothing.ver = 0 /\ Nothing.ts = 0 /\ Nothing.diedAt = 0 /\ Nothing \in Version
BY DEF Nothing, Version

(* The posts of any message on the wire are well typed.                    *)
LEMMA WireElement ==
  ASSUME TypeOK, NEW i \in 1 .. Len(wire)
  PROVE  wire[i].posts \in Posts
<1>1. wire[i] \in Message
  BY ElementOfSeq DEF TypeOK
<1> QED BY <1>1 DEF Message

(* The device's version of a post is one the database has reached.         *)
LEMMA CopyBound ==
  ASSUME TypeOK, DiskInv, NEW p \in PostIds
  PROVE  Copy[p] \in Nat /\ Copy[p] <= server[p].ver
<1>1. /\ rows[p].ver \in Nat /\ server[p].ver \in Nat /\ tomb[p] \in Nat
  BY VersionType DEF TypeOK
<1>2. Copy[p] = IF rows[p] = Nothing THEN tomb[p] ELSE rows[p].ver
  BY DEF Copy
<1>3. CASE rows[p] = Nothing
  BY <1>1, <1>2, <1>3 DEF DiskInv
<1>4. CASE rows[p] # Nothing
  BY <1>1, <1>2, <1>4 DEF DiskInv, Past
<1> QED BY <1>3, <1>4

(* One write: later by one, and dead from then on if it deletes.           *)
Grows(s, t) ==
  /\ t.ver = s.ver + 1
  /\ t.diedAt = s.diedAt \/ (s.diedAt = 0 /\ t.diedAt = t.ver)

LEMMA PastGrows ==
  ASSUME NEW v \in Version, NEW s \in Version, NEW t \in Version,
         Past(v, s), Past(s, s), Grows(s, t)
  PROVE  Past(v, t) /\ Past(t, t)
<1>1. /\ v.ver \in Nat /\ v.diedAt \in Nat /\ s.ver \in Nat /\ s.diedAt \in Nat
      /\ t.ver \in Nat /\ t.diedAt \in Nat
  BY DEF Version
<1>2. s.diedAt <= s.ver
  BY <1>1, NothingFields DEF Past
<1>3. Past(v, t)
  BY <1>1, <1>2 DEF Past, Grows
<1>4. Past(t, t)
  BY <1>1, <1>2 DEF Past, Grows
<1> QED BY <1>3, <1>4

-----------------------------------------------------------------------------
(* The steps, by what they do to the database, the tables and the wire.    *)

(* An event with what the database holds now may follow all others.        *)
LEMMA AppendInv ==
  ASSUME TypeOK, NEW posts \in Posts, NEW q \in Queries, NEW e \in BOOLEAN,
         \A p \in PostIds : posts[p] \in {Nothing, server'[p]},
         ServerInv', UNCHANGED <<rows, tomb>>, DiskInv', TypeOK',
         \A i \in 1 .. Len(wire), p \in PostIds :
           wire[i].posts[p] # Nothing =>
             Past(wire[i].posts[p], server'[p]) /\ Copy[p] <= wire[i].posts[p].ver,
         WireInv,
         wire' = Append(wire, [query |-> q, early |-> e, posts |-> posts])
  PROVE  WireInv'
<1> DEFINE m == [query |-> q, early |-> e, posts |-> posts]
<1>1. wire \in Seq(Message) /\ m \in Message /\ Len(wire) \in Nat
  BY LenProperties DEF TypeOK, Message
<1>2. /\ Len(wire') = Len(wire) + 1
      /\ \A i \in 1 .. Len(wire) : wire'[i] = wire[i]
      /\ wire'[Len(wire) + 1].posts = posts
  <2>1. wire' = Append(wire, m)
    OBVIOUS
  <2> HIDE DEF m
  <2>2. /\ Len(wire') = Len(wire) + 1
        /\ \A i \in 1 .. Len(wire) : wire'[i] = wire[i]
        /\ wire'[Len(wire) + 1] = m
    BY <1>1, <2>1, AppendProperties
  <2> QED BY <2>2 DEF m
<1> HIDE DEF m
<1>3. \A p \in PostIds : Copy'[p] = Copy[p]
  BY DEF Copy
<1>4. \A p \in PostIds : Copy'[p] <= server'[p].ver
  <2> TAKE p \in PostIds
  <2>1. rows'[p].ver \in Nat /\ server'[p].ver \in Nat /\ tomb'[p] \in Nat
    BY VersionType DEF TypeOK
  <2>2. Copy'[p] = IF rows'[p] = Nothing THEN tomb'[p] ELSE rows'[p].ver
    BY DEF Copy
  <2> QED BY <2>1, <2>2 DEF DiskInv, Past
<1>5. \A p \in PostIds : posts[p] # Nothing =>
        Past(posts[p], server'[p]) /\ Copy'[p] <= posts[p].ver
  BY <1>4 DEF ServerInv
<1>6. \A i \in 1 .. Len(wire'), p \in PostIds : Fresh(wire[i].posts[p], p)'
  BY <1>1, <1>2, <1>3, <1>5 DEF Fresh
<1>7. ASSUME NEW i \in 1 .. Len(wire'), NEW j \in 1 .. Len(wire'),
             NEW p \in PostIds, i <= j,
             wire'[i].posts[p] # Nothing, wire'[j].posts[p] # Nothing
      PROVE  wire'[i].posts[p].ver <= wire'[j].posts[p].ver
  <2>1. CASE j <= Len(wire)
    BY <1>1, <1>2, <1>7, <2>1 DEF WireInv
  <2>2. CASE j = Len(wire) + 1 /\ i <= Len(wire)
    <3>1. wire'[j].posts[p] = server'[p]
      BY <1>2, <1>7, <2>2
    <3>2. Past(wire'[i].posts[p], server'[p])
      BY <1>1, <1>2, <1>7, <2>2
    <3>3. server'[p].ver \in Nat
      BY VersionType DEF TypeOK
    <3> QED BY <1>7, <3>1, <3>2, <3>3 DEF Past
  <2>3. CASE i = j
    BY <1>2, <1>7, <2>3, VersionType, WireElement
  <2> QED BY <1>1, <1>2, <1>7, <2>1, <2>2, <2>3
<1> QED BY <1>6, <1>7 DEF WireInv

(* Nothing the invariant speaks of changes but the wire, which loses its   *)
(* end or all of it.                                                       *)
LEMMA FrameInv ==
  ASSUME Inv, TypeOK', UNCHANGED <<server, rows, tomb>>,
         Len(wire') <= Len(wire),
         \A i \in 1 .. Len(wire') : wire'[i] = wire[i]
  PROVE  Inv'
<1>1. ServerInv'
  BY DEF Inv, ServerInv
<1>2. DiskInv'
  BY DEF Inv, DiskInv
<1>3. \A p \in PostIds : Copy'[p] = Copy[p]
  BY DEF Copy
<1>4. Len(wire') \in Nat /\ Len(wire) \in Nat
  BY LenProperties DEF Inv, TypeOK
<1>5. \A i \in 1 .. Len(wire') : i \in 1 .. Len(wire)
  BY <1>4
<1>6. \A i \in 1 .. Len(wire'), p \in PostIds : Fresh(wire[i].posts[p], p)'
  BY <1>3, <1>5 DEF Inv, WireInv, Fresh
<1>7. ASSUME NEW i \in 1 .. Len(wire'), NEW j \in 1 .. Len(wire'),
             NEW p \in PostIds, i <= j,
             wire'[i].posts[p] # Nothing, wire'[j].posts[p] # Nothing
      PROVE  wire'[i].posts[p].ver <= wire'[j].posts[p].ver
  BY <1>5, <1>7 DEF Inv, WireInv
<1> QED BY <1>1, <1>2, <1>6, <1>7 DEF Inv, WireInv

(* A write to one post.                                                    *)
LEMMA CommitInv ==
  ASSUME Inv, TypeOK', NEW p \in PostIds, NEW v \in Version, Commit(p, v),
         Grows(server[p], v)
  PROVE  Inv'
<1> USE DEF Inv
<1>1. /\ \A q \in PostIds : q # p => server'[q] = server[q]
      /\ server'[p] = v
      /\ UNCHANGED <<rows, tomb>>
  BY DEF Commit, TypeOK, Posts, disk
<1>2. ASSUME NEW q \in PostIds, NEW w \in Version, Past(w, server[q])
      PROVE  Past(w, server'[q])
  <2>1. CASE q = p
    BY <1>1, <1>2, <2>1, PastGrows, VersionType DEF ServerInv, TypeOK
  <2>2. CASE q # p
    BY <1>1, <1>2, <2>2
  <2> QED BY <2>1, <2>2
<1>3. ServerInv'
  <2>1. Past(v, v)
    BY PastGrows, VersionType DEF ServerInv, TypeOK
  <2> QED BY <1>1, <2>1 DEF ServerInv
<1>4. DiskInv'
  <2>1. ASSUME NEW q \in PostIds, rows[q] # Nothing
        PROVE  Past(rows[q], server'[q])
    BY <1>2, <2>1, VersionType DEF DiskInv, TypeOK
  <2>2. ASSUME NEW q \in PostIds, tomb[q] > 0
        PROVE  /\ server'[q].diedAt > 0
               /\ server'[q].diedAt <= tomb[q] /\ tomb[q] <= server'[q].ver
    <3>1. /\ server[q].ver \in Nat /\ server[q].diedAt \in Nat
          /\ tomb[q] \in Nat
      BY VersionType DEF TypeOK
    <3>2. /\ server[q].diedAt > 0 /\ server[q].diedAt <= tomb[q]
          /\ tomb[q] <= server[q].ver
      BY <2>2 DEF DiskInv
    <3> QED BY <1>1, <3>1, <3>2 DEF Grows
  <2> QED BY <1>1, <2>1, <2>2 DEF DiskInv
<1>5. \A i \in 1 .. Len(wire), q \in PostIds :
        wire[i].posts[q] # Nothing =>
          Past(wire[i].posts[q], server'[q]) /\ Copy[q] <= wire[i].posts[q].ver
  BY <1>2, WireElement, VersionType DEF WireInv, Fresh
<1>6. CASE wire' = wire
  <2>1. \A q \in PostIds : Copy'[q] = Copy[q]
    BY <1>1 DEF Copy
  <2>2. WireInv'
    BY <1>5, <1>6, <2>1 DEF WireInv, Fresh
  <2> QED BY <1>3, <1>4, <2>2
<1>7. CASE wire' # wire
  <2>1. wire' = Append(wire, [query |-> "feed", early |-> FALSE,
                              posts |-> FeedResult(server')])
    BY <1>7 DEF Commit
  <2>2. /\ FeedResult(server') \in Posts
        /\ "feed" \in Queries /\ FALSE \in BOOLEAN
    BY FeedResultType DEF TypeOK, Queries
  <2>3. \A q \in PostIds : FeedResult(server')[q] \in {Nothing, server'[q]}
    BY DEF FeedResult
  <2>4. WireInv'
    BY <1>1, <1>3, <1>4, <1>5, <2>1, <2>2, <2>3, AppendInv
  <2> QED BY <1>3, <1>4, <2>4
<1> QED BY <1>6, <1>7

(* The server's answer to a listen.                                        *)
LEMMA AnswerInv ==
  ASSUME Inv, TypeOK', UNCHANGED <<server, rows, tomb>>,
         NEW posts \in Posts, NEW q \in Queries, NEW e \in BOOLEAN,
         \A p \in PostIds : posts[p] \in {Nothing, server[p]},
         wire' = Append(wire, [query |-> q, early |-> e, posts |-> posts])
  PROVE  Inv'
<1>1. ServerInv' /\ DiskInv'
  BY DEF Inv, ServerInv, DiskInv
<1>2. \A i \in 1 .. Len(wire), p \in PostIds :
        wire[i].posts[p] # Nothing =>
          Past(wire[i].posts[p], server'[p]) /\ Copy[p] <= wire[i].posts[p].ver
  BY DEF Inv, WireInv, Fresh
<1>3. WireInv'
  BY <1>1, <1>2, AppendInv DEF Inv
<1> QED BY <1>1, <1>3 DEF Inv

(* sqlHandler stores some or all of the first event's posts.               *)
LEMMA StoreInv ==
  ASSUME Inv, TypeOK', wire # <<>>, UNCHANGED server,
         NEW done \in SUBSET Delivered(Head(wire).posts),
         Store(Head(wire).posts, done)
  PROVE  /\ DiskInv'
         /\ \A p \in PostIds : Copy[p] <= Copy'[p] /\ Copy'[p] <= server[p].ver
         /\ \A p \in done : Copy'[p] = Head(wire).posts[p].ver
         /\ \A p \in PostIds \ done : Copy'[p] = Copy[p]
<1> USE DEF Inv
<1>1. Len(wire) \in Nat \ {0} /\ wire[1] = Head(wire)
  BY EmptySeq DEF TypeOK
<1> DEFINE posts == Head(wire).posts
<1>2. posts \in Posts
  BY WireHead
<1>3. \A p \in PostIds : Fresh(posts[p], p)
  BY <1>1 DEF WireInv
<1>4. \A p \in done : p \in PostIds /\ posts[p] # Nothing
  BY DEF Delivered
<1>5. ASSUME NEW p \in PostIds
      PROVE  /\ rows'[p] = IF p \notin done THEN rows[p]
                           ELSE IF posts[p].diedAt > 0 THEN Nothing ELSE posts[p]
             /\ tomb'[p] = IF p \in done /\ posts[p].diedAt > 0
                           THEN posts[p].ver ELSE tomb[p]
             /\ Copy[p] = IF rows[p] = Nothing THEN tomb[p] ELSE rows[p].ver
             /\ Copy'[p] = IF rows'[p] = Nothing THEN tomb'[p] ELSE rows'[p].ver
             /\ server'[p] = server[p]
  BY DEF Store, Copy
<1>6. ASSUME NEW p \in PostIds
      PROVE  /\ posts[p].ver \in Nat /\ posts[p].diedAt \in Nat
             /\ rows[p].ver \in Nat /\ rows[p].diedAt \in Nat
             /\ server[p].ver \in Nat /\ server[p].diedAt \in Nat
             /\ tomb[p] \in Nat
  BY <1>2, VersionType DEF TypeOK
<1> HIDE DEF posts
(* Why no tombstone is undone: an event that may still come is not older.  *)
<1>7. ASSUME NEW p \in done, posts[p].diedAt = 0 PROVE tomb[p] = 0
  <2>1. Past(posts[p], server[p]) /\ Copy[p] <= posts[p].ver
    BY <1>3, <1>4 DEF Fresh
  <2>2. ASSUME tomb[p] > 0 PROVE FALSE
    <3>1. rows[p] = Nothing /\ server[p].diedAt > 0 /\ server[p].diedAt <= tomb[p]
      BY <1>4, <2>2 DEF DiskInv
    <3>2. Copy[p] = tomb[p]
      BY <1>4, <1>5, <3>1
    <3>3. posts[p].diedAt = server[p].diedAt
      BY <1>4, <1>6, <2>1, <3>1, <3>2 DEF Past
    <3> QED BY <1>7, <3>1, <3>3
  <2> QED BY <1>4, <1>6, <2>2
<1>8. ASSUME NEW p \in done
      PROVE  /\ Copy'[p] = posts[p].ver
             /\ Copy[p] <= posts[p].ver /\ posts[p].ver <= server[p].ver
             /\ rows'[p] # Nothing =>
                  Past(rows'[p], server[p]) /\ rows'[p].diedAt = 0 /\ tomb'[p] = 0
             /\ tomb'[p] > 0 =>
                  /\ rows'[p] = Nothing /\ server[p].diedAt > 0
                  /\ server[p].diedAt <= tomb'[p] /\ tomb'[p] <= server[p].ver
  <2>1. Past(posts[p], server[p]) /\ Copy[p] <= posts[p].ver /\ posts[p] # Nothing
    BY <1>3, <1>4 DEF Fresh
  <2>2. CASE posts[p].diedAt > 0
    BY <1>4, <1>5, <1>6, <2>1, <2>2 DEF Past
  <2>3. CASE posts[p].diedAt = 0
    BY <1>4, <1>5, <1>6, <1>7, <2>1, <2>3 DEF Past
  <2> QED BY <1>4, <1>6, <2>2, <2>3
<1>9. ASSUME NEW p \in PostIds \ done
      PROVE  Copy'[p] = Copy[p] /\ rows'[p] = rows[p] /\ tomb'[p] = tomb[p]
  BY <1>5
<1>10. DiskInv'
  BY <1>5, <1>8, <1>9 DEF DiskInv
<1>11. \A p \in PostIds : Copy[p] <= Copy'[p] /\ Copy'[p] <= server[p].ver
  BY <1>6, <1>8, <1>9, CopyBound
<1> QED BY <1>8, <1>9, <1>10, <1>11 DEF posts

(* The handled event leaves the wire; what follows it is not older.        *)
LEMMA ConsumeInv ==
  ASSUME Inv, TypeOK', wire # <<>>, UNCHANGED server, wire' = Tail(wire),
         Store(Head(wire).posts, Delivered(Head(wire).posts))
  PROVE  Inv'
<1> USE DEF Inv
<1> DEFINE posts == Head(wire).posts
<1>1. /\ Len(wire) \in Nat \ {0} /\ wire[1] = Head(wire)
      /\ Len(wire') = Len(wire) - 1
      /\ \A i \in 1 .. Len(wire') : wire'[i] = wire[i + 1]
  BY EmptySeq, HeadTailProperties DEF TypeOK
<1>2. /\ DiskInv'
      /\ \A p \in Delivered(posts) : Copy'[p] = posts[p].ver
      /\ \A p \in PostIds \ Delivered(posts) : Copy'[p] = Copy[p]
  BY StoreInv
<1>3. ServerInv'
  BY DEF ServerInv
<1>4. ASSUME NEW i \in 1 .. Len(wire'), NEW p \in PostIds,
             wire'[i].posts[p] # Nothing
      PROVE  Past(wire'[i].posts[p], server'[p]) /\ Copy'[p] <= wire'[i].posts[p].ver
  <2>1. i + 1 \in 1 .. Len(wire) /\ 1 \in 1 .. Len(wire) /\ wire'[i] = wire[i + 1]
    BY <1>1
  <2>2. Past(wire[i + 1].posts[p], server[p]) /\ Copy[p] <= wire[i + 1].posts[p].ver
    BY <1>4, <2>1 DEF WireInv, Fresh
  <2>3. CASE p \in Delivered(posts)
    <3>1. wire[1].posts[p] # Nothing
      BY <1>1, <2>3 DEF Delivered
    <3>2. wire[1].posts[p].ver <= wire[i + 1].posts[p].ver
      BY <1>4, <2>1, <3>1 DEF WireInv
    <3> QED BY <1>1, <1>2, <2>1, <2>2, <2>3, <3>2
  <2>4. CASE p \notin Delivered(posts)
    BY <1>2, <2>1, <2>2, <2>4
  <2> QED BY <2>3, <2>4
<1>5. ASSUME NEW i \in 1 .. Len(wire'), NEW j \in 1 .. Len(wire'),
             NEW p \in PostIds, i <= j,
             wire'[i].posts[p] # Nothing, wire'[j].posts[p] # Nothing
      PROVE  wire'[i].posts[p].ver <= wire'[j].posts[p].ver
  <2>1. i + 1 \in 1 .. Len(wire) /\ j + 1 \in 1 .. Len(wire) /\ i + 1 <= j + 1
    BY <1>1, <1>5
  <2> QED BY <1>1, <1>5, <2>1 DEF WireInv
<1>6. WireInv'
  BY <1>4, <1>5 DEF WireInv, Fresh
<1> QED BY <1>2, <1>3, <1>6

-----------------------------------------------------------------------------
(* One case per action.                                                    *)
LEMMA InvStep == Inv /\ [Next]_vars => Inv'
<1> SUFFICES ASSUME Inv, [Next]_vars PROVE Inv'
  OBVIOUS
<1> USE DEF Inv
<1>0. TypeOK'
  BY TypeStep
<1>1. ASSUME NEW p \in PostIds, Create(p) PROVE Inv'
  <2> DEFINE v == [ver |-> 1, ts |-> clock', diedAt |-> 0]
  <2>1. Commit(p, v) /\ v \in Version /\ v.ver = 1 /\ v.diedAt = 0
    BY <1>0, <1>1 DEF Create, TypeOK, Version
  <2> HIDE DEF v
  <2>2. Grows(server[p], v)
    BY <1>1, <2>1, NothingFields DEF Create, Grows
  <2> QED BY <1>0, <2>1, <2>2, CommitInv
<1>2. ASSUME NEW p \in PostIds, NEW deletes \in BOOLEAN, WriteField(p, deletes)
      PROVE  Inv'
  <2> DEFINE v == [ver |-> server[p].ver + 1, ts |-> server[p].ts,
                   diedAt |-> IF deletes THEN server[p].ver + 1
                              ELSE server[p].diedAt]
  <2>1. /\ Commit(p, v) /\ v \in Version
        /\ v.ver = server[p].ver + 1
        /\ v.diedAt = IF deletes THEN server[p].ver + 1 ELSE server[p].diedAt
    BY <1>2 DEF WriteField, TypeOK, Posts, Version
  <2> HIDE DEF v
  <2>2. Grows(server[p], v)
    BY <1>2, <2>1 DEF WriteField, Grows
  <2> QED BY <1>0, <2>1, <2>2, CommitInv
<1>3. ASSUME NEW p \in PostIds, WriteStamp(p) PROVE Inv'
  <2> DEFINE v == [ver |-> server[p].ver + 1, ts |-> clock',
                   diedAt |-> server[p].diedAt]
  <2>0. /\ clock' \in Nat /\ server[p].ver \in Nat /\ server[p].diedAt \in Nat
    BY <1>0, VersionType DEF TypeOK
  <2>1. /\ Commit(p, v) /\ v \in Version
        /\ v.ver = server[p].ver + 1 /\ v.diedAt = server[p].diedAt
    <3>1. Commit(p, v)
      BY <1>3 DEF WriteStamp
    <3>2. v \in Version
      BY <2>0 DEF Version
    <3> QED BY <3>1, <3>2
  <2> HIDE DEF v
  <2>2. Grows(server[p], v)
    BY <2>1 DEF Grows
  <2> QED BY <1>0, <2>1, <2>2, CommitInv
<1>4. CASE Launch \/ OpenProfile \/ Connect \/ UNCHANGED vars
  <2>1. UNCHANGED <<server, rows, tomb, wire>>
    BY <1>4 DEF Launch, OpenProfile, Connect, vars, db, disk, net
  <2>2. Len(wire') <= Len(wire)
    BY <2>1, LenProperties DEF TypeOK
  <2> QED BY <1>0, <2>1, <2>2, FrameInv
<1>5. CASE Quit
  <2>1. UNCHANGED <<server, rows, tomb>> /\ wire' = <<>>
    BY <1>5 DEF Quit, Stop, db
  <2>2. Len(wire') = 0 /\ Len(wire) \in Nat
    BY <2>1, EmptySeq, LenProperties DEF TypeOK
  <2> QED BY <1>0, <2>1, <2>2, FrameInv
<1>6. CASE KilledInHandler
  <2>1. PICK done \in SUBSET Delivered(Head(wire).posts) :
          Store(Head(wire).posts, done)
    BY <1>6 DEF KilledInHandler
  <2>2. UNCHANGED server /\ wire' = <<>> /\ wire # <<>>
    BY <1>6 DEF KilledInHandler, Stop, db
  <2>3. DiskInv'
    BY <1>0, <2>1, <2>2, StoreInv
  <2>4. ServerInv'
    BY <2>2 DEF ServerInv
  <2>5. WireInv'
    BY <2>2, EmptySeq DEF WireInv
  <2> QED BY <1>0, <2>3, <2>4, <2>5
<1>7. CASE Drop
  <2>1. PICK received \in 0 .. Len(wire) : wire' = SubSeq(wire, 1, received)
    BY <1>7 DEF Drop
  <2>2. Len(wire) \in Nat /\ \A i \in 1 .. received : wire[i] \in Message
    BY LenProperties, ElementOfSeq DEF TypeOK
  <2>3. Len(wire') = received /\ \A i \in 1 .. received : wire'[i] = wire[i]
    BY <2>1, <2>2 DEF TypeOK
  <2>4. UNCHANGED <<server, rows, tomb>>
    BY <1>7 DEF Drop, db, disk
  <2> QED BY <1>0, <2>1, <2>2, <2>3, <2>4, FrameInv
<1>8. CASE AnswerFeed
  <2>1. UNCHANGED <<server, rows, tomb>>
    BY <1>8 DEF AnswerFeed, db, disk
  <2>2. CASE wire' = wire
    <3>1. Len(wire') <= Len(wire)
      BY <2>2, LenProperties DEF TypeOK
    <3> QED BY <1>0, <2>1, <2>2, <3>1, FrameInv
  <2>3. CASE wire' # wire
    <3>1. wire' = Append(wire, [query |-> "feed", early |-> FALSE,
                                posts |-> FeedResult(server)])
      BY <1>8, <2>3 DEF AnswerFeed
    <3>2. /\ FeedResult(server) \in Posts
          /\ "feed" \in Queries /\ FALSE \in BOOLEAN
          /\ \A p \in PostIds : FeedResult(server)[p] \in {Nothing, server[p]}
      BY FeedResultType DEF TypeOK, Queries, FeedResult
    <3> QED BY <1>0, <2>1, <3>1, <3>2, AnswerInv
  <2> QED BY <2>2, <2>3
<1>9. CASE AnswerProfile
  <2>1. UNCHANGED <<server, rows, tomb>>
    BY <1>9 DEF AnswerProfile, db, disk
  <2>2. wire' = Append(wire, [query |-> "profile", early |-> ~live,
                              posts |-> Own(server)])
    BY <1>9 DEF AnswerProfile
  <2>3. /\ Own(server) \in Posts /\ "profile" \in Queries
        /\ \A p \in PostIds : Own(server)[p] \in {Nothing, server[p]}
    BY OwnType DEF TypeOK, Queries, Own
  <2>4. (~live) \in BOOLEAN
    OBVIOUS
  <2> QED BY <1>0, <2>1, <2>2, <2>3, <2>4, AnswerInv
<1>10. CASE FeedEvent
  <2>1. /\ wire # <<>> /\ wire' = Tail(wire) /\ UNCHANGED server
        /\ Store(Head(wire).posts, Delivered(Head(wire).posts))
    BY <1>10 DEF FeedEvent, SqlHandler, db
  <2> QED BY <1>0, <2>1, ConsumeInv
<1>11. CASE ProfileEvent
  <2>1. wire # <<>> /\ wire' = Tail(wire) /\ UNCHANGED server
    BY <1>11 DEF ProfileEvent, db
  <2>2. CASE "profile" \in listens
    <3>1. Store(Head(wire).posts, Delivered(Head(wire).posts))
      BY <1>11, <2>2 DEF ProfileEvent, SqlHandler
    <3> QED BY <1>0, <2>1, <3>1, ConsumeInv
  <2>3. CASE "profile" \notin listens
    <3>1. UNCHANGED <<rows, tomb>>
      BY <1>11, <2>3 DEF ProfileEvent, disk
    <3>2. /\ Len(wire) \in Nat \ {0} /\ Len(wire') = Len(wire) - 1
          /\ \A i \in 1 .. Len(wire') : wire'[i] = wire[i + 1]
      BY <2>1, EmptySeq, HeadTailProperties DEF TypeOK
    <3>3. ServerInv' /\ DiskInv' /\ \A p \in PostIds : Copy'[p] = Copy[p]
      BY <2>1, <3>1 DEF ServerInv, DiskInv, Copy
    <3>4. \A i \in 1 .. Len(wire') : i + 1 \in 1 .. Len(wire)
      BY <3>2
    <3>5. \A i \in 1 .. Len(wire'), p \in PostIds : Fresh(wire[i].posts[p], p)'
      BY <2>1, <3>2, <3>3, <3>4 DEF WireInv, Fresh
    <3>6. ASSUME NEW i \in 1 .. Len(wire'), NEW j \in 1 .. Len(wire'),
                 NEW p \in PostIds, i <= j,
                 wire'[i].posts[p] # Nothing, wire'[j].posts[p] # Nothing
          PROVE  wire'[i].posts[p].ver <= wire'[j].posts[p].ver
      <4>1. i + 1 <= j + 1
        BY <3>6
      <4> QED BY <3>2, <3>4, <3>6, <4>1 DEF WireInv
    <3> QED BY <1>0, <3>3, <3>5, <3>6 DEF WireInv
  <2> QED BY <2>2, <2>3
<1> QED BY <1>1, <1>2, <1>3, <1>4, <1>5, <1>6, <1>7, <1>8, <1>9, <1>10, <1>11
        DEF Next, Write

LEMMA InvInit == Init => Inv
<1> SUFFICES ASSUME Init PROVE Inv
  OBVIOUS
<1>1. \A p \in PostIds : server[p] = Nothing /\ rows[p] = Nothing /\ tomb[p] = 0
  BY DEF Init, None
<1>2. ServerInv /\ DiskInv
  BY <1>1 DEF ServerInv, DiskInv, Past
<1>3. WireInv
  BY EmptySeq DEF Init, WireInv
<1> QED BY <1>2, <1>3, InitType DEF Inv

LEMMA Invariance == Spec => []Inv
BY InvInit, InvStep, PTL DEF Spec

(* A post whose tombstone was handled never has a row again.               *)
THEOREM DeletedStaysDeleted == Spec => []NoResurrection
<1>1. Inv => NoResurrection
  BY DEF Inv, DiskInv, NoResurrection
<1> QED BY <1>1, Invariance, PTL

-----------------------------------------------------------------------------
(* The device implements the abstract cache.                               *)

LEMMA CommitIsPublish ==
  ASSUME TypeOK, NEW p \in PostIds, NEW v \in Version, Commit(p, v),
         Grows(server[p], v)
  PROVE  Replica!Publish(p)
<1>1. /\ server' = [server EXCEPT ![p] = v] /\ server \in Posts
      /\ UNCHANGED <<rows, tomb>>
  BY DEF Commit, TypeOK, disk
<1>2. /\ server'[p] = v
      /\ \A q \in PostIds : q # p => server'[q] = server[q]
  BY <1>1 DEF Posts
<1>3. [q \in PostIds |-> server[q].ver]' =
        [[q \in PostIds |-> server[q].ver] EXCEPT ![p] = @ + 1]
  BY <1>2 DEF Grows
<1>4. \/ [q \in PostIds |-> server[q].diedAt]' = [q \in PostIds |-> server[q].diedAt]
      \/ /\ [q \in PostIds |-> server[q].diedAt][p] = 0
         /\ [q \in PostIds |-> server[q].diedAt]' =
              [[q \in PostIds |-> server[q].diedAt] EXCEPT
                 ![p] = [q \in PostIds |-> server[q].ver][p] + 1]
  BY <1>2 DEF Grows
<1>5. Copy' = Copy /\ {q \in PostIds : rows[q] # Nothing}' =
                      {q \in PostIds : rows[q] # Nothing}
  BY <1>1 DEF Copy
<1> QED BY <1>3, <1>4, <1>5 DEF Replica!Publish

LEMMA StoreIsAdvance ==
  ASSUME Inv, Inv', wire # <<>>, UNCHANGED server,
         NEW done \in SUBSET Delivered(Head(wire).posts),
         Store(Head(wire).posts, done)
  PROVE  Replica!Advance
<1>1. TypeOK' /\ DiskInv' /\ TypeOK /\ DiskInv
  BY DEF Inv
<1>2. \A p \in PostIds : Copy[p] <= Copy'[p] /\ Copy'[p] <= server[p].ver
  BY <1>1, StoreInv
<1>3. Copy' \in [PostIds -> Nat]
  <2>1. \A p \in PostIds : rows'[p].ver \in Nat /\ tomb'[p] \in Nat
    BY <1>1, VersionType DEF TypeOK
  <2> QED BY <2>1 DEF Copy
<1>4. \A p \in PostIds : rows'[p] # Nothing <=>
        Copy'[p] > 0 /\ (server[p].diedAt = 0 \/ Copy'[p] < server[p].diedAt)
  <2> TAKE p \in PostIds
  <2>1. /\ rows'[p].ver \in Nat /\ server[p].ver \in Nat /\ tomb'[p] \in Nat
        /\ server[p].diedAt \in Nat /\ server'[p] = server[p]
    BY <1>1, VersionType DEF TypeOK
  <2>2. Copy'[p] = IF rows'[p] = Nothing THEN tomb'[p] ELSE rows'[p].ver
    BY DEF Copy
  <2>3. CASE rows'[p] = Nothing
    BY <1>1, <2>1, <2>2, <2>3 DEF DiskInv
  <2>4. CASE rows'[p] # Nothing
    BY <1>1, <2>1, <2>2, <2>4 DEF DiskInv, Past
  <2> QED BY <2>3, <2>4
<1> QED BY <1>2, <1>3, <1>4 DEF Replica!Advance, Replica!Alive

LEMMA ReplicaInit == Init => Replica!Init
<1> SUFFICES ASSUME Init PROVE Replica!Init
  OBVIOUS
<1>1. \A p \in PostIds :
        server[p] = Nothing /\ rows[p] = Nothing /\ tomb[p] = 0
  BY DEF Init, None
<1>2. \A p \in PostIds : server[p].ver = 0 /\ server[p].diedAt = 0
  BY <1>1, NothingFields
<1> QED BY <1>1, <1>2 DEF Replica!Init, Copy

LEMMA ReplicaStep == Inv /\ Inv' /\ [Next]_vars => [Replica!Next]_Replica!vars
<1> SUFFICES ASSUME Inv, Inv', [Next]_vars
             PROVE  Replica!Next \/ UNCHANGED Replica!vars
  BY DEF Replica!vars
<1>0. TypeOK /\ TypeOK'
  BY DEF Inv
<1>a. ASSUME UNCHANGED <<server, rows, tomb>> PROVE UNCHANGED Replica!vars
  BY <1>a DEF Replica!vars, Copy
<1>1. ASSUME NEW p \in PostIds, Create(p) PROVE Replica!Next
  <2> DEFINE v == [ver |-> 1, ts |-> clock', diedAt |-> 0]
  <2>1. Commit(p, v) /\ v \in Version /\ v.ver = 1 /\ v.diedAt = 0
    BY <1>0, <1>1 DEF Create, TypeOK, Version
  <2> HIDE DEF v
  <2>2. Grows(server[p], v)
    BY <1>1, <2>1, NothingFields DEF Create, Grows
  <2> QED BY <1>0, <2>1, <2>2, CommitIsPublish DEF Replica!Next
<1>2. ASSUME NEW p \in PostIds, NEW deletes \in BOOLEAN, WriteField(p, deletes)
      PROVE  Replica!Next
  <2> DEFINE v == [ver |-> server[p].ver + 1, ts |-> server[p].ts,
                   diedAt |-> IF deletes THEN server[p].ver + 1
                              ELSE server[p].diedAt]
  <2>1. /\ Commit(p, v) /\ v \in Version
        /\ v.ver = server[p].ver + 1
        /\ v.diedAt = IF deletes THEN server[p].ver + 1 ELSE server[p].diedAt
    <3>1. /\ server[p].ver \in Nat /\ server[p].ts \in Nat
          /\ server[p].diedAt \in Nat
      BY <1>0, VersionType DEF TypeOK
    <3>2. Commit(p, v)
      BY <1>2 DEF WriteField
    <3>3. v \in Version
      BY <3>1 DEF Version
    <3> QED BY <3>2, <3>3
  <2> HIDE DEF v
  <2>2. Grows(server[p], v)
    BY <1>2, <2>1 DEF WriteField, Grows
  <2> QED BY <1>0, <2>1, <2>2, CommitIsPublish DEF Replica!Next
<1>3. ASSUME NEW p \in PostIds, WriteStamp(p) PROVE Replica!Next
  <2> DEFINE v == [ver |-> server[p].ver + 1, ts |-> clock',
                   diedAt |-> server[p].diedAt]
  <2>1. /\ clock' \in Nat /\ server[p].ver \in Nat /\ server[p].diedAt \in Nat
    BY <1>0, VersionType DEF TypeOK
  <2>2. Commit(p, v)
    BY <1>3 DEF WriteStamp
  <2>3. v \in Version /\ v.ver = server[p].ver + 1 /\ v.diedAt = server[p].diedAt
    BY <2>1 DEF Version
  <2> HIDE DEF v
  <2>4. Grows(server[p], v)
    BY <2>3 DEF Grows
  <2> QED BY <1>0, <2>2, <2>3, <2>4, CommitIsPublish DEF Replica!Next
<1>4. CASE Launch \/ Quit \/ OpenProfile \/ Connect \/ Drop \/ AnswerFeed
           \/ AnswerProfile \/ UNCHANGED vars
  <2>1. UNCHANGED <<server, rows, tomb>>
    BY <1>4 DEF Launch, Quit, Stop, OpenProfile, Connect, Drop, AnswerFeed,
       AnswerProfile, vars, db, disk
  <2> QED BY <1>a, <2>1
<1>5. CASE KilledInHandler
  <2>1. PICK done \in SUBSET Delivered(Head(wire).posts) :
          Store(Head(wire).posts, done)
    BY <1>5 DEF KilledInHandler
  <2>2. UNCHANGED server /\ wire # <<>>
    BY <1>5 DEF KilledInHandler, Stop, db
  <2> QED BY <2>1, <2>2, StoreIsAdvance DEF Replica!Next
<1>6. CASE FeedEvent
  <2>1. /\ wire # <<>> /\ UNCHANGED server
        /\ Store(Head(wire).posts, Delivered(Head(wire).posts))
    BY <1>6 DEF FeedEvent, SqlHandler, db
  <2> QED BY <2>1, StoreIsAdvance DEF Replica!Next
<1>7. CASE ProfileEvent
  <2>1. wire # <<>> /\ UNCHANGED server
    BY <1>7 DEF ProfileEvent, db
  <2>2. CASE "profile" \in listens
    <3>1. Store(Head(wire).posts, Delivered(Head(wire).posts))
      BY <1>7, <2>2 DEF ProfileEvent, SqlHandler
    <3> QED BY <2>1, <3>1, StoreIsAdvance DEF Replica!Next
  <2>3. CASE "profile" \notin listens
    BY <1>7, <1>a, <2>1, <2>3 DEF ProfileEvent, disk
  <2> QED BY <2>2, <2>3
<1> QED BY <1>1, <1>2, <1>3, <1>4, <1>5, <1>6, <1>7 DEF Next, Write

(* Over quits, kills inside the handler, reconnects and answers in any     *)
(* order, the tables only ever move forward through versions the database  *)
(* held, and show exactly the posts alive at those versions.               *)
THEOREM DeviceIsReplica == Spec => IsReplica
<1>1. Init => Replica!Init
  BY ReplicaInit
<1>2. Inv /\ Inv' /\ [Next]_vars => [Replica!Next]_Replica!vars
  BY ReplicaStep
<1> QED BY <1>1, <1>2, Invariance, PTL DEF Spec, IsReplica, Replica!Spec

-----------------------------------------------------------------------------
(* What the watermark covers.  Versions of a post are ordered by their     *)
(* stamps as by their numbers, and nothing is stamped after the clock.     *)

LinkInv ==
  /\ live => link
  /\ asks # <<>> => link
  /\ link => up
  /\ up => 1 <= from /\ from - 1 <= clock
  /\ ~up => wire = <<>> /\ view = {} /\ gap # "open"

Later(v, w) ==
  /\ v.ver <= w.ver => v.ts <= w.ts
  /\ v.ver = w.ver => v = w

StampInv ==
  /\ lud <= clock
  /\ \A p \in PostIds : server[p].ts <= clock
  /\ \A p \in PostIds : rows[p] # Nothing => Later(rows[p], server[p])

(* v comes on the wire after everything the device has of the post.        *)
Stamps(v, p) ==
  v # Nothing => /\ Later(v, server[p])
                 /\ rows[p] # Nothing => rows[p].ts <= v.ts

WireStampInv ==
  /\ \A i \in 1 .. Len(wire), p \in PostIds : Stamps(wire[i].posts[p], p)
  /\ \A i, j \in 1 .. Len(wire), p \in PostIds :
       i <= j /\ wire[i].posts[p] # Nothing /\ wire[j].posts[p] # Nothing
         => wire[i].posts[p].ts <= wire[j].posts[p].ts

(* While the server pushes, the last feed result under way or handled is   *)
(* that of the database; what is in the result handled last is stored.     *)
HeldInv ==
  /\ live => Held = {FeedResult(server)}
  /\ \A v \in view, p \in PostIds : v[p] # Nothing => v[p].ver <= Copy[p]

SyncInv == Inv /\ LinkInv /\ StampInv /\ WireStampInv /\ HeldInv

-----------------------------------------------------------------------------
(* The wire with one message more and one less.                            *)

LEMMA AppendWire ==
  ASSUME TypeOK, NEW q \in Queries, NEW e \in BOOLEAN, NEW posts \in Posts,
         wire' = Append(wire, [query |-> q, early |-> e, posts |-> posts])
  PROVE  /\ Len(wire) \in Nat /\ Len(wire') = Len(wire) + 1
         /\ \A i \in 1 .. Len(wire) : wire'[i] = wire[i]
         /\ wire'[Len(wire) + 1].posts = posts
         /\ wire'[Len(wire) + 1].query = q
         /\ wire'[Len(wire) + 1].early = e
<1> DEFINE m == [query |-> q, early |-> e, posts |-> posts]
<1>1. wire \in Seq(Message) /\ m \in Message /\ Len(wire) \in Nat
  BY LenProperties DEF TypeOK, Message
<1>2. wire' = Append(wire, m) /\ m.posts = posts /\ m.query = q /\ m.early = e
  OBVIOUS
<1> HIDE DEF m
<1> QED BY <1>1, <1>2, AppendProperties

LEMMA TailWire ==
  ASSUME TypeOK, wire # <<>>, wire' = Tail(wire)
  PROVE  /\ Len(wire) \in Nat \ {0} /\ Len(wire') = Len(wire) - 1
         /\ wire[1] = Head(wire)
         /\ \A i \in 1 .. Len(wire') : wire'[i] = wire[i + 1] /\ i + 1 \in 1 .. Len(wire)
<1>1. /\ Len(wire) \in Nat \ {0} /\ Len(wire') = Len(wire) - 1
      /\ wire[1] = Head(wire)
      /\ \A i \in 1 .. Len(wire') : wire'[i] = wire[i + 1]
  BY EmptySeq, HeadTailProperties DEF TypeOK
<1>2. \A i \in 1 .. Len(wire') : i + 1 \in 1 .. Len(wire)
  BY <1>1
<1> QED BY <1>1, <1>2

LEMMA HeldAppend ==
  ASSUME TypeOK, NEW q \in Queries, NEW e \in BOOLEAN, NEW posts \in Posts,
         wire' = Append(wire, [query |-> q, early |-> e, posts |-> posts]),
         view' = view
  PROVE  Held' = IF q = "feed" THEN {posts} ELSE Held
<1> DEFINE feeds == {i \in 1 .. Len(wire) : wire[i].query = "feed"}
           Last(s) == {i \in s : \A j \in s : j <= i}
           n == Len(wire) + 1
<1>1. /\ Len(wire) \in Nat /\ Len(wire') = n
      /\ \A i \in 1 .. Len(wire) : wire'[i] = wire[i]
      /\ wire'[n].posts = posts /\ wire'[n].query = q
  BY AppendWire
<1>2. CASE q = "feed"
  <2>1. feeds' = feeds \cup {n}
    BY <1>1, <1>2
  <2>2. Last(feeds') = {n} /\ feeds' # {}
    BY <1>1, <2>1
  <2>3. Held' = {wire'[i].posts : i \in Last(feeds')}
    BY <2>2 DEF Held
  <2> QED BY <1>1, <1>2, <2>2, <2>3
<1>3. CASE q # "feed"
  <2>1. feeds' = feeds
    BY <1>1, <1>3
  <2>2. Last(feeds') = Last(feeds) /\ \A i \in Last(feeds) : wire'[i] = wire[i]
    BY <1>1, <2>1
  <2>3. {wire'[i].posts : i \in Last(feeds')} = {wire[i].posts : i \in Last(feeds)}
    BY <2>2
  <2>4. Held' = Held
    BY <2>1, <2>3 DEF Held
  <2> QED BY <1>3, <2>4
<1> QED BY <1>2, <1>3

LEMMA HeldTail ==
  ASSUME TypeOK, wire # <<>>, wire' = Tail(wire),
         view' = IF Head(wire).query = "feed" THEN {Head(wire).posts} ELSE view
  PROVE  Held' = Held
<1> DEFINE feeds == {i \in 1 .. Len(wire) : wire[i].query = "feed"}
           Last(s) == {i \in s : \A j \in s : j <= i}
<1>1. /\ Len(wire) \in Nat \ {0} /\ Len(wire') = Len(wire) - 1
      /\ wire[1] = Head(wire)
      /\ \A i \in 1 .. Len(wire') : wire'[i] = wire[i + 1] /\ i + 1 \in 1 .. Len(wire)
  BY TailWire
<1>2. /\ feeds \subseteq 1 .. Len(wire)
      /\ \A i \in 1 .. Len(wire') : i \in feeds' <=> i + 1 \in feeds
      /\ feeds' \subseteq 1 .. Len(wire')
      /\ 1 \in feeds <=> Head(wire).query = "feed"
  BY <1>1
<1>3. \A i \in feeds : i = 1 \/ (i - 1 \in 1 .. Len(wire') /\ i - 1 \in feeds')
  <2> SUFFICES ASSUME NEW i \in feeds, i # 1
               PROVE  i - 1 \in 1 .. Len(wire') /\ i - 1 \in feeds'
    OBVIOUS
  <2>1. i \in 1 .. Len(wire)
    BY <1>2
  <2>2. i - 1 \in 1 .. Len(wire') /\ (i - 1) + 1 = i
    BY <1>1, <2>1
  <2> QED BY <1>2, <2>2
<1>4. CASE feeds' = {} /\ feeds = {}
  BY <1>2, <1>4 DEF Held
<1>5. CASE feeds' = {} /\ feeds # {}
  <2>1. feeds = {1}
    BY <1>3, <1>5
  <2>2. Last(feeds) = {1}
    BY <2>1
  <2>3. Held = {wire[i].posts : i \in Last(feeds)}
    BY <1>5 DEF Held
  <2>4. Held = {Head(wire).posts}
    BY <1>1, <2>2, <2>3
  <2>5. Held' = view'
    BY <1>5 DEF Held
  <2> QED BY <1>2, <2>1, <2>4, <2>5
<1>6. CASE feeds' # {}
  <2>0. PICK k \in feeds' : TRUE
    BY <1>6
  <2>1. k \in 1 .. Len(wire') /\ k + 1 \in feeds
    BY <1>2, <2>0
  <2>a. \A i \in Last(feeds') : i + 1 \in Last(feeds) /\ wire'[i] = wire[i + 1]
    <3> TAKE i \in Last(feeds')
    <3>1. i \in 1 .. Len(wire') /\ i + 1 \in feeds
      BY <1>2
    <3>2. \A j \in feeds : j <= i + 1
      <4> TAKE j \in feeds
      <4>1. CASE j = 1
        BY <3>1, <4>1
      <4>2. CASE j # 1
        <5>1. j - 1 \in feeds' /\ j \in 1 .. Len(wire)
          BY <1>2, <1>3, <4>2
        <5>2. j - 1 <= i
          BY <5>1
        <5> QED BY <3>1, <5>1, <5>2
      <4> QED BY <4>1, <4>2
    <3> QED BY <1>1, <3>1, <3>2
  <2>b. \A i \in Last(feeds) : i - 1 \in Last(feeds') /\ wire'[i - 1] = wire[i]
    <3> TAKE i \in Last(feeds)
    <3>1. i \in 1 .. Len(wire) /\ k + 1 <= i
      BY <1>2, <2>1
    <3>2. i # 1
      BY <2>1, <3>1
    <3>3. i - 1 \in feeds' /\ i - 1 \in 1 .. Len(wire') /\ (i - 1) + 1 = i
      BY <1>3, <3>1, <3>2
    <3>4. \A j \in feeds' : j <= i - 1
      <4> TAKE j \in feeds'
      <4>1. j \in 1 .. Len(wire') /\ j + 1 \in feeds
        BY <1>2
      <4>2. j + 1 <= i
        BY <4>1
      <4> QED BY <3>1, <4>1, <4>2
    <3> QED BY <1>1, <3>3, <3>4
  <2>2. {wire'[i].posts : i \in Last(feeds')} = {wire[i].posts : i \in Last(feeds)}
    <3>1. \A i \in Last(feeds') : \E j \in Last(feeds) : wire[j].posts = wire'[i].posts
      BY <2>a
    <3>2. \A i \in Last(feeds) : \E j \in Last(feeds') : wire'[j].posts = wire[i].posts
      BY <2>b
    <3> HIDE DEF Last, feeds
    <3>3. ASSUME NEW x \in {wire'[i].posts : i \in Last(feeds')}
          PROVE  x \in {wire[i].posts : i \in Last(feeds)}
      <4>1. PICK i \in Last(feeds') : x = wire'[i].posts
        OBVIOUS
      <4> QED BY <3>1, <4>1
    <3>4. ASSUME NEW x \in {wire[i].posts : i \in Last(feeds)}
          PROVE  x \in {wire'[i].posts : i \in Last(feeds')}
      <4>1. PICK i \in Last(feeds) : x = wire[i].posts
        OBVIOUS
      <4> QED BY <3>2, <4>1
    <3> QED BY <3>3, <3>4
  <2>3. feeds # {}
    BY <2>1
  <2> QED BY <1>6, <2>2, <2>3 DEF Held
<1> QED BY <1>4, <1>5, <1>6

(* A write and its stamp: that of before, or the clock's.                  *)
Restamps(p, v) ==
  /\ clock <= clock'
  /\ \A q \in PostIds \ {p} : q \in tied => q \in tied'
  /\ \/ v.ts = server[p].ts /\ clock' = clock /\ server[p] # Nothing
        /\ (p \in tied => p \in tied')
     \/ v.ts = clock' /\ (p \notin tied' => clock < clock')

LEMMA StampRestamps ==
  ASSUME TypeOK, TypeOK', NEW p \in PostIds, NEW v, v.ts = clock', Stamp(p)
  PROVE  Restamps(p, v)
<1>1. PICK d \in Deltas : clock' = clock + d
  BY DEF Stamp
<1>2. d \in Nat /\ clock \in Nat
  BY FeedSyncAssumption DEF TypeOK
<1>3. clock <= clock'
  BY <1>1, <1>2
<1>4. tied' = IF clock' = clock THEN tied \cup {p} ELSE tied \ {p}
  BY DEF Stamp
<1>5. p \notin tied' => clock < clock'
  BY <1>1, <1>2, <1>4
<1> QED BY <1>3, <1>4, <1>5 DEF Restamps

(* The post that is written, and how its version changes.                  *)
LEMMA WriteIsCommit ==
  ASSUME TypeOK, TypeOK', Write
  PROVE  \E p \in PostIds, v \in Version :
           Commit(p, v) /\ Grows(server[p], v) /\ Restamps(p, v)
<1>0. PICK p \in PostIds : \/ Create(p)
                           \/ \E deletes \in BOOLEAN : WriteField(p, deletes)
                           \/ WriteStamp(p)
  BY DEF Write
<1>1. /\ server[p].ver \in Nat /\ server[p].ts \in Nat /\ server[p].diedAt \in Nat
      /\ clock' \in Nat /\ clock \in Nat
  BY VersionType DEF TypeOK
<1>2. CASE Create(p)
  <2> DEFINE v == [ver |-> 1, ts |-> clock', diedAt |-> 0]
  <2>1. /\ Commit(p, v) /\ Stamp(p) /\ server[p] = Nothing
        /\ v \in Version /\ v.ver = 1 /\ v.diedAt = 0 /\ v.ts = clock'
    BY <1>1, <1>2 DEF Create, Version
  <2> HIDE DEF v
  <2>2. Grows(server[p], v)
    BY <2>1, NothingFields DEF Grows
  <2>3. Restamps(p, v)
    BY <2>1, StampRestamps
  <2> QED BY <2>1, <2>2, <2>3
<1>3. ASSUME NEW deletes \in BOOLEAN, WriteField(p, deletes)
      PROVE  \E q \in PostIds, v \in Version :
               Commit(q, v) /\ Grows(server[q], v) /\ Restamps(q, v)
  <2> DEFINE v == [ver |-> server[p].ver + 1, ts |-> server[p].ts,
                   diedAt |-> IF deletes THEN server[p].ver + 1
                              ELSE server[p].diedAt]
  <2>1. Commit(p, v) /\ UNCHANGED <<clock, tied>> /\ server[p] # Nothing
    BY <1>3 DEF WriteField
  <2>2. /\ v \in Version /\ v.ver = server[p].ver + 1 /\ v.ts = server[p].ts
        /\ v.diedAt = IF deletes THEN server[p].ver + 1 ELSE server[p].diedAt
    BY <1>1 DEF Version
  <2> HIDE DEF v
  <2>3. Grows(server[p], v)
    BY <1>3, <2>2 DEF WriteField, Grows
  <2>4. Restamps(p, v)
    BY <1>1, <2>1, <2>2 DEF Restamps
  <2> QED BY <2>1, <2>2, <2>3, <2>4
<1>4. CASE WriteStamp(p)
  <2> DEFINE v == [ver |-> server[p].ver + 1, ts |-> clock',
                   diedAt |-> server[p].diedAt]
  <2>1. Commit(p, v) /\ Stamp(p)
    BY <1>4 DEF WriteStamp
  <2>2. /\ v \in Version /\ v.ver = server[p].ver + 1 /\ v.ts = clock'
        /\ v.diedAt = server[p].diedAt
    BY <1>1 DEF Version
  <2> HIDE DEF v
  <2>3. Grows(server[p], v)
    BY <2>2 DEF Grows
  <2>4. Restamps(p, v)
    BY <2>1, <2>2, StampRestamps
  <2> QED BY <2>1, <2>2, <2>3, <2>4
<1> QED BY <1>0, <1>2, <1>3, <1>4

(* A commit and what it sends.                                             *)
LEMMA CommitSends ==
  ASSUME Inv, TypeOK', NEW p \in PostIds, NEW v \in Version, Commit(p, v)
  PROVE  /\ server'[p] = v /\ \A q \in PostIds : q # p => server'[q] = server[q]
         /\ UNCHANGED <<disk, app, link, asks, live, gap>>
         /\ \/ wire' = wire
            \/ /\ live
               /\ wire' = Append(wire, [query |-> "feed", early |-> FALSE,
                                        posts |-> FeedResult(server')])
         /\ live /\ wire' = wire => FeedResult(server') = FeedResult(server)
         /\ FeedResult(server') \in Posts
<1>1. wire # Append(wire, [query |-> "feed", early |-> FALSE,
                           posts |-> FeedResult(server')])
  <2> DEFINE m == [query |-> "feed", early |-> FALSE, posts |-> FeedResult(server')]
  <2>1. FeedResult(server') \in Posts
    BY FeedResultType DEF TypeOK
  <2>2. m \in Message /\ wire \in Seq(Message)
    BY <2>1 DEF Message, Queries, Inv, TypeOK
  <2> HIDE DEF m
  <2>3. Len(Append(wire, m)) = Len(wire) + 1 /\ Len(wire) \in Nat
    BY <2>2, AppendProperties, LenProperties
  <2>4. wire # Append(wire, m)
    BY <2>3
  <2> QED BY <2>4 DEF m
<1>2. FeedResult(server') \in Posts
  BY FeedResultType DEF TypeOK
<1> QED BY <1>1, <1>2 DEF Commit, Inv, TypeOK, Posts

-----------------------------------------------------------------------------
(* The connection.                                                         *)

LEMMA LinkStep == Inv /\ LinkInv /\ StampInv /\ TypeOK' /\ [Next]_vars => LinkInv'
<1> SUFFICES ASSUME Inv, LinkInv, StampInv, TypeOK', [Next]_vars PROVE LinkInv'
  OBVIOUS
<1>0. /\ clock \in Nat /\ clock' \in Nat /\ lud \in Nat /\ from \in Nat
      /\ from' \in Nat
  BY DEF Inv, TypeOK
<1>1. CASE Write
  <2>1. PICK p \in PostIds, v \in Version :
          Commit(p, v) /\ Grows(server[p], v) /\ Restamps(p, v)
    BY <1>1, WriteIsCommit DEF Inv
  <2>2. /\ UNCHANGED <<up, from, view, link, asks, live, gap>>
        /\ wire' # wire => live
    BY <2>1, CommitSends DEF app
  <2>3. clock <= clock'
    BY <2>1 DEF Restamps
  <2>4. from - 1 <= clock => from - 1 <= clock'
    BY <1>0, <2>3
  <2> QED BY <2>2, <2>4 DEF LinkInv
<1>2. CASE Launch
  <2>1. PICK seen \in {lud, 0} : from' = seen + 1
    BY <1>2 DEF Launch, GetLastUpdate
  <2>2. 1 <= from' /\ from' - 1 <= clock
    <3>1. seen \in Nat /\ seen <= clock
      BY <1>0 DEF StampInv
    <3> QED BY <1>0, <2>1, <3>1
  <2>3. UNCHANGED <<clock, link, asks, live, gap>> /\ ~up /\ up'
    BY <1>2 DEF Launch, db, net
  <2> QED BY <2>1, <2>2, <2>3 DEF LinkInv
<1>3. CASE Quit \/ KilledInHandler
  BY <1>3 DEF Quit, KilledInHandler, Stop, LinkInv, Inv, TypeOK
<1>4. CASE OpenProfile
  BY <1>4 DEF OpenProfile, LinkInv, db
<1>5. CASE Connect
  BY <1>5 DEF Connect, LinkInv, db, app
<1>6. CASE Drop
  <2>1. link /\ ~live' /\ ~link' /\ asks' = <<>> /\ UNCHANGED <<up, from, clock, view, gap>>
    BY <1>6 DEF Drop, db, app
  <2> QED BY <2>1 DEF LinkInv
<1>7. CASE AnswerFeed \/ AnswerProfile
  <2>1. up /\ link
    <3>1. asks # <<>>
      BY <1>7 DEF AnswerFeed, AnswerProfile
    <3> QED BY <3>1 DEF LinkInv
  <2> QED BY <1>7, <2>1 DEF AnswerFeed, AnswerProfile, LinkInv, db, app
<1>8. CASE FeedEvent
  <2>1. up
    BY <1>8 DEF FeedEvent, LinkInv
  <2> QED BY <1>8, <2>1 DEF FeedEvent, LinkInv, db
<1>9. CASE ProfileEvent
  <2>1. up
    BY <1>9 DEF ProfileEvent, LinkInv
  <2> QED BY <1>9, <2>1 DEF ProfileEvent, LinkInv, db
<1>10. CASE UNCHANGED vars
  BY <1>10 DEF vars, db, app, net, LinkInv
<1> QED BY <1>1, <1>2, <1>3, <1>4, <1>5, <1>6, <1>7, <1>8, <1>9, <1>10 DEF Next

-----------------------------------------------------------------------------
(* Stamps.                                                                 *)

(* A message with what the database holds now may follow all others.       *)
LEMMA AppendStamps ==
  ASSUME TypeOK, TypeOK', Inv', UNCHANGED <<rows, tomb>>,
         NEW posts \in Posts, NEW q \in Queries, NEW e \in BOOLEAN,
         \A p \in PostIds : posts[p] \in {Nothing, server'[p]},
         \A i \in 1 .. Len(wire), p \in PostIds : Stamps(wire[i].posts[p], p)',
         WireStampInv, StampInv',
         wire' = Append(wire, [query |-> q, early |-> e, posts |-> posts])
  PROVE  WireStampInv'
<1>1. /\ Len(wire) \in Nat /\ Len(wire') = Len(wire) + 1
      /\ \A i \in 1 .. Len(wire) : wire'[i] = wire[i]
      /\ wire'[Len(wire) + 1].posts = posts
  BY AppendWire
<1>2. \A i \in 1 .. Len(wire') : i \in 1 .. Len(wire) \/ i = Len(wire) + 1
  BY <1>1
<1>3. ASSUME NEW p \in PostIds PROVE Stamps(posts[p], p)'
  <2>1. server'[p].ver \in Nat /\ server'[p].ts \in Nat /\ rows'[p].ver \in Nat
    BY VersionType DEF TypeOK
  <2>2. rows'[p] # Nothing => rows'[p].ts <= server'[p].ts
    BY <2>1 DEF StampInv, Later, Inv, DiskInv, Past
  <2>3. Later(server'[p], server'[p])
    BY <2>1 DEF Later
  <2> QED BY <2>2, <2>3 DEF Stamps
<1>4. \A i \in 1 .. Len(wire'), p \in PostIds : Stamps(wire[i].posts[p], p)'
  BY <1>1, <1>2, <1>3 DEF Stamps
<1>5. ASSUME NEW i \in 1 .. Len(wire'), NEW j \in 1 .. Len(wire'),
             NEW p \in PostIds, i <= j,
             wire'[i].posts[p] # Nothing, wire'[j].posts[p] # Nothing
      PROVE  wire'[i].posts[p].ts <= wire'[j].posts[p].ts
  <2>1. CASE j \in 1 .. Len(wire)
    <3>1. i \in 1 .. Len(wire)
      BY <1>1, <1>5, <2>1
    <3> QED BY <1>1, <1>5, <2>1, <3>1 DEF WireStampInv
  <2>2. CASE j = Len(wire) + 1
    <3>1. wire'[j].posts[p] = server'[p]
      BY <1>1, <1>5, <2>2
    <3>2. wire'[i].posts[p].ver <= server'[p].ver
      <4>1. Past(wire'[i].posts[p], server'[p])
        BY <1>5 DEF Inv, WireInv, Fresh
      <4>2. server'[p].ver \in Nat
        BY VersionType DEF TypeOK
      <4> QED BY <1>5, <4>1, <4>2 DEF Past
    <3>3. Later(wire'[i].posts[p], server'[p])
      BY <1>4, <1>5 DEF Stamps
    <3> QED BY <3>1, <3>2, <3>3 DEF Later
  <2> QED BY <1>2, <2>1, <2>2
<1> QED BY <1>4, <1>5 DEF WireStampInv

LEMMA FrameStamps ==
  ASSUME SyncInv, TypeOK', clock' = clock, UNCHANGED <<server, rows, lud>>,
         Len(wire') <= Len(wire), \A i \in 1 .. Len(wire') : wire'[i] = wire[i]
  PROVE  StampInv' /\ WireStampInv'
<1>1. StampInv'
  BY DEF SyncInv, StampInv
<1>2. Len(wire') \in Nat /\ Len(wire) \in Nat
  BY LenProperties DEF SyncInv, Inv, TypeOK
<1>3. \A i \in 1 .. Len(wire') : i \in 1 .. Len(wire)
  BY <1>2
<1>4. WireStampInv'
  BY <1>3 DEF SyncInv, WireStampInv, Stamps
<1> QED BY <1>1, <1>4

(* A version older than the database's stays older when it is written.     *)
LEMMA LaterGrows ==
  ASSUME NEW w \in Version, NEW s \in Version, NEW t \in Version,
         w.ver <= s.ver, Later(w, s), Grows(s, t), s.ts <= t.ts
  PROVE  Later(w, t)
<1>1. /\ w.ver \in Nat /\ s.ver \in Nat /\ t.ver \in Nat
      /\ w.ts \in Nat /\ s.ts \in Nat /\ t.ts \in Nat
  BY DEF Version
<1> QED BY <1>1 DEF Later, Grows

LEMMA CommitStamps ==
  ASSUME SyncInv, Inv', NEW p \in PostIds, NEW v \in Version, Commit(p, v),
         Grows(server[p], v), Restamps(p, v)
  PROVE  StampInv' /\ WireStampInv'
<1> USE DEF SyncInv
<1>0. TypeOK /\ TypeOK'
  BY DEF Inv
<1>1. /\ server'[p] = v /\ \A q \in PostIds : q # p => server'[q] = server[q]
      /\ UNCHANGED <<rows, lud, tomb>>
      /\ \/ wire' = wire
         \/ wire' = Append(wire, [query |-> "feed", early |-> FALSE,
                                  posts |-> FeedResult(server')])
      /\ FeedResult(server') \in Posts
  BY <1>0, CommitSends DEF disk
<1>2. \A q \in PostIds : /\ server[q] \in Version /\ server[q].ts \in Nat
                         /\ server[q].ver \in Nat /\ rows[q] \in Version
  BY <1>0, VersionType DEF TypeOK
<1>3. clock \in Nat /\ clock' \in Nat /\ clock <= clock' /\ lud \in Nat
  BY <1>0 DEF TypeOK, Restamps
<1>4. server[p].ts <= v.ts /\ v.ts <= clock'
  BY <1>2, <1>3 DEF Restamps, StampInv
<1>5. \A q \in PostIds : server'[q].ts <= clock'
  BY <1>1, <1>2, <1>3, <1>4 DEF StampInv
<1>6. ASSUME NEW q \in PostIds, NEW w \in Version, w # Nothing,
             Past(w, server[q]), Later(w, server[q])
      PROVE  Later(w, server'[q])
  <2>1. CASE q = p
    <3>1. w.ver <= server[p].ver
      BY <1>2, <1>6, <2>1 DEF Past
    <3> QED BY <1>1, <1>2, <1>4, <1>6, <2>1, <3>1, LaterGrows
  <2>2. CASE q # p
    BY <1>1, <1>6, <2>2
  <2> QED BY <2>1, <2>2
<1>7. StampInv'
  <2>1. lud' <= clock'
    BY <1>1, <1>3 DEF StampInv
  <2>2. \A q \in PostIds : rows'[q] # Nothing => Later(rows'[q], server'[q])
    BY <1>1, <1>2, <1>6 DEF StampInv, Inv, DiskInv
  <2> QED BY <1>5, <2>1, <2>2 DEF StampInv
<1>8. \A i \in 1 .. Len(wire), q \in PostIds : Stamps(wire[i].posts[q], q)'
  <2> SUFFICES ASSUME NEW i \in 1 .. Len(wire), NEW q \in PostIds,
                      wire[i].posts[q] # Nothing
               PROVE  /\ Later(wire[i].posts[q], server'[q])
                      /\ rows[q] # Nothing => rows[q].ts <= wire[i].posts[q].ts
    BY <1>1 DEF Stamps
  <2>1. Past(wire[i].posts[q], server[q]) /\ wire[i].posts[q] \in Version
    BY <1>0, WireElement, VersionType DEF Inv, WireInv, Fresh
  <2>2. /\ Later(wire[i].posts[q], server[q])
        /\ rows[q] # Nothing => rows[q].ts <= wire[i].posts[q].ts
    BY DEF WireStampInv, Stamps
  <2> QED BY <1>6, <2>1, <2>2
<1>9. CASE wire' = wire
  BY <1>7, <1>8, <1>9 DEF WireStampInv, Stamps
<1>10. CASE wire' = Append(wire, [query |-> "feed", early |-> FALSE,
                                  posts |-> FeedResult(server')])
  <2>1. /\ \A q \in PostIds : FeedResult(server')[q] \in {Nothing, server'[q]}
        /\ "feed" \in Queries /\ FALSE \in BOOLEAN
    BY DEF FeedResult, Queries
  <2>2. WireStampInv'
    BY <1>0, <1>1, <1>7, <1>8, <1>10, <2>1, AppendStamps
  <2> QED BY <1>7, <2>2
<1> QED BY <1>1, <1>9, <1>10

LEMMA AnswerStamps ==
  ASSUME SyncInv, Inv', UNCHANGED <<server, rows, tomb, lud, clock>>,
         NEW posts \in Posts, NEW q \in Queries, NEW e \in BOOLEAN,
         \A p \in PostIds : posts[p] \in {Nothing, server[p]},
         wire' = Append(wire, [query |-> q, early |-> e, posts |-> posts])
  PROVE  StampInv' /\ WireStampInv'
<1>1. TypeOK /\ TypeOK' /\ WireStampInv
  BY DEF SyncInv, Inv
<1>2. StampInv'
  BY DEF SyncInv, StampInv
<1>3. \A i \in 1 .. Len(wire), p \in PostIds : Stamps(wire[i].posts[p], p)'
  BY DEF SyncInv, WireStampInv, Stamps
<1>4. WireStampInv'
  BY <1>1, <1>2, <1>3, AppendStamps
<1> QED BY <1>2, <1>4

(* What a row becomes when posts of the first event are stored.            *)
LEMMA StoredRow ==
  ASSUME TypeOK, wire # <<>>, NEW done \in SUBSET Delivered(Head(wire).posts),
         Store(Head(wire).posts, done), NEW p \in PostIds
  PROVE  /\ rows'[p] # Nothing => \/ rows'[p] = rows[p] /\ p \notin done
                                  \/ rows'[p] = wire[1].posts[p] /\ p \in done
         /\ p \in done => wire[1].posts[p] # Nothing
         /\ p \in done /\ wire[1].posts[p].diedAt > 0 =>
              tomb'[p] = wire[1].posts[p].ver /\ rows'[p] = Nothing
         /\ p \in done /\ ~(wire[1].posts[p].diedAt > 0) =>
              rows'[p] = wire[1].posts[p] /\ tomb'[p] = tomb[p]
         /\ p \notin done => rows'[p] = rows[p] /\ tomb'[p] = tomb[p]
<1>1. wire[1] = Head(wire)
  BY DEF TypeOK
<1> QED BY <1>1 DEF Store, Delivered

LEMMA StoreStamps ==
  ASSUME SyncInv, TypeOK', wire # <<>>, UNCHANGED server,
         NEW done \in SUBSET Delivered(Head(wire).posts),
         Store(Head(wire).posts, done)
  PROVE  \A p \in PostIds : rows'[p] # Nothing =>
           /\ Later(rows'[p], server[p])
           /\ \A i \in 1 .. Len(wire) : wire[i].posts[p] # Nothing =>
                rows'[p].ts <= wire[i].posts[p].ts
<1> SUFFICES ASSUME NEW p \in PostIds, rows'[p] # Nothing
             PROVE  /\ Later(rows'[p], server[p])
                    /\ \A i \in 1 .. Len(wire) : wire[i].posts[p] # Nothing =>
                         rows'[p].ts <= wire[i].posts[p].ts
  OBVIOUS
<1>1. TypeOK
  BY DEF SyncInv, Inv
<1>2. /\ rows'[p] = rows[p] \/ (p \in done /\ rows'[p] = wire[1].posts[p])
      /\ p \in done => wire[1].posts[p] # Nothing
  BY <1>1, StoredRow
<1>3. CASE rows'[p] = rows[p]
  BY <1>3 DEF SyncInv, StampInv, WireStampInv, Stamps
<1>4. CASE p \in done /\ rows'[p] = wire[1].posts[p]
  <2>1. 1 \in 1 .. Len(wire) /\ \A i \in 1 .. Len(wire) : 1 <= i
    BY <1>1, EmptySeq DEF TypeOK
  <2> QED BY <1>2, <1>4, <2>1 DEF SyncInv, WireStampInv, Stamps
<1> QED BY <1>2, <1>3, <1>4

(* sqlHandler moves the watermark to a stamp the database has given.       *)
LEMMA HandlerLud ==
  ASSUME SyncInv, TypeOK', wire # <<>>, NEW seen \in Nat,
         SqlHandler(Head(wire).posts, seen)
  PROVE  /\ lud' <= clock
         /\ \/ lud' = lud
            \/ \E q \in PostIds : lud' = wire[1].posts[q].ts
<1>1. TypeOK /\ clock \in Nat
  BY DEF SyncInv, Inv, TypeOK
<1>2. wire[1] = Head(wire) /\ 1 \in 1 .. Len(wire)
  BY <1>1, EmptySeq DEF TypeOK
<1>3. CASE lud' = lud
  BY <1>3 DEF SyncInv, StampInv
<1>4. CASE lud' # lud
  <2>1. PICK q \in Delivered(Head(wire).posts) : lud' = wire[1].posts[q].ts
    BY <1>2, <1>4 DEF SqlHandler
  <2>2. q \in PostIds /\ wire[1].posts[q] # Nothing
    BY <1>2 DEF Delivered
  <2>3. /\ wire[1].posts[q].ts \in Nat /\ wire[1].posts[q].ver \in Nat
        /\ server[q].ts \in Nat /\ server[q].ver \in Nat
    BY <1>1, <1>2, <2>2, WireElement, VersionType DEF TypeOK
  <2>4. Past(wire[1].posts[q], server[q]) /\ Later(wire[1].posts[q], server[q])
    BY <1>2, <2>2 DEF SyncInv, Inv, WireInv, Fresh, WireStampInv, Stamps
  <2>5. wire[1].posts[q].ts <= server[q].ts
    BY <2>2, <2>3, <2>4 DEF Past, Later
  <2>6. lud' <= clock
    BY <1>1, <2>1, <2>2, <2>3, <2>5 DEF SyncInv, StampInv
  <2> QED BY <2>1, <2>2, <2>6
<1> QED BY <1>3, <1>4

(* One event is handled, in full, by sqlHandler or not at all.             *)
LEMMA ConsumeStamps ==
  ASSUME SyncInv, TypeOK', wire # <<>>, wire' = Tail(wire),
         UNCHANGED <<server, clock>>, lud' <= clock,
         \/ Store(Head(wire).posts, Delivered(Head(wire).posts))
         \/ UNCHANGED <<rows, tomb>>
  PROVE  StampInv' /\ WireStampInv'
<1>1. TypeOK
  BY DEF SyncInv, Inv
<1>2. \A i \in 1 .. Len(wire') : wire'[i] = wire[i + 1] /\ i + 1 \in 1 .. Len(wire)
  BY <1>1, TailWire
<1>3. \A p \in PostIds : rows'[p] # Nothing =>
           /\ Later(rows'[p], server[p])
           /\ \A i \in 1 .. Len(wire) : wire[i].posts[p] # Nothing =>
                rows'[p].ts <= wire[i].posts[p].ts
  <2>1. CASE Store(Head(wire).posts, Delivered(Head(wire).posts))
    BY <2>1, StoreStamps
  <2>2. CASE UNCHANGED <<rows, tomb>>
    BY <2>2 DEF SyncInv, StampInv, WireStampInv, Stamps
  <2> QED BY <2>1, <2>2
<1>4. StampInv'
  BY <1>3 DEF SyncInv, StampInv
<1>5. \A i \in 1 .. Len(wire'), p \in PostIds : Stamps(wire[i].posts[p], p)'
  BY <1>2, <1>3 DEF SyncInv, WireStampInv, Stamps
<1>6. ASSUME NEW i \in 1 .. Len(wire'), NEW j \in 1 .. Len(wire'),
             NEW p \in PostIds, i <= j,
             wire'[i].posts[p] # Nothing, wire'[j].posts[p] # Nothing
      PROVE  wire'[i].posts[p].ts <= wire'[j].posts[p].ts
  <2>1. i + 1 <= j + 1
    BY <1>6
  <2> QED BY <1>2, <1>6, <2>1 DEF SyncInv, WireStampInv
<1> QED BY <1>4, <1>5, <1>6 DEF WireStampInv

LEMMA KilledStamps ==
  ASSUME SyncInv, TypeOK', KilledInHandler
  PROVE  StampInv' /\ WireStampInv'
<1>1. PICK done \in SUBSET Delivered(Head(wire).posts) :
        Store(Head(wire).posts, done)
  BY DEF KilledInHandler
<1>2. UNCHANGED <<server, clock, lud>> /\ wire' = <<>> /\ wire # <<>>
  BY DEF KilledInHandler, Stop, db
<1>3. StampInv'
  BY <1>1, <1>2, StoreStamps DEF SyncInv, StampInv
<1>4. WireStampInv'
  BY <1>2, EmptySeq DEF WireStampInv
<1> QED BY <1>3, <1>4

(* Seen from the wire, an event handled by FeedEvent or ProfileEvent.      *)
LEMMA EventHandled ==
  ASSUME SyncInv, TypeOK', FeedEvent \/ ProfileEvent
  PROVE  /\ wire # <<>> /\ wire' = Tail(wire) /\ UNCHANGED db
         /\ lud' <= clock
         /\ \/ Store(Head(wire).posts, Delivered(Head(wire).posts))
            \/ UNCHANGED <<rows, tomb>>
<1>1. wire # <<>> /\ wire' = Tail(wire) /\ UNCHANGED db
  BY DEF FeedEvent, ProfileEvent
<1>2. CASE \E seen \in GetLastUpdate : SqlHandler(Head(wire).posts, seen)
  <2>1. GetLastUpdate \subseteq Nat
    BY DEF GetLastUpdate, SyncInv, Inv, TypeOK
  <2> QED BY <1>1, <1>2, <2>1, HandlerLud DEF SqlHandler
<1>3. CASE ~ \E seen \in GetLastUpdate : SqlHandler(Head(wire).posts, seen)
  <2>1. UNCHANGED disk
    BY <1>3 DEF FeedEvent, ProfileEvent
  <2> QED BY <1>1, <2>1 DEF disk, SyncInv, StampInv
<1> QED BY <1>2, <1>3

(* Actions that touch neither the database nor the tables, and at most cut *)
(* the wire.                                                               *)
LEMMA FrameActions ==
  ASSUME SyncInv,
         Launch \/ Quit \/ OpenProfile \/ Connect \/ Drop \/ UNCHANGED vars
  PROVE  /\ UNCHANGED <<server, clock, tied, rows, tomb, lud>>
         /\ Len(wire') <= Len(wire)
         /\ \A i \in 1 .. Len(wire') : wire'[i] = wire[i]
<1>1. UNCHANGED <<server, clock, tied, rows, tomb, lud>>
  BY DEF Launch, Quit, Stop, OpenProfile, Connect, Drop, vars, db, disk
<1>2. wire \in Seq(Message) /\ Len(wire) \in Nat
  BY LenProperties DEF SyncInv, Inv, TypeOK
<1>3. CASE Launch \/ OpenProfile \/ Connect \/ UNCHANGED vars
  <2>1. wire' = wire
    BY <1>3 DEF Launch, OpenProfile, Connect, vars, net
  <2> QED BY <1>1, <1>2, <2>1
<1>4. CASE Quit
  <2>1. wire' = <<>> /\ Len(wire') = 0
    BY <1>4, EmptySeq DEF Quit, Stop
  <2> QED BY <1>1, <1>2, <2>1
<1>5. CASE Drop
  <2>1. PICK received \in 0 .. Len(wire) : wire' = SubSeq(wire, 1, received)
    BY <1>5 DEF Drop
  <2>2. \A i \in 1 .. received : wire[i] \in Message
    BY <1>2, ElementOfSeq
  <2>3. Len(wire') = received /\ \A i \in 1 .. received : wire'[i] = wire[i]
    BY <1>2, <2>1, <2>2
  <2> QED BY <1>1, <1>2, <2>3
<1> QED BY <1>3, <1>4, <1>5

(* An answer appends what the database holds now, or nothing.              *)
(* One way of saying what an answer sends, whatever its query.             *)
LEMMA Sent ==
  ASSUME NEW q \in Queries, NEW e \in BOOLEAN, NEW posts \in Posts,
         wire' = Append(wire, [query |-> q, early |-> e, posts |-> posts]),
         \/ AnswerFeed /\ q = "feed" /\ posts = FeedResult(server) /\ ~e
         \/ AnswerProfile /\ q = "profile" /\ posts = Own(server) /\ (e <=> ~live),
         \A p \in PostIds : posts[p] \in {Nothing, server[p]}
  PROVE  \E r \in Queries, f \in BOOLEAN, answer \in Posts :
           /\ wire' = Append(wire, [query |-> r, early |-> f, posts |-> answer])
           /\ \/ AnswerFeed /\ r = "feed" /\ answer = FeedResult(server) /\ ~f
              \/ AnswerProfile /\ r = "profile" /\ answer = Own(server)
                 /\ (f <=> ~live)
           /\ \A p \in PostIds : answer[p] \in {Nothing, server[p]}
OBVIOUS

LEMMA AnswerSends ==
  ASSUME TypeOK, AnswerFeed \/ AnswerProfile
  PROVE  /\ UNCHANGED <<db, disk, app, gap, link>>
         /\ \/ wire' = wire /\ AnswerFeed /\ Held = {FeedResult(server)}
            \/ \E q \in Queries, e \in BOOLEAN, posts \in Posts :
                 /\ wire' = Append(wire, [query |-> q, early |-> e, posts |-> posts])
                 /\ \/ AnswerFeed /\ q = "feed" /\ posts = FeedResult(server) /\ ~e
                    \/ AnswerProfile /\ q = "profile" /\ posts = Own(server)
                       /\ (e <=> ~live)
                 /\ \A p \in PostIds : posts[p] \in {Nothing, server[p]}
<1>1. /\ FeedResult(server) \in Posts /\ Own(server) \in Posts
      /\ \A p \in PostIds : /\ FeedResult(server)[p] \in {Nothing, server[p]}
                            /\ Own(server)[p] \in {Nothing, server[p]}
  BY FeedResultType, OwnType DEF TypeOK, FeedResult, Own
<1>2. CASE AnswerFeed
  <2>1. CASE Held = {FeedResult(server)}
    BY <1>2, <2>1 DEF AnswerFeed
  <2>2. CASE Held # {FeedResult(server)}
    <3>1. wire' = Append(wire, [query |-> "feed", early |-> FALSE,
                                posts |-> FeedResult(server)])
      BY <1>2, <2>2 DEF AnswerFeed
    <3>2. "feed" \in Queries
      BY DEF Queries
    <3>3. UNCHANGED <<db, disk, app, gap, link>>
      BY <1>2 DEF AnswerFeed
    <3>4. FALSE \in BOOLEAN
      OBVIOUS
    <3> QED BY <1>1, <1>2, <3>1, <3>2, <3>3, <3>4, Sent
  <2> QED BY <2>1, <2>2
<1>3. CASE AnswerProfile
  <2>1. wire' = Append(wire, [query |-> "profile", early |-> ~live,
                              posts |-> Own(server)])
    BY <1>3 DEF AnswerProfile
  <2>2. "profile" \in Queries /\ (~live) \in BOOLEAN
    BY DEF Queries
  <2>3. UNCHANGED <<db, disk, app, gap, link>>
    BY <1>3 DEF AnswerProfile
  <2> DEFINE e == ~live
  <2>4. e \in BOOLEAN /\ (e <=> ~live)
    OBVIOUS
  <2> HIDE DEF e
  <2>5. wire' = Append(wire, [query |-> "profile", early |-> e,
                              posts |-> Own(server)])
    BY <2>1 DEF e
  <2> QED BY <1>1, <1>3, <2>2, <2>3, <2>4, <2>5, Sent
<1> QED BY <1>2, <1>3

LEMMA StampStep == SyncInv /\ Inv' /\ [Next]_vars => StampInv' /\ WireStampInv'
<1> SUFFICES ASSUME SyncInv, Inv', [Next]_vars PROVE StampInv' /\ WireStampInv'
  OBVIOUS
<1>0. TypeOK /\ TypeOK'
  BY DEF SyncInv, Inv
<1>1. CASE Write
  BY <1>0, <1>1, WriteIsCommit, CommitStamps
<1>2. CASE Launch \/ Quit \/ OpenProfile \/ Connect \/ Drop \/ UNCHANGED vars
  BY <1>0, <1>2, FrameActions, FrameStamps
<1>3. CASE KilledInHandler
  BY <1>0, <1>3, KilledStamps
<1>4. CASE AnswerFeed \/ AnswerProfile
  <2>1. UNCHANGED <<server, rows, tomb, lud, clock>>
    BY <1>0, <1>4, AnswerSends DEF db, disk
  <2>2. CASE wire' = wire
    <3>1. Len(wire') <= Len(wire)
      BY <1>0, <2>2, LenProperties DEF TypeOK
    <3> QED BY <1>0, <2>1, <2>2, <3>1, FrameStamps
  <2>3. CASE wire' # wire
    <3>1. PICK q \in Queries, e \in BOOLEAN, posts \in Posts :
            /\ wire' = Append(wire, [query |-> q, early |-> e, posts |-> posts])
            /\ \A p \in PostIds : posts[p] \in {Nothing, server[p]}
      BY <1>0, <1>4, <2>3, AnswerSends
    <3> QED BY <2>1, <3>1, AnswerStamps
  <2> QED BY <2>2, <2>3
<1>5. CASE FeedEvent \/ ProfileEvent
  BY <1>0, <1>5, EventHandled, ConsumeStamps DEF db
<1> QED BY <1>1, <1>2, <1>3, <1>4, <1>5 DEF Next

-----------------------------------------------------------------------------
(* The feed result that is held.                                           *)

LEMMA HeldStep == SyncInv /\ Inv' /\ [Next]_vars => HeldInv'
<1> SUFFICES ASSUME SyncInv, Inv', [Next]_vars PROVE HeldInv'
  OBVIOUS
<1>0. TypeOK /\ TypeOK' /\ HeldInv /\ LinkInv
  BY DEF SyncInv, Inv
<1>1. CASE Write
  <2>1. PICK p \in PostIds, v \in Version : Commit(p, v)
    BY <1>0, <1>1, WriteIsCommit
  <2>2. /\ UNCHANGED <<rows, tomb, from, view, live>>
        /\ \/ wire' = wire /\ (live => FeedResult(server') = FeedResult(server))
           \/ wire' = Append(wire, [query |-> "feed", early |-> FALSE,
                                    posts |-> FeedResult(server')])
        /\ FeedResult(server') \in Posts
    BY <1>0, <2>1, CommitSends DEF SyncInv, disk, app
  <2>3. /\ Copy' = Copy /\ FeedResult(server)' = FeedResult(server')
    BY <2>2 DEF Copy, FeedResult
  <2>4. CASE wire' = wire /\ (live => FeedResult(server') = FeedResult(server))
    <3>1. Held' = Held
      BY <2>2, <2>4 DEF Held
    <3> QED BY <1>0, <2>2, <2>3, <2>4, <3>1 DEF HeldInv
  <2>5. CASE wire' = Append(wire, [query |-> "feed", early |-> FALSE,
                                   posts |-> FeedResult(server')])
    <3>1. "feed" \in Queries /\ FALSE \in BOOLEAN
      BY DEF Queries
    <3>2. Held' = {FeedResult(server')}
      BY <1>0, <2>2, <2>5, <3>1, HeldAppend
    <3> QED BY <1>0, <2>2, <2>3, <3>2 DEF HeldInv
  <2> QED BY <2>2, <2>4, <2>5
<1>2. CASE Launch
  <2>1. ~up /\ live' = live /\ view' = view
    BY <1>2 DEF Launch, net
  <2>2. ~live /\ view = {}
    BY <1>0, <2>1 DEF LinkInv
  <2> QED BY <2>1, <2>2 DEF HeldInv
<1>3. CASE Quit \/ KilledInHandler
  <2>1. ~live' /\ view' = {}
    BY <1>3 DEF Quit, KilledInHandler, Stop
  <2> QED BY <2>1 DEF HeldInv
<1>4. CASE OpenProfile \/ Connect \/ UNCHANGED vars
  <2>1. UNCHANGED <<server, from, rows, tomb, view, live, wire>>
    BY <1>4 DEF OpenProfile, Connect, vars, db, disk, app, net
  <2>2. Held' = Held
    BY <2>1 DEF Held
  <2>3. Copy' = Copy /\ FeedResult(server)' = FeedResult(server)
    BY <2>1 DEF Copy, FeedResult
  <2> QED BY <1>0, <2>1, <2>2, <2>3 DEF HeldInv
<1>5. CASE Drop
  <2>1. ~live' /\ UNCHANGED <<rows, tomb, view>>
    BY <1>5 DEF Drop, disk, app
  <2> QED BY <1>0, <2>1 DEF HeldInv, Copy
<1>6. CASE AnswerFeed \/ AnswerProfile
  <2>1. UNCHANGED <<server, rows, tomb, from, view>>
    BY <1>0, <1>6, AnswerSends DEF db, disk, app
  <2>2. Copy' = Copy /\ FeedResult(server)' = FeedResult(server)
    BY <2>1 DEF Copy, FeedResult
  <2>3. live' => Held' = {FeedResult(server)}
    <3>1. CASE wire' = wire /\ Held = {FeedResult(server)}
      BY <2>1, <3>1 DEF Held
    <3>2. ASSUME NEW q \in Queries, NEW e \in BOOLEAN, NEW posts \in Posts,
                 wire' = Append(wire, [query |-> q, early |-> e, posts |-> posts]),
                 \/ AnswerFeed /\ q = "feed" /\ posts = FeedResult(server)
                 \/ AnswerProfile /\ q = "profile"
          PROVE  live' => Held' = {FeedResult(server)}
      <4>1. Held' = IF q = "feed" THEN {posts} ELSE Held
        BY <1>0, <2>1, <3>2, HeldAppend
      <4>2. CASE AnswerFeed /\ q = "feed" /\ posts = FeedResult(server)
        BY <4>1, <4>2
      <4>3. CASE AnswerProfile /\ q = "profile"
        <5>1. live' = live
          BY <4>3 DEF AnswerProfile
        <5> QED BY <1>0, <4>1, <4>3, <5>1 DEF HeldInv
      <4> QED BY <3>2, <4>2, <4>3
    <3> QED BY <1>0, <1>6, <3>1, <3>2, AnswerSends
  <2> QED BY <1>0, <2>1, <2>2, <2>3 DEF HeldInv
<1>7. CASE FeedEvent \/ ProfileEvent
  <2>1. /\ wire # <<>> /\ wire' = Tail(wire) /\ UNCHANGED server
        /\ \/ Store(Head(wire).posts, Delivered(Head(wire).posts))
           \/ UNCHANGED <<rows, tomb>>
    BY <1>0, <1>7, EventHandled DEF db
  <2>2. /\ UNCHANGED <<from, live>>
        /\ view' = IF Head(wire).query = "feed" THEN {Head(wire).posts} ELSE view
        /\ Head(wire).query = "feed" =>
             Store(Head(wire).posts, Delivered(Head(wire).posts))
    BY <1>7 DEF FeedEvent, ProfileEvent, SqlHandler
  <2>3. Held' = Held /\ FeedResult(server)' = FeedResult(server)
    BY <1>0, <2>1, <2>2, HeldTail DEF FeedResult
  <2>4. \A p \in PostIds : Copy[p] <= Copy'[p] /\ Copy[p] \in Nat /\ Copy'[p] \in Nat
    <3>1. CASE Store(Head(wire).posts, Delivered(Head(wire).posts))
      <4>1. \A p \in PostIds : Copy[p] <= Copy'[p]
        BY <1>0, <2>1, <3>1, StoreInv DEF SyncInv
      <4>2. \A p \in PostIds : Copy[p] \in Nat /\ Copy'[p] \in Nat
        BY <1>0, VersionType DEF Copy, TypeOK
      <4> QED BY <4>1, <4>2
    <3>2. CASE UNCHANGED <<rows, tomb>>
      <4>1. \A p \in PostIds : Copy'[p] = Copy[p] /\ Copy[p] \in Nat
        BY <1>0, <3>2, VersionType DEF Copy, TypeOK
      <4> QED BY <4>1
    <3> QED BY <2>1, <3>1, <3>2
  <2>5. \A v \in view', p \in PostIds : v[p] # Nothing => v[p].ver <= Copy'[p]
    <3> SUFFICES ASSUME NEW v \in view', NEW p \in PostIds, v[p] # Nothing
                 PROVE  v[p].ver <= Copy'[p]
      OBVIOUS
    <3>0. v[p].ver \in Nat
      BY <1>0, VersionType DEF TypeOK
    <3>1. CASE Head(wire).query = "feed"
      <4>1. v = Head(wire).posts /\ p \in Delivered(Head(wire).posts)
        BY <2>2, <3>1 DEF Delivered
      <4>2. Copy'[p] = v[p].ver
        BY <1>0, <2>1, <2>2, <3>1, <4>1, StoreInv DEF SyncInv
      <4> QED BY <3>0, <4>2
    <3>2. CASE Head(wire).query # "feed"
      <4>1. v[p].ver <= Copy[p]
        BY <1>0, <2>2, <3>2 DEF HeldInv
      <4> QED BY <2>4, <3>0, <4>1
    <3> QED BY <3>1, <3>2
  <2> QED BY <1>0, <2>2, <2>3, <2>5 DEF HeldInv
<1> QED BY <1>1, <1>2, <1>3, <1>4, <1>5, <1>6, <1>7 DEF Next

-----------------------------------------------------------------------------
(* What the watermark covers.                                              *)

(* The last stamped version of p was handled, or one after its deletion.   *)
Taken(p) == tomb[p] > 0 \/ (rows[p] # Nothing /\ rows[p].ts = server[p].ts)

(* No event up to the i-th moves the watermark to p's stamp.               *)
Ahead(i, p) ==
  /\ lud < server[p].ts
  /\ \A j \in 1 .. i, q \in PostIds : wire[j].posts[q].ts < server[p].ts

(* A feed event up to the i-th brings p's last stamp.                      *)
Brought(i, p) ==
  \E j \in 1 .. i : /\ wire[j].query = "feed" /\ wire[j].posts[p] # Nothing
                    /\ wire[j].posts[p].ts = server[p].ts

Covered(i, p) ==
  server[p].ts < from \/ Taken(p) \/ Ahead(i, p) \/ Brought(i, p)

FeedsOnTime == \A i \in 1 .. Len(wire) : wire[i].query = "feed" => ~wire[i].early

(* The subscription starts above what was taken; the watermark is at most  *)
(* at what was taken; so it stays as the events come in, except for the    *)
(* early ones.                                                             *)
CoverInv ==
  \A p \in PostIds \ tied : server[p] # Nothing =>
    /\ up /\ gap # "lost" /\ server[p].ts < from => Taken(p)
    /\ gap = "none" /\ server[p].ts <= lud => Taken(p)
    /\ \A i \in 1 .. Len(wire) : ~wire[i].early => Covered(i, p)

(* A feed event is never early.                                            *)
LEMMA OnTimeStep ==
  TypeOK /\ TypeOK' /\ FeedsOnTime /\ SyncInv /\ [Next]_vars => FeedsOnTime'
<1> SUFFICES ASSUME TypeOK, TypeOK', FeedsOnTime, SyncInv, [Next]_vars PROVE FeedsOnTime'
  OBVIOUS
<1>1. CASE Write
  <2>1. PICK p \in PostIds, v \in Version : Commit(p, v)
    BY <1>1, WriteIsCommit
  <2>2. /\ \/ wire' = wire
           \/ wire' = Append(wire, [query |-> "feed", early |-> FALSE,
                                    posts |-> FeedResult(server')])
        /\ FeedResult(server') \in Posts
    BY <2>1, CommitSends DEF SyncInv
  <2>3. CASE wire' = wire
    BY <2>3 DEF FeedsOnTime
  <2>4. CASE wire' = Append(wire, [query |-> "feed", early |-> FALSE,
                                   posts |-> FeedResult(server')])
    <3>1. "feed" \in Queries /\ FALSE \in BOOLEAN
      BY DEF Queries
    <3>2. /\ Len(wire) \in Nat /\ Len(wire') = Len(wire) + 1
          /\ \A i \in 1 .. Len(wire) : wire'[i] = wire[i]
          /\ wire'[Len(wire) + 1].early = FALSE
      BY <2>2, <2>4, <3>1, AppendWire
    <3>3. \A i \in 1 .. Len(wire') : i \in 1 .. Len(wire) \/ i = Len(wire) + 1
      BY <3>2
    <3> QED BY <3>2, <3>3 DEF FeedsOnTime
  <2> QED BY <2>2, <2>3, <2>4
<1>2. CASE Launch \/ Quit \/ OpenProfile \/ Connect \/ Drop \/ UNCHANGED vars
  <2>1. /\ Len(wire') <= Len(wire)
        /\ \A i \in 1 .. Len(wire') : wire'[i] = wire[i]
    BY <1>2, FrameActions
  <2>2. Len(wire') \in Nat /\ Len(wire) \in Nat
    BY LenProperties DEF TypeOK
  <2>3. \A i \in 1 .. Len(wire') : i \in 1 .. Len(wire)
    BY <2>1, <2>2
  <2> QED BY <2>1, <2>3 DEF FeedsOnTime
<1>3. CASE KilledInHandler
  <2>1. wire' = <<>> /\ Len(wire') = 0
    BY <1>3, EmptySeq DEF KilledInHandler, Stop
  <2> QED BY <2>1 DEF FeedsOnTime
<1>4. CASE AnswerFeed \/ AnswerProfile
  <2>1. CASE wire' = wire
    BY <2>1 DEF FeedsOnTime
  <2>2. CASE wire' # wire
    <3>1. PICK q \in Queries, e \in BOOLEAN, posts \in Posts :
            /\ wire' = Append(wire, [query |-> q, early |-> e, posts |-> posts])
            /\ q = "feed" => ~e
      BY <1>4, <2>2, AnswerSends
    <3>2. /\ Len(wire) \in Nat /\ Len(wire') = Len(wire) + 1
          /\ \A i \in 1 .. Len(wire) : wire'[i] = wire[i]
          /\ wire'[Len(wire) + 1].early = e /\ wire'[Len(wire) + 1].query = q
      BY <3>1, AppendWire
    <3>3. \A i \in 1 .. Len(wire') : i \in 1 .. Len(wire) \/ i = Len(wire) + 1
      BY <3>2
    <3> QED BY <3>1, <3>2, <3>3 DEF FeedsOnTime
  <2> QED BY <2>1, <2>2
<1>5. CASE FeedEvent \/ ProfileEvent
  <2>1. wire # <<>> /\ wire' = Tail(wire)
    BY <1>5 DEF FeedEvent, ProfileEvent
  <2>2. \A i \in 1 .. Len(wire') : wire'[i] = wire[i + 1] /\ i + 1 \in 1 .. Len(wire)
    BY <2>1, TailWire
  <2> QED BY <2>2 DEF FeedsOnTime
<1> QED BY <1>1, <1>2, <1>3, <1>4, <1>5 DEF Next

(* Every stamp the device or the wire knows is at most the clock's.        *)
LEMMA WireClock ==
  ASSUME SyncInv, NEW i \in 1 .. Len(wire), NEW p \in PostIds
  PROVE  wire[i].posts[p].ts \in Nat /\ wire[i].posts[p].ts <= clock
<1>1. TypeOK /\ clock \in Nat
  BY DEF SyncInv, Inv, TypeOK
<1>2. /\ wire[i].posts[p].ts \in Nat /\ wire[i].posts[p].ver \in Nat
      /\ server[p].ts \in Nat /\ server[p].ver \in Nat /\ server[p].ts <= clock
  BY <1>1, WireElement, VersionType DEF TypeOK, SyncInv, StampInv
<1>3. CASE wire[i].posts[p] = Nothing
  BY <1>1, <1>2, <1>3, NothingFields
<1>4. CASE wire[i].posts[p] # Nothing
  <2>1. Past(wire[i].posts[p], server[p]) /\ Later(wire[i].posts[p], server[p])
    BY <1>4 DEF SyncInv, Inv, WireInv, Fresh, WireStampInv, Stamps
  <2>2. wire[i].posts[p].ts <= server[p].ts
    BY <1>2, <1>4, <2>1 DEF Past, Later
  <2> QED BY <1>1, <1>2, <2>2
<1> QED BY <1>3, <1>4

(* Where neither the tables nor the database's stamps change, what was     *)
(* covered stays so along the messages that stay.                          *)
LEMMA CoveredFrame ==
  ASSUME NEW p \in PostIds, server'[p].ts = server[p].ts,
         rows' = rows, tomb' = tomb, lud' = lud, from' = from,
         NEW i \in Nat, \A j \in 1 .. i : wire'[j] = wire[j], Covered(i, p)
  PROVE  Covered(i, p)'
<1>1. Taken(p) => Taken(p)'
  BY DEF Taken
<1>2. Ahead(i, p) => Ahead(i, p)'
  BY DEF Ahead
<1>3. Brought(i, p) => Brought(i, p)'
  BY DEF Brought
<1> QED BY <1>1, <1>2, <1>3 DEF Covered

(* A stamp beyond the clock is ahead of everything.                        *)
LEMMA StampAhead ==
  ASSUME SyncInv, TypeOK', NEW p \in PostIds, clock < server'[p].ts, lud' = lud,
         NEW i \in 1 .. Len(wire), \A j \in 1 .. i : wire'[j] = wire[j]
  PROVE  Covered(i, p)'
<1>1. clock \in Nat /\ lud \in Nat /\ lud <= clock /\ server'[p].ts \in Nat
  BY VersionType DEF SyncInv, Inv, TypeOK, StampInv
<1>2. \A j \in 1 .. i : j \in 1 .. Len(wire)
  <2>1. Len(wire) \in Nat
    BY LenProperties DEF SyncInv, Inv, TypeOK
  <2> QED BY <2>1
<1>3. \A j \in 1 .. i, q \in PostIds : wire'[j].posts[q].ts < server'[p].ts
  <2> TAKE j \in 1 .. i, q \in PostIds
  <2>1. wire[j].posts[q].ts \in Nat /\ wire[j].posts[q].ts <= clock
    BY <1>2, WireClock
  <2>2. wire[j].posts[q].ts < server'[p].ts
    BY <1>1, <2>1
  <2> QED BY <2>2
<1>4. lud' < server'[p].ts
  BY <1>1
<1>5. Ahead(i, p)'
  BY <1>3, <1>4 DEF Ahead
<1> QED BY <1>5 DEF Covered

(* The feed's result, sent now, covers every post there is.                *)
LEMMA FeedCovers ==
  ASSUME TypeOK, TypeOK', from' = from, NEW e \in BOOLEAN,
         wire' = Append(wire, [query |-> "feed", early |-> e,
                               posts |-> FeedResult(server')]),
         FeedResult(server') \in Posts,
         NEW p \in PostIds, server'[p] # Nothing,
         NEW n \in Nat, n = Len(wire) + 1
  PROVE  Covered(n, p)'
<1>1. "feed" \in Queries
  BY DEF Queries
<1>2. /\ Len(wire) \in Nat
      /\ wire'[n].posts = FeedResult(server')
      /\ wire'[n].query = "feed"
  BY <1>1, AppendWire
<1>3. server'[p].ts \in Nat /\ from' \in Nat
  BY VersionType DEF TypeOK
<1>4. CASE server'[p].ts < from'
  BY <1>4 DEF Covered
<1>5. CASE ~(server'[p].ts < from')
  <2>1. FeedResult(server')[p] = server'[p]
    BY <1>3, <1>5 DEF FeedResult
  <2>2. n \in 1 .. n
    BY <1>2
  <2>3. /\ wire'[n].posts[p] # Nothing
        /\ wire'[n].posts[p].ts = server'[p].ts
    BY <1>2, <2>1
  <2>4. Brought(n, p)'
    BY <1>2, <2>2, <2>3 DEF Brought
  <2> QED BY <2>4 DEF Covered
<1> QED BY <1>4, <1>5

LEMMA CommitCovers ==
  ASSUME SyncInv, Inv', CoverInv, NEW p \in PostIds, NEW v \in Version,
         Commit(p, v), Restamps(p, v)
  PROVE  CoverInv'
<1>0. TypeOK /\ TypeOK' /\ Inv
  BY DEF SyncInv, Inv
<1>1. /\ server'[p] = v /\ \A q \in PostIds : q # p => server'[q] = server[q]
      /\ rows' = rows /\ lud' = lud /\ tomb' = tomb
      /\ up' = up /\ from' = from /\ gap' = gap
      /\ \/ wire' = wire
         \/ wire' = Append(wire, [query |-> "feed", early |-> FALSE,
                                  posts |-> FeedResult(server')])
      /\ FeedResult(server') \in Posts
  BY <1>0, CommitSends DEF disk, app
<1>2. /\ Len(wire) \in Nat
      /\ \A i \in 1 .. Len(wire) : wire'[i] = wire[i]
      /\ \A i \in 1 .. Len(wire') : \/ i \in 1 .. Len(wire)
                                    \/ i = Len(wire) + 1 /\ wire' # wire
  <2>1. CASE wire' = wire
    BY <1>0, <2>1, LenProperties DEF TypeOK
  <2>2. CASE wire' # wire
    <3>1. "feed" \in Queries /\ FALSE \in BOOLEAN
      BY DEF Queries
    <3>2. /\ Len(wire) \in Nat /\ Len(wire') = Len(wire) + 1
          /\ \A i \in 1 .. Len(wire) : wire'[i] = wire[i]
      BY <1>0, <1>1, <2>2, <3>1, AppendWire
    <3>3. \A i \in 1 .. Len(wire') : i \in 1 .. Len(wire) \/ i = Len(wire) + 1
      BY <3>2
    <3> QED BY <2>2, <3>2, <3>3
  <2> QED BY <2>1, <2>2
<1>3. \A i \in 1 .. Len(wire) : i \in Nat /\ \A j \in 1 .. i : j \in 1 .. Len(wire)
  BY <1>2
<1> SUFFICES ASSUME NEW q \in PostIds, q \notin tied', server'[q] # Nothing
             PROVE  /\ up' /\ gap' # "lost" /\ server'[q].ts < from' => Taken(q)'
                    /\ gap' = "none" /\ server'[q].ts <= lud' => Taken(q)'
                    /\ \A i \in 1 .. Len(wire') : ~wire'[i].early => Covered(i, q)'
  BY DEF CoverInv
<1>4. ASSUME NEW i \in 1 .. Len(wire'), i \notin 1 .. Len(wire)
      PROVE  Covered(i, q)'
  <2>1. i \in Nat /\ i = Len(wire) + 1 /\ wire' # wire /\ FALSE \in BOOLEAN
    BY <1>2, <1>4
  <2> QED BY <1>0, <1>1, <2>1, FeedCovers
<1>5. CASE server'[q].ts = server[q].ts /\ server[q] # Nothing /\ q \notin tied
  <2>1. /\ up /\ gap # "lost" /\ server[q].ts < from => Taken(q)
        /\ gap = "none" /\ server[q].ts <= lud => Taken(q)
        /\ \A i \in 1 .. Len(wire) : ~wire[i].early => Covered(i, q)
    BY <1>5 DEF CoverInv
  <2>2. Taken(q) => Taken(q)'
    BY <1>1, <1>5 DEF Taken
  <2>3. ASSUME NEW i \in 1 .. Len(wire), ~wire'[i].early PROVE Covered(i, q)'
    <3>1. Covered(i, q)
      BY <1>2, <2>1, <2>3
    <3> QED BY <1>1, <1>2, <1>3, <1>5, <3>1, CoveredFrame
  <2>4. \A i \in 1 .. Len(wire') : ~wire'[i].early => Covered(i, q)'
    BY <1>4, <2>3
  <2> QED BY <1>1, <1>5, <2>1, <2>2, <2>4
<1>6. CASE clock < server'[q].ts
  <2>1. /\ clock \in Nat /\ from \in Nat /\ lud \in Nat /\ server'[q].ts \in Nat
        /\ lud <= clock /\ (up => from - 1 <= clock)
    BY <1>0, VersionType DEF SyncInv, TypeOK, StampInv, LinkInv
  <2>2. ~(server'[q].ts <= lud) /\ (up => ~(server'[q].ts < from))
    BY <1>6, <2>1
  <2>3. \A i \in 1 .. Len(wire) : Covered(i, q)'
    BY <1>0, <1>1, <1>2, <1>3, <1>6, StampAhead
  <2> QED BY <1>1, <1>4, <2>2, <2>3
<1>7. CASE q # p
  BY <1>1, <1>5, <1>7 DEF Restamps
<1>8. CASE q = p
  BY <1>1, <1>5, <1>6, <1>8 DEF Restamps
<1> QED BY <1>7, <1>8

(* While the server pushes, every post of the database is out of the       *)
(* subscription's range, stored, or under way.                             *)
LEMMA LiveCovers ==
  ASSUME SyncInv, live, NEW p \in PostIds, server[p] # Nothing
  PROVE  server[p].ts < from \/ Taken(p) \/ Brought(Len(wire), p)
<1>1. /\ TypeOK /\ Held = {FeedResult(server)}
      /\ \A v \in view, q \in PostIds : v[q] # Nothing => v[q].ver <= Copy[q]
  BY DEF SyncInv, Inv, HeldInv
<1>2. /\ server[p].ts \in Nat /\ from \in Nat /\ server[p].ver \in Nat
      /\ rows[p].ver \in Nat /\ tomb[p] \in Nat
  BY <1>1, VersionType DEF TypeOK
<1>3. CASE ~(server[p].ts < from)
  <2>1. FeedResult(server)[p] = server[p]
    BY <1>2, <1>3 DEF FeedResult
  <2>2. CASE FeedResult(server) \in view
    <3>1. server[p].ver <= Copy[p] /\ Copy[p] <= server[p].ver /\ Copy[p] \in Nat
      BY <1>1, <2>1, <2>2, CopyBound DEF SyncInv, Inv
    <3>2. Copy[p] = server[p].ver
      BY <1>2, <3>1
    <3>3. server[p].ver > 0
      BY <1>2 DEF SyncInv, Inv, ServerInv, Past
    <3>4. Copy[p] = IF rows[p] = Nothing THEN tomb[p] ELSE rows[p].ver
      BY DEF Copy
    <3>5. rows[p] # Nothing => rows[p] = server[p]
      BY <3>2, <3>4 DEF SyncInv, StampInv, Later
    <3> QED BY <3>2, <3>3, <3>4, <3>5 DEF Taken
  <2>3. CASE FeedResult(server) \notin view
    <3>1. \E i \in 1 .. Len(wire) : wire[i].query = "feed" /\ wire[i].posts = FeedResult(server)
      <4> DEFINE feeds == {i \in 1 .. Len(wire) : wire[i].query = "feed"}
                 last == {i \in feeds : \A j \in feeds : j <= i}
      <4>1. feeds # {}
        BY <1>1, <2>3 DEF Held
      <4>2. Held = {wire[i].posts : i \in last}
        BY <4>1 DEF Held
      <4>3. FeedResult(server) \in {wire[i].posts : i \in last}
        BY <1>1, <4>2
      <4> HIDE DEF last
      <4>4. PICK i \in last : FeedResult(server) = wire[i].posts
        BY <4>3
      <4> QED BY <4>4 DEF last
    <3> QED BY <2>1, <3>1 DEF Brought
  <2> QED BY <2>2, <2>3
<1> QED BY <1>3

LEMMA AnswerCovers ==
  ASSUME SyncInv, Inv', CoverInv, AnswerFeed \/ AnswerProfile
  PROVE  CoverInv'
<1>0. TypeOK /\ TypeOK'
  BY DEF SyncInv, Inv
<1>1. /\ server' = server /\ rows' = rows /\ lud' = lud /\ tomb' = tomb
      /\ up' = up /\ from' = from /\ gap' = gap /\ tied' = tied
  BY <1>0, AnswerSends DEF db, disk, app
<1>2. CASE wire' = wire
  <2>1. \A p \in PostIds : Taken(p)' = Taken(p)
    BY <1>1 DEF Taken
  <2>2. \A p \in PostIds, i \in 1 .. Len(wire) : Covered(i, p) => Covered(i, p)'
    BY <1>0, <1>1, <1>2, CoveredFrame, LenProperties DEF TypeOK
  <2> QED BY <1>1, <1>2, <2>1, <2>2 DEF CoverInv
<1>3. CASE wire' # wire
  <2>1. PICK q \in Queries, e \in BOOLEAN, posts \in Posts :
          /\ wire' = Append(wire, [query |-> q, early |-> e, posts |-> posts])
          /\ \/ AnswerFeed /\ q = "feed" /\ posts = FeedResult(server) /\ ~e
             \/ AnswerProfile /\ q = "profile" /\ posts = Own(server)
                /\ (e <=> ~live)
    BY <1>0, <1>3, AnswerSends
  <2>2. /\ Len(wire) \in Nat /\ Len(wire') = Len(wire) + 1
        /\ \A i \in 1 .. Len(wire) : wire'[i] = wire[i]
        /\ wire'[Len(wire) + 1].early = e
    BY <1>0, <2>1, AppendWire
  <2>3. \A i \in 1 .. Len(wire) : i \in Nat /\ \A j \in 1 .. i : j \in 1 .. Len(wire)
    BY <2>2
  <2>4. ASSUME NEW p \in PostIds, server[p] # Nothing,
               NEW n \in Nat, n = Len(wire) + 1, ~e
        PROVE  Covered(n, p)'
    <3>1. CASE AnswerFeed /\ q = "feed" /\ posts = FeedResult(server) /\ ~e
      <4>1. FeedResult(server)' = FeedResult(server)
        BY <1>1 DEF FeedResult
      <4>2. FeedResult(server') = FeedResult(server)
        BY <1>1
      <4>3. wire' = Append(wire, [query |-> "feed", early |-> e,
                                  posts |-> FeedResult(server')])
        BY <2>1, <3>1, <4>2
      <4>4. FeedResult(server') \in Posts
        BY <3>1, <4>2
      <4> QED BY <1>0, <1>1, <2>4, <4>3, <4>4, FeedCovers
    <3>2. CASE AnswerProfile /\ (e <=> ~live)
      <4>1. live
        BY <2>4, <3>2
      <4>2. server[p].ts < from \/ Taken(p) \/ Brought(Len(wire), p)
        BY <2>4, <4>1, LiveCovers
      <4>3. Taken(p) => Taken(p)'
        BY <1>1 DEF Taken
      <4>4. Brought(Len(wire), p) => Brought(n, p)'
        <5>1. \A j \in 1 .. Len(wire) : j \in 1 .. n
          BY <2>2, <2>4
        <5> QED BY <1>1, <2>2, <5>1 DEF Brought
      <4> QED BY <1>1, <4>2, <4>3, <4>4 DEF Covered
    <3> QED BY <2>1, <3>1, <3>2
  <2> SUFFICES ASSUME NEW p \in PostIds, p \notin tied', server'[p] # Nothing
               PROVE  /\ up' /\ gap' # "lost" /\ server'[p].ts < from' => Taken(p)'
                      /\ gap' = "none" /\ server'[p].ts <= lud' => Taken(p)'
                      /\ \A i \in 1 .. Len(wire') : ~wire'[i].early => Covered(i, p)'
    BY DEF CoverInv
  <2>5. /\ up /\ gap # "lost" /\ server[p].ts < from => Taken(p)
        /\ gap = "none" /\ server[p].ts <= lud => Taken(p)
        /\ \A i \in 1 .. Len(wire) : ~wire[i].early => Covered(i, p)
    BY <1>1 DEF CoverInv
  <2>6. Taken(p)' = Taken(p)
    BY <1>1 DEF Taken
  <2>7. ASSUME NEW i \in 1 .. Len(wire'), ~wire'[i].early PROVE Covered(i, p)'
    <3>1. CASE i \in 1 .. Len(wire)
      <4>1. Covered(i, p)
        BY <2>2, <2>5, <2>7, <3>1
      <4> QED BY <1>1, <2>2, <2>3, <3>1, <4>1, CoveredFrame
    <3>2. CASE i = Len(wire) + 1
      <4>1. i \in Nat /\ ~e
        BY <2>2, <2>7, <3>2
      <4> QED BY <1>1, <2>4, <3>2, <4>1
    <3> QED BY <2>2, <3>1, <3>2
  <2> QED BY <1>1, <2>5, <2>6, <2>7
<1> QED BY <1>2, <1>3

(* What was taken in stays so when posts of the first event are stored.    *)
LEMMA TakenKept ==
  ASSUME SyncInv, TypeOK', wire # <<>>, UNCHANGED server,
         NEW done \in SUBSET Delivered(Head(wire).posts),
         Store(Head(wire).posts, done), NEW p \in PostIds
  PROVE  /\ Taken(p) => Taken(p)'
         /\ p \in done /\ wire[1].posts[p].ts = server[p].ts => Taken(p)'
<1>0. TypeOK /\ 1 \in 1 .. Len(wire)
  BY EmptySeq DEF SyncInv, Inv, TypeOK
<1>1. /\ p \in done => wire[1].posts[p] # Nothing
      /\ p \in done /\ wire[1].posts[p].diedAt > 0 =>
           tomb'[p] = wire[1].posts[p].ver /\ rows'[p] = Nothing
      /\ p \in done /\ ~(wire[1].posts[p].diedAt > 0) =>
           rows'[p] = wire[1].posts[p] /\ tomb'[p] = tomb[p]
      /\ p \notin done => rows'[p] = rows[p] /\ tomb'[p] = tomb[p]
  BY <1>0, StoredRow
<1>2. /\ wire[1].posts[p].ver \in Nat /\ wire[1].posts[p].ts \in Nat
      /\ server[p].ts \in Nat /\ server[p].ver \in Nat
      /\ rows[p].ts \in Nat /\ tomb[p] \in Nat
  BY <1>0, WireElement, VersionType DEF TypeOK
<1>3. ASSUME p \in done
      PROVE  /\ wire[1].posts[p].ver > 0 /\ wire[1].posts[p].ts <= server[p].ts
             /\ rows[p] # Nothing => rows[p].ts <= wire[1].posts[p].ts
  <2>1. /\ Past(wire[1].posts[p], server[p]) /\ Later(wire[1].posts[p], server[p])
        /\ rows[p] # Nothing => rows[p].ts <= wire[1].posts[p].ts
    BY <1>0, <1>1, <1>3 DEF SyncInv, Inv, WireInv, Fresh, WireStampInv, Stamps
  <2> QED BY <1>1, <1>2, <1>3, <2>1 DEF Past, Later
<1>4. p \in done /\ wire[1].posts[p].ts = server[p].ts => Taken(p)'
  BY <1>1, <1>3 DEF Taken
<1>5. ASSUME p \in done, Taken(p) PROVE Taken(p)'
  <2>1. CASE tomb[p] > 0
    BY <1>1, <1>3, <1>5, <2>1 DEF Taken
  <2>2. CASE rows[p] # Nothing /\ rows[p].ts = server[p].ts
    BY <1>2, <1>3, <1>4, <1>5, <2>2
  <2> QED BY <1>5, <2>1, <2>2 DEF Taken
<1>6. ASSUME p \notin done, Taken(p) PROVE Taken(p)'
  BY <1>1, <1>6 DEF Taken
<1> QED BY <1>4, <1>5, <1>6

(* The first event is handled by sqlHandler: it is on time, or the         *)
(* watermark now claims too much until the feed's next event (gap).        *)
LEMMA HandledCovers ==
  ASSUME SyncInv, Inv', CoverInv, FeedsOnTime, wire # <<>>, wire' = Tail(wire),
         UNCHANGED <<server, tied, up, from>>,
         NEW seen \in Nat, SqlHandler(Head(wire).posts, seen),
         Head(wire).early => gap' # "none",
         gap = "lost" => gap' = "lost"
  PROVE  CoverInv'
<1>0. TypeOK /\ TypeOK' /\ 1 \in 1 .. Len(wire) /\ Head(wire) = wire[1]
  BY EmptySeq DEF SyncInv, Inv, TypeOK
<1>1. \A i \in 1 .. Len(wire') : wire'[i] = wire[i + 1] /\ i + 1 \in 1 .. Len(wire)
  BY <1>0, TailWire
<1>2. lud' = lud \/ \E q \in PostIds : lud' = wire[1].posts[q].ts
  BY <1>0, HandlerLud
<1>3. Store(Head(wire).posts, Delivered(Head(wire).posts))
  BY DEF SqlHandler
<1> SUFFICES ASSUME NEW p \in PostIds, p \notin tied, server[p] # Nothing
             PROVE  /\ up' /\ gap' # "lost" /\ server'[p].ts < from' => Taken(p)'
                    /\ gap' = "none" /\ server'[p].ts <= lud' => Taken(p)'
                    /\ \A i \in 1 .. Len(wire') : ~wire'[i].early => Covered(i, p)'
  BY DEF CoverInv
<1>4. /\ up /\ gap # "lost" /\ server[p].ts < from => Taken(p)
      /\ gap = "none" /\ server[p].ts <= lud => Taken(p)
      /\ \A i \in 1 .. Len(wire) : ~wire[i].early => Covered(i, p)
  BY DEF CoverInv
<1>5. Taken(p) => Taken(p)'
  BY <1>0, <1>3, TakenKept
<1>6. wire[1].posts[p] # Nothing /\ wire[1].posts[p].ts = server[p].ts => Taken(p)'
  BY <1>0, <1>3, TakenKept DEF Delivered
<1>7. server[p].ts \in Nat /\ lud' \in Nat /\ up
  BY <1>0, VersionType DEF TypeOK, SyncInv, LinkInv
<1>8. ASSUME NEW n \in Nat, 1 <= n, Ahead(n, p) PROVE lud' < server[p].ts
  <2>1. 1 \in 1 .. n
    BY <1>8
  <2> QED BY <1>2, <1>8, <2>1 DEF Ahead
<1>9. up' /\ gap' # "lost" /\ server'[p].ts < from' => Taken(p)'
  BY <1>4, <1>5
<1>10. gap' = "none" /\ server'[p].ts <= lud' => Taken(p)'
  <2> SUFFICES ASSUME gap' = "none", server[p].ts <= lud' PROVE Taken(p)'
    OBVIOUS
  <2>1. Covered(1, p) /\ gap # "lost"
    BY <1>0, <1>4
  <2>2. CASE server[p].ts < from
    BY <1>4, <1>5, <1>7, <2>1, <2>2
  <2>3. CASE Ahead(1, p)
    <3>1. lud' < server[p].ts
      BY <1>8, <2>3
    <3> QED BY <1>7, <3>1
  <2>4. CASE Brought(1, p)
    <3>1. wire[1].posts[p] # Nothing /\ wire[1].posts[p].ts = server[p].ts
      BY <2>4 DEF Brought
    <3> QED BY <1>6, <3>1
  <2> QED BY <1>5, <2>1, <2>2, <2>3, <2>4 DEF Covered
<1>11. ASSUME NEW i \in 1 .. Len(wire'), ~wire'[i].early PROVE Covered(i, p)'
  <2>1. Covered(i + 1, p) /\ i + 1 \in Nat /\ 1 <= i + 1
    BY <1>1, <1>4, <1>11
  <2>a. \A j \in 1 .. i : j \in 1 .. Len(wire') /\ j + 1 \in 1 .. i + 1
    <3>1. Len(wire') \in Nat
      BY <1>0, LenProperties DEF TypeOK
    <3> QED BY <3>1
  <2>2. CASE server[p].ts < from
    BY <2>2 DEF Covered
  <2>3. CASE Ahead(i + 1, p)
    <3>1. lud' < server[p].ts
      BY <1>8, <2>1, <2>3
    <3>2. \A j \in 1 .. i, q \in PostIds : wire'[j].posts[q].ts < server[p].ts
      BY <1>1, <2>a, <2>3 DEF Ahead
    <3>3. Ahead(i, p)'
      BY <3>1, <3>2 DEF Ahead
    <3> QED BY <3>3 DEF Covered
  <2>4. CASE Brought(i + 1, p)
    <3>1. PICK j \in 1 .. i + 1 :
            /\ wire[j].query = "feed" /\ wire[j].posts[p] # Nothing
            /\ wire[j].posts[p].ts = server[p].ts
      BY <2>4 DEF Brought
    <3>2. CASE j = 1
      BY <1>6, <3>1, <3>2 DEF Covered
    <3>3. CASE j # 1
      <4>1. j - 1 \in 1 .. i /\ (j - 1) + 1 = j
        BY <3>3
      <4>2. wire'[j - 1] = wire[j]
        BY <1>1, <2>a, <4>1
      <4>3. Brought(i, p)'
        BY <3>1, <4>1, <4>2 DEF Brought
      <4> QED BY <4>3 DEF Covered
    <3> QED BY <3>2, <3>3
  <2> QED BY <1>5, <2>1, <2>2, <2>3, <2>4 DEF Covered
<1> QED BY <1>9, <1>10, <1>11

(* A profile event nobody listens for any more.                            *)
LEMMA IgnoredCovers ==
  ASSUME SyncInv, Inv', CoverInv, wire # <<>>, wire' = Tail(wire),
         Head(wire).query # "feed",
         UNCHANGED <<server, tied, up, from, disk, gap>>
  PROVE  CoverInv'
<1>0. TypeOK /\ TypeOK' /\ Head(wire) = wire[1]
  BY DEF SyncInv, Inv, TypeOK
<1>1. \A i \in 1 .. Len(wire') : wire'[i] = wire[i + 1] /\ i + 1 \in 1 .. Len(wire)
  BY <1>0, TailWire
<1>2. rows' = rows /\ tomb' = tomb /\ lud' = lud
  BY DEF disk
<1>3. \A p \in PostIds : Taken(p)' = Taken(p)
  BY <1>2 DEF Taken
<1>4. ASSUME NEW p \in PostIds, NEW i \in 1 .. Len(wire'), Covered(i + 1, p)
      PROVE  Covered(i, p)'
  <2>a. \A j \in 1 .. i : j \in 1 .. Len(wire') /\ j + 1 \in 1 .. i + 1
    <3>1. Len(wire') \in Nat
      BY <1>0, LenProperties DEF TypeOK
    <3> QED BY <3>1
  <2>1. CASE Ahead(i + 1, p)
    <3>1. Ahead(i, p)'
      BY <1>1, <1>2, <2>a, <2>1 DEF Ahead
    <3> QED BY <3>1 DEF Covered
  <2>2. CASE Brought(i + 1, p)
    <3>1. PICK j \in 1 .. i + 1 :
            /\ wire[j].query = "feed" /\ wire[j].posts[p] # Nothing
            /\ wire[j].posts[p].ts = server[p].ts
      BY <2>2 DEF Brought
    <3>2. j - 1 \in 1 .. i /\ (j - 1) + 1 = j
      BY <1>0, <3>1
    <3>3. wire'[j - 1] = wire[j]
      BY <1>1, <2>a, <3>2
    <3>4. Brought(i, p)'
      BY <3>1, <3>2, <3>3 DEF Brought
    <3> QED BY <3>4 DEF Covered
  <2> QED BY <1>3, <1>4, <2>1, <2>2 DEF Covered
<1> SUFFICES ASSUME NEW p \in PostIds, p \notin tied, server[p] # Nothing
             PROVE  /\ up' /\ gap' # "lost" /\ server'[p].ts < from' => Taken(p)'
                    /\ gap' = "none" /\ server'[p].ts <= lud' => Taken(p)'
                    /\ \A i \in 1 .. Len(wire') : ~wire'[i].early => Covered(i, p)'
  BY DEF CoverInv
<1>5. /\ up /\ gap # "lost" /\ server[p].ts < from => Taken(p)
      /\ gap = "none" /\ server[p].ts <= lud => Taken(p)
      /\ \A i \in 1 .. Len(wire) : ~wire[i].early => Covered(i, p)
  BY DEF CoverInv
<1>6. \A i \in 1 .. Len(wire') : ~wire'[i].early => Covered(i, p)'
  BY <1>1, <1>4, <1>5
<1> QED BY <1>2, <1>3, <1>5, <1>6

LEMMA CoverStep ==
  SyncInv /\ Inv' /\ FeedsOnTime /\ CoverInv /\ [Next]_vars => CoverInv'
<1> SUFFICES ASSUME SyncInv, Inv', FeedsOnTime, CoverInv, [Next]_vars
             PROVE  CoverInv'
  OBVIOUS
<1>0. TypeOK /\ TypeOK'
  BY DEF SyncInv, Inv
<1>1. CASE Write
  BY <1>0, <1>1, WriteIsCommit, CommitCovers
<1>2. CASE Launch
  <2>1. PICK seen \in {lud, 0} : from' = seen + 1
    BY <1>2 DEF Launch, GetLastUpdate
  <2>2. /\ UNCHANGED <<server, tied, rows, tomb, lud, gap>>
        /\ wire' = <<>> /\ gap # "open"
    BY <1>2 DEF Launch, db, disk, net, SyncInv, LinkInv
  <2>3. \A p \in PostIds : Taken(p)' = Taken(p)
    BY <2>2 DEF Taken
  <2>4. \A p \in PostIds : server[p].ts < from' => server[p].ts <= lud
    BY <1>0, <2>1, VersionType DEF TypeOK
  <2>5. gap \in {"none", "open", "lost"} /\ Len(wire') = 0
    BY <1>0, <2>2, EmptySeq DEF TypeOK
  <2> QED BY <2>2, <2>3, <2>4, <2>5 DEF CoverInv
<1>3. CASE Quit \/ KilledInHandler
  <2>1. /\ UNCHANGED <<server, tied, lud>> /\ ~up' /\ wire' = <<>>
        /\ gap' = "none" => gap = "none"
    BY <1>3 DEF Quit, KilledInHandler, Stop, db
  <2>2. \A p \in PostIds : Taken(p) => Taken(p)'
    <3>1. CASE Quit
      <4>1. UNCHANGED <<server, rows, tomb>>
        BY <2>1, <3>1 DEF Quit
      <4> QED BY <4>1 DEF Taken
    <3>2. CASE KilledInHandler
      <4>1. PICK done \in SUBSET Delivered(Head(wire).posts) :
              Store(Head(wire).posts, done)
        BY <3>2 DEF KilledInHandler
      <4>2. wire # <<>>
        BY <3>2 DEF KilledInHandler
      <4> QED BY <1>0, <2>1, <4>1, <4>2, TakenKept
    <3> QED BY <1>3, <3>1, <3>2
  <2>3. Len(wire') = 0
    BY <2>1, EmptySeq
  <2> QED BY <2>1, <2>2, <2>3 DEF CoverInv
<1>4. CASE OpenProfile \/ Connect \/ Drop \/ UNCHANGED vars
  <2>1. /\ UNCHANGED <<server, tied, rows, tomb, lud>>
        /\ Len(wire') <= Len(wire)
        /\ \A i \in 1 .. Len(wire') : wire'[i] = wire[i]
    BY <1>4, FrameActions
  <2>2. UNCHANGED <<up, from, gap>>
    BY <1>4 DEF OpenProfile, Connect, Drop, vars, app
  <2>3. \A p \in PostIds : Taken(p)' = Taken(p)
    BY <2>1 DEF Taken
  <2>4. Len(wire) \in Nat /\ Len(wire') \in Nat
    BY <1>0, LenProperties DEF TypeOK
  <2>5. \A i \in 1 .. Len(wire') :
          /\ i \in Nat /\ i \in 1 .. Len(wire)
          /\ \A j \in 1 .. i : j \in 1 .. Len(wire')
    BY <2>1, <2>4
  <2>6. \A p \in PostIds, i \in 1 .. Len(wire') : Covered(i, p) => Covered(i, p)'
    BY <2>1, <2>2, <2>5, CoveredFrame
  <2> QED BY <2>1, <2>2, <2>3, <2>5, <2>6 DEF CoverInv
<1>5. CASE AnswerFeed \/ AnswerProfile
  BY <1>5, AnswerCovers
<1>6. CASE FeedEvent
  <2>1. /\ wire # <<>> /\ wire' = Tail(wire) /\ Head(wire).query = "feed"
        /\ gap' = IF gap = "open" THEN "none" ELSE gap
        /\ UNCHANGED <<server, tied, up, from>>
    BY <1>6 DEF FeedEvent, db
  <2>2. PICK seen \in GetLastUpdate : SqlHandler(Head(wire).posts, seen)
    BY <1>6 DEF FeedEvent
  <2>3. seen \in Nat
    BY <1>0 DEF GetLastUpdate, TypeOK
  <2>4. ~Head(wire).early
    <3>1. 1 \in 1 .. Len(wire) /\ Head(wire) = wire[1]
      BY <1>0, <2>1, EmptySeq DEF TypeOK
    <3> QED BY <2>1, <3>1 DEF FeedsOnTime
  <2>5. gap = "lost" => gap' = "lost"
    BY <2>1
  <2> QED BY <2>1, <2>2, <2>3, <2>4, <2>5, HandledCovers
<1>7. CASE ProfileEvent
  <2>1. /\ wire # <<>> /\ wire' = Tail(wire) /\ Head(wire).query = "profile"
        /\ UNCHANGED <<server, tied, up, from>>
    BY <1>7 DEF ProfileEvent, db
  <2>2. CASE "profile" \in listens
    <3>1. PICK seen \in GetLastUpdate : SqlHandler(Head(wire).posts, seen)
      BY <1>7, <2>2 DEF ProfileEvent
    <3>2. seen \in Nat
      BY <1>0 DEF GetLastUpdate, TypeOK
    <3>3. gap' = IF Head(wire).early /\ gap = "none" THEN "open" ELSE gap
      BY <1>7, <2>2 DEF ProfileEvent
    <3>4. /\ Head(wire).early => gap' # "none"
          /\ gap = "lost" => gap' = "lost"
      BY <3>3
    <3> QED BY <2>1, <3>1, <3>2, <3>4, HandledCovers
  <2>3. CASE "profile" \notin listens
    <3>1. UNCHANGED <<disk, gap>>
      BY <1>7, <2>3 DEF ProfileEvent
    <3> QED BY <2>1, <3>1, IgnoredCovers
  <2> QED BY <2>2, <2>3
<1> QED BY <1>1, <1>2, <1>3, <1>4, <1>5, <1>6, <1>7 DEF Next

-----------------------------------------------------------------------------
Watermark == SyncInv /\ FeedsOnTime /\ CoverInv

LEMMA WatermarkInit == Init => Watermark
<1> SUFFICES ASSUME Init PROVE Watermark
  OBVIOUS
<1>1. Inv
  BY InvInit
<1>2. /\ wire = <<>> /\ Len(wire) = 0 /\ server = None /\ rows = None /\ lud = 0
      /\ clock = 0 /\ view = {} /\ ~live /\ ~link /\ ~up /\ asks = <<>>
      /\ gap = "none"
  BY EmptySeq DEF Init
<1>3. \A p \in PostIds : server[p] = Nothing /\ rows[p] = Nothing
  BY <1>2 DEF None
<1>4. LinkInv /\ HeldInv
  BY <1>2 DEF LinkInv, HeldInv
<1>5. StampInv /\ WireStampInv
  BY <1>2, <1>3, NothingFields DEF StampInv, WireStampInv
<1>6. FeedsOnTime /\ CoverInv
  BY <1>2, <1>3 DEF FeedsOnTime, CoverInv
<1> QED BY <1>1, <1>4, <1>5, <1>6 DEF Watermark, SyncInv

LEMMA WatermarkStep == Watermark /\ [Next]_vars => Watermark'
<1> SUFFICES ASSUME Watermark, [Next]_vars PROVE Watermark'
  OBVIOUS
<1>1. Inv' /\ SyncInv /\ FeedsOnTime /\ CoverInv
  BY InvStep DEF Watermark, SyncInv
<1>2. TypeOK /\ TypeOK' /\ Inv /\ LinkInv /\ StampInv
  BY <1>1 DEF SyncInv, Inv
<1>3. LinkInv' /\ StampInv' /\ WireStampInv' /\ HeldInv'
  BY <1>1, <1>2, LinkStep, StampStep, HeldStep
<1>4. FeedsOnTime' /\ CoverInv'
  BY <1>1, <1>2, OnTimeStep, CoverStep
<1> QED BY <1>1, <1>3, <1>4 DEF Watermark, SyncInv

LEMMA TakenIsStamped ==
  ASSUME TypeOK, DiskInv, NEW p \in PostIds, Taken(p) PROVE Stamped(p)
<1>1. tomb[p] \in Nat
  BY DEF TypeOK
<1> QED BY <1>1 DEF DiskInv, Taken, Stamped

(* Every post stamped up to the watermark was taken in at its stamp.       *)
THEOREM WatermarkIsHonest == Spec => []NothingBelowWatermarkMissed
<1>1. Watermark => NothingBelowWatermarkMissed
  BY TakenIsStamped
     DEF Watermark, SyncInv, Inv, CoverInv, NothingBelowWatermarkMissed
<1> QED BY <1>1, WatermarkInit, WatermarkStep, PTL DEF Spec

LEMMA FreshWhenCaughtUp == SyncInv => CaughtUpStoreIsFresh
<1> SUFFICES ASSUME SyncInv, live, wire = <<>>,
                    NEW p \in PostIds, server[p].ts >= from
             PROVE  IF server[p].diedAt > 0 THEN rows[p] = Nothing
                    ELSE rows[p] = server[p]
  BY DEF CaughtUpStoreIsFresh
<1>1. /\ TypeOK /\ up /\ 1 <= from /\ DiskInv /\ ServerInv
      /\ Held = {FeedResult(server)}
      /\ \A v \in view, q \in PostIds : v[q] # Nothing => v[q].ver <= Copy[q]
  BY DEF SyncInv, Inv, LinkInv, HeldInv
<1>2. /\ server[p].ts \in Nat /\ from \in Nat /\ server[p].ver \in Nat
      /\ server[p].diedAt \in Nat /\ rows[p].ver \in Nat
      /\ rows[p].diedAt \in Nat /\ tomb[p] \in Nat
  BY <1>1, VersionType DEF TypeOK
<1>3. server[p] # Nothing
  BY <1>1, <1>2, NothingFields
<1>4. Held = view
  <2>1. Len(wire) = 0
    BY EmptySeq
  <2> QED BY <2>1 DEF Held
<1>5. FeedResult(server) \in view /\ FeedResult(server)[p] = server[p]
  BY <1>1, <1>4 DEF FeedResult
<1>6. server[p].ver <= Copy[p]
  BY <1>1, <1>3, <1>5
<1>7. Copy[p] \in Nat /\ Copy[p] <= server[p].ver
  BY <1>1, CopyBound
<1>8. Copy[p] = server[p].ver
  BY <1>2, <1>6, <1>7
<1>9. /\ server[p].ver > 0
      /\ server[p].diedAt > 0 => server[p].diedAt <= server[p].ver
  BY <1>1, <1>2, <1>3 DEF ServerInv, Past
<1>10. Copy[p] = IF rows[p] = Nothing THEN tomb[p] ELSE rows[p].ver
  BY DEF Copy
<1>11. CASE server[p].diedAt > 0
  <2>1. ASSUME rows[p] # Nothing PROVE FALSE
    <3>1. rows[p].ver = server[p].ver /\ Past(rows[p], server[p]) /\ rows[p].diedAt = 0
      BY <1>1, <1>8, <1>10, <2>1 DEF DiskInv
    <3> QED BY <1>2, <1>9, <1>11, <2>1, <3>1 DEF Past
  <2> QED BY <1>11, <2>1
<1>12. CASE ~(server[p].diedAt > 0)
  <2>1. rows[p] # Nothing
    BY <1>1, <1>8, <1>9, <1>10, <1>12 DEF DiskInv
  <2>2. rows[p].ver = server[p].ver
    BY <1>8, <1>10, <2>1
  <2>3. rows[p] = server[p]
    BY <2>1, <2>2 DEF SyncInv, StampInv, Later
  <2> QED BY <1>12, <2>3
<1> QED BY <1>11, <1>12

(* A subscription with nothing under way has brought every post of its     *)
(* range to its last version.                                              *)
THEOREM CaughtUpIsFresh == Spec => []CaughtUpStoreIsFresh
<1>1. Watermark => CaughtUpStoreIsFresh
  BY FreshWhenCaughtUp DEF Watermark
<1> QED BY <1>1, WatermarkInit, WatermarkStep, PTL DEF Spec
=============================================================================
