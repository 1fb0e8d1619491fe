------------------------------ MODULE FeedSync ------------------------------
(***************************************************************************)
(* How one device keeps its cache of the posts in step with the database.  *)
(*                                                                         *)
(* At launch Model.getAllPosts subscribes to the posts stamped after the   *)
(* stored watermark and keeps that subscription for the life of the        *)
(* process; the profile screen asks once for the user's own posts.  Both   *)
(* answers go through Model.sqlHandler, which also moves the watermark.    *)
(*                                                                         *)
(* Other devices write single fields and stamp the post in a later write.  *)
(* The connection comes and goes; on reconnect the SDK repeats its listens *)
(* in dictionary order.  Events reach the main queue in the order the      *)
(* server sent them.  The process may die between two main-queue blocks,   *)
(* or inside sqlHandler (LocalStore has the statements).                   *)
(*                                                                         *)
(* A post is abstracted to how many times it was written (ver), its        *)
(* lastUpdate stamp (ts) and the write that marked it deleted (diedAt).    *)
(***************************************************************************)
EXTENDS Integers, Sequences

CONSTANTS
  PostIds,      \* keys under "Posts"
  Mine,         \* the posts of the signed-in user
  Deltas,       \* by how much the server clock advances from stamp to stamp
  MaxWrites, MaxStops, MaxDrops   \* bounds of the model

ASSUME FeedSyncAssumption ==
  /\ Mine \subseteq PostIds
  /\ Deltas \subseteq Nat
  /\ MaxWrites \in Nat /\ MaxStops \in Nat /\ MaxDrops \in Nat

Version == [ver : Nat, ts : Nat, diedAt : Nat]
Nothing == [ver |-> 0, ts |-> 0, diedAt |-> 0]
Posts   == [PostIds -> Version]
None    == [p \in PostIds |-> Nothing]

VARIABLES
  server,     \* the posts in the Firebase database
  clock,      \* the server's clock at the last stamp
  owed,       \* posts with a field written and no stamp since
  rows,       \* POSTS on the device, Nothing where there is no row
  lud,        \* LAST_UPDATE.DATE of "POSTS"
  up,         \* the app's process is running
  from,       \* the lower bound of the feed query
  view,       \* the feed result of the last event handled, {} before any
  listens,    \* the queries the SDK has listeners for
  userSet,    \* Model.userId is set
  feedList,   \* MainDisplayController.posts
  userList,   \* ProfileViewController.posts
  link,       \* connected
  asks,       \* listens sent and not yet answered
  live,       \* the server pushes changes of the feed query
  wire,       \* events on their way to the main queue
  tomb,       \* history: the tombstone version handled for a post, or 0
  gap,        \* history: see ProfileEvent
  tied,       \* history: posts stamped in the millisecond of another stamp
  writes, stops, drops            \* history: how much of the bounds is used

db     == <<server, clock, owed, tied, writes>>
disk   == <<rows, lud, tomb>>
app    == <<up, from, view, listens, userSet, feedList, userList>>
net    == <<link, asks, live, wire>>
vars   == <<db, disk, app, net, gap, stops, drops>>

Queries  == {"feed", "profile"}
Message  == [query : Queries, posts : Posts, early : BOOLEAN]

TypeOK ==
  /\ server \in Posts /\ clock \in Nat
  /\ owed \subseteq PostIds /\ tied \subseteq PostIds
  /\ rows \in Posts /\ lud \in Nat
  /\ up \in BOOLEAN /\ from \in Nat /\ view \subseteq Posts
  /\ listens \subseteq Queries /\ userSet \in BOOLEAN
  /\ feedList \in Posts /\ userList \in Posts
  /\ link \in BOOLEAN /\ asks \in Seq(Queries) /\ live \in BOOLEAN
  /\ wire \in Seq(Message)
  /\ tomb \in [PostIds -> Nat] /\ gap \in {"none", "open", "lost"}
  /\ writes \in Nat /\ stops \in Nat /\ drops \in Nat

Init ==
  /\ server = None /\ clock = 0 /\ owed = {} /\ tied = {}
  /\ rows = None /\ lud = 0
  /\ up = FALSE /\ from = 0 /\ view = {} /\ listens = {}
  /\ userSet = FALSE /\ feedList = None /\ userList = None
  /\ link = FALSE /\ asks = <<>> /\ live = FALSE /\ wire = <<>>
  /\ tomb = [p \in PostIds |-> 0] /\ gap = "none"
  /\ writes = 0 /\ stops = 0 /\ drops = 0

Own(posts) == [p \in PostIds |-> IF p \in Mine THEN posts[p] ELSE Nothing]

-----------------------------------------------------------------------------
(* The database and the queries on it.                                     *)

(* Slip: the bound of the query is taken as exclusive.                     *)
FeedResultAfter(posts) ==
  [p \in PostIds |-> IF posts[p].ts > from THEN posts[p] ELSE Nothing]

(* queryOrdered(byChild: "lastUpdate").queryStarting(atValue: from)        *)
FeedResult(posts) ==
  [p \in PostIds |-> IF posts[p].ts >= from THEN posts[p] ELSE Nothing]

(* One write lands; the server tells the listener if its result changed.   *)
Commit(p, version) ==
  /\ writes < MaxWrites
  /\ writes' = writes + 1
  /\ server' = [server EXCEPT ![p] = version]
  /\ wire' = IF live /\ FeedResult(server') # FeedResult(server)
             THEN Append(wire, [query |-> "feed", early |-> FALSE,
                                posts |-> FeedResult(server')])
             ELSE wire
  /\ UNCHANGED <<disk, app, link, asks, live, gap, stops, drops>>

(* The clock gives p a stamp, which may be that of the write before.       *)
Stamp(p) ==
  /\ \E d \in Deltas : clock' = clock + d
  /\ tied' = IF clock' = clock THEN tied \cup {p} ELSE tied \ {p}

(* updatePost of a new post: the whole record, stamp included.             *)
Create(p) ==
  /\ server[p] = Nothing
  /\ Stamp(p) /\ clock' > 0
  /\ Commit(p, [ver |-> 1, ts |-> clock', diedAt |-> 0])
  /\ UNCHANGED owed

(* updatePostParameters, setPostAsDeleted, addComment, addLike, removeLike *)
(* change a field in one write and set the stamp in another.  Deleting a   *)
(* deleted post changes nothing.                                           *)
WriteField(p, deletes) ==
  /\ server[p] # Nothing
  /\ deletes => server[p].diedAt = 0
  /\ LET next == server[p].ver + 1 IN
       Commit(p, [ver |-> next, ts |-> server[p].ts,
                  diedAt |-> IF deletes THEN next ELSE server[p].diedAt])
  /\ owed' = owed \cup {p}
  /\ UNCHANGED <<clock, tied>>

(* Slip: the stamp is read from a clock that lags.                         *)
StampBehind(p) ==
  /\ server[p] # Nothing
  /\ \E d \in Deltas : clock' = clock - d
  /\ Commit(p, [ver |-> server[p].ver + 1, ts |-> clock',
                diedAt |-> server[p].diedAt])
  /\ owed' = owed \ {p}
  /\ UNCHANGED tied

(* No fairness: the device that wrote the field may have died, or its      *)
(* removeLike failed, and the stamp never comes.  Nor is a stamp always    *)
(* owed: two devices may each send one, and one may be sent again.         *)
WriteStamp(p) ==
  /\ server[p] # Nothing
  /\ Stamp(p)
  /\ Commit(p, [ver |-> server[p].ver + 1, ts |-> clock',
                diedAt |-> server[p].diedAt])
  /\ owed' = owed \ {p}

-----------------------------------------------------------------------------
(* The process starts and stops.                                           *)

(* LastUpdateDates.get: the watermark, or 0 (see LocalStore).              *)
GetLastUpdate == {lud, 0}

(* The feed screen loads: its observer, the subscription, the local posts. *)
Launch ==
  /\ ~up
  /\ up' = TRUE
  /\ \E seen \in GetLastUpdate : from' = seen + 1
  /\ listens' = {"feed"}
  /\ feedList' = rows
  /\ UNCHANGED <<db, disk, view, userSet, userList, net, gap, stops, drops>>

(* What dies with the process.  The tables stay.                           *)
Stop ==
  /\ up /\ stops < MaxStops
  /\ stops' = stops + 1
  /\ up' = FALSE /\ from' = 0 /\ view' = {} /\ listens' = {}
  /\ userSet' = FALSE /\ feedList' = None /\ userList' = None
  /\ link' = FALSE /\ asks' = <<>> /\ live' = FALSE /\ wire' = <<>>
  /\ gap' = IF gap = "open" THEN "lost" ELSE gap
  /\ UNCHANGED <<db, lud, drops>>

Quit == Stop /\ UNCHANGED <<rows, tomb>>

(* The profile screen loads and asks for the user's own posts.             *)
OpenProfile ==
  /\ up /\ "profile" \notin listens
  /\ listens' = listens \cup {"profile"}
  /\ asks' = IF link THEN Append(asks, "profile") ELSE asks
  /\ userSet' = TRUE
  /\ userList' = Own(rows)
  /\ UNCHANGED <<db, disk, up, from, view, feedList, link, live, wire, gap,
                 stops, drops>>

-----------------------------------------------------------------------------
(* The connection.                                                         *)

(* Slip: only the queries that still wait for a first answer are repeated. *)
ConnectOnce ==
  /\ up /\ ~link
  /\ link' = TRUE
  /\ asks' = (IF view = {} THEN <<"feed">> ELSE <<>>)
             \o (IF "profile" \in listens THEN <<"profile">> ELSE <<>>)
  /\ UNCHANGED <<db, disk, app, live, wire, gap, stops, drops>>

(* restoreState repeats every listen, in whatever order the dictionary     *)
(* enumerates them.                                                        *)
Connect ==
  /\ up /\ ~link
  /\ link' = TRUE
  /\ asks' \in IF "profile" \in listens
               THEN {<<"feed", "profile">>, <<"profile", "feed">>}
               ELSE {<<"feed">>}
  /\ UNCHANGED <<db, disk, app, live, wire, gap, stops, drops>>

(* What was received stays on the main queue, the rest is lost.            *)
Drop ==
  /\ link /\ drops < MaxDrops
  /\ drops' = drops + 1
  /\ link' = FALSE /\ live' = FALSE /\ asks' = <<>>
  /\ \E received \in 0 .. Len(wire) : wire' = SubSeq(wire, 1, received)
  /\ UNCHANGED <<db, disk, app, gap, stops>>

(* The feed result the SDK holds: the last one received.                   *)
Held ==
  LET feeds == {i \in 1 .. Len(wire) : wire[i].query = "feed"} IN
  IF feeds = {} THEN view
  ELSE {wire[i].posts : i \in {i \in feeds : \A j \in feeds : j <= i}}

(* The server answers the oldest listen.  The feed's answer raises an      *)
(* event only if it differs from what the SDK already holds.               *)
AnswerFeed ==
  /\ asks # <<>> /\ Head(asks) = "feed"
  /\ asks' = Tail(asks)
  /\ live' = TRUE
  /\ wire' = IF Held = {FeedResult(server)} THEN wire
             ELSE Append(wire, [query |-> "feed", early |-> FALSE,
                                posts |-> FeedResult(server)])
  /\ UNCHANGED <<db, disk, app, link, gap, stops, drops>>

(* early: this connection has not yet answered the feed's listen.          *)
AnswerProfile ==
  /\ asks # <<>> /\ Head(asks) = "profile"
  /\ asks' = Tail(asks)
  /\ wire' = Append(wire, [query |-> "profile", early |-> ~live,
                           posts |-> Own(server)])
  /\ UNCHANGED <<db, disk, app, link, live, gap, stops, drops>>

-----------------------------------------------------------------------------
(* Model.sqlHandler on the main queue.                                     *)

Delivered(posts) == {p \in PostIds : posts[p] # Nothing}

(* Slips: a tombstone is stored like any other post; posts that did not    *)
(* come are taken for deleted; a post with an old stamp is left out.       *)
StoreAll(posts, done) ==
  /\ rows' = [p \in PostIds |-> IF p \in done THEN posts[p] ELSE rows[p]]
  /\ tomb' = [p \in PostIds |-> IF p \in done /\ posts[p].diedAt > 0
                                THEN posts[p].ver ELSE tomb[p]]

StoreWhole(posts, done) ==
  /\ rows' = [p \in PostIds |-> IF posts[p].diedAt > 0 THEN Nothing
                                ELSE posts[p]]
  /\ tomb' = [p \in PostIds |-> IF p \in done /\ posts[p].diedAt > 0
                                THEN posts[p].ver ELSE tomb[p]]

StoreIfNewer(posts, done) ==
  LET news == {p \in done : posts[p].ts > rows[p].ts} IN
  /\ rows' = [p \in PostIds |-> IF p \notin news THEN rows[p]
                                ELSE IF posts[p].diedAt > 0 THEN Nothing
                                ELSE posts[p]]
  /\ tomb' = [p \in PostIds |-> IF p \in news /\ posts[p].diedAt > 0
                                THEN posts[p].ver ELSE tomb[p]]

(* Tombstones remove the row, everything else replaces it.                 *)
Store(posts, done) ==
  /\ rows' = [p \in PostIds |-> IF p \notin done THEN rows[p]
                                ELSE IF posts[p].diedAt > 0 THEN Nothing
                                ELSE posts[p]]
  /\ tomb' = [p \in PostIds |-> IF p \in done /\ posts[p].diedAt > 0
                                THEN posts[p].ver ELSE tomb[p]]

(* Slip: one more than the code's one too many.                            *)
IsUpdatedLate(posts, seen) ==
  \E p \in Delivered(posts) : posts[p].ts > seen + 2

(* A stamp counts as news only beyond the watermark plus one.              *)
IsUpdated(posts, seen) ==
  \E p \in Delivered(posts) : posts[p].ts > seen + 1

SqlHandler(posts, seen) ==
  /\ Store(posts, Delivered(posts))
  /\ IF IsUpdated(posts, seen)
     THEN \E newest \in Delivered(posts) :
            /\ lud' = posts[newest].ts
            /\ \A p \in Delivered(posts) : posts[p].ts <= lud'
     ELSE lud' = lud

(* The feed's callback refreshes the lists only if there was news.         *)
FeedEvent ==
  /\ wire # <<>> /\ Head(wire).query = "feed"
  /\ wire' = Tail(wire)
  /\ LET posts == Head(wire).posts IN
       \E seen \in GetLastUpdate :
         /\ SqlHandler(posts, seen)
         /\ view' = {posts}
         /\ feedList' = IF IsUpdated(posts, seen) THEN rows' ELSE feedList
         /\ userList' = IF /\ IsUpdated(posts, seen) /\ userSet
                           /\ Delivered(posts) \cap Mine # {}
                        THEN Own(rows') ELSE userList
  /\ gap' = IF gap = "open" THEN "none" ELSE gap
  /\ UNCHANGED <<db, up, from, listens, userSet, link, asks, live, stops,
                 drops>>

(* The profile's callback refreshes the user's list only.  It moves the    *)
(* same watermark: after a reconnect it may run before the feed has caught *)
(* up, and until the feed does (gap) the watermark claims too much.        *)
ProfileEvent ==
  /\ wire # <<>> /\ Head(wire).query = "profile"
  /\ wire' = Tail(wire)
  /\ IF "profile" \in listens
     THEN LET posts == Head(wire).posts IN
          /\ \E seen \in GetLastUpdate : SqlHandler(posts, seen)
          /\ userList' = Own(rows')
          /\ gap' = IF Head(wire).early /\ gap = "none" THEN "open" ELSE gap
     ELSE UNCHANGED <<disk, userList, gap>>
  /\ listens' = listens \ {"profile"}
  /\ UNCHANGED <<db, up, from, view, userSet, feedList, link, asks, live,
                 stops, drops>>

(* The process dies inside sqlHandler, some posts stored, no watermark.    *)
KilledInHandler ==
  /\ wire # <<>> /\ Head(wire).query \in listens
  /\ Stop
  /\ \E done \in SUBSET Delivered(Head(wire).posts) :
       Store(Head(wire).posts, done)

-----------------------------------------------------------------------------
Write ==
  \E p \in PostIds :
    \/ Create(p)
    \/ \E deletes \in BOOLEAN : WriteField(p, deletes)
    \/ WriteStamp(p)

Next ==
  \/ Write
  \/ Launch \/ Quit \/ KilledInHandler
  \/ OpenProfile
  \/ Connect \/ Drop \/ AnswerFeed \/ AnswerProfile
  \/ FeedEvent \/ ProfileEvent

Spec == Init /\ [][Next]_vars

(* The SDK keeps trying to connect, the server answers, and the main queue *)
(* runs its blocks.  Nobody has to write, launch, open a screen or stop.   *)
FairSpec ==
  /\ Spec
  /\ WF_vars(Connect) /\ WF_vars(AnswerFeed) /\ WF_vars(AnswerProfile)
  /\ WF_vars(FeedEvent) /\ WF_vars(ProfileEvent)

-----------------------------------------------------------------------------
(* Once a tombstone was handled, the post never has a row again: no late   *)
(* event, no restart and no profile answer brings it back.                 *)
NoResurrection == \A p \in PostIds : tomb[p] > 0 => rows[p] = Nothing

(* The tables agree with the database's stamp on a post.                   *)
Stamped(p) ==
  IF rows[p] = Nothing THEN server[p].diedAt > 0 ELSE rows[p].ts = server[p].ts

(* The next launch asks only for what is stamped after the watermark, so   *)
(* every post stamped up to it must have been taken in at that stamp, in   *)
(* every state the process can die in.  The code has two exceptions: a     *)
(* profile answer that overtook the feed after a reconnect (gap), and a    *)
(* post stamped in the millisecond of a stamp before it (tied), which the  *)
(* watermark may already cover when it is written.                         *)
NothingBelowWatermarkMissed ==
  gap = "none" => \A p \in PostIds \ tied :
    server[p] # Nothing /\ server[p].ts <= lud => Stamped(p)

(* A live subscription with no event under way has brought every post of   *)
(* its range to its last version, over any reconnects before.              *)
CaughtUpStoreIsFresh ==
  live /\ wire = <<>> =>
    \A p \in PostIds : server[p].ts >= from =>
      IF server[p].diedAt > 0 THEN rows[p] = Nothing ELSE rows[p] = server[p]

(* A process that keeps running ends up with the last version of every     *)
(* post in the range of its subscription.                                  *)
InRange(p) == up /\ server[p] # Nothing /\ server[p].ts >= from
Converges ==
  <>[](\A p \in PostIds : InRange(p) =>
         rows[p] = IF server[p].diedAt > 0 THEN Nothing ELSE server[p])

(* The screens end up showing what is stored, if every field write got its *)
(* stamp, no two stamps were the same and no profile answer ever overtook  *)
(* the feed (its callback does not refresh the feed, and the feed's own    *)
(* event is then no news).  Needs stamps that differ to be at least two    *)
(* apart: a stamp of the watermark plus one is no news to sqlHandler       *)
(* either.                                                                 *)
ListsCatchUp ==
  [](gap = "none" /\ tied = {}) =>
    <>[](up /\ owed = {} => /\ feedList = rows
                           /\ (userSet => userList = Own(rows)))

(* The device implements the abstract cache.                               *)
Copy == [p \in PostIds |-> IF rows[p] = Nothing THEN tomb[p] ELSE rows[p].ver]
Replica ==
  INSTANCE PostReplica WITH
    truth  <- [p \in PostIds |-> server[p].ver],
    diedAt <- [p \in PostIds |-> server[p].diedAt],
    copy   <- Copy,
    shown  <- {p \in PostIds : rows[p] # Nothing}
IsReplica == Replica!Spec
=============================================================================
