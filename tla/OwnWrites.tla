----------------------------- MODULE OwnWrites ------------------------------
(***************************************************************************)
(* The like button and what a device's own writes do to its cache.         *)
(*                                                                         *)
(* A write is laid over the SDK's view before it is sent, so its effect    *)
(* comes back through the feed query at once.  A stamp that the server has *)
(* yet to set is laid over as an estimate, the device's clock plus the     *)
(* offset it last heard; sqlHandler takes the estimate for a stamp and may *)
(* move the watermark to it.  addLike sends the stamp with the like;       *)
(* removeLike sends it from the completion of the removal.  The button     *)
(* decides between the two by the likes the list last showed.              *)
(*                                                                         *)
(* A post is abstracted to the writes of other devices (ver), its stamp    *)
(* and whether this user likes it.  Stamps differ by at least one; ties,   *)
(* the profile query and fields written apart from their stamp are in      *)
(* FeedSync.  The device hears the server's news and the acknowledgements  *)
(* due with them in one step.                                              *)
(***************************************************************************)
EXTENDS Integers, Sequences, FiniteSets, FiniteSetsExt

CONSTANTS
  PostIds,
  Deltas,       \* by how much the server clock advances from stamp to stamp
  Skews,        \* estimated time minus the server's clock at the last stamp
  MaxWrites, MaxTaps, MaxStops, MaxDrops       \* bounds of the model

ASSUME OwnWritesAssumption ==
  /\ IsFiniteSet(PostIds)
  /\ Deltas \subseteq Nat \ {0} /\ Skews \subseteq Int
  /\ MaxWrites \in Nat /\ MaxTaps \in Nat /\ MaxStops \in Nat
  /\ MaxDrops \in Nat

Post == [ver : Nat, ts : Nat, like : BOOLEAN]
Nothing == [ver |-> 0, ts |-> 0, like |-> FALSE]
None == [p \in PostIds |-> Nothing]
Posts == [PostIds -> Post]
Put == [kind : {"like", "unlike", "stamp"}, post : PostIds, estimate : Nat]

VARIABLES
  server, clock,      \* the posts in the database and its clock
  up,                 \* the app's process is running
  from,               \* the lower bound of the feed query
  known,              \* what the SDK has from the server, {} before it has
  puts,               \* own writes not acknowledged, oldest first
  landed,             \* how many of them the server has applied
  wire,               \* blocks on the main queue: events and completions
  rows, lud,          \* POSTS and the watermark of the device
  feedList,           \* the posts on screen
  claim,              \* history: the watermark is the server's, or an estimate
                      \* had a part in it
  hole,               \* history: a process died with such a watermark
  lost,               \* history: posts with a write or its event lost on the way
  writes, taps, stops, drops                   \* history: use of the bounds

db    == <<server, clock>>
sdk   == <<from, known, puts, landed>>
app   == <<rows, lud, feedList, claim>>
count == <<writes, taps, stops, drops>>
vars  == <<db, up, sdk, wire, app, hole, lost, count>>

Block == [kind : {"event"}, posts : Posts, guessed : SUBSET PostIds]
           \cup [kind : {"removed"}, post : PostIds]

TypeOK ==
  /\ server \in Posts /\ clock \in Nat /\ up \in BOOLEAN
  /\ from \in Nat /\ known \subseteq Posts /\ puts \in Seq(Put)
  /\ landed \in 0 .. Len(puts) /\ wire \in Seq(Block)
  /\ rows \in Posts /\ lud \in Nat /\ feedList \in Posts
  /\ claim \in {"server", "estimate"} /\ hole \in BOOLEAN
  /\ lost \subseteq PostIds
  /\ writes \in Nat /\ taps \in Nat /\ stops \in Nat /\ drops \in Nat

Init ==
  /\ server = None /\ clock = 0 /\ up = FALSE
  /\ from = 0 /\ known = {} /\ puts = <<>> /\ landed = 0 /\ wire = <<>>
  /\ rows = None /\ lud = 0 /\ feedList = None
  /\ claim = "server" /\ hole = FALSE /\ lost = {}
  /\ writes = 0 /\ taps = 0 /\ stops = 0 /\ drops = 0

-----------------------------------------------------------------------------
(* The SDK's view of the feed query.                                       *)

InRange(post, start) == IF post.ts >= start THEN post ELSE Nothing

After(post, put, stamp) ==
  CASE put.kind = "like"   -> [post EXCEPT !.like = TRUE]
    [] put.kind = "unlike" -> [post EXCEPT !.like = FALSE]
    [] put.kind = "stamp"  -> [post EXCEPT !.ts = stamp]

(* A write shows only in posts the view holds: it has no complete copy of  *)
(* the others (FViewProcessor applyUserOverwriteTo).  The last like or     *)
(* unlike counts, and the last stamp.                                      *)
Overlaid(post, p, over) ==
  LET own    == {i \in DOMAIN over : over[i].post = p}
      likes  == {i \in own : over[i].kind # "stamp"}
      stamps == {i \in own : over[i].kind = "stamp"}
  IN [ver  |-> post.ver,
      ts   |-> IF stamps = {} THEN post.ts ELSE over[Max(stamps)].estimate,
      like |-> IF likes = {} THEN post.like ELSE over[Max(likes)].kind = "like"]

Laid(posts, over) ==
  [p \in PostIds |-> IF posts[p] = Nothing THEN Nothing
                     ELSE InRange(Overlaid(posts[p], p, over), from)]

(* The posts of the view whose stamp is an estimate.                       *)
Guessed(held, over) ==
  {p \in PostIds : /\ \E posts \in held : posts[p] # Nothing
                   /\ \E i \in DOMAIN over : over[i].kind = "stamp" /\ over[i].post = p}

View(held, over) == {Laid(posts, over) : posts \in held}

(* An event is raised if the view has changed.                             *)
Events(held, over, held2, over2) ==
  IF View(held, over) = View(held2, over2) THEN <<>>
  ELSE <<[kind |-> "event", guessed |-> Guessed(held2, over2),
          posts |-> CHOOSE posts \in View(held2, over2) : TRUE]>>

(* FRepo set: generateServerValues fixes the estimate, the write is laid   *)
(* over the view and queued.                                               *)
Set(kind, p, estimate) ==
  LET more == Append(puts, [kind |-> kind, post |-> p, estimate |-> estimate])
  IN /\ puts' = more
     /\ wire' = wire \o Events(known, puts, known, more)

Estimate == {clock + s : s \in Skews} \cap Nat

-----------------------------------------------------------------------------
(* The like button.                                                        *)

(* Slip: the like goes without a stamp.                                    *)
AddLikeUnstamped(p) == Set("like", p, 0)

AddLike(p) ==
  \E estimate \in Estimate :
    LET one == Append(puts, [kind |-> "like", post |-> p, estimate |-> 0])
        two == Append(one, [kind |-> "stamp", post |-> p, estimate |-> estimate])
    IN /\ puts' = two
       /\ wire' = wire \o Events(known, puts, known, one)
                       \o Events(known, one, known, two)

RemoveLike(p) == Set("unlike", p, 0)

OnLikeSubmit(p) ==
  /\ up /\ taps < MaxTaps /\ feedList[p] # Nothing
  /\ taps' = taps + 1
  /\ IF feedList[p].like THEN RemoveLike(p) ELSE AddLike(p)
  /\ UNCHANGED <<db, up, from, known, landed, app, hole, lost, writes, stops,
                 drops>>

(* The completion of removeLike stamps the post.                           *)
RemovedStamp(p) ==
  \E estimate \in Estimate :
    LET more == Append(puts, [kind |-> "stamp", post |-> p,
                              estimate |-> estimate])
    IN puts' = more /\ wire' = Tail(wire) \o Events(known, puts, known, more)

Removed ==
  /\ wire # <<>> /\ Head(wire).kind = "removed"
  /\ RemovedStamp(Head(wire).post)
  /\ UNCHANGED <<db, up, from, known, landed, app, hole, lost, count>>

-----------------------------------------------------------------------------
(* The server and the connection.                                          *)

Write(p) ==
  /\ writes < MaxWrites
  /\ writes' = writes + 1
  /\ \E d \in Deltas : clock' = clock + d
  /\ server' = [server EXCEPT ![p] = [ver |-> @.ver + 1, ts |-> clock',
                                      like |-> @.like]]
  /\ UNCHANGED <<up, sdk, wire, app, hole, lost, taps, stops, drops>>

Land ==
  /\ landed < Len(puts)
  /\ landed' = landed + 1
  /\ LET put == puts[landed + 1] IN
       /\ IF put.kind = "stamp" THEN \E d \in Deltas : clock' = clock + d
                                ELSE clock' = clock
       /\ server' = [server EXCEPT ![put.post] = After(@, put, clock')]
  /\ UNCHANGED <<up, from, known, puts, wire, app, hole, lost, count>>

(* The numbers of a set in ascending order.                                *)
Ascending(numbers) ==
  LET size == Cardinality(numbers) IN
  {order \in [1 .. size -> numbers] :
     /\ \A i, j \in 1 .. size : i < j => order[i] < order[j]
     /\ \A n \in numbers : \E i \in 1 .. size : order[i] = n}

(* The completions of removals, in the order of the writes.                *)
Removals(done) ==
  LET unlikes == {i \in DOMAIN done : done[i].kind = "unlike"} IN
  {[i \in DOMAIN order |-> [kind |-> "removed", post |-> done[order[i]].post]] :
     order \in Ascending(unlikes)}

(* News of the query, and the acknowledgements sent with them.  Events are *)
(* raised before the completions.                                          *)
Receive ==
  LET held == {[p \in PostIds |-> InRange(server[p], from)]}
      done == SubSeq(puts, 1, landed)
      rest == SubSeq(puts, landed + 1, Len(puts))
  IN /\ up /\ (known # held \/ done # <<>>)
     /\ known' = held /\ puts' = rest /\ landed' = 0
     /\ \E removals \in Removals(done) :
          wire' = wire \o Events(known, puts, held, rest) \o removals
     /\ UNCHANGED <<db, up, from, app, hole, lost, count>>

(* A new connection repeats every write not acknowledged.                  *)
Drop ==
  /\ drops < MaxDrops /\ landed > 0
  /\ drops' = drops + 1
  /\ landed' = 0
  /\ UNCHANGED <<db, up, from, known, puts, wire, app, hole, lost, writes,
                 taps, stops>>

-----------------------------------------------------------------------------
(* The cache.                                                              *)

(* LastUpdateDates.get: the watermark, or 0 (see LocalStore).              *)
GetLastUpdate == {lud, 0}

Delivered(posts) == {p \in PostIds : posts[p] # Nothing}
NewestOf(posts) ==
  CHOOSE p \in Delivered(posts) :
    \A q \in Delivered(posts) : posts[q].ts <= posts[p].ts

(* Slip: a post is stored only if its stamp has moved.                     *)
StoreIfNewer(posts) ==
  rows' = [p \in PostIds |-> IF posts[p].ts > rows[p].ts THEN posts[p]
                             ELSE rows[p]]

Store(posts) ==
  rows' = [p \in PostIds |-> IF posts[p] # Nothing THEN posts[p] ELSE rows[p]]

Event ==
  /\ wire # <<>> /\ Head(wire).kind = "event"
  /\ wire' = Tail(wire)
  /\ LET posts == Head(wire).posts IN
     /\ Store(posts)
     /\ \E seen \in GetLastUpdate :
          IF \E p \in PostIds : posts[p].ts > seen + 1
          THEN LET newest == NewestOf(posts) IN
               /\ lud' = posts[newest].ts
               /\ claim' = IF \E p \in Head(wire).guessed :
                                p = newest \/ posts[p] = Nothing
                           THEN "estimate" ELSE "server"
               /\ feedList' = rows'
          ELSE UNCHANGED <<lud, claim, feedList>>
  /\ UNCHANGED <<db, up, sdk, hole, lost, count>>

(* Slip: the query starts one past its lower bound.                        *)
LaunchLate ==
  /\ ~up /\ up' = TRUE
  /\ \E seen \in GetLastUpdate : from' = seen + 2
  /\ feedList' = rows
  /\ UNCHANGED <<db, known, puts, landed, wire, rows, lud, claim, hole, lost,
                 count>>

Launch ==
  /\ ~up /\ up' = TRUE
  /\ \E seen \in GetLastUpdate : from' = seen + 1
  /\ feedList' = rows
  /\ UNCHANGED <<db, known, puts, landed, wire, rows, lud, claim, hole, lost,
                 count>>

(* The process dies: writes not acknowledged and blocks not run are gone,  *)
(* the SDK keeps nothing on disk (persistenceEnabled is not set).          *)
Stop ==
  /\ up /\ stops < MaxStops
  /\ stops' = stops + 1
  /\ up' = FALSE
  /\ from' = 0 /\ known' = {} /\ puts' = <<>> /\ landed' = 0 /\ wire' = <<>>
  /\ feedList' = None
  /\ hole' = (hole \/ claim = "estimate")
  /\ lost' = lost \cup {puts[i].post : i \in DOMAIN puts}
                  \cup {wire[i].post : i \in {j \in DOMAIN wire :
                                               wire[j].kind = "removed"}}
                  \cup UNION {Delivered(wire[i].posts) :
                                i \in {j \in DOMAIN wire : wire[j].kind = "event"}}
  /\ UNCHANGED <<db, rows, lud, claim, writes, taps, drops>>

Next ==
  \/ \E p \in PostIds : OnLikeSubmit(p) \/ Write(p)
  \/ Removed \/ Event
  \/ Land \/ Receive \/ Drop
  \/ Launch \/ Stop

Spec == Init /\ [][Next]_vars

-----------------------------------------------------------------------------
(* No write of another device stays out of the cache below the point from  *)
(* which the next (or the running) query asks, unless the watermark was an *)
(* estimate when a process died, or an estimate kept a post out of the     *)
(* event that moved the watermark.                                         *)
MissedOnlyByEstimate ==
  \A p \in PostIds :
    \/ server[p].ts >= (IF up THEN from ELSE lud + 1)
    \/ rows[p].ver = server[p].ver
    \/ hole

(* The cache has the user's own like as the database has it whenever the   *)
(* app is not running, unless a write or its event was lost with a process *)
(* or a process died with a watermark that an estimate had a part in.      *)
OwnLikeIsTrue ==
  ~up => \A p \in PostIds :
           \/ rows[p] = Nothing \/ p \in lost \/ hole
           \/ rows[p].like = server[p].like

-----------------------------------------------------------------------------
(* Liveness, with nothing lost.  The connection is used and the main queue *)
(* runs; nobody has to tap.                                                *)
Fairness ==
  WF_vars(Land) /\ WF_vars(Receive) /\ WF_vars(Event) /\ WF_vars(Removed)

FairSpec == Spec /\ Fairness

(* The screen ends up showing the user's like as the database has it, so   *)
(* that the button's next tap changes it: with stamps two apart and an     *)
(* offset that does not change.                                            *)
ButtonSettles ==
  <>[](up => \A p \in PostIds :
               feedList[p] # Nothing => feedList[p].like = server[p].like)
=============================================================================
