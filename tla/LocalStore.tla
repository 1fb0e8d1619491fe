----------------------------- MODULE LocalStore -----------------------------
(***************************************************************************)
(* The SQLite cache of the posts feed and the routine that fills it,       *)
(* Model.sqlHandler, one SQL statement at a time.                          *)
(*                                                                         *)
(* sqlHandler runs on the main thread, so nothing else reads or writes the *)
(* tables while it runs; but it opens no transaction: every statement      *)
(* commits by itself, and the process may be killed between any two of     *)
(* them.  The tables are what survives; the handler's own variables do not.*)
(*                                                                         *)
(* A post is abstracted to the columns the properties tell apart: its ID,  *)
(* LAST_UPDATE (the row's version), IS_DELETED, its likes and comments.    *)
(* SQLite itself is assumed to execute the statements it is given.         *)
(***************************************************************************)
EXTENDS Integers

CONSTANTS
  PostIds,      \* POSTS.ID: the keys Firebase gave the posts
  Users,        \* LIKES.UID
  CommentIds,   \* COMMENTS.ID
  Batches       \* the [Post] arrays a Firebase callback may hand over

NoRow == -1     \* postRow[p]: POSTS has no row with this ID

Post == [id : PostIds, lastUpdate : Nat, isDeleted : {0, 1},
         likes : SUBSET Users, comments : SUBSET CommentIds]

(* A snapshot is a JSON dictionary keyed by post id: no id occurs twice.   *)
LocalStoreAssumption ==
  /\ Batches \subseteq SUBSET Post
  /\ \A b \in Batches : \A x, y \in b : x.id = y.id => x = y

VARIABLES
  postRow,      \* POSTS: LAST_UPDATE of the row, or NoRow
  likeRows,     \* LIKES has no primary key: how many (UID, POST_ID) rows
  commentRows,  \* COMMENTS: the IDs present
  lud,          \* LAST_UPDATE.DATE of the row "POSTS", 0 without a row
  phase,        \* where sqlHandler is
  batch,        \* its argument data
  todo,         \* the posts the loop has not reached
  cur,          \* {post}: the loop variable, {} outside the loop body
  left,         \* comments or likes of the post still to insert
  newest,       \* the local variable lastUpdated
  isUpdated     \* the local variable isUpdated

tables  == <<postRow, likeRows, commentRows, lud>>
handler == <<phase, batch, todo, cur, left, newest, isUpdated>>
vars    == <<tables, handler>>

Phases == {"idle", "loop", "delete", "comments", "likes", "track"}

TypeOK ==
  /\ postRow \in [PostIds -> Nat \cup {NoRow}]
  /\ likeRows \in [PostIds -> [Users -> Nat]]
  /\ commentRows \subseteq CommentIds
  /\ lud \in Nat
  /\ phase \in Phases
  /\ batch \subseteq Post
  /\ todo \subseteq Post
  /\ cur \subseteq Post
  /\ left \subseteq Users \cup CommentIds
  /\ newest \in Nat
  /\ isUpdated \in BOOLEAN

Idle ==
  /\ phase' = "idle"
  /\ batch' = {} /\ todo' = {} /\ cur' = {} /\ left' = {}
  /\ newest' = 0 /\ isUpdated' = FALSE

Init ==
  /\ postRow = [p \in PostIds |-> NoRow]
  /\ likeRows = [p \in PostIds |-> [u \in Users |-> 0]]
  /\ commentRows = {}
  /\ lud = 0
  /\ phase = "idle"
  /\ batch = {} /\ todo = {} /\ cur = {} /\ left = {}
  /\ newest = 0 /\ isUpdated = FALSE

(* LastUpdateDates.get binds the table name with a pointer to a temporary  *)
(* C string and no destructor: the string is gone when sqlite3_step reads  *)
(* it.  Either its bytes are still there, or no row matches.               *)
GetLastUpdate == {lud, 0}

(* The handler is entered with the posts of a snapshot.                    *)
Enter(data) ==
  /\ phase = "idle"
  /\ \E seen \in GetLastUpdate : newest' = seen + 1
  /\ phase' = "loop"
  /\ batch' = data
  /\ todo' = data
  /\ UNCHANGED <<tables, cur, left, isUpdated>>

(* Slips for the mutation runs: one row only is deleted; the likes of a    *)
(* deleted post are left; the likes of a post that stays are left.         *)
OneLikeRemoved(post) ==
  [likeRows EXCEPT ![post.id] = [u \in Users |-> likeRows[post.id][u] - 1]]

LikesRemovedIfLive(post) ==
  IF post.isDeleted = 1 THEN likeRows
  ELSE [likeRows EXCEPT ![post.id] = [u \in Users |-> 0]]

LikesRemovedIfDeleted(post) ==
  IF post.isDeleted = 0 THEN likeRows
  ELSE [likeRows EXCEPT ![post.id] = [u \in Users |-> 0]]

(* DELETE FROM LIKES WHERE POST_ID = ?                                     *)
LikesRemoved(post) == [likeRows EXCEPT ![post.id] = [u \in Users |-> 0]]

(* Slip: a replaced row is deleted along with its likes.                   *)
RemovePostAndLikes(post) ==
  /\ phase = "loop"
  /\ todo' = todo \ {post}
  /\ cur' = {post}
  /\ likeRows' = LikesRemoved(post)
  /\ postRow' = [postRow EXCEPT ![post.id] = NoRow]
  /\ IF post.isDeleted = 1
     THEN phase' = "delete" /\ left' = {}
     ELSE phase' = "comments" /\ left' = post.comments
  /\ UNCHANGED <<commentRows, lud, batch, newest, isUpdated>>

(* The next turn of the loop; dictionary order is arbitrary.  Its first    *)
(* statement deletes the post's likes.                                     *)
RemoveAllLikes(post) ==
  /\ phase = "loop"
  /\ todo' = todo \ {post}
  /\ cur' = {post}
  /\ likeRows' = LikesRemoved(post)
  /\ IF post.isDeleted = 1
     THEN phase' = "delete" /\ left' = {}
     ELSE phase' = "comments" /\ left' = post.comments
  /\ UNCHANGED <<postRow, commentRows, lud, batch, newest, isUpdated>>

Delete(post) ==
  /\ phase = "delete"
  /\ postRow' = [postRow EXCEPT ![post.id] = NoRow]
  /\ phase' = "track"
  /\ UNCHANGED <<likeRows, commentRows, lud, batch, todo, cur, left,
                 newest, isUpdated>>

(* Post.addNew stores the comments before it steps the row's own INSERT.   *)
AddComment(c) ==
  /\ phase = "comments"
  /\ c \in left
  /\ commentRows' = commentRows \cup {c}
  /\ left' = left \ {c}
  /\ UNCHANGED <<postRow, likeRows, lud, phase, batch, todo, cur, newest,
                 isUpdated>>

AddNew(post) ==
  /\ phase = "comments"
  /\ left = {}
  /\ postRow' = [postRow EXCEPT ![post.id] = post.lastUpdate]
  /\ phase' = "likes"
  /\ left' = post.likes
  /\ UNCHANGED <<likeRows, commentRows, lud, batch, todo, cur, newest,
                 isUpdated>>

(* INSERT OR REPLACE without a key to conflict on: it always inserts.      *)
AddNewLike(post, u) ==
  /\ phase = "likes"
  /\ u \in left
  /\ likeRows' = [likeRows EXCEPT ![post.id][u] = @ + 1]
  /\ left' = left \ {u}
  /\ UNCHANGED <<postRow, commentRows, lud, phase, batch, todo, cur, newest,
                 isUpdated>>

(* Slip: the stamp of the last post is taken for the newest.               *)
TrackLast(post) ==
  /\ phase = "track" \/ (phase = "likes" /\ left = {})
  /\ newest' = post.lastUpdate
  /\ isUpdated' = TRUE
  /\ phase' = "loop"
  /\ cur' = {}
  /\ UNCHANGED <<tables, batch, todo, left>>

(* The end of the loop body.                                               *)
TrackNewest(post) ==
  /\ phase = "track" \/ (phase = "likes" /\ left = {})
  /\ newest' = IF post.lastUpdate > newest THEN post.lastUpdate ELSE newest
  /\ isUpdated' = (isUpdated \/ post.lastUpdate > newest)
  /\ phase' = "loop"
  /\ cur' = {}
  /\ UNCHANGED <<tables, batch, todo, left>>

(* After the loop: the watermark, then the callback and the return.        *)
SetLastUpdate ==
  /\ phase = "loop"
  /\ todo = {}
  /\ lud' = IF isUpdated THEN newest ELSE lud
  /\ Idle
  /\ UNCHANGED <<postRow, likeRows, commentRows>>

(* The process dies between two statements and starts again later.         *)
Kill ==
  /\ phase # "idle"
  /\ Idle
  /\ UNCHANGED tables

Body(post) ==
  \/ Delete(post)
  \/ \E c \in CommentIds : AddComment(c)
  \/ AddNew(post)
  \/ \E u \in Users : AddNewLike(post, u)
  \/ TrackNewest(post)

Next ==
  \/ \E data \in Batches : Enter(data)
  \/ \E post \in todo : RemoveAllLikes(post)
  \/ \E post \in cur : Body(post)
  \/ SetLastUpdate
  \/ Kill

Spec == Init /\ [][Next]_vars

-----------------------------------------------------------------------------
(* Every LIKES row belongs to a POSTS row, after every statement: a kill   *)
(* never leaves likes that Post.getAll can no longer reach and that a      *)
(* later post row would inherit.                                           *)
LikesHavePost ==
  \A p \in PostIds, u \in Users : likeRows[p][u] > 0 => postRow[p] # NoRow

(* LIKES has no key, yet no user is ever counted twice on a post, however  *)
(* often a post is delivered again after a kill.                           *)
NoDuplicateLike ==
  \A p \in PostIds, u \in Users : likeRows[p][u] <= 1

(* What the tables say of a post once the loop is through with it.         *)
Applied(post) ==
  IF post.isDeleted = 1
  THEN /\ postRow[post.id] = NoRow
       /\ \A u \in Users : likeRows[post.id][u] = 0
  ELSE /\ postRow[post.id] = post.lastUpdate
       /\ \A u \in Users :
            likeRows[post.id][u] = IF u \in post.likes THEN 1 ELSE 0
       /\ post.comments \subseteq commentRows

(* The watermark moves only in a step that finds the whole batch applied,  *)
(* and never past the newest stamp of that batch: a kill cannot leave a    *)
(* watermark that claims posts which were not written.                     *)
WatermarkAfterRows ==
  [][lud' # lud => /\ \A post \in batch : Applied(post)
                   /\ \E post \in batch : lud' = post.lastUpdate
                   /\ \A post \in batch : post.lastUpdate <= lud']_vars

(* A row disappears only for a tombstone: no kill, and no replacement of a *)
(* row by a newer one, makes the feed forget a post.                       *)
RowsLeaveOnlyByTombstone ==
  [][\A d \in PostIds :
       postRow[d] # NoRow /\ postRow'[d] = NoRow
         => \E post \in cur : post.id = d /\ post.isDeleted = 1]_vars

=============================================================================
