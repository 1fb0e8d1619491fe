--------------------------- MODULE CommentsScreen ---------------------------
(***************************************************************************)
(* The comments screen and the two kinds of listeners behind it.           *)
(*                                                                         *)
(* Opening the screen adds an observer to a notification that says nothing *)
(* of which post the comments are of, and subscribes to the post's         *)
(* comments in the database.  Leaving the screen removes the observer; the *)
(* subscription stays for the life of the process.  Events of all          *)
(* subscriptions reach the main queue in the order they are raised.        *)
(*                                                                         *)
(* The comments of a post are abstracted to their number: they are only    *)
(* ever added.                                                             *)
(***************************************************************************)
EXTENDS Integers, Sequences

CONSTANTS PostIds, NoPost,
          MaxComments, MaxOpens   \* bounds of the model

CommentsScreenAssumption == NoPost \notin PostIds

VARIABLES
  comments,   \* comments of each post in the database
  subs,       \* posts with a database observer
  held,       \* the comments the SDK last raised an event with
  queue,      \* events on the main queue
  screen,     \* postId of the screen on top, or NoPost
  observing,  \* its commentsListener is registered
  leaving,    \* viewWillDisappear was called, the pop is not finished
  shown,      \* the table's contents: the first n comments of a post
  opens       \* history: how often the screen was opened

vars == <<comments, subs, held, queue, screen, observing, leaving, shown, opens>>

Comments == [post : PostIds \cup {NoPost}, n : Nat]
Empty    == [post |-> NoPost, n |-> 0]

TypeOK ==
  /\ comments \in [PostIds -> Nat]
  /\ subs \subseteq PostIds
  /\ held \in [PostIds -> Nat]
  /\ queue \in Seq(Comments)
  /\ screen \in PostIds \cup {NoPost}
  /\ observing \in BOOLEAN /\ leaving \in BOOLEAN
  /\ shown \in Comments
  /\ opens \in Nat

Init ==
  /\ comments \in [PostIds -> {0, 1}]
  /\ subs = {} /\ held = [p \in PostIds |-> 0] /\ queue = <<>>
  /\ screen = NoPost /\ observing = FALSE /\ leaving = FALSE
  /\ shown = Empty /\ opens = 0

(* Anybody's addComment reaches the database.                              *)
AddComment(p) ==
  /\ comments[p] < MaxComments
  /\ comments' = [comments EXCEPT ![p] = @ + 1]
  /\ UNCHANGED <<subs, held, queue, screen, observing, leaving, shown, opens>>

(* Slip: the newest event comes first.                                     *)
RaiseInFront(p) ==
  /\ p \in subs /\ held[p] < comments[p]
  /\ held' = [held EXCEPT ![p] = comments[p]]
  /\ queue' = <<[post |-> p, n |-> comments[p]]>> \o queue
  /\ UNCHANGED <<comments, subs, screen, observing, leaving, shown, opens>>

(* The SDK raises a value event when what it holds for a subscription      *)
(* changes.  getPostComments drops a snapshot that does not exist, so a    *)
(* post without comments raises nothing.                                   *)
Raise(p) ==
  /\ p \in subs /\ held[p] < comments[p]
  /\ held' = [held EXCEPT ![p] = comments[p]]
  /\ queue' = Append(queue, [post |-> p, n |-> comments[p]])
  /\ UNCHANGED <<comments, subs, screen, observing, leaving, shown, opens>>

(* The comments the feed's copy of the post may have.  One write raises    *)
(* the feed's event and the comments' event together, so the feed is not   *)
(* ahead of a comments event that is still queued.                         *)
FeedCopies(p) ==
  {n \in 0 .. comments[p] :
     /\ p \in subs => n <= held[p]
     /\ \A i \in 1 .. Len(queue) : queue[i].post = p => n <= queue[i].n}

(* Slip: a second observer waits for the next change.                      *)
NoFirstEvent(p) == queue

(* A second observer on a path the SDK already holds gets its first event  *)
(* at once.                                                                *)
FirstEvent(p) ==
  IF p \in subs /\ held[p] > 0
  THEN Append(queue, [post |-> p, n |-> held[p]]) ELSE queue

(* The segue hands over the post, viewDidLoad listens.                     *)
Open(p) ==
  /\ screen = NoPost /\ opens < MaxOpens
  /\ opens' = opens + 1
  /\ screen' = p /\ observing' = TRUE /\ leaving' = FALSE
  /\ \E n \in FeedCopies(p) : shown' = [post |-> p, n |-> n]
  /\ subs' = subs \cup {p}
  /\ queue' = FirstEvent(p)
  /\ UNCHANGED <<comments, held>>

(* The callback posts the notification; the observer, if there is one,     *)
(* takes the comments over, whichever post they are of.                    *)
Deliver ==
  /\ queue # <<>>
  /\ queue' = Tail(queue)
  /\ shown' = IF observing THEN Head(queue) ELSE shown
  /\ UNCHANGED <<comments, subs, held, screen, observing, leaving, opens>>

(* viewWillDisappear, when the back transition starts.                     *)
BeginBack ==
  /\ screen # NoPost /\ ~leaving
  /\ leaving' = TRUE
  /\ observing' = FALSE
  /\ UNCHANGED <<comments, subs, held, queue, screen, shown, opens>>

FinishBack ==
  /\ leaving
  /\ screen' = NoPost /\ leaving' = FALSE /\ shown' = Empty
  /\ UNCHANGED <<comments, subs, held, queue, observing, opens>>

(* The user lets go of the swipe: the screen stays, nothing listens again. *)
CancelBack ==
  /\ leaving
  /\ leaving' = FALSE
  /\ UNCHANGED <<comments, subs, held, queue, screen, observing, shown, opens>>

Next ==
  \/ \E p \in PostIds : AddComment(p) \/ Raise(p) \/ Open(p)
  \/ Deliver
  \/ BeginBack \/ FinishBack \/ CancelBack

Spec == Init /\ [][Next]_vars

(* The SDK delivers and the main queue runs; the users do as they like.    *)
Fairness ==
  /\ \A p \in PostIds : WF_vars(Raise(p))
  /\ WF_vars(Deliver)

-----------------------------------------------------------------------------
(* What a screen lists are comments of the post it was opened for.         *)
ShownBelongsToPost == screen # NoPost => shown.post = screen

(* While the screen stays open, what it lists of a post never shrinks: no  *)
(* queued event of an earlier visit, and no first event of a second        *)
(* observer, brings an older list after a newer one.                       *)
NeverBackwards ==
  [][screen # NoPost /\ screen' = screen /\ shown'.post = shown.post
       => shown'.n >= shown.n]_vars

(* A screen that stays open and listening ends up with every comment of    *)
(* its post, if the process never subscribed to another post's comments.   *)
OwnCommentsArrive ==
  \A p \in PostIds :
    <>[](screen = p /\ observing /\ subs = {p}
           => shown = [post |-> p, n |-> comments[p]])
=============================================================================
