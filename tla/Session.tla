------------------------------ MODULE Session -------------------------------
(***************************************************************************)
(* Signing in and out, and whose posts the profile screen shows.           *)
(*                                                                         *)
(* Screens are presented one over the other and, but for the profile,      *)
(* never dismissed: signing out, and the way back from registration,       *)
(* present a new login screen over everything.  Every feed screen leaves   *)
(* its subscription behind, every profile screen its observer.             *)
(* Model.userId is set by a profile screen and cleared by nobody; the      *)
(* one-shot answers a profile asked for outlive it and its user, and reach *)
(* every profile screen there is.                                          *)
(***************************************************************************)
EXTENDS Integers, Sequences

CONSTANTS
  Accounts,
  NoOne,
  MaxDepth, MaxStops     \* bounds of the model

SessionAssumption ==
  /\ NoOne \notin Accounts
  /\ MaxDepth \in Nat /\ MaxStops \in Nat

VARIABLES
  user,       \* Auth.auth().currentUser
  stack,      \* the screens, the one on top last
  busy,       \* the top screen waits for an account, its view locked
  modelUser,  \* Model.userId
  asks,       \* users whose posts a one-shot query was sent for
  feeds,      \* subscriptions to the feed
  late,       \* history: users whose answers were due when the profile opened
  stops       \* history: use of the bound

vars == <<user, stack, busy, modelUser, asks, feeds, late, stops>>

Someone == Accounts \cup {NoOne}
Screen == [kind : {"login", "register", "feed", "profile"},
           owner : Someone, shows : Someone]

TypeOK ==
  /\ user \in Someone /\ stack \in Seq(Screen) /\ stack # <<>>
  /\ busy \in BOOLEAN /\ modelUser \in Someone
  /\ asks \subseteq Accounts /\ feeds \in Nat
  /\ late \subseteq Accounts /\ stops \in Nat

Top == stack[Len(stack)]
Login == [kind |-> "login", owner |-> NoOne, shows |-> NoOne]
Present(kind, owner) ==
  stack' = Append(stack, [kind |-> kind, owner |-> owner, shows |-> NoOne])

Init ==
  /\ user \in Someone     \* the SDK keeps the account in the keychain
  /\ stack = <<Login>> /\ busy = FALSE
  /\ modelUser = NoOne /\ asks = {} /\ feeds = 0
  /\ late = {} /\ stops = 0

-----------------------------------------------------------------------------
(* gotoMainview: a feed screen, which subscribes when it loads.            *)
GotoMainview(owner) ==
  /\ Len(stack) < MaxDepth
  /\ Present("feed", owner)
  /\ feeds' = feeds + 1

(* LoginViewController.viewDidAppear with a user signed in.                *)
LoginAppears ==
  /\ Top.kind = "login" /\ ~busy /\ user # NoOne
  /\ GotoMainview(user)
  /\ UNCHANGED <<user, busy, modelUser, asks, late, stops>>

OnRegisterTapped ==
  /\ Top.kind = "login" /\ ~busy /\ user = NoOne /\ Len(stack) < MaxDepth
  /\ Present("register", NoOne)
  /\ UNCHANGED <<user, busy, modelUser, asks, feeds, late, stops>>

BackToLogin ==
  /\ Top.kind = "register" /\ ~busy /\ Len(stack) < MaxDepth
  /\ Present("login", NoOne)
  /\ UNCHANGED <<user, busy, modelUser, asks, feeds, late, stops>>

(* onLoginTapped, onRegisterTapped: the view is locked until the answer.   *)
Submit ==
  /\ Top.kind \in {"login", "register"} /\ ~busy /\ user = NoOne
  /\ Len(stack) < MaxDepth
  /\ busy' = TRUE
  /\ UNCHANGED <<user, stack, modelUser, asks, feeds, late, stops>>

Accepted(a) ==
  /\ busy
  /\ user' = a
  /\ GotoMainview(a)
  /\ busy' = FALSE
  /\ UNCHANGED <<modelUser, asks, late, stops>>

Refused ==
  /\ busy /\ busy' = FALSE
  /\ UNCHANGED <<user, stack, modelUser, asks, feeds, late, stops>>

-----------------------------------------------------------------------------
(* userPostsListNotification reaches the observer of every profile screen. *)
ShowIn(screens, a) ==
  [i \in DOMAIN screens |-> IF screens[i].kind = "profile"
                            THEN [screens[i] EXCEPT !.shows = a] ELSE screens[i]]

(* ProfileViewController.viewDidLoad: the local posts first.               *)
OpenProfile ==
  /\ Top.kind = "feed" /\ Len(stack) < MaxDepth
  /\ modelUser' = user /\ asks' = asks \cup {user}
  /\ stack' = ShowIn(Append(stack, [kind |-> "profile", owner |-> user,
                                    shows |-> NoOne]), user)
  /\ late' = asks
  /\ UNCHANGED <<user, busy, feeds, stops>>

(* Dismissed; its observer stays, but nobody sees what it shows.           *)
CloseProfile ==
  /\ Top.kind = "profile"
  /\ stack' = SubSeq(stack, 1, Len(stack) - 1)
  /\ UNCHANGED <<user, busy, modelUser, asks, feeds, late, stops>>

(* The answers come in any order, one listen for all that ask for a user.  *)
Answer(a) ==
  /\ a \in asks
  /\ asks' = asks \ {a}
  /\ stack' = ShowIn(stack, a)
  /\ UNCHANGED <<user, busy, modelUser, feeds, late, stops>>

(* News of Model.userId's posts, by any subscription of any feed screen.   *)
FeedNews ==
  /\ feeds > 0 /\ modelUser # NoOne
  /\ stack' = ShowIn(stack, modelUser)
  /\ UNCHANGED <<user, busy, modelUser, asks, feeds, late, stops>>

(* Slip: the profile is dismissed and the feed below it left.              *)
SignOutToFeed ==
  /\ Top.kind = "profile"
  /\ user' = NoOne
  /\ stack' = SubSeq(stack, 1, Len(stack) - 1)
  /\ UNCHANGED <<busy, modelUser, asks, feeds, late, stops>>

SignOut ==
  /\ Top.kind = "profile" /\ Len(stack) < MaxDepth
  /\ user' = NoOne
  /\ Present("login", NoOne)
  /\ UNCHANGED <<busy, modelUser, asks, feeds, late, stops>>

Stop ==
  /\ stops < MaxStops /\ stops' = stops + 1
  /\ stack' = <<Login>> /\ busy' = FALSE
  /\ modelUser' = NoOne /\ asks' = {} /\ feeds' = 0 /\ late' = {}
  /\ UNCHANGED user

Next ==
  \/ LoginAppears \/ OnRegisterTapped \/ BackToLogin \/ Submit \/ Refused
  \/ \E a \in Accounts : Accepted(a) \/ Answer(a)
  \/ OpenProfile \/ CloseProfile \/ FeedNews \/ SignOut
  \/ Stop

Spec == Init /\ [][Next]_vars

-----------------------------------------------------------------------------
(* The profile on top shows the posts of the user signed in; another       *)
(* user's only if that user's answer was still due when it opened.         *)
ProfileShowsOwn ==
  Top.kind = "profile" => Top.shows = user \/ Top.shows \in late

(* Whatever is below, nobody sees a feed or a profile that was opened by   *)
(* someone else or before signing out.                                     *)
TopIsOwn ==
  Top.kind \in {"feed", "profile"} => user # NoOne /\ Top.owner = user

(* What is on the screen is the signed-in user's, as a whole and in what   *)
(* the profile lists.                                                      *)
ScreensAreOwn == ProfileShowsOwn /\ TopIsOwn
=============================================================================
